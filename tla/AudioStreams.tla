----------------------------- MODULE AudioStreams -----------------------------
(***************************************************************************)
(* The two loops that feed a fingerprinter: Indexer::Index, which asks the *)
(* client's audio provider for blocks and fingerprints long chunks, and    *)
(* Recognizer::Identify, which fingerprints whatever snippet the client    *)
(* has.  What becomes of the LFs is the business of other modules.         *)
(***************************************************************************)
EXTENDS Fingerprint

CONSTANTS
  Clients,           \* "INDEX", "IDENTIFY"
  Recordings,        \* the audio there is
  Sizes,             \* samples the provider or the client delivers at a time
  BlockSize,         \* samples the indexer asks for
  ChunkSize,         \* samples the indexer fingerprints at a time
  BufferSize,        \* capacity of its buffer
  SnippetSize,       \* capacity of the recognizer's buffer
  Second,            \* samples of a second
  MaxRecordingLength \* in seconds

ASSUME AudioStreamsAssumption ==
  /\ Clients \subseteq {"INDEX", "IDENTIFY"} /\ Recordings \subseteq Seq(Samples)
  /\ Sizes \subseteq Nat \ {0}
  /\ {BlockSize, ChunkSize, BufferSize, SnippetSize, Second, MaxRecordingLength} \subseteq Nat \ {0}
  \* a block fits behind what is no chunk yet (60 s of 66), and a chunk is heard
  /\ ChunkSize + BlockSize <= BufferSize + 1 /\ MinSize <= ChunkSize

VARIABLES
  client,    \* whose audio it is
  recording, \* the audio being played
  given,     \* samples of it delivered
  fp,        \* the fingerprinter
  buffer,    \* Index: audio not fingerprinted yet
  tduration, \* Index: seconds received, as it counts them
  stage,     \* "feeding", and how Index ended: "indexed", "failed"
  stream,    \* the LFs produced, QLFs of Index
  heard,     \* history: the audio the fingerprinter has taken
  cuts       \* history: the frames its blocks began and ended with

vars == <<client, recording, given, fp, buffer, tduration, stage, stream, heard, cuts>>

Init ==
  /\ client \in Clients /\ recording \in Recordings
  /\ given = 0 /\ buffer = Create(BufferSize, 0) /\ tduration = 0
  /\ fp = NewFingerprint(IF client = "INDEX" THEN BufferSize + OrigWindowSize ELSE SnippetSize)
  /\ stage = "feeding" /\ stream = <<>> /\ heard = <<>> /\ cuts = {0}

\* The fingerprinter is given some audio, and its LFs are taken.
Fingerprinted(audio) ==
  \E f \in {Process(fp, audio)} :
    /\ fp' = f
    /\ stream' = stream \o f.LF
    /\ heard' = IF Len(audio) < MinSize THEN heard ELSE heard \o audio
    /\ cuts' = cuts \cup {f.DeltaT}

Unheard == UNCHANGED <<fp, stream, heard, cuts>>

Delivered(n) == SubSeq(recording, given + 1, given + n)

Ends == given = Len(recording)

-----------------------------------------------------------------------------
(* Indexer::Index: one action is one round of its loop.                    *)

Accumulated(block) == AppendBlock(buffer, BufferSize, block)

\* The time received is a whole number: fractions of a second are lost.
Counted(block) == tduration + Len(block) \div Second

TooLong(block) == Counted(block) >= MaxRecordingLength

\* The last chunk is left in the buffer.
Bug_FullChunksOnly(audio, block) == Len(audio) >= ChunkSize

ChunkReady(audio, block) == Len(audio) >= ChunkSize \/ (audio # <<>> /\ block = <<>>)

\* The chunk stays in the buffer after it has been fingerprinted.
Bug_ChunkStays(audio) == audio

AfterChunk(audio) == <<>>

\* Without audio left the loop ends.
StageAfter(block) ==
  IF block # <<>> THEN "feeding" ELSE IF stream' = <<>> THEN "failed" ELSE "indexed"

OnAudioData(n) ==
  /\ client = "INDEX" /\ stage = "feeding"
  /\ n <= BlockSize /\ given + n <= Len(recording)
  /\ n = 0 => Ends
  /\ given' = given + n
  /\ \E block \in {Delivered(n)} : \E audio \in {Accumulated(block)} :
       /\ tduration' = Counted(block)
       /\ CASE TooLong(block) -> stage' = "failed" /\ buffer' = audio /\ Unheard
            [] ~TooLong(block) /\ ChunkReady(audio, block) ->
                 /\ Fingerprinted(audio)
                 /\ buffer' = AfterChunk(audio)
                 /\ stage' = StageAfter(block)
            [] ~TooLong(block) /\ ~ChunkReady(audio, block) ->
                 /\ buffer' = audio
                 /\ Unheard
                 /\ stage' = StageAfter(block)
  /\ UNCHANGED <<client, recording>>

AudioFails ==
  /\ client = "INDEX" /\ stage = "feeding"
  /\ stage' = "failed"
  /\ Unheard
  /\ UNCHANGED <<client, recording, given, buffer, tduration>>

-----------------------------------------------------------------------------
(* The recognizer.                                                         *)

Snippet(n) == SetData(SnippetSize, Delivered(n))

Identify(n) ==
  /\ client = "IDENTIFY" /\ given + n <= Len(recording)
  /\ given' = given + n
  /\ Fingerprinted(Snippet(n))
  /\ UNCHANGED <<client, recording, buffer, tduration, stage>>

\* Fingerprint::Reset leaves the last spectrum and LFs.
ResetFingerprint ==
  [NewFingerprint(fp.OSCapacity) EXCEPT !.Spectrum = fp.Spectrum, !.LF = fp.LF]

\* The client may reset and identify another recording.
Reset ==
  /\ client = "IDENTIFY" /\ given > 0
  /\ recording' \in Recordings
  /\ given' = 0 /\ fp' = ResetFingerprint /\ stream' = <<>>
  /\ heard' = <<>> /\ cuts' = {0}
  /\ UNCHANGED <<client, buffer, tduration, stage>>

Next ==
  \/ \E n \in Sizes \cup {0} : OnAudioData(n)
  \/ AudioFails
  \/ \E n \in Sizes : Identify(n)
  \/ Reset

Spec == Init /\ [][Next]_vars
-----------------------------------------------------------------------------
(* Properties.                                                             *)

TypeOK ==
  /\ client \in Clients /\ recording \in Recordings /\ given \in 0..Len(recording)
  /\ buffer \in Seq(Samples) /\ (stage = "feeding" => Len(buffer) < ChunkSize)
  /\ tduration \in Nat /\ stage \in {"feeding", "indexed", "failed"}
  /\ fp.OSWindow \in Seq(Samples) /\ Len(fp.OSWindow) < OrigWindowSize
  /\ fp.LID = Len(stream)

\* However the audio is cut into blocks, the windows are those of the audio
\* in one piece: no sample is lost or counted twice between two calls of
\* Process, ComputeSpectrum's overlapping window carrying the rest over.
SeamlessFrames ==
  heard # <<>> =>
    /\ fp.DeltaT = Frames(Len(heard))
    /\ fp.OSWindow = Rest(heard)
    /\ IsSuffix(fp.Spectrum, SpectrumOf(heard))

\* The LFs of a stream are numbered from 0 without a gap, as Index asserts
\* and the matcher uses them, and ordered by time, then frequency, no point
\* twice, across calls of Process.
InSequence(p, q) == p.T < q.T \/ (p.T = q.T /\ p.F < q.F)

LFsSequential ==
  /\ \A n \in DOMAIN stream : stream[n].ID = n - 1
  /\ \A n \in 1..Len(stream) - 1 : InSequence(stream[n], stream[n + 1])

\* An LF's time is where its peak is in the audio of the stream: what
\* Process adds to the times of a block (m_DeltaT) never drifts.
LFsLocated ==
  \E X \in {SpectrumOf(heard)} : \A n \in DOMAIN stream :
    LET m == stream[n].T + 1 IN m \in DOMAIN X /\ stream[n].D[0] = X[m]

\* The LFs of a stream follow each other, in number and in time.
LFsInSequence == TypeOK /\ LFsSequential /\ LFsLocated

\* Away from the ends of the blocks, the LFs and what their descriptors are
\* made from do not depend on how the audio was cut: what the indexer found
\* in chunks of a minute and the recognizer in snippets agree there.
Margin == Max({rNpT + rWp, -Min(Reach), Max(Reach)})

Interior(t) == \A c \in cuts : t >= c + Margin \/ t < c - Margin

Points(lfs) == {[T |-> lfs[n].T, F |-> lfs[n].F, D |-> lfs[n].D] :
                  n \in {i \in DOMAIN lfs : Interior(lfs[i].T)}}

InteriorAgree == Points(stream) = Points(Process(NewFingerprint(SnippetSize), heard).LF)

\* A recording is indexed whole, but for less than half a second at its end:
\* Index's buffer never overflows and its last chunk is not forgotten.
AllFingerprinted ==
  stage = "indexed" => IsPrefix(heard, recording) /\ Len(recording) - Len(heard) < MinSize

\* All of the audio is heard, and as it is.
AudioKept == SeamlessFrames /\ AllFingerprinted

-----------------------------------------------------------------------------
(* Statements the code does not keep (README, section 5): no run has them.  *)

\* "Skip points too close to spectrum boundaries to prevent incomplete
\* descriptors", says FindPeaks: every descriptor is made of frames that are
\* all there.
DescriptorsComplete == \A n \in DOMAIN stream : DOMAIN stream[n].D = Reach

\* "Recordings longer than 30m" are refused by Index: what is indexed is
\* shorter.
TooLongRefused == stage = "indexed" => Len(recording) < MaxRecordingLength * Second
==============================================================================
