------------------------------- MODULE Library -------------------------------
(***************************************************************************)
(* The programs that share one data store, run one after the other:        *)
(*   example1  indexes audio files (AudioIndexingTask)                     *)
(*   example2  indexes the stored fingerprints again (QFPIndexingTask)     *)
(*   example3  identifies audio files (IdentificationTask)                 *)
(*   example4  identifies what it hears, until it is terminated            *)
(*   test      starts over: Clear, then waits for an empty store           *)
(*                                                                         *)
(* What the postings look like is the business of IndexingSession and      *)
(* CBSession: the index is one list, in which every recording has one      *)
(* posting, written and refused as a whole.  Here it is about the three    *)
(* collections telling of the same recordings: the index, the fingerprints *)
(* that candidates are reranked with, and the metadata that is shown.      *)
(***************************************************************************)
EXTENDS Collections, SequencesExt

CONSTANTS
  Drivers,      \* subset of {"TC", "CB"}
  Recordings,   \* the audio files
  Broken,       \* those Index finds no fingerprint in
  Directories,  \* bound: the sets of files the programs are given
  LFs,          \* of each recording, how many LFs
  CacheLimit,   \* the indexer's cache limit, in postings
  Reach,        \* LFs around a match that are reranked, on either side
  CarefulBase,  \* example1 is told (-f) to go on after the last FID
  WithID3,      \* the programs are built with metadata (WITH_ID3)
  MaxFID,       \* bound: FIDs are 1..MaxFID
  MaxRuns,      \* bound: number of programs run
  MaxTroubles,  \* bound: number of deaths and of database errors
  NoFile

ASSUME LibraryAssumption ==
  /\ Drivers \subseteq {"TC", "CB"} /\ Broken \subseteq Recordings
  /\ Directories \subseteq SUBSET Recordings \ {{}}
  /\ LFs \in [Recordings -> Nat \ {0}]
  /\ CacheLimit \in Nat \ {0} /\ {Reach, MaxFID, MaxRuns, MaxTroubles} \subseteq Nat
  /\ {CarefulBase, WithID3} \subseteq BOOLEAN
  /\ NoFile \notin Recordings /\ NoName \notin Recordings

VARIABLES
  driver,               \* the driver the programs were built with
  created,              \* the collections whose files exist
  index, fps, meta,     \* the store's contents
  erasing,              \* Couchbase: buckets being emptied
  dirty,                \* history: a clearing has begun and not been seen to end
  stale,                 \* history: FIDs whose metadata a clearing left behind
  prog, opened,         \* the program, and the collections it opened
  pc, ret,              \* where it is, and where it goes on after a flush
  files, file,          \* audio files it has yet to do, and the one it does
  FID, nrec,            \* m_FID, the count of fingerprints
  currFID, cache,       \* the indexer: m_CurrFID, m_Cache
  terminated,           \* m_Terminated
  buffer,               \* m_ReadBuffer
  heard, matches,       \* the recognizer: files it was given, its results
  told, piece,          \* history: the last result shown, the last reranked LFs
  troubles, runs        \* counters of the bounds

content == <<index, fps, meta>>
server  == <<driver, created, erasing>>
indexer == <<FID, nrec, currFID, cache>>
reader  == <<buffer, heard, matches, told, piece>>
cleared == <<dirty, stale>>
bounds  == <<troubles, runs>>
vars    == <<content, server, cleared, prog, opened, pc, ret, files, file, indexer, terminated, reader, bounds>>

Collection == {"index", "fps", "meta"}

Fingerprint(r) == [n \in 1..LFs[r] |-> <<r, n>>]

NothingTold  == [file |-> NoFile, FID |-> 0, of |-> NoFile, name |-> NoName]
NothingRead  == [of |-> NoFile, from |-> 0, data |-> <<>>]

Init ==
  /\ driver \in Drivers
  /\ created = IF driver = "CB" THEN Collection ELSE {}
  /\ index = <<>> /\ fps = Nothing /\ meta = Nothing /\ erasing = {} /\ dirty = FALSE /\ stale = {}
  /\ prog = "none" /\ opened = {} /\ pc = "idle" /\ ret = "idle" /\ files = {} /\ file = NoFile
  /\ FID = 0 /\ nrec = 0 /\ currFID = 0 /\ cache = <<>> /\ terminated = FALSE
  /\ buffer = <<>> /\ heard = {} /\ matches = {}
  /\ told = NothingTold /\ piece = NothingRead
  /\ troubles = 0 /\ runs = 0

Faults == IF troubles < MaxTroubles THEN BOOLEAN ELSE {FALSE}

Count(fault) == troubles' = IF fault THEN troubles + 1 ELSE troubles

\* A program ends: nothing of it is left but what is stored.
Ended ==
  /\ prog' = "none" /\ opened' = {} /\ pc' = "idle" /\ ret' = "idle" /\ files' = {} /\ file' = NoFile
  /\ FID' = 0 /\ nrec' = 0 /\ currFID' = 0 /\ cache' = <<>> /\ terminated' = FALSE
  /\ buffer' = <<>> /\ heard' = {} /\ matches' = {}
  /\ told' = NothingTold /\ piece' = NothingRead

\* An exception reaches main, or the process is killed, at any step.
Abort ==
  /\ prog # "none" /\ troubles < MaxTroubles /\ troubles' = troubles + 1
  /\ Ended
  /\ UNCHANGED <<content, server, cleared, runs>>

Done ==
  /\ pc = "done"
  /\ Ended
  /\ UNCHANGED <<content, server, cleared, bounds>>

-----------------------------------------------------------------------------
(* Opening the store.  A GET opens TokyoCabinet's files only for reading   *)
(* and fails without them; buckets are always there.                       *)

\* A program begins.  Whoever has begun to clear the store sees it through
\* before running anything else.
Begins(program, collections, get) ==
  /\ prog = "none" /\ (dirty => program = "test")
  /\ get => collections \subseteq created
  /\ runs < MaxRuns /\ runs' = runs + 1
  /\ created' = created \cup collections
  /\ prog' = program /\ opened' = collections

-----------------------------------------------------------------------------
(* example1.                                                               *)

Bases == IF CarefulBase THEN {Cardinality(DOMAIN fps)} ELSE {0, Cardinality(DOMAIN fps)}

Example1(base, dir) ==
  /\ Begins("example1", Collection, FALSE)
  /\ base \in Bases /\ base + Cardinality(dir) <= MaxFID
  /\ files' = dir /\ FID' = base /\ pc' = "index"
  /\ UNCHANGED <<content, driver, erasing, cleared, ret, file, nrec, currFID, cache, terminated, reader, troubles>>

\* The cache is not flushed before the end.
Bug_AfterCaching(next) == pc' = next /\ UNCHANGED ret

\* Index flushes a full cache and goes on.
AfterCaching(next) ==
  IF Len(cache') >= CacheLimit THEN pc' = "flush" /\ ret' = next ELSE pc' = next /\ UNCHANGED ret

\* A recording without fingerprint takes a FID with it.
Bug_FIDAfterFailure(fid) == fid

\* The FID of a recording that failed is used for the next one.
FIDAfterFailure(fid) == fid - 1

\* A file that failed is tried again.
Bug_FilesAfterFailure(r) == files

FilesAfterFailure(r) == files \ {r}

\* DoIndexing of one file, up to the flush in Index.  The posting is cached,
\* then the fingerprint is stored.
DoIndexing(r) ==
  /\ pc = "index" /\ prog = "example1" /\ ~terminated /\ r \in files
  /\ IF r \in Broken
     THEN /\ FID' = FIDAfterFailure(FID + 1) /\ files' = FilesAfterFailure(r)
          /\ UNCHANGED <<fps, pc, ret, file, currFID, cache>>
     ELSE /\ FID' = FID + 1 /\ currFID' = FID' /\ file' = r
          /\ cache' = Append(cache, [FID |-> FID', of |-> r])
          /\ fps' = Put(fps, FID', Fingerprint(r))
          /\ AfterCaching("metadata")
          /\ UNCHANGED files
  /\ UNCHANGED <<index, meta, server, cleared, prog, opened, nrec, terminated, reader, bounds>>

\* A record that is there already is kept.
Bug_RecordKept(fid, name) == IF fid \in DOMAIN meta THEN meta ELSE Put(meta, fid, name)

WriteMetadata(fid, name) ==
  IF driver = "TC" THEN TCWriteMetadata(meta, fid, name) ELSE CBWriteMetadata(meta, fid, name)

\* Once a recording is indexed its metadata is stored: here, its name.
PutMetadata ==
  /\ pc = "metadata"
  /\ meta' = (IF WithID3 THEN WriteMetadata(FID, file) ELSE meta)
  /\ stale' = (IF WithID3 THEN stale \ {FID} ELSE stale)
  /\ files' = files \ {file} /\ file' = NoFile /\ pc' = "index"
  /\ UNCHANGED <<index, fps, server, dirty, prog, opened, ret, indexer, terminated, reader, bounds>>

\* DoFlush compares the last FID with the greatest of the list.
Refused == index # <<>> /\ Last(cache).FID <= Last(index).FID

Flush ==
  /\ pc = "flush"
  /\ IF Refused THEN Ended /\ UNCHANGED index
     ELSE /\ index' = index \o cache /\ cache' = <<>> /\ pc' = ret /\ ret' = "idle"
          /\ UNCHANGED <<prog, opened, files, file, FID, nrec, currFID, terminated, reader>>
  /\ UNCHANGED <<fps, meta, server, cleared, bounds>>

\* The end of Run: End flushes what is cached, or not.
EndRun(flush) ==
  IF cache # <<>> /\ flush THEN pc' = "flush" /\ ret' = "done" ELSE pc' = "done" /\ UNCHANGED ret

\* Run is over.  A terminated example1 does not flush the cache.
EndExample1 ==
  /\ pc = "index" /\ prog = "example1" /\ (files = {} \/ terminated)
  /\ EndRun(~terminated)
  /\ UNCHANGED <<content, server, cleared, prog, opened, files, file, indexer, terminated, reader, bounds>>

\* Terminate may be called at any time.
Terminate ==
  /\ prog \notin {"none", "test"} /\ pc # "done" /\ ~terminated /\ terminated' = TRUE
  /\ UNCHANGED <<content, server, cleared, prog, opened, pc, ret, files, file, indexer, reader, bounds>>

-----------------------------------------------------------------------------
(* example2.                                                               *)

Example2 ==
  /\ Begins("example2", {"index", "fps"}, FALSE)
  /\ pc' = "count"
  /\ UNCHANGED <<content, driver, erasing, cleared, ret, files, file, indexer, terminated, reader, troubles>>

GetFingerprintsCount ==
  IF driver = "TC" THEN TCGetRecordsCount(fps, "fps" \in opened)
  ELSE CBGetRecordsCount(fps, "fps" \in opened)

\* FIDs are taken to be 1 to the number of fingerprints.
CountFingerprints ==
  /\ pc = "count"
  /\ IF GetFingerprintsCount = 0 THEN Ended
     ELSE /\ nrec' = GetFingerprintsCount /\ FID' = 1 /\ pc' = "reindex"
          /\ UNCHANGED <<prog, opened, ret, files, file, currFID, cache, terminated, reader>>
  /\ UNCHANGED <<content, server, cleared, bounds>>

\* The loop ends one short of the count.
Bug_MoreFingerprints == FID < nrec

MoreFingerprints == FID <= nrec

ReadFingerprint(fid, n, bo, fault) ==
  IF driver = "TC" THEN TCReadFingerprint(fps, fid, n, bo, fault)
  ELSE CBReadFingerprint(fps, fid, n, bo, fault)

\* One round of the loop: the fingerprint is read, or skipped, and indexed
\* out of the read buffer.
Reindex ==
  /\ pc = "reindex" /\ MoreFingerprints /\ ~terminated
  /\ \E fault \in Faults : \E read \in {ReadFingerprint(FID, 0, 0, fault)} :
       /\ Count(fault)
       /\ CASE read.failed -> Ended
            [] ~read.failed /\ read.value = <<>> ->
                 /\ FID' = FID + 1
                 /\ UNCHANGED <<prog, opened, pc, ret, files, file, nrec, currFID, cache, terminated, reader>>
            [] ~read.failed /\ read.value # <<>> ->
                 /\ buffer' = Filled(buffer, read.value)
                 /\ LET fp == Taken(buffer', Len(read.value))
                    IN  cache' = Append(cache, [FID |-> FID, of |-> fp[1][1]])
                 /\ currFID' = FID /\ FID' = FID + 1 /\ AfterCaching("reindex")
                 /\ UNCHANGED <<prog, opened, files, file, nrec, terminated, heard, matches, told, piece>>
  /\ UNCHANGED <<content, server, cleared, runs>>

EndExample2 ==
  /\ pc = "reindex" /\ (~MoreFingerprints \/ terminated)
  /\ EndRun(TRUE)
  /\ UNCHANGED <<content, server, cleared, prog, opened, files, file, indexer, terminated, reader, bounds>>

\* The index is removed, to be built again from the fingerprints.
RemoveIndex ==
  /\ prog = "none" /\ ~dirty /\ index # <<>>
  /\ index' = <<>>
  /\ UNCHANGED <<fps, meta, server, cleared, prog, opened, pc, ret, files, file, indexer, terminated, reader, bounds>>

-----------------------------------------------------------------------------
(* example3 and example4.                                                  *)

Example3(dir) ==
  /\ Begins("example3", Collection, TRUE)
  /\ files' = dir /\ pc' = "identify"
  /\ UNCHANGED <<content, driver, erasing, cleared, ret, file, indexer, terminated, reader, troubles>>

Example4 ==
  /\ Begins("example4", Collection, TRUE)
  /\ files' = Recordings /\ pc' = "identify"
  /\ UNCHANGED <<content, driver, erasing, cleared, ret, file, indexer, terminated, reader, troubles>>

\* Identify, of a file or of what the line plays: the recognizer is given
\* audio until it has results or there is no more, and is flushed then.
\* Its results are of what it has heard since it was reset: the best
\* candidate, several that tie, or none.
Listen(r) ==
  /\ pc = "identify" /\ ~terminated /\ r \in files
  /\ file' = r /\ heard' = heard \cup {r}
  /\ told' = NothingTold /\ piece' = NothingRead
  /\ \E M \in SUBSET {p \in ToSet(index) : p.of \in heard'} :
       /\ matches' = M
       /\ pc' = IF M = {} THEN "report" ELSE "rerank"
  /\ UNCHANGED <<content, server, cleared, prog, opened, ret, files, indexer, terminated, buffer, bounds>>

ReadFingerprintSize(fid, fault) ==
  IF driver = "TC" THEN TCReadFingerprintSize(fps, fid, fault) ELSE CBReadFingerprintSize(fps, fid, fault)

After(Qlen, Sij, right) == Min({right, Qlen - Sij - 1})

\* Reranking, of one candidate: the LFs around the one that matched (Sij)
\* are read, left and right as many as there are around the query's.
Rerank(p, Sij, left, right) ==
  /\ pc = "rerank" /\ p \in matches /\ Sij < LFs[p.of]
  /\ \E fault \in Faults :
       LET size == ReadFingerprintSize(p.FID, fault)
           ss   == Sij - Min({Sij, left})
           se   == Sij + After(size.value, Sij, right)
           read == ReadFingerprint(p.FID, se - ss + 1, ss, FALSE)
       IN  /\ Count(fault)
           /\ IF size.failed \/ size.value = 0 \/ Sij >= size.value \/ Len(read.value) # se - ss + 1
              THEN Ended
              ELSE /\ buffer' = Filled(buffer, read.value)
                   /\ piece' = [of |-> p.of, from |-> ss, data |-> Taken(buffer', se - ss + 1)]
                   /\ pc' = "report"
                   /\ UNCHANGED <<prog, opened, ret, files, file, indexer, terminated, heard, matches, told>>
  /\ UNCHANGED <<content, server, cleared, runs>>

ReadMetadata(fid, fault) ==
  IF driver = "TC" THEN TCReadMetadata(meta, fid, fault) ELSE CBReadMetadata(meta, fid, fault)

\* OnResults: a single best match is shown with its metadata.
OnResults(fault) ==
  IF Cardinality(matches) # 1 THEN NothingTold
  ELSE LET best == CHOOSE p \in matches : TRUE
       IN  [file |-> file, FID |-> best.FID, of |-> best.of, name |-> ReadMetadata(best.FID, fault).value]

\* The recognizer is not reset.
Bug_HeardAfterReport == {heard}

\* example3 resets the recognizer after each file ("IMPORTANT: Always reset
\* the recognizer for new identifications if reused"), example4 after
\* results.
HeardAfterReport == IF prog = "example4" /\ matches = {} THEN {heard, {}} ELSE {{}}

Report ==
  /\ pc = "report"
  /\ \E fault \in Faults : Count(fault) /\ told' = OnResults(fault)
  /\ heard' \in HeardAfterReport /\ matches' = {} /\ file' = NoFile /\ piece' = NothingRead
  /\ files' = IF prog = "example3" THEN files \ {file} ELSE files
  /\ pc' = "identify"
  /\ UNCHANGED <<content, server, cleared, prog, opened, ret, indexer, terminated, buffer, runs>>

EndIdentify ==
  /\ pc = "identify" /\ (files = {} \/ terminated)
  /\ pc' = "done"
  /\ UNCHANGED <<content, server, cleared, prog, opened, ret, files, file, indexer, terminated, reader, bounds>>

-----------------------------------------------------------------------------
(* Starting over, as the tests do.                                         *)

\* The test opens no metadata.
StartOver ==
  /\ Begins("test", {"index", "fps"}, FALSE)
  /\ pc' = "clear"
  /\ UNCHANGED <<content, driver, erasing, cleared, ret, files, file, indexer, terminated, reader, troubles>>

\* A collection that was not opened counts as empty, and dropping it does
\* nothing.
NotEmpty == {c \in opened : CASE c = "index" -> index # <<>>
                              [] c = "fps"   -> fps # Nothing
                              [] c = "meta"  -> meta # Nothing}

Empty == NotEmpty = {}

\* The contents once the collections in dropped are emptied.
Emptied(dropped) ==
  /\ index' = IF "index" \in dropped THEN <<>> ELSE index
  /\ fps'   = IF "fps" \in dropped THEN Nothing ELSE fps
  /\ meta'  = IF "meta" \in dropped THEN Nothing ELSE meta

\* Clear drops the index first; an exception or a death may leave the rest.
Clear(dropped) ==
  /\ pc = "clear" /\ ~Empty /\ dirty' = TRUE
  /\ IF driver = "TC" THEN Emptied(dropped) /\ UNCHANGED erasing
     ELSE erasing' = erasing \cup (dropped \cap NotEmpty) /\ UNCHANGED content
  /\ IF dropped = opened
     THEN pc' = "wait" /\ UNCHANGED <<prog, opened, ret, files, file, indexer, terminated, reader, troubles>>
     ELSE troubles < MaxTroubles /\ troubles' = troubles + 1 /\ Ended
  /\ UNCHANGED <<driver, created, stale, runs>>

\* The server empties a bucket some time after it was asked to.
BucketEmptied(c) ==
  /\ c \in erasing /\ erasing' = erasing \ {c}
  /\ Emptied({c})
  /\ UNCHANGED <<driver, created, cleared, prog, opened, pc, ret, files, file, indexer, terminated, reader, bounds>>

\* The waiting ends with the index empty.
Bug_SeenEmpty == index = <<>>

SeenEmpty == Empty

WaitEmpty ==
  /\ (pc = "clear" /\ Empty) \/ (pc = "wait" /\ SeenEmpty)
  /\ dirty' = FALSE /\ stale' = DOMAIN meta /\ pc' = "done"
  /\ UNCHANGED <<content, server, prog, opened, ret, files, file, indexer, terminated, reader, bounds>>

-----------------------------------------------------------------------------
\* What a program does by itself.
Step ==
  \/ \E r \in Recordings : DoIndexing(r)
  \/ PutMetadata
  \/ Flush
  \/ EndExample1
  \/ CountFingerprints
  \/ Reindex
  \/ EndExample2
  \/ \E r \in Recordings : Listen(r)
  \/ \E p \in matches, Sij \in 0..Max({LFs[r] : r \in Recordings}), left, right \in 0..Reach :
       Rerank(p, Sij, left, right)
  \/ Report
  \/ EndIdentify
  \/ \E dropped \in {{"index"}, opened} : Clear(dropped)
  \/ WaitEmpty
  \/ Done

Next ==
  \/ Step
  \/ \E base \in 0..MaxFID, dir \in Directories : Example1(base, dir)
  \/ Example2
  \/ \E dir \in Directories : Example3(dir)
  \/ Example4
  \/ StartOver
  \/ Abort
  \/ Terminate
  \/ RemoveIndex
  \/ \E c \in Collection : BucketEmptied(c)

\* A running process goes on, and so does the server.
Spec == Init /\ [][Next]_vars /\ WF_vars(Step) /\ \A c \in Collection : WF_vars(BucketEmptied(c))

-----------------------------------------------------------------------------
(* Properties.                                                             *)

TypeOK ==
  /\ driver \in Drivers /\ {created, opened, erasing} \subseteq SUBSET Collection
  /\ \A p \in ToSet(index) \cup ToSet(cache) \cup matches : p.FID \in 1..MaxFID /\ p.of \in Recordings
  /\ (DOMAIN fps) \cup (DOMAIN meta) \subseteq 1..MaxFID
  /\ {dirty, terminated} \subseteq BOOLEAN /\ stale \subseteq DOMAIN meta
  /\ prog \in {"none", "example1", "example2", "example3", "example4", "test"}
  /\ pc \in {"idle", "index", "metadata", "flush", "count", "reindex", "identify", "rerank", "report",
             "clear", "wait", "done"} /\ ret \in {"idle", "metadata", "reindex", "done"}
  /\ files \subseteq Recordings /\ file \in Recordings \cup {NoFile}
  /\ FID \in 0..MaxFID + 1 /\ currFID \in 0..FID
  /\ Len(cache) <= CacheLimit /\ heard \subseteq Recordings

\* A FID names one recording: the posting that is matched, the fingerprint it
\* is reranked with and the metadata shown are of the same file, whatever
\* failed, was terminated, killed, indexed again or cleared before.  They are
\* written at different times, and FIDs of failed files are used again.  Only
\* metadata that a clearing left may be of an earlier file.
NamesAgree ==
  ~dirty => \A p \in ToSet(index) :
    /\ p.FID \in DOMAIN fps => fps[p.FID] = Fingerprint(p.of)
    /\ p.FID \in DOMAIN meta \ stale => meta[p.FID] = p.of

\* What an earlier file left under a FID is out of sight again once the next
\* file of that FID is indexed, unless example1 dies or fails between its flush
\* and its metadata.
OldNamesReplaced ==
  WithID3 /\ ~dirty /\ troubles = 0 =>
    \A p \in ToSet(index) : p.FID \in stale => p.FID = FID /\ pc = "metadata"

\* No posting is readable before its fingerprint is: a candidate can always
\* be reranked.
PostingsFingerprinted == ~dirty => \A p \in ToSet(index) : p.FID \in DOMAIN fps

\* Fingerprints are numbered without a gap, as example2 takes for granted:
\* no failed or unfinished recording leaves one.
NumberedFromOne == ~dirty => DOMAIN fps = 1..Cardinality(DOMAIN fps)

\* Index, fingerprints and metadata are of the same recordings, numbered
\* without a gap.
CollectionsAgree ==
  TypeOK /\ NamesAgree /\ OldNamesReplaced /\ PostingsFingerprinted /\ NumberedFromOne

\* When example2 says it is done, the index is the one of all fingerprints.
\* (A read error of TokyoCabinet passes for a missing fingerprint.)
ReindexComplete ==
  prog = "example2" /\ pc = "done" /\ ~terminated /\ (troubles = 0 \/ driver = "CB") =>
    {p.FID : p \in ToSet(index)} = DOMAIN fps

\* A client that numbers on from the count of fingerprints is not refused.
NeverRefused == prog = "example1" /\ cache # <<>> => ~Refused

\* A program that numbers on can index, and one that indexes again indexes
\* everything.
IndexedInFull == ReindexComplete /\ NeverRefused

\* The LFs a candidate is reranked with are those around its match, never a
\* remainder of the buffer or LFs of another recording.
RerankedRight ==
  piece # NothingRead =>
    piece.data = SubSeq(Fingerprint(piece.of), piece.from + 1, piece.from + Len(piece.data))

\* example3 tells of a file only what was found in that file, under its own
\* name or, where the metadata is missing or cannot be read, under none.  The
\* name is of an earlier file only where a clearing left it and a death or an
\* error kept the file's own from being stored.
ToldRight ==
  /\ told.name \in {told.of, NoName} \/ (told.FID \in stale /\ (troubles > 0 \/ ~WithID3))
  /\ prog = "example3" => told.file = told.of

\* What a client is told rests on the right recording's fingerprint, file and
\* name.
AnswersRight == RerankedRight /\ ToldRight

\* Every program but example4 comes to an end: no failed file, missing
\* fingerprint or bucket slow to empty keeps it for ever.
RunEnds == prog \in {"example1", "example2", "example3", "test"} ~> prog = "none"
=============================================================================
