----------------------------- MODULE Fingerprint -----------------------------
(***************************************************************************)
(* The fingerprinter: audio comes in blocks, is cut into overlapping       *)
(* windows that go on from one block to the next, and the prominent peaks  *)
(* of the spectrum (points of interest, POIs) become local fingerprints    *)
(* (LFs).  A fingerprinter is a record; its operations are operators.      *)
(* Nothing under src/ asks Process to flush, so that is left out.          *)
(***************************************************************************)
EXTENDS AudioBlocks, SequencesExt, FiniteSets

CONSTANTS
  OrigWindowSize, hopSize, \* samples of a window, and between windows
  MinSize,                 \* samples of half a second
  Samples,                 \* values of a sample
  Energy,                  \* the FFT: window -> bin -> energy
  Kmin, Kmax,              \* bins of interest
  rNpT, rNpF,              \* radius of the neighbourhood a descriptor is made from
  rWp, rHp,                \* radius of the neighbourhood a POI dominates
  rWcT, nst, nbt           \* scanning windows of a descriptor: radius, stride, gap

Windows == [1..OrigWindowSize -> Samples]

ASSUME FingerprintAssumption ==
  /\ {OrigWindowSize, hopSize, MinSize, rNpT, nst} \subseteq Nat \ {0} /\ hopSize < OrigWindowSize
  /\ {Kmin, Kmax, rNpF, rWp, rHp, rWcT, nbt} \subseteq Nat
  /\ Kmin + rNpF > 0 /\ Kmin < Kmax
  \* half a second has a frame whose neighbourhood is in the spectrum
  /\ MinSize >= OrigWindowSize + 2 * rNpT * hopSize
  /\ \A w \in Windows : \A k \in 0..Kmax : Energy[w][k] \in Nat

Duration(audio) == Len(audio)

\* A fingerprinter: the capacity of m_OSBuffer, which is empty between calls,
\* m_OSWindow, m_LID, m_DeltaT, m_Spectrum and m_LF.
NewFingerprint(bufferSize) ==
  [OSCapacity |-> bufferSize, OSWindow |-> <<>>, LID |-> 0, DeltaT |-> 0, Spectrum |-> <<>>, LF |-> <<>>]

-----------------------------------------------------------------------------
(* ComputeSpectrum: frame m of the code is Spectrum[m + 1].                *)

Frames(size) ==
  IF size < OrigWindowSize THEN 0 ELSE (size - OrigWindowSize) \div hopSize + 1

\* Bug_ operators are wrong forms of the definition after them, kept to show
\* that the properties notice: here the start of the next window is off.
Bug_RestOfLast(audio) ==
  SubSeq(audio, (Frames(Len(audio)) - 1) * hopSize + 1, Len(audio))

\* What the last, incomplete window holds.
Rest(audio) == GetSubBlock(audio, Frames(Len(audio)) * hopSize, OrigWindowSize)

SpectrumOf(audio) ==
  [m \in 1..Frames(Len(audio)) |-> Energy[GetSubBlock(audio, (m - 1) * hopSize, OrigWindowSize)]]

-----------------------------------------------------------------------------
(* FindPeaks, ExtractPOI: the peak map has column k - Kmin for bin k.      *)

Inner(X) == rNpT + 1 .. Len(X) - rNpT

Columns == 0 .. Kmax - Kmin

EnergySum(e) == FoldFunction(+, 0, e)

Around(X, m, k) == EnergySum([d \in (-1..1) \X (-1..1) |-> X[m + d[1]][k + d[2]]])

\* The kernel has 6 in the middle and -1 elsewhere.
PeakAt(X, m, k) ==
  LET sum == Around(X, m, k) IN IF 7 * X[m][k] > sum THEN sum ELSE 0

PeakMap(X) ==
  [m \in 1..Len(X) |-> [j \in Columns |->
     IF m \in Inner(X) /\ j \in rNpF .. Kmax - Kmin - rNpF - 1 THEN PeakAt(X, m, j + Kmin) ELSE 0]]

\* The neighbourhood begins with the block.
Bug_FromStart(P, m, j) ==
  ((1 .. m + rWp) \cap DOMAIN P) \X ((j - rHp .. j + rHp) \cap Columns)

Neighbourhood(P, m, j) ==
  ((m - rWp .. m + rWp) \cap DOMAIN P) \X ((j - rHp .. j + rHp) \cap Columns)

\* A POI is marked by the sign of an energy, that of the bin the peak map's
\* column is taken for: a point marked on a zero is lost.
IsPOI(X, P, m, j) ==
  /\ P[m][j] > 0
  /\ \A p \in Neighbourhood(P, m, j) : P[p[1]][p[2]] <= P[m][j]
  /\ X[m][j] # 0

-----------------------------------------------------------------------------
(* ComputeDescriptors: a descriptor is made from the frames its scanning   *)
(* windows and their neighbours reach; frames beyond the spectrum count    *)
(* as silence.  Here it is those frames, by their distance from the POI.   *)

nWcT == ((2 * rNpT + 1) - (2 * rWcT + 1)) \div nst

Reach == -rNpT - nbt - rWcT .. (nWcT - 1) * nst - rNpT + nbt + 3 * rWcT

\* A POI's own frame is among them.
ASSUME ReachAssumption == 0 \in Reach

Descriptor(X, m) == [d \in {e \in Reach : m + e \in DOMAIN X} |-> X[m + d]]

\* The points of a spectrum, numbered by time, then by frequency.
Width == Kmax - Kmin + 1

Row(n) == (n - 1) \div Width + 1

Column(n) == (n - 1) % Width

\* The numbers of the POIs, as a scan of the spectrum finds them.
POIs(X, P) ==
  LET scan[n \in 0 .. Len(X) * Width] ==
        IF n = 0 THEN <<>>
        ELSE IF IsPOI(X, P, Row(n), Column(n)) THEN Append(scan[n - 1], n) ELSE scan[n - 1]
  IN  scan[Len(X) * Width]

LFsOf(X, P, LID, DeltaT) ==
  LET pois == POIs(X, P)
  IN  [n \in 1..Len(pois) |->
        [ID |-> LID + n - 1, T |-> DeltaT + Row(pois[n]) - 1, F |-> Kmin + Column(pois[n]),
         D |-> Descriptor(X, Row(pois[n]))]]

-----------------------------------------------------------------------------
(* Process: snippets shorter than half a second are ignored.               *)

\* The LFs of a block count from zero.
Bug_IDsPerBlock(fp, n) == n

NextLID(fp, n) == fp.LID + n

\* The time of a block is that of its audio, windows or not.
Bug_TimeOfAudio(fp, audio, X) == fp.DeltaT + Len(audio) \div hopSize

NextDeltaT(fp, audio, X) == fp.DeltaT + Len(X)

\* The overlap-and-save buffer keeps its size.
Bug_OSCapacity(fp, audio) == fp.OSCapacity

\* It is made larger where the audio and a window might not fit.
OSCapacity(fp, audio) == Max({fp.OSCapacity, Len(audio) + OrigWindowSize})

\* The buffer: what was left of the last block, and this one.
OSBuffer(fp, audio) ==
  LET capacity == OSCapacity(fp, audio)
  IN  AppendBlock(AppendBlock(<<>>, capacity, fp.OSWindow), capacity, audio)

Process(fp, audio) ==
  IF Duration(audio) < MinSize THEN [fp EXCEPT !.Spectrum = <<>>, !.LF = <<>>]
  ELSE LET whole == OSBuffer(fp, audio)
           X     == SpectrumOf(whole)
           lfs   == LFsOf(X, PeakMap(X), fp.LID, fp.DeltaT)
       IN  [OSCapacity |-> OSCapacity(fp, audio),
            OSWindow |-> Rest(whole),
            LID |-> NextLID(fp, Len(lfs)),
            DeltaT |-> NextDeltaT(fp, audio, X),
            Spectrum |-> X,
            LF |-> lfs]
==============================================================================
