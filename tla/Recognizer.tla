----------------------------- MODULE Recognizer -----------------------------
(***************************************************************************)
(* One identification after another: RecognizerImpl over a matcher.        *)
(*                                                                         *)
(* The client feeds audio with Identify, may Flush what the matcher has    *)
(* not matched yet, reads the results, and resets.  What the matcher finds *)
(* is left open: any list of best matches, at any step with enough local   *)
(* fingerprints (LFs).  Units of time and confidence are the classifier's. *)
(***************************************************************************)
EXTENDS MatchFuzzyClassifier, SequencesExt

CONSTANTS
  FIDs,          \* the recordings of the index
  NoFID,         \* the FID of the null match
  Types,         \* identification types the client sets
  IdModes,       \* identification modes the client sets
  Confs,         \* confidences a matching step can show
  MaxTies,       \* bound: best matches of equal score
  Overflows,     \* whether scores may come near the 32-bit limit
  Nk,            \* LFs of a matching step
  Extracted,     \* numbers of LFs one call of Identify may yield
  Duration,      \* duration of the audio of a call
  FlushTimes,    \* durations the flushed LFs may span
  BinaryIdThreshold, BinaryIdMinTime,
  TimeBound,     \* bound: the audio of an identification
  LateBound,     \* bound: the same, of audio fed after the answer
  Grace          \* how late an answer may be

ASSUME RecognizerAssumption ==
  /\ NoFID \notin FIDs
  /\ Types \subseteq {"FUZZY", "BINARY"} /\ IdModes \subseteq Modes
  /\ Confs \subseteq 0..One /\ Overflows \subseteq BOOLEAN
  /\ Extracted \subseteq Nat /\ FlushTimes \subseteq Nat
  /\ {Nk, Duration} \subseteq Nat \ {0}
  /\ {MaxTies, BinaryIdMinTime, TimeBound, LateBound, Grace} \subseteq Nat
  /\ BinaryIdThreshold \in 0..One

MaxIdTime == 200

VARIABLES
  idType, idMode,  \* m_IdType, m_IdMode
  idTime,          \* m_IdTime
  lfs,             \* LFs the matcher has not matched, Xk.size() - m_ko
  results,         \* m_Matcher.GetResults()
  acc,             \* m_MatchAcc
  idMatches        \* m_IdMatches

vars == <<idType, idMode, idTime, lfs, results, acc, idMatches>>

\* MatchResults_t: the best matches (empty if there are none), the confidence
\* top1 / (top1 + top2), and whether the best score is near the limit.
NoResults == [best |-> <<>>, conf |-> 0, big |-> FALSE]

\* What a matching step can make of the results: without candidates they
\* stay; best matches are replaced but never lost; scores only grow.
BestLists == {q \in SeqOf(FIDs, MaxTies) : q # <<>> /\ IsInjective(q)}

Matched(old) ==
  {old} \cup {r \in [best : BestLists, conf : Confs, big : Overflows] : old.big => r.big}

NoAcc == [q \in FIDs |-> [Conf |-> 0, Time |-> 0, Steps |-> 0]]

Fresh == [lfs |-> 0, results |-> NoResults, acc |-> NoAcc, idMatches |-> <<>>]

Init ==
  /\ idType \in Types /\ idMode \in IdModes /\ idTime = 0
  /\ lfs = 0 /\ results = NoResults /\ acc = NoAcc /\ idMatches = <<>>

-----------------------------------------------------------------------------
(* The state of an identification, s, is a record of the last four         *)
(* variables.                                                              *)

\* A confidence that is 0/0.
NaN == -1

\* Bug_ operators are wrong forms of the definition after them, kept to show
\* that the properties notice: here the sum is not divided.
Bug_SumNotMean(a) == a.Conf

Mean(a) == IF a.Steps = 0 THEN NaN ELSE a.Conf \div a.Steps

Null == [FID |-> NoFID, Confidence |-> 0, IdClass |-> UNIDENTIFIED]

\* FillResults: the best matches of now, all with the class of the one that
\* was classified, and the end marker.
FillResults(s, class) ==
  LET Entry(q) == [FID |-> q, Confidence |-> Mean(s.acc[q]), IdClass |-> class]
      Entries  == [i \in DOMAIN s.results.best |-> Entry(s.results.best[i])]
  IN  [s EXCEPT !.idMatches = Append(Entries, Null)]

\* A failed identification leaves no results.
Bug_NothingPushed(s) == s

NoMatch(s) == IF s.idMatches = <<>> THEN [s EXCEPT !.idMatches = <<Null>>] ELSE s

\* The end of DoClassification, with the buffers flushed.
Conclude(s, class) ==
  CASE class = LISTENING    -> s
    [] class = UNIDENTIFIED -> NoMatch(s)
    [] OTHER                -> FillResults(s, class)

\* A best match q has held for another dt with a confidence conf.
Weighed(s, q, conf, dt) ==
  [s EXCEPT !.acc[q] = [Conf |-> @.Conf + conf, Time |-> @.Time + dt, Steps |-> @.Steps + 1]]

\* The last step's confidence counts, not the mean.
Bug_LastConfidence(a, conf) == conf

Evidence(a, conf) == Mean(a)

\* The time of the identification counts, not the match's.
Bug_AnyTime(a, time) == time

Ti(a, time) == IF time < MaxIdTime THEN a.Time ELSE time

ClassOf(s, q, conf, time) ==
  Classify(idMode, Evidence(s.acc[q], conf), Ti(s.acc[q], time))

\* The threshold is forgotten.
Bug_NoThreshold(s, time) == time >= BinaryIdMinTime

Accepted(s, time) == s.results.conf >= BinaryIdThreshold /\ time >= BinaryIdMinTime

\* The best matches of a binary identification: the last confidence counts.
BinaryBest(s, time) ==
  LET best == ToSet(s.results.best)
      New(q) == IF q \in best THEN [s.acc[q] EXCEPT !.Conf = s.results.conf, !.Steps = 1]
                ELSE s.acc[q]
      u == [s EXCEPT !.acc = [q \in FIDs |-> New(q)]]
  IN  IF best # {} /\ Accepted(s, time) THEN FillResults(u, IDENTIFIED) ELSE u

\* A later result replaces the answer.
Bug_AlwaysOpen(s) == TRUE

Open(s) == s.idMatches = <<>>

\* A score near the limit counts as the time being up.
CurTime(s, time) == IF s.results.big THEN MaxIdTime ELSE time

\* ProcessMatchResults as Flush calls it: LFs were processed, and flushing
\* again has no effect.
ProcessFlushed(s, dt, time) ==
  LET best == s.results.best
      conf == s.results.conf
      Step(u, q) ==
        LET v == Weighed(u, q, conf, dt) IN Conclude(v, ClassOf(v, q, conf, time))
      after[i \in 0..Len(best)] == IF i = 0 THEN s ELSE Step(after[i - 1], best[i])
      b == BinaryBest(s, time)
  IN  CASE ~Open(s) -> s
        [] Open(s) /\ idType = "BINARY" -> IF time >= MaxIdTime THEN NoMatch(b) ELSE b
        [] Open(s) /\ idType = "FUZZY"  ->
             IF best = <<>> THEN Conclude(s, Classify(idMode, 0, time)) ELSE after[Len(best)]

\* Flush, after which the matcher has the results fl.results and has matched
\* LFs of a duration fl.time; fewer than two LFs are not matched.
FlushTo(fl, s, time) ==
  LET u == [s EXCEPT !.lfs = 0, !.results = fl.results]
  IN  IF s.lfs < 2 THEN s ELSE ProcessFlushed(u, fl.time, CurTime(u, time))

DoClassification(s, class, time, fl) ==
  IF class = UNIDENTIFIED THEN NoMatch(FlushTo(fl, s, time)) ELSE Conclude(s, class)

\* Each of the best matches is classified; their list and their confidence
\* are taken before, a flush in between may change them.
Fuzzy(s, processed, dt, time, fl) ==
  LET best == s.results.best
      conf == s.results.conf
      Step(u, q) ==
        LET v == Weighed(u, q, conf, dt)
        IN  DoClassification(v, ClassOf(v, q, conf, time), time, fl)
      after[i \in 0..Len(best)] == IF i = 0 THEN s ELSE Step(after[i - 1], best[i])
  IN  IF processed /\ best # <<>> THEN after[Len(best)]
      ELSE DoClassification(s, Classify(idMode, 0, time), time, fl)

Binary(s, processed, time, fl) ==
  LET u == IF processed THEN BinaryBest(s, time) ELSE s
  IN  IF processed /\ time >= MaxIdTime /\ Open(u) THEN NoMatch(FlushTo(fl, u, time)) ELSE u

ProcessMatchResults(s, processed, dt, time, fl) ==
  CASE ~Open(s) -> s
    [] Open(s) /\ idType = "FUZZY"  -> Fuzzy(s, processed, dt, CurTime(s, time), fl)
    [] Open(s) /\ idType = "BINARY" -> Binary(s, processed, CurTime(s, time), fl)

-----------------------------------------------------------------------------
(* The client's calls.                                                     *)

State == [lfs |-> lfs, results |-> results, acc |-> acc, idMatches |-> idMatches]

Becomes(s) ==
  /\ lfs' = s.lfs /\ results' = s.results /\ acc' = s.acc /\ idMatches' = s.idMatches

\* What a flush can find, the results being old before.
Flushes(old) == [results : Matched(old), time : FlushTimes]

Identify(n) ==
  LET left  == (lfs + n) % Nk
      steps == lfs + n >= Nk
      time  == idTime + Duration
  IN  /\ idTime < IF idMatches = <<>> THEN TimeBound ELSE LateBound
      /\ idTime' = time
      /\ \E now \in IF steps THEN Matched(results) ELSE {results} :
           \E fl \in IF left < 2 \/ idMatches # <<>> THEN {[results |-> now, time |-> 0]}
                     ELSE Flushes(now) :
             \E s \in {ProcessMatchResults([State EXCEPT !.lfs = left, !.results = now],
                                           steps, Duration, time, fl)} : Becomes(s)
      /\ UNCHANGED <<idType, idMode>>

Flush ==
  /\ lfs >= 2
  /\ \E fl \in Flushes(results) : \E s \in {FlushTo(fl, State, idTime)} : Becomes(s)
  /\ UNCHANGED <<idType, idMode, idTime>>

Reset ==
  /\ idTime # 0
  /\ idTime' = 0 /\ Becomes(Fresh)
  /\ UNCHANGED <<idType, idMode>>

\* The setters, which a client calls between identifications.
Configure(type, mode) ==
  /\ idTime = 0
  /\ idType' = type /\ idMode' = mode
  /\ UNCHANGED <<idTime, lfs, results, acc, idMatches>>

Next ==
  \/ \E n \in Extracted : Identify(n)
  \/ Flush
  \/ Reset
  \/ \E type \in Types, mode \in IdModes : Configure(type, mode)

Spec == Init /\ [][Next]_vars

-----------------------------------------------------------------------------
(* Properties.                                                             *)

\* The type of every variable.
TypeOK ==
  /\ idType \in Types /\ idMode \in IdModes /\ idTime \in Nat /\ lfs \in 0..(Nk - 1)
  /\ results \in Matched(NoResults)
  /\ acc \in [FIDs -> [Conf : Nat, Time : Nat, Steps : Nat]]
  /\ idMatches \in Seq([FID : FIDs \cup {NoFID}, Confidence : 0..One \cup {NaN}, IdClass : Classes])

\* A fuzzy identification ends, with a match or without, whatever the audio
\* yields: the classifier alone has to bring it to an end.
AnswerInTime == idType = "FUZZY" /\ idTime >= MaxIdTime + Grace => idMatches # <<>>

\* Once the time is up, new match results end an identification of any type.
EndsOnceMatched ==
  [][idTime' >= MaxIdTime /\ results' # results => idMatches' # <<>>]_vars

\* Results once given stay until the reset, whatever is fed or flushed then:
\* the client reads them through a pointer into the recognizer.
AnswerStands ==
  [][idMatches # <<>> /\ idMatches' # idMatches => idMatches' = <<>> /\ idTime' = 0]_vars

\* An answer comes with the first match results after the limit, once, and
\* stays.
AnsweredOnce == EndsOnceMatched /\ AnswerStands

\* An answer IDENTIFIED is "a clear evidence of a match with a strong
\* confidence value" (audioneex.h:123): every match it lists has one, even
\* when the answer came from the flush that a first classification made.
Identified == {i \in DOMAIN idMatches : idMatches[i].IdClass = IDENTIFIED}

StrongConfidence ==
  \A i \in Identified :
    idMatches[i].Confidence >=
      IF idType = "BINARY" THEN BinaryIdThreshold ELSE CONF[idMode].HIGH[1]

\* A recording is not identified by one short matching step: it was the best
\* match for the shortest time that counts as medium, unless time was up.
EvidenceTakesTime ==
  idType = "FUZZY" =>
    \A i \in Identified :
      \/ acc[idMatches[i].FID].Time > CDUR[idMode].MED[1]
      \/ idTime >= MaxIdTime \/ results.big

\* An answer has the confidence and the listening time it claims.
AnswersSound == TypeOK /\ StrongConfidence /\ EvidenceTakesTime

-----------------------------------------------------------------------------
(* A statement the code does not keep (README, section 5): no run has it.   *)

\* Every identification ends, with a match or without, whatever the audio
\* yields: "The recognizer will always return a results set after a set period
\* of time has elapsed" (audioneex.h:551).
AlwaysAnswers == idTime >= MaxIdTime + Grace => idMatches # <<>>
=============================================================================
