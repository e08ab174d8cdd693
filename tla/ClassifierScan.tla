--------------------------- MODULE ClassifierScan ---------------------------
(***************************************************************************)
(* The fuzzy classifier over all confidences and durations of a grid: a    *)
(* match of a fixed confidence is listened to longer and longer.           *)
(***************************************************************************)
EXTENDS MatchFuzzyClassifier

CONSTANTS
  ConfStep,   \* the grid of the confidences
  MaxTime     \* bound: the longest duration

ASSUME ScanAssumption == ConfStep \in Nat \ {0} /\ MaxTime \in Nat

VARIABLES mode, Hu, dT

scan == <<mode, Hu, dT>>

ScanInit == mode \in Modes /\ Hu \in {n \in 0..One : n % ConfStep = 0} /\ dT = 0

Listen ==
  /\ dT < MaxTime /\ dT' = dT + 1
  /\ UNCHANGED <<mode, Hu>>

ScanSpec == ScanInit /\ [][Listen]_scan

Class == Classify(mode, Hu, dT)

\* At the maximum identification time every confidence gives an answer: the
\* identification has no other way to end (Recognizer.cpp:197-201).  No rule
\* says so; it follows from the slopes crossing where they do.
SettledInTime == dT >= 200 => Class # LISTENING

\* At any duration a greater confidence does not give a worse answer.
ConfidenceHelps ==
  LET more == Classify(mode, Lesser(Hu + ConfStep, One), dT)
  IN  Class # LISTENING /\ more # LISTENING => Class <= more
=============================================================================
