---------------------------- MODULE MCRecognizer ----------------------------
(* Small instances of Recognizer for TLC.                                  *)
EXTENDS Recognizer, TLC

Recordings == Permutations(FIDs)
=============================================================================
