---------------------------- MODULE MCCBSession ----------------------------
(* Small instances of CBSession for TLC.                                   *)
EXTENDS CBSession

Lists == Permutations(Terms)
=============================================================================
