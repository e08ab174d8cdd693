------------------------- MODULE MCIndexingSession -------------------------
(* Small instances of IndexingSession for TLC.                             *)
EXTENDS IndexingSession

Lists == Permutations(Terms)
=============================================================================
