----------------------------- MODULE MCBVQuantizer -----------------------------
(* Small instances of BVQuantizer for TLC.                                 *)
EXTENDS BVQuantizer

\* One corner and one near it, the opposite corner, and one between.
Corners == {<<0, 0, 0, 0, 0>>, <<1, 0, 0, 0, 0>>, <<0, 0, 1, 1, 0>>, <<1, 1, 1, 1, 1>>}
==============================================================================
