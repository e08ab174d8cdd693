------------------------------ MODULE MCLibrary ------------------------------
(* A small instance of Library for TLC.                                    *)
EXTENDS Library

CONSTANTS r1, r2, r3

Lengths == (r1 :> 2) @@ (r2 :> 1) @@ (r3 :> 1)
=============================================================================
