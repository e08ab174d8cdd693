-------------------------------- MODULE Terms --------------------------------
(***************************************************************************)
(* The terms of a sequence of local fingerprints (LFs), the same for the   *)
(* indexer and for the matcher that looks them up.  An LF is a record      *)
(* [T, F, W, E]: time, frequency bin, codeword and distance to it.         *)
(***************************************************************************)
EXTENDS Integers, Sequences, SequencesExt, FiniteSets

CONSTANTS
  Kmin, qF, qT, \* lowest bin, frequency and time quantum
  qB,           \* width of a band
  Dmax, Tmax,   \* partners of a pivot at most, and how far they may be
  RoundedDown   \* times whose quotients differ by less than an integer, in floats

ASSUME TermsAssumption ==
  Kmin \in Nat /\ {qF, qT, qB, Dmax, Tmax} \subseteq Nat \ {0}

STerm(lf) == <<lf.W, (lf.F - Kmin + 1) \div qF>>

Truncated(a, b) == IF a >= b THEN (a - b) \div qF ELSE -((b - a) \div qF)

Vpt(ti, tj) == (tj - ti) \div qT - (IF <<ti, tj>> \in RoundedDown THEN 1 ELSE 0)

BTerm(p, q) == <<p.W, p.F \div qB, q.W, Vpt(p.T, q.T), Truncated(q.F, p.F)>>

SameBand(p, q) == p.F \div qB = q.F \div qB

\* The first Dmax LFs of the pivot's band, while the time is near enough.
Partners(r, i) ==
  LET near == {j \in i + 1..Len(r) : r[j].T - r[i].T <= Tmax /\ SameBand(r[i], r[j])}
  IN  {j \in near : Cardinality({k \in near : k < j}) < Dmax}

\* The terms of LF i, in the order the loops form them.
TermsOf(type, r, i) ==
  IF type = "MSCALE" THEN <<STerm(r[i])>>
  ELSE LET js == SetToSortSeq(Partners(r, i), <) IN [n \in 1..Len(js) |-> BTerm(r[i], r[js[n]])]
==============================================================================
