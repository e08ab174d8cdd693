------------------------------ MODULE Recursion ------------------------------
(***************************************************************************)
(* Induction over the natural numbers, and functions defined by recursion  *)
(* over 0..n, in a form whose parameters are sets and functions: what a    *)
(* recursive definition of a model computes follows by instantiation.      *)
(***************************************************************************)
EXTENDS Integers, WellFoundedInduction, TLAPS

\* A set that has 0 and, with a number, the next one, has all of them.
LEMMA NatSet ==
  ASSUME NEW S, 0 \in S, \A n \in Nat : n \in S => n + 1 \in S
  PROVE  Nat \subseteq S
<1> DEFINE T == {n \in Nat : n \notin S}
<1>1. SUFFICES ASSUME T # {} PROVE FALSE
  OBVIOUS
<1>2. T \subseteq Nat
  OBVIOUS
<1>3. PICK m \in T : \A y \in T : ~(<<y, m>> \in OpToRel(<, Nat))
  <2> HIDE DEF T
  <2>1. QED
    BY <1>1, <1>2, WFMin, NatLessThanWellFounded
<1>4. \A y \in T : ~(y < m)
  BY <1>2, <1>3 DEF OpToRel
<1>5. m \in Nat /\ m \notin S /\ m # 0
  BY <1>3
<1>6. m - 1 \in Nat /\ m - 1 < m /\ (m - 1) + 1 = m
  BY <1>5
<1>7. m - 1 \in S
  BY <1>4, <1>6
<1>8. QED
  BY <1>5, <1>6, <1>7

\* The values a function defined by recursion over 0..n has.
Follows(f, n, b, F) == f[0] = b /\ \A i \in 1..n : f[i] = F[<<i, f[i - 1]>>]

\* There is such a function.
LEMMA RecursiveFunction ==
  ASSUME NEW N \in Nat, NEW V, NEW b \in V, NEW F \in [(1..N) \X V -> V]
  PROVE  \E f \in [0..N -> V] : Follows(f, N, b, F)
<1> DEFINE P == {n \in Nat : n <= N => \E f \in [0..n -> V] : Follows(f, n, b, F)}
<1>1. 0 \in P
  <2> DEFINE f == [i \in 0..0 |-> b]
  <2>1. f \in [0..0 -> V] /\ f[0] = b
    OBVIOUS
  <2>2. \A i \in 1..0 : FALSE
    OBVIOUS
  <2>3. Follows(f, 0, b, F)
    BY <2>1, <2>2 DEF Follows
  <2>4. QED
    BY <2>1, <2>3
<1>2. ASSUME NEW n \in Nat, n \in P PROVE n + 1 \in P
  <2> SUFFICES ASSUME n + 1 <= N
               PROVE  \E f \in [0..(n + 1) -> V] : Follows(f, n + 1, b, F)
    BY <1>2
  <2>1. PICK g \in [0..n -> V] : Follows(g, n, b, F)
    BY <1>2
  <2> DEFINE f == [i \in 0..(n + 1) |-> IF i = n + 1 THEN F[<<n + 1, g[n]>>] ELSE g[i]]
  <2>2. n \in 0..n /\ n + 1 \in 1..N /\ 0 \in 0..n /\ 0 # n + 1
    BY <1>2
  <2>3. F[<<n + 1, g[n]>>] \in V
    BY <2>1, <2>2
  <2>4. \A i \in 0..(n + 1) : i = n + 1 \/ (i \in 0..n /\ i # n + 1)
    OBVIOUS
  <2>5. f \in [0..(n + 1) -> V]
    BY <2>3, <2>4
  <2>6. \A i \in 0..n : f[i] = g[i]
    BY <2>4
  <2>7. f[n + 1] = F[<<n + 1, g[n]>>]
    BY <2>2
  <2> HIDE DEF f
  <2>8. f[0] = b
    BY <2>1, <2>2, <2>6 DEF Follows
  <2>9. ASSUME NEW i \in 1..(n + 1) PROVE f[i] = F[<<i, f[i - 1]>>]
    <3>1. CASE i = n + 1
      <4>1. i - 1 = n
        BY <3>1
      <4>2. QED
        BY <2>2, <2>6, <2>7, <3>1, <4>1
    <3>2. CASE i # n + 1
      <4>1. i \in 1..n /\ i \in 0..n /\ i - 1 \in 0..n
        BY <3>2
      <4>2. QED
        BY <2>1, <2>6, <4>1 DEF Follows
    <3>3. QED
      BY <3>1, <3>2
  <2>10. QED
    BY <2>5, <2>8, <2>9 DEF Follows
<1>3. Nat \subseteq P
  <2> HIDE DEF P
  <2>1. QED
    BY <1>1, <1>2, NatSet
<1>4. N <= N
  OBVIOUS
<1>5. QED
  BY <1>3, <1>4

\* What starts in a set and is led by F as long as it is there stays there.
LEMMA RecursionStays ==
  ASSUME NEW N \in Nat, NEW V, NEW F \in [(1..N) \X V -> V], NEW f, f[0] \in V,
         \A i \in 1..N : f[i - 1] \in V => f[i] = F[<<i, f[i - 1]>>]
  PROVE  \A i \in 0..N : f[i] \in V
<1> DEFINE P == {n \in Nat : n <= N => f[n] \in V}
<1>1. 0 \in P
  OBVIOUS
<1>2. ASSUME NEW n \in Nat, n \in P PROVE n + 1 \in P
  <2> SUFFICES ASSUME n + 1 <= N PROVE f[n + 1] \in V
    BY <1>2
  <2>1. n + 1 \in 1..N /\ (n + 1) - 1 = n /\ f[n] \in V
    BY <1>2
  <2>2. f[n + 1] = F[<<n + 1, f[n]>>]
    BY <2>1
  <2>3. QED
    BY <2>1, <2>2
<1>3. Nat \subseteq P
  <2> HIDE DEF P
  <2>1. QED
    BY <1>1, <1>2, NatSet
<1>4. QED
  BY <1>3
=============================================================================
