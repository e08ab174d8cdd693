------------------------- MODULE PostingsListProofs -------------------------
(***************************************************************************)
(* What a reader gets back from the blocks of a postings list: lemmas      *)
(* about Encode, Decode and ListOf, for lists of any length.               *)
(***************************************************************************)
EXTENDS PostingsList, Recursion, SequenceTheorems, FiniteSetTheorems

\* A bounded nonempty set of numbers has its maximum in it.
LEMMA MaxInSet ==
  ASSUME NEW n \in Nat, NEW S \in SUBSET (1..n), S # {}
  PROVE  Max(S) \in S /\ \A s \in S : Max(S) >= s
<1> DEFINE T == {m \in Nat : n - m \in S}
<1>1. T \subseteq Nat
  OBVIOUS
<1>2. T # {}
  <2>1. PICK s \in S : TRUE
    OBVIOUS
  <2>2. n - s \in Nat /\ n - (n - s) = s
    BY <2>1
  <2>3. QED
    BY <2>1, <2>2
<1>3. PICK m \in T : \A y \in T : ~(<<y, m>> \in OpToRel(<, Nat))
  <2> HIDE DEF T
  <2>1. QED
    BY <1>1, <1>2, WFMin, NatLessThanWellFounded
<1>4. \A y \in T : ~(y < m)
  BY <1>3, <1>1 DEF OpToRel
<1>5. n - m \in S
  BY <1>3
<1>6. \A s \in S : n - m >= s
  <2>1. TAKE s \in S
  <2>2. n - s \in Nat /\ n - (n - s) = s /\ s \in Int
    BY <2>1
  <2>3. ~(n - s < m)
    BY <1>4, <2>1, <2>2
  <2>4. m \in Nat
    BY <1>3
  <2> HIDE DEF T
  <2>5. QED
    BY <2>2, <2>3, <2>4
<1>7. QED
  BY <1>5, <1>6 DEF Max

FIDs32 == 0 .. FidMod - 1

\* A sequence whose deltas are those of a body.
SumsOf(s, body) ==
  /\ s \in Seq(FIDs32) /\ Len(s) = Len(body)
  /\ \A i \in 1..Len(body) : s[i] = ((IF i = 1 THEN 0 ELSE s[i - 1]) + body[i]) % FidMod

\* Decode is a sequence of running sums.
LEMMA DecodeSums ==
  ASSUME NEW body \in Seq(Nat)
  PROVE  SumsOf(Decode(body), body)
<1> DEFINE n == Len(body)
           F == [p \in (1..n) \X FIDs32 |-> (p[2] + body[p[1]]) % FidMod]
           sum == CHOOSE f : f = [i \in 0..n |-> IF i = 0 THEN 0 ELSE (f[i - 1] + body[i]) % FidMod]
<1>1. n \in Nat /\ \A i \in 1..n : body[i] \in Nat
  OBVIOUS
<1>2. FidMod \in Nat /\ FidMod > 0 /\ 0 \in FIDs32 /\ FIDs32 \subseteq Nat
  BY FidModAssumption DEF FIDs32
<1>3. \A x \in Nat : x % FidMod \in FIDs32
  BY <1>2 DEF FIDs32
<1>4. F \in [(1..n) \X FIDs32 -> FIDs32]
  <2>1. ASSUME NEW p \in (1..n) \X FIDs32 PROVE (p[2] + body[p[1]]) % FidMod \in FIDs32
    <3>1. p[2] \in Nat /\ body[p[1]] \in Nat
      BY <1>1, <1>2
    <3>2. p[2] + body[p[1]] \in Nat
      BY <3>1
    <3>3. QED
      BY <1>3, <3>2
  <2>2. QED
    BY <2>1
<1>5. \A i \in 1..n, x \in FIDs32 : F[<<i, x>>] = (x + body[i]) % FidMod
  OBVIOUS
<1> HIDE DEF F, n
<1>6. PICK g \in [0..n -> FIDs32] : Follows(g, n, 0, F)
  BY <1>1, <1>2, <1>4, RecursiveFunction
<1>7. \A i \in 0..n : i = 0 \/ (i \in 1..n /\ i - 1 \in 0..n)
  BY <1>1
<1>8. g = [i \in 0..n |-> IF i = 0 THEN 0 ELSE (g[i - 1] + body[i]) % FidMod]
  <2>1. \A i \in 0..n : g[i] = IF i = 0 THEN 0 ELSE (g[i - 1] + body[i]) % FidMod
    BY <1>5, <1>6, <1>7 DEF Follows
  <2>2. QED
    BY <1>6, <2>1
<1>9. sum = [i \in 0..n |-> IF i = 0 THEN 0 ELSE (sum[i - 1] + body[i]) % FidMod]
  BY <1>8
<1>10. Decode(body) = [i \in 1..n |-> sum[i]]
  BY DEF Decode, n
<1> HIDE DEF sum
<1>11. sum[0] = 0 /\ \A i \in 1..n : sum[i] = (sum[i - 1] + body[i]) % FidMod
  <2>1. 0 \in 0..n /\ \A i \in 1..n : i \in 0..n /\ i # 0
    BY <1>1
  <2>2. QED
    BY <1>9, <2>1
<1>12. \A i \in 0..n : sum[i] \in FIDs32
  <2> DEFINE P == {i \in Nat : i <= n => sum[i] \in FIDs32}
  <2>1. 0 \in P
    BY <1>2, <1>11
  <2>2. ASSUME NEW i \in Nat, i \in P PROVE i + 1 \in P
    <3> SUFFICES ASSUME i + 1 <= n PROVE sum[i + 1] \in FIDs32
      BY <2>2
    <3>1. i <= n /\ i + 1 \in 1..n /\ (i + 1) - 1 = i
      BY <1>1, <2>2
    <3>2. sum[i] \in Nat /\ body[i + 1] \in Nat
      BY <1>1, <1>2, <2>2, <3>1 DEF n
    <3>3. sum[i] + body[i + 1] \in Nat
      BY <3>2
    <3>4. QED
      BY <1>3, <1>11, <3>1, <3>3
  <2>3. Nat \subseteq P
    <3> HIDE DEF P
    <3>1. QED
      BY <2>1, <2>2, NatSet
  <2>4. QED
    BY <1>1, <2>3
<1> DEFINE d == Decode(body)
<1>13. d \in Seq(FIDs32) /\ Len(d) = n /\ \A i \in 1..n : d[i] = sum[i]
  <2>1. \A i \in 1..n : sum[i] \in FIDs32
    BY <1>1, <1>12
  <2>2. QED
    BY <1>1, <1>10, <2>1
<1>14. ASSUME NEW i \in 1..n
       PROVE  d[i] = ((IF i = 1 THEN 0 ELSE d[i - 1]) + body[i]) % FidMod
  <2>1. CASE i = 1
    <3>1. sum[i - 1] = 0
      BY <1>11, <2>1
    <3>2. QED
      BY <1>11, <1>13, <2>1, <3>1
  <2>2. CASE i # 1
    <3>1. i - 1 \in 1..n
      BY <1>1, <2>2
    <3>2. QED
      BY <1>11, <1>13, <2>2, <3>1
  <2>3. QED
    BY <2>1, <2>2
<1>15. QED
  BY <1>13, <1>14 DEF SumsOf, n

\* The running sums are determined by the body.
LEMMA SumsUnique ==
  ASSUME NEW body \in Seq(Nat), NEW s, NEW r, SumsOf(s, body), SumsOf(r, body)
  PROVE  s = r
<1> DEFINE n == Len(body)
           P == {i \in Nat : i + 1 <= n => s[i + 1] = r[i + 1]}
<1>1. n \in Nat
  OBVIOUS
<1>2. \A i \in 1..n : /\ s[i] = ((IF i = 1 THEN 0 ELSE s[i - 1]) + body[i]) % FidMod
                      /\ r[i] = ((IF i = 1 THEN 0 ELSE r[i - 1]) + body[i]) % FidMod
  BY DEF SumsOf
<1> HIDE DEF n
<1>3. 0 \in P
  <2> SUFFICES ASSUME 0 + 1 <= n PROVE s[0 + 1] = r[0 + 1]
    OBVIOUS
  <2>1. 0 + 1 = 1 /\ 1 \in 1..n
    BY <1>1
  <2>2. QED
    BY <1>2, <2>1
<1>4. ASSUME NEW i \in Nat, i \in P PROVE i + 1 \in P
  <2> SUFFICES ASSUME (i + 1) + 1 <= n PROVE s[(i + 1) + 1] = r[(i + 1) + 1]
    BY <1>4
  <2>1. i + 1 <= n /\ (i + 1) + 1 \in 1..n /\ (i + 1) + 1 # 1 /\ ((i + 1) + 1) - 1 = i + 1
    BY <1>1
  <2>2. s[i + 1] = r[i + 1]
    BY <1>4, <2>1
  <2>3. QED
    BY <1>2, <2>1, <2>2
<1>5. Nat \subseteq P
  <2> HIDE DEF P
  <2>1. QED
    BY <1>3, <1>4, NatSet
<1>6. \A i \in 1..n : s[i] = r[i]
  <2> SUFFICES ASSUME NEW i \in 1..n PROVE s[i] = r[i]
    OBVIOUS
  <2>1. i - 1 \in Nat /\ (i - 1) + 1 = i /\ i <= n
    BY <1>1
  <2>2. QED
    BY <1>5, <2>1
<1>7. s \in Seq(FIDs32) /\ r \in Seq(FIDs32) /\ Len(s) = n /\ Len(r) = n
  BY DEF SumsOf, n
<1>8. QED
  BY <1>6, <1>7, SeqEqual

\* Adding the difference of two words gives the second one.
LEMMA WordSum ==
  ASSUME NEW x \in FIDs32, NEW y \in FIDs32
  PROVE  (x - y) % FidMod \in Nat /\ (y + ((x - y) % FidMod)) % FidMod = x
<1>1. FidMod \in Nat /\ FidMod > 0
  BY FidModAssumption
<1>2. x \in Int /\ y \in Int /\ 0 <= x /\ x < FidMod /\ 0 <= y /\ y < FidMod
  BY <1>1 DEF FIDs32
<1>a. \A z \in 0 .. FidMod - 1 : z % FidMod = z
  BY <1>1, SMT
<1>3. CASE x >= y
  <2>1. x - y \in 0 .. FidMod - 1 /\ y + (x - y) = x /\ x \in 0 .. FidMod - 1
    BY <1>1, <1>2, <1>3
  <2>2. QED
    BY <1>a, <2>1
<1>4. CASE x < y
  <2> DEFINE d == x - y
  <2>1. d \in Int /\ d + FidMod \in 0 .. FidMod - 1
    BY <1>1, <1>2, <1>4
  <2>2. d % FidMod = d + FidMod
    <3> HIDE DEF d
    <3> DEFINE q == d \div FidMod
               m == d % FidMod
    <3>1. q \in Int /\ m \in 0 .. FidMod - 1 /\ d = FidMod * q + m
      BY <1>1, <2>1, SMT
    <3> HIDE DEF q, m
    <3>2. q = -1
      <4>1. FidMod * (q + 1) = FidMod * q + FidMod
        BY <1>1, <3>1, SMT
      <4>2. FidMod * (q + 1) = (d + FidMod) - m
        BY <1>1, <2>1, <3>1, <4>1
      <4>3. 0 - FidMod < FidMod * (q + 1) /\ FidMod * (q + 1) < FidMod
        BY <1>1, <2>1, <3>1, <4>2
      <4>4. ASSUME NEW z \in Int, z >= 1 \/ z <= -1
            PROVE  FidMod * z >= FidMod \/ FidMod * z <= 0 - FidMod
        <5>1. z >= 1 => FidMod * z >= FidMod
          BY <1>1, SMT
        <5>2. z <= -1 => FidMod * z <= 0 - FidMod
          BY <1>1, SMT
        <5>3. QED
          BY <4>4, <5>1, <5>2
      <4>5. q + 1 \in Int /\ FidMod * (q + 1) \in Int
        BY <1>1, <3>1, SMT
      <4>6. ~(q + 1 >= 1 \/ q + 1 <= -1)
        BY <1>1, <4>3, <4>4, <4>5
      <4>7. QED
        BY <3>1, <4>5, <4>6
    <3>3. FidMod * q = 0 - FidMod
      BY <1>1, <3>2
    <3>4. QED
      BY <1>1, <2>1, <3>1, <3>3 DEF m
  <2>3. y + (d + FidMod) = x + FidMod
    BY <1>1, <1>2
  <2>4. (x + FidMod) % FidMod = x
    <3> DEFINE q == (x + FidMod) \div FidMod
               m == (x + FidMod) % FidMod
    <3>1. q \in Int /\ m \in 0 .. FidMod - 1 /\ x + FidMod = FidMod * q + m
      BY <1>1, <1>2, SMT
    <3> HIDE DEF q, m
    <3>2. FidMod * (q - 1) = FidMod * q - FidMod /\ q - 1 \in Int
      BY <1>1, <3>1, SMT
    <3>3. FidMod * (q - 1) = x - m
      BY <1>1, <1>2, <3>1, <3>2
    <3>4. ASSUME NEW z \in Int, z >= 1 \/ z <= -1
          PROVE  FidMod * z >= FidMod \/ FidMod * z <= 0 - FidMod
      <4>1. z >= 1 => FidMod * z >= FidMod
        BY <1>1, SMT
      <4>2. z <= -1 => FidMod * z <= 0 - FidMod
        BY <1>1, SMT
      <4>3. QED
        BY <3>4, <4>1, <4>2
    <3>5. ~(q - 1 >= 1 \/ q - 1 <= -1)
      BY <1>1, <1>2, <3>1, <3>2, <3>3, <3>4
    <3>6. q - 1 = 0
      <4>1. \A z \in Int : z >= 1 \/ z <= -1 \/ z = 0
        OBVIOUS
      <4>2. QED
        BY <3>2, <3>5, <4>1
    <3>7. x = m
      BY <1>1, <1>2, <3>1, <3>3, <3>6
    <3>8. QED
      BY <3>7 DEF m
  <2>5. d % FidMod \in Nat /\ (y + (d % FidMod)) % FidMod = x
    <3>1. d % FidMod \in Nat
      BY <1>1, <2>1, <2>2
    <3>2. (y + (d % FidMod)) % FidMod = (x + FidMod) % FidMod
      <4> HIDE DEF d
      <4>1. QED
        BY <2>2, <2>3, Zenon
    <3>3. QED
      BY <2>4, <3>1, <3>2
  <2>6. QED
    BY <2>5
<1>5. QED
  BY <1>2, <1>3, <1>4

\* The elements of a concatenation.
LEMMA ConcatElements ==
  ASSUME NEW X, NEW u \in Seq(X), NEW v \in Seq(X)
  PROVE  /\ u \o v \in Seq(X) /\ Len(u \o v) = Len(u) + Len(v)
         /\ \A i \in 1..Len(u) : (u \o v)[i] = u[i]
         /\ \A j \in 1..Len(v) : (u \o v)[Len(u) + j] = v[j]
         /\ ToSet(u \o v) = ToSet(u) \cup ToSet(v)
<1>1. Len(u) \in Nat /\ Len(v) \in Nat
  OBVIOUS
<1>2. u \o v \in Seq(X) /\ Len(u \o v) = Len(u) + Len(v)
  OBVIOUS
<1>3. \A i \in 1..Len(u) : (u \o v)[i] = u[i]
  OBVIOUS
<1>4. ASSUME NEW j \in 1..Len(v) PROVE (u \o v)[Len(u) + j] = v[j]
  <2>1. Len(u) + j \in 1..(Len(u) + Len(v)) /\ ~(Len(u) + j <= Len(u))
        /\ (Len(u) + j) - Len(u) = j
    BY <1>1
  <2>2. QED
    BY <2>1, ConcatProperties
<1>5. \A w : ToSet(w) = Range(w)
  BY DEF ToSet, Range
<1>6. QED
  BY <1>2, <1>3, <1>4, <1>5, RangeConcatenation

\* Appending a chunk coded against the last FID of a body (or against zero
\* for an empty body) appends its FIDs to what is decoded.
LEMMA DecodeAppend ==
  ASSUME NEW body \in Seq(Nat), NEW chunk \in Seq(FIDs32), NEW base,
         base = IF body = <<>> THEN 0 ELSE Last(Decode(body))
  PROVE  /\ Encode(chunk, base) \in Seq(Nat) /\ Len(Encode(chunk, base)) = Len(chunk)
         /\ Decode(body \o Encode(chunk, base)) = Decode(body) \o chunk
<1> DEFINE n == Len(body)
           m == Len(chunk)
           d == Decode(body)
           code == Encode(chunk, base)
           all == body \o code
           s == d \o chunk
<1>1. n \in Nat /\ m \in Nat /\ 0 \in FIDs32 /\ FIDs32 \subseteq Nat
  BY FidModAssumption DEF FIDs32
<1>2. d \in Seq(FIDs32) /\ Len(d) = n
      /\ \A i \in 1..n : d[i] = ((IF i = 1 THEN 0 ELSE d[i - 1]) + body[i]) % FidMod
  BY DecodeSums DEF SumsOf
<1>3. body = <<>> <=> n = 0
  OBVIOUS
<1>4. base = (IF n = 0 THEN 0 ELSE d[n]) /\ base \in FIDs32
  <2>1. n # 0 => n \in 1..n
    BY <1>1
  <2>2. Last(d) = d[n]
    BY <1>2 DEF Last
  <2> HIDE DEF d, n
  <2>3. n # 0 => d[n] \in FIDs32
    BY <1>2, <2>1
  <2>4. QED
    BY <1>1, <1>3, <2>2, <2>3 DEF d
<1>5. \A j \in 1..m : chunk[j] \in FIDs32
  OBVIOUS
<1> DEFINE prev(j) == IF j = 1 THEN base ELSE chunk[j - 1]
<1>6. \A j \in 1..m : prev(j) \in FIDs32
  <2>1. \A j \in 1..m : j = 1 \/ j - 1 \in 1..m
    BY <1>1
  <2>2. QED
    BY <1>4, <1>5, <2>1
<1>7. \A j \in 1..m : /\ (chunk[j] - prev(j)) % FidMod \in Nat
                      /\ (prev(j) + ((chunk[j] - prev(j)) % FidMod)) % FidMod = chunk[j]
  <2> HIDE DEF prev
  <2>1. QED
    BY <1>5, <1>6, WordSum
<1>8. code = [j \in 1..m |-> (chunk[j] - prev(j)) % FidMod]
  BY DEF Encode
<1> HIDE DEF prev, code
<1>9. code \in Seq(Nat) /\ Len(code) = m /\ \A j \in 1..m : code[j] = (chunk[j] - prev(j)) % FidMod
  BY <1>1, <1>7, <1>8
<1>10. all \in Seq(Nat) /\ Len(all) = n + m
       /\ (\A i \in 1..n : all[i] = body[i]) /\ \A j \in 1..m : all[n + j] = code[j]
  <2>1. body \o code \in Seq(Nat) /\ Len(body \o code) = Len(body) + Len(code)
    BY <1>9, ConcatElements, Zenon
  <2>2. \A i \in 1..Len(body) : (body \o code)[i] = body[i]
    BY <1>9, ConcatElements, SMTT(30)
  <2>3. \A j \in 1..Len(code) : (body \o code)[Len(body) + j] = code[j]
    BY <1>9, ConcatElements
  <2>4. QED
    BY <1>9, <2>1, <2>2, <2>3, Zenon
<1> HIDE DEF all, d
<1>11. s \in Seq(FIDs32) /\ Len(s) = n + m
       /\ (\A i \in 1..n : s[i] = d[i]) /\ \A j \in 1..m : s[n + j] = chunk[j]
  <2>1. d \o chunk \in Seq(FIDs32) /\ Len(d \o chunk) = Len(d) + Len(chunk)
    BY <1>2, ConcatElements, Zenon
  <2>2. \A i \in 1..Len(d) : (d \o chunk)[i] = d[i]
    BY <1>2, ConcatElements
  <2>3. \A j \in 1..Len(chunk) : (d \o chunk)[Len(d) + j] = chunk[j]
    BY <1>2, ConcatElements
  <2>4. QED
    BY <1>2, <2>1, <2>2, <2>3, Zenon
<1> HIDE DEF s, n, m
<1>12. ASSUME NEW i \in 1..(n + m)
       PROVE  s[i] = ((IF i = 1 THEN 0 ELSE s[i - 1]) + all[i]) % FidMod
  <2>1. CASE i \in 1..n
    <3>1. i # 1 => i - 1 \in 1..n
      BY <1>1, <2>1
    <3>2. QED
      BY <1>2, <1>10, <1>11, <2>1, <3>1
  <2>2. CASE i \notin 1..n
    <3> DEFINE j == i - n
    <3>1. j \in 1..m /\ i = n + j
      BY <1>1, <2>2
    <3>2. prev(j) = IF i = 1 THEN 0 ELSE s[i - 1]
      <4>1. CASE j = 1
        <5>1. prev(j) = base /\ i = n + 1
          BY <3>1, <4>1 DEF prev
        <5>2. CASE n = 0
          BY <1>4, <5>1, <5>2
        <5>3. CASE n # 0
          <6>1. i # 1 /\ i - 1 = n /\ n \in 1..n
            BY <1>1, <5>1, <5>3
          <6>2. QED
            BY <1>4, <1>11, <5>1, <5>3, <6>1
        <5>4. QED
          BY <5>2, <5>3
      <4>2. CASE j # 1
        <5>1. j - 1 \in 1..m /\ i - 1 = n + (j - 1) /\ i # 1
          BY <1>1, <3>1, <4>2
        <5>2. s[i - 1] = chunk[j - 1]
          BY <1>11, <5>1
        <5>3. QED
          BY <4>2, <5>1, <5>2 DEF prev
      <4>3. QED
        BY <4>1, <4>2
    <3> HIDE DEF j
    <3>3. s[i] = chunk[j] /\ all[i] = (chunk[j] - prev(j)) % FidMod
      BY <1>9, <1>10, <1>11, <3>1
    <3>4. (prev(j) + ((chunk[j] - prev(j)) % FidMod)) % FidMod = chunk[j]
      BY <1>7, <3>1
    <3>5. ((IF i = 1 THEN 0 ELSE s[i - 1]) + all[i]) % FidMod
            = (prev(j) + ((chunk[j] - prev(j)) % FidMod)) % FidMod
      BY <3>2, <3>3, Zenon
    <3>6. QED
      BY <3>3, <3>4, <3>5
  <2>3. QED
    BY <2>1, <2>2
<1>13. SumsOf(s, all)
  BY <1>10, <1>11, <1>12 DEF SumsOf
<1>14. s = Decode(all)
  BY <1>10, <1>13, DecodeSums, SumsUnique
<1>15. QED
  BY <1>9, <1>14 DEF s, all, code, d, m

-----------------------------------------------------------------------------
(* Lists of blocks.                                                        *)

\* Flattening puts one sequence after the other: the result is flat[n], where
\* flat[k] has the first k.
Flattening(flat, ss) ==
  /\ FlattenSeq(ss) = flat[Len(ss)]
  /\ \A k \in 1..Len(ss) : flat[k] = IF k = 1 THEN ss[1] ELSE flat[k - 1] \o ss[k]

\* What the first k put together have.
Gathering(X, flat, ss) ==
  /\ Flattening(flat, ss)
  /\ \A k \in 1..Len(ss) :
       flat[k] \in Seq(X) /\ ToSet(flat[k]) = UNION {ToSet(ss[i]) : i \in 1..k}

\* There is such a function.
LEMMA FlattenSteps ==
  ASSUME NEW X, NEW ss \in Seq(Seq(X)), ss # <<>>
  PROVE  \E flat : Gathering(X, flat, ss)
<1> DEFINE n == Len(ss)
           V == Seq(X)
           F == [p \in (1..n) \X V |-> IF p[1] = 1 THEN ss[1] ELSE p[2] \o ss[p[1]]]
           flat == CHOOSE f : f = [i \in 1..n |-> IF i = 1 THEN ss[i] ELSE f[i - 1] \o ss[i]]
<1>1. n \in Nat /\ \A i \in 1..n : ss[i] \in V
  OBVIOUS
<1>3. n # 0
  OBVIOUS
<1>4. \E f : Gathering(X, f, ss)
  <2>1. FlattenSeq(ss) = flat[n]
    BY <1>3 DEF FlattenSeq
  <2>2. F \in [(1..n) \X V -> V]
    <3>1. ASSUME NEW p \in (1..n) \X V
          PROVE  (IF p[1] = 1 THEN ss[1] ELSE p[2] \o ss[p[1]]) \in V
      <4>1. p[2] \in Seq(X) /\ ss[p[1]] \in Seq(X) /\ (p[1] = 1 => ss[1] \in V)
        BY <1>1
      <4>2. p[2] \o ss[p[1]] \in Seq(X)
        BY <4>1, ConcatProperties
      <4>3. QED
        BY <4>1, <4>2
    <3>2. QED
      BY <3>1
  <2>3. \A i \in 1..n, x \in V : F[<<i, x>>] = IF i = 1 THEN ss[1] ELSE x \o ss[i]
    OBVIOUS
  <2>4. <<>> \in V
    OBVIOUS
  <2> HIDE DEF F, V, n
  <2>5. PICK g \in [0..n -> V] : Follows(g, n, <<>>, F)
    BY <1>1, <2>2, <2>4, RecursiveFunction
  <2> DEFINE h == [i \in 1..n |-> g[i]]
  <2>6. \A i \in 1..n : h[i] = g[i] /\ h[i] = IF i = 1 THEN ss[i] ELSE h[i - 1] \o ss[i]
    <3> SUFFICES ASSUME NEW i \in 1..n
                 PROVE  h[i] = g[i] /\ h[i] = IF i = 1 THEN ss[i] ELSE h[i - 1] \o ss[i]
      OBVIOUS
    <3>1. h[i] = g[i] /\ (i # 1 => h[i - 1] = g[i - 1]) /\ i - 1 \in 0..n
      BY <1>1
    <3>2. g[i] = F[<<i, g[i - 1]>>] /\ g[i - 1] \in V
      BY <2>5, <3>1 DEF Follows
    <3> HIDE DEF h
    <3>3. QED
      BY <2>3, <3>1, <3>2
  <2>7. h = [i \in 1..n |-> IF i = 1 THEN ss[i] ELSE h[i - 1] \o ss[i]]
    BY <2>6
  <2> HIDE DEF h
  <2>8. flat = [i \in 1..n |-> IF i = 1 THEN ss[i] ELSE flat[i - 1] \o ss[i]]
    BY <2>7
  <2> HIDE DEF flat
  <2> DEFINE P == {k \in Nat : k + 1 <= n =>
                     /\ flat[k + 1] \in Seq(X)
                     /\ ToSet(flat[k + 1]) = UNION {ToSet(ss[i]) : i \in 1..(k + 1)}}
  <2>9. 0 \in P
    <3>1. 1 \in 1..n /\ 0 + 1 = 1 /\ 1..1 = {1}
      BY <1>1, <1>3
    <3>2. flat[1] = ss[1]
      BY <2>8, <3>1
    <3>3. UNION {ToSet(ss[i]) : i \in 1..1} = ToSet(ss[1])
      BY <3>1
    <3>4. QED
      BY <1>1, <3>1, <3>2, <3>3 DEF V
  <2>10. ASSUME NEW k \in Nat, k \in P PROVE k + 1 \in P
    <3> SUFFICES ASSUME (k + 1) + 1 <= n
                 PROVE  /\ flat[(k + 1) + 1] \in Seq(X)
                        /\ ToSet(flat[(k + 1) + 1]) = UNION {ToSet(ss[i]) : i \in 1..((k + 1) + 1)}
      BY <2>10
    <3> DEFINE l == (k + 1) + 1
    <3>1. k + 1 <= n /\ l \in 1..n /\ l # 1 /\ l - 1 = k + 1 /\ 1..l = (1..(k + 1)) \cup {l}
      BY <1>1
    <3>2. flat[l] = flat[k + 1] \o ss[l]
      BY <2>8, <3>1
    <3>3. flat[k + 1] \in Seq(X) /\ ToSet(flat[k + 1]) = UNION {ToSet(ss[i]) : i \in 1..(k + 1)}
      BY <2>10, <3>1
    <3>4. ss[l] \in Seq(X)
      BY <1>1, <3>1 DEF V
    <3> HIDE DEF l
    <3>5. flat[l] \in Seq(X) /\ ToSet(flat[l]) = ToSet(flat[k + 1]) \cup ToSet(ss[l])
      BY <3>2, <3>3, <3>4, ConcatElements
    <3> DEFINE U(j) == UNION {ToSet(ss[i]) : i \in 1..j}
    <3>6. U(l) = U(k + 1) \cup ToSet(ss[l])
      <4>1. ASSUME NEW e PROVE e \in U(l) <=> e \in U(k + 1) \/ e \in ToSet(ss[l])
        BY <3>1
      <4> HIDE DEF U
      <4>2. QED
        BY <4>1
    <3>7. flat[l] \in Seq(X) /\ ToSet(flat[l]) = U(l)
      <4>1. ToSet(flat[k + 1]) = U(k + 1)
        BY <3>3
      <4> HIDE DEF U
      <4>2. QED
        BY <3>5, <3>6, <4>1
    <3>8. QED
      BY <3>7 DEF l
  <2>11. Nat \subseteq P
    <3> HIDE DEF P
    <3>1. QED
      BY <2>9, <2>10, NatSet
  <2>12. ASSUME NEW k \in 1..n
         PROVE  flat[k] \in Seq(X) /\ ToSet(flat[k]) = UNION {ToSet(ss[i]) : i \in 1..k}
    <3>1. k - 1 \in Nat /\ (k - 1) + 1 = k /\ k <= n
      BY <1>1
    <3>2. k - 1 \in P
      <4> HIDE DEF P
      <4>1. QED
        BY <2>11, <3>1
    <3>3. QED
      BY <3>1, <3>2
  <2>13. \A k \in 1..n : flat[k] = IF k = 1 THEN ss[1] ELSE flat[k - 1] \o ss[k]
    BY <2>8
  <2>14. QED
    BY <2>1, <2>12, <2>13 DEF Gathering, Flattening, n
<1>5. QED
  BY <1>4

\* Flattening a sequence of sequences keeps their elements and adds none.
LEMMA FlattenElements ==
  ASSUME NEW X, NEW ss \in Seq(Seq(X))
  PROVE  /\ FlattenSeq(ss) \in Seq(X)
         /\ ToSet(FlattenSeq(ss)) = UNION {ToSet(ss[i]) : i \in 1..Len(ss)}
<1>1. CASE ss = <<>>
  <2>1. FlattenSeq(ss) = ss /\ Len(ss) = 0 /\ 1..Len(ss) = {}
    BY <1>1 DEF FlattenSeq
  <2>2. ToSet(<<>>) = {} /\ <<>> \in Seq(X)
    BY DEF ToSet
  <2>3. QED
    BY <1>1, <2>1, <2>2
<1>2. CASE ss # <<>>
  <2>1. Len(ss) \in 1..Len(ss)
    BY <1>2
  <2>2. PICK flat : Gathering(X, flat, ss)
    BY <1>2, FlattenSteps
  <2>3. FlattenSeq(ss) = flat[Len(ss)]
    BY <2>2 DEF Gathering, Flattening
  <2>4. QED
    BY <2>1, <2>2, <2>3 DEF Gathering
<1>3. QED
  BY <1>1, <1>2

\* Every element is below those after it.
Rising(s) == \A i, j \in 1..Len(s) : i < j => s[i] < s[j]

\* Every number of one set is below those of the other.
Below(A, B) == \A a \in A, b \in B : a < b

\* A rising sequence increases from each element to the next.
LEMMA RisingIncreases ==
  ASSUME NEW X \in SUBSET Int, NEW s \in Seq(X), Rising(s)
  PROVE  StrictlyIncreasing(s)
<1>1. Len(s) \in Nat
  OBVIOUS
<1>2. \A i \in 1..(Len(s) - 1) : i \in 1..Len(s) /\ i + 1 \in 1..Len(s) /\ i < i + 1
  BY <1>1
<1>3. QED
  BY <1>2 DEF Rising, StrictlyIncreasing

\* What is last in a rising sequence is the greatest.
LEMMA RisingLast ==
  ASSUME NEW X \in SUBSET Int, NEW s \in Seq(X), s # <<>>, Rising(s)
  PROVE  Last(s) \in ToSet(s) /\ \A x \in ToSet(s) : x <= Last(s)
<1> DEFINE n == Len(s)
<1>1. n \in Nat /\ n # 0 /\ DOMAIN s = 1..n /\ \A i \in 1..n : s[i] \in X
  OBVIOUS
<1>2. Last(s) = s[n] /\ \A i, j \in 1..n : i < j => s[i] < s[j]
  BY DEF Last, Rising
<1> HIDE DEF n
<1>3. n \in 1..n
  BY <1>1
<1>4. ASSUME NEW i \in 1..n PROVE s[i] <= s[n]
  <2>1. i = n \/ i < n
    BY <1>1
  <2>2. s[i] \in X /\ s[n] \in X
    BY <1>1, <1>3
  <2>3. s[i] \in Int /\ s[n] \in Int
    BY <2>2
  <2>4. QED
    BY <1>2, <1>3, <2>1, <2>3
<1>5. QED
  BY <1>1, <1>2, <1>3, <1>4 DEF ToSet

\* Rising sequences one after the other.
LEMMA RisingConcat ==
  ASSUME NEW X \in SUBSET Int, NEW u \in Seq(X), NEW v \in Seq(X), Rising(u), Rising(v),
         Below(ToSet(u), ToSet(v))
  PROVE  Rising(u \o v)
<1> DEFINE w == u \o v
           m == Len(u)
           n == Len(v)
<1>1. /\ m \in Nat /\ n \in Nat /\ Len(w) = m + n
      /\ DOMAIN u = 1..m /\ DOMAIN v = 1..n
  BY ConcatElements
<1>2. \A i \in 1..m : w[i] = u[i]
  BY ConcatElements
<1>3. \A j \in 1..n : w[m + j] = v[j]
  BY ConcatElements
<1> HIDE DEF w, m, n
<1>4. ASSUME NEW i \in 1..(m + n), i \notin 1..m PROVE i - m \in 1..n /\ w[i] = v[i - m]
  <2>1. i - m \in 1..n /\ i = m + (i - m)
    BY <1>1, <1>4
  <2>2. QED
    BY <1>3, <2>1
<1>5. ASSUME NEW i \in 1..(m + n), NEW j \in 1..(m + n), i < j PROVE w[i] < w[j]
  <2>1. CASE i \in 1..m /\ j \in 1..m
    BY <1>2, <1>5, <2>1 DEF Rising, m
  <2>2. CASE i \in 1..m /\ j \notin 1..m
    <3>1. w[i] \in ToSet(u) /\ w[j] \in ToSet(v)
      BY <1>1, <1>2, <1>4, <2>2 DEF ToSet
    <3>2. QED
      BY <3>1 DEF Below
  <2>3. CASE i \notin 1..m
    <3>1. j \notin 1..m /\ i - m < j - m
      BY <1>1, <1>5, <2>3
    <3>2. i - m \in 1..n /\ j - m \in 1..n /\ w[i] = v[i - m] /\ w[j] = v[j - m]
      BY <1>4, <2>3, <3>1
    <3>3. v[i - m] < v[j - m]
      BY <3>1, <3>2 DEF Rising, n
    <3>4. QED
      BY <3>2, <3>3
  <2>4. QED
    BY <2>1, <2>2, <2>3
<1>6. QED
  BY <1>1, <1>5 DEF Rising, w

\* Rising sequences flattened, each below those after it.
LEMMA RisingFlatten ==
  ASSUME NEW X \in SUBSET Int, NEW ss \in Seq(Seq(X)),
         \A i \in 1..Len(ss) : Rising(ss[i]),
         \A i, j \in 1..Len(ss) : i < j => Below(ToSet(ss[i]), ToSet(ss[j]))
  PROVE  Rising(FlattenSeq(ss))
<1> DEFINE n == Len(ss)
<1>1. n \in Nat /\ \A i \in 1..n : ss[i] \in Seq(X)
  OBVIOUS
<1>2. CASE ss = <<>>
  <2>1. FlattenSeq(ss) = <<>> /\ Len(<<>>) = 0
    BY <1>2 DEF FlattenSeq
  <2>2. QED
    BY <2>1 DEF Rising
<1>3. CASE ss # <<>>
  <2>0. PICK flat : Gathering(X, flat, ss)
    BY <1>3, FlattenSteps
  <2>1. /\ Flattening(flat, ss)
        /\ \A k \in 1..n : /\ flat[k] \in Seq(X)
                           /\ ToSet(flat[k]) = UNION {ToSet(ss[i]) : i \in 1..k}
    BY <2>0 DEF Gathering
  <2> HIDE DEF n
  <2>2. \A k \in 1..n : flat[k] = IF k = 1 THEN ss[1] ELSE flat[k - 1] \o ss[k]
    BY <2>1 DEF Flattening, n
  <2> DEFINE P == {k \in Nat : k + 1 <= n => Rising(flat[k + 1])}
  <2>3. 0 \in P
    <3>1. 0 + 1 = 1 /\ (0 + 1 <= n => 1 \in 1..n)
      BY <1>1
    <3>2. QED
      BY <2>2, <3>1 DEF n
  <2>4. ASSUME NEW k \in Nat, k \in P PROVE k + 1 \in P
    <3> SUFFICES ASSUME (k + 1) + 1 <= n PROVE Rising(flat[(k + 1) + 1])
      BY <2>4
    <3> DEFINE l == (k + 1) + 1
    <3>1. /\ k + 1 <= n /\ l \in 1..n /\ l # 1 /\ l - 1 = k + 1 /\ k + 1 \in 1..n
          /\ \A i \in 1..(k + 1) : i \in 1..n /\ i < l
      BY <1>1
    <3>2. flat[l] = flat[k + 1] \o ss[l]
      BY <2>2, <3>1
    <3>3. Rising(flat[k + 1]) /\ flat[k + 1] \in Seq(X)
      BY <2>1, <2>4, <3>1
    <3> HIDE DEF l, P
    <3>4. Rising(ss[l]) /\ ss[l] \in Seq(X)
      BY <1>1, <3>1 DEF n
    <3>5. ASSUME NEW a \in ToSet(flat[k + 1]), NEW b \in ToSet(ss[l]) PROVE a < b
      <4>1. PICK i \in 1..(k + 1) : a \in ToSet(ss[i])
        <5>1. ToSet(flat[k + 1]) = UNION {ToSet(ss[i]) : i \in 1..(k + 1)}
          BY <2>1, <3>1
        <5>2. QED
          BY <3>5, <5>1
      <4>2. Below(ToSet(ss[i]), ToSet(ss[l]))
        BY <3>1 DEF n
      <4>3. QED
        BY <4>1, <4>2 DEF Below
    <3>6. Below(ToSet(flat[k + 1]), ToSet(ss[l]))
      BY <3>5 DEF Below
    <3>7. Rising(flat[l])
      BY <3>2, <3>3, <3>4, <3>6, RisingConcat
    <3>8. QED
      BY <3>7 DEF l
  <2>5. Nat \subseteq P
    <3> HIDE DEF P
    <3>1. QED
      BY <2>3, <2>4, NatSet
  <2>6. n - 1 \in P /\ (n - 1) + 1 = n /\ n <= n
    <3>1. n - 1 \in Nat /\ (n - 1) + 1 = n /\ n <= n
      BY <1>1, <1>3 DEF n
    <3>2. QED
      BY <2>5, <3>1
  <2>7. Rising(flat[n])
    BY <2>6
  <2>8. QED
    BY <2>1, <2>7 DEF Flattening, n
<1>4. QED
  BY <1>2, <1>3

\* A reader comes to block n: it and all before it are there and not empty.
Readable(blocks, n) == \A b \in 1..n : b \in DOMAIN blocks /\ blocks[b].body # <<>>

\* It comes to a first number of blocks, and puts their postings together.
LEMMA ListPieces ==
  ASSUME NEW blocks, IsFiniteSet(DOMAIN blocks)
  PROVE  \E n \in Nat : /\ Readable(blocks, n) /\ ~Readable(blocks, n + 1)
                        /\ ListOf(blocks) = FlattenSeq([b \in 1..n |-> Decode(blocks[b].body)])
<1> DEFINE R(n) == \A b \in 1..n : b \in DOMAIN blocks /\ blocks[b].body # <<>>
           N == Cardinality(DOMAIN blocks)
           Count == CHOOSE n \in 0..N : R(n) /\ ~R(n + 1)
           pieces == [b \in 1..Count |-> Decode(blocks[b].body)]
<1>1. N \in Nat
  BY FS_CardinalityType
<1>2. \E n \in 0..N : R(n) /\ ~R(n + 1)
  <2> SUFFICES ASSUME \A n \in 0..N : R(n) => R(n + 1)
               PROVE  FALSE
    OBVIOUS
  <2> DEFINE P == {n \in Nat : n <= N + 1 => R(n)}
  <2>1. 0 \in P
    OBVIOUS
  <2>2. ASSUME NEW n \in Nat, n \in P PROVE n + 1 \in P
    <3> HIDE DEF R
    <3> SUFFICES ASSUME n + 1 <= N + 1 PROVE R(n + 1)
      BY <2>2
    <3>1. n \in 0..N /\ n <= N + 1
      BY <1>1
    <3>2. QED
      BY <2>2, <3>1
  <2>3. Nat \subseteq P
    <3> HIDE DEF P
    <3>1. QED
      BY <2>1, <2>2, NatSet
  <2>4. R(N + 1)
    <3> HIDE DEF R
    <3>1. N + 1 \in Nat /\ N + 1 <= N + 1
      BY <1>1
    <3>2. QED
      BY <2>3, <3>1
  <2>5. 1..(N + 1) \subseteq DOMAIN blocks
    BY <2>4
  <2>6. Cardinality(1..(N + 1)) = N + 1
    <3> HIDE DEF N
    <3>1. 1 \in Int /\ N + 1 \in Int /\ ~(1 > N + 1) /\ ((N + 1) - 1) + 1 = N + 1
      BY <1>1
    <3>2. QED
      BY <3>1, FS_Interval
  <2>7. Cardinality(1..(N + 1)) <= N
    BY <2>5, FS_Subset
  <2> HIDE DEF N
  <2>8. QED
    BY <1>1, <2>6, <2>7
<1>3. Count \in 0..N /\ R(Count) /\ ~R(Count + 1)
  BY <1>2
<1>4. ListOf(blocks) = FlattenSeq(pieces)
  BY DEF ListOf
<1> HIDE DEF Count
<1>5. Count \in Nat
  BY <1>1, <1>3
<1>6. QED
  BY <1>3, <1>4, <1>5 DEF Readable

\* What a reader gets from the blocks of a list: the postings of the blocks it
\* comes to.
LEMMA ListReads ==
  ASSUME NEW blocks, IsFiniteSet(DOMAIN blocks),
         \A b \in DOMAIN blocks : blocks[b].body \in Seq(Nat)
  PROVE  /\ ListOf(blocks) \in Seq(FIDs32)
         /\ \A f : f \in ToSet(ListOf(blocks)) <=>
              \E b \in Nat \ {0} : Readable(blocks, b) /\ f \in ToSet(Decode(blocks[b].body))
<1>1. PICK Count \in Nat :
        /\ Readable(blocks, Count) /\ ~Readable(blocks, Count + 1)
        /\ ListOf(blocks) = FlattenSeq([b \in 1..Count |-> Decode(blocks[b].body)])
  BY ListPieces
<1> DEFINE pieces == [b \in 1..Count |-> Decode(blocks[b].body)]
<1>6. \A b \in 1..Count : Decode(blocks[b].body) \in Seq(FIDs32)
  BY <1>1, DecodeSums DEF SumsOf, Readable
<1>7. pieces \in Seq(Seq(FIDs32)) /\ Len(pieces) = Count
      /\ \A b \in 1..Count : pieces[b] = Decode(blocks[b].body)
  BY <1>1, <1>6
<1> HIDE DEF pieces
<1>8. /\ FlattenSeq(pieces) \in Seq(FIDs32)
      /\ ToSet(FlattenSeq(pieces)) = UNION {ToSet(pieces[b]) : b \in 1..Count}
  BY <1>7, FlattenElements
<1>9. ASSUME NEW b \in Nat \ {0} PROVE Readable(blocks, b) <=> b \in 1..Count
  <2>1. CASE b \in 1..Count
    BY <1>1, <2>1 DEF Readable
  <2>2. CASE b \notin 1..Count
    <3>1. 1..(Count + 1) \subseteq 1..b
      BY <1>1, <2>2
    <3>2. QED
      BY <1>1, <2>2, <3>1 DEF Readable
  <2>3. QED
    BY <2>1, <2>2
<1>10. ASSUME NEW f
       PROVE  f \in ToSet(ListOf(blocks)) <=>
                \E b \in Nat \ {0} : Readable(blocks, b) /\ f \in ToSet(Decode(blocks[b].body))
  <2>1. f \in ToSet(ListOf(blocks)) <=> \E b \in 1..Count : f \in ToSet(Decode(blocks[b].body))
    <3>1. ToSet(ListOf(blocks)) = UNION {ToSet(pieces[b]) : b \in 1..Count}
      BY <1>1, <1>8 DEF pieces
    <3>2. f \in UNION {ToSet(pieces[b]) : b \in 1..Count} <=> \E b \in 1..Count : f \in ToSet(pieces[b])
      OBVIOUS
    <3>3. QED
      BY <1>7, <3>1, <3>2
  <2>2. 1..Count \subseteq Nat \ {0}
    BY <1>1
  <2>3. QED
    BY <1>9, <2>1, <2>2
<1>11. QED
  BY <1>1, <1>8, <1>10 DEF pieces

\* The blocks of a list whose postings rise, each below those after it, are
\* read in order.
LEMMA ListRises ==
  ASSUME NEW blocks, IsFiniteSet(DOMAIN blocks),
         \A b \in DOMAIN blocks :
           blocks[b].body \in Seq(Nat) /\ Rising(Decode(blocks[b].body)),
         \A b, c \in DOMAIN blocks :
           b < c => Below(ToSet(Decode(blocks[b].body)), ToSet(Decode(blocks[c].body)))
  PROVE  StrictlyIncreasing(ListOf(blocks))
<1>1. PICK n \in Nat :
        /\ Readable(blocks, n)
        /\ ListOf(blocks) = FlattenSeq([b \in 1..n |-> Decode(blocks[b].body)])
  BY ListPieces
<1> DEFINE pieces == [b \in 1..n |-> Decode(blocks[b].body)]
<1>2. \A b \in 1..n : b \in DOMAIN blocks /\ Decode(blocks[b].body) \in Seq(FIDs32)
  BY <1>1, DecodeSums DEF SumsOf, Readable
<1>3. pieces \in Seq(Seq(FIDs32)) /\ Len(pieces) = n
      /\ \A b \in 1..n : pieces[b] = Decode(blocks[b].body)
  BY <1>1, <1>2
<1> HIDE DEF pieces
<1>4. FIDs32 \in SUBSET Int
  BY FidModAssumption DEF FIDs32
<1>5. Rising(FlattenSeq(pieces))
  BY <1>2, <1>3, <1>4, RisingFlatten
<1>6. FlattenSeq(pieces) \in Seq(FIDs32)
  BY <1>3, FlattenElements
<1>7. QED
  BY <1>1, <1>4, <1>5, <1>6, RisingIncreases DEF pieces

\* Its postings are of its blocks.
LEMMA ListElements ==
  ASSUME NEW blocks, IsFiniteSet(DOMAIN blocks),
         \A b \in DOMAIN blocks : blocks[b].body \in Seq(Nat)
  PROVE  /\ ListOf(blocks) \in Seq(FIDs32)
         /\ \A f \in ToSet(ListOf(blocks)) :
              \E b \in DOMAIN blocks : blocks[b].body # <<>> /\ f \in ToSet(Decode(blocks[b].body))
<1>1. ASSUME NEW f \in ToSet(ListOf(blocks))
      PROVE  \E b \in DOMAIN blocks : blocks[b].body # <<>> /\ f \in ToSet(Decode(blocks[b].body))
  <2>1. PICK b \in Nat \ {0} : Readable(blocks, b) /\ f \in ToSet(Decode(blocks[b].body))
    BY <1>1, ListReads
  <2>2. b \in 1..b
    OBVIOUS
  <2>3. QED
    BY <2>1, <2>2 DEF Readable
<1>2. QED
  BY <1>1, ListReads

\* An empty body has no postings.
LEMMA DecodeEmpty == Decode(<<>>) = <<>>
<1>1. <<>> \in Seq(Nat) /\ Len(<<>>) = 0
  OBVIOUS
<1>2. SumsOf(Decode(<<>>), <<>>)
  BY <1>1, DecodeSums, Zenon
<1>3. Decode(<<>>) \in Seq(FIDs32) /\ Len(Decode(<<>>)) = 0
  BY <1>1, <1>2 DEF SumsOf
<1>4. QED
  BY <1>3, EmptySeq

-----------------------------------------------------------------------------
(* A list that grows.                                                      *)

\* The first n elements are the same.
BeginAlike(n, ss, zz) ==
  1..n \subseteq 1..Len(ss) /\ 1..n \subseteq 1..Len(zz) /\ \A i \in 1..n : ss[i] = zz[i]

\* Flattenings of sequences that begin alike begin alike.
LEMMA FlattenAlike ==
  ASSUME NEW ss, NEW zz, NEW f, NEW g, NEW n \in Nat, Flattening(f, ss), Flattening(g, zz),
         BeginAlike(n, ss, zz)
  PROVE  \A k \in 1..n : f[k] = g[k]
<1> DEFINE S == {k \in Nat : k \in 1..n => f[k] = g[k]}
<1>1. 0 \in S
  OBVIOUS
<1>2. ASSUME NEW k \in Nat, k \in S PROVE k + 1 \in S
  <2> SUFFICES ASSUME k + 1 \in 1..n PROVE f[k + 1] = g[k + 1]
    OBVIOUS
  <2> DEFINE l == k + 1
  <2>1. l \in 1..n /\ l - 1 = k /\ (l # 1 => k \in 1..n)
    OBVIOUS
  <2>2. l \in 1..Len(ss) /\ l \in 1..Len(zz) /\ ss[l] = zz[l] /\ (l = 1 => ss[1] = zz[1])
    BY <2>1 DEF BeginAlike
  <2>3. /\ f[l] = IF l = 1 THEN ss[1] ELSE f[l - 1] \o ss[l]
        /\ g[l] = IF l = 1 THEN zz[1] ELSE g[l - 1] \o zz[l]
    BY <2>2 DEF Flattening
  <2>4. l # 1 => f[k] = g[k]
    BY <1>2, <2>1
  <2> HIDE DEF l
  <2>5. f[l] = g[l]
    BY <2>1, <2>2, <2>3, <2>4
  <2>6. QED
    BY <2>5 DEF l
<1> HIDE DEF S
<1>3. Nat \subseteq S
  BY <1>1, <1>2, NatSet
<1>4. QED
  BY <1>3 DEF S

\* The last of the sequences comes at the end.
LEMMA FlattenLast ==
  ASSUME NEW X, NEW n \in Nat \ {0}, NEW ss \in Seq(Seq(X)), Len(ss) = n,
         NEW front \in Seq(Seq(X)), Len(front) = n - 1, \A i \in 1..(n - 1) : front[i] = ss[i]
  PROVE  FlattenSeq(ss) = FlattenSeq(front) \o ss[n]
<1>1. PICK f : Gathering(X, f, ss)
  <2>1. ss # <<>>
    OBVIOUS
  <2>2. QED
    BY <2>1, FlattenSteps
<1>2. n \in 1..Len(ss) /\ ss[n] \in Seq(X)
  OBVIOUS
<1>3. FlattenSeq(ss) = f[n] /\ f[n] = IF n = 1 THEN ss[1] ELSE f[n - 1] \o ss[n]
  BY <1>1, <1>2 DEF Gathering, Flattening
<1>4. CASE n = 1
  <2>1. FlattenSeq(front) = <<>>
    BY <1>4 DEF FlattenSeq
  <2>2. QED
    BY <1>2, <1>3, <1>4, <2>1
<1>5. CASE n # 1
  <2>1. front # <<>> /\ n - 1 \in Nat /\ n - 1 \in 1..(n - 1)
    BY <1>5
  <2>2. PICK g : Gathering(X, g, front)
    BY <2>1, FlattenSteps
  <2>3. 1..(n - 1) \subseteq 1..Len(ss) /\ 1..(n - 1) \subseteq 1..Len(front)
    OBVIOUS
  <2>4. \A k \in 1..(n - 1) : f[k] = g[k]
    <3>1. BeginAlike(n - 1, ss, front)
      BY <2>3 DEF BeginAlike
    <3>2. Flattening(f, ss) /\ Flattening(g, front)
      BY <1>1, <2>2 DEF Gathering
    <3>3. QED
      BY <2>1, <3>1, <3>2, FlattenAlike
  <2>5. FlattenSeq(front) = g[n - 1]
    BY <2>2 DEF Gathering, Flattening
  <2>6. QED
    BY <1>3, <1>5, <2>1, <2>4, <2>5
<1>6. QED
  BY <1>4, <1>5

\* The bodies of the blocks 1..n, all of them there and none empty.
Bodies(blocks, n) ==
  DOMAIN blocks = 1..n /\ \A b \in 1..n : blocks[b].body \in Seq(Nat) /\ blocks[b].body # <<>>

\* A reader then comes to all of them, and gets those of the last one last.
LEMMA ReadsAll ==
  ASSUME NEW n \in Nat, NEW blocks, Bodies(blocks, n)
  PROVE  /\ [b \in 1..n |-> Decode(blocks[b].body)] \in Seq(Seq(FIDs32))
         /\ ListOf(blocks) = FlattenSeq([b \in 1..n |-> Decode(blocks[b].body)])
<1>1. IsFiniteSet(DOMAIN blocks)
  BY FS_Interval DEF Bodies
<1>2. PICK m \in Nat : /\ Readable(blocks, m) /\ ~Readable(blocks, m + 1)
                       /\ ListOf(blocks) = FlattenSeq([b \in 1..m |-> Decode(blocks[b].body)])
  BY <1>1, ListPieces
<1>3. m = n
  <2>1. m <= n
    <3>1. m # 0 => m \in 1..m
      OBVIOUS
    <3>2. m # 0 => m \in 1..n
      BY <1>2, <3>1 DEF Readable, Bodies
    <3>3. QED
      BY <3>2
  <2>2. ~(m + 1 <= n)
    <3>1. m + 1 <= n => 1..(m + 1) \subseteq 1..n
      OBVIOUS
    <3>2. QED
      BY <1>2, <3>1 DEF Readable, Bodies
  <2>3. QED
    BY <2>1, <2>2
<1>4. \A b \in 1..n : Decode(blocks[b].body) \in Seq(FIDs32)
  BY DecodeSums DEF Bodies, SumsOf
<1>5. QED
  BY <1>2, <1>3, <1>4

\* What Index appends to a list (AppendChunk and NewBlock of the indexer): a
\* chunk coded against the last FID of the last block goes behind it, or one
\* coded against zero starts a new block.  A reader who crosses the blocks
\* then finds the old list and the chunk behind it, FID by FID, wherever the
\* lists were cut.
THEOREM ListGrows ==
  ASSUME NEW n \in Nat, NEW old, Bodies(old, n), NEW chunk \in Seq(FIDs32), chunk # <<>>, NEW new,
         \/ /\ n # 0 /\ DOMAIN new = 1..n /\ \A b \in 1..(n - 1) : new[b].body = old[b].body
            /\ new[n].body = old[n].body \o Encode(chunk, Last(Decode(old[n].body)))
         \/ /\ DOMAIN new = 1..(n + 1) /\ \A b \in 1..n : new[b].body = old[b].body
            /\ new[n + 1].body = Encode(chunk, 0)
  PROVE  ListOf(new) = ListOf(old) \o chunk
<1> DEFINE D(blocks, m) == [b \in 1..m |-> Decode(blocks[b].body)]
<1>1. D(old, n) \in Seq(Seq(FIDs32)) /\ ListOf(old) = FlattenSeq(D(old, n)) /\ Len(D(old, n)) = n
  <2>1. D(old, n) \in Seq(Seq(FIDs32)) /\ ListOf(old) = FlattenSeq(D(old, n))
    BY ReadsAll
  <2>2. QED
    BY <2>1
<1>2. Len(chunk) \in Nat \ {0}
  OBVIOUS
<1>3. FlattenSeq(D(old, n)) \in Seq(FIDs32)
  BY <1>1, FlattenElements
<1>4. ASSUME n # 0, DOMAIN new = 1..n, \A b \in 1..(n - 1) : new[b].body = old[b].body,
             new[n].body = old[n].body \o Encode(chunk, Last(Decode(old[n].body)))
      PROVE  ListOf(new) = ListOf(old) \o chunk
  <2> DEFINE body == old[n].body
             code == Encode(chunk, Last(Decode(body)))
             front == [b \in 1..(n - 1) |-> Decode(old[b].body)]
  <2>1. n \in 1..n /\ body \in Seq(Nat) /\ body # <<>>
    BY <1>4 DEF Bodies
  <2>2. code \in Seq(Nat) /\ Decode(body \o code) = Decode(body) \o chunk
    BY <2>1, DecodeAppend
  <2>3. body \o code \in Seq(Nat) /\ body \o code # <<>>
    <3> HIDE DEF body, code
    <3>1. QED
      BY <2>1, <2>2
  <2>4. Bodies(new, n)
    <3>1. \A b \in 1..n : b \in 1..(n - 1) \/ b = n
      OBVIOUS
    <3>2. QED
      BY <1>4, <2>3, <3>1 DEF Bodies
  <2>5. D(new, n) \in Seq(Seq(FIDs32)) /\ ListOf(new) = FlattenSeq(D(new, n)) /\ Len(D(new, n)) = n
    BY <2>4, ReadsAll
  <2>6. /\ front \in Seq(Seq(FIDs32)) /\ Len(front) = n - 1
        /\ \A b \in 1..(n - 1) : front[b] = D(old, n)[b] /\ front[b] = D(new, n)[b]
    <3>1. \A b \in 1..(n - 1) : b \in 1..n
      OBVIOUS
    <3>2. \A b \in 1..n : D(old, n)[b] \in Seq(FIDs32)
      BY <1>1
    <3>3. \A b \in 1..(n - 1) : front[b] = D(old, n)[b] /\ front[b] = D(new, n)[b]
      BY <1>4, <3>1
    <3>4. \A b \in 1..(n - 1) : Decode(old[b].body) \in Seq(FIDs32)
      BY <3>1, <3>2
    <3>5. QED
      BY <1>4, <3>3, <3>4
  <2>7. D(old, n)[n] = Decode(body) /\ D(new, n)[n] = Decode(body) \o chunk
    BY <1>4, <2>1, <2>2
  <2>8. Decode(body) \in Seq(FIDs32) /\ FlattenSeq(front) \in Seq(FIDs32)
    BY <2>1, <2>6, DecodeSums, FlattenElements DEF SumsOf
  <2> HIDE DEF body, code, front, D
  <2>9. n \in Nat \ {0}
    BY <1>4
  <2>10. FlattenSeq(D(old, n)) = FlattenSeq(front) \o Decode(body)
    BY <1>1, <2>6, <2>7, <2>9, FlattenLast
  <2>11. FlattenSeq(D(new, n)) = FlattenSeq(front) \o (Decode(body) \o chunk)
    BY <2>5, <2>6, <2>7, <2>9, FlattenLast
  <2>12. QED
    BY <1>1, <2>5, <2>8, <2>10, <2>11, ConcatAssociative
<1>5. ASSUME DOMAIN new = 1..(n + 1), \A b \in 1..n : new[b].body = old[b].body,
             new[n + 1].body = Encode(chunk, 0)
      PROVE  ListOf(new) = ListOf(old) \o chunk
  <2> DEFINE code == Encode(chunk, 0)
             m == n + 1
  <2>1. <<>> \in Seq(Nat)
    OBVIOUS
  <2>2. code \in Seq(Nat) /\ Len(code) = Len(chunk) /\ Decode(<<>> \o code) = Decode(<<>>) \o chunk
    BY <2>1, DecodeAppend
  <2>3. code # <<>> /\ <<>> \o code = code /\ <<>> \o chunk = chunk
    <3> HIDE DEF code
    <3>1. QED
      BY <1>2, <2>2
  <2>4. Decode(code) = chunk
    BY <2>2, <2>3, DecodeEmpty
  <2>5. m \in Nat \ {0} /\ m - 1 = n /\ m \in 1..m /\ \A b \in 1..m : b \in 1..n \/ b = m
    OBVIOUS
  <2>6. Bodies(new, m)
    BY <1>5, <2>2, <2>3, <2>5 DEF Bodies
  <2>7. D(new, m) \in Seq(Seq(FIDs32)) /\ ListOf(new) = FlattenSeq(D(new, m)) /\ Len(D(new, m)) = m
    BY <2>5, <2>6, ReadsAll
  <2>8. D(new, m)[m] = chunk /\ \A b \in 1..n : D(old, n)[b] = D(new, m)[b]
    BY <1>5, <2>4, <2>5
  <2> HIDE DEF code, m, D
  <2>9. FlattenSeq(D(new, m)) = FlattenSeq(D(old, n)) \o chunk
    BY <1>1, <2>5, <2>7, <2>8, FlattenLast
  <2>10. QED
    BY <1>1, <2>7, <2>9
<1>6. QED
  BY <1>4, <1>5

-----------------------------------------------------------------------------
(* Lists in the records r of an index, <<list, block>> -> record.          *)

Has(r, t, b) == <<t, b>> \in DOMAIN r

\* The list header: the number of blocks.
CountIn(r, t) == IF Has(r, t, 1) THEN r[<<t, 1>>].lh ELSE 0

FIDsOf(block) == ToSet(Decode(block.body))

\* Block b of list t has the posting f, and a reader comes to the block.
Holds(r, t, b, f) == (\A n \in 1..b : Has(r, t, n)) /\ f \in FIDsOf(r[<<t, b>>])

ReadIn(r, t, f) == \E b \in Nat \ {0} : Holds(r, t, b, f)

CountsAreNat(r) == \A t : CountIn(r, t) \in Nat

\* A body that goes on begins with the same postings.
LEMMA DecodePrefix ==
  ASSUME NEW u \in Seq(Nat), NEW v \in Seq(Nat)
  PROVE  /\ ToSet(Decode(u)) \subseteq ToSet(Decode(u \o v))
         /\ Rising(Decode(u \o v)) => Rising(Decode(u))
<1> DEFINE d == Decode(u \o v)
           l == Len(u)
           e == [i \in 1..l |-> d[i]]
<1>1. /\ u \o v \in Seq(Nat) /\ Len(u \o v) = l + Len(v) /\ l \in Nat /\ Len(v) \in Nat
      /\ \A i \in 1..l : (u \o v)[i] = u[i]
  BY ConcatElements
<1>2. SumsOf(d, u \o v)
  BY <1>1, DecodeSums
<1> HIDE DEF d
<1>3. d \in Seq(FIDs32) /\ Len(d) = l + Len(v) /\ DOMAIN d = 1..(l + Len(v))
  BY <1>1, <1>2 DEF SumsOf
<1>4. \A i \in 1..l : i \in DOMAIN d /\ e[i] = d[i]
  BY <1>1, <1>3
<1>5. e \in Seq(FIDs32) /\ Len(e) = l /\ DOMAIN e = 1..l
  <2>1. \A i \in 1..l : d[i] \in FIDs32
    BY <1>3, <1>4, ElementOfSeq
  <2>2. QED
    BY <1>1, <2>1
<1> HIDE DEF e
<1>6. SumsOf(e, u)
  <2>1. ASSUME NEW i \in 1..l
        PROVE  e[i] = ((IF i = 1 THEN 0 ELSE e[i - 1]) + u[i]) % FidMod
    <3>1. i \in 1..Len(u \o v) /\ (u \o v)[i] = u[i]
      BY <1>1
    <3>2. d[i] = ((IF i = 1 THEN 0 ELSE d[i - 1]) + u[i]) % FidMod
      BY <1>2, <3>1 DEF SumsOf
    <3>3. i # 1 => i - 1 \in 1..l
      BY <1>1
    <3>4. QED
      BY <1>4, <3>2, <3>3
  <2>2. QED
    BY <1>5, <2>1 DEF SumsOf
<1>7. e = Decode(u)
  BY <1>6, DecodeSums, SumsUnique
<1>8. ToSet(e) \subseteq ToSet(d)
  BY <1>4, <1>5 DEF ToSet
<1>9. Rising(d) => Rising(e)
  <2>1. \A i \in 1..l : i \in 1..Len(d)
    BY <1>1, <1>3
  <2>2. QED
    BY <1>4, <1>5, <2>1 DEF Rising
<1>10. QED
  BY <1>7, <1>8, <1>9 DEF d

\* The blocks of a list, as a reader is given them.
BlocksIn(r, t, blocks) ==
  \A b : /\ b \in DOMAIN blocks <=> Has(r, t, b)
         /\ b \in DOMAIN blocks => blocks[b] = r[<<t, b>>]

\* A reader is given the blocks of a list by their numbers.
LEMMA BlocksGiven ==
  ASSUME NEW r, \A k \in DOMAIN r : k = <<k[1], k[2]>>, NEW t, NEW blocks,
         blocks = [id \in {k[2] : k \in {q \in DOMAIN r : q[1] = t}} |-> r[<<t, id>>]]
  PROVE  BlocksIn(r, t, blocks) /\ (IsFiniteSet(DOMAIN r) => IsFiniteSet(DOMAIN blocks))
<1> DEFINE K   == {q \in DOMAIN r : q[1] = t}
           ids == {k[2] : k \in K}
<1>1. DOMAIN blocks = ids /\ \A b \in ids : blocks[b] = r[<<t, b>>]
  OBVIOUS
<1>2. ASSUME NEW b, Has(r, t, b) PROVE b \in ids
  <2>1. <<t, b>> \in DOMAIN r /\ <<t, b>>[1] = t /\ <<t, b>>[2] = b
    BY <1>2 DEF Has
  <2>2. QED
    BY <2>1
<1>3. \A b \in ids : Has(r, t, b)
  BY DEF Has
<1>4. IsFiniteSet(DOMAIN r) => IsFiniteSet(ids)
  <2>1. IsFiniteSet(DOMAIN r) => IsFiniteSet(K)
    BY FS_Subset
  <2> DEFINE number == [k \in K |-> k[2]]
  <2>2. number \in Surjection(K, ids)
    BY DEF Surjection
  <2> HIDE DEF K, ids, number
  <2>3. IsFiniteSet(K) => IsFiniteSet(ids)
    BY <2>2, FS_Surjection
  <2>4. QED
    BY <2>1, <2>3
<1> HIDE DEF ids
<1>5. QED
  BY <1>1, <1>2, <1>3, <1>4 DEF BlocksIn

\* A reader finds a posting exactly if it reads it in the records.
LEMMA BlocksRead ==
  ASSUME NEW r, NEW t, NEW blocks, BlocksIn(r, t, blocks), IsFiniteSet(DOMAIN blocks),
         \A b : Has(r, t, b) => r[<<t, b>>].body \in Seq(Nat) /\ r[<<t, b>>].body # <<>>
  PROVE  \A f : f \in ToSet(ListOf(blocks)) <=> ReadIn(r, t, f)
<1>1. \A b : b \in DOMAIN blocks <=> Has(r, t, b)
  BY DEF BlocksIn
<1>2. \A b \in DOMAIN blocks :
        blocks[b] = r[<<t, b>>] /\ blocks[b].body \in Seq(Nat) /\ blocks[b].body # <<>>
  BY <1>1 DEF BlocksIn
<1>4. \A f : f \in ToSet(ListOf(blocks)) <=>
          \E b \in Nat \ {0} : Readable(blocks, b) /\ f \in ToSet(Decode(blocks[b].body))
  BY <1>2, ListReads
<1>5. \A b : Readable(blocks, b) <=> \A n \in 1..b : Has(r, t, n)
  BY <1>1, <1>2 DEF Readable
<1>6. ASSUME NEW b \in Nat \ {0}, NEW f
      PROVE  Readable(blocks, b) /\ f \in ToSet(Decode(blocks[b].body)) <=> Holds(r, t, b, f)
  <2>1. b \in 1..b
    OBVIOUS
  <2>2. Readable(blocks, b) => blocks[b] = r[<<t, b>>]
    BY <1>2, <2>1 DEF Readable
  <2>3. QED
    BY <1>5, <2>2 DEF Holds, FIDsOf
<1>7. QED
  BY <1>4, <1>6 DEF ReadIn

\* A list whose blocks rise one after the other reads as one that increases.
LEMMA BlocksRise ==
  ASSUME NEW r, NEW t, NEW blocks, BlocksIn(r, t, blocks), IsFiniteSet(DOMAIN blocks),
         \A b : Has(r, t, b) =>
           r[<<t, b>>].body \in Seq(Nat) /\ Rising(Decode(r[<<t, b>>].body)),
         \A b, c : Has(r, t, b) /\ Has(r, t, c) /\ b < c =>
           Below(FIDsOf(r[<<t, b>>]), FIDsOf(r[<<t, c>>]))
  PROVE  StrictlyIncreasing(ListOf(blocks))
<1>1. \A b : b \in DOMAIN blocks <=> Has(r, t, b)
  BY DEF BlocksIn
<1>3. \A b \in DOMAIN blocks : blocks[b] = r[<<t, b>>] /\ Has(r, t, b)
  BY <1>1 DEF BlocksIn
<1>4. \A b \in DOMAIN blocks : blocks[b].body \in Seq(Nat) /\ Rising(Decode(blocks[b].body))
  BY <1>3
<1>5. \A b, c \in DOMAIN blocks :
        b < c => Below(ToSet(Decode(blocks[b].body)), ToSet(Decode(blocks[c].body)))
  BY <1>3 DEF FIDsOf
<1>6. QED
  BY <1>4, <1>5, ListRises

\* A block that has the size its header says, and rises.
InOrder(block) == block.hdr.BodySize = Len(block.body) /\ Rising(Decode(block.body))

Tidy(r, t) ==
  LET n == CountIn(r, t)
  IN  /\ \A b : Has(r, t, b) <=> b \in 1..n
      /\ \A b \in 1..n : InOrder(r[<<t, b>>])
      /\ \A b, c \in 1..n : b < c => Below(FIDsOf(r[<<t, b>>]), FIDsOf(r[<<t, c>>]))

\* The list has nothing but what is before f.
Before(r, t, f) == \A b \in 1..CountIn(r, t) : \A g \in FIDsOf(r[<<t, b>>]) : g < f

\* The records w are the records r with a chunk at the end of block lh of t.
Extended(r, w, t, lh, hdr, code, chunk) ==
  LET old == IF Has(r, t, lh) THEN r[<<t, lh>>].body ELSE <<>>
  IN  /\ CountIn(w, t) = lh
      /\ \A b : Has(w, t, b) <=> Has(r, t, b) \/ b = lh
      /\ w[<<t, lh>>].hdr = hdr /\ w[<<t, lh>>].body = old \o code
      /\ Decode(old \o code) = Decode(old) \o chunk
      /\ \A b : Has(r, t, b) /\ b # lh =>
           w[<<t, b>>].hdr = r[<<t, b>>].hdr /\ w[<<t, b>>].body = r[<<t, b>>].body
      /\ \A u, b : u # t => /\ Has(w, u, b) <=> Has(r, u, b)
                            /\ Has(r, u, b) => w[<<u, b>>] = r[<<u, b>>]

\* The other lists are as tidy as they were.
LEMMA OthersTidy ==
  ASSUME NEW r, NEW w, NEW t, NEW lh, NEW hdr, NEW code, NEW chunk,
         Extended(r, w, t, lh, hdr, code, chunk), NEW u, u # t
  PROVE  /\ Tidy(r, u) => Tidy(w, u)
         /\ Tidy(r, u) => \A f : Before(r, u, f) => Before(w, u, f)
<1>1. \A b : /\ Has(w, u, b) <=> Has(r, u, b)
             /\ Has(r, u, b) => w[<<u, b>>] = r[<<u, b>>]
  BY DEF Extended
<1>2. CountIn(w, u) = CountIn(r, u)
  BY <1>1 DEF CountIn
<1>3. ASSUME Tidy(r, u) PROVE Tidy(w, u) /\ \A f : Before(r, u, f) => Before(w, u, f)
  <2>1. \A b \in 1..CountIn(r, u) : w[<<u, b>>] = r[<<u, b>>]
    BY <1>1, <1>3 DEF Tidy
  <2>2. \A f : Before(r, u, f) => Before(w, u, f)
    BY <1>2, <2>1 DEF Before
  <2>3. \A b : Has(w, u, b) <=> b \in 1..CountIn(w, u)
    BY <1>1, <1>2, <1>3 DEF Tidy, Has
  <2>4. /\ \A b \in 1..CountIn(w, u) : InOrder(w[<<u, b>>])
        /\ \A b, c \in 1..CountIn(w, u) : b < c => Below(FIDsOf(w[<<u, b>>]), FIDsOf(w[<<u, c>>]))
    BY <1>2, <1>3, <2>1 DEF Tidy
  <2>5. QED
    BY <2>2, <2>3, <2>4 DEF Tidy
<1>4. QED
  BY <1>3

\* The postings of the blocks of a list are FIDs.
Coded(r, t) == \A b : Has(r, t, b) => r[<<t, b>>].body \in Seq(Nat)

\* A rising chunk, above all that is there, keeps its list tidy.
LEMMA ExtendedTidy ==
  ASSUME NEW r, CountsAreNat(r), NEW t, Coded(r, t), Tidy(r, t), NEW w, NEW lh \in Nat, NEW hdr,
         NEW code \in Seq(Nat), NEW chunk \in Seq(FIDs32),
         Extended(r, w, t, lh, hdr, code, chunk), Rising(chunk),
         \A f \in ToSet(chunk) : Before(r, t, f),
         lh \in {CountIn(r, t), CountIn(r, t) + 1}, lh # 0,
         hdr.BodySize = Len(code) + IF lh = CountIn(r, t) THEN r[<<t, lh>>].hdr.BodySize ELSE 0
  PROVE  /\ Tidy(w, t)
         /\ \A f : Before(r, t, f) /\ (\A g \in ToSet(chunk) : g < f) => Before(w, t, f)
<1> DEFINE n   == CountIn(r, t)
           old == IF Has(r, t, lh) THEN r[<<t, lh>>].body ELSE <<>>
<1>1. n \in Nat /\ FIDs32 \in SUBSET Int
  BY FidModAssumption DEF CountsAreNat, FIDs32
<1>2. /\ CountIn(w, t) = lh
      /\ \A b : Has(w, t, b) <=> Has(r, t, b) \/ b = lh
      /\ w[<<t, lh>>].hdr = hdr /\ w[<<t, lh>>].body = old \o code
      /\ Decode(old \o code) = Decode(old) \o chunk
      /\ \A b : Has(r, t, b) /\ b # lh =>
           w[<<t, b>>].hdr = r[<<t, b>>].hdr /\ w[<<t, b>>].body = r[<<t, b>>].body
  BY Zenon DEF Extended
<1>3. /\ \A b : Has(r, t, b) <=> b \in 1..n
      /\ \A b \in 1..n : InOrder(r[<<t, b>>])
      /\ \A b, c \in 1..n : b < c => Below(FIDsOf(r[<<t, b>>]), FIDsOf(r[<<t, c>>]))
  BY DEF Tidy
<1>4. \A b : b \in 1..lh <=> b \in 1..n \/ b = lh
  BY <1>1
<1>5. Has(r, t, lh) <=> lh = n
  BY <1>1, <1>3, <1>4
<1>6. \A b \in 1..lh : b # lh => b \in 1..n /\ b < lh
  BY <1>1
<1>7. old \in Seq(Nat) /\ Decode(old) \in Seq(FIDs32)
  <2>1. old \in Seq(Nat)
    BY DEF Coded
  <2>2. QED
    BY <2>1, DecodeSums DEF SumsOf
<1>8. /\ lh = n => old = r[<<t, lh>>].body
      /\ lh # n => old = <<>>
  BY <1>5
<1>9. Decode(<<>>) = <<>> /\ ToSet(<<>>) = {} /\ Rising(<<>>)
  BY DecodeEmpty DEF ToSet, Rising
<1>10. Rising(Decode(old))
  <2>1. CASE lh = n
    BY <1>1, <1>3, <1>8, <2>1, n \in 1..n DEF InOrder
  <2>2. CASE lh # n
    BY <1>8, <1>9, <2>2
  <2>3. QED
    BY <2>1, <2>2
<1>11. Below(ToSet(Decode(old)), ToSet(chunk))
  <2>1. CASE lh = n
    <3>1. n \in 1..n /\ ToSet(Decode(old)) = FIDsOf(r[<<t, n>>])
      BY <1>1, <1>8, <2>1 DEF FIDsOf
    <3>2. QED
      BY <3>1 DEF Before, Below
  <2>2. CASE lh # n
    BY <1>8, <1>9, <2>2 DEF Below
  <2>3. QED
    BY <2>1, <2>2
<1> HIDE DEF old, n
<1>12. /\ Rising(Decode(old) \o chunk)
       /\ ToSet(Decode(old) \o chunk) = ToSet(Decode(old)) \cup ToSet(chunk)
  <2> DEFINE u == Decode(old)
  <2>1. u \in Seq(FIDs32) /\ Rising(u) /\ Below(ToSet(u), ToSet(chunk))
    BY <1>7, <1>10, <1>11
  <2> HIDE DEF u
  <2>2. Rising(u \o chunk) /\ ToSet(u \o chunk) = ToSet(u) \cup ToSet(chunk)
    BY <1>1, <2>1, RisingConcat, ConcatElements
  <2>3. QED
    BY <2>2 DEF u
<1>13. FIDsOf(w[<<t, lh>>]) = ToSet(Decode(old)) \cup ToSet(chunk)
  BY <1>2, <1>12 DEF FIDsOf
<1>14. \A b \in 1..lh : b # lh => FIDsOf(w[<<t, b>>]) = FIDsOf(r[<<t, b>>])
  BY <1>2, <1>3, <1>6 DEF FIDsOf
<1>15. lh = n => ToSet(Decode(old)) = FIDsOf(r[<<t, n>>])
  BY <1>8 DEF FIDsOf
<1>16. lh # n => ToSet(Decode(old)) = {}
  BY <1>8, <1>9
<1>17. InOrder(w[<<t, lh>>])
  <2>1. Rising(Decode(w[<<t, lh>>].body))
    BY <1>2, <1>12
  <2>2. Len(old \o code) = Len(old) + Len(code) /\ Len(old) \in Nat /\ Len(code) \in Nat
    BY <1>7, ConcatProperties
  <2>3. hdr.BodySize = Len(old) + Len(code)
    <3>1. CASE lh = n
      <4>1. r[<<t, lh>>].hdr.BodySize = Len(old)
        BY <1>1, <1>3, <1>8, <3>1, n \in 1..n DEF InOrder
      <4>2. hdr.BodySize = Len(code) + r[<<t, lh>>].hdr.BodySize
        BY <3>1 DEF n
      <4>3. QED
        BY <2>2, <4>1, <4>2
    <3>2. CASE lh # n
      <4>1. hdr.BodySize = Len(code) + 0 /\ Len(old) = 0
        BY <1>8, <3>2 DEF n
      <4>2. QED
        BY <2>2, <4>1
    <3>3. QED
      BY <3>1, <3>2
  <2>4. QED
    BY <1>2, <2>1, <2>2, <2>3 DEF InOrder
<1>18. \A b \in 1..lh : InOrder(w[<<t, b>>])
  <2>1. ASSUME NEW b \in 1..lh, b # lh PROVE InOrder(w[<<t, b>>])
    <3>1. Has(r, t, b) /\ InOrder(r[<<t, b>>])
      BY <1>3, <1>6, <2>1
    <3>2. w[<<t, b>>].hdr = r[<<t, b>>].hdr /\ w[<<t, b>>].body = r[<<t, b>>].body
      BY <1>2, <2>1, <3>1
    <3>3. QED
      BY <3>1, <3>2 DEF InOrder
  <2>2. QED
    BY <1>17, <2>1
<1>19. ASSUME NEW b \in 1..lh, NEW c \in 1..lh, b < c
       PROVE  Below(FIDsOf(w[<<t, b>>]), FIDsOf(w[<<t, c>>]))
  <2>1. b # lh /\ b \in 1..n /\ FIDsOf(w[<<t, b>>]) = FIDsOf(r[<<t, b>>])
    BY <1>6, <1>14, <1>19
  <2>2. CASE c # lh
    <3>1. c \in 1..n /\ FIDsOf(w[<<t, c>>]) = FIDsOf(r[<<t, c>>])
      BY <1>6, <1>14, <2>2
    <3>2. QED
      BY <1>3, <1>19, <2>1, <3>1
  <2>3. CASE c = lh
    <3>1. ASSUME NEW x \in FIDsOf(r[<<t, b>>]), NEW y \in ToSet(chunk) PROVE x < y
      BY <2>1, <3>1 DEF Before, n
    <3>2. ASSUME NEW x \in FIDsOf(r[<<t, b>>]), NEW y \in ToSet(Decode(old)) PROVE x < y
      <4>1. lh = n /\ y \in FIDsOf(r[<<t, n>>])
        BY <1>15, <1>16, <3>2
      <4>2. n \in 1..n /\ b < n
        BY <1>1, <1>19, <2>1, <2>3, <4>1
      <4>3. Below(FIDsOf(r[<<t, b>>]), FIDsOf(r[<<t, n>>]))
        BY <1>3, <2>1, <4>2
      <4>4. QED
        BY <3>2, <4>1, <4>3 DEF Below
    <3>3. QED
      BY <1>13, <2>1, <2>3, <3>1, <3>2 DEF Below
  <2>4. QED
    BY <2>2, <2>3
<1>20. \A b : Has(w, t, b) <=> b \in 1..lh
  BY <1>2, <1>3, <1>4 DEF Has
<1>21. Tidy(w, t)
  BY <1>2, <1>18, <1>19, <1>20 DEF Tidy
<1>22. ASSUME NEW f, Before(r, t, f), \A g \in ToSet(chunk) : g < f PROVE Before(w, t, f)
  <2>1. ASSUME NEW b \in 1..lh, NEW g \in FIDsOf(w[<<t, b>>]) PROVE g < f
    <3>1. CASE b # lh
      BY <1>6, <1>14, <1>22, <2>1, <3>1 DEF Before, n
    <3>2. CASE b = lh
      <4>1. CASE g \in ToSet(chunk)
        BY <1>22, <4>1
      <4>2. CASE g \in ToSet(Decode(old))
        <5>1. lh = n /\ g \in FIDsOf(r[<<t, n>>]) /\ n \in 1..n
          BY <1>1, <1>15, <1>16, <4>2
        <5>2. QED
          BY <1>22, <5>1 DEF Before, n
      <4>3. QED
        BY <1>13, <2>1, <3>2, <4>1, <4>2
    <3>3. QED
      BY <3>1, <3>2
  <2>2. QED
    BY <1>2, <2>1 DEF Before
<1>23. QED
  BY <1>21, <1>22

\* The two parts of a rising sequence.
LEMMA RisingPieces ==
  ASSUME NEW X \in SUBSET Int, NEW s \in Seq(X), Rising(s), NEW n \in 1..Len(s)
  PROVE  LET head == SubSeq(s, 1, n)
             tail == SubSeq(s, n + 1, Len(s))
         IN  /\ Rising(head) /\ Rising(tail) /\ Below(ToSet(head), ToSet(tail))
             /\ ToSet(s) = ToSet(head) \cup ToSet(tail)
<1> DEFINE head == SubSeq(s, 1, n)
           tail == SubSeq(s, n + 1, Len(s))
           l == Len(s)
<1>1. l \in Nat /\ n \in Nat /\ \A i \in 1..l : s[i] \in X
  <2>1. Len(s) \in Nat
    BY LenProperties
  <2>2. \A i \in 1..Len(s) : s[i] \in X
    BY ElementOfSeq
  <2>3. QED
    BY <2>1, <2>2
<1>2. Len(head) = n /\ DOMAIN head = 1..n /\ \A i \in 1..n : head[i] = s[i]
  <2>1. /\ head \in Seq(X) /\ Len(head) = (IF 1 <= n THEN n - 1 + 1 ELSE 0)
        /\ \A i \in 1..(n - 1 + 1) : head[i] = s[1 + i - 1]
    BY <1>1, SubSeqProperties
  <2> HIDE DEF head
  <2>2. QED
    BY <1>1, <2>1
<1>3. Len(tail) = l - n /\ DOMAIN tail = 1..(l - n) /\ \A i \in 1..(l - n) : tail[i] = s[n + i]
  <2>1. /\ tail \in Seq(X) /\ Len(tail) = (IF n + 1 <= l THEN l - (n + 1) + 1 ELSE 0)
        /\ \A i \in 1..(l - (n + 1) + 1) : tail[i] = s[n + 1 + i - 1]
    BY <1>1, SubSeqProperties
  <2>2. n <= l
    OBVIOUS
  <2> HIDE DEF tail, l
  <2>3. Len(tail) = l - n
    BY <1>1, <2>1, <2>2
  <2>4. DOMAIN tail = 1..(l - n)
    BY <2>1, <2>3
  <2>5. ASSUME NEW i \in 1..(l - n) PROVE tail[i] = s[n + i]
    <3>1. i \in 1..(l - (n + 1) + 1) /\ n + 1 + i - 1 = n + i
      BY <1>1
    <3>2. QED
      BY <2>1, <3>1
  <2>6. QED
    BY <2>3, <2>4, <2>5
<1>4. \A i, j \in 1..l : i < j => s[i] < s[j]
  BY DEF Rising
<1> HIDE DEF head, tail, l
<1>5. n \in 1..l
  BY DEF l
<1>6. Rising(head)
  BY <1>1, <1>2, <1>4, <1>5 DEF Rising
<1>7. Rising(tail)
  <2>1. ASSUME NEW i \in 1..(l - n), NEW j \in 1..(l - n), i < j PROVE tail[i] < tail[j]
    <3>1. n + i \in 1..l /\ n + j \in 1..l /\ n + i < n + j
      BY <1>1, <2>1
    <3>2. QED
      BY <1>3, <1>4, <3>1
  <2>2. QED
    BY <1>3, <2>1 DEF Rising
<1>8. Below(ToSet(head), ToSet(tail))
  <2>1. ASSUME NEW i \in 1..n, NEW j \in 1..(l - n) PROVE head[i] < tail[j]
    <3>1. i \in 1..l /\ n + j \in 1..l /\ i < n + j
      BY <1>1, <1>5
    <3>2. QED
      BY <1>2, <1>3, <1>4, <3>1
  <2>2. QED
    BY <1>2, <1>3, <2>1 DEF Below, ToSet
<1>9. ToSet(s) = ToSet(head) \cup ToSet(tail)
  <2>1. /\ ToSet(s) = {s[i] : i \in 1..l} /\ ToSet(head) = {head[i] : i \in 1..n}
        /\ ToSet(tail) = {tail[i] : i \in 1..(l - n)}
    BY <1>2, <1>3 DEF ToSet, l
  <2>2. ASSUME NEW x \in ToSet(s) PROVE x \in ToSet(head) \cup ToSet(tail)
    <3>1. PICK i \in 1..l : x = s[i]
      BY <2>1
    <3>2. CASE i \in 1..n
      BY <1>2, <2>1, <3>1, <3>2
    <3>3. CASE i \notin 1..n
      <4>1. i - n \in 1..(l - n) /\ n + (i - n) = i
        BY <1>1, <1>5, <3>3
      <4>2. QED
        BY <1>3, <2>1, <3>1, <4>1
    <3>4. QED
      BY <3>2, <3>3
  <2>3. ASSUME NEW x \in ToSet(head) \cup ToSet(tail) PROVE x \in ToSet(s)
    <3>1. CASE x \in ToSet(head)
      <4>1. PICK i \in 1..n : x = head[i]
        BY <2>1, <3>1
      <4>2. i \in 1..l
        BY <1>1, <1>5
      <4>3. QED
        BY <1>2, <2>1, <4>1, <4>2
    <3>2. CASE x \in ToSet(tail)
      <4>1. PICK i \in 1..(l - n) : x = tail[i]
        BY <2>1, <3>2
      <4>2. n + i \in 1..l
        BY <1>1, <1>5
      <4>3. QED
        BY <1>3, <2>1, <4>1, <4>2
    <3>3. QED
      BY <2>3, <3>1, <3>2
  <2>4. QED
    BY <2>2, <2>3
<1>10. QED
  BY <1>6, <1>7, <1>8, <1>9 DEF head, tail
=============================================================================
