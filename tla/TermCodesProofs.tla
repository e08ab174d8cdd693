--------------------------- MODULE TermCodesProofs ---------------------------
(* Different terms have different lists: the packing of terms is one-to-one. *)
EXTENDS TermCodes, TLAPS

\* A power that is large enough is found: the least one.
LEMMA PowerForFits ==
  ASSUME NEW n \in 1..1024
  PROVE  /\ PowerFor(n) \in Powers /\ PowerFor(n) \in Nat \ {0} /\ n <= PowerFor(n)
         /\ \A q \in Powers : n <= q => PowerFor(n) <= q
<1> DEFINE Least(p) == n <= p /\ \A q \in Powers : n <= q => p <= q
<1>1. \E p \in Powers : Least(p)
  BY SMT DEF Powers
<1>2. PowerFor(n) \in Powers /\ Least(PowerFor(n))
  BY <1>1 DEF PowerFor
<1> QED
  BY <1>2, SMT DEF Powers

\* The digits of a number in a mixed radix are its own.
LEMMA DigitsUnique ==
  ASSUME NEW r \in Nat \ {0}, NEW x \in Nat, NEW y \in Nat,
         NEW d \in 0..r - 1, NEW e \in 0..r - 1,
         x * r + d = y * r + e
  PROVE  x = y /\ d = e
<1>1. ASSUME NEW a \in Nat, NEW b \in Nat, a < b  PROVE a * r + r <= b * r
  <2>1. b - a - 1 \in Nat
    BY <1>1, SMT
  <2>2. (b - a - 1) * r >= 0
    BY <2>1, SMT
  <2>3. b * r = (b - a - 1) * r + a * r + r
    BY SMT
  <2> QED
    BY <2>2, <2>3, SMT
<1>2. ~ x < y
  BY <1>1, SMT
<1>3. ~ y < x
  BY <1>1, SMT
<1>4. x = y
  BY <1>2, <1>3, SMT
<1> QED
  BY <1>4, SMT

\* Six bits tell the values of Vpf apart.
LEMMA MaskUnique ==
  ASSUME NEW f \in -32..31, NEW g \in -32..31, f % 64 = g % 64
  PROVE  f = g
  BY SMT

\* Six bits are what the code keeps for Vpf, as its mask 0x3F has them.
LEMMA SixBits == VpfValues = 64
<1>1. Vpf_max \in 17..32
  BY TermCodesAssumption
<1>2. Vpf_max \in 1..1024
  BY <1>1, SMT
<1>3. PowerFor(Vpf_max) \in Powers /\ Vpf_max <= PowerFor(Vpf_max) /\ PowerFor(Vpf_max) <= 32
  <2>1. /\ PowerFor(Vpf_max) \in Powers /\ Vpf_max <= PowerFor(Vpf_max)
        /\ \A q \in Powers : Vpf_max <= q => PowerFor(Vpf_max) <= q
    BY <1>2, PowerForFits, ZenonT(40)
  <2>2. 32 \in Powers /\ Vpf_max <= 32
    BY <1>1, SMT DEF Powers
  <2> QED
    BY <2>1, <2>2
<1>4. PowerFor(Vpf_max) = 32
  BY <1>1, <1>3, SMT DEF Powers
<1> QED
  BY <1>4, SMT DEF VpfValues

\* The powers the code's bit counts stand for.
LEMMA PowersFit ==
  /\ PowerFor(Nbands) \in Nat \ {0} /\ Nbands <= PowerFor(Nbands) /\ Nbands \in Nat
  /\ PowerFor(Kmed) \in Nat \ {0} /\ Kmed <= PowerFor(Kmed) /\ Kmed \in Nat
  /\ PowerFor(Vpt_max) \in Nat \ {0} /\ Vpt_max <= PowerFor(Vpt_max) /\ Vpt_max \in Nat
<1>1. Kmed \in 1..1024 /\ Nbands \in 1..1024 /\ Vpt_max \in 1..1024
  BY TermCodesAssumption
<1>2. PowerFor(Nbands) \in Nat \ {0} /\ Nbands <= PowerFor(Nbands)
  BY <1>1, PowerForFits, ZenonT(40)
<1>3. PowerFor(Kmed) \in Nat \ {0} /\ Kmed <= PowerFor(Kmed)
  BY <1>1, PowerForFits, ZenonT(40)
<1>4. PowerFor(Vpt_max) \in Nat \ {0} /\ Vpt_max <= PowerFor(Vpt_max)
  BY <1>1, PowerForFits, ZenonT(40)
<1> QED
  BY <1>1, <1>2, <1>3, <1>4, SMT

\* The parts of a pair's term fit the bits the code keeps for them.
LEMMA XPartsFit ==
  ASSUME NEW t \in XTerms
  PROVE  /\ t = <<t[1], t[2], t[3], t[4], t[5]>>
         /\ t[1] \in Nat
         /\ t[2] \in 0..PowerFor(Nbands) - 1
         /\ t[3] \in 0..PowerFor(Kmed) - 1
         /\ t[4] \in 0..PowerFor(Vpt_max) - 1
         /\ t[5] \in -32..31
         /\ t[5] % 64 \in 0..63
<1>1. /\ t = <<t[1], t[2], t[3], t[4], t[5]>>
      /\ t[1] \in 0..Kmed - 1 /\ t[2] \in 0..Nbands - 1 /\ t[3] \in 0..Kmed - 1
      /\ t[4] \in 0..Tmax \div qT /\ t[5] \in 1 - Vpf_max..Vpf_max - 1
  BY DEF XTerms
<1>2. Vpf_max \in 17..32 /\ Tmax % qT # 0
  BY TermCodesAssumption
<1>3. Tmax \div qT < Vpt_max
  <2>1. Tmax \in Nat \ {0} /\ qT \in Nat \ {0}
    BY TermsAssumption
  <2> DEFINE d == Tmax \div qT
  <2> DEFINE e == (Tmax + qT - 1) \div qT
  <2>2. d \in Nat /\ Tmax = qT * d + (Tmax % qT) /\ Tmax % qT >= 1
    BY <1>2, <2>1, SMT
  <2>3. e \in Int /\ Tmax + qT - 1 < qT * (e + 1)
    BY <2>1, SMT
  <2>4. qT * (d + 1) <= Tmax + qT - 1
    BY <2>1, <2>2, SMT
  <2>5. qT * (d + 1) < qT * (e + 1)
    BY <2>1, <2>2, <2>3, <2>4, SMT
  <2>6. d < e
    BY <2>1, <2>2, <2>3, <2>5, SMT
  <2> QED
    BY <2>6 DEF Vpt_max, Ceil
<1>4. t[1] \in Nat /\ t[2] \in 0..PowerFor(Nbands) - 1 /\ t[3] \in 0..PowerFor(Kmed) - 1
  BY <1>1, PowersFit, SMT
<1>5. t[4] \in 0..PowerFor(Vpt_max) - 1
  <2> DEFINE d == Tmax \div qT
  <2> HIDE DEF d
  <2>1. t[4] \in 0..d /\ d < Vpt_max
    BY <1>1, <1>3 DEF d
  <2>2. d \in Int
    BY TermsAssumption, SMT DEF d
  <2> QED
    BY <2>1, <2>2, PowersFit, SMT
<1>6. t[5] \in -32..31
  BY <1>1, <1>2, SMT
<1>7. t[5] % 64 \in 0..63
  BY <1>6, SMT
<1> QED
  BY <1>1, <1>4, <1>5, <1>6, <1>7

\* The code of a term, as a number in a mixed radix.
LEMMA XCodeDigits ==
  ASSUME NEW t \in XTerms
  PROVE  XCode(t) = (((t[1] * PowerFor(Nbands) + t[2]) * PowerFor(Kmed) + t[3])
                       * PowerFor(Vpt_max) + t[4]) * 64 + (t[5] % 64)
<1>1. /\ PowerFor(Nbands) \in Nat /\ PowerFor(Kmed) \in Nat /\ PowerFor(Vpt_max) \in Nat
  BY PowersFit, SMT
<1>2. /\ t[1] \in Nat /\ t[2] \in Nat /\ t[3] \in Nat /\ t[4] \in Nat /\ t[5] % 64 \in Nat
  BY <1>1, XPartsFit, SMT
<1>3. XCode(t) = t[1] * (64 * PowerFor(Vpt_max) * PowerFor(Kmed) * PowerFor(Nbands))
                 + t[2] * (64 * PowerFor(Vpt_max) * PowerFor(Kmed))
                 + t[3] * (64 * PowerFor(Vpt_max)) + t[4] * 64 + (t[5] % 64)
  BY SixBits DEF XCode, W1_UNIT, B_UNIT, W2_UNIT, VPT_UNIT
<1> QED
  BY <1>1, <1>2, <1>3, SMT

\* Pairs of different words, bands, time or frequency differences never share a
\* list: the integer the indexer and the matcher pack a term's parts into
\* (Indexer.cpp:325, Matcher.cpp:388) tells terms apart, for every codebook of
\* at most 1024 words.
THEOREM XCodesApart == \A s, t \in XTerms : XCode(s) = XCode(t) => s = t
<1> SUFFICES ASSUME NEW s \in XTerms, NEW t \in XTerms, XCode(s) = XCode(t)
             PROVE  s = t
  OBVIOUS
<1> DEFINE B == PowerFor(Nbands)
<1> DEFINE W == PowerFor(Kmed)
<1> DEFINE T == PowerFor(Vpt_max)
<1> DEFINE upper2(u) == u[1] * B + u[2]
<1> DEFINE upper3(u) == upper2(u) * W + u[3]
<1> DEFINE upper4(u) == upper3(u) * T + u[4]
<1>1. B \in Nat \ {0} /\ W \in Nat \ {0} /\ T \in Nat \ {0}
  BY PowersFit
<1>2. ASSUME NEW u \in XTerms  PROVE upper2(u) \in Nat /\ upper3(u) \in Nat /\ upper4(u) \in Nat
  <2>1. u[1] \in Nat /\ u[2] \in Nat /\ u[3] \in Nat /\ u[4] \in Nat
    BY <1>1, XPartsFit, SMT
  <2>2. upper2(u) \in Nat
    BY <1>1, <2>1, SMT
  <2>3. upper3(u) \in Nat
    <3> HIDE DEF upper2
    <3> QED
      BY <1>1, <2>1, <2>2, SMT
  <2>4. upper4(u) \in Nat
    <3> HIDE DEF upper3
    <3> QED
      BY <1>1, <2>1, <2>3, SMT
  <2> QED
    BY <2>2, <2>3, <2>4
<1>3. /\ s[5] % 64 \in 0..63 /\ t[5] % 64 \in 0..63 /\ s[5] \in -32..31 /\ t[5] \in -32..31
      /\ s[4] \in 0..T - 1 /\ t[4] \in 0..T - 1 /\ s[3] \in 0..W - 1 /\ t[3] \in 0..W - 1
      /\ s[2] \in 0..B - 1 /\ t[2] \in 0..B - 1 /\ s[1] \in Nat /\ t[1] \in Nat
  BY XPartsFit
<1>4. upper4(s) * 64 + (s[5] % 64) = upper4(t) * 64 + (t[5] % 64)
  BY XCodeDigits
<1>5. upper2(s) \in Nat /\ upper3(s) \in Nat /\ upper4(s) \in Nat
      /\ upper2(t) \in Nat /\ upper3(t) \in Nat /\ upper4(t) \in Nat
  BY <1>2
<1>6. upper4(s) = upper4(t) /\ s[5] % 64 = t[5] % 64
  <2> HIDE DEF upper4
  <2> QED
    BY <1>3, <1>4, <1>5, SMTT(30)
<1>7. s[5] = t[5]
  BY <1>3, <1>6, MaskUnique
<1>8. upper3(s) = upper3(t) /\ s[4] = t[4]
  <2>1. upper3(s) * T + s[4] = upper3(t) * T + t[4]
    BY <1>6
  <2>2. T \in Nat \ {0} /\ s[4] \in 0..T - 1 /\ t[4] \in 0..T - 1 /\ upper3(s) \in Nat /\ upper3(t) \in Nat
    BY <1>1, <1>3, <1>5
  <2> HIDE DEF upper3, T
  <2> QED
    BY <2>1, <2>2, DigitsUnique
<1>9. upper2(s) = upper2(t) /\ s[3] = t[3]
  <2>1. upper2(s) * W + s[3] = upper2(t) * W + t[3]
    BY <1>8
  <2>2. W \in Nat \ {0} /\ s[3] \in 0..W - 1 /\ t[3] \in 0..W - 1 /\ upper2(s) \in Nat /\ upper2(t) \in Nat
    BY <1>1, <1>3, <1>5
  <2> HIDE DEF upper2, W
  <2> QED
    BY <2>1, <2>2, DigitsUnique
<1>10. s[1] = t[1] /\ s[2] = t[2]
  <2>1. s[1] * B + s[2] = t[1] * B + t[2]
    BY <1>9
  <2>2. B \in Nat \ {0} /\ s[2] \in 0..B - 1 /\ t[2] \in 0..B - 1 /\ s[1] \in Nat /\ t[1] \in Nat
    BY <1>1, <1>3
  <2> HIDE DEF B
  <2>3. \A x, y \in Nat : \A d, e \in 0..B - 1 : x * B + d = y * B + e => x = y /\ d = e
    BY <2>2, DigitsUnique
  <2> DEFINE s1 == s[1]
  <2> DEFINE s2 == s[2]
  <2> DEFINE t1 == t[1]
  <2> DEFINE t2 == t[2]
  <2>4. s1 \in Nat /\ t1 \in Nat /\ s2 \in 0..B - 1 /\ t2 \in 0..B - 1 /\ s1 * B + s2 = t1 * B + t2
    BY <2>1, <2>2
  <2>5. s1 = t1 /\ s2 = t2
    <3> HIDE DEF s1, s2, t1, t2
    <3> QED
      BY <2>3, <2>4
  <2> QED
    BY <2>5
<1> QED
  BY <1>7, <1>8, <1>9, <1>10, XPartsFit

\* The same for the terms of single LFs, which the 64 channels of 6 bits tell
\* apart (Indexer.cpp:283, Matcher.cpp:296).
THEOREM SCodesApart == \A s, t \in STerms : SCode(s) = SCode(t) => s = t
<1> SUFFICES ASSUME NEW s \in STerms, NEW t \in STerms, SCode(s) = SCode(t)
             PROVE  s = t
  OBVIOUS
<1>1. /\ s = <<s[1], s[2]>> /\ t = <<t[1], t[2]>>
      /\ s[1] \in 0..Kmed - 1 /\ t[1] \in 0..Kmed - 1 /\ s[2] \in 0..63 /\ t[2] \in 0..63
  BY DEF STerms
<1>2. Kmed \in 1..1024
  BY TermCodesAssumption
<1>3. s[1] * 64 + s[2] = t[1] * 64 + t[2]
  BY DEF SCode
<1>4. s[1] = t[1] /\ s[2] = t[2]
  BY <1>1, <1>2, <1>3, SMTT(30)
<1> QED
  BY <1>1, <1>4
==============================================================================
