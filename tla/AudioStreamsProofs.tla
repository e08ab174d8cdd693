------------------------- MODULE AudioStreamsProofs -------------------------
(***************************************************************************)
(* Proofs about AudioStreams, for recordings of any length, delivered in   *)
(* pieces of any size, and any windows, spectrum and neighbourhoods.       *)
(***************************************************************************)
EXTENDS AudioStreams, Recursion, SequenceTheorems

-----------------------------------------------------------------------------
(* Numbers.                                                                *)

\* The greater of two numbers.
LEMMA MaxOfTwo ==
  ASSUME NEW a \in Int, NEW b \in Int
  PROVE  Max({a, b}) \in {a, b} /\ Max({a, b}) >= a /\ Max({a, b}) >= b
<1> DEFINE Greatest(x) == x \in {a, b} /\ \A y \in {a, b} : x >= y
<1>1. \E x \in {a, b} : \A y \in {a, b} : x >= y
  <2>1. CASE a >= b
    BY <2>1
  <2>2. CASE ~(a >= b)
    BY <2>2
  <2>3. QED
    BY <2>1, <2>2
<1>2. Max({a, b}) \in {a, b} /\ \A y \in {a, b} : Max({a, b}) >= y
  BY <1>1, Zenon DEF Max
<1>3. QED
  BY <1>2

\* The lesser of two numbers.
LEMMA MinOfTwo ==
  ASSUME NEW a \in Int, NEW b \in Int
  PROVE  Min({a, b}) = IF a <= b THEN a ELSE b
<1>1. \E x \in {a, b} : \A y \in {a, b} : x <= y
  <2>1. CASE a <= b
    BY <2>1
  <2>2. CASE ~(a <= b)
    BY <2>2
  <2>3. QED
    BY <2>1, <2>2
<1>2. Min({a, b}) \in {a, b} /\ \A y \in {a, b} : Min({a, b}) <= y
  BY <1>1, Zenon DEF Min
<1>3. QED
  BY <1>2

\* The windows that fit in L samples: the last one does, one more does not.
FramesOf(n, L) ==
  /\ n \in Nat /\ L < n * hopSize + OrigWindowSize
  /\ n = 0 \/ n * hopSize + OrigWindowSize <= L + hopSize

\* What is assumed of the windows.
LEMMA WindowNumbers ==
  /\ OrigWindowSize \in Nat /\ OrigWindowSize > 0 /\ hopSize \in Nat /\ hopSize > 0
  /\ hopSize < OrigWindowSize
  BY FingerprintAssumption

\* The windows that are complete: the last begins a hop or less before the audio
\* left is too short for one.
LEMMA FramesCounted ==
  ASSUME NEW L \in Nat
  PROVE  FramesOf(Frames(L), L)
<1> USE WindowNumbers
<1>1. CASE L < OrigWindowSize
  BY <1>1 DEF Frames, FramesOf
<1>2. CASE ~(L < OrigWindowSize)
  <2> DEFINE d == (L - OrigWindowSize) \div hopSize
             r == (L - OrigWindowSize) % hopSize
  <2>1. d \in Nat /\ r \in 0..hopSize - 1 /\ L - OrigWindowSize = hopSize * d + r
    BY <1>2, SMT
  <2>2. Frames(L) = d + 1
    BY <1>2 DEF Frames
  <2> HIDE DEF d, r
  <2>3. (d + 1) * hopSize = hopSize * d + hopSize
    BY <2>1, SMT
  <2>4. QED
    BY <2>1, <2>2, <2>3 DEF FramesOf
<1>3. QED
  BY <1>1, <1>2

\* Products by the hop keep the order.
LEMMA Hops ==
  ASSUME NEW a \in Nat, NEW b \in Nat, a < b
  PROVE  a * hopSize + hopSize <= b * hopSize
<1> USE WindowNumbers
<1>1. b - a - 1 \in Nat
  OBVIOUS
<1>2. (b - a - 1) * hopSize >= 0
  BY <1>1, SMT
<1>3. b * hopSize = (b - a - 1) * hopSize + a * hopSize + hopSize
  BY SMT
<1>4. a * hopSize \in Int /\ b * hopSize \in Int /\ (b - a - 1) * hopSize \in Int
  BY <1>1, SMT
<1>5. QED
  BY <1>2, <1>3, <1>4

\* Their number is unique.
LEMMA FramesUnique ==
  ASSUME NEW L \in Nat, NEW n, FramesOf(n, L)
  PROVE  n = Frames(L)
<1> DEFINE m == Frames(L)
<1>1. FramesOf(m, L)
  BY FramesCounted
<1> HIDE DEF m
<1>2. ASSUME NEW a, NEW b, FramesOf(a, L), FramesOf(b, L), a < b PROVE FALSE
  <2>1. a \in Nat /\ b \in Nat /\ b # 0
    BY <1>2 DEF FramesOf
  <2>2. a * hopSize + hopSize <= b * hopSize
    BY <1>2, <2>1, Hops
  <2>3. a * hopSize \in Int /\ b * hopSize \in Int
    BY <2>1, WindowNumbers, SMT
  <2>4. QED
    BY <1>2, <2>1, <2>2, <2>3, WindowNumbers DEF FramesOf
<1>3. n \in Nat /\ m \in Nat
  BY <1>1 DEF FramesOf
<1>4. QED
  BY <1>1, <1>2, <1>3 DEF m

-----------------------------------------------------------------------------
(* Blocks of audio.                                                        *)

\* A piece of a sequence.
LEMMA Piece ==
  ASSUME NEW S, NEW s \in Seq(S), NEW a \in Nat, NEW b \in Nat, b <= Len(s), a <= b
  PROVE  /\ SubSeq(s, a + 1, b) \in Seq(S) /\ Len(SubSeq(s, a + 1, b)) = b - a
         /\ \A i \in 1..b - a : SubSeq(s, a + 1, b)[i] = s[a + i]
<1>1. Len(s) \in Nat /\ \A i \in a + 1 .. b : s[i] \in S
  BY LenProperties, ElementOfSeq
<1>2. /\ SubSeq(s, a + 1, b) \in Seq(S)
      /\ Len(SubSeq(s, a + 1, b)) = IF a + 1 <= b THEN b - (a + 1) + 1 ELSE 0
      /\ \A i \in 1 .. b - (a + 1) + 1 : SubSeq(s, a + 1, b)[i] = s[(a + 1) + i - 1]
  BY <1>1, SubSeqProperties
<1>3. b - (a + 1) + 1 = b - a /\ \A i \in 1..b - a : (a + 1) + i - 1 = a + i
  OBVIOUS
<1>4. QED
  BY <1>2, <1>3

\* What GetSubBlock takes.
LEMMA SubBlock ==
  ASSUME NEW S, NEW s \in Seq(S), NEW start \in Nat, NEW size \in Nat, start <= Len(s)
  PROVE  LET n == IF start + size <= Len(s) THEN size ELSE Len(s) - start
         IN  /\ GetSubBlock(s, start, size) \in Seq(S)
             /\ Len(GetSubBlock(s, start, size)) = n
             /\ \A i \in 1..n : GetSubBlock(s, start, size)[i] = s[start + i]
<1> DEFINE n == IF start + size <= Len(s) THEN size ELSE Len(s) - start
<1>1. Len(s) \in Nat
  BY LenProperties
<1>2. n \in Nat /\ start + n <= Len(s) /\ Min({size, Len(s) - start}) = n
  BY <1>1, MinOfTwo
<1>3. CASE start < Len(s)
  <2>1. GetSubBlock(s, start, size) = SubSeq(s, start + 1, start + n)
    BY <1>2, <1>3 DEF GetSubBlock
  <2> DEFINE e == start + n
  <2>2. e - start = n /\ start <= e /\ e \in Nat /\ e <= Len(s)
    BY <1>2
  <2> HIDE DEF n, e
  <2>3. /\ SubSeq(s, start + 1, e) \in Seq(S) /\ Len(SubSeq(s, start + 1, e)) = e - start
        /\ \A i \in 1..e - start : SubSeq(s, start + 1, e)[i] = s[start + i]
    BY <2>2, Piece
  <2>4. QED
    BY <2>1, <2>2, <2>3 DEF n, e
<1>4. CASE ~(start < Len(s))
  <2>1. n = 0 /\ GetSubBlock(s, start, size) = <<>>
    BY <1>1, <1>4 DEF GetSubBlock
  <2>2. QED
    BY <2>1, EmptySeq
<1>5. QED
  BY <1>3, <1>4

\* What fits is appended.
LEMMA Appended ==
  ASSUME NEW S, NEW s \in Seq(S), NEW t \in Seq(S), NEW c \in Nat, Len(s) + Len(t) <= c
  PROVE  AppendBlock(s, c, t) = s \o t
<1>1. Len(s) \in Nat /\ Len(t) \in Nat
  BY LenProperties
<1>2. CASE t = <<>>
  BY <1>2, ConcatEmptySeq DEF AppendBlock
<1>3. CASE t # <<>>
  <2>1. Min({c - Len(s), Len(t)}) = Len(t)
    BY <1>1, MinOfTwo
  <2>2. QED
    BY <1>3, <2>1, SubSeqFull DEF AppendBlock, DoAppend
<1>4. QED
  BY <1>2, <1>3

-----------------------------------------------------------------------------
(* Windows of audio.                                                       *)

\* The energies of a window.
Frame == {Energy[w] : w \in Windows}

WindowOf(h, c) == [i \in 1..OrigWindowSize |-> h[c + i]]

\* A window that is complete.
LEMMA WindowAt ==
  ASSUME NEW h \in Seq(Samples), NEW c \in Nat, c + OrigWindowSize <= Len(h)
  PROVE  /\ GetSubBlock(h, c, OrigWindowSize) \in Windows
         /\ GetSubBlock(h, c, OrigWindowSize) = WindowOf(h, c)
<1> DEFINE w == GetSubBlock(h, c, OrigWindowSize)
<1>1. Len(h) \in Nat /\ c <= Len(h)
  BY LenProperties, WindowNumbers
<1>2. /\ w \in Seq(Samples) /\ Len(w) = OrigWindowSize
      /\ \A i \in 1..OrigWindowSize : w[i] = h[c + i]
  BY <1>1, SubBlock, WindowNumbers
<1> HIDE DEF w
<1>3. w \in [1..OrigWindowSize -> Samples]
  BY <1>2, LenProperties
<1>4. QED
  BY <1>2, <1>3 DEF w, Windows, WindowOf

\* Where the windows begin.
LEMMA WindowStart ==
  ASSUME NEW L \in Nat, NEW m \in 1..Frames(L)
  PROVE  (m - 1) * hopSize \in Nat /\ (m - 1) * hopSize + OrigWindowSize <= L
<1> DEFINE n == Frames(L)
<1>1. FramesOf(n, L)
  BY FramesCounted
<1> HIDE DEF n
<1>2. n \in Nat /\ n # 0 /\ m \in Nat /\ m - 1 \in Nat /\ n * hopSize + OrigWindowSize <= L + hopSize
  BY <1>1 DEF FramesOf, n
<1>3. (m - 1) * hopSize + hopSize <= n * hopSize
  BY <1>2, Hops DEF n
<1>4. n * hopSize \in Int /\ (m - 1) * hopSize \in Nat
  BY <1>2, WindowNumbers, SMT
<1>5. QED
  BY <1>2, <1>3, <1>4, WindowNumbers

\* A frame of the spectrum is made from its own window of the audio.
LEMMA SpectrumFrames ==
  ASSUME NEW h \in Seq(Samples)
  PROVE  /\ Frames(Len(h)) \in Nat
         /\ SpectrumOf(h) \in Seq(Frame) /\ Len(SpectrumOf(h)) = Frames(Len(h))
         /\ \A m \in 1..Frames(Len(h)) :
              SpectrumOf(h)[m] = Energy[WindowOf(h, (m - 1) * hopSize)]
<1>1. Len(h) \in Nat
  BY LenProperties
<1> DEFINE n == Frames(Len(h))
<1>2. n \in Nat
  BY <1>1, FramesCounted DEF FramesOf
<1>3. ASSUME NEW m \in 1..n
      PROVE  /\ GetSubBlock(h, (m - 1) * hopSize, OrigWindowSize) \in Windows
             /\ GetSubBlock(h, (m - 1) * hopSize, OrigWindowSize) = WindowOf(h, (m - 1) * hopSize)
  <2> DEFINE c == (m - 1) * hopSize
  <2>1. c \in Nat /\ c + OrigWindowSize <= Len(h)
    BY <1>1, WindowStart
  <2> HIDE DEF c
  <2>2. /\ GetSubBlock(h, c, OrigWindowSize) \in Windows
        /\ GetSubBlock(h, c, OrigWindowSize) = WindowOf(h, c)
    BY <2>1, WindowAt
  <2>3. QED
    BY <2>2 DEF c
<1>4. \A m \in 1..n : Energy[GetSubBlock(h, (m - 1) * hopSize, OrigWindowSize)] \in Frame
  BY <1>3 DEF Frame
<1>5. SpectrumOf(h) = [m \in 1..n |-> Energy[GetSubBlock(h, (m - 1) * hopSize, OrigWindowSize)]]
  BY DEF SpectrumOf
<1> HIDE DEF n
<1>6. SpectrumOf(h) \in [1..n -> Frame]
  BY <1>4, <1>5
<1>7. SpectrumOf(h) \in Seq(Frame) /\ Len(SpectrumOf(h)) = n
  BY <1>2, <1>6, SMT
<1>8. ASSUME NEW m \in 1..n
      PROVE  SpectrumOf(h)[m] = Energy[WindowOf(h, (m - 1) * hopSize)]
  BY <1>3, <1>5, Zenon
<1>9. QED
  BY <1>2, <1>7, <1>8 DEF n

\* The rest is what the next window begins with, too short for a window.
LEMMA Rests ==
  ASSUME NEW h \in Seq(Samples)
  PROVE  LET c == Frames(Len(h)) * hopSize
         IN  /\ c \in Nat /\ c <= Len(h) /\ Len(h) - c < OrigWindowSize
             /\ Rest(h) \in Seq(Samples) /\ Len(Rest(h)) = Len(h) - c
             /\ \A i \in 1..Len(h) - c : Rest(h)[i] = h[c + i]
<1> DEFINE n == Frames(Len(h))
           c == n * hopSize
<1>1. Len(h) \in Nat
  BY LenProperties
<1>2. FramesOf(n, Len(h))
  BY <1>1, FramesCounted
<1> HIDE DEF n
<1>3. c \in Nat
  BY <1>2, WindowNumbers, SMT DEF FramesOf
<1>4. n = 0 => c = 0
  BY WindowNumbers, SMT
<1>5. c <= Len(h) /\ Len(h) - c < OrigWindowSize
  BY <1>1, <1>2, <1>3, <1>4, WindowNumbers DEF FramesOf
<1> HIDE DEF c
<1>6. Rest(h) = GetSubBlock(h, c, OrigWindowSize)
  BY DEF Rest, n, c
<1>7. (IF c + OrigWindowSize <= Len(h) THEN OrigWindowSize ELSE Len(h) - c) = Len(h) - c
  BY <1>1, <1>3, <1>5, WindowNumbers
<1>8. /\ GetSubBlock(h, c, OrigWindowSize) \in Seq(Samples)
      /\ Len(GetSubBlock(h, c, OrigWindowSize)) = Len(h) - c
      /\ \A i \in 1..Len(h) - c : GetSubBlock(h, c, OrigWindowSize)[i] = h[c + i]
  BY <1>3, <1>5, <1>7, SubBlock, WindowNumbers
<1>9. QED
  BY <1>3, <1>5, <1>6, <1>8 DEF n, c

\* Audio continued: the windows over what was left and what came are the next
\* windows of all of it, and what is left of them is what is left of it.
LEMMA Seam ==
  ASSUME NEW h \in Seq(Samples), NEW a \in Seq(Samples)
  PROVE  /\ h \o a \in Seq(Samples) /\ Rest(h) \o a \in Seq(Samples)
         /\ Len(h \o a) = Len(h) + Len(a)
         /\ Frames(Len(h \o a)) = Frames(Len(h)) + Frames(Len(Rest(h) \o a))
         /\ SpectrumOf(h \o a) = SpectrumOf(h) \o SpectrumOf(Rest(h) \o a)
         /\ Rest(h \o a) = Rest(Rest(h) \o a)
<1> DEFINE g == h \o a
           w == Rest(h) \o a
           n == Frames(Len(h))
           k == Frames(Len(w))
           c == n * hopSize
<1>1. /\ c \in Nat /\ c <= Len(h) /\ Len(h) - c < OrigWindowSize
      /\ Rest(h) \in Seq(Samples) /\ Len(Rest(h)) = Len(h) - c
      /\ \A i \in 1..Len(h) - c : Rest(h)[i] = h[c + i]
  BY Rests
<1>2. Len(h) \in Nat /\ Len(a) \in Nat
  BY LenProperties
<1>3. /\ g \in Seq(Samples) /\ Len(g) = Len(h) + Len(a)
      /\ \A i \in 1..Len(h) + Len(a) : g[i] = IF i <= Len(h) THEN h[i] ELSE a[i - Len(h)]
  BY ConcatProperties
<1>4. /\ w \in Seq(Samples) /\ Len(w) = (Len(h) - c) + Len(a)
      /\ \A i \in 1..(Len(h) - c) + Len(a) :
           w[i] = IF i <= Len(h) - c THEN Rest(h)[i] ELSE a[i - (Len(h) - c)]
  <2> HIDE DEF c
  <2>1. /\ w \in Seq(Samples) /\ Len(w) = Len(Rest(h)) + Len(a)
        /\ \A i \in 1..Len(Rest(h)) + Len(a) :
             w[i] = IF i <= Len(Rest(h)) THEN Rest(h)[i] ELSE a[i - Len(Rest(h))]
    BY <1>1, ConcatProperties
  <2>2. QED
    BY <1>1, <2>1
<1>5. FramesOf(n, Len(h)) /\ FramesOf(k, Len(w))
  <2>1. Len(w) \in Nat
    BY <1>4, LenProperties
  <2>2. QED
    BY <1>2, <2>1, FramesCounted
<1> HIDE DEF n, k, g, w
<1>6. n \in Nat /\ k \in Nat /\ k * hopSize \in Int /\ (n + k) * hopSize = c + k * hopSize
  BY <1>5, WindowNumbers, SMT DEF FramesOf
<1>7. \A i \in 1..Len(w) : w[i] = g[c + i]
  <2> HIDE DEF c
  <2> SUFFICES ASSUME NEW i \in 1..Len(w) PROVE w[i] = g[c + i]
    OBVIOUS
  <2>1. c + i \in 1..Len(h) + Len(a) /\ (c + i) - Len(h) = i - (Len(h) - c)
    BY <1>1, <1>2, <1>4
  <2>2. CASE i <= Len(h) - c
    <3>1. c + i <= Len(h) /\ i \in 1..Len(h) - c
      BY <1>1, <1>2, <2>2
    <3>2. QED
      BY <1>1, <1>3, <1>4, <2>1, <2>2, <3>1
  <2>3. CASE ~(i <= Len(h) - c)
    <3>1. ~(c + i <= Len(h))
      BY <1>1, <1>2, <2>3
    <3>2. QED
      BY <1>3, <1>4, <2>1, <2>3, <3>1
  <2>4. QED
    BY <2>2, <2>3
<1>8. Frames(Len(g)) = n + k
  <2>1. FramesOf(n + k, Len(g))
    <3>1. n = 0 \/ c + OrigWindowSize <= Len(h) + hopSize
      BY <1>5 DEF FramesOf
    <3>2. /\ Len(w) < k * hopSize + OrigWindowSize
          /\ k = 0 \/ k * hopSize + OrigWindowSize <= Len(w) + hopSize
      BY <1>5 DEF FramesOf
    <3>3. k = 0 => k * hopSize = 0
      BY WindowNumbers, SMT
    <3>4. n = 0 => c = 0
      BY WindowNumbers, SMT
    <3> HIDE DEF c
    <3>5. QED
      BY <1>1, <1>2, <1>3, <1>4, <1>6, <3>1, <3>2, <3>3, <3>4, WindowNumbers, SMTT(30) DEF FramesOf
  <2>2. Len(g) \in Nat
    BY <1>2, <1>3
  <2>3. QED
    BY <2>1, <2>2, FramesUnique
<1>9. Rest(g) = Rest(w)
  <2> DEFINE d == k * hopSize
  <2>1. (n + k) * hopSize = c + d /\ d \in Int
    BY <1>6
  <2>2. /\ c + d \in Nat /\ c + d <= Len(g)
        /\ Rest(g) \in Seq(Samples) /\ Len(Rest(g)) = Len(g) - (c + d)
        /\ \A i \in 1..Len(g) - (c + d) : Rest(g)[i] = g[(c + d) + i]
    <3> DEFINE e == Frames(Len(g)) * hopSize
    <3>1. /\ e \in Nat /\ e <= Len(g)
          /\ Rest(g) \in Seq(Samples) /\ Len(Rest(g)) = Len(g) - e
          /\ \A i \in 1..Len(g) - e : Rest(g)[i] = g[e + i]
      BY <1>3, Rests
    <3>2. e = c + d
      BY <1>8, <2>1
    <3> HIDE DEF c, d, e
    <3>3. QED
      BY <3>1, <3>2
  <2>3. /\ d \in Nat /\ d <= Len(w)
        /\ Rest(w) \in Seq(Samples) /\ Len(Rest(w)) = Len(w) - d
        /\ \A i \in 1..Len(w) - d : Rest(w)[i] = w[d + i]
    BY <1>4, Rests DEF k
  <2> HIDE DEF c, d
  <2>4. Len(g) - (c + d) = Len(w) - d
    BY <1>1, <1>2, <1>3, <1>4, <2>1
  <2>5. ASSUME NEW i \in 1..Len(w) - d PROVE Rest(g)[i] = Rest(w)[i]
    <3>1. d + i \in 1..Len(w) /\ c + (d + i) = (c + d) + i
      BY <1>1, <1>2, <1>4, <2>3
    <3>2. QED
      BY <1>7, <2>2, <2>3, <2>4, <3>1
  <2>6. QED
    BY <2>2, <2>3, <2>4, <2>5, SeqEqual
<1>10. SpectrumOf(g) = SpectrumOf(h) \o SpectrumOf(w)
  <2>1. /\ SpectrumOf(g) \in Seq(Frame) /\ Len(SpectrumOf(g)) = n + k
        /\ \A m \in 1..n + k :
             SpectrumOf(g)[m] = Energy[WindowOf(g, (m - 1) * hopSize)]
    BY <1>3, <1>8, SpectrumFrames
  <2>2. /\ SpectrumOf(h) \in Seq(Frame) /\ Len(SpectrumOf(h)) = n
        /\ \A m \in 1..n :
             SpectrumOf(h)[m] = Energy[WindowOf(h, (m - 1) * hopSize)]
    BY SpectrumFrames DEF n
  <2>3. /\ SpectrumOf(w) \in Seq(Frame) /\ Len(SpectrumOf(w)) = k
        /\ \A m \in 1..k :
             SpectrumOf(w)[m] = Energy[WindowOf(w, (m - 1) * hopSize)]
    BY <1>4, SpectrumFrames DEF k
  <2> DEFINE X == SpectrumOf(h) \o SpectrumOf(w)
  <2>4. /\ X \in Seq(Frame) /\ Len(X) = n + k
        /\ \A m \in 1..n + k : X[m] = IF m <= n THEN SpectrumOf(h)[m] ELSE SpectrumOf(w)[m - n]
    <3> DEFINE x == SpectrumOf(h)
               y == SpectrumOf(w)
    <3>1. x \in Seq(Frame) /\ y \in Seq(Frame) /\ Len(x) = n /\ Len(y) = k /\ X = x \o y
      BY <2>2, <2>3
    <3> HIDE DEF x, y, X
    <3>2. /\ X \in Seq(Frame) /\ Len(X) = Len(x) + Len(y)
          /\ \A m \in 1..Len(x) + Len(y) : X[m] = IF m <= Len(x) THEN x[m] ELSE y[m - Len(x)]
      BY <3>1, ConcatProperties
    <3>3. QED
      BY <3>1, <3>2 DEF x, y
  <2> HIDE DEF X
  <2>5. ASSUME NEW m \in 1..n + k PROVE SpectrumOf(g)[m] = X[m]
    <3>1. CASE m <= n
      <4>1. m \in 1..n
        BY <1>6, <3>1
      <4>2. (m - 1) * hopSize \in Nat /\ (m - 1) * hopSize + OrigWindowSize <= Len(h)
        BY <1>2, <4>1, WindowStart DEF n
      <4> DEFINE e == (m - 1) * hopSize
      <4> HIDE DEF e
      <4>3. \A i \in 1..OrigWindowSize : g[e + i] = h[e + i]
        <5>1. \A i \in 1..OrigWindowSize : e + i \in 1..Len(h) + Len(a) /\ e + i <= Len(h)
          BY <1>2, <4>2, WindowNumbers DEF e
        <5>2. QED
          BY <1>3, <5>1
      <4>4. WindowOf(g, e) = WindowOf(h, e)
        BY <4>3 DEF WindowOf
      <4>5. QED
        BY <2>1, <2>2, <2>4, <3>1, <4>1, <4>4 DEF e
    <3>2. CASE ~(m <= n)
      <4> DEFINE p == m - n
      <4>1. p \in 1..k /\ m = n + p
        BY <1>6, <3>2
      <4> HIDE DEF p
      <4>2. Len(w) \in Nat
        BY <1>4, LenProperties
      <4>3. (p - 1) * hopSize \in Nat /\ (p - 1) * hopSize + OrigWindowSize <= Len(w)
        BY <4>1, <4>2, WindowStart DEF k
      <4>4. (m - 1) * hopSize = c + (p - 1) * hopSize
        BY <1>6, <4>1, WindowNumbers, SMT
      <4> DEFINE e == (p - 1) * hopSize
      <4> HIDE DEF e, c
      <4>5. \A i \in 1..OrigWindowSize : g[(c + e) + i] = w[e + i]
        <5>1. \A i \in 1..OrigWindowSize : e + i \in 1..Len(w) /\ c + (e + i) = (c + e) + i
          BY <1>1, <4>2, <4>3, WindowNumbers, SMTT(30) DEF e
        <5>2. QED
          BY <1>7, <5>1
      <4>6. WindowOf(g, c + e) = WindowOf(w, e)
        BY <4>5 DEF WindowOf
      <4>7. SpectrumOf(g)[m] = SpectrumOf(w)[p]
        BY <2>1, <2>3, <4>1, <4>4, <4>6 DEF e
      <4>8. QED
        BY <2>4, <3>2, <4>7 DEF p
    <3>3. QED
      BY <3>1, <3>2
  <2>6. SpectrumOf(g) = X
    BY <2>1, <2>4, <2>5, SeqEqual
  <2>7. QED
    BY <2>6 DEF X
<1>11. QED
  BY <1>3, <1>4, <1>8, <1>9, <1>10 DEF g, w, n, k

-----------------------------------------------------------------------------
(* Suffixes.                                                               *)

\* The empty sequence ends every one.
LEMMA EmptySuffix ==
  ASSUME NEW S, NEW p \in Seq(S)
  PROVE  IsSuffix(<<>>, p)
<1>1. Reverse(<<>>) = <<>> /\ Len(<<>>) = 0
  BY SMT DEF Reverse
<1>2. Len(Reverse(p)) = Len(p) /\ Len(p) \in Nat
  BY SMT DEF Reverse
<1>3. SubSeq(<<>>, 1, 0) = <<>> /\ SubSeq(Reverse(p), 1, 0) = <<>>
  BY SubSeqEmpty
<1>4. QED
  BY <1>1, <1>2, <1>3 DEF IsSuffix, IsPrefix

\* A sequence the other way round.
LEMMA ReverseProperties ==
  ASSUME NEW S, NEW s \in Seq(S)
  PROVE  /\ Reverse(s) \in Seq(S) /\ Len(Reverse(s)) = Len(s)
         /\ \A i \in 1..Len(s) : Reverse(s)[i] = s[(Len(s) - i) + 1]
<1>1. Len(s) \in Nat /\ \A i \in 1..Len(s) : s[(Len(s) - i) + 1] \in S
  <2>1. Len(s) \in Nat
    BY LenProperties
  <2>2. \A i \in 1..Len(s) : (Len(s) - i) + 1 \in 1..Len(s)
    BY <2>1
  <2>3. QED
    BY <2>1, <2>2, ElementOfSeq
<1>2. QED
  BY <1>1, SMT DEF Reverse

\* What is appended ends the whole.
LEMMA EndIsSuffix ==
  ASSUME NEW S, NEW p \in Seq(S), NEW q \in Seq(S)
  PROVE  IsSuffix(q, p \o q)
<1> DEFINE s == p \o q
           r == Reverse(q)
           t == Reverse(s)
<1>1. Len(p) \in Nat /\ Len(q) \in Nat
  BY LenProperties
<1>2. /\ s \in Seq(S) /\ Len(s) = Len(p) + Len(q)
      /\ \A i \in 1 .. Len(p) + Len(q) : s[i] = IF i <= Len(p) THEN p[i] ELSE q[i - Len(p)]
  BY ConcatProperties
<1> HIDE DEF s
<1>3. /\ r \in Seq(S) /\ Len(r) = Len(q) /\ \A i \in 1..Len(q) : r[i] = q[(Len(q) - i) + 1]
  BY ReverseProperties
<1>4. /\ t \in Seq(S) /\ Len(t) = Len(s) /\ \A i \in 1..Len(s) : t[i] = s[(Len(s) - i) + 1]
  BY <1>2, ReverseProperties
<1> HIDE DEF r, t
<1>5. ASSUME NEW i \in 1..Len(q) PROVE r[i] = t[i]
  <2> DEFINE m == (Len(s) - i) + 1
  <2>1. i \in 1..Len(s) /\ m \in 1..Len(p) + Len(q) /\ ~(m <= Len(p)) /\ m - Len(p) = (Len(q) - i) + 1
    BY <1>1, <1>2
  <2>2. s[m] = q[m - Len(p)]
    BY <1>2, <2>1
  <2>3. QED
    BY <1>3, <1>4, <2>1, <2>2
<1>6. SubSeq(r, 1, Len(r)) = r
  BY <1>3, SubSeqFull
<1>7. SubSeq(t, 1, Len(r)) = r
  <2> DEFINE u == SubSeq(t, 0 + 1, Len(r))
  <2>1. u \in Seq(S) /\ Len(u) = Len(r) - 0 /\ \A i \in 1..Len(r) - 0 : u[i] = t[0 + i]
    <3>1. Len(r) \in Nat /\ 0 \in Nat /\ Len(r) <= Len(t) /\ 0 <= Len(r)
      BY <1>1, <1>2, <1>3, <1>4
    <3>2. QED
      BY <1>4, <3>1, Piece
  <2> HIDE DEF u
  <2>2. Len(u) = Len(r) /\ \A i \in 1..Len(r) : u[i] = t[i]
    BY <1>1, <1>3, <2>1
  <2>3. u = r
    BY <1>3, <1>5, <2>1, <2>2, SeqEqual
  <2>4. QED
    BY <2>3 DEF u
<1>8. Len(r) <= Len(t)
  BY <1>1, <1>2, <1>3, <1>4
<1>9. QED
  BY <1>6, <1>7, <1>8 DEF IsSuffix, IsPrefix, r, t, s

-----------------------------------------------------------------------------
(* Process.                                                                *)

Fields == {"OSCapacity", "OSWindow", "LID", "DeltaT", "Spectrum", "LF"}

\* A fingerprinter that has heard h.
HasHeard(f, h) ==
  /\ f = [x \in Fields |-> f[x]]
  /\ f.OSCapacity \in Nat /\ f.DeltaT = Frames(Len(h)) /\ f.OSWindow = Rest(h)

\* All of the carried rest and of the audio fits in the buffer.
LEMMA BufferHolds ==
  ASSUME NEW h \in Seq(Samples), NEW a \in Seq(Samples), NEW f, HasHeard(f, h)
  PROVE  OSCapacity(f, a) \in Nat /\ OSBuffer(f, a) = Rest(h) \o a
<1> DEFINE c == OSCapacity(f, a)
           r == Rest(h)
<1>1. r \in Seq(Samples) /\ Len(r) < OrigWindowSize /\ Len(r) \in Nat
  <2>1. Rest(h) \in Seq(Samples) /\ Len(Rest(h)) < OrigWindowSize
    <3> DEFINE e == Frames(Len(h)) * hopSize
    <3>1. Len(h) - e < OrigWindowSize /\ Rest(h) \in Seq(Samples) /\ Len(Rest(h)) = Len(h) - e
      BY Rests
    <3> HIDE DEF e
    <3>2. QED
      BY <3>1
  <2>2. QED
    BY <2>1, LenProperties
<1>2. Len(a) \in Nat
  BY LenProperties
<1>3. c \in Nat /\ c >= Len(a) + OrigWindowSize
  <2>1. Len(a) + OrigWindowSize \in Nat /\ f.OSCapacity \in Nat
    BY <1>2, WindowNumbers DEF HasHeard
  <2> DEFINE b == Len(a) + OrigWindowSize
             d == f.OSCapacity
  <2>2. c = Max({d, b})
    BY DEF OSCapacity
  <2>0. b \in Nat /\ d \in Nat /\ b \in Int /\ d \in Int
    BY <2>1
  <2> HIDE DEF b, d
  <2>3. Max({d, b}) \in {d, b} /\ Max({d, b}) >= d /\ Max({d, b}) >= b
    BY <2>0, MaxOfTwo, Zenon
  <2>4. c \in Nat /\ c >= b
    BY <2>0, <2>2, <2>3
  <2>5. QED
    BY <2>4 DEF b
<1> HIDE DEF c
<1>4. OSBuffer(f, a) = AppendBlock(AppendBlock(<<>>, c, r), c, a)
  BY DEF OSBuffer, c, HasHeard
<1> HIDE DEF r
<1>5. AppendBlock(<<>>, c, r) = r
  <2>1. <<>> \in Seq(Samples) /\ Len(<<>>) = 0
    BY EmptySeq
  <2>2. Len(<<>>) + Len(r) <= c
    BY <1>1, <1>2, <1>3, <2>1, WindowNumbers
  <2>3. AppendBlock(<<>>, c, r) = <<>> \o r
    BY <1>1, <1>3, <2>1, <2>2, Appended
  <2>4. QED
    BY <1>1, <2>3, ConcatEmptySeq
<1>6. AppendBlock(r, c, a) = r \o a
  BY <1>1, <1>2, <1>3, Appended, WindowNumbers
<1>7. QED
  BY <1>3, <1>4, <1>5, <1>6 DEF c, r

\* What Process makes of half a second of audio, or more.
LEMMA Processed ==
  ASSUME NEW h \in Seq(Samples), NEW a \in Seq(Samples), NEW f, HasHeard(f, h), Len(a) >= MinSize
  PROVE  LET g == Process(f, a)
             X == SpectrumOf(Rest(h) \o a)
         IN  /\ HasHeard(g, h \o a)
             /\ g.Spectrum = X
             /\ g.LF = LFsOf(X, PeakMap(X), f.LID, Frames(Len(h)))
             /\ g.LID = f.LID + Len(g.LF)
<1> DEFINE w == Rest(h) \o a
           X == SpectrumOf(w)
           lfs == LFsOf(X, PeakMap(X), f.LID, f.DeltaT)
           g == Process(f, a)
<1>1. OSCapacity(f, a) \in Nat /\ OSBuffer(f, a) = w
  BY BufferHolds
<1>2. MinSize \in Int /\ Len(a) \in Nat /\ ~(Len(a) < MinSize)
  BY FingerprintAssumption, LenProperties, WindowNumbers, SMTT(30)
<1>3. g = [OSCapacity |-> OSCapacity(f, a), OSWindow |-> Rest(w), LID |-> NextLID(f, Len(lfs)),
           DeltaT |-> NextDeltaT(f, a, X), Spectrum |-> X, LF |-> lfs]
  BY <1>1, <1>2 DEF Process, Duration
<1>4. /\ w \in Seq(Samples) /\ Rest(h \o a) = Rest(w)
      /\ Frames(Len(h \o a)) = Frames(Len(h)) + Frames(Len(w))
  BY Seam
<1>5. Len(X) = Frames(Len(w))
  BY <1>4, SpectrumFrames
<1> HIDE DEF w, X, lfs, g
<1>6. /\ g.OSCapacity = OSCapacity(f, a) /\ g.OSWindow = Rest(w) /\ g.LID = NextLID(f, Len(lfs))
      /\ g.DeltaT = NextDeltaT(f, a, X) /\ g.Spectrum = X /\ g.LF = lfs
      /\ g = [x \in Fields |-> g[x]]
  BY <1>3 DEF Fields
<1>7. HasHeard(g, h \o a)
  BY <1>1, <1>4, <1>5, <1>6 DEF HasHeard, NextDeltaT
<1>8. lfs = LFsOf(X, PeakMap(X), f.LID, Frames(Len(h)))
  BY DEF lfs, HasHeard
<1>9. QED
  BY <1>6, <1>7, <1>8 DEF NextLID, g, X, w

\* Less is not heard.
LEMMA Unprocessed ==
  ASSUME NEW h \in Seq(Samples), NEW a, NEW f, HasHeard(f, h), Len(a) < MinSize
  PROVE  /\ HasHeard(Process(f, a), h)
         /\ Process(f, a).Spectrum = <<>> /\ Process(f, a).LF = <<>> /\ Process(f, a).LID = f.LID
<1> DEFINE g == Process(f, a)
<1>1. g = [f EXCEPT !.Spectrum = <<>>, !.LF = <<>>]
  BY DEF Process, Duration
<1> HIDE DEF g
<1> DEFINE e == [f EXCEPT !.Spectrum = <<>>]
<1>2. f = [x \in Fields |-> f[x]]
  BY DEF HasHeard
<1>a. /\ e = [x \in Fields |-> e[x]] /\ e.Spectrum = <<>> /\ e.LID = f.LID
      /\ e.OSCapacity = f.OSCapacity /\ e.DeltaT = f.DeltaT /\ e.OSWindow = f.OSWindow
  BY <1>2 DEF Fields
<1>b. g = [e EXCEPT !.LF = <<>>]
  BY <1>1
<1> HIDE DEF e
<1>3. /\ g = [x \in Fields |-> g[x]] /\ g.Spectrum = <<>> /\ g.LF = <<>> /\ g.LID = f.LID
      /\ g.OSCapacity = f.OSCapacity /\ g.DeltaT = f.DeltaT /\ g.OSWindow = f.OSWindow
  BY <1>a, <1>b DEF Fields
<1>4. QED
  BY <1>3 DEF HasHeard, g

\* A fingerprinter that has heard nothing, new or reset.
LEMMA HeardNothing ==
  ASSUME NEW f, f = [x \in Fields |-> f[x]], f.OSCapacity \in Nat, f.DeltaT = 0, f.OSWindow = <<>>
  PROVE  HasHeard(f, <<>>)
<1>1. Len(<<>>) = 0
  BY EmptySeq
<1>2. Frames(0) = 0
  BY WindowNumbers DEF Frames
<1>3. Rest(<<>>) = <<>>
  BY <1>1, <1>2 DEF Rest, GetSubBlock
<1>4. QED
  BY <1>1, <1>2, <1>3 DEF HasHeard

\* A new fingerprinter, and one that is reset, have heard nothing.
LEMMA NewHeardNothing ==
  ASSUME NEW c \in Nat
  PROVE  HasHeard(NewFingerprint(c), <<>>) /\ NewFingerprint(c).LID = 0
<1> DEFINE f == NewFingerprint(c)
<1>1. /\ f = [x \in Fields |-> f[x]] /\ f.OSCapacity = c /\ f.DeltaT = 0 /\ f.OSWindow = <<>>
      /\ f.LID = 0
  BY DEF NewFingerprint, Fields
<1> HIDE DEF f
<1>2. HasHeard(f, <<>>)
  BY <1>1, HeardNothing
<1>3. QED
  BY <1>1, <1>2 DEF f

\* Reset keeps the capacity, the spectrum and the LFs, which do not matter.
LEMMA ResetHeardNothing ==
  ASSUME fp.OSCapacity \in Nat
  PROVE  HasHeard(ResetFingerprint, <<>>) /\ ResetFingerprint.LID = 0
<1> DEFINE c == fp.OSCapacity
           e == [NewFingerprint(c) EXCEPT !.Spectrum = fp.Spectrum]
           f == ResetFingerprint
<1>1. /\ e = [x \in Fields |-> e[x]] /\ e.OSCapacity = c /\ e.DeltaT = 0 /\ e.OSWindow = <<>>
      /\ e.LID = 0
  BY DEF NewFingerprint, Fields
<1>2. f = [e EXCEPT !.LF = fp.LF]
  BY DEF ResetFingerprint
<1> HIDE DEF e, f
<1>3. /\ f = [x \in Fields |-> f[x]] /\ f.OSCapacity = c /\ f.DeltaT = 0 /\ f.OSWindow = <<>>
      /\ f.LID = 0
  BY <1>1, <1>2 DEF Fields
<1>4. HasHeard(f, <<>>)
  BY <1>3, HeardNothing
<1>5. QED
  BY <1>3, <1>4 DEF f

-----------------------------------------------------------------------------
(* The two loops.                                                          *)

\* What there is between the provider and the fingerprinter: the audio
\* delivered is the audio heard and then the buffer, which holds less than a
\* chunk; at the end all but half a second of it was heard.
Sound ==
  /\ client \in {"INDEX", "IDENTIFY"} /\ recording \in Seq(Samples)
  /\ given \in Nat /\ given <= Len(recording)
  /\ heard \in Seq(Samples) /\ buffer \in Seq(Samples)
  /\ client = "IDENTIFY" => stage = "feeding"
  /\ client = "INDEX" /\ stage = "feeding" =>
       heard \o buffer = SubSeq(recording, 1, given) /\ Len(buffer) < ChunkSize

HeardInv ==
  /\ HasHeard(fp, heard)
  /\ heard # <<>> => IsSuffix(fp.Spectrum, SpectrumOf(heard))

Whole == client = "INDEX" => AllFingerprinted

AudioInv == Sound /\ HeardInv /\ Whole

\* What the constants are.
LEMMA StreamNumbers ==
  /\ ChunkSize \in Nat /\ BlockSize \in Nat /\ BufferSize \in Nat /\ MinSize \in Nat /\ SnippetSize \in Nat
  /\ ChunkSize > 0 /\ MinSize > 0 /\ MinSize <= ChunkSize
  /\ ChunkSize + BlockSize <= BufferSize + 1
  /\ \A n \in Sizes \cup {0} : n \in Nat
<1>1. /\ {BlockSize, ChunkSize, BufferSize, SnippetSize} \subseteq Nat \ {0} /\ Sizes \subseteq Nat \ {0}
      /\ ChunkSize + BlockSize <= BufferSize + 1 /\ MinSize <= ChunkSize
  BY AudioStreamsAssumption
<1>2. MinSize \in Nat \ {0}
  BY FingerprintAssumption
<1>3. QED
  BY <1>1, <1>2

\* A fingerprinter that is given audio goes on from where it was.
LEMMA GoesOn ==
  ASSUME NEW audio \in Seq(Samples), Fingerprinted(audio), heard \in Seq(Samples), HeardInv
  PROVE  /\ heard' \in Seq(Samples) /\ HeardInv'
         /\ heard' = IF Len(audio) < MinSize THEN heard ELSE heard \o audio
<1>1. fp' = Process(fp, audio) /\ heard' = IF Len(audio) < MinSize THEN heard ELSE heard \o audio
  BY DEF Fingerprinted
<1>2. HasHeard(fp, heard)
  BY DEF HeardInv
<1>3. CASE Len(audio) < MinSize
  <2>1. HasHeard(fp', heard) /\ fp'.Spectrum = <<>>
    BY <1>1, <1>2, <1>3, Unprocessed
  <2>2. IsSuffix(<<>>, SpectrumOf(heard))
    BY SpectrumFrames, EmptySuffix
  <2>3. heard' = heard
    BY <1>1, <1>3
  <2>4. QED
    BY <1>1, <2>1, <2>2, <2>3 DEF HeardInv
<1>4. CASE ~(Len(audio) < MinSize)
  <2> DEFINE h == heard
             w == Rest(heard) \o audio
  <2>1. heard' = heard \o audio
    BY <1>1, <1>4
  <2>2. Len(audio) \in Nat /\ MinSize \in Nat /\ Len(audio) >= MinSize
    BY <1>4, LenProperties, StreamNumbers
  <2>3. HasHeard(fp', heard \o audio) /\ fp'.Spectrum = SpectrumOf(w)
    BY <1>1, <1>2, <2>2, Processed
  <2>4. /\ heard \o audio \in Seq(Samples) /\ w \in Seq(Samples)
        /\ SpectrumOf(heard \o audio) = SpectrumOf(heard) \o SpectrumOf(w)
    BY Seam
  <2> HIDE DEF w
  <2>5. IsSuffix(SpectrumOf(w), SpectrumOf(heard \o audio))
    <3>1. SpectrumOf(heard) \in Seq(Frame) /\ SpectrumOf(w) \in Seq(Frame)
      BY <2>4, SpectrumFrames
    <3>2. QED
      BY <2>4, <3>1, EndIsSuffix
  <2>6. QED
    BY <1>1, <2>1, <2>3, <2>4, <2>5 DEF HeardInv
<1>5. QED
  BY <1>3, <1>4

\* The order of joining does not matter.
LEMMA Joined ==
  ASSUME NEW S, NEW s \in Seq(S), NEW t \in Seq(S), NEW u \in Seq(S),
         NEW v, v = s \o t, NEW w, w = t \o u
  PROVE  v \o u = s \o w
<1> DEFINE x == v \o u
           y == s \o w
<1>0. x = v \o u /\ y = s \o w
  OBVIOUS
<1> HIDE DEF x, y
<1>1. Len(s) \in Nat /\ Len(t) \in Nat /\ Len(u) \in Nat
  BY LenProperties
<1>2. /\ v \in Seq(S) /\ Len(v) = Len(s) + Len(t)
      /\ \A i \in 1 .. Len(s) + Len(t) : v[i] = IF i <= Len(s) THEN s[i] ELSE t[i - Len(s)]
  BY ConcatProperties
<1>3. /\ w \in Seq(S) /\ Len(w) = Len(t) + Len(u)
      /\ \A i \in 1 .. Len(t) + Len(u) : w[i] = IF i <= Len(t) THEN t[i] ELSE u[i - Len(t)]
  BY ConcatProperties
<1>4. /\ x \in Seq(S) /\ Len(x) = Len(v) + Len(u)
      /\ \A i \in 1 .. Len(v) + Len(u) : x[i] = IF i <= Len(v) THEN v[i] ELSE u[i - Len(v)]
  BY <1>0, <1>2, ConcatProperties
<1>5. /\ y \in Seq(S) /\ Len(y) = Len(s) + Len(w)
      /\ \A i \in 1 .. Len(s) + Len(w) : y[i] = IF i <= Len(s) THEN s[i] ELSE w[i - Len(s)]
  BY <1>0, <1>3, ConcatProperties
<1>6. Len(x) = Len(y)
  BY <1>1, <1>2, <1>3, <1>4, <1>5
<1>7. ASSUME NEW i \in 1..Len(x) PROVE x[i] = y[i]
  <2>1. CASE i <= Len(s)
    <3>1. i <= Len(v) /\ i \in 1..Len(v) + Len(u) /\ i \in 1..Len(s) + Len(w) /\ i \in 1..Len(s) + Len(t)
      BY <1>1, <1>2, <1>3, <1>4, <2>1
    <3>2. QED
      BY <1>2, <1>4, <1>5, <2>1, <3>1
  <2>2. CASE ~(i <= Len(s)) /\ i <= Len(v)
    <3>1. /\ i \in 1..Len(v) + Len(u) /\ i \in 1..Len(s) + Len(w) /\ i \in 1..Len(s) + Len(t)
          /\ i - Len(s) \in 1..Len(t) + Len(u) /\ i - Len(s) <= Len(t)
      BY <1>1, <1>2, <1>3, <1>4, <2>2
    <3>2. QED
      BY <1>2, <1>3, <1>4, <1>5, <2>2, <3>1
  <2>3. CASE ~(i <= Len(v))
    <3>1. /\ i \in 1..Len(v) + Len(u) /\ i \in 1..Len(s) + Len(w) /\ ~(i <= Len(s))
          /\ i - Len(s) \in 1..Len(t) + Len(u) /\ ~(i - Len(s) <= Len(t))
          /\ (i - Len(s)) - Len(t) = i - Len(v)
      BY <1>1, <1>2, <1>3, <1>4, <2>3
    <3>2. QED
      BY <1>3, <1>4, <1>5, <2>3, <3>1
  <2>4. QED
    BY <2>1, <2>2, <2>3
<1>8. x = y
  BY <1>4, <1>5, <1>6, <1>7, SeqEqual
<1>9. QED
  BY <1>0, <1>8

\* One round of Index: the block goes behind what is buffered, all of it.
LEMMA BlockFits ==
  ASSUME NEW n \in Nat, Sound, client = "INDEX", stage = "feeding", n <= BlockSize,
         given + n <= Len(recording)
  PROVE  LET block == Delivered(n)
             audio == Accumulated(block)
         IN  /\ block \in Seq(Samples) /\ Len(block) = n
             /\ audio \in Seq(Samples) /\ Len(audio) = Len(buffer) + n
             /\ heard \o audio = SubSeq(recording, 1, given + n)
<1> DEFINE block == Delivered(n)
           audio == Accumulated(block)
           m == given + n
<1>1. /\ recording \in Seq(Samples) /\ given \in Nat /\ heard \in Seq(Samples) /\ buffer \in Seq(Samples)
      /\ heard \o buffer = SubSeq(recording, 1, given) /\ Len(buffer) < ChunkSize
      /\ Len(recording) \in Nat /\ Len(buffer) \in Nat
  BY LenProperties DEF Sound
<1>2. block \in Seq(Samples) /\ Len(block) = n
  <2>1. m \in Nat /\ m <= Len(recording) /\ given <= m /\ m - given = n /\ block = SubSeq(recording, given + 1, m)
    BY <1>1 DEF Delivered
  <2> HIDE DEF m, block
  <2>2. SubSeq(recording, given + 1, m) \in Seq(Samples) /\ Len(SubSeq(recording, given + 1, m)) = m - given
    BY <1>1, <2>1, Piece
  <2>3. QED
    BY <2>1, <2>2
<1>3. audio = buffer \o block
  <2>1. Len(buffer) + Len(block) <= BufferSize
    BY <1>1, <1>2, StreamNumbers
  <2>2. QED
    BY <1>1, <1>2, <2>1, Appended, StreamNumbers DEF Accumulated
<1>4. audio \in Seq(Samples) /\ Len(audio) = Len(buffer) + n
  <2> HIDE DEF block, audio
  <2>1. /\ audio \in Seq(Samples) /\ Len(audio) = Len(buffer) + Len(block)
    BY <1>1, <1>2, <1>3, ConcatProperties
  <2>2. QED
    BY <1>2, <2>1
<1>5. heard \o audio = SubSeq(recording, 1, m)
  <2> DEFINE p == SubSeq(recording, 1, given)
  <2>1. block = SubSeq(recording, given + 1, m)
    BY DEF Delivered
  <2>2. m \in given .. Len(recording) /\ 1 \in 1..Len(recording) + 1 /\ given \in 1 - 1 .. Len(recording)
    BY <1>1
  <2>3. p \o block = SubSeq(recording, 1, m)
    <3> HIDE DEF m
    <3>1. SubSeq(recording, 1, given) \o SubSeq(recording, given + 1, m) = SubSeq(recording, 1, m)
      BY <1>1, <2>2, ConcatAdjacentSubSeq
    <3>2. QED
      BY <2>1, <3>1
  <2>4. p = heard \o buffer
    BY <1>1
  <2> HIDE DEF p, block, audio, m
  <2>5. p \o block = heard \o audio
    <3>1. heard \in Seq(Samples) /\ buffer \in Seq(Samples) /\ block \in Seq(Samples)
      BY <1>1, <1>2
    <3>2. QED
      BY <1>3, <2>4, <3>1, Joined
  <2>6. QED
    BY <2>3, <2>5
<1>6. QED
  BY <1>2, <1>4, <1>5

\* The audio heard is all of it but its end.
AllBut(h, r) == IsPrefix(h, r) /\ Len(r) - Len(h) < MinSize

\* Audio shorter than half a second may be left unheard at the end.
LEMMA RestUnheard ==
  ASSUME NEW h \in Seq(Samples), NEW a \in Seq(Samples), Len(a) < MinSize
  PROVE  AllBut(h, h \o a)
<1>1. Len(h) \in Nat /\ Len(a) \in Nat
  BY LenProperties
<1>2. Len(h \o a) = Len(h) + Len(a)
  BY ConcatProperties
<1>3. SubSeq(h \o a, 1, Len(h)) = SubSeq(h, 1, Len(h))
  <2>1. CASE Len(h) = 0
    BY <2>1, SubSeqEmpty
  <2>2. CASE Len(h) # 0
    <3>1. 1 \in 1..Len(h) /\ Len(h) \in 1..Len(h)
      BY <1>1, <2>2
    <3>2. QED
      BY <3>1, SubSeqOfConcat1
  <2>3. QED
    BY <2>1, <2>2
<1>4. QED
  BY <1>1, <1>2, <1>3, StreamNumbers DEF AllBut, IsPrefix

\* Or nothing is.
LEMMA AllHeard ==
  ASSUME NEW h \in Seq(Samples)
  PROVE  AllBut(h, h)
<1>1. <<>> \in Seq(Samples) /\ Len(<<>>) = 0 /\ h \o <<>> = h
  BY EmptySeq, ConcatEmptySeq
<1>2. Len(<<>>) < MinSize
  BY <1>1, StreamNumbers
<1>3. AllBut(h, h \o <<>>)
  BY <1>1, <1>2, RestUnheard
<1>4. QED
  BY <1>1, <1>3

\* The invariant holds at the start,
LEMMA InitAudio == Init => AudioInv
<1> SUFFICES ASSUME Init PROVE AudioInv
  OBVIOUS
<1>1. /\ client \in Clients /\ recording \in Recordings /\ given = 0
      /\ buffer = Create(BufferSize, 0) /\ stage = "feeding" /\ heard = <<>>
      /\ fp = NewFingerprint(IF client = "INDEX" THEN BufferSize + OrigWindowSize ELSE SnippetSize)
  BY DEF Init
<1>2. client \in {"INDEX", "IDENTIFY"} /\ recording \in Seq(Samples)
  BY <1>1, AudioStreamsAssumption
<1>3. buffer = <<>>
  <2>1. Min({0, BufferSize}) = 0
    BY StreamNumbers, MinOfTwo
  <2>2. Create(BufferSize, 0) = [i \in 1..0 |-> 0]
    BY <2>1 DEF Create
  <2>3. [i \in 1..0 |-> 0] = <<>>
    OBVIOUS
  <2>4. QED
    BY <1>1, <2>2, <2>3
<1>4. heard \o buffer = SubSeq(recording, 1, given) /\ Len(buffer) < ChunkSize
  <2>1. SubSeq(recording, 1, 0) = <<>>
    BY SubSeqEmpty
  <2>2. <<>> \o <<>> = <<>> /\ Len(<<>>) = 0
    BY EmptySeq, ConcatEmptySeq
  <2>3. QED
    BY <1>1, <1>3, <2>1, <2>2, StreamNumbers
<1>5. HasHeard(fp, heard)
  <2> DEFINE c == IF client = "INDEX" THEN BufferSize + OrigWindowSize ELSE SnippetSize
  <2>1. c \in Nat
    BY StreamNumbers, WindowNumbers
  <2>2. fp = NewFingerprint(c)
    BY <1>1
  <2> HIDE DEF c
  <2>3. QED
    BY <1>1, <2>1, <2>2, NewHeardNothing
<1>6. <<>> \in Seq(Samples)
  BY EmptySeq
<1>7. QED
  BY <1>1, <1>2, <1>3, <1>4, <1>5, <1>6, LenProperties DEF AudioInv, Sound, HeardInv, Whole, AllFingerprinted

\* a round of Indexer::Index keeps it: the chunk joins what was heard, or waits,
LEMMA OnAudioDataAudio ==
  ASSUME AudioInv, NEW n \in Nat, OnAudioData(n)
  PROVE  AudioInv'
<1> DEFINE block == Delivered(n)
           audio == Accumulated(block)
<1>1. /\ client = "INDEX" /\ stage = "feeding" /\ n <= BlockSize /\ given + n <= Len(recording)
      /\ n = 0 => given = Len(recording)
      /\ given' = given + n /\ client' = client /\ recording' = recording
  BY DEF OnAudioData, Ends
<1>2. \/ TooLong(block) /\ stage' = "failed" /\ buffer' = audio /\ Unheard
      \/ /\ ~TooLong(block) /\ ChunkReady(audio, block)
         /\ Fingerprinted(audio) /\ buffer' = AfterChunk(audio) /\ stage' = StageAfter(block)
      \/ /\ ~TooLong(block) /\ ~ChunkReady(audio, block)
         /\ buffer' = audio /\ Unheard /\ stage' = StageAfter(block)
  BY DEF OnAudioData
<1>3. Sound /\ HeardInv /\ heard \in Seq(Samples) /\ recording \in Seq(Samples) /\ given \in Nat
  BY DEF AudioInv, Sound
<1>4. /\ block \in Seq(Samples) /\ Len(block) = n
      /\ audio \in Seq(Samples) /\ Len(audio) = Len(buffer) + n
      /\ heard \o audio = SubSeq(recording, 1, given + n)
  BY <1>1, <1>3, BlockFits
<1> HIDE DEF block, audio
<1>5. given' \in Nat /\ given' <= Len(recording)
  BY <1>1, <1>3
<1>6. block = <<>> => n = 0
  BY <1>4, EmptySeq
<1>7. n = 0 => heard \o audio = recording
  <2>1. given + 0 = given
    BY <1>3
  <2>2. QED
    BY <1>1, <1>3, <1>4, <2>1, SubSeqFull
<1>8. ASSUME NEW h \in Seq(Samples), NEW b \in Seq(Samples), h = heard', b = buffer', HeardInv',
             stage' = "feeding" => h \o b = SubSeq(recording, 1, given + n) /\ Len(b) < ChunkSize,
             stage' = "indexed" => AllBut(h, recording)
      PROVE  AudioInv'
  BY <1>1, <1>3, <1>5, <1>8 DEF AudioInv, Sound, Whole, AllFingerprinted, AllBut
<1>9. ASSUME Unheard  PROVE heard' = heard /\ fp' = fp /\ HeardInv'
  BY <1>3, <1>9 DEF Unheard, HeardInv
<1>10. CASE TooLong(block) /\ stage' = "failed" /\ buffer' = audio /\ Unheard
  BY <1>3, <1>4, <1>8, <1>9, <1>10
<1>11. CASE /\ ~TooLong(block) /\ ChunkReady(audio, block)
            /\ Fingerprinted(audio) /\ buffer' = AfterChunk(audio) /\ stage' = StageAfter(block)
  <2>1. /\ heard' \in Seq(Samples) /\ HeardInv'
        /\ heard' = IF Len(audio) < MinSize THEN heard ELSE heard \o audio
    BY <1>3, <1>4, <1>11, GoesOn
  <2>2. buffer' = <<>> /\ <<>> \in Seq(Samples) /\ Len(<<>>) = 0
    BY <1>11, EmptySeq DEF AfterChunk
  <2>3. CASE block # <<>>
    <3>1. Len(audio) >= ChunkSize /\ Len(audio) \in Nat /\ stage' = "feeding"
      BY <1>4, <1>11, <2>3, LenProperties DEF ChunkReady, StageAfter
    <3>2. heard' = heard \o audio
      BY <2>1, <3>1, StreamNumbers
    <3>3. heard' \o buffer' = SubSeq(recording, 1, given + n)
      BY <1>4, <2>1, <2>2, <3>2, ConcatEmptySeq
    <3>4. QED
      BY <1>8, <2>1, <2>2, <3>1, <3>3, StreamNumbers
  <2>4. CASE block = <<>>
    <3>1. stage' \in {"failed", "indexed"}
      BY <1>11, <2>4 DEF StageAfter
    <3>2. heard \o audio = recording
      BY <1>6, <1>7, <2>4
    <3>3. AllBut(heard', recording)
      <4>1. CASE Len(audio) < MinSize
        BY <1>3, <1>4, <2>1, <3>2, <4>1, RestUnheard
      <4>2. CASE ~(Len(audio) < MinSize)
        BY <1>3, <2>1, <3>2, <4>2, AllHeard
      <4>3. QED
        BY <4>1, <4>2
    <3>4. QED
      BY <1>8, <2>1, <2>2, <3>1, <3>3
  <2>5. QED
    BY <2>3, <2>4
<1>12. CASE /\ ~TooLong(block) /\ ~ChunkReady(audio, block)
            /\ buffer' = audio /\ Unheard /\ stage' = StageAfter(block)
  <2>1. heard' = heard /\ HeardInv'
    BY <1>9, <1>12
  <2>2. CASE block # <<>>
    <3>1. Len(audio) < ChunkSize /\ stage' = "feeding"
      BY <1>4, <1>12, <2>2, LenProperties, StreamNumbers DEF ChunkReady, StageAfter
    <3>2. QED
      BY <1>3, <1>4, <1>8, <1>12, <2>1, <3>1
  <2>3. CASE block = <<>>
    <3>1. audio = <<>> /\ stage' \in {"failed", "indexed"}
      BY <1>12, <2>3 DEF ChunkReady, StageAfter
    <3>2. heard = recording
      BY <1>3, <1>6, <1>7, <2>3, <3>1, ConcatEmptySeq
    <3>3. AllBut(heard, recording)
      BY <1>3, <3>2, AllHeard
    <3>4. QED
      BY <1>3, <1>4, <1>8, <1>12, <2>1, <3>1, <3>3
  <2>4. QED
    BY <2>2, <2>3
<1>13. QED
  BY <1>2, <1>10, <1>11, <1>12

\* What the recognizer takes of a snippet.
LEMMA SnippetSamples ==
  ASSUME Sound, NEW n \in Nat, given + n <= Len(recording)
  PROVE  Snippet(n) \in Seq(Samples)
<1> DEFINE d == Delivered(n)
           m == given + n
           e == Min({SnippetSize, Len(d)})
<1>1. recording \in Seq(Samples) /\ given \in Nat /\ Len(recording) \in Nat
  BY LenProperties DEF Sound
<1>2. d \in Seq(Samples)
  <2>1. m \in Nat /\ m <= Len(recording) /\ given <= m /\ d = SubSeq(recording, given + 1, m)
    BY <1>1 DEF Delivered
  <2> HIDE DEF m, d
  <2>2. QED
    BY <1>1, <2>1, Piece
<1> HIDE DEF d
<1>3. Len(d) \in Nat /\ SnippetSize \in Nat
  BY <1>2, LenProperties, StreamNumbers
<1>4. e \in Nat /\ e <= Len(d)
  BY <1>3, MinOfTwo
<1>5. Snippet(n) = SubSeq(d, 0 + 1, e)
  BY DEF Snippet, SetData, d
<1> HIDE DEF e
<1>6. SubSeq(d, 0 + 1, e) \in Seq(Samples)
  BY <1>2, <1>4, Piece
<1>7. QED
  BY <1>5, <1>6

\* a snippet keeps it, the recognizer promising no whole recording,
LEMMA IdentifyAudio ==
  ASSUME AudioInv, NEW n \in Nat, Identify(n)
  PROVE  AudioInv'
<1>1. /\ client = "IDENTIFY" /\ given + n <= Len(recording) /\ given' = given + n
      /\ Fingerprinted(Snippet(n))
      /\ client' = client /\ recording' = recording /\ buffer' = buffer /\ stage' = stage
  BY DEF Identify
<1>2. /\ recording \in Seq(Samples) /\ given \in Nat /\ heard \in Seq(Samples) /\ Sound /\ HeardInv
      /\ Len(recording) \in Nat
  BY LenProperties DEF AudioInv, Sound
<1>4. Snippet(n) \in Seq(Samples)
  BY <1>1, <1>2, SnippetSamples
<1>5. heard' \in Seq(Samples) /\ HeardInv'
  BY <1>1, <1>2, <1>4, GoesOn
<1>6. given' \in Nat /\ given' <= Len(recording)
  BY <1>1, <1>2
<1>7. QED
  BY <1>1, <1>2, <1>5, <1>6 DEF AudioInv, Sound, Whole

\* and so does a reset;
LEMMA ResetAudio ==
  ASSUME AudioInv, Reset
  PROVE  AudioInv'
<1>1. /\ client = "IDENTIFY" /\ recording' \in Recordings /\ given' = 0 /\ fp' = ResetFingerprint
      /\ heard' = <<>> /\ client' = client /\ buffer' = buffer /\ stage' = stage
  BY DEF Reset
<1>2. /\ recording' \in Seq(Samples) /\ Len(recording') \in Nat /\ <<>> \in Seq(Samples)
  BY <1>1, AudioStreamsAssumption, LenProperties, EmptySeq
<1>3. fp.OSCapacity \in Nat
  BY DEF AudioInv, HeardInv, HasHeard
<1>4. HasHeard(fp', heard')
  BY <1>1, <1>3, ResetHeardNothing
<1>5. QED
  BY <1>1, <1>2, <1>4 DEF AudioInv, Sound, HeardInv, Whole

\* so every step keeps it.
LEMMA NextAudio == AudioInv /\ [Next]_vars => AudioInv'
<1> SUFFICES ASSUME AudioInv, [Next]_vars PROVE AudioInv'
  OBVIOUS
<1>1. ASSUME NEW n \in Sizes \cup {0}, OnAudioData(n) PROVE AudioInv'
  BY <1>1, OnAudioDataAudio, StreamNumbers
<1>2. CASE AudioFails
  BY <1>2 DEF AudioFails, Unheard, AudioInv, Sound, HeardInv, Whole, AllFingerprinted
<1>3. ASSUME NEW n \in Sizes, Identify(n) PROVE AudioInv'
  BY <1>3, IdentifyAudio, StreamNumbers
<1>4. CASE Reset
  BY <1>4, ResetAudio
<1>5. CASE UNCHANGED vars
  BY <1>5 DEF vars, AudioInv, Sound, HeardInv, Whole, AllFingerprinted
<1>6. QED
  BY <1>1, <1>2, <1>3, <1>4, <1>5 DEF Next

\* All of the audio is heard and as it is: wherever it is cut, by the provider,
\* the chunks of Indexer::Index (Indexer.cpp:144) or the client's snippets, the
\* windows of ComputeSpectrum (Fingerprint.cpp:97) are those of the audio in one
\* piece, and a recording is indexed but for less than half a second.
THEOREM AudioAllKept == Spec => []AudioKept
<1>1. AudioInv => AudioKept
  <2> SUFFICES ASSUME AudioInv PROVE AudioKept
    OBVIOUS
  <2>1. SeamlessFrames
    BY DEF AudioInv, HeardInv, HasHeard, SeamlessFrames
  <2>2. client \in {"INDEX", "IDENTIFY"} /\ (client = "IDENTIFY" => stage = "feeding")
    BY DEF AudioInv, Sound
  <2>3. AllFingerprinted
    BY <2>2 DEF AudioInv, Whole, AllFingerprinted
  <2>4. QED
    BY <2>1, <2>3 DEF AudioKept
<1>2. QED
  BY InitAudio, NextAudio, <1>1, PTL DEF Spec

-----------------------------------------------------------------------------
(* Points of interest.                                                     *)

\* What is assumed of the bins.
LEMMA WidthNumber == Width \in Nat /\ Width > 0 /\ Kmin \in Nat /\ Columns = 0..Width - 1
<1>1. Kmin \in Nat /\ Kmax \in Nat /\ Kmin < Kmax
  BY FingerprintAssumption
<1>2. QED
  BY <1>1 DEF Width, Columns

\* Products keep the order.
LEMMA Multiples ==
  ASSUME NEW r \in Nat, NEW a \in Nat, NEW b \in Nat, a < b
  PROVE  a * r + r <= b * r
<1>1. b - a - 1 \in Nat
  OBVIOUS
<1>2. (b - a - 1) * r >= 0
  BY <1>1, SMT
<1>3. b * r = (b - a - 1) * r + a * r + r
  BY SMT
<1>4. a * r \in Int /\ b * r \in Int /\ (b - a - 1) * r \in Int
  BY <1>1, SMT
<1>5. QED
  BY <1>2, <1>3, <1>4

\* A number stands for a point.
LEMMA PointOf ==
  ASSUME NEW n \in Nat, n > 0
  PROVE  /\ Row(n) \in Nat /\ Row(n) > 0 /\ Column(n) \in 0..Width - 1
         /\ (Row(n) - 1) * Width \in Nat /\ n = (Row(n) - 1) * Width + Column(n) + 1
<1> DEFINE q == (n - 1) \div Width
           r == (n - 1) % Width
<1>1. q \in Nat /\ r \in 0..Width - 1 /\ n - 1 = Width * q + r
  BY WidthNumber, SMT
<1>2. Row(n) = q + 1 /\ Column(n) = r
  BY DEF Row, Column
<1> HIDE DEF q, r
<1>3. (Row(n) - 1) * Width = Width * q /\ Width * q \in Nat
  BY <1>1, <1>2, WidthNumber, SMT
<1>4. QED
  BY <1>1, <1>2, <1>3

\* The numbers go up with time, then frequency.
LEMMA PointsOrdered ==
  ASSUME NEW n \in Nat, NEW m \in Nat, n > 0, n < m
  PROVE  Row(n) < Row(m) \/ (Row(n) = Row(m) /\ Column(n) < Column(m))
<1> DEFINE a == Row(n) - 1
           b == Row(m) - 1
<1>1. /\ Row(n) \in Nat /\ a \in Nat /\ Column(n) \in 0..Width - 1 /\ a * Width \in Nat
      /\ n = a * Width + Column(n) + 1
  BY PointOf
<1>2. m > 0
  OBVIOUS
<1>3. /\ Row(m) \in Nat /\ b \in Nat /\ Column(m) \in 0..Width - 1 /\ b * Width \in Nat
      /\ m = b * Width + Column(m) + 1
  BY <1>2, PointOf
<1>4. a < b <=> Row(n) < Row(m)
  BY <1>1, <1>3
<1>5. a = b <=> Row(n) = Row(m)
  BY <1>1, <1>3
<1> HIDE DEF a, b
<1>6. ~(b < a)
  <2>1. SUFFICES ASSUME b < a PROVE FALSE
    OBVIOUS
  <2>2. b * Width + Width <= a * Width
    BY <1>1, <1>3, <2>1, Multiples, WidthNumber
  <2> DEFINE x == a * Width
             y == b * Width
             i == Column(n)
             j == Column(m)
  <2>3. /\ x \in Nat /\ y \in Nat /\ y + Width <= x /\ i \in 0..Width - 1 /\ j \in 0..Width - 1
        /\ n = x + i + 1 /\ m = y + j + 1
    BY <1>1, <1>3, <2>2
  <2> HIDE DEF x, y, i, j
  <2>4. QED
    BY <2>3, WidthNumber
<1>7. a = b => Column(n) < Column(m)
  BY <1>1, <1>3
<1>8. QED
  BY <1>1, <1>3, <1>4, <1>5, <1>6, <1>7

\* Every point has a number.
LEMMA NumberOf ==
  ASSUME NEW m \in Nat, m > 0, NEW j \in 0..Width - 1
  PROVE  LET n == (m - 1) * Width + j + 1
         IN  n \in Nat /\ n > 0 /\ Row(n) = m /\ Column(n) = j
<1> DEFINE a == m - 1
           n == a * Width + j + 1
<1>1. a \in Nat /\ a * Width \in Nat
  BY WidthNumber, SMT
<1> HIDE DEF a
<1>2. n \in Nat /\ n > 0
  BY <1>1, WidthNumber
<1> DEFINE b == Row(n) - 1
           i == Column(n)
<1>3. /\ Row(n) \in Nat /\ b \in Nat /\ i \in 0..Width - 1 /\ b * Width \in Nat /\ n = b * Width + i + 1
  BY <1>2, PointOf
<1>4. a * Width + j = b * Width + i
  <2> HIDE DEF b, i
  <2>1. QED
    BY <1>1, <1>3, WidthNumber
<1>5. Row(n) = b + 1
  BY <1>3
<1>6. m = a + 1
  BY DEF a
<1> HIDE DEF b, i, n
<1>7. ~(a < b)
  <2>1. SUFFICES ASSUME a < b PROVE FALSE
    OBVIOUS
  <2>2. a * Width + Width <= b * Width
    BY <1>1, <1>3, <2>1, Multiples, WidthNumber
  <2>3. QED
    BY <1>1, <1>3, <1>4, <2>2, WidthNumber
<1>8. ~(b < a)
  <2>1. SUFFICES ASSUME b < a PROVE FALSE
    OBVIOUS
  <2>2. b * Width + Width <= a * Width
    BY <1>1, <1>3, <2>1, Multiples, WidthNumber
  <2>3. QED
    BY <1>1, <1>3, <1>4, <2>2, WidthNumber
<1>9. a = b
  BY <1>1, <1>3, <1>7, <1>8
<1>10. i = j
  BY <1>1, <1>3, <1>4, <1>9, WidthNumber
<1>11. QED
  BY <1>2, <1>5, <1>6, <1>9, <1>10 DEF n, i, a

\* The points with numbers up to L * Width are those of L frames.
LEMMA PointsOfFrames ==
  ASSUME NEW n \in Nat, n > 0, NEW L \in Nat
  PROVE  L * Width \in Nat /\ (n <= L * Width <=> Row(n) <= L)
<1> DEFINE a == Row(n) - 1
<1>1. /\ Row(n) = a + 1 /\ a \in Nat /\ Column(n) \in 0..Width - 1 /\ a * Width \in Nat
      /\ n = a * Width + Column(n) + 1
  BY PointOf
<1>2. L * Width \in Nat
  BY WidthNumber, SMT
<1> HIDE DEF a
<1>3. ASSUME a < L PROVE n <= L * Width
  <2>1. a * Width + Width <= L * Width
    BY <1>1, <1>3, Multiples, WidthNumber
  <2>2. QED
    BY <1>1, <1>2, <2>1, WidthNumber
<1>4. ASSUME ~(a < L) PROVE ~(n <= L * Width)
  <2>1. CASE a = L
    BY <1>1, <1>2, <2>1, WidthNumber
  <2>2. CASE a # L
    <3>1. L < a
      BY <1>1, <1>4, <2>2
    <3>2. L * Width + Width <= a * Width
      BY <1>1, <3>1, Multiples, WidthNumber
    <3>3. QED
      BY <1>1, <1>2, <3>2, WidthNumber
  <2>3. QED
    BY <2>1, <2>2
<1>5. QED
  BY <1>1, <1>2, <1>3, <1>4

\* The members of a set of numbers up to n, in order.
Sorted(s, hits, n) ==
  /\ s \in Seq(Nat)
  /\ \A i, j \in 1..Len(s) : i < j => s[i] < s[j]
  /\ \A i \in 1..Len(s) : s[i] \in hits /\ s[i] <= n
  /\ \A k \in hits : k <= n => \E i \in 1..Len(s) : s[i] = k

\* The next number goes behind them.
LEMMA SortedAppend ==
  ASSUME NEW hits \in SUBSET Nat, NEW n \in Nat, NEW s, Sorted(s, hits, n), n + 1 \in hits
  PROVE  Sorted(Append(s, n + 1), hits, n + 1)
<1> DEFINE r == Append(s, n + 1)
           l == Len(s)
<1>1. s \in Seq(Nat) /\ l \in Nat /\ \A i \in 1..l : s[i] \in Nat /\ s[i] \in hits /\ s[i] <= n
  BY LenProperties, ElementOfSeq DEF Sorted
<1>2. /\ r \in Seq(Nat) /\ Len(r) = l + 1 /\ \A i \in 1..l : r[i] = s[i]
      /\ r[l + 1] = n + 1
  BY <1>1, AppendProperties
<1> HIDE DEF r, l
<1>3. \A i \in 1..l + 1 : i \in 1..l \/ i = l + 1
  BY <1>1
<1>4. ASSUME NEW i \in 1..l + 1, NEW j \in 1..l + 1, i < j PROVE r[i] < r[j]
  <2>1. i \in 1..l
    BY <1>1, <1>4
  <2>2. CASE j = l + 1
    BY <1>1, <1>2, <2>1, <2>2
  <2>3. CASE j \in 1..l
    BY <1>2, <1>4, <2>1, <2>3 DEF Sorted, l
  <2>4. QED
    BY <1>3, <2>2, <2>3
<1>5. ASSUME NEW i \in 1..l + 1 PROVE r[i] \in hits /\ r[i] <= n + 1
  <2>1. CASE i = l + 1
    BY <1>2, <2>1
  <2>2. CASE i \in 1..l
    <3>1. r[i] = s[i] /\ s[i] \in Nat /\ s[i] \in hits /\ s[i] <= n
      BY <1>1, <1>2, <2>2
    <3>2. QED
      BY <3>1
  <2>3. QED
    BY <1>3, <2>1, <2>2
<1>6. ASSUME NEW k \in hits, k <= n + 1 PROVE \E i \in 1..l + 1 : r[i] = k
  <2>1. k \in Nat
    OBVIOUS
  <2>2. CASE k = n + 1
    BY <1>1, <1>2, <2>2
  <2>3. CASE k # n + 1
    <3>1. k <= n
      BY <1>6, <2>1, <2>3
    <3>2. PICK i \in 1..l : s[i] = k
      BY <3>1 DEF Sorted, l
    <3>3. i \in 1..l + 1 /\ r[i] = k
      BY <1>1, <1>2, <3>2
    <3>4. QED
      BY <3>3
  <2>4. QED
    BY <2>2, <2>3
<1>7. QED
  BY <1>2, <1>4, <1>5, <1>6 DEF Sorted, r

\* A number that is no hit changes nothing.
LEMMA SortedSkip ==
  ASSUME NEW hits \in SUBSET Nat, NEW n \in Nat, NEW s, Sorted(s, hits, n), n + 1 \notin hits
  PROVE  Sorted(s, hits, n + 1)
<1>1. \A k \in hits : k \in Nat /\ (k <= n + 1 => k <= n)
  OBVIOUS
<1>2. \A i \in 1..Len(s) : s[i] \in hits /\ s[i] <= n /\ s[i] \in Nat
  BY DEF Sorted
<1>3. \A i \in 1..Len(s) : s[i] <= n + 1
  BY <1>2
<1>4. QED
  BY <1>1, <1>2, <1>3 DEF Sorted

\* The numbers of the points the scan finds.
Hits(X, P) == {n \in 1..Len(X) * Width : IsPOI(X, P, Row(n), Column(n))}

\* The scan finds the points of interest, in order.
LEMMA Scanned ==
  ASSUME NEW X, Len(X) \in Nat, NEW P
  PROVE  Sorted(POIs(X, P), Hits(X, P), Len(X) * Width)
<1> DEFINE N == Len(X) * Width
           hits == Hits(X, P)
           V == Seq(Nat)
           F == [p \in (1..N) \X V |-> IF p[1] \in hits THEN Append(p[2], p[1]) ELSE p[2]]
           scan == CHOOSE f : f = [n \in 0..N |->
                     IF n = 0 THEN <<>>
                     ELSE IF IsPOI(X, P, Row(n), Column(n)) THEN Append(f[n - 1], n) ELSE f[n - 1]]
<1>1. N \in Nat
  BY WidthNumber, SMT
<1>2. POIs(X, P) = scan[N]
  BY DEF POIs
<1>3. \A n \in 1..N : IsPOI(X, P, Row(n), Column(n)) <=> n \in hits
  BY DEF Hits
<1>4. hits \in SUBSET Nat
  BY DEF Hits
<1> HIDE DEF hits, N
<1>5. F \in [(1..N) \X V -> V]
  <2>1. ASSUME NEW p \in (1..N) \X V PROVE Append(p[2], p[1]) \in V /\ p[2] \in V
    <3>1. p[2] \in Seq(Nat) /\ p[1] \in Nat
      BY <1>1
    <3>2. QED
      BY <3>1, AppendProperties
  <2>2. QED
    BY <2>1
<1>6. \A n \in 1..N, s \in V : F[<<n, s>>] = IF n \in hits THEN Append(s, n) ELSE s
  OBVIOUS
<1>7. <<>> \in V
  BY EmptySeq
<1> HIDE DEF F, V
<1>8. PICK g \in [0..N -> V] : Follows(g, N, <<>>, F)
  BY <1>1, <1>5, <1>7, RecursiveFunction
<1>9. \A n \in 0..N : n = 0 \/ (n \in 1..N /\ n - 1 \in 0..N /\ n # 0)
  BY <1>1
<1>10. g = [n \in 0..N |->
              IF n = 0 THEN <<>>
              ELSE IF IsPOI(X, P, Row(n), Column(n)) THEN Append(g[n - 1], n) ELSE g[n - 1]]
  <2>1. ASSUME NEW n \in 0..N
        PROVE  g[n] = IF n = 0 THEN <<>>
                      ELSE IF IsPOI(X, P, Row(n), Column(n)) THEN Append(g[n - 1], n) ELSE g[n - 1]
    <3>1. CASE n = 0
      BY <1>8, <3>1 DEF Follows
    <3>2. CASE n # 0
      <4>1. n \in 1..N /\ g[n - 1] \in V /\ g[n] = F[<<n, g[n - 1]>>]
        BY <1>8, <1>9, <3>2 DEF Follows
      <4>2. g[n] = IF n \in hits THEN Append(g[n - 1], n) ELSE g[n - 1]
        BY <1>6, <4>1
      <4>3. QED
        BY <1>3, <3>2, <4>1, <4>2
    <3>3. QED
      BY <3>1, <3>2
  <2>2. QED
    BY <1>8, <2>1
<1>11. scan = [n \in 0..N |->
                 IF n = 0 THEN <<>>
                 ELSE IF IsPOI(X, P, Row(n), Column(n)) THEN Append(scan[n - 1], n) ELSE scan[n - 1]]
  BY <1>10
<1> HIDE DEF scan
<1>12. /\ scan[0] = <<>>
       /\ \A n \in 1..N : scan[n] = IF n \in hits THEN Append(scan[n - 1], n) ELSE scan[n - 1]
  <2>1. 0 \in 0..N /\ \A n \in 1..N : n \in 0..N /\ n # 0
    BY <1>1
  <2>2. scan[0] = <<>>
    BY <1>11, <2>1
  <2>3. ASSUME NEW n \in 1..N
        PROVE  scan[n] = IF n \in hits THEN Append(scan[n - 1], n) ELSE scan[n - 1]
    BY <1>3, <1>11, <2>1
  <2>4. QED
    BY <2>2, <2>3
<1> DEFINE Q == {n \in Nat : n <= N => Sorted(scan[n], hits, n)}
<1>13. 0 \in Q
  <2>1. <<>> \in Seq(Nat) /\ Len(<<>>) = 0
    BY EmptySeq
  <2>2. \A k \in hits : ~(k <= 0)
    BY <1>1 DEF hits, Hits, N
  <2>3. \A i \in 1..Len(<<>>) : FALSE
    BY <2>1
  <2>4. Sorted(<<>>, hits, 0)
    BY <2>1, <2>2, <2>3 DEF Sorted
  <2>5. QED
    BY <1>12, <2>4
<1>14. ASSUME NEW n \in Nat, n \in Q PROVE n + 1 \in Q
  <2> SUFFICES ASSUME n + 1 <= N PROVE Sorted(scan[n + 1], hits, n + 1)
    BY <1>14
  <2>1. n + 1 \in 1..N /\ (n + 1) - 1 = n /\ n <= N
    BY <1>1
  <2>2. Sorted(scan[n], hits, n)
    BY <1>14, <2>1
  <2>3. scan[n + 1] = IF n + 1 \in hits THEN Append(scan[n], n + 1) ELSE scan[n]
    BY <1>12, <2>1
  <2>4. CASE n + 1 \in hits
    BY <1>4, <2>2, <2>3, <2>4, SortedAppend
  <2>5. CASE n + 1 \notin hits
    BY <1>4, <2>2, <2>3, <2>5, SortedSkip
  <2>6. QED
    BY <2>4, <2>5
<1>15. Nat \subseteq Q
  <2> HIDE DEF Q
  <2>1. QED
    BY <1>13, <1>14, NatSet
<1>16. Sorted(scan[N], hits, N)
  BY <1>1, <1>15
<1>17. QED
  BY <1>2, <1>16 DEF N, hits

-----------------------------------------------------------------------------
(* The LFs of a block.                                                     *)

Descriptors == UNION {[S -> Frame] : S \in SUBSET Reach}

LFs == [ID : Nat, T : Nat, F : Int, D : Descriptors]

\* A descriptor has frames of the spectrum, its point's own among them.
LEMMA DescriptorFrames ==
  ASSUME NEW X \in Seq(Frame), NEW m \in 1..Len(X)
  PROVE  Descriptor(X, m) \in Descriptors /\ Descriptor(X, m)[0] = X[m]
<1> DEFINE S == {e \in Reach : m + e \in DOMAIN X}
<1>1. DOMAIN X = 1..Len(X) /\ Len(X) \in Nat /\ \A i \in 1..Len(X) : X[i] \in Frame
  BY LenProperties, ElementOfSeq
<1>2. Descriptor(X, m) = [d \in S |-> X[m + d]]
  BY DEF Descriptor
<1>3. \A d \in S : X[m + d] \in Frame
  BY <1>1
<1>4. S \subseteq Reach
  OBVIOUS
<1>5. 0 \in S
  <2>1. m + 0 = m
    BY <1>1
  <2>2. QED
    BY <1>1, <2>1, ReachAssumption
<1> HIDE DEF S
<1>6. Descriptor(X, m) \in [S -> Frame]
  BY <1>2, <1>3
<1>7. Descriptor(X, m)[0] = X[m]
  <2>1. m + 0 = m
    BY <1>1
  <2>2. QED
    BY <1>2, <1>5, <2>1
<1>8. QED
  BY <1>4, <1>6, <1>7 DEF Descriptors

\* An LF of a block whose frames X begin d frames after the stream's.
Placed(lf, X, P, d) ==
  LET m == lf.T - d + 1
      j == lf.F - Kmin
  IN  /\ d <= lf.T /\ m \in 1..Len(X) /\ j \in 0..Width - 1
      /\ lf.D = Descriptor(X, m) /\ IsPOI(X, P, m, j)

\* Every point has an LF.
AllFound(lfs, X, P, d) ==
  \A m \in 1..Len(X), j \in 0..Width - 1 : IsPOI(X, P, m, j) =>
    \E n \in 1..Len(lfs) : lfs[n].T = d + m - 1 /\ lfs[n].F = Kmin + j

\* The LFs of a spectrum are numbered on, ordered, and those of its points.
LEMMA LFsFound ==
  ASSUME NEW X \in Seq(Frame), NEW P, NEW l \in Nat, NEW d \in Nat
  PROVE  LET lfs == LFsOf(X, P, l, d)
         IN  /\ lfs \in Seq(LFs)
             /\ \A n \in 1..Len(lfs) : lfs[n].ID = l + n - 1 /\ Placed(lfs[n], X, P, d)
             /\ \A n, m \in 1..Len(lfs) : n < m => InSequence(lfs[n], lfs[m])
             /\ AllFound(lfs, X, P, d)
<1> DEFINE s == POIs(X, P)
           K == Len(s)
           lfs == LFsOf(X, P, l, d)
           N == Len(X) * Width
<1>1. Len(X) \in Nat
  BY LenProperties
<1>2. Sorted(s, Hits(X, P), N)
  BY <1>1, Scanned
<1>3. lfs = [n \in 1..K |->
               [ID |-> l + n - 1, T |-> d + Row(s[n]) - 1, F |-> Kmin + Column(s[n]),
                D |-> Descriptor(X, Row(s[n]))]]
  BY DEF LFsOf
<1> HIDE DEF s, lfs
<1>4. s \in Seq(Nat) /\ K \in Nat
  BY <1>2, LenProperties DEF Sorted
<1>5. ASSUME NEW n \in 1..K
      PROVE  /\ s[n] \in Nat /\ s[n] > 0 /\ Row(s[n]) \in 1..Len(X) /\ Column(s[n]) \in 0..Width - 1
             /\ IsPOI(X, P, Row(s[n]), Column(s[n]))
  <2>1. s[n] \in Hits(X, P)
    BY <1>2 DEF Sorted
  <2>2. s[n] \in 1..N /\ IsPOI(X, P, Row(s[n]), Column(s[n]))
    BY <2>1 DEF Hits
  <2>3. N \in Nat
    BY <1>1, WidthNumber, SMT
  <2> HIDE DEF N
  <2>4. s[n] \in Nat /\ s[n] > 0 /\ s[n] <= N
    BY <2>2, <2>3
  <2>5. Row(s[n]) <= Len(X)
    BY <1>1, <2>4, PointsOfFrames DEF N
  <2>6. Row(s[n]) \in Nat /\ Row(s[n]) > 0 /\ Column(s[n]) \in 0..Width - 1
    BY <2>4, PointOf
  <2>7. QED
    BY <1>1, <2>2, <2>4, <2>5, <2>6
<1> HIDE DEF K
<1>6. ASSUME NEW n \in 1..K
      PROVE  /\ lfs[n] \in LFs
             /\ lfs[n].ID = l + n - 1 /\ lfs[n].T = d + Row(s[n]) - 1 /\ lfs[n].F = Kmin + Column(s[n])
             /\ lfs[n].D = Descriptor(X, Row(s[n]))
  <2>1. lfs[n] = [ID |-> l + n - 1, T |-> d + Row(s[n]) - 1, F |-> Kmin + Column(s[n]),
                  D |-> Descriptor(X, Row(s[n]))]
    BY <1>3
  <2>2. Descriptor(X, Row(s[n])) \in Descriptors
    BY <1>5, DescriptorFrames
  <2>3. l + n - 1 \in Nat /\ d + Row(s[n]) - 1 \in Nat /\ Kmin + Column(s[n]) \in Int
    <3>1. n \in Nat /\ n > 0 /\ Row(s[n]) \in Nat /\ Row(s[n]) > 0 /\ Column(s[n]) \in Nat
      BY <1>1, <1>4, <1>5, WidthNumber
    <3>2. QED
      BY <3>1, WidthNumber
  <2>4. QED
    BY <2>1, <2>2, <2>3 DEF LFs
<1>7. lfs \in Seq(LFs) /\ Len(lfs) = K
  <2>1. lfs \in [1..K -> LFs]
    BY <1>3, <1>6
  <2>2. QED
    BY <1>4, <2>1, SMT DEF K
<1>8. ASSUME NEW n \in 1..K PROVE Placed(lfs[n], X, P, d)
  <2> DEFINE r == Row(s[n])
             c == Column(s[n])
  <2>1. r \in 1..Len(X) /\ c \in 0..Width - 1 /\ IsPOI(X, P, r, c)
    BY <1>5
  <2>2. lfs[n].T = d + r - 1 /\ lfs[n].F = Kmin + c /\ lfs[n].D = Descriptor(X, r)
    BY <1>6
  <2> HIDE DEF r, c
  <2>3. lfs[n].T - d + 1 = r /\ lfs[n].F - Kmin = c /\ d <= lfs[n].T
    BY <1>1, <2>1, <2>2, WidthNumber
  <2>4. QED
    BY <2>1, <2>2, <2>3 DEF Placed
<1>9. ASSUME NEW n \in 1..K, NEW m \in 1..K, n < m PROVE InSequence(lfs[n], lfs[m])
  <2>1. s[n] < s[m]
    BY <1>2, <1>9 DEF Sorted, K
  <2> DEFINE a == Row(s[n])
             b == Row(s[m])
             i == Column(s[n])
             j == Column(s[m])
  <2>2. s[n] \in Nat /\ s[m] \in Nat /\ s[n] > 0 /\ a \in Nat /\ b \in Nat /\ i \in Nat /\ j \in Nat
    BY <1>1, <1>5, WidthNumber
  <2>3. a < b \/ (a = b /\ i < j)
    BY <2>1, <2>2, PointsOrdered
  <2>4. /\ lfs[n].T = d + a - 1 /\ lfs[n].F = Kmin + i
        /\ lfs[m].T = d + b - 1 /\ lfs[m].F = Kmin + j
    BY <1>6
  <2> HIDE DEF a, b, i, j
  <2>5. QED
    BY <2>2, <2>3, <2>4, WidthNumber DEF InSequence
<1>10. ASSUME NEW m \in 1..Len(X), NEW j \in 0..Width - 1, IsPOI(X, P, m, j)
       PROVE  \E n \in 1..K : lfs[n].T = d + m - 1 /\ lfs[n].F = Kmin + j
  <2> DEFINE k == (m - 1) * Width + j + 1
  <2>1. m \in Nat /\ m > 0 /\ m <= Len(X)
    BY <1>1
  <2>2. k \in Nat /\ k > 0 /\ Row(k) = m /\ Column(k) = j
    BY <2>1, NumberOf
  <2> HIDE DEF k
  <2>3. N \in Nat /\ k <= N
    BY <1>1, <2>1, <2>2, PointsOfFrames
  <2> HIDE DEF N
  <2>4. k \in Hits(X, P)
    <3>1. k \in 1..N
      BY <2>2, <2>3
    <3>2. QED
      BY <1>10, <2>2, <3>1 DEF Hits, N
  <2>5. PICK n \in 1..K : s[n] = k
    BY <1>2, <2>3, <2>4 DEF Sorted, K
  <2>6. lfs[n].T = d + m - 1 /\ lfs[n].F = Kmin + j
    BY <1>6, <2>2, <2>5
  <2>7. QED
    BY <2>6
<1>11. AllFound(lfs, X, P, d)
  BY <1>7, <1>10 DEF AllFound
<1>12. QED
  BY <1>6, <1>7, <1>8, <1>9, <1>11 DEF lfs

-----------------------------------------------------------------------------
(* The stream of LFs.                                                      *)

\* The fingerprinter starts again.
Restarted ==
  fp' = ResetFingerprint /\ heard' = <<>> /\ stream' = <<>> /\ cuts' = {0}

\* A step gives the fingerprinter audio, or resets it, or leaves it alone.
LEMMA Steps ==
  ASSUME AudioInv, [Next]_vars
  PROVE  (\E a \in Seq(Samples) : Fingerprinted(a)) \/ Unheard \/ Restarted
<1>1. Sound
  BY DEF AudioInv
<1>2. ASSUME NEW n \in Sizes \cup {0}, OnAudioData(n)
      PROVE  (\E a \in Seq(Samples) : Fingerprinted(a)) \/ Unheard
  <2>1. n \in Nat
    BY StreamNumbers
  <2>2. Accumulated(Delivered(n)) \in Seq(Samples)
    BY <1>1, <1>2, <2>1, BlockFits DEF OnAudioData
  <2>3. Fingerprinted(Accumulated(Delivered(n))) \/ Unheard
    BY <1>2 DEF OnAudioData
  <2>4. QED
    BY <2>2, <2>3
<1>3. ASSUME NEW n \in Sizes, Identify(n) PROVE \E a \in Seq(Samples) : Fingerprinted(a)
  <2>1. n \in Nat
    BY StreamNumbers
  <2>2. Snippet(n) \in Seq(Samples)
    BY <1>1, <1>3, <2>1, SnippetSamples DEF Identify
  <2>3. QED
    BY <1>3, <2>2 DEF Identify
<1>4. CASE AudioFails
  BY <1>4 DEF AudioFails
<1>5. CASE Reset
  BY <1>5 DEF Reset, Restarted
<1>6. CASE UNCHANGED vars
  BY <1>6 DEF vars, Unheard
<1>7. QED
  BY <1>2, <1>3, <1>4, <1>5, <1>6 DEF Next

\* The LFs of the audio heard, whose spectrum is X, however it was cut.
InOrder(lfs, X) ==
  /\ lfs \in Seq(LFs)
  /\ \A n \in 1..Len(lfs) : /\ lfs[n].ID = n - 1
                            /\ lfs[n].T + 1 \in 1..Len(X) /\ lfs[n].D[0] = X[lfs[n].T + 1]
  /\ \A n, m \in 1..Len(lfs) : n < m => InSequence(lfs[n], lfs[m])

\* Those of the next block follow.
LEMMA NextInOrder ==
  ASSUME NEW s, NEW X \in Seq(Frame), InOrder(s, X), NEW Y \in Seq(Frame), NEW P
  PROVE  InOrder(s \o LFsOf(Y, P, Len(s), Len(X)), X \o Y)
<1> DEFINE r == LFsOf(Y, P, Len(s), Len(X))
           t == s \o r
           Z == X \o Y
           l == Len(s)
           k == Len(r)
           d == Len(X)
<1>1. s \in Seq(LFs) /\ l \in Nat /\ d \in Nat /\ Len(Y) \in Nat
  BY LenProperties DEF InOrder
<1>2. /\ r \in Seq(LFs)
      /\ \A n \in 1..k : r[n].ID = l + n - 1 /\ Placed(r[n], Y, P, d)
      /\ \A n, m \in 1..k : n < m => InSequence(r[n], r[m])
  BY <1>1, LFsFound
<1> HIDE DEF r
<1>3. k \in Nat
  BY <1>2, LenProperties
<1>4. /\ t \in Seq(LFs) /\ Len(t) = l + k
      /\ \A n \in 1..l + k : t[n] = IF n <= l THEN s[n] ELSE r[n - l]
  BY <1>1, <1>2, ConcatProperties
<1>5. /\ Z \in Seq(Frame) /\ Len(Z) = d + Len(Y)
      /\ \A m \in 1..d + Len(Y) : Z[m] = IF m <= d THEN X[m] ELSE Y[m - d]
  BY ConcatProperties
<1> HIDE DEF t, Z, l, k, d
<1>6. ASSUME NEW n \in 1..l
      PROVE  /\ n \in 1..l + k /\ t[n] = s[n] /\ t[n] \in LFs
             /\ t[n].ID = n - 1 /\ t[n].T \in Nat /\ t[n].T < d
             /\ t[n].T + 1 \in 1..Len(Z) /\ t[n].D[0] = Z[t[n].T + 1]
  <2>1. n \in 1..l + k /\ t[n] = s[n]
    BY <1>1, <1>3, <1>4
  <2>2. s[n] \in LFs /\ s[n].ID = n - 1 /\ s[n].T + 1 \in 1..d /\ s[n].D[0] = X[s[n].T + 1]
    BY <1>1, ElementOfSeq DEF InOrder, l, d
  <2>3. s[n].T \in Nat
    BY <2>2 DEF LFs
  <2>4. s[n].T < d /\ s[n].T + 1 \in 1..d + Len(Y) /\ s[n].T + 1 <= d
    BY <1>1, <2>2, <2>3, SMTT(30)
  <2>5. QED
    BY <1>5, <2>1, <2>2, <2>3, <2>4
<1>7. ASSUME NEW n \in l + 1 .. l + k
      PROVE  /\ n \in 1..l + k /\ n - l \in 1..k /\ t[n] = r[n - l] /\ t[n] \in LFs
             /\ t[n].ID = n - 1 /\ t[n].T \in Nat /\ t[n].T >= d
             /\ t[n].T + 1 \in 1..Len(Z) /\ t[n].D[0] = Z[t[n].T + 1]
  <2> DEFINE i == n - l
             lf == r[i]
             m == lf.T - d + 1
  <2>1. n \in 1..l + k /\ i \in 1..k /\ ~(n <= l) /\ l + i - 1 = n - 1
    BY <1>1, <1>3
  <2>2. t[n] = lf
    BY <1>4, <2>1
  <2>3. /\ lf \in LFs /\ lf.ID = l + i - 1 /\ d <= lf.T /\ m \in 1..Len(Y)
        /\ lf.D = Descriptor(Y, m)
    BY <1>2, <2>1, ElementOfSeq DEF Placed, k
  <2>4. lf.T \in Nat
    BY <2>3 DEF LFs
  <2>5. lf.D[0] = Y[m]
    BY <2>3, DescriptorFrames
  <2>6. lf.T + 1 \in 1..d + Len(Y) /\ ~(lf.T + 1 <= d) /\ (lf.T + 1) - d = m
    <3> DEFINE at == lf.T
               e == Len(Y)
    <3>1. at \in Nat /\ e \in Nat /\ d \in Nat /\ d <= at /\ at - d + 1 \in 1..e
      BY <1>1, <2>3, <2>4
    <3> HIDE DEF at, e
    <3>2. at + 1 \in 1..d + e /\ ~(at + 1 <= d) /\ (at + 1) - d = at - d + 1
      BY <3>1
    <3>3. QED
      BY <3>2 DEF at, e
  <2>7. Z[lf.T + 1] = Y[m]
    BY <1>5, <2>6
  <2> HIDE DEF i, lf, m
  <2>8. QED
    BY <1>5, <2>1, <2>2, <2>3, <2>4, <2>5, <2>6, <2>7 DEF i, lf
<1>8. \A n \in 1..l + k : n \in 1..l \/ n \in l + 1 .. l + k
  BY <1>1, <1>3
<1>9. ASSUME NEW n \in 1..l + k, NEW m \in 1..l + k, n < m PROVE InSequence(t[n], t[m])
  <2>1. CASE n \in 1..l /\ m \in 1..l
    BY <1>6, <1>9, <2>1 DEF InOrder, l
  <2>2. CASE n \in 1..l /\ m \in l + 1 .. l + k
    <3> DEFINE x == t[n].T
               y == t[m].T
    <3>1. x \in Nat /\ x < d
      BY <1>6, <2>2
    <3>2. y \in Nat /\ y >= d
      BY <1>7, <2>2
    <3> HIDE DEF x, y
    <3>3. x < y
      BY <1>1, <3>1, <3>2
    <3>4. QED
      BY <3>3 DEF InSequence, x, y
  <2>3. CASE n \in l + 1 .. l + k /\ m \in l + 1 .. l + k
    <3>1. n - l < m - l
      BY <1>1, <1>3, <1>9
    <3>2. QED
      BY <1>2, <1>7, <2>3, <3>1
  <2>4. ~(n \in l + 1 .. l + k /\ m \in 1..l)
    BY <1>1, <1>3, <1>9
  <2>5. QED
    BY <1>8, <2>1, <2>2, <2>3, <2>4
<1>10. QED
  BY <1>4, <1>6, <1>7, <1>8, <1>9 DEF InOrder, t, Z, r, l, d

StreamInv == InOrder(stream, SpectrumOf(heard)) /\ fp.LID = Len(stream)

\* What a block adds to the stream.
LEMMA StreamGrows ==
  ASSUME NEW a \in Seq(Samples), Fingerprinted(a), heard \in Seq(Samples), HeardInv, StreamInv
  PROVE  LET X == SpectrumOf(heard)
             Y == SpectrumOf(Rest(heard) \o a)
         IN  \/ /\ heard' = heard /\ stream' = stream /\ fp'.LID = fp.LID /\ fp'.DeltaT = Len(X)
                /\ cuts' = cuts \cup {Len(X)}
             \/ /\ SpectrumOf(heard') = X \o Y /\ Y \in Seq(Frame)
                /\ stream' = stream \o LFsOf(Y, PeakMap(Y), Len(stream), Len(X))
                /\ fp'.LID = Len(stream) + Len(LFsOf(Y, PeakMap(Y), Len(stream), Len(X)))
                /\ cuts' = cuts \cup {Len(X \o Y)}
<1> DEFINE X == SpectrumOf(heard)
           w == Rest(heard) \o a
           Y == SpectrumOf(w)
           g == Process(fp, a)
<1>1. /\ fp' = g /\ stream' = stream \o g.LF /\ cuts' = cuts \cup {g.DeltaT}
      /\ heard' = IF Len(a) < MinSize THEN heard ELSE heard \o a
  BY DEF Fingerprinted
<1>2. HasHeard(fp, heard) /\ stream \in Seq(LFs) /\ fp.LID = Len(stream)
  BY DEF HeardInv, StreamInv, InOrder
<1>3. X \in Seq(Frame) /\ Len(X) = Frames(Len(heard))
  BY SpectrumFrames
<1>4. CASE Len(a) < MinSize
  <2>1. HasHeard(g, heard) /\ g.LF = <<>> /\ g.LID = fp.LID
    BY <1>2, <1>4, Unprocessed
  <2>2. g.DeltaT = Len(X)
    BY <1>3, <2>1 DEF HasHeard
  <2>3. stream \o <<>> = stream
    BY <1>2, ConcatEmptySeq
  <2> HIDE DEF g, X, Y
  <2>4. QED
    BY <1>1, <1>4, <2>1, <2>2, <2>3 DEF X
<1>5. CASE ~(Len(a) < MinSize)
  <2>1. Len(a) >= MinSize
    BY <1>5, LenProperties, StreamNumbers
  <2>2. /\ HasHeard(g, heard \o a) /\ g.LF = LFsOf(Y, PeakMap(Y), fp.LID, Frames(Len(heard)))
        /\ g.LID = fp.LID + Len(g.LF)
    BY <1>2, <2>1, Processed
  <2>3. heard \o a \in Seq(Samples) /\ w \in Seq(Samples) /\ SpectrumOf(heard \o a) = X \o Y
    BY Seam
  <2>4. Y \in Seq(Frame) /\ Len(SpectrumOf(heard \o a)) = Frames(Len(heard \o a))
    BY <2>3, SpectrumFrames
  <2>5. g.DeltaT = Len(X \o Y)
    BY <2>2, <2>3, <2>4 DEF HasHeard
  <2>6. g.LF = LFsOf(Y, PeakMap(Y), Len(stream), Len(X))
    BY <1>2, <1>3, <2>2
  <2> HIDE DEF g, X, Y, w
  <2>7. QED
    BY <1>1, <1>2, <1>5, <2>2, <2>3, <2>4, <2>5, <2>6 DEF X, Y, w
<1>6. QED
  BY <1>4, <1>5

\* Without audio there are no LFs.
LEMMA NoLFs == InOrder(<<>>, SpectrumOf(<<>>)) /\ Len(<<>>) = 0
<1>1. <<>> \in Seq(LFs) /\ Len(<<>>) = 0
  BY EmptySeq
<1>2. \A n \in 1..Len(<<>>) : FALSE
  BY <1>1
<1>3. QED
  BY <1>1, <1>2 DEF InOrder

\* The stream is in order at the start,
LEMMA InitStream == Init => StreamInv
<1> SUFFICES ASSUME Init PROVE StreamInv
  OBVIOUS
<1>1. stream = <<>> /\ heard = <<>> /\ fp.LID = 0
  BY DEF Init, NewFingerprint
<1>2. QED
  BY <1>1, NoLFs DEF StreamInv

\* and after every step.
LEMMA NextStream == AudioInv /\ StreamInv /\ [Next]_vars => StreamInv'
<1> SUFFICES ASSUME AudioInv, StreamInv, [Next]_vars PROVE StreamInv'
  OBVIOUS
<1>1. heard \in Seq(Samples) /\ HeardInv
  BY DEF AudioInv, Sound
<1>2. ASSUME NEW a \in Seq(Samples), Fingerprinted(a) PROVE StreamInv'
  <2> DEFINE X == SpectrumOf(heard)
             Y == SpectrumOf(Rest(heard) \o a)
             lfs == LFsOf(Y, PeakMap(Y), Len(stream), Len(X))
  <2>1. \/ heard' = heard /\ stream' = stream /\ fp'.LID = fp.LID
        \/ /\ SpectrumOf(heard') = X \o Y /\ Y \in Seq(Frame)
           /\ stream' = stream \o lfs /\ fp'.LID = Len(stream) + Len(lfs)
    BY <1>1, <1>2, StreamGrows
  <2>2. CASE heard' = heard /\ stream' = stream /\ fp'.LID = fp.LID
    BY <2>2 DEF StreamInv
  <2>3. CASE /\ SpectrumOf(heard') = X \o Y /\ Y \in Seq(Frame)
             /\ stream' = stream \o lfs /\ fp'.LID = Len(stream) + Len(lfs)
    <3>1. X \in Seq(Frame) /\ InOrder(stream, X)
      BY <1>1, SpectrumFrames DEF StreamInv
    <3>2. InOrder(stream \o lfs, X \o Y)
      <4> HIDE DEF X, Y
      <4>1. QED
        BY <2>3, <3>1, NextInOrder
    <3>3. Len(stream \o lfs) = Len(stream) + Len(lfs)
      <4>1. stream \in Seq(LFs) /\ Len(stream) \in Nat /\ Len(X) \in Nat
        BY <3>1, LenProperties DEF InOrder
      <4> HIDE DEF X, Y
      <4>2. lfs \in Seq(LFs)
        BY <2>3, <4>1, LFsFound
      <4> HIDE DEF lfs
      <4>3. QED
        BY <4>1, <4>2, ConcatProperties
    <3> HIDE DEF X, Y, lfs
    <3>4. QED
      BY <2>3, <3>2, <3>3 DEF StreamInv
  <2>4. QED
    BY <2>1, <2>2, <2>3
<1>3. CASE Unheard
  BY <1>3 DEF Unheard, StreamInv
<1>4. CASE Restarted
  <2>1. fp.OSCapacity \in Nat
    BY <1>1 DEF HeardInv, HasHeard
  <2>2. fp'.LID = 0 /\ stream' = <<>> /\ heard' = <<>>
    BY <1>4, <2>1, ResetHeardNothing DEF Restarted
  <2>3. QED
    BY <2>2, NoLFs DEF StreamInv
<1>5. QED
  BY <1>2, <1>3, <1>4, Steps

-----------------------------------------------------------------------------
(* Types, and the order of the LFs.                                        *)

Kinds ==
  /\ client \in Clients /\ recording \in Recordings /\ tduration \in Nat
  /\ stage \in {"feeding", "indexed", "failed"}
  /\ client = "IDENTIFY" => buffer = <<>>

\* The other variables have their types at the start,
LEMMA InitKinds == Init => Kinds
<1> SUFFICES ASSUME Init PROVE Kinds
  OBVIOUS
<1>1. Min({0, BufferSize}) = 0
  BY StreamNumbers, MinOfTwo
<1>2. Create(BufferSize, 0) = [i \in 1..0 |-> 0]
  BY <1>1 DEF Create
<1>3. [i \in 1..0 |-> 0] = <<>>
  OBVIOUS
<1>4. QED
  BY <1>2, <1>3 DEF Init, Kinds

\* and after every step.
LEMMA NextKinds == AudioInv /\ Kinds /\ [Next]_vars => Kinds'
<1> SUFFICES ASSUME AudioInv, Kinds, [Next]_vars PROVE Kinds'
  OBVIOUS
<1>1. ASSUME NEW n \in Sizes \cup {0}, OnAudioData(n) PROVE Kinds'
  <2> DEFINE block == Delivered(n)
  <2>1. /\ client = "INDEX" /\ client' = client /\ recording' = recording
        /\ tduration' = Counted(block) /\ stage' \in {"feeding", "indexed", "failed"}
    BY <1>1 DEF OnAudioData, StageAfter
  <2>2. n \in Nat /\ Sound
    BY StreamNumbers DEF AudioInv
  <2>3. Len(block) = n
    BY <1>1, <2>2, BlockFits DEF OnAudioData
  <2>4. Second \in Nat /\ Second > 0
    BY AudioStreamsAssumption
  <2> HIDE DEF block
  <2>5. Len(block) \div Second \in Nat
    BY <2>2, <2>3, <2>4, SMT
  <2>6. QED
    BY <2>1, <2>5 DEF Kinds, Counted
<1>2. CASE AudioFails
  BY <1>2 DEF AudioFails, Kinds
<1>3. ASSUME NEW n \in Sizes, Identify(n) PROVE Kinds'
  BY <1>3 DEF Identify, Kinds
<1>4. CASE Reset
  BY <1>4 DEF Reset, Kinds
<1>5. CASE UNCHANGED vars
  BY <1>5 DEF vars, Kinds
<1>6. QED
  BY <1>1, <1>2, <1>3, <1>4, <1>5 DEF Next

\* The invariants give the property.
LEMMA InSequenceHolds ==
  ASSUME AudioInv, StreamInv, Kinds
  PROVE  LFsInSequence
<1>1. /\ Sound /\ HasHeard(fp, heard) /\ InOrder(stream, SpectrumOf(heard)) /\ fp.LID = Len(stream)
  BY DEF AudioInv, HeardInv, StreamInv
<1>2. TypeOK
  <2>1. given \in 0..Len(recording)
    BY <1>1, LenProperties DEF Sound
  <2>2. stage = "feeding" => Len(buffer) < ChunkSize
    <3>1. Len(<<>>) = 0
      BY EmptySeq
    <3>2. QED
      BY <1>1, <3>1, StreamNumbers DEF Sound, Kinds
  <2>3. fp.OSWindow \in Seq(Samples) /\ Len(fp.OSWindow) < OrigWindowSize
    <3> DEFINE c == Frames(Len(heard)) * hopSize
    <3>1. heard \in Seq(Samples) /\ fp.OSWindow = Rest(heard)
      BY <1>1 DEF Sound, HasHeard
    <3>2. Rest(heard) \in Seq(Samples) /\ Len(Rest(heard)) = Len(heard) - c /\ Len(heard) - c < OrigWindowSize
      BY <3>1, Rests
    <3> HIDE DEF c
    <3>3. QED
      BY <3>1, <3>2
  <2>4. QED
    BY <1>1, <2>1, <2>2, <2>3 DEF TypeOK, Kinds, Sound
<1>3. /\ stream \in Seq(LFs) /\ DOMAIN stream = 1..Len(stream) /\ Len(stream) \in Nat
  BY <1>1, LenProperties DEF InOrder
<1>4. LFsSequential
  <2>1. \A n \in 1..Len(stream) : stream[n].ID = n - 1
    BY <1>1 DEF InOrder
  <2>2. ASSUME NEW n \in 1..Len(stream) - 1 PROVE InSequence(stream[n], stream[n + 1])
    <3>1. n \in 1..Len(stream) /\ n + 1 \in 1..Len(stream) /\ n < n + 1
      BY <1>3
    <3>2. QED
      BY <1>1, <3>1 DEF InOrder
  <2>3. QED
    BY <1>3, <2>1, <2>2 DEF LFsSequential
<1>5. LFsLocated
  <2> DEFINE X == SpectrumOf(heard)
  <2>1. X \in Seq(Frame)
    BY <1>1, SpectrumFrames DEF Sound
  <2> HIDE DEF X
  <2>2. DOMAIN X = 1..Len(X)
    BY <2>1, LenProperties
  <2>3. \A n \in 1..Len(stream) : stream[n].T + 1 \in 1..Len(X) /\ stream[n].D[0] = X[stream[n].T + 1]
    BY <1>1 DEF InOrder, X
  <2>4. QED
    BY <1>3, <2>2, <2>3 DEF LFsLocated, X
<1>6. QED
  BY <1>2, <1>4, <1>5 DEF LFsInSequence

\* The LFs of a stream follow each other, in number and in time, across calls
\* of Process, as Indexer::Index asserts (Indexer.cpp:184) and the matcher needs,
\* and each is where its peak is: m_LID and m_DeltaT (Fingerprint.cpp:70, :348)
\* never drift, however the audio is cut.
THEOREM StreamInSequence == Spec => []LFsInSequence
<1>1. Init => AudioInv /\ StreamInv /\ Kinds
  BY InitAudio, InitStream, InitKinds
<1>2. (AudioInv /\ StreamInv /\ Kinds) /\ [Next]_vars => (AudioInv /\ StreamInv /\ Kinds)'
  BY NextAudio, NextStream, NextKinds
<1>3. AudioInv /\ StreamInv /\ Kinds => LFsInSequence
  BY InSequenceHolds
<1>4. QED
  BY <1>1, <1>2, <1>3, PTL DEF Spec

-----------------------------------------------------------------------------
(* The LFs away from the blocks' ends.                                     *)

\* The margin holds all that an LF depends on.
LEMMA Margins ==
  /\ Margin \in Nat /\ Margin > 0 /\ Margin >= rNpT + rWp
  /\ \A r \in Reach : r \in Int /\ -Margin <= r /\ r <= Margin
<1> DEFINE lo == -rNpT - nbt - rWcT
           hi == (nWcT - 1) * nst - rNpT + nbt + 3 * rWcT
           a == rNpT + rWp
<1>1. /\ rNpT \in Nat /\ rNpT > 0 /\ rWp \in Nat /\ nbt \in Nat /\ rWcT \in Nat
      /\ nst \in Nat /\ nst > 0
  BY FingerprintAssumption
<1>2. nWcT \in Int
  <2> DEFINE x == (2 * rNpT + 1) - (2 * rWcT + 1)
  <2>1. x \in Int
    BY <1>1
  <2> HIDE DEF x
  <2>2. x \div nst \in Int
    BY <1>1, <2>1, SMT
  <2>3. QED
    BY <2>2 DEF nWcT, x
<1>3. (nWcT - 1) * nst \in Int
  <2> DEFINE y == nWcT - 1
  <2>1. y \in Int
    BY <1>2
  <2> HIDE DEF y
  <2>2. y * nst \in Int
    BY <1>1, <2>1
  <2>3. QED
    BY <2>2 DEF y
<1>4. lo \in Int /\ hi \in Int /\ a \in Nat /\ a > 0
  <2> DEFINE z == (nWcT - 1) * nst
  <2>1. z \in Int
    BY <1>3
  <2> HIDE DEF z
  <2>2. lo \in Int /\ z - rNpT + nbt + 3 * rWcT \in Int /\ a \in Nat /\ a > 0
    BY <1>1, <2>1
  <2>3. QED
    BY <2>2 DEF z
<1>5. Reach = lo..hi
  BY DEF Reach
<1> HIDE DEF lo, hi
<1>6. 0 \in lo..hi
  BY <1>5, ReachAssumption
<1>7. Min(Reach) = lo
  <2>1. lo \in Reach /\ \A r \in Reach : r \in Int /\ lo <= r
    BY <1>4, <1>5, <1>6
  <2>2. \A x \in Reach : (\A r \in Reach : x <= r) => x = lo
    BY <1>4, <2>1
  <2>3. QED
    BY <2>1, <2>2 DEF Min
<1>8. Max(Reach) = hi
  <2>1. hi \in Reach /\ \A r \in Reach : r \in Int /\ r <= hi
    BY <1>4, <1>5, <1>6
  <2>2. \A x \in Reach : (\A r \in Reach : x >= r) => x = hi
    BY <1>4, <2>1
  <2>3. QED
    BY <2>1, <2>2 DEF Max
<1> DEFINE b == -lo
           S == {a, b, hi}
<1>9. b \in Int
  BY <1>4
<1> HIDE DEF a, b
<1>10. \E x \in S : \A y \in S : x >= y
  BY <1>4, <1>9
<1>11. Max(S) \in S /\ \A y \in S : Max(S) >= y
  BY <1>10 DEF Max
<1>12. Margin = Max(S)
  BY <1>7, <1>8 DEF Margin, a, b
<1>13. Margin \in Int /\ Margin >= a /\ Margin >= b /\ Margin >= hi
  BY <1>4, <1>9, <1>11, <1>12
<1>14. -Margin <= lo
  BY <1>4, <1>13 DEF b
<1>15. Margin \in Nat /\ Margin > 0
  BY <1>4, <1>13
<1>16. QED
  BY <1>4, <1>5, <1>13, <1>14, <1>15 DEF a

\* Two spectra are the same around a frame, which is e frames later in Z.
Alike(X, Z, e, m) ==
  /\ 1 <= m - Margin /\ m + Margin <= Len(X) /\ e + m + Margin <= Len(Z)
  /\ \A i \in m - Margin .. m + Margin : Z[e + i] = X[i]

\* Then so are their peak maps in the neighbourhood of a point.
LEMMA PeaksAlike ==
  ASSUME NEW X, Len(X) \in Nat, NEW Z, Len(Z) \in Nat, NEW e \in Nat, NEW m \in Nat, Alike(X, Z, e, m),
         NEW i \in m - rWp .. m + rWp
  PROVE  /\ i \in 1..Len(X) /\ e + i \in 1..Len(Z)
         /\ PeakMap(Z)[e + i] = PeakMap(X)[i]
<1>1. /\ rNpT \in Nat /\ rNpT > 0 /\ rWp \in Nat
  BY FingerprintAssumption, SMTT(30)
<1>2. /\ 1 <= m - Margin /\ m + Margin <= Len(X) /\ e + m + Margin <= Len(Z)
      /\ \A n \in m - Margin .. m + Margin : Z[e + n] = X[n]
  BY DEF Alike
<1>3. /\ i \in 1..Len(X) /\ e + i \in 1..Len(Z)
      /\ i \in rNpT + 1 .. Len(X) - rNpT /\ e + i \in rNpT + 1 .. Len(Z) - rNpT
      /\ \A d \in -1..1 : i + d \in m - Margin .. m + Margin /\ (e + i) + d = e + (i + d)
      /\ i \in m - Margin .. m + Margin
  BY <1>1, <1>2, Margins
<1>4. i \in Inner(X) /\ e + i \in Inner(Z)
  BY <1>3 DEF Inner
<1>5. Z[e + i] = X[i]
  BY <1>2, <1>3
<1>6. \A d \in -1..1 : Z[(e + i) + d] = X[i + d]
  BY <1>2, <1>3
<1>7. ASSUME NEW k PROVE PeakAt(Z, e + i, k) = PeakAt(X, i, k)
  <2> DEFINE B == (-1..1) \X (-1..1)
  <2>1. \A d \in B : Z[(e + i) + d[1]][k + d[2]] = X[i + d[1]][k + d[2]]
    <3>1. ASSUME NEW d \in B PROVE Z[(e + i) + d[1]] = X[i + d[1]]
      <4>1. d[1] \in -1..1
        OBVIOUS
      <4> HIDE DEF B
      <4>2. QED
        BY <1>6, <4>1
    <3> HIDE DEF B
    <3>2. QED
      BY <3>1
  <2> HIDE DEF B
  <2>2. [d \in B |-> Z[(e + i) + d[1]][k + d[2]]] = [d \in B |-> X[i + d[1]][k + d[2]]]
    BY <2>1
  <2>3. Around(Z, e + i, k) = Around(X, i, k)
    BY <2>2 DEF Around, B
  <2>4. QED
    BY <1>5, <2>3 DEF PeakAt
<1>8. PeakMap(X)[i] = [j \in Columns |->
        IF i \in Inner(X) /\ j \in rNpF .. Kmax - Kmin - rNpF - 1 THEN PeakAt(X, i, j + Kmin) ELSE 0]
  BY <1>3 DEF PeakMap
<1>9. PeakMap(Z)[e + i] = [j \in Columns |->
        IF e + i \in Inner(Z) /\ j \in rNpF .. Kmax - Kmin - rNpF - 1 THEN PeakAt(Z, e + i, j + Kmin) ELSE 0]
  BY <1>3 DEF PeakMap
<1>10. PeakMap(Z)[e + i] = PeakMap(X)[i]
  BY <1>4, <1>7, <1>8, <1>9, Zenon
<1>11. QED
  BY <1>3, <1>10

\* So they have the same points there, with the same descriptors.
LEMMA PointsAlike ==
  ASSUME NEW X \in Seq(Frame), NEW Z \in Seq(Frame), NEW e \in Nat, NEW m \in Nat, Alike(X, Z, e, m)
  PROVE  /\ Descriptor(Z, e + m) = Descriptor(X, m)
         /\ \A j : IsPOI(Z, PeakMap(Z), e + m, j) <=> IsPOI(X, PeakMap(X), m, j)
<1>1. rWp \in Nat
  BY FingerprintAssumption
<1>2. /\ 1 <= m - Margin /\ m + Margin <= Len(X) /\ e + m + Margin <= Len(Z)
      /\ \A n \in m - Margin .. m + Margin : Z[e + n] = X[n]
  BY DEF Alike
<1>3. /\ Len(X) \in Nat /\ Len(Z) \in Nat /\ DOMAIN X = 1..Len(X) /\ DOMAIN Z = 1..Len(Z)
  BY LenProperties
<1>4. \A i \in m - rWp .. m + rWp :
        i \in 1..Len(X) /\ e + i \in 1..Len(Z) /\ PeakMap(Z)[e + i] = PeakMap(X)[i]
  BY <1>3, PeaksAlike
<1>5. Descriptor(Z, e + m) = Descriptor(X, m)
  <2>1. ASSUME NEW r \in Reach
        PROVE  m + r \in DOMAIN X /\ (e + m) + r \in DOMAIN Z /\ Z[(e + m) + r] = X[m + r]
    <3>1. r \in Int /\ -Margin <= r /\ r <= Margin /\ Margin \in Nat
      BY Margins
    <3>2. /\ m + r \in m - Margin .. m + Margin /\ m + r \in 1..Len(X)
          /\ (e + m) + r = e + (m + r) /\ (e + m) + r \in 1..Len(Z)
      BY <1>2, <1>3, <3>1, SMTT(30)
    <3>3. QED
      BY <1>2, <1>3, <3>2
  <2>2. {r \in Reach : m + r \in DOMAIN X} = Reach /\ {r \in Reach : (e + m) + r \in DOMAIN Z} = Reach
    BY <2>1
  <2>3. Descriptor(X, m) = [r \in Reach |-> X[m + r]]
    BY <2>2 DEF Descriptor
  <2>4. Descriptor(Z, e + m) = [r \in Reach |-> Z[(e + m) + r]]
    BY <2>2 DEF Descriptor
  <2>5. QED
    BY <2>1, <2>3, <2>4
<1> DEFINE P == PeakMap(X)
           Q == PeakMap(Z)
           R == m - rWp .. m + rWp
           W == (e + m) - rWp .. (e + m) + rWp
<1>6. DOMAIN P = 1..Len(X) /\ DOMAIN Q = 1..Len(Z)
  BY DEF PeakMap
<1>7. /\ \A i \in R : i \in Int /\ e + i \in W
      /\ \A i \in W : i - e \in R /\ e + (i - e) = i
      /\ m \in R
  BY <1>1
<1>8. R \cap DOMAIN P = R /\ W \cap DOMAIN Q = W
  <2>1. \A i \in R : i \in DOMAIN P
    BY <1>4, <1>6
  <2>2. \A i \in W : i \in DOMAIN Q
    BY <1>4, <1>6, <1>7
  <2> HIDE DEF R, W, P, Q
  <2>3. QED
    BY <2>1, <2>2
<1> HIDE DEF P, Q, R, W
<1>9. /\ \A i \in R : Q[e + i] = P[i]
      /\ \A i \in W : Q[i] = P[i - e]
  <2>1. \A i \in R : Q[e + i] = P[i]
    BY <1>4 DEF P, Q, R
  <2>2. QED
    BY <1>7, <2>1
<1>10. X[m] = Z[e + m]
  <2>1. m \in m - Margin .. m + Margin
    BY Margins
  <2>2. QED
    BY <1>2, <2>1
<1>11. ASSUME NEW j PROVE IsPOI(Z, Q, e + m, j) <=> IsPOI(X, P, m, j)
  <2> DEFINE C == (j - rHp .. j + rHp) \cap Columns
  <2>1. Neighbourhood(P, m, j) = R \X C
    BY <1>8 DEF Neighbourhood, R
  <2>2. Neighbourhood(Q, e + m, j) = W \X C
    BY <1>8 DEF Neighbourhood, W
  <2> HIDE DEF C
  <2>3. Q[e + m] = P[m]
    BY <1>7, <1>9
  <2>4. (\A p \in W \X C : Q[p[1]][p[2]] <= P[m][j]) <=> (\A p \in R \X C : P[p[1]][p[2]] <= P[m][j])
    <3>1. ASSUME \A p \in W \X C : Q[p[1]][p[2]] <= P[m][j], NEW p \in R \X C
          PROVE  P[p[1]][p[2]] <= P[m][j]
      <4>1. p[1] \in R /\ p[2] \in C
        OBVIOUS
      <4> DEFINE q == <<e + p[1], p[2]>>
      <4>2. q \in W \X C /\ q[1] = e + p[1] /\ q[2] = p[2]
        BY <1>7, <4>1
      <4>3. Q[q[1]][q[2]] <= P[m][j]
        BY <3>1, <4>2
      <4> HIDE DEF q
      <4>4. QED
        BY <1>9, <4>1, <4>2, <4>3
    <3>2. ASSUME \A p \in R \X C : P[p[1]][p[2]] <= P[m][j], NEW p \in W \X C
          PROVE  Q[p[1]][p[2]] <= P[m][j]
      <4>1. p[1] \in W /\ p[2] \in C
        OBVIOUS
      <4> DEFINE q == <<p[1] - e, p[2]>>
      <4>2. q \in R \X C /\ q[1] = p[1] - e /\ q[2] = p[2]
        BY <1>7, <4>1
      <4>3. P[q[1]][q[2]] <= P[m][j]
        BY <3>2, <4>2
      <4> HIDE DEF q
      <4>4. QED
        BY <1>9, <4>1, <4>2, <4>3
    <3>3. QED
      BY <3>1, <3>2
  <2>5. QED
    BY <1>10, <2>1, <2>2, <2>3, <2>4 DEF IsPOI
<1>12. QED
  BY <1>5, <1>11 DEF P, Q

\* A frame away from the ends of the blocks that the cuts C are between.
Away(t, C) == \A c \in C : t >= c + Margin \/ t < c - Margin

\* A stream has the points of X away from the cuts, and there it has no other.
Agrees(s, X, C) ==
  /\ \A n \in 1..Len(s) : Away(s[n].T, C) => Placed(s[n], X, PeakMap(X), 0)
  /\ \A m \in 1..Len(X), j \in 0..Width - 1 :
       Away(m - 1, C) /\ IsPOI(X, PeakMap(X), m, j) =>
         \E n \in 1..Len(s) : s[n].T = m - 1 /\ s[n].F = Kmin + j

\* Away from the seam of X and Y, a point of the whole is one of X or of Y.
LEMMA AwayFromSeam ==
  ASSUME NEW X \in Seq(Frame), NEW Y \in Seq(Frame), NEW t \in Nat, t < Len(X \o Y),
         NEW C, 0 \in C, Len(X) \in C, Len(X \o Y) \in C, Away(t, C)
  PROVE  /\ t < Len(X) => t + 1 \in 1..Len(X) /\ Alike(X, X \o Y, 0, t + 1)
         /\ t >= Len(X) => t - Len(X) + 1 \in 1..Len(Y) /\ Alike(Y, X \o Y, Len(X), t - Len(X) + 1)
<1> DEFINE Z == X \o Y
           d == Len(X)
           k == Len(Y)
           N == Len(Z)
           M == Margin
<1>1. d \in Nat /\ k \in Nat
  BY LenProperties
<1>2. /\ N = d + k
      /\ \A i \in 1..d + k : Z[i] = IF i <= d THEN X[i] ELSE Y[i - d]
  BY ConcatProperties
<1>3. M \in Nat /\ M > 0
  BY Margins
<1>4. /\ t >= 0 + M \/ t < 0 - M
      /\ t >= d + M \/ t < d - M
      /\ t >= N + M \/ t < N - M
  BY DEF Away
<1>5. t < N
  OBVIOUS
<1> HIDE DEF Z, d, k, N, M
<1>6. ASSUME t < d PROVE t + 1 \in 1..d /\ Alike(X, Z, 0, t + 1)
  <2>1. /\ t + 1 \in 1..d /\ 1 <= (t + 1) - M /\ (t + 1) + M <= d /\ 0 + (t + 1) + M <= d + k
    BY <1>1, <1>3, <1>4, <1>6
  <2>2. ASSUME NEW i \in (t + 1) - M .. (t + 1) + M PROVE Z[0 + i] = X[i]
    <3>1. i \in 1..d + k /\ i <= d /\ 0 + i = i
      BY <1>1, <1>3, <2>1
    <3>2. QED
      BY <1>2, <3>1
  <2>3. QED
    BY <1>2, <2>1, <2>2 DEF Alike, M, d, N
<1>7. ASSUME t >= d PROVE t - d + 1 \in 1..k /\ Alike(Y, Z, d, t - d + 1)
  <2> DEFINE m == t - d + 1
  <2>1. m \in Nat /\ m \in 1..k /\ 1 <= m - M /\ m + M <= k /\ d + m + M <= d + k
    BY <1>1, <1>2, <1>3, <1>4, <1>5, <1>7
  <2> HIDE DEF m
  <2>2. ASSUME NEW i \in m - M .. m + M PROVE Z[d + i] = Y[i]
    <3>1. d + i \in 1..d + k /\ ~(d + i <= d) /\ (d + i) - d = i
      BY <1>1, <1>3, <2>1
    <3>2. QED
      BY <1>2, <3>1
  <2>3. Alike(Y, Z, d, m)
    BY <1>2, <2>1, <2>2 DEF Alike, M, k, N
  <2>4. QED
    BY <2>1, <2>3 DEF m
<1>8. QED
  BY <1>6, <1>7 DEF Z, d, k

\* The next block's LFs are the points of the whole that were missing.
LEMMA NextAgrees ==
  ASSUME NEW X \in Seq(Frame), NEW Y \in Seq(Frame), NEW s, InOrder(s, X),
         NEW C, 0 \in C, Len(X) \in C, Agrees(s, X, C)
  PROVE  Agrees(s \o LFsOf(Y, PeakMap(Y), Len(s), Len(X)), X \o Y, C \cup {Len(X \o Y)})
<1> DEFINE r == LFsOf(Y, PeakMap(Y), Len(s), Len(X))
           t == s \o r
           Z == X \o Y
           l == Len(s)
           k == Len(r)
           d == Len(X)
           B == C \cup {Len(Z)}
<1>1. s \in Seq(LFs) /\ l \in Nat /\ d \in Nat /\ Len(Y) \in Nat
  BY LenProperties DEF InOrder
<1>2. /\ r \in Seq(LFs) /\ AllFound(r, Y, PeakMap(Y), d)
      /\ \A n \in 1..k : Placed(r[n], Y, PeakMap(Y), d)
  BY <1>1, LFsFound
<1> HIDE DEF r
<1>3. k \in Nat
  BY <1>2, LenProperties
<1>4. /\ t \in Seq(LFs) /\ Len(t) = l + k
      /\ \A n \in 1..l + k : t[n] = IF n <= l THEN s[n] ELSE r[n - l]
  BY <1>1, <1>2, ConcatProperties
<1>5. Z \in Seq(Frame) /\ Len(Z) = d + Len(Y)
  BY ConcatProperties
<1>6. /\ \A n \in 1..l : n \in 1..l + k /\ t[n] = s[n]
      /\ \A n \in 1..k : l + n \in 1..l + k /\ t[l + n] = r[n]
      /\ \A n \in 1..l + k : n \in 1..l \/ (n - l \in 1..k /\ t[n] = r[n - l])
  <2>1. /\ \A n \in 1..l : n \in 1..l + k /\ n <= l
        /\ \A n \in 1..k : l + n \in 1..l + k /\ ~(l + n <= l) /\ (l + n) - l = n
        /\ \A n \in 1..l + k : n \in 1..l \/ (n - l \in 1..k /\ ~(n <= l))
    BY <1>1, <1>3
  <2> HIDE DEF t, l, k
  <2>2. QED
    BY <1>4, <2>1
<1>7. ASSUME NEW u \in Nat, Away(u, B) PROVE Away(u, C)
  BY <1>7 DEF Away
<1>8. ASSUME NEW u \in Nat, u < d + Len(Y), Away(u, B)
      PROVE  /\ u < d => u + 1 \in 1..d /\ Alike(X, Z, 0, u + 1)
             /\ u >= d => u - d + 1 \in 1..Len(Y) /\ Alike(Y, Z, d, u - d + 1)
  <2>1. 0 \in B /\ Len(X) \in B /\ Len(Z) \in B
    OBVIOUS
  <2>2. u < Len(Z)
    BY <1>5, <1>8
  <2> HIDE DEF B
  <2>3. QED
    BY <1>8, <2>1, <2>2, AwayFromSeam
<1> HIDE DEF t, Z, l, k, d, B
<1>9. ASSUME NEW n \in 1..l + k, Away(t[n].T, B) PROVE Placed(t[n], Z, PeakMap(Z), 0)
  <2> DEFINE u == t[n].T
             j == t[n].F - Kmin
  <2>1. t[n] \in LFs
    BY <1>4, ElementOfSeq
  <2>2. u \in Nat
    BY <2>1 DEF LFs
  <2>3. CASE n \in 1..l
    <3>1. t[n] = s[n]
      BY <1>6, <2>3
    <3>2. u + 1 \in 1..d
      BY <2>3, <3>1 DEF InOrder, l, d
    <3>3. Placed(t[n], X, PeakMap(X), 0)
      BY <1>7, <1>9, <2>2, <2>3, <3>1 DEF Agrees, l
    <3> DEFINE m == u + 1
    <3>4. u - 0 + 1 = m /\ m \in Nat /\ 0 + m = m /\ u < d /\ u < d + Len(Y) /\ 0 <= u /\ m \in 1..d + Len(Y)
      BY <1>1, <2>2, <3>2, SMTT(30)
    <3>5. Alike(X, Z, 0, m)
      BY <1>8, <1>9, <2>2, <3>4
    <3> HIDE DEF u, j, m
    <3>6. j \in 0..Width - 1 /\ t[n].D = Descriptor(X, m) /\ IsPOI(X, PeakMap(X), m, j)
      BY <3>3, <3>4 DEF Placed, u, j
    <3>7. /\ Descriptor(Z, 0 + m) = Descriptor(X, m)
          /\ IsPOI(Z, PeakMap(Z), 0 + m, j) <=> IsPOI(X, PeakMap(X), m, j)
      BY <1>5, <3>4, <3>5, PointsAlike
    <3>8. t[n].D = Descriptor(Z, m) /\ IsPOI(Z, PeakMap(Z), m, j)
      BY <3>4, <3>6, <3>7
    <3>9. QED
      BY <1>5, <3>4, <3>6, <3>8 DEF Placed, u, j
  <2>4. CASE n - l \in 1..k /\ t[n] = r[n - l]
    <3>1. Placed(t[n], Y, PeakMap(Y), d)
      BY <1>2, <2>4
    <3> DEFINE m == u - d + 1
    <3>2. d <= u /\ m \in 1..Len(Y)
      BY <3>1 DEF Placed
    <3>3. /\ m \in Nat /\ u < d + Len(Y) /\ u >= d /\ u - 0 + 1 = d + m /\ 0 <= u
          /\ d + m \in 1..d + Len(Y)
      <4> DEFINE e == Len(Y)
      <4>1. u \in Nat /\ e \in Nat /\ d \in Nat /\ d <= u /\ u - d + 1 \in 1..e
        BY <1>1, <2>2, <3>2
      <4> HIDE DEF u, e
      <4>2. QED
        BY <4>1 DEF e
    <3>4. Alike(Y, Z, d, m)
      BY <1>8, <1>9, <2>2, <3>3
    <3> HIDE DEF u, j, m
    <3>5. j \in 0..Width - 1 /\ t[n].D = Descriptor(Y, m) /\ IsPOI(Y, PeakMap(Y), m, j)
      BY <3>1 DEF Placed, u, j, m
    <3>6. /\ Descriptor(Z, d + m) = Descriptor(Y, m)
          /\ IsPOI(Z, PeakMap(Z), d + m, j) <=> IsPOI(Y, PeakMap(Y), m, j)
      BY <1>1, <1>5, <3>3, <3>4, PointsAlike
    <3>7. t[n].D = Descriptor(Z, d + m) /\ IsPOI(Z, PeakMap(Z), d + m, j)
      BY <3>5, <3>6
    <3>8. QED
      BY <1>5, <3>3, <3>5, <3>7 DEF Placed, u, j
  <2>5. QED
    BY <1>6, <2>3, <2>4
<1>10. ASSUME NEW m \in 1..d + Len(Y), NEW j \in 0..Width - 1, Away(m - 1, B), IsPOI(Z, PeakMap(Z), m, j)
       PROVE  \E n \in 1..l + k : t[n].T = m - 1 /\ t[n].F = Kmin + j
  <2> DEFINE u == m - 1
  <2>1. m \in Nat /\ u \in Nat /\ u < d + Len(Y) /\ m = u + 1 /\ 0 + m = m
    BY <1>1
  <2>2. CASE u < d
    <3>1. m \in 1..d /\ Alike(X, Z, 0, m)
      BY <1>8, <1>10, <2>1, <2>2
    <3>2. IsPOI(Z, PeakMap(Z), 0 + m, j) <=> IsPOI(X, PeakMap(X), m, j)
      BY <1>5, <2>1, <3>1, PointsAlike
    <3>3. IsPOI(X, PeakMap(X), m, j) /\ Away(m - 1, C)
      BY <1>7, <1>10, <2>1, <3>2
    <3>4. PICK n \in 1..l : s[n].T = m - 1 /\ s[n].F = Kmin + j
      BY <3>1, <3>3 DEF Agrees, l, d
    <3>5. QED
      BY <1>6, <3>4
  <2>3. CASE ~(u < d)
    <3> DEFINE i == u - d + 1
    <3>1. u >= d /\ i \in Int /\ d + i = m /\ d + i - 1 = m - 1
      BY <1>1, <2>1, <2>3
    <3>2. i \in 1..Len(Y) /\ Alike(Y, Z, d, i)
      BY <1>8, <1>10, <2>1, <3>1
    <3> HIDE DEF i, u
    <3>3. i \in Nat
      BY <1>1, <3>2
    <3>4. IsPOI(Z, PeakMap(Z), d + i, j) <=> IsPOI(Y, PeakMap(Y), i, j)
      BY <1>1, <1>5, <3>2, <3>3, PointsAlike
    <3>5. IsPOI(Y, PeakMap(Y), i, j)
      BY <1>10, <3>1, <3>4
    <3>6. PICK n \in 1..k : r[n].T = d + i - 1 /\ r[n].F = Kmin + j
      BY <1>2, <3>2, <3>5 DEF AllFound, k
    <3>7. l + n \in 1..l + k /\ t[l + n].T = m - 1 /\ t[l + n].F = Kmin + j
      BY <1>6, <3>1, <3>6
    <3>8. QED
      BY <3>7
  <2>4. QED
    BY <2>2, <2>3
<1>11. Agrees(t, Z, B)
  BY <1>4, <1>5, <1>9, <1>10 DEF Agrees
<1>12. QED
  BY <1>11 DEF t, Z, B, r, l, d

AgreeInv ==
  /\ Agrees(stream, SpectrumOf(heard), cuts)
  /\ 0 \in cuts /\ Len(SpectrumOf(heard)) \in cuts
  /\ heard = <<>> \/ Len(heard) >= MinSize

\* Without audio there are no frames.
LEMMA NoFrames == Len(SpectrumOf(<<>>)) = 0
<1>1. <<>> \in Seq(Samples) /\ Len(<<>>) = 0
  BY EmptySeq
<1>2. Frames(0) = 0
  BY WindowNumbers DEF Frames
<1>3. QED
  BY <1>1, <1>2, SpectrumFrames

\* The stream agrees with the audio in one piece at the start,
LEMMA InitAgree == Init => AgreeInv
<1> SUFFICES ASSUME Init PROVE AgreeInv
  OBVIOUS
<1>1. stream = <<>> /\ heard = <<>> /\ cuts = {0}
  BY DEF Init
<1>2. <<>> \in Seq(Samples) /\ Len(<<>>) = 0
  BY EmptySeq
<1>3. Len(SpectrumOf(<<>>)) = 0
  BY <1>2, NoFrames
<1>4. Agrees(<<>>, SpectrumOf(<<>>), {0})
  BY <1>2, <1>3 DEF Agrees
<1>5. QED
  BY <1>1, <1>3, <1>4 DEF AgreeInv

\* and after every step.
LEMMA NextAgree == AudioInv /\ StreamInv /\ AgreeInv /\ [Next]_vars => AgreeInv'
<1> SUFFICES ASSUME AudioInv, StreamInv, AgreeInv, [Next]_vars PROVE AgreeInv'
  OBVIOUS
<1>1. heard \in Seq(Samples) /\ HeardInv
  BY DEF AudioInv, Sound
<1>2. ASSUME NEW a \in Seq(Samples), Fingerprinted(a) PROVE AgreeInv'
  <2> DEFINE X == SpectrumOf(heard)
             Y == SpectrumOf(Rest(heard) \o a)
             lfs == LFsOf(Y, PeakMap(Y), Len(stream), Len(X))
  <2>1. \/ heard' = heard /\ stream' = stream /\ cuts' = cuts \cup {Len(X)}
        \/ /\ SpectrumOf(heard') = X \o Y /\ Y \in Seq(Frame)
           /\ stream' = stream \o lfs /\ cuts' = cuts \cup {Len(X \o Y)}
    BY <1>1, <1>2, StreamGrows
  <2>2. heard' = <<>> \/ Len(heard') >= MinSize
    <3>1. heard' = IF Len(a) < MinSize THEN heard ELSE heard \o a
      BY <1>1, <1>2, GoesOn
    <3>2. Len(heard \o a) = Len(heard) + Len(a) /\ Len(heard) \in Nat /\ Len(a) \in Nat
      BY <1>1, ConcatProperties, LenProperties
    <3>3. ~(Len(a) < MinSize) => Len(heard \o a) >= MinSize
      BY <3>2, StreamNumbers
    <3>4. heard = <<>> \/ Len(heard) >= MinSize
      BY DEF AgreeInv
    <3>5. QED
      BY <3>1, <3>3, <3>4
  <2>3. CASE heard' = heard /\ stream' = stream /\ cuts' = cuts \cup {Len(X)}
    <3>1. cuts' = cuts
      BY <2>3 DEF AgreeInv
    <3>2. QED
      BY <2>3, <3>1 DEF AgreeInv
  <2>4. CASE /\ SpectrumOf(heard') = X \o Y /\ Y \in Seq(Frame)
             /\ stream' = stream \o lfs /\ cuts' = cuts \cup {Len(X \o Y)}
    <3>1. X \in Seq(Frame) /\ InOrder(stream, X)
      BY <1>1, SpectrumFrames DEF StreamInv
    <3>2. 0 \in cuts /\ Len(X) \in cuts /\ Agrees(stream, X, cuts)
      BY DEF AgreeInv
    <3> HIDE DEF X, Y
    <3>3. Agrees(stream \o lfs, X \o Y, cuts \cup {Len(X \o Y)})
      BY <2>4, <3>1, <3>2, NextAgrees
    <3>4. 0 \in cuts' /\ Len(X \o Y) \in cuts'
      BY <2>4, <3>2
    <3> HIDE DEF lfs
    <3>5. Agrees(stream', SpectrumOf(heard'), cuts')
      BY <2>4, <3>3
    <3>6. QED
      BY <2>2, <2>4, <3>4, <3>5 DEF AgreeInv
  <2>5. QED
    BY <2>1, <2>3, <2>4
<1>3. CASE Unheard
  BY <1>3 DEF Unheard, AgreeInv
<1>4. CASE Restarted
  <2>1. heard' = <<>> /\ stream' = <<>> /\ cuts' = {0}
    BY <1>4 DEF Restarted
  <2>2. <<>> \in Seq(Samples) /\ Len(<<>>) = 0
    BY EmptySeq
  <2>3. Len(SpectrumOf(<<>>)) = 0
    BY <2>2, NoFrames
  <2>4. Agrees(<<>>, SpectrumOf(<<>>), {0})
    BY <2>2, <2>3 DEF Agrees
  <2>5. QED
    BY <2>1, <2>3, <2>4 DEF AgreeInv
<1>5. QED
  BY <1>2, <1>3, <1>4, Steps

\* Streams that have the points of the same spectrum have the same points.
LEMMA SamePoints ==
  ASSUME NEW X \in Seq(Frame), NEW s \in Seq(LFs), Agrees(s, X, cuts), NEW r \in Seq(LFs), Agrees(r, X, cuts)
  PROVE  Points(s) \subseteq Points(r)
<1>1. DOMAIN s = 1..Len(s) /\ DOMAIN r = 1..Len(r) /\ Len(X) \in Nat
  BY LenProperties
<1>2. ASSUME NEW n \in 1..Len(s), Interior(s[n].T)
      PROVE  \E i \in 1..Len(r) : Interior(r[i].T) /\ r[i].T = s[n].T /\ r[i].F = s[n].F /\ r[i].D = s[n].D
  <2> DEFINE t == s[n].T
             m == t - 0 + 1
             j == s[n].F - Kmin
  <2>1. s[n] \in LFs
    BY ElementOfSeq
  <2>2. t \in Nat /\ s[n].F \in Int /\ Away(t, cuts)
    BY <1>2, <2>1 DEF LFs, Interior, Away
  <2>3. m \in 1..Len(X) /\ j \in 0..Width - 1 /\ s[n].D = Descriptor(X, m) /\ IsPOI(X, PeakMap(X), m, j)
    BY <2>2 DEF Agrees, Placed
  <2>4. m - 1 = t
    BY <2>2
  <2>5. Kmin + j = s[n].F
    <3> DEFINE f == s[n].F
    <3>1. f \in Int /\ Kmin \in Nat
      BY <2>2, WidthNumber
    <3> HIDE DEF f
    <3>2. Kmin + (f - Kmin) = f
      BY <3>1
    <3>3. QED
      BY <3>2 DEF f
  <2> HIDE DEF t, m, j
  <2>6. PICK i \in 1..Len(r) : r[i].T = m - 1 /\ r[i].F = Kmin + j
    BY <2>2, <2>3, <2>4 DEF Agrees
  <2>7. r[i].T = t
    BY <2>4, <2>6
  <2>8. Placed(r[i], X, PeakMap(X), 0)
    BY <2>2, <2>7 DEF Agrees
  <2>9. r[i].D = Descriptor(X, t - 0 + 1)
    BY <2>7, <2>8 DEF Placed
  <2>10. Interior(r[i].T)
    BY <1>2, <2>7 DEF t
  <2>11. QED
    BY <2>3, <2>5, <2>6, <2>7, <2>9, <2>10 DEF t, m
<1>3. QED
  BY <1>1, <1>2 DEF Points

\* The invariants give the property: the fingerprinter that hears the audio in one
\* piece agrees with it, and so with the stream.
LEMMA AgreeHolds == AudioInv /\ StreamInv /\ AgreeInv => InteriorAgree
<1> SUFFICES ASSUME AudioInv, StreamInv, AgreeInv PROVE InteriorAgree
  OBVIOUS
<1> DEFINE X == SpectrumOf(heard)
           f == NewFingerprint(SnippetSize)
           lfs == Process(f, heard).LF
<1>1. heard \in Seq(Samples) /\ X \in Seq(Frame) /\ InOrder(stream, X) /\ Agrees(stream, X, cuts)
  BY SpectrumFrames DEF AudioInv, Sound, StreamInv, AgreeInv
<1>2. stream \in Seq(LFs)
  BY <1>1 DEF InOrder
<1>3. HasHeard(f, <<>>) /\ f.LID = 0 /\ f.DeltaT = 0 /\ f.OSWindow = <<>>
  BY StreamNumbers, NewHeardNothing DEF NewFingerprint
<1>4. Rest(<<>>) = <<>> /\ Frames(Len(<<>>)) = 0
  BY <1>3 DEF HasHeard
<1>5. <<>> \in Seq(Samples) /\ Len(<<>>) = 0 /\ <<>> \in Seq(LFs)
  BY EmptySeq
<1> HIDE DEF f
<1>6. lfs \in Seq(LFs) /\ Agrees(lfs, X, cuts)
  <2>1. CASE heard = <<>>
    <3>1. lfs = <<>>
      BY <1>3, <1>5, <2>1, StreamNumbers, Unprocessed
    <3>2. Len(X) = 0
      BY <1>5, <2>1, NoFrames
    <3> HIDE DEF lfs, X
    <3>3. QED
      BY <1>5, <3>1, <3>2 DEF Agrees
  <2>2. CASE Len(heard) >= MinSize
    <3> DEFINE Y == SpectrumOf(Rest(<<>>) \o heard)
    <3>1. lfs = LFsOf(Y, PeakMap(Y), f.LID, Frames(Len(<<>>)))
      BY <1>1, <1>3, <1>5, <2>2, Processed
    <3>2. <<>> \o heard = heard
      BY <1>1, ConcatEmptySeq
    <3>3. Y = X
      BY <1>4, <3>2
    <3> HIDE DEF lfs, X, Y
    <3>4. lfs = LFsOf(X, PeakMap(X), 0, 0)
      BY <1>3, <1>4, <3>1, <3>3
    <3>5. /\ lfs \in Seq(LFs) /\ AllFound(lfs, X, PeakMap(X), 0)
          /\ \A n \in 1..Len(lfs) : Placed(lfs[n], X, PeakMap(X), 0)
      BY <1>1, <3>4, LFsFound
    <3>6. \A m \in 1..Len(X) : 0 + m - 1 = m - 1
      <4>1. Len(X) \in Nat
        BY <1>1, LenProperties
      <4>2. QED
        BY <4>1
    <3>7. QED
      BY <3>5, <3>6 DEF AllFound, Agrees
  <2>3. QED
    BY <2>1, <2>2 DEF AgreeInv
<1> HIDE DEF X, lfs
<1>7. Points(stream) = Points(lfs)
  <2>1. Points(stream) \subseteq Points(lfs)
    BY <1>1, <1>2, <1>6, SamePoints
  <2>2. Points(lfs) \subseteq Points(stream)
    BY <1>1, <1>2, <1>6, SamePoints
  <2>3. QED
    BY <2>1, <2>2
<1>8. QED
  BY <1>7 DEF InteriorAgree, lfs, f

\* Away from the ends of the blocks the stream has the points, and the
\* descriptors, that the same audio in one piece has: what the indexer makes of
\* chunks and the recognizer of snippets agree, for any windows, spectrum and
\* neighbourhoods, whatever the pieces.  Nothing else an LF depends on is
\* carried from one call of Process to the next (Fingerprint.cpp:32-78).
THEOREM StreamAgrees == Spec => []InteriorAgree
<1>1. Init => AudioInv /\ StreamInv /\ AgreeInv
  BY InitAudio, InitStream, InitAgree
<1>2. (AudioInv /\ StreamInv /\ AgreeInv) /\ [Next]_vars => (AudioInv /\ StreamInv /\ AgreeInv)'
  BY NextAudio, NextStream, NextAgree
<1>3. AudioInv /\ StreamInv /\ AgreeInv => InteriorAgree
  BY AgreeHolds
<1>4. QED
  BY <1>1, <1>2, <1>3, PTL DEF Spec
=============================================================================
