-------------------------- MODULE RecognizerProofs --------------------------
(***************************************************************************)
(* Proofs about the fuzzy classifier, for every confidence and duration,   *)
(* and so for a grid of any step and a match of any length; and about      *)
(* identifications with it: any index, any results the matcher may find,   *)
(* with any scores and ties, audio in pieces of any length.                *)
(***************************************************************************)
EXTENDS Recognizer, ClassifierScan, Recursion

-----------------------------------------------------------------------------
(* The fuzzy classifier.                                                   *)

\* The greatest degree of membership.
LEMMA ScaleType == Scale \in Nat /\ Scale > 0 /\ Scale > 10000
BY SMT DEF Scale

\* The steepness of a slope: at least one, and the slope does not overshoot.
LEMMA Steepness ==
  ASSUME NEW w \in 1..Scale
  PROVE  /\ Scale \div w \in Nat /\ Scale \div w >= 1
         /\ w * (Scale \div w) <= Scale
<1> DEFINE k == Scale \div w
<1>1. Scale \in Nat /\ w \in Int /\ w >= 1 /\ w <= Scale
  BY ScaleType
<1>2. k \in Int /\ Scale - w * k \in 0 .. w - 1
  BY <1>1, SMT
<1> HIDE DEF k
<1>3. w * k <= Scale /\ w * k > Scale - w
  BY <1>1, <1>2
<1>4. ASSUME NEW z \in Int, z <= 0 PROVE w * z <= 0
  BY <1>1, <1>4, SMT
<1>5. k >= 1
  BY <1>1, <1>2, <1>3, <1>4
<1>6. QED
  BY <1>2, <1>3, <1>5 DEF k

\* A degree of membership on a falling slope.
LEMMA FallingSlope ==
  ASSUME NEW a \in Int, NEW b \in Int, b - a \in 1..Scale
  PROVE  /\ \A x \in Int : Falling(x, a, b) \in 0..Scale
         /\ \A x \in Int : x < b => Falling(x, a, b) > 0
         /\ \A x \in Int : x >= b => Falling(x, a, b) = 0
         /\ \A x \in Int, y \in Int : x <= y => Falling(y, a, b) <= Falling(x, a, b)
<1> DEFINE k == Scale \div (b - a)
<1>1. k \in Nat /\ k >= 1 /\ (b - a) * k <= Scale
  BY Steepness
<1>2. Scale \in Nat /\ Scale > 0
  BY ScaleType
<1> HIDE DEF k
<1>3. \A m \in Int : /\ m * k \in Int
                     /\ m > 0 => m * k > 0
                     /\ m <= 0 => m * k <= 0
  BY <1>1, SMT
<1>4. \A m \in Int, n \in Int : m <= n => m * k <= n * k
  BY <1>1, SMT
<1>5. \A x \in Int : Falling(x, a, b) = IF x <= a THEN Scale ELSE AtLeast0((b - x) * k)
  BY DEF Falling, k
<1>6. \A x \in Int : b - x \in Int
  OBVIOUS
<1>7. \A x \in Int : x > a => (b - x) * k <= Scale
  <2> SUFFICES ASSUME NEW x \in Int, x > a PROVE (b - x) * k <= Scale
    OBVIOUS
  <2>1. b - x \in Int /\ b - a \in Int /\ b - x <= b - a
    OBVIOUS
  <2>2. (b - x) * k <= (b - a) * k /\ (b - x) * k \in Int /\ (b - a) * k \in Int
    BY <1>3, <1>4, <2>1
  <2>3. QED
    BY <1>1, <1>2, <2>2
<1>8. ASSUME NEW x \in Int PROVE Falling(x, a, b) \in 0..Scale
  <2>1. CASE x <= a
    BY <1>2, <1>5, <2>1
  <2>2. CASE x > a
    BY <1>2, <1>3, <1>5, <1>6, <1>7, <2>2 DEF AtLeast0
  <2>3. QED
    BY <2>1, <2>2
<1>9. ASSUME NEW x \in Int, x < b PROVE Falling(x, a, b) > 0
  <2>1. b - x > 0 /\ b - x \in Int
    BY <1>9
  <2>2. (b - x) * k > 0
    BY <1>3, <2>1
  <2>3. QED
    BY <1>2, <1>3, <1>5, <2>1, <2>2 DEF AtLeast0
<1>10. ASSUME NEW x \in Int, x >= b PROVE Falling(x, a, b) = 0
  <2>1. b - x <= 0 /\ b - x \in Int /\ x > a
    BY <1>10
  <2>2. (b - x) * k <= 0 /\ (b - x) * k \in Int
    BY <1>3, <2>1
  <2>3. QED
    BY <1>5, <2>1, <2>2 DEF AtLeast0
<1>11. ASSUME NEW x \in Int, NEW y \in Int, x <= y PROVE Falling(y, a, b) <= Falling(x, a, b)
  <2>1. CASE x <= a
    BY <1>2, <1>5, <1>8, <2>1
  <2>2. CASE x > a
    <3>1. b - y <= b - x /\ b - x \in Int /\ b - y \in Int /\ y > a
      BY <1>11, <2>2
    <3>2. (b - y) * k <= (b - x) * k /\ (b - y) * k \in Int /\ (b - x) * k \in Int
      BY <1>3, <1>4, <3>1
    <3>3. QED
      BY <1>5, <2>2, <3>1, <3>2 DEF AtLeast0
  <2>3. QED
    BY <2>1, <2>2
<1>12. QED
  BY <1>8, <1>9, <1>10, <1>11

\* A degree of membership on a rising slope.
LEMMA RisingSlope ==
  ASSUME NEW a \in Int, NEW b \in Int, b - a \in 1..Scale
  PROVE  /\ \A x \in Int : Rising(x, a, b) \in 0..Scale
         /\ \A x \in Int : x > a => Rising(x, a, b) > 0
         /\ \A x \in Int : x <= a => Rising(x, a, b) = 0
         /\ \A x \in Int : x >= b => Rising(x, a, b) = Scale
         /\ \A x \in Int, y \in Int : x <= y => Rising(x, a, b) <= Rising(y, a, b)
<1> DEFINE F(x) == Falling(0 - x, 0 - b, 0 - a)
<1>1. ASSUME NEW x \in Int PROVE Rising(x, a, b) = F(x)
  <2>1. (0 - a) - (0 - x) = x - a /\ (0 - a) - (0 - b) = b - a
    OBVIOUS
  <2>2. 0 - x <= 0 - b <=> x >= b
    OBVIOUS
  <2>3. QED
    BY <2>1, <2>2, Zenon DEF Rising, Falling
<1>2. 0 - a \in Int /\ 0 - b \in Int /\ (0 - a) - (0 - b) \in 1..Scale
  BY SMT
<1>3. /\ \A y \in Int : Falling(y, 0 - b, 0 - a) \in 0..Scale
      /\ \A y \in Int : y < 0 - a => Falling(y, 0 - b, 0 - a) > 0
      /\ \A y \in Int : y >= 0 - a => Falling(y, 0 - b, 0 - a) = 0
      /\ \A y \in Int, z \in Int : y <= z => Falling(z, 0 - b, 0 - a) <= Falling(y, 0 - b, 0 - a)
  <2> HIDE DEF F
  <2>1. QED
    BY <1>2, FallingSlope
<1>4. \A x \in Int : x >= b => F(x) = Scale
  BY DEF Falling
<1> DEFINE G(y) == Falling(y, 0 - b, 0 - a)
<1>5. /\ \A y \in Int : G(y) \in 0..Scale
      /\ \A y \in Int : y < 0 - a => G(y) > 0
      /\ \A y \in Int : y >= 0 - a => G(y) = 0
      /\ \A y \in Int, z \in Int : y <= z => G(z) <= G(y)
      /\ \A x \in Int : Rising(x, a, b) = G(0 - x)
  BY <1>1, <1>3
<1> HIDE DEF F, G
<1>6. \A x \in Int : /\ 0 - x \in Int
                     /\ x > a => 0 - x < 0 - a
                     /\ x <= a => 0 - x >= 0 - a
                     /\ \A y \in Int : x <= y => 0 - y <= 0 - x
  OBVIOUS
<1>7. \A x \in Int : Rising(x, a, b) \in 0..Scale
  BY <1>5, <1>6
<1>8. \A x \in Int : x > a => Rising(x, a, b) > 0
  BY <1>5, <1>6
<1>9. \A x \in Int : x <= a => Rising(x, a, b) = 0
  BY <1>5, <1>6
<1>10. \A x \in Int : x >= b => Rising(x, a, b) = Scale
  BY <1>1, <1>4
<1>11. \A x \in Int, y \in Int : x <= y => Rising(x, a, b) <= Rising(y, a, b)
  BY <1>5, <1>6
<1>12. QED
  BY <1>7, <1>8, <1>9, <1>10, <1>11

\* The corners of three fuzzy sets (SetMode) make slopes.
CornersInOrder(p) ==
  /\ p.LOW[1] \in Int /\ p.LOW[2] \in Int
  /\ p.MED[1] \in Int /\ p.MED[2] \in Int /\ p.MED[3] \in Int
  /\ p.HIGH[1] \in Int /\ p.HIGH[2] \in Int
  /\ p.LOW[2] - p.LOW[1] \in 1..Scale
  /\ p.MED[2] - p.MED[1] \in 1..Scale /\ p.MED[3] - p.MED[2] \in 1..Scale
  /\ p.HIGH[2] - p.HIGH[1] \in 1..Scale

\* All slopes are short enough to rise by at least one per step.
LEMMA ShortSlope == \A n \in 1..10000 : n \in 1..Scale
BY ScaleType, SMT

\* Of the confidences the low set has ended where the medium one is at its
\* height, and the high one begins after that and before the medium one ends.
LEMMA ConfCorners ==
  ASSUME NEW m \in Modes
  PROVE  /\ CornersInOrder(CONF[m])
         /\ CONF[m].LOW[2] <= CONF[m].MED[2] /\ CONF[m].MED[2] <= CONF[m].HIGH[1]
         /\ CONF[m].HIGH[1] < CONF[m].MED[3]
<1>1. /\ Conf(550) = 13860 /\ Conf(650) = 16380 /\ Conf(600) = 15120 /\ Conf(700) = 17640
      /\ Conf(800) = 20160 /\ Conf(750) = 18900 /\ Conf(900) = 22680
      /\ Conf(920) = 23184 /\ Conf(875) = 22050 /\ Conf(950) = 23940
  BY SMT DEF Conf, One
<1>2. CASE m = "EASY"
  <2>1. /\ CONF[m].LOW[1] = 13860 /\ CONF[m].LOW[2] = 16380
        /\ CONF[m].MED[1] = 15120 /\ CONF[m].MED[2] = 17640 /\ CONF[m].MED[3] = 20160
        /\ CONF[m].HIGH[1] = 18900 /\ CONF[m].HIGH[2] = 22680
    BY <1>1, <1>2, SMT DEF CONF
  <2>2. QED
    BY <2>1, ShortSlope, SMT DEF CornersInOrder
<1>3. CASE m = "STRICT"
  <2>1. /\ CONF[m].LOW[1] = 13860 /\ CONF[m].LOW[2] = 16380
        /\ CONF[m].MED[1] = 15120 /\ CONF[m].MED[2] = 17640 /\ CONF[m].MED[3] = 23184
        /\ CONF[m].HIGH[1] = 22050 /\ CONF[m].HIGH[2] = 23940
    BY <1>1, <1>3, SMT DEF CONF
  <2>2. QED
    BY <2>1, ShortSlope, SMT DEF CornersInOrder
<1>4. QED
  BY <1>2, <1>3 DEF Modes

\* The corners of the durations are, and 20 seconds are entirely LONG.
LEMMA DurationCorners ==
  ASSUME NEW m \in Modes
  PROVE  CornersInOrder(CDUR[m]) /\ CDUR[m].HIGH[2] = 200
<1>1. CASE m = "EASY"
  <2>1. /\ CDUR[m].LOW[1] = 15 /\ CDUR[m].LOW[2] = 30
        /\ CDUR[m].MED[1] = 20 /\ CDUR[m].MED[2] = 100 /\ CDUR[m].MED[3] = 220
        /\ CDUR[m].HIGH[1] = 175 /\ CDUR[m].HIGH[2] = 200
    BY <1>1, SMT DEF CDUR
  <2>2. QED
    BY <2>1, ShortSlope, SMT DEF CornersInOrder
<1>2. CASE m = "STRICT"
  <2>1. /\ CDUR[m].LOW[1] = 20 /\ CDUR[m].LOW[2] = 50
        /\ CDUR[m].MED[1] = 28 /\ CDUR[m].MED[2] = 120 /\ CDUR[m].MED[3] = 192
        /\ CDUR[m].HIGH[1] = 150 /\ CDUR[m].HIGH[2] = 200
    BY <1>2, SMT DEF CDUR
  <2>2. QED
    BY <2>1, ShortSlope, SMT DEF CornersInOrder
<1>3. QED
  BY <1>1, <1>2 DEF Modes

\* A degree is between nothing and everything.
LEMMA DegreeType ==
  ASSUME NEW l \in Levels, NEW x \in Int, NEW p, CornersInOrder(p)
  PROVE  Degree(l, x, p) \in 0..Scale
<1>1. CASE l = "LOW"
  <2>1. Degree(l, x, p) = Falling(x, p.LOW[1], p.LOW[2])
    BY <1>1 DEF Degree
  <2>2. p.LOW[1] \in Int /\ p.LOW[2] \in Int /\ p.LOW[2] - p.LOW[1] \in 1..Scale
    BY DEF CornersInOrder
  <2>3. QED
    BY <2>1, <2>2, FallingSlope
<1>2. CASE l = "MED"
  <2>1. Degree(l, x, p) = IF x <= p.MED[2] THEN Rising(x, p.MED[1], p.MED[2])
                          ELSE Falling(x, p.MED[2], p.MED[3])
    BY <1>2 DEF Degree
  <2>2. p.MED[1] \in Int /\ p.MED[2] \in Int /\ p.MED[2] - p.MED[1] \in 1..Scale
        /\ p.MED[3] \in Int /\ p.MED[3] - p.MED[2] \in 1..Scale
    BY DEF CornersInOrder
  <2>3. Rising(x, p.MED[1], p.MED[2]) \in 0..Scale
    BY <2>2, RisingSlope
  <2>4. Falling(x, p.MED[2], p.MED[3]) \in 0..Scale
    BY <2>2, FallingSlope
  <2>5. QED
    BY <2>1, <2>3, <2>4
<1>3. CASE l = "HIGH"
  <2>1. Degree(l, x, p) = Rising(x, p.HIGH[1], p.HIGH[2])
    BY <1>3 DEF Degree
  <2>2. p.HIGH[1] \in Int /\ p.HIGH[2] \in Int /\ p.HIGH[2] - p.HIGH[1] \in 1..Scale
    BY DEF CornersInOrder
  <2>3. Rising(x, p.HIGH[1], p.HIGH[2]) \in 0..Scale
    BY <2>2, RisingSlope
  <2>4. QED
    BY <2>1, <2>3
<1>4. QED
  BY <1>1, <1>2, <1>3 DEF Levels

-----------------------------------------------------------------------------
(* The choice of the rule that holds most.                                 *)

\* How true the rule of a confidence level c and a duration level d is.
Truth(m, h, t, c, d) == Lesser(Degree(c, h, CONF[m]), Degree(d, t, CDUR[m]))

\* One of the three levels is the greatest.
LEMMA GreatestLevel ==
  ASSUME NEW f, \A l \in Levels : f[l] \in Int
  PROVE  \E l \in Levels : \A k \in Levels : f[k] <= f[l]
<1>1. f["LOW"] \in Int /\ f["MED"] \in Int /\ f["HIGH"] \in Int
  BY DEF Levels
<1>2. \/ f["LOW"] >= f["MED"] /\ f["LOW"] >= f["HIGH"]
      \/ f["MED"] >= f["LOW"] /\ f["MED"] >= f["HIGH"]
      \/ f["HIGH"] >= f["LOW"] /\ f["HIGH"] >= f["MED"]
  BY <1>1
<1>3. QED
  BY <1>1, <1>2 DEF Levels

\* The rules taken are those no other rule is truer than, and there is one.
LEMMA TruestRules ==
  ASSUME NEW m \in Modes, NEW h \in Int, NEW t \in Int
  PROVE  /\ \A c \in Levels, d \in Levels : Truth(m, h, t, c, d) \in 0..Scale
         /\ Truest(m, h, t) # {} /\ Truest(m, h, t) \subseteq Levels \X Levels
         /\ \A c \in Levels, d \in Levels :
              <<c, d>> \in Truest(m, h, t) <=>
                \A a \in Levels, b \in Levels : Truth(m, h, t, a, b) <= Truth(m, h, t, c, d)
<1> DEFINE uCONF == [l \in Levels |-> Degree(l, h, CONF[m])]
           uCDUR == [l \in Levels |-> Degree(l, t, CDUR[m])]
           truth == [r \in Levels \X Levels |-> Lesser(uCONF[r[1]], uCDUR[r[2]])]
           all   == {truth[r] : r \in DOMAIN truth}
<1>1. Truest(m, h, t) = {r \in DOMAIN truth : truth[r] = Max(all)}
  BY DEF Truest, Range
<1>2. \A c \in Levels, d \in Levels : Truth(m, h, t, c, d) \in 0..Scale
  <2>1. \A l \in Levels : Degree(l, h, CONF[m]) \in 0..Scale /\ Degree(l, t, CDUR[m]) \in 0..Scale
    BY DegreeType, ConfCorners, DurationCorners
  <2>2. QED
    BY <2>1 DEF Truth, Lesser
<1>3. \A c \in Levels, d \in Levels : truth[<<c, d>>] = Truth(m, h, t, c, d)
  BY DEF Truth
<1>4. DOMAIN truth = Levels \X Levels
  OBVIOUS
<1> HIDE DEF truth
<1>5. PICK best \in [Levels -> Levels] :
        \A c \in Levels, d \in Levels : Truth(m, h, t, c, d) <= Truth(m, h, t, c, best[c])
  <2>1. \A c \in Levels : \E l \in Levels : \A k \in Levels : Truth(m, h, t, c, k) <= Truth(m, h, t, c, l)
    <3> SUFFICES ASSUME NEW c \in Levels
                 PROVE  \E l \in Levels : \A k \in Levels : Truth(m, h, t, c, k) <= Truth(m, h, t, c, l)
      OBVIOUS
    <3> DEFINE f == [k \in Levels |-> Truth(m, h, t, c, k)]
    <3>1. \A l \in Levels : f[l] = Truth(m, h, t, c, l)
      OBVIOUS
    <3>2. \A l \in Levels : f[l] \in Int
      BY <1>2, <3>1, ScaleType
    <3> HIDE DEF f
    <3>3. QED
      BY <3>1, <3>2, GreatestLevel
  <2> DEFINE B == [c \in Levels |->
                    CHOOSE l \in Levels : \A k \in Levels : Truth(m, h, t, c, k) <= Truth(m, h, t, c, l)]
  <2>2. B \in [Levels -> Levels]
    BY <2>1
  <2>3. \A c \in Levels : \A k \in Levels : Truth(m, h, t, c, k) <= Truth(m, h, t, c, B[c])
    BY <2>1
  <2> HIDE DEF B
  <2>4. QED
    BY <2>2, <2>3
<1>6. PICK c0 \in Levels : \A c \in Levels : Truth(m, h, t, c, best[c]) <= Truth(m, h, t, c0, best[c0])
  <2> DEFINE f == [c \in Levels |-> Truth(m, h, t, c, best[c])]
  <2>1. \A c \in Levels : f[c] = Truth(m, h, t, c, best[c]) /\ f[c] \in Int
    BY <1>2, <1>5, ScaleType
  <2> HIDE DEF f
  <2>2. QED
    BY <2>1, GreatestLevel
<1>7. \A c \in Levels, d \in Levels : Truth(m, h, t, c, d) <= Truth(m, h, t, c0, best[c0])
  BY <1>2, <1>5, <1>6, ScaleType
<1> DEFINE top == Truth(m, h, t, c0, best[c0])
<1>8. /\ top \in all /\ \A v \in all : top >= v /\ v \in Int
  <2>1. best[c0] \in Levels
    BY <1>5, <1>6
  <2>2. \A r \in Levels \X Levels : \E c \in Levels, d \in Levels : r = <<c, d>>
    OBVIOUS
  <2>3. <<c0, best[c0]>> \in DOMAIN truth
    BY <1>4, <2>1
  <2>4. top \in all
    BY <1>3, <2>1, <2>3
  <2>5. ASSUME NEW v \in all PROVE top >= v /\ v \in Int
    <3>1. PICK c \in Levels, d \in Levels : v = truth[<<c, d>>]
      <4>1. PICK r \in DOMAIN truth : v = truth[r]
        BY <2>5
      <4>2. QED
        BY <1>4, <2>2, <4>1
    <3>2. v = Truth(m, h, t, c, d) /\ v \in 0..Scale /\ top \in 0..Scale /\ v <= top
      BY <1>2, <1>3, <1>7, <2>1, <3>1
    <3>3. QED
      BY <3>2, ScaleType
  <2>6. QED
    BY <2>4, <2>5
<1> HIDE DEF all, top
<1>9. Max(all) = top
  <2>1. Max(all) \in all /\ \A v \in all : Max(all) >= v
    BY <1>8 DEF Max
  <2>2. QED
    BY <1>8, <2>1
<1>10. \A c \in Levels, d \in Levels :
         <<c, d>> \in Truest(m, h, t) <=> Truth(m, h, t, c, d) = top
  BY <1>1, <1>3, <1>4, <1>9
<1>11. best[c0] \in Levels /\ <<c0, best[c0]>> \in Truest(m, h, t)
  BY <1>5, <1>6, <1>10 DEF top
<1>12. \A c \in Levels, d \in Levels :
         Truth(m, h, t, c, d) = top <=>
           \A a \in Levels, b \in Levels : Truth(m, h, t, a, b) <= Truth(m, h, t, c, d)
  BY <1>2, <1>7, <1>11, ScaleType DEF top
<1>13. Truest(m, h, t) \subseteq Levels \X Levels
  BY <1>1, <1>4
<1>14. QED
  BY <1>2, <1>10, <1>11, <1>12, <1>13

\* The answer is the first class among those of the truest rules.
LEMMA ClassOfTruest ==
  ASSUME NEW m \in Modes, NEW h \in Int, NEW t \in Int
  PROVE  /\ Classify(m, h, t) \in 0..3
         /\ \E c \in Levels, d \in Levels :
              <<c, d>> \in Truest(m, h, t) /\ Classify(m, h, t) = Rule(c, d)
         /\ \A c \in Levels, d \in Levels :
              <<c, d>> \in Truest(m, h, t) => Classify(m, h, t) <= Rule(c, d)
<1> DEFINE T == Truest(m, h, t)
           S == {Rule(r[1], r[2]) : r \in T}
<1>1. T # {} /\ T \subseteq Levels \X Levels
  BY TruestRules
<1>2. Classify(m, h, t) = Min(S)
  BY DEF Classify
<1>3. \A c, d : Rule(c, d) \in {0, 1, 2, 3}
  BY DEF Rule, IDENTIFIED, SOUNDS_LIKE, UNIDENTIFIED, LISTENING
<1> HIDE DEF T
<1>4. S \subseteq {0, 1, 2, 3} /\ S # {}
  BY <1>1, <1>3
<1>5. \A c \in Levels, d \in Levels : <<c, d>> \in T => Rule(c, d) \in S
  <2> SUFFICES ASSUME NEW c \in Levels, NEW d \in Levels, <<c, d>> \in T
               PROVE  \E r \in T : Rule(c, d) = Rule(r[1], r[2])
    OBVIOUS
  <2>1. <<c, d>>[1] = c /\ <<c, d>>[2] = d
    OBVIOUS
  <2>2. QED
    BY <2>1, Zenon
<1>6. ASSUME NEW v \in S
      PROVE  \E c \in Levels, d \in Levels : <<c, d>> \in T /\ v = Rule(c, d)
  <2>1. PICK r \in T : v = Rule(r[1], r[2])
    BY <1>6
  <2>2. r[1] \in Levels /\ r[2] \in Levels /\ r = <<r[1], r[2]>>
    BY <1>1
  <2>3. QED
    BY <2>1, <2>2
<1> HIDE DEF S
<1>7. \E v \in S : \A w \in S : v <= w
  <2>1. CASE 0 \in S
    BY <1>4, <2>1
  <2>2. CASE 0 \notin S /\ 1 \in S
    BY <1>4, <2>2
  <2>3. CASE 0 \notin S /\ 1 \notin S /\ 2 \in S
    BY <1>4, <2>3
  <2>4. CASE S = {3}
    BY <2>4
  <2>5. QED
    BY <1>4, <2>1, <2>2, <2>3, <2>4
<1>8. Min(S) \in S /\ \A w \in S : Min(S) <= w
  BY <1>7 DEF Min
<1>9. Min(S) \in 0..3
  <2>1. \A v \in {0, 1, 2, 3} : v \in 0..3
    OBVIOUS
  <2>2. QED
    BY <1>4, <1>8, <2>1, Zenon
<1>10. QED
  BY <1>2, <1>5, <1>6, <1>8, <1>9 DEF T

\* A rule that is not taken is less true than one that is.
LEMMA Beaten ==
  ASSUME NEW m \in Modes, NEW h \in Int, NEW t \in Int,
         NEW c \in Levels, NEW d \in Levels, <<c, d>> \in Truest(m, h, t),
         NEW a \in Levels, NEW b \in Levels, <<a, b>> \notin Truest(m, h, t)
  PROVE  Truth(m, h, t, a, b) < Truth(m, h, t, c, d)
<1>1. \A e \in Levels, f \in Levels :
        Truth(m, h, t, e, f) \in Int /\ Truth(m, h, t, e, f) <= Truth(m, h, t, c, d)
  BY TruestRules, ScaleType
<1>2. ~\A e \in Levels, f \in Levels : Truth(m, h, t, e, f) <= Truth(m, h, t, a, b)
  BY TruestRules
<1>3. QED
  BY <1>1, <1>2

\* Only a high confidence that was not short is identified: strictly above
\* the corners where the two sets begin.
LEMMA IdentifiedClass ==
  ASSUME NEW m \in Modes, NEW h \in Int, NEW t \in Int, Classify(m, h, t) = IDENTIFIED
  PROVE  h > CONF[m].HIGH[1] /\ t > CDUR[m].MED[1]
<1> DEFINE D(d) == Degree(d, t, CDUR[m])
           U(c) == Degree(c, h, CONF[m])
<1>1. PICK c \in Levels, d \in Levels :
        <<c, d>> \in Truest(m, h, t) /\ Rule(c, d) = IDENTIFIED
  BY ClassOfTruest
<1>2. "LOW" \in Levels /\ "HIGH" \in Levels /\ Rule("LOW", "HIGH") = 0
  BY DEF Levels, Rule, UNIDENTIFIED
<1>3. c = "HIGH" /\ d \in {"MED", "HIGH"}
  BY <1>1 DEF Rule, Levels, IDENTIFIED, SOUNDS_LIKE, UNIDENTIFIED, LISTENING
<1>4. <<"LOW", "HIGH">> \notin Truest(m, h, t)
  BY <1>2, ClassOfTruest DEF IDENTIFIED
<1>5. Truth(m, h, t, "LOW", "HIGH") < Truth(m, h, t, c, d)
  BY <1>1, <1>2, <1>4, Beaten
<1>6. \A l \in Levels, k \in Levels : Truth(m, h, t, l, k) \in 0..Scale
  BY TruestRules
<1>7. D(d) \in 0..Scale /\ U(c) \in 0..Scale
  BY DegreeType, ConfCorners, DurationCorners
<1>8. Truth(m, h, t, c, d) = Lesser(U(c), D(d))
  BY DEF Truth
<1> HIDE DEF D, U
<1>9. D(d) > 0 /\ U(c) > 0
  <2>1. Lesser(U(c), D(d)) > 0
    BY <1>2, <1>5, <1>6, <1>8, ScaleType
  <2>2. QED
    BY <1>7, <2>1, ScaleType DEF Lesser
<1>10. h > CONF[m].HIGH[1]
  <2>1. CONF[m].HIGH[1] \in Int /\ CONF[m].HIGH[2] \in Int
        /\ CONF[m].HIGH[2] - CONF[m].HIGH[1] \in 1..Scale
    BY ConfCorners DEF CornersInOrder
  <2>2. h <= CONF[m].HIGH[1] => Rising(h, CONF[m].HIGH[1], CONF[m].HIGH[2]) = 0
    <3> DEFINE q == CONF[m]
    <3>1. q.HIGH[1] \in Int /\ q.HIGH[2] \in Int /\ q.HIGH[2] - q.HIGH[1] \in 1..Scale
      BY <2>1
    <3> HIDE DEF q
    <3>2. \A x \in Int : x <= q.HIGH[1] => Rising(x, q.HIGH[1], q.HIGH[2]) = 0
      BY <3>1, RisingSlope
    <3>3. h <= q.HIGH[1] => Rising(h, q.HIGH[1], q.HIGH[2]) = 0
      BY <3>2
    <3>4. QED
      BY <3>3 DEF q
  <2>3. U(c) = Rising(h, CONF[m].HIGH[1], CONF[m].HIGH[2])
    BY <1>3 DEF U, Degree
  <2>4. QED
    BY <1>9, <2>1, <2>2, <2>3
<1>11. t > CDUR[m].MED[1]
  <2> DEFINE p == CDUR[m]
  <2>1. /\ p.MED[1] \in Int /\ p.MED[2] \in Int /\ p.MED[2] - p.MED[1] \in 1..Scale
        /\ p.HIGH[1] \in Int /\ p.HIGH[2] \in Int /\ p.HIGH[2] - p.HIGH[1] \in 1..Scale
    BY DurationCorners DEF CornersInOrder
  <2>2. p.MED[1] < p.HIGH[1]
    BY SMT DEF CDUR, Modes
  <2>3. CASE d = "HIGH"
    <3>1. D(d) = Rising(t, p.HIGH[1], p.HIGH[2])
      BY <2>3 DEF D, Degree
    <3> HIDE DEF p
    <3>2. t <= p.HIGH[1] => Rising(t, p.HIGH[1], p.HIGH[2]) = 0
      <4>1. p.HIGH[1] \in Int /\ p.HIGH[2] \in Int /\ p.HIGH[2] - p.HIGH[1] \in 1..Scale
        BY <2>1
      <4>2. \A x \in Int : x <= p.HIGH[1] => Rising(x, p.HIGH[1], p.HIGH[2]) = 0
        BY <4>1, RisingSlope
      <4>3. QED
        BY <4>2
    <3>3. QED
      BY <1>9, <2>1, <2>2, <3>1, <3>2 DEF p
  <2>4. CASE d = "MED"
    <3>1. t <= p.MED[2] => D(d) = Rising(t, p.MED[1], p.MED[2])
      BY <2>4 DEF D, Degree
    <3> HIDE DEF p
    <3>2. t <= p.MED[1] => Rising(t, p.MED[1], p.MED[2]) = 0
      <4>1. p.MED[1] \in Int /\ p.MED[2] \in Int /\ p.MED[2] - p.MED[1] \in 1..Scale
        BY <2>1
      <4>2. \A x \in Int : x <= p.MED[1] => Rising(x, p.MED[1], p.MED[2]) = 0
        BY <4>1, RisingSlope
      <4>3. QED
        BY <4>2
    <3>3. t <= p.MED[2] \/ t > p.MED[1]
      BY <2>1
    <3>4. t > p.MED[1]
      BY <1>9, <2>1, <3>1, <3>2, <3>3
    <3>5. QED
      BY <3>4 DEF p
  <2>5. QED
    BY <1>3, <2>3, <2>4
<1>12. QED
  BY <1>10, <1>11

\* A duration of the maximum identification time is entirely LONG, so the level
\* the confidence has most of makes a rule with LONG true that no other rule
\* is truer than.
LEMMA SettledClass ==
  ASSUME NEW m \in Modes, NEW h \in Int, NEW t \in Int, t >= 200
  PROVE  Classify(m, h, t) # LISTENING
<1> DEFINE U(c) == Degree(c, h, CONF[m])
           f    == [c \in Levels |-> U(c)]
<1>1. \A l \in Levels : Degree(l, t, CDUR[m]) \in 0..Scale /\ U(l) \in 0..Scale
  BY DegreeType, ConfCorners, DurationCorners
<1>2. Degree("HIGH", t, CDUR[m]) = Scale
  <2>1. /\ CDUR[m].HIGH[1] \in Int /\ CDUR[m].HIGH[2] = 200
        /\ CDUR[m].HIGH[2] - CDUR[m].HIGH[1] \in 1..Scale
    BY DurationCorners DEF CornersInOrder
  <2>2. Rising(t, CDUR[m].HIGH[1], CDUR[m].HIGH[2]) = Scale
    <3>1. \A x \in Int : x >= CDUR[m].HIGH[2] => Rising(x, CDUR[m].HIGH[1], CDUR[m].HIGH[2]) = Scale
      <4>1. CDUR[m].HIGH[2] \in Int
        BY <2>1
      <4>2. QED
        BY <2>1, <4>1, RisingSlope
    <3>2. QED
      BY <2>1, <3>1
  <2>3. QED
    BY <2>2 DEF Degree
<1>3. \A c \in Levels, d \in Levels :
        Truth(m, h, t, c, d) \in Int /\ Truth(m, h, t, c, d) <= U(c)
  BY <1>1, ScaleType DEF Truth, Lesser
<1>4. \A c \in Levels : Truth(m, h, t, c, "HIGH") = U(c)
  BY <1>1, <1>2, ScaleType DEF Truth, Lesser
<1>5. PICK c \in Levels : \A k \in Levels : U(k) <= U(c)
  <2>1. \A l \in Levels : f[l] = U(l) /\ f[l] \in Int
    BY <1>1, ScaleType
  <2> HIDE DEF f, U
  <2>2. QED
    BY <2>1, GreatestLevel
<1>6. "HIGH" \in Levels /\ \A l \in Levels : U(l) \in Int
  BY <1>1, ScaleType DEF Levels
<1> HIDE DEF U
<1>7. \A a \in Levels, b \in Levels :
        Truth(m, h, t, a, b) <= Truth(m, h, t, c, "HIGH")
  BY <1>3, <1>4, <1>5, <1>6
<1>8. <<c, "HIGH">> \in Truest(m, h, t)
  BY <1>6, <1>7, TruestRules
<1>9. Classify(m, h, t) <= Rule(c, "HIGH") /\ Classify(m, h, t) \in 0..3
  BY <1>6, <1>8, ClassOfTruest
<1>10. Rule(c, "HIGH") \in {0, 1, 2}
  BY DEF Rule, Levels, IDENTIFIED, SOUNDS_LIKE, UNIDENTIFIED
<1>11. QED
  BY <1>9, <1>10 DEF LISTENING

-----------------------------------------------------------------------------
(* Theorems.                                                               *)

\* Full confidence is a natural number.
LEMMA OneType == One \in Nat
BY SMT DEF One

\* The confidence stays in the grid.
ScanInv == mode \in Modes /\ Hu \in 0..One /\ dT \in Nat

\* ScanInv holds in every reachable state.
LEMMA ScanInvariant == ScanSpec => []ScanInv
<1>1. ScanInit => ScanInv
  BY DEF ScanInit, ScanInv
<1>2. ScanInv /\ [Listen]_scan => ScanInv'
  BY DEF ScanInv, Listen, scan
<1>3. QED
  BY <1>1, <1>2, PTL DEF ScanSpec

\* At the maximum identification time no match is listened to any longer,
\* whatever its confidence (Recognizer.cpp:197-201).
THEOREM Settled == ScanSpec => []SettledInTime
<1>1. ScanInv => SettledInTime
  <2> SUFFICES ASSUME mode \in Modes, Hu \in Int, dT \in Int, dT >= 200
               PROVE  Class # LISTENING
    <3>1. Hu \in 0..One => Hu \in Int
      BY OneType
    <3>2. QED
      BY <3>1 DEF ScanInv, SettledInTime
  <2>1. QED
    BY SettledClass DEF Class
<1>2. QED
  BY <1>1, ScanInvariant, PTL

\* What happens to the levels of a confidence that grows.
LEMMA MoreConfidence ==
  ASSUME NEW m \in Modes, NEW h \in Int, NEW k \in Int, h <= k
  PROVE  LET uLOW(x)  == Degree("LOW", x, CONF[m])
             uMED(x)  == Degree("MED", x, CONF[m])
             uHIGH(x) == Degree("HIGH", x, CONF[m])
         IN  /\ uLOW(k) <= uLOW(h) /\ uHIGH(h) <= uHIGH(k)
             /\ uHIGH(h) > 0 => uMED(k) <= uMED(h)
             /\ uMED(h) <= uMED(k) \/ (uLOW(k) = 0 /\ (uMED(k) > 0 \/ uHIGH(k) > 0))
<1> DEFINE p == CONF[m]
<1>1. /\ p.LOW[1] \in Int /\ p.LOW[2] \in Int
      /\ p.MED[1] \in Int /\ p.MED[2] \in Int /\ p.MED[3] \in Int
      /\ p.HIGH[1] \in Int /\ p.HIGH[2] \in Int
      /\ p.LOW[2] - p.LOW[1] \in 1..Scale
      /\ p.MED[2] - p.MED[1] \in 1..Scale /\ p.MED[3] - p.MED[2] \in 1..Scale
      /\ p.HIGH[2] - p.HIGH[1] \in 1..Scale
      /\ p.LOW[2] <= p.MED[2] /\ p.MED[2] <= p.HIGH[1] /\ p.HIGH[1] < p.MED[3]
  BY ConfCorners DEF CornersInOrder
<1> DEFINE L(x) == Falling(x, p.LOW[1], p.LOW[2])
           R(x) == Rising(x, p.MED[1], p.MED[2])
           F(x) == Falling(x, p.MED[2], p.MED[3])
           H(x) == Rising(x, p.HIGH[1], p.HIGH[2])
<1>2. /\ \A x : Degree("LOW", x, p) = L(x)
      /\ \A x : Degree("MED", x, p) = IF x <= p.MED[2] THEN R(x) ELSE F(x)
      /\ \A x : Degree("HIGH", x, p) = H(x)
  BY DEF Degree
<1> HIDE DEF p
<1>3. L(k) <= L(h) /\ (k >= p.LOW[2] => L(k) = 0)
  BY <1>1, FallingSlope
<1>4. R(h) <= R(k)
  BY <1>1, RisingSlope
<1>5. F(k) <= F(h) /\ (k < p.MED[3] => F(k) > 0)
  BY <1>1, FallingSlope
<1>6. H(h) <= H(k) /\ (h <= p.HIGH[1] => H(h) = 0) /\ (k > p.HIGH[1] => H(k) > 0)
  <2>1. PICK a \in Int, b \in Int : a = p.HIGH[1] /\ b = p.HIGH[2] /\ b - a \in 1..Scale
    BY <1>1
  <2>2. \A x : H(x) = Rising(x, a, b)
    BY <2>1
  <2>b. b - a \in 1..Scale
    BY <2>1
  <2> HIDE DEF H
  <2>3. Rising(h, a, b) <= Rising(k, a, b)
    BY ONLY h \in Int, k \in Int, h <= k, a \in Int, b \in Int, <2>b, RisingSlope, Zenon
  <2>4. h <= a => Rising(h, a, b) = 0
    BY ONLY h \in Int, a \in Int, b \in Int, <2>b, RisingSlope, Zenon
  <2>5. k > a => Rising(k, a, b) > 0
    BY ONLY k \in Int, a \in Int, b \in Int, <2>b, RisingSlope, Zenon
  <2>6. QED
    BY <2>1, <2>2, <2>3, <2>4, <2>5
<1> HIDE DEF L, R, F, H
<1>7. H(h) > 0 => h > p.MED[2] /\ k > p.MED[2]
  BY <1>1, <1>6
<1>8. k > p.MED[2] => L(k) = 0 /\ (F(k) > 0 \/ H(k) > 0)
  BY <1>1, <1>3, <1>5, <1>6
<1>9. k <= p.MED[2] => h <= p.MED[2]
  BY <1>1
<1>10. (k <= p.MED[2] \/ k > p.MED[2]) /\ (h <= p.MED[2] <=> ~(h > p.MED[2]))
  BY <1>1
<1>11. QED
  BY <1>1, <1>2, <1>3, <1>4, <1>5, <1>6, <1>7, <1>8, <1>9, <1>10 DEF p

\* With more confidence, and the same duration, the answer is no worse.
LEMMA NoWorse ==
  ASSUME NEW m \in Modes, NEW h \in Int, NEW k \in Int, h <= k, NEW t \in Int,
         Classify(m, h, t) # LISTENING, Classify(m, k, t) # LISTENING
  PROVE  Classify(m, h, t) <= Classify(m, k, t)
<1> DEFINE A == Classify(m, h, t)
           B == Classify(m, k, t)
           D(d) == Degree(d, t, CDUR[m])
           U(c, x) == Degree(c, x, CONF[m])
<1>1. A \in 0..2 /\ B \in 0..2
  BY ClassOfTruest DEF LISTENING
<1>2. /\ "LOW" \in Levels /\ "MED" \in Levels /\ "HIGH" \in Levels
      /\ "LOW" # "HIGH" /\ "LOW" # "MED" /\ "MED" # "HIGH"
  BY DEF Levels
<1>3. \A l \in Levels : D(l) \in Int /\ D(l) >= 0
  <2>1. \A l \in Levels : D(l) \in 0..Scale
    BY DegreeType, DurationCorners
  <2>2. QED
    BY <2>1, ScaleType
<1>4. \A l \in Levels : U(l, h) \in Int /\ U(l, h) >= 0 /\ U(l, k) \in Int /\ U(l, k) >= 0
  <2>1. \A l \in Levels : U(l, h) \in 0..Scale /\ U(l, k) \in 0..Scale
    BY DegreeType, ConfCorners
  <2>2. QED
    BY <2>1, ScaleType
<1>5. /\ U("LOW", k) <= U("LOW", h) /\ U("HIGH", h) <= U("HIGH", k)
      /\ U("HIGH", h) > 0 => U("MED", k) <= U("MED", h)
      /\ \/ U("MED", h) <= U("MED", k)
         \/ U("LOW", k) = 0 /\ (U("MED", k) > 0 \/ U("HIGH", k) > 0)
  BY MoreConfidence
<1>6. \A c \in Levels, d \in Levels : \A x : Truth(m, x, t, c, d) = Lesser(U(c, x), D(d))
  BY DEF Truth
<1>7. \A x \in Int, y \in Int :
        /\ Lesser(x, y) \in Int /\ Lesser(x, y) <= x /\ Lesser(x, y) <= y
        /\ Lesser(x, y) = x \/ Lesser(x, y) = y
        /\ \A z \in Int : z <= x => Lesser(z, y) <= Lesser(x, y)
  BY DEF Lesser
<1>p. \A x \in Int, y \in Int :
        x >= 0 /\ y >= 0 => Lesser(x, y) >= 0 /\ (Lesser(x, y) > 0 <=> x > 0 /\ y > 0)
  BY DEF Lesser
<1>q. \A l \in Levels, n \in Levels :
        /\ Lesser(U(l, h), D(n)) \in Int /\ Lesser(U(l, h), D(n)) >= 0
        /\ Lesser(U(l, k), D(n)) \in Int /\ Lesser(U(l, k), D(n)) >= 0
  BY <1>3, <1>4, <1>7, <1>p
<1>8. \A c \in Levels, d \in Levels :
        /\ Rule(c, d) = 2 => c = "HIGH"
        /\ Rule(c, d) = 1 => c = "MED" /\ d = "HIGH"
        /\ Rule(c, d) = 0 => c = "LOW" /\ d = "HIGH"
  BY <1>2 DEF Rule, Levels, IDENTIFIED, SOUNDS_LIKE, UNIDENTIFIED, LISTENING
<1>9. Rule("LOW", "HIGH") = 0 /\ Rule("MED", "HIGH") = 1
  BY <1>2 DEF Rule, SOUNDS_LIKE, UNIDENTIFIED
<1>10. PICK c \in Levels, d \in Levels : <<c, d>> \in Truest(m, h, t) /\ A = Rule(c, d)
  BY ClassOfTruest
<1>11. PICK a \in Levels, b \in Levels : <<a, b>> \in Truest(m, k, t) /\ B = Rule(a, b)
  BY ClassOfTruest
<1>12. /\ A > 0 => <<"LOW", "HIGH">> \notin Truest(m, h, t)
       /\ A > 1 => <<"MED", "HIGH">> \notin Truest(m, h, t)
  BY <1>1, <1>2, <1>9, ClassOfTruest
<1> HIDE DEF A, B, D, U
<1>13. \A e \in Levels, f \in Levels : Lesser(U(e, k), D(f)) <= Lesser(U(a, k), D(b))
  BY <1>6, <1>11, TruestRules
<1>14. CASE A = 2
  <2>1. c = "HIGH"
    BY <1>8, <1>10, <1>14
  <2>2. /\ Lesser(U("LOW", h), D("HIGH")) < Lesser(U("HIGH", h), D(d))
        /\ Lesser(U("MED", h), D("HIGH")) < Lesser(U("HIGH", h), D(d))
    <3>1. <<"LOW", "HIGH">> \notin Truest(m, h, t) /\ <<"MED", "HIGH">> \notin Truest(m, h, t)
      BY <1>12, <1>14
    <3>2. /\ Truth(m, h, t, "LOW", "HIGH") < Truth(m, h, t, c, d)
          /\ Truth(m, h, t, "MED", "HIGH") < Truth(m, h, t, c, d)
      BY <1>2, <1>10, <3>1, Beaten
    <3>3. QED
      BY <1>2, <1>6, <2>1, <3>2
  <2>3. U("HIGH", h) > 0
    <3>1. Lesser(U("HIGH", h), D(d)) > 0
      BY <1>2, <1>q, <2>2
    <3>2. QED
      BY <1>2, <1>3, <1>4, <1>p, <3>1
  <2>4. /\ Lesser(U("LOW", k), D("HIGH")) <= Lesser(U("LOW", h), D("HIGH"))
        /\ Lesser(U("MED", k), D("HIGH")) <= Lesser(U("MED", h), D("HIGH"))
        /\ Lesser(U("HIGH", h), D(d)) <= Lesser(U("HIGH", k), D(d))
    BY <1>2, <1>3, <1>4, <1>5, <1>7, <2>3
  <2>5. Lesser(U("HIGH", k), D(d)) <= Lesser(U(a, k), D(b))
    BY <1>2, <1>13
  <2>6. ~(a = "LOW" /\ b = "HIGH") /\ ~(a = "MED" /\ b = "HIGH")
    BY <1>2, <1>q, <2>2, <2>4, <2>5
  <2>7. QED
    BY <1>1, <1>8, <1>11, <1>14, <2>6 DEF A, B
<1>15. CASE A = 1
  <2> SUFFICES ASSUME B = 0 PROVE FALSE
    BY <1>1, <1>15 DEF A, B
  <2>1. c = "MED" /\ d = "HIGH" /\ a = "LOW" /\ b = "HIGH"
    BY <1>8, <1>10, <1>11, <1>15
  <2>2. Lesser(U("LOW", h), D("HIGH")) < Lesser(U("MED", h), D("HIGH"))
    <3>1. <<"LOW", "HIGH">> \notin Truest(m, h, t)
      BY <1>12, <1>15
    <3>2. Truth(m, h, t, "LOW", "HIGH") < Truth(m, h, t, c, d)
      BY <1>2, <1>10, <3>1, Beaten
    <3>3. QED
      BY <1>2, <1>6, <2>1, <3>2
  <2>3. /\ Lesser(U("MED", k), D("HIGH")) <= Lesser(U("LOW", k), D("HIGH"))
        /\ Lesser(U("HIGH", k), D("HIGH")) <= Lesser(U("LOW", k), D("HIGH"))
    BY <1>2, <1>13, <2>1
  <2>4. Lesser(U("LOW", k), D("HIGH")) <= Lesser(U("LOW", h), D("HIGH"))
    BY <1>2, <1>3, <1>4, <1>5, <1>7
  <2>5. D("HIGH") > 0
    <3>1. Lesser(U("MED", h), D("HIGH")) > 0
      BY <1>2, <1>q, <2>2
    <3>2. QED
      BY <1>2, <1>3, <1>4, <1>p, <3>1
  <2>6. ~(U("MED", h) <= U("MED", k))
    <3>1. U("MED", h) <= U("MED", k) => Lesser(U("MED", h), D("HIGH")) <= Lesser(U("MED", k), D("HIGH"))
      BY <1>2, <1>3, <1>4, <1>7
    <3>2. QED
      BY <1>2, <1>q, <2>2, <2>3, <2>4, <3>1
  <2>7. U("LOW", k) = 0 /\ (U("MED", k) > 0 \/ U("HIGH", k) > 0)
    BY <1>5, <2>6
  <2>8. Lesser(U("LOW", k), D("HIGH")) <= 0
    <3>1. ~(U("LOW", k) > 0)
      BY <2>7
    <3>2. ~(Lesser(U("LOW", k), D("HIGH")) > 0)
      BY <1>2, <1>3, <1>4, <1>p, <3>1
    <3>3. QED
      BY <1>2, <1>q, <3>2
  <2>9. Lesser(U("MED", k), D("HIGH")) > 0 \/ Lesser(U("HIGH", k), D("HIGH")) > 0
    BY <1>2, <1>3, <1>4, <1>p, <2>5, <2>7
  <2>10. QED
    BY <1>2, <1>q, <2>3, <2>8, <2>9
<1>16. CASE A = 0
  BY <1>1, <1>16 DEF A, B
<1>17. QED
  BY <1>1, <1>14, <1>15, <1>16 DEF A

\* Of two matches listened to for equally long, the one with more confidence
\* does not get the worse answer, for every step of the grid.
THEOREM MoreIsNoWorse == ScanSpec => []ConfidenceHelps
<1>1. ScanInv => ConfidenceHelps
  <2> SUFFICES ASSUME ScanInv PROVE ConfidenceHelps
    OBVIOUS
  <2> DEFINE k == Lesser(Hu + ConfStep, One)
  <2>1. mode \in Modes /\ Hu \in Int /\ dT \in Int /\ k \in Int /\ Hu <= k
    BY OneType, ScanAssumption DEF ScanInv, Lesser
  <2> HIDE DEF k
  <2>2. \/ Classify(mode, Hu, dT) = LISTENING \/ Classify(mode, k, dT) = LISTENING
        \/ Classify(mode, Hu, dT) <= Classify(mode, k, dT)
    BY <2>1, NoWorse
  <2>3. QED
    BY <2>2 DEF ConfidenceHelps, Class, k
<1>2. QED
  BY <1>1, ScanInvariant, PTL

-----------------------------------------------------------------------------
(* The states of an identification.                                        *)

\* The states of an identification.  A sum of confidences is one of as many
\* confidences as there were steps, so that the mean is a confidence.
Results == Matched(NoResults)

Accs ==
  {a \in [FIDs -> [Conf : Nat, Time : Nat, Steps : Nat]] :
     \A q \in FIDs : a[q].Conf <= a[q].Steps * One}

Entries == [FID : FIDs \cup {NoFID}, Confidence : 0..One \cup {NaN}, IdClass : Classes]

States == [lfs : 0..(Nk - 1), results : Results, acc : Accs, idMatches : Seq(Entries)]

\* What a matching step makes of results are results, and the limit once
\* reached stays reached.
LEMMA ResultsType ==
  ASSUME NEW r \in Results
  PROVE  /\ r.best \in Seq(FIDs) /\ Len(r.best) <= MaxTies
         /\ r.conf \in 0..One /\ r.big \in BOOLEAN
         /\ Matched(r) \subseteq Results
         /\ \A n \in Matched(r) : r.big => n.big
<1>1. 0 \in 0..One /\ Confs \subseteq 0..One /\ Overflows \subseteq BOOLEAN /\ MaxTies \in Nat
  BY OneType, RecognizerAssumption
<1>2. \A q \in BestLists : q \in Seq(FIDs) /\ Len(q) <= MaxTies
  BY <1>1 DEF BestLists, SeqOf
<1>3. /\ NoResults.best = <<>> /\ NoResults.conf = 0 /\ NoResults.big = FALSE
      /\ <<>> \in Seq(FIDs) /\ Len(<<>>) = 0
  BY DEF NoResults
<1>4. r = NoResults \/ r \in [best : BestLists, conf : Confs, big : Overflows]
  BY DEF Results, Matched
<1>5. r.best \in Seq(FIDs) /\ Len(r.best) <= MaxTies
  <2>1. CASE r = NoResults
    <3>1. r.best = <<>>
      BY <1>3, <2>1
    <3>2. QED
      BY <1>1, <1>3, <3>1
  <2>2. CASE r \in [best : BestLists, conf : Confs, big : Overflows]
    BY <1>2, <2>2
  <2>3. QED
    BY <1>4, <2>1, <2>2
<1>6. r.conf \in 0..One
  BY <1>1, <1>3, <1>4
<1>7. r.big \in BOOLEAN
  BY <1>1, <1>3, <1>4
<1>8. Matched(r) \subseteq Results
  BY <1>3, <1>4 DEF Results, Matched
<1>9. \A n \in Matched(r) : r.big => n.big
  BY DEF Matched
<1>10. QED
  BY <1>5, <1>6, <1>7, <1>8, <1>9

\* The mean of confidences is one.
LEMMA MeanType ==
  ASSUME NEW a \in [Conf : Nat, Time : Nat, Steps : Nat], a.Conf <= a.Steps * One
  PROVE  /\ Mean(a) \in 0..One \cup {NaN}
         /\ a.Steps > 0 => Mean(a) \in 0..One
         /\ a.Steps = 1 => Mean(a) = a.Conf
<1> DEFINE c == a.Conf
           n == a.Steps
<1>1. c \in Nat /\ n \in Nat /\ c <= n * One
  OBVIOUS
<1>2. Mean(a) = IF n = 0 THEN NaN ELSE c \div n
  BY DEF Mean
<1> HIDE DEF c, n
<1>3. ASSUME n > 0 PROVE c \div n \in 0..One
  <2> DEFINE k == c \div n
  <2>1. k \in Int /\ c - n * k \in 0..(n - 1)
    BY <1>1, <1>3
  <2>2. n \in Int /\ n >= 1
    BY <1>1, <1>3
  <2> HIDE DEF k
  <2>3. k >= 0
    <3>1. SUFFICES ASSUME k <= -1 PROVE FALSE
      BY <2>1
    <3>2. n * k <= n * (-1)
      BY <2>1, <2>2, <3>1
    <3>3. QED
      BY <1>1, <2>1, <2>2, <3>2
  <2>4. k <= One
    <3>1. SUFFICES ASSUME k >= One + 1 PROVE FALSE
      BY <2>1, OneType
    <3>2. n * k >= n * (One + 1)
      BY <2>1, <2>2, <3>1, OneType
    <3>3. n * (One + 1) = n * One + n
      BY <2>2, OneType
    <3>4. c >= n * k
      BY <1>1, <2>1, <2>2
    <3>5. QED
      BY <1>1, <2>1, <2>2, <3>2, <3>3, <3>4, OneType
  <2>5. QED
    BY <2>1, <2>3, <2>4, OneType DEF k
<1>4. n = 1 => c \div n = c
  BY <1>1
<1>5. QED
  BY <1>1, <1>2, <1>3, <1>4 DEF c, n

-----------------------------------------------------------------------------
(* The parts of a step, from states to states.                             *)

\* Results are pushed to the client and nothing else changes.
LEMMA SetMatches ==
  ASSUME NEW s \in States, NEW ms \in Seq(Entries), NEW u, u = [s EXCEPT !.idMatches = ms]
  PROVE  /\ u \in States
         /\ u.lfs = s.lfs /\ u.results = s.results /\ u.acc = s.acc /\ u.idMatches = ms
<1>1. /\ s = [lfs |-> s.lfs, results |-> s.results, acc |-> s.acc, idMatches |-> s.idMatches]
      /\ s.lfs \in 0..(Nk - 1) /\ s.results \in Results /\ s.acc \in Accs
  BY DEF States
<1>2. u = [lfs |-> s.lfs, results |-> s.results, acc |-> s.acc, idMatches |-> ms]
  BY <1>1, Zenon
<1>3. QED
  BY <1>1, <1>2 DEF States

\* Whoever is given an answer finds the best matches of now, in one class,
\* and the end marker.
LEMMA FillResultsType ==
  ASSUME NEW s \in States, NEW class \in Classes,
         NEW u, u = FillResults(s, class), NEW n, n = Len(s.results.best)
  PROVE  /\ u \in States /\ n \in Nat
         /\ u.lfs = s.lfs /\ u.results = s.results /\ u.acc = s.acc
         /\ DOMAIN u.idMatches = 1..(n + 1) /\ u.idMatches # <<>>
         /\ \A i \in 1..n :
              u.idMatches[i] = [FID |-> s.results.best[i],
                                Confidence |-> Mean(s.acc[s.results.best[i]]), IdClass |-> class]
         /\ u.idMatches[n + 1] = Null
<1> DEFINE best == s.results.best
           E(q) == [FID |-> q, Confidence |-> Mean(s.acc[q]), IdClass |-> class]
           es   == [i \in DOMAIN best |-> E(best[i])]
           ms   == Append(es, Null)
<1>1. u = [s EXCEPT !.idMatches = ms]
  BY DEF FillResults
<1>2. /\ s = [lfs |-> s.lfs, results |-> s.results, acc |-> s.acc, idMatches |-> s.idMatches]
      /\ s.lfs \in 0..(Nk - 1) /\ s.results \in Results /\ s.acc \in Accs
  BY DEF States
<1>3. best \in Seq(FIDs) /\ n \in Nat /\ DOMAIN best = 1..n
  BY <1>2, ResultsType
<1>4. \A q \in FIDs : E(q) \in Entries
  <2> SUFFICES ASSUME NEW q \in FIDs PROVE E(q) \in Entries
    OBVIOUS
  <2>1. Mean(s.acc[q]) \in 0..One \cup {NaN}
    BY <1>2, MeanType DEF Accs
  <2>2. QED
    BY <2>1 DEF Entries
<1>5. Null \in Entries
  BY OneType DEF Null, Entries, Classes, UNIDENTIFIED
<1> HIDE DEF E
<1>6. es \in Seq(Entries) /\ Len(es) = n /\ \A i \in 1..n : es[i] = E(best[i])
  BY <1>3, <1>4
<1> HIDE DEF es
<1>7. /\ ms \in Seq(Entries) /\ Len(ms) = n + 1 /\ ms[n + 1] = Null
      /\ \A i \in 1..n : ms[i] = E(best[i])
  BY <1>3, <1>5, <1>6
<1> HIDE DEF ms
<1>8. /\ u \in States /\ u.idMatches = ms
      /\ u.lfs = s.lfs /\ u.results = s.results /\ u.acc = s.acc
  BY <1>1, <1>7, SetMatches
<1>9. DOMAIN ms = 1..(n + 1) /\ ms # <<>>
  BY <1>3, <1>7
<1>10. QED
  BY <1>3, <1>7, <1>8, <1>9 DEF E

\* A failed identification has the null match for its answer.
LEMMA NoMatchType ==
  ASSUME NEW s \in States, NEW u, u = NoMatch(s)
  PROVE  /\ u \in States
         /\ u.lfs = s.lfs /\ u.results = s.results /\ u.acc = s.acc
         /\ u.idMatches = IF s.idMatches = <<>> THEN <<Null>> ELSE s.idMatches
         /\ u.idMatches # <<>>
<1> DEFINE none == <<Null>>
<1>1. Null \in Entries
  BY OneType DEF Null, Entries, Classes, UNIDENTIFIED
<1>2. none \in Seq(Entries) /\ none # <<>>
  BY <1>1
<1>3. u = IF s.idMatches = <<>> THEN [s EXCEPT !.idMatches = none] ELSE s
  BY DEF NoMatch
<1> HIDE DEF none
<1>4. CASE s.idMatches = <<>>
  <2>1. u = [s EXCEPT !.idMatches = none]
    BY <1>3, <1>4
  <2>2. /\ u \in States /\ u.idMatches = none
        /\ u.lfs = s.lfs /\ u.results = s.results /\ u.acc = s.acc
    BY <1>2, <2>1, SetMatches
  <2>3. QED
    BY <1>2, <1>4, <2>2 DEF none
<1>5. CASE s.idMatches # <<>>
  BY <1>3, <1>5
<1>6. QED
  BY <1>4, <1>5

\* A classification that ends the listening leaves an answer.
LEMMA ConcludeType ==
  ASSUME NEW s \in States, NEW class \in Classes, NEW u, u = Conclude(s, class)
  PROVE  /\ u \in States
         /\ u.lfs = s.lfs /\ u.results = s.results /\ u.acc = s.acc
         /\ s.idMatches # <<>> \/ class # LISTENING => u.idMatches # <<>>
<1>1. CASE class = LISTENING
  <2>1. u = s
    BY <1>1 DEF Conclude, LISTENING, UNIDENTIFIED
  <2>2. QED
    BY <1>1, <2>1
<1>2. CASE class = UNIDENTIFIED
  <2>1. u = NoMatch(s)
    BY <1>2 DEF Conclude, UNIDENTIFIED, LISTENING
  <2>2. QED
    BY <2>1, NoMatchType
<1>3. CASE class # LISTENING /\ class # UNIDENTIFIED
  <2>1. u = FillResults(s, class)
    BY <1>3 DEF Conclude
  <2>2. PICK n : n = Len(s.results.best)
    OBVIOUS
  <2>3. QED
    BY <2>1, <2>2, FillResultsType
<1>4. QED
  BY <1>1, <1>2, <1>3

\* Another step of evidence for a best match.
LEMMA WeighedType ==
  ASSUME NEW s \in States, NEW q \in FIDs, NEW conf \in 0..One, NEW dt \in Nat,
         NEW u, u = Weighed(s, q, conf, dt)
  PROVE  /\ u \in States
         /\ u.lfs = s.lfs /\ u.results = s.results /\ u.idMatches = s.idMatches
         /\ u.acc[q].Steps > 0
<1> DEFINE r == [Conf  |-> s.acc[q].Conf + conf, Time |-> s.acc[q].Time + dt,
                 Steps |-> s.acc[q].Steps + 1]
           a == [s.acc EXCEPT ![q] = r]
<1>1. /\ s = [lfs |-> s.lfs, results |-> s.results, acc |-> s.acc, idMatches |-> s.idMatches]
      /\ s.lfs \in 0..(Nk - 1) /\ s.results \in Results /\ s.acc \in Accs
      /\ s.idMatches \in Seq(Entries)
  BY DEF States
<1>2. u = [s EXCEPT !.acc = a]
  BY DEF Weighed
<1>3. /\ s.acc \in [FIDs -> [Conf : Nat, Time : Nat, Steps : Nat]]
      /\ \A p \in FIDs : s.acc[p].Conf <= s.acc[p].Steps * One
  BY <1>1 DEF Accs
<1>4. r \in [Conf : Nat, Time : Nat, Steps : Nat] /\ r.Steps > 0 /\ r.Conf <= r.Steps * One
  <2> DEFINE c == s.acc[q].Conf
             n == s.acc[q].Steps
  <2>1. c \in Nat /\ n \in Nat /\ s.acc[q].Time \in Nat /\ c <= n * One
    BY <1>3
  <2>2. conf \in Nat /\ conf <= One
    BY OneType
  <2>3. (n + 1) * One = n * One + One /\ n * One \in Nat
    BY <2>1, OneType
  <2>4. r.Conf = c + conf /\ r.Steps = n + 1 /\ r.Time = s.acc[q].Time + dt
    OBVIOUS
  <2>5. c + conf <= (n + 1) * One
    <3> HIDE DEF c, n
    <3>1. QED
      BY <2>1, <2>2, <2>3, OneType
  <2>6. r \in [Conf : Nat, Time : Nat, Steps : Nat]
    BY <2>1, <2>2
  <2> HIDE DEF r
  <2>7. QED
    BY <2>1, <2>4, <2>5, <2>6
<1> HIDE DEF r
<1>5. a \in Accs /\ a[q] = r
  BY <1>3, <1>4 DEF Accs
<1> HIDE DEF a
<1>6. u = [lfs |-> s.lfs, results |-> s.results, acc |-> a, idMatches |-> s.idMatches]
  BY <1>1, <1>2, Zenon
<1>7. QED
  BY <1>1, <1>4, <1>5, <1>6 DEF States

\* What the classifier makes of the evidence for a match: at the end of the
\* identification an answer, and an identification of nothing but strong
\* evidence of some duration.
LEMMA ClassOfType ==
  ASSUME idMode \in Modes, NEW s \in States, NEW q \in FIDs, s.acc[q].Steps > 0,
         NEW conf, NEW time \in Nat, NEW class, class = ClassOf(s, q, conf, time)
  PROVE  /\ class \in Classes
         /\ time >= MaxIdTime => class # LISTENING
         /\ class = IDENTIFIED =>
              /\ Mean(s.acc[q]) >= CONF[idMode].HIGH[1]
              /\ s.acc[q].Time > CDUR[idMode].MED[1] \/ time >= MaxIdTime
<1> DEFINE h == Mean(s.acc[q])
           t == Ti(s.acc[q], time)
<1>1. class = Classify(idMode, h, t)
  BY DEF ClassOf, Evidence
<1>2. s.acc[q] \in [Conf : Nat, Time : Nat, Steps : Nat] /\ s.acc[q].Conf <= s.acc[q].Steps * One
  BY DEF States, Accs
<1>3. h \in Int
  BY <1>2, MeanType, OneType
<1>4. t \in Int /\ (time >= MaxIdTime => t >= 200) /\ (t = s.acc[q].Time \/ time >= MaxIdTime)
  BY <1>2 DEF Ti, MaxIdTime
<1> HIDE DEF h, t
<1>5. class \in Classes
  BY <1>1, <1>3, <1>4, ClassOfTruest DEF Classes
<1>6. time >= MaxIdTime => class # LISTENING
  BY <1>1, <1>3, <1>4, SettledClass
<1>7. class = IDENTIFIED => h > CONF[idMode].HIGH[1] /\ t > CDUR[idMode].MED[1]
  BY <1>1, <1>3, <1>4, IdentifiedClass
<1>8. CONF[idMode].HIGH[1] \in Int
  BY ConfCorners DEF CornersInOrder
<1>9. QED
  BY <1>3, <1>4, <1>5, <1>6, <1>7, <1>8 DEF h

\* The confidence of nothing is none.
LEMMA NothingHeard ==
  ASSUME idMode \in Modes, NEW time \in Nat, NEW class, class = Classify(idMode, 0, time)
  PROVE  /\ class \in Classes /\ class # IDENTIFIED
         /\ time >= MaxIdTime => class # LISTENING
<1>1. 0 \in Int /\ time \in Int
  OBVIOUS
<1>2. class \in Classes
  BY <1>1, ClassOfTruest DEF Classes
<1>3. time >= MaxIdTime => class # LISTENING
  BY <1>1, SettledClass DEF MaxIdTime
<1>4. CONF[idMode].HIGH[1] \in Int /\ CONF[idMode].HIGH[1] > 0
  BY SMT DEF CONF, Conf, One, Modes
<1>5. class # IDENTIFIED
  <2>1. class = IDENTIFIED => 0 > CONF[idMode].HIGH[1]
    BY <1>1, IdentifiedClass
  <2>2. QED
    BY <1>4, <2>1
<1>6. QED
  BY <1>2, <1>3, <1>5

\* The best matches of a binary identification.
LEMMA BinaryBestType ==
  ASSUME NEW s \in States, NEW time \in Nat, NEW u, u = BinaryBest(s, time)
  PROVE  /\ u \in States /\ u.lfs = s.lfs /\ u.results = s.results
         /\ s.idMatches # <<>> => u.idMatches # <<>>
<1> DEFINE best == ToSet(s.results.best)
           New(q) == IF q \in best THEN [s.acc[q] EXCEPT !.Conf = s.results.conf, !.Steps = 1]
                     ELSE s.acc[q]
           a == [q \in FIDs |-> New(q)]
           v == [s EXCEPT !.acc = a]
<1>1. /\ s = [lfs |-> s.lfs, results |-> s.results, acc |-> s.acc, idMatches |-> s.idMatches]
      /\ s.lfs \in 0..(Nk - 1) /\ s.results \in Results /\ s.acc \in Accs
      /\ s.idMatches \in Seq(Entries)
  BY DEF States
<1>2. u = IF best # {} /\ Accepted(s, time) THEN FillResults(v, IDENTIFIED) ELSE v
  BY DEF BinaryBest
<1>3. a \in Accs
  <2>1. s.results.conf \in 0..One
    BY <1>1, ResultsType
  <2>2. ASSUME NEW q \in FIDs
        PROVE  New(q) \in [Conf : Nat, Time : Nat, Steps : Nat] /\ New(q).Conf <= New(q).Steps * One
    <3>1. s.acc[q] \in [Conf : Nat, Time : Nat, Steps : Nat] /\ s.acc[q].Conf <= s.acc[q].Steps * One
      BY <1>1 DEF Accs
    <3>2. [s.acc[q] EXCEPT !.Conf = s.results.conf, !.Steps = 1]
            = [Conf |-> s.results.conf, Time |-> s.acc[q].Time, Steps |-> 1]
      <4>1. PICK r \in [Conf : Nat, Time : Nat, Steps : Nat] : r = s.acc[q]
        BY <3>1
      <4> DEFINE x == s.results.conf
                 w == [r EXCEPT !.Conf = x]
      <4> HIDE DEF x
      <4>2. [r EXCEPT !.Conf = x, !.Steps = 1] = [w EXCEPT !.Steps = 1]
        OBVIOUS
      <4>3. w = [Conf |-> x, Time |-> r.Time, Steps |-> r.Steps]
        OBVIOUS
      <4> HIDE DEF w
      <4>4. [w EXCEPT !.Steps = 1] = [Conf |-> x, Time |-> r.Time, Steps |-> 1]
        BY <4>3
      <4>5. QED
        BY <4>1, <4>2, <4>4 DEF x
    <3>3. s.results.conf \in Nat /\ s.results.conf <= 1 * One
      BY <2>1, OneType
    <3>4. QED
      BY <3>1, <3>2, <3>3
  <2> HIDE DEF New
  <2>3. QED
    BY <2>2 DEF Accs
<1> HIDE DEF a
<1>4. v = [lfs |-> s.lfs, results |-> s.results, acc |-> a, idMatches |-> s.idMatches]
  BY <1>1
<1>5. /\ v \in States /\ v.lfs = s.lfs /\ v.results = s.results /\ v.idMatches = s.idMatches
  BY <1>1, <1>3, <1>4 DEF States
<1> HIDE DEF v
<1>6. IDENTIFIED \in Classes
  BY DEF IDENTIFIED, Classes
<1>7. CASE best # {} /\ Accepted(s, time)
  <2>1. u = FillResults(v, IDENTIFIED)
    BY <1>2, <1>7
  <2>2. PICK n : n = Len(v.results.best)
    OBVIOUS
  <2>3. QED
    BY <1>5, <1>6, <2>1, <2>2, FillResultsType
<1>8. CASE ~(best # {} /\ Accepted(s, time))
  <2>1. u = v
    BY <1>2, <1>8
  <2>2. QED
    BY <1>5, <2>1
<1>9. QED
  BY <1>7, <1>8

-----------------------------------------------------------------------------
(* The processing of a flush.                                              *)

\* A best match is weighed and classified, where a flush has no effect.
FlushStep(u, q, conf, dt, time) ==
  LET v == Weighed(u, q, conf, dt) IN Conclude(v, ClassOf(v, q, conf, time))

\* At the end of the identification, weighing a match gives an answer.
LEMMA FlushStepType ==
  ASSUME idMode \in Modes, NEW s \in States, NEW q \in FIDs, NEW conf \in 0..One,
         NEW dt \in Nat, NEW time \in Nat, NEW u, u = FlushStep(s, q, conf, dt, time)
  PROVE  /\ u \in States /\ u.lfs = s.lfs /\ u.results = s.results
         /\ time >= MaxIdTime => u.idMatches # <<>>
<1>1. PICK v : v = Weighed(s, q, conf, dt)
  OBVIOUS
<1>2. PICK class : class = ClassOf(v, q, conf, time)
  OBVIOUS
<1>3. u = Conclude(v, class)
  BY <1>1, <1>2 DEF FlushStep
<1>4. v \in States /\ v.lfs = s.lfs /\ v.results = s.results /\ v.acc[q].Steps > 0
  BY <1>1, WeighedType
<1>5. class \in Classes /\ (time >= MaxIdTime => class # LISTENING)
  BY <1>2, <1>4, ClassOfType
<1>6. QED
  BY <1>3, <1>4, <1>5, ConcludeType

\* The best matches one after another.
Flushed(s, dt, time) ==
  LET best == s.results.best
      after[i \in 0..Len(best)] ==
        IF i = 0 THEN s ELSE FlushStep(after[i - 1], best[i], s.results.conf, dt, time)
  IN  after

\* What one pass over the best matches makes of s, match by match.
FlushRun(s, dt, time) ==
  LET best  == s.results.best
      N     == Len(best)
      conf  == s.results.conf
      after == Flushed(s, dt, time)
  IN  /\ N \in Nat /\ after[0] = s
      /\ \A i \in 1..N : after[i] = FlushStep(after[i - 1], best[i], conf, dt, time)
      /\ \A i \in 0..N : /\ after[i] \in States
                         /\ after[i].lfs = s.lfs /\ after[i].results = s.results

\* They follow one another as states of the one identification.
LEMMA FlushSteps ==
  ASSUME idMode \in Modes, NEW s \in States, NEW dt \in Nat, NEW time \in Nat
  PROVE  FlushRun(s, dt, time)
<1> DEFINE best  == s.results.best
           N     == Len(best)
           conf  == s.results.conf
           after == Flushed(s, dt, time)
<1> DEFINE V == {v \in States : v.lfs = s.lfs /\ v.results = s.results}
           S(v, i) == FlushStep(v, best[i], conf, dt, time)
           F == [p \in (1..N) \X V |-> S(p[2], p[1])]
<1>0. best = s.results.best /\ N = Len(best) /\ conf = s.results.conf /\ after = Flushed(s, dt, time)
  OBVIOUS
<1>1. best \in Seq(FIDs) /\ conf \in 0..One
  BY ResultsType DEF States
<1>2. N \in Nat /\ s \in V /\ \A i \in 1..N : best[i] \in FIDs
  BY <1>1
<1>3. ASSUME NEW v \in V, NEW i \in 1..N PROVE S(v, i) \in V
  <2>1. PICK u : u = FlushStep(v, best[i], conf, dt, time)
    OBVIOUS
  <2>2. v \in States /\ best[i] \in FIDs /\ v.lfs = s.lfs /\ v.results = s.results
    BY <1>2
  <2>3. u \in States /\ u.lfs = v.lfs /\ u.results = v.results
    <3>1. idMode \in Modes /\ dt \in Nat /\ time \in Nat /\ conf \in 0..One
      BY <1>1
    <3>2. QED
      BY <3>1, <2>1, <2>2, FlushStepType, Z3
  <2>4. QED
    BY <2>1, <2>2, <2>3
<1> HIDE DEF S, V, best, N, conf, after
<1>4. F \in [(1..N) \X V -> V] /\ \A i \in 1..N, v \in V : F[<<i, v>>] = S(v, i)
  BY <1>3
<1> HIDE DEF F
<1>5. PICK g \in [0..N -> V] : Follows(g, N, s, F)
  BY <1>2, <1>4, RecursiveFunction
<1>6. \A i \in 0..N : i = 0 \/ (i \in 1..N /\ i - 1 \in 0..N)
  BY <1>2
<1>7. g = [i \in 0..N |-> IF i = 0 THEN s ELSE S(g[i - 1], i)]
  <2>1. \A i \in 0..N : g[i] = IF i = 0 THEN s ELSE S(g[i - 1], i)
    BY <1>4, <1>5, <1>6 DEF Follows
  <2>2. QED
    BY <1>5, <2>1
<1>8. after = CHOOSE f : f = [i \in 0..N |-> IF i = 0 THEN s ELSE S(f[i - 1], i)]
  BY DEF S, Flushed, best, N, conf, after
<1>9. after = [i \in 0..N |-> IF i = 0 THEN s ELSE S(after[i - 1], i)]
  BY <1>7, <1>8
<1>10. after[0] = s /\ \A i \in 1..N : after[i] = S(after[i - 1], i)
  <2>1. 0 \in 0..N /\ \A i \in 1..N : i \in 0..N /\ i # 0
    BY <1>2
  <2>2. QED
    BY <1>9, <2>1
<1>11. \A i \in 0..N : after[i] \in V
  <2>1. after[0] \in V /\ \A i \in 1..N : after[i - 1] \in V => after[i] = F[<<i, after[i - 1]>>]
    BY <1>2, <1>4, <1>10
  <2>2. N \in Nat /\ F \in [(1..N) \X V -> V]
    BY <1>2, <1>4
  <2>3. after[0] \in V
    BY <2>1
  <2>4. \A i \in 1..N : after[i - 1] \in V => after[i] = F[<<i, after[i - 1]>>]
    BY <2>1
  <2>5. QED
    BY ONLY <2>2, <2>3, <2>4, RecursionStays
<1>12. QED
  BY <1>2, <1>10, <1>11 DEF V, S, FlushRun, best, N, conf, after

\* The results of a flush: an answer that is there stays, and at the end of
\* the identification there is one.
LEMMA FlushedType ==
  ASSUME idType \in {"FUZZY", "BINARY"}, idMode \in Modes, NEW s \in States,
         NEW dt \in Nat, NEW time \in Nat, NEW u, u = ProcessFlushed(s, dt, time)
  PROVE  /\ u \in States /\ u.lfs = s.lfs /\ u.results = s.results
         /\ s.idMatches # <<>> => u = s
         /\ time >= MaxIdTime => u.idMatches # <<>>
<1> DEFINE best == s.results.best
           N    == Len(best)
           conf == s.results.conf
           after == Flushed(s, dt, time)
           b == BinaryBest(s, time)
           c == Classify(idMode, 0, time)
<1>1. u = CASE ~Open(s) -> s
            [] Open(s) /\ idType = "BINARY" -> IF time >= MaxIdTime THEN NoMatch(b) ELSE b
            [] Open(s) /\ idType = "FUZZY"  -> IF best = <<>> THEN Conclude(s, c) ELSE after[N]
  BY DEF ProcessFlushed, Flushed, FlushStep
<1> HIDE DEF after, b, c
<1>2. CASE ~Open(s)
  <2>1. u = s
    BY <1>1, <1>2
  <2>2. QED
    BY <1>2, <2>1 DEF Open
<1>3. CASE Open(s) /\ idType = "BINARY"
  <2>1. u = IF time >= MaxIdTime THEN NoMatch(b) ELSE b
    BY <1>1, <1>3
  <2>2. b \in States /\ b.lfs = s.lfs /\ b.results = s.results
    BY BinaryBestType DEF b
  <2>3. CASE time >= MaxIdTime
    BY <1>3, <2>1, <2>2, <2>3, NoMatchType DEF Open
  <2>4. CASE ~(time >= MaxIdTime)
    BY <1>3, <2>1, <2>2, <2>4 DEF Open
  <2>5. QED
    BY <2>3, <2>4
<1>4. CASE Open(s) /\ idType = "FUZZY"
  <2>1. u = IF best = <<>> THEN Conclude(s, c) ELSE after[N]
    BY <1>1, <1>4
  <2>2. CASE best = <<>>
    <3>1. c \in Classes /\ (time >= MaxIdTime => c # LISTENING)
      BY NothingHeard DEF c
    <3>2. u = Conclude(s, c)
      BY <2>1, <2>2
    <3>3. QED
      BY <1>4, <3>1, <3>2, ConcludeType DEF Open
  <2>3. CASE best # <<>>
    <3>1. /\ N \in Nat /\ \A i \in 1..N : after[i] = FlushStep(after[i - 1], best[i], conf, dt, time)
          /\ \A i \in 0..N : /\ after[i] \in States
                             /\ after[i].lfs = s.lfs /\ after[i].results = s.results
      <4>1. FlushRun(s, dt, time)
        BY ONLY idMode \in Modes, s \in States, dt \in Nat, time \in Nat, FlushSteps
      <4>2. QED
        BY <4>1 DEF FlushRun, after
    <3>2. best \in Seq(FIDs) /\ conf \in 0..One
      BY ResultsType DEF States
    <3>3. N \in 1..N /\ N \in 0..N /\ N - 1 \in 0..N /\ best[N] \in FIDs
      BY <2>3, <3>1, <3>2
    <3>4. u = FlushStep(after[N - 1], best[N], conf, dt, time) /\ after[N - 1] \in States
      BY <2>1, <2>3, <3>1, <3>3
    <3>5. time >= MaxIdTime => u.idMatches # <<>>
      <4>1. PICK v \in States, q \in FIDs : u = FlushStep(v, q, conf, dt, time)
        BY <3>3, <3>4
      <4>2. conf \in 0..One
        BY <3>2
      <4> HIDE DEF conf
      <4>3. /\ u \in States /\ u.lfs = v.lfs /\ u.results = v.results
            /\ time >= MaxIdTime => u.idMatches # <<>>
        BY ONLY idMode \in Modes, v \in States, q \in FIDs, dt \in Nat, time \in Nat,
                <4>1, <4>2, FlushStepType, SMTT(30)
      <4>4. QED
        BY <4>3
    <3>6. u = after[N]
      BY <2>1, <2>3
    <3>7. QED
      BY <1>4, <3>1, <3>3, <3>5, <3>6 DEF Open
  <2>4. QED
    BY <2>2, <2>3
<1>5. QED
  BY <1>2, <1>3, <1>4

\* A score near the limit counts as the time being up.
LEMMA CurTimeType ==
  ASSUME NEW s, NEW time \in Nat, NEW t, t = CurTime(s, time)
  PROVE  /\ t \in Nat /\ (time >= MaxIdTime => t >= MaxIdTime)
         /\ t >= MaxIdTime => time >= MaxIdTime \/ s.results.big
<1>1. t = time \/ (t = 200 /\ s.results.big)
  BY DEF CurTime, MaxIdTime
<1>2. QED
  BY <1>1 DEF MaxIdTime

\* What a flush may find.
IsFlush(fl, r) == fl.results \in Matched(r) /\ fl.time \in Nat

\* A flush leaves an answer alone; past the limit what it finds is one.
LEMMA FlushToType ==
  ASSUME idType \in {"FUZZY", "BINARY"}, idMode \in Modes, NEW s \in States, NEW time \in Nat,
         NEW fl, IsFlush(fl, s.results), NEW u, u = FlushTo(fl, s, time)
  PROVE  /\ u \in States /\ u.results \in {s.results, fl.results}
         /\ s.idMatches # <<>> => u.idMatches = s.idMatches /\ u.acc = s.acc
         /\ time >= MaxIdTime /\ u.results # s.results => u.idMatches # <<>>
<1>1. PICK v : v = [s EXCEPT !.lfs = 0, !.results = fl.results]
  OBVIOUS
<1>2. u = IF s.lfs < 2 THEN s ELSE ProcessFlushed(v, fl.time, CurTime(v, time))
  BY <1>1 DEF FlushTo
<1>3. /\ s = [lfs |-> s.lfs, results |-> s.results, acc |-> s.acc, idMatches |-> s.idMatches]
      /\ s.results \in Results /\ s.acc \in Accs /\ s.idMatches \in Seq(Entries)
  BY DEF States
<1>4. v = [lfs |-> 0, results |-> fl.results, acc |-> s.acc, idMatches |-> s.idMatches]
  BY <1>1, <1>3, Zenon
<1>5. fl.results \in Results /\ fl.time \in Nat
  BY <1>3, ResultsType DEF IsFlush
<1>6. 0 \in 0..(Nk - 1)
  BY RecognizerAssumption
<1>7. v \in States /\ v.results = fl.results /\ v.acc = s.acc /\ v.idMatches = s.idMatches
  BY <1>3, <1>4, <1>5, <1>6 DEF States
<1>8. CASE s.lfs < 2
  <2>1. u = s
    BY <1>2, <1>8
  <2>2. QED
    BY <2>1
<1>9. CASE ~(s.lfs < 2)
  <2>1. PICK t : t = CurTime(v, time)
    OBVIOUS
  <2>2. t \in Nat /\ (time >= MaxIdTime => t >= MaxIdTime)
    BY <2>1, CurTimeType
  <2>3. PICK d : d = fl.time
    OBVIOUS
  <2>4. u = ProcessFlushed(v, d, t) /\ d \in Nat
    BY <1>2, <1>5, <1>9, <2>1, <2>3
  <2>5. idType \in {"FUZZY", "BINARY"} /\ idMode \in Modes /\ v \in States
    BY <1>7
  <2>6. u \in States /\ u.results = v.results
    BY ONLY <2>2, <2>4, <2>5, FlushedType, Z3T(30)
  <2>7. v.idMatches # <<>> => u = v
    BY ONLY <2>2, <2>4, <2>5, FlushedType, Z3
  <2>8. t >= MaxIdTime => u.idMatches # <<>>
    BY ONLY <2>2, <2>4, <2>5, FlushedType, Z3
  <2>9. QED
    BY <1>7, <2>2, <2>6, <2>7, <2>8
<1>10. QED
  BY <1>8, <1>9

-----------------------------------------------------------------------------
(* The processing of a matching step.                                      *)

\* A classification that ends the listening, with the flush it may make.
LEMMA DoClassificationType ==
  ASSUME idType \in {"FUZZY", "BINARY"}, idMode \in Modes, NEW s \in States,
         NEW class \in Classes, NEW time \in Nat,
         NEW fl, IsFlush(fl, s.results), NEW u, u = DoClassification(s, class, time, fl)
  PROVE  /\ u \in States /\ u.results \in {s.results, fl.results}
         /\ s.idMatches # <<>> \/ class # LISTENING => u.idMatches # <<>>
<1>1. CASE class = UNIDENTIFIED
  <2>1. PICK v : v = FlushTo(fl, s, time)
    OBVIOUS
  <2>2. u = NoMatch(v)
    BY <1>1, <2>1 DEF DoClassification
  <2>3. v \in States /\ v.results \in {s.results, fl.results}
    BY <2>1, FlushToType
  <2>4. QED
    BY <2>2, <2>3, NoMatchType
<1>2. CASE class # UNIDENTIFIED
  <2>1. u = Conclude(s, class)
    BY <1>2 DEF DoClassification
  <2>2. QED
    BY <2>1, ConcludeType
<1>3. QED
  BY <1>1, <1>2

\* A best match is weighed and classified.
FuzzyStep(u, q, conf, dt, time, fl) ==
  LET v == Weighed(u, q, conf, dt) IN DoClassification(v, ClassOf(v, q, conf, time), time, fl)

\* At the end of the identification, weighing a match gives an answer.
LEMMA FuzzyStepType ==
  ASSUME idType \in {"FUZZY", "BINARY"}, idMode \in Modes, NEW s \in States,
         NEW q \in FIDs, NEW conf \in 0..One, NEW dt \in Nat, NEW time \in Nat,
         NEW fl, IsFlush(fl, s.results), NEW u, u = FuzzyStep(s, q, conf, dt, time, fl)
  PROVE  /\ u \in States /\ u.results \in {s.results, fl.results}
         /\ time >= MaxIdTime => u.idMatches # <<>>
<1>1. PICK v : v = Weighed(s, q, conf, dt)
  OBVIOUS
<1>2. PICK class : class = ClassOf(v, q, conf, time)
  OBVIOUS
<1>3. u = DoClassification(v, class, time, fl)
  BY <1>1, <1>2 DEF FuzzyStep
<1>4. v \in States /\ v.results = s.results /\ v.acc[q].Steps > 0
  BY <1>1, WeighedType
<1>5. class \in Classes /\ (time >= MaxIdTime => class # LISTENING)
  BY <1>2, <1>4, ClassOfType
<1>6. /\ u \in States /\ u.results \in {v.results, fl.results}
      /\ class # LISTENING => u.idMatches # <<>>
  <2>1. IsFlush(fl, v.results)
    BY <1>4
  <2>2. idType \in {"FUZZY", "BINARY"} /\ idMode \in Modes /\ time \in Nat
    OBVIOUS
  <2>3. v \in States /\ class \in Classes
    BY <1>4, <1>5
  <2>4. QED
    BY ONLY <1>3, <2>1, <2>2, <2>3, DoClassificationType
<1>7. QED
  BY <1>4, <1>5, <1>6

\* The best matches one after another.
Processed(s, dt, time, fl) ==
  LET best == s.results.best
      after[i \in 0..Len(best)] ==
        IF i = 0 THEN s ELSE FuzzyStep(after[i - 1], best[i], s.results.conf, dt, time, fl)
  IN  after

\* What one pass over the best matches makes of s, match by match.
FuzzyRun(s, dt, time, fl) ==
  LET best  == s.results.best
      N     == Len(best)
      conf  == s.results.conf
      after == Processed(s, dt, time, fl)
  IN  /\ N \in Nat /\ after[0] = s
      /\ \A i \in 1..N : after[i] = FuzzyStep(after[i - 1], best[i], conf, dt, time, fl)
      /\ \A i \in 0..N : after[i] \in States
      /\ \A i \in 0..N : after[i].results \in {s.results, fl.results}

\* They follow one another as states of the one identification.
LEMMA FuzzySteps ==
  ASSUME idType \in {"FUZZY", "BINARY"}, idMode \in Modes, NEW s \in States,
         NEW dt \in Nat, NEW time \in Nat, NEW fl, IsFlush(fl, s.results)
  PROVE  FuzzyRun(s, dt, time, fl)
<1> DEFINE best  == s.results.best
           N     == Len(best)
           conf  == s.results.conf
           after == Processed(s, dt, time, fl)
<1> DEFINE V == {v \in States : v.results \in {s.results, fl.results}}
           S(v, i) == FuzzyStep(v, best[i], conf, dt, time, fl)
           F == [p \in (1..N) \X V |-> S(p[2], p[1])]
<1>0. best = s.results.best /\ N = Len(best) /\ conf = s.results.conf /\ after = Processed(s, dt, time, fl)
  OBVIOUS
<1>1. best \in Seq(FIDs) /\ conf \in 0..One
  BY ResultsType DEF States
<1>2. N \in Nat /\ s \in V /\ \A i \in 1..N : best[i] \in FIDs
  BY <1>1
<1>3. ASSUME NEW v \in V, NEW i \in 1..N PROVE S(v, i) \in V
  <2>1. PICK u : u = FuzzyStep(v, best[i], conf, dt, time, fl)
    OBVIOUS
  <2>2. v \in States /\ best[i] \in FIDs /\ v.results \in {s.results, fl.results}
    BY <1>2
  <2>3. IsFlush(fl, v.results)
    BY <2>2 DEF IsFlush, Matched
  <2>4. PICK q \in FIDs : q = best[i]
    BY <2>2
  <2>5. u = FuzzyStep(v, q, conf, dt, time, fl)
    BY <2>1, <2>4
  <2>6. idType \in {"FUZZY", "BINARY"} /\ idMode \in Modes /\ dt \in Nat /\ time \in Nat
    OBVIOUS
  <2>7. v \in States /\ q \in FIDs /\ conf \in 0..One
    BY <1>1, <2>2
  <2>8. u \in States /\ u.results \in {v.results, fl.results}
    BY ONLY <2>3, <2>5, <2>6, <2>7, FuzzyStepType
  <2>9. QED
    BY <2>1, <2>2, <2>8
<1> HIDE DEF S, V, best, N, conf, after
<1>4. F \in [(1..N) \X V -> V] /\ \A i \in 1..N, v \in V : F[<<i, v>>] = S(v, i)
  BY <1>3
<1> HIDE DEF F
<1>5. PICK g \in [0..N -> V] : Follows(g, N, s, F)
  BY <1>2, <1>4, RecursiveFunction
<1>6. \A i \in 0..N : i = 0 \/ (i \in 1..N /\ i - 1 \in 0..N)
  BY <1>2
<1>7. g = [i \in 0..N |-> IF i = 0 THEN s ELSE S(g[i - 1], i)]
  <2>1. \A i \in 0..N : g[i] = IF i = 0 THEN s ELSE S(g[i - 1], i)
    BY <1>4, <1>5, <1>6 DEF Follows
  <2>2. QED
    BY <1>5, <2>1
<1>8. after = CHOOSE f : f = [i \in 0..N |-> IF i = 0 THEN s ELSE S(f[i - 1], i)]
  BY DEF S, Processed, best, N, conf, after
<1>9. after = [i \in 0..N |-> IF i = 0 THEN s ELSE S(after[i - 1], i)]
  BY <1>7, <1>8
<1>10. after[0] = s /\ \A i \in 1..N : after[i] = S(after[i - 1], i)
  <2>1. 0 \in 0..N /\ \A i \in 1..N : i \in 0..N /\ i # 0
    BY <1>2
  <2>2. QED
    BY <1>9, <2>1
<1>11. \A i \in 0..N : after[i] \in V
  <2>1. after[0] \in V
    BY <1>2, <1>10
  <2>2. \A i \in 1..N : after[i - 1] \in V => after[i] = F[<<i, after[i - 1]>>]
    BY <1>4, <1>10
  <2>3. N \in Nat /\ F \in [(1..N) \X V -> V]
    BY <1>2, <1>4
  <2>4. QED
    BY ONLY <2>1, <2>2, <2>3, RecursionStays
<1>12. QED
  BY <1>2, <1>10, <1>11 DEF V, S, FuzzyRun, best, N, conf, after

\* The end of the time is the end of a fuzzy identification.
LEMMA FuzzyType ==
  ASSUME idType \in {"FUZZY", "BINARY"}, idMode \in Modes, NEW s \in States,
         NEW processed \in BOOLEAN, NEW dt \in Nat, NEW time \in Nat,
         NEW fl, IsFlush(fl, s.results), NEW u, u = Fuzzy(s, processed, dt, time, fl)
  PROVE  /\ u \in States /\ u.results \in {s.results, fl.results}
         /\ time >= MaxIdTime => u.idMatches # <<>>
<1> DEFINE best == s.results.best
           N    == Len(best)
           conf == s.results.conf
           after == Processed(s, dt, time, fl)
           c == Classify(idMode, 0, time)
<1>1. u = IF processed /\ best # <<>> THEN after[N] ELSE DoClassification(s, c, time, fl)
  BY DEF Fuzzy, Processed, FuzzyStep
<1> HIDE DEF after, c
<1>2. idType \in {"FUZZY", "BINARY"} /\ idMode \in Modes /\ s \in States /\ dt \in Nat
      /\ time \in Nat /\ IsFlush(fl, s.results)
  OBVIOUS
<1>3. CASE processed /\ best # <<>>
  <2>1. /\ N \in Nat
        /\ \A i \in 1..N : after[i] = FuzzyStep(after[i - 1], best[i], conf, dt, time, fl)
        /\ \A i \in 0..N : after[i] \in States /\ after[i].results \in {s.results, fl.results}
    <3>1. FuzzyRun(s, dt, time, fl)
      BY ONLY idType \in {"FUZZY", "BINARY"}, idMode \in Modes, s \in States, dt \in Nat,
              time \in Nat, IsFlush(fl, s.results), FuzzySteps
    <3>2. QED
      BY <3>1 DEF FuzzyRun, after
  <2>2. best \in Seq(FIDs) /\ conf \in 0..One
    BY ResultsType DEF States
  <2>3. N \in 1..N /\ N \in 0..N /\ N - 1 \in 0..N /\ best[N] \in FIDs
    BY <1>3, <2>1, <2>2
  <2>4. u = FuzzyStep(after[N - 1], best[N], conf, dt, time, fl) /\ u = after[N]
    BY <1>1, <1>3, <2>1, <2>3
  <2>5. time >= MaxIdTime => u.idMatches # <<>>
    <3>1. PICK v, q : v = after[N - 1] /\ q = best[N]
      OBVIOUS
    <3>2. v \in States /\ v.results \in {s.results, fl.results} /\ q \in FIDs
      BY <2>1, <2>3, <3>1
    <3>3. u = FuzzyStep(v, q, conf, dt, time, fl)
      BY <2>4, <3>1
    <3>4. IsFlush(fl, v.results)
      BY <3>2 DEF IsFlush, Matched
    <3>5. conf \in 0..One
      BY <2>2
    <3> HIDE DEF conf
    <3>6. QED
      BY ONLY <1>2, <3>2, <3>3, <3>4, <3>5, FuzzyStepType
  <2>6. QED
    BY <2>1, <2>3, <2>4, <2>5
<1>4. CASE ~(processed /\ best # <<>>)
  <2>1. u = DoClassification(s, c, time, fl)
    BY <1>1, <1>4
  <2>2. c \in Classes /\ (time >= MaxIdTime => c # LISTENING)
    BY NothingHeard DEF c
  <2>3. QED
    BY ONLY <1>2, <2>1, <2>2, DoClassificationType
<1>5. QED
  BY <1>3, <1>4

\* New match results are the end of a binary identification when time is up.
LEMMA BinaryType ==
  ASSUME idType \in {"FUZZY", "BINARY"}, idMode \in Modes, NEW s \in States,
         NEW processed \in BOOLEAN, NEW time \in Nat,
         NEW fl, IsFlush(fl, s.results), NEW u, u = Binary(s, processed, time, fl)
  PROVE  /\ u \in States /\ u.results \in {s.results, fl.results}
         /\ ~processed => u = s
         /\ processed /\ time >= MaxIdTime => u.idMatches # <<>>
<1>1. CASE ~processed
  <2>1. u = s
    BY <1>1 DEF Binary
  <2>2. QED
    BY <1>1, <2>1
<1>2. CASE processed
  <2>1. PICK b : b = BinaryBest(s, time)
    OBVIOUS
  <2>2. b \in States /\ b.results = s.results
    BY <2>1, BinaryBestType
  <2>3. u = IF time >= MaxIdTime /\ Open(b) THEN NoMatch(FlushTo(fl, b, time)) ELSE b
    BY <1>2, <2>1 DEF Binary
  <2>4. CASE time >= MaxIdTime /\ Open(b)
    <3>1. PICK v : v = FlushTo(fl, b, time)
      OBVIOUS
    <3>2. u = NoMatch(v)
      BY <2>3, <2>4, <3>1
    <3>3. IsFlush(fl, b.results)
      BY <2>2
    <3>4. v \in States /\ v.results \in {s.results, fl.results}
      BY <2>2, <3>1, <3>3, FlushToType
    <3>5. QED
      BY <1>2, <3>2, <3>4, NoMatchType
  <2>5. CASE ~(time >= MaxIdTime /\ Open(b))
    BY <1>2, <2>2, <2>3, <2>5 DEF Open
  <2>6. QED
    BY <2>4, <2>5
<1>3. QED
  BY <1>1, <1>2

\* A call of the client with its audio.
LEMMA ProcessType ==
  ASSUME idType \in {"FUZZY", "BINARY"}, idMode \in Modes, NEW s \in States,
         NEW processed \in BOOLEAN, NEW dt \in Nat, NEW time \in Nat,
         NEW fl, IsFlush(fl, s.results),
         NEW u, u = ProcessMatchResults(s, processed, dt, time, fl)
  PROVE  /\ u \in States /\ u.results \in {s.results, fl.results}
         /\ s.idMatches # <<>> => u = s
         /\ idType = "FUZZY" /\ time >= MaxIdTime => u.idMatches # <<>>
         /\ processed /\ time >= MaxIdTime => u.idMatches # <<>>
         /\ idType = "BINARY" /\ ~processed => u.results = s.results
<1>1. PICK t : t = CurTime(s, time)
  OBVIOUS
<1>2. t \in Nat /\ (time >= MaxIdTime => t >= MaxIdTime)
  BY <1>1, CurTimeType
<1>3. u = CASE ~Open(s) -> s
            [] Open(s) /\ idType = "FUZZY"  -> Fuzzy(s, processed, dt, t, fl)
            [] Open(s) /\ idType = "BINARY" -> Binary(s, processed, t, fl)
  BY <1>1 DEF ProcessMatchResults
<1>4. CASE ~Open(s)
  <2>1. u = s
    BY <1>3, <1>4
  <2>2. QED
    BY <1>4, <2>1 DEF Open
<1>5. CASE Open(s) /\ idType = "FUZZY"
  <2>1. u = Fuzzy(s, processed, dt, t, fl)
    BY <1>3, <1>5
  <2>2. /\ u \in States /\ u.results \in {s.results, fl.results}
        /\ t >= MaxIdTime => u.idMatches # <<>>
    BY <1>2, <2>1, FuzzyType
  <2>3. QED
    BY <1>2, <1>5, <2>2 DEF Open
<1>6. CASE Open(s) /\ idType = "BINARY"
  <2>1. u = Binary(s, processed, t, fl)
    BY <1>3, <1>6
  <2>2. /\ u \in States /\ u.results \in {s.results, fl.results}
        /\ ~processed => u = s
        /\ processed /\ t >= MaxIdTime => u.idMatches # <<>>
    BY <1>2, <2>1, BinaryType
  <2>3. QED
    BY <1>2, <1>6, <2>2 DEF Open
<1>7. QED
  BY <1>4, <1>5, <1>6

-----------------------------------------------------------------------------
(* The strength of an answer, when a fuzzy identification has but one best *)
(* match.                                                                  *)

OneBest == idType = "FUZZY" => MaxTies <= 1

\* What IDENTIFIED takes: a confidence, and in a fuzzy identification some
\* time of evidence, unless the time is up.
Threshold == IF idType = "BINARY" THEN BinaryIdThreshold ELSE CONF[idMode].HIGH[1]

LongEnough(s, q, time) ==
  idType = "FUZZY" => s.acc[q].Time > CDUR[idMode].MED[1] \/ time >= MaxIdTime \/ s.results.big

Strong(s, time) ==
  \A i \in DOMAIN s.idMatches :
    s.idMatches[i].IdClass = IDENTIFIED =>
      s.idMatches[i].Confidence >= Threshold /\ LongEnough(s, s.idMatches[i].FID, time)

\* An answer that has not been given is not weak.
LEMMA NoAnswer == ASSUME NEW s, s.idMatches = <<>>, NEW time PROVE Strong(s, time)
BY DEF Strong

\* An answer is strong that lists nothing but what has the strength.
LEMMA FilledStrong ==
  ASSUME NEW s \in States, NEW class \in Classes, NEW time, NEW n, n = Len(s.results.best),
         class = IDENTIFIED =>
           \A i \in 1..n : /\ Mean(s.acc[s.results.best[i]]) >= Threshold
                           /\ LongEnough(s, s.results.best[i], time),
         NEW u, u = FillResults(s, class)
  PROVE  Strong(u, time)
<1>1. /\ n \in Nat /\ u.results = s.results /\ u.acc = s.acc
      /\ DOMAIN u.idMatches = 1..(n + 1)
      /\ \A i \in 1..n :
           u.idMatches[i] = [FID |-> s.results.best[i],
                             Confidence |-> Mean(s.acc[s.results.best[i]]), IdClass |-> class]
      /\ u.idMatches[n + 1] = Null
  BY FillResultsType
<1>2. Null.IdClass # IDENTIFIED
  BY DEF Null, UNIDENTIFIED, IDENTIFIED
<1> SUFFICES ASSUME NEW i \in DOMAIN u.idMatches, u.idMatches[i].IdClass = IDENTIFIED
             PROVE  u.idMatches[i].Confidence >= Threshold /\ LongEnough(u, u.idMatches[i].FID, time)
  BY DEF Strong
<1>3. i \in 1..n
  BY <1>1, <1>2
<1>4. PICK q : q = s.results.best[i]
  OBVIOUS
<1>5. u.idMatches[i] = [FID |-> q, Confidence |-> Mean(s.acc[q]), IdClass |-> class]
  BY <1>1, <1>3, <1>4
<1>6. class = IDENTIFIED /\ u.idMatches[i].Confidence = Mean(s.acc[q]) /\ u.idMatches[i].FID = q
  BY <1>5
<1>7. Mean(s.acc[q]) >= Threshold /\ LongEnough(s, q, time)
  BY <1>3, <1>4, <1>6
<1>8. QED
  BY <1>1, <1>6, <1>7 DEF LongEnough

\* The null match takes no strength.
LEMMA NoMatchStrong ==
  ASSUME NEW s \in States, NEW time, Strong(s, time), NEW u, u = NoMatch(s)
  PROVE  Strong(u, time)
<1>1. /\ u.results = s.results /\ u.acc = s.acc
      /\ u.idMatches = IF s.idMatches = <<>> THEN <<Null>> ELSE s.idMatches
  BY NoMatchType
<1>2. CASE s.idMatches = <<>>
  <2>1. u.idMatches = <<Null>>
    BY <1>1, <1>2
  <2>2. Null.IdClass # IDENTIFIED
    BY DEF Null, UNIDENTIFIED, IDENTIFIED
  <2>3. \A i \in DOMAIN u.idMatches : u.idMatches[i] = Null
    BY <2>1
  <2>4. QED
    BY <2>2, <2>3 DEF Strong
<1>3. CASE s.idMatches # <<>>
  <2>1. u.idMatches = s.idMatches
    BY <1>1, <1>3
  <2>2. QED
    BY <1>1, <2>1 DEF Strong, LongEnough
<1>4. QED
  BY <1>2, <1>3

\* A score near the limit may stand for the time.
LEMMA StrongWhenBig ==
  ASSUME NEW s, NEW t, NEW time, Strong(s, t),
         t >= MaxIdTime => time >= MaxIdTime \/ s.results.big
  PROVE  Strong(s, time)
BY DEF Strong, LongEnough

\* The one best match has been classified: its strength is the answer's.
LEMMA ConcludeStrong ==
  ASSUME MaxTies <= 1, idType = "FUZZY", idMode \in Modes, NEW s \in States, s.idMatches = <<>>,
         NEW q \in FIDs, s.acc[q].Steps > 0, \A i \in DOMAIN s.results.best : s.results.best[i] = q,
         NEW conf, NEW time \in Nat, NEW class, class = ClassOf(s, q, conf, time),
         NEW u, u = Conclude(s, class)
  PROVE  Strong(u, time)
<1>1. /\ class \in Classes
      /\ class = IDENTIFIED =>
           /\ Mean(s.acc[q]) >= CONF[idMode].HIGH[1]
           /\ s.acc[q].Time > CDUR[idMode].MED[1] \/ time >= MaxIdTime
  BY ClassOfType
<1>2. Strong(s, time)
  BY NoAnswer
<1>3. CASE class = LISTENING
  <2>1. u = s
    BY <1>3 DEF Conclude, LISTENING, UNIDENTIFIED
  <2>2. QED
    BY <1>2, <2>1
<1>4. CASE class = UNIDENTIFIED
  <2>1. u = NoMatch(s)
    BY <1>4 DEF Conclude, UNIDENTIFIED, LISTENING
  <2>2. QED
    BY <1>2, <2>1, NoMatchStrong
<1>5. CASE class # LISTENING /\ class # UNIDENTIFIED
  <2>1. u = FillResults(s, class)
    BY <1>5 DEF Conclude
  <2>2. PICK n : n = Len(s.results.best)
    OBVIOUS
  <2>3. class = IDENTIFIED => Mean(s.acc[q]) >= Threshold /\ LongEnough(s, q, time)
    BY <1>1 DEF Threshold, LongEnough
  <2>4. s.results.best \in Seq(FIDs)
    BY ResultsType DEF States
  <2>5. \A i \in 1..n : s.results.best[i] = q
    BY <2>2, <2>4
  <2>6. QED
    BY <1>1, <2>1, <2>2, <2>3, <2>5, FilledStrong
<1>6. QED
  BY <1>3, <1>4, <1>5

\* The confidence of nothing identifies nothing.
LEMMA NothingStrong ==
  ASSUME idMode \in Modes, NEW s \in States, s.idMatches = <<>>, NEW time \in Nat,
         NEW class, class = Classify(idMode, 0, time), NEW u, u = Conclude(s, class)
  PROVE  Strong(u, time)
<1>1. class \in Classes /\ class # IDENTIFIED
  BY NothingHeard
<1>2. Strong(s, time)
  BY NoAnswer
<1>3. CASE class = LISTENING
  <2>1. u = s
    BY <1>3 DEF Conclude, LISTENING, UNIDENTIFIED
  <2>2. QED
    BY <1>2, <2>1
<1>4. CASE class = UNIDENTIFIED
  <2>1. u = NoMatch(s)
    BY <1>4 DEF Conclude, UNIDENTIFIED, LISTENING
  <2>2. QED
    BY <1>2, <2>1, NoMatchStrong
<1>5. CASE class # LISTENING /\ class # UNIDENTIFIED
  <2>1. u = FillResults(s, class)
    BY <1>5 DEF Conclude
  <2>2. PICK n : n = Len(s.results.best)
    OBVIOUS
  <2>3. QED
    BY <1>1, <2>1, <2>2, FilledStrong
<1>6. QED
  BY <1>3, <1>4, <1>5

\* A binary identification lists best matches of the last confidence, which
\* has reached the threshold.
LEMMA BinaryBestStrong ==
  ASSUME idType = "BINARY", NEW s \in States, s.idMatches = <<>>, NEW time \in Nat,
         NEW u, u = BinaryBest(s, time)
  PROVE  Strong(u, time)
<1> DEFINE best == ToSet(s.results.best)
           conf == s.results.conf
           New(q) == IF q \in best THEN [s.acc[q] EXCEPT !.Conf = conf, !.Steps = 1]
                     ELSE s.acc[q]
           a == [q \in FIDs |-> New(q)]
           v == [s EXCEPT !.acc = a]
<1>1. /\ s = [lfs |-> s.lfs, results |-> s.results, acc |-> s.acc, idMatches |-> s.idMatches]
      /\ s.lfs \in 0..(Nk - 1) /\ s.results \in Results /\ s.acc \in Accs
      /\ s.idMatches \in Seq(Entries)
  BY DEF States
<1>2. u = IF best # {} /\ Accepted(s, time) THEN FillResults(v, IDENTIFIED) ELSE v
  BY DEF BinaryBest
<1>3. conf \in 0..One /\ s.results.best \in Seq(FIDs)
  BY <1>1, ResultsType
<1>4. ASSUME NEW q \in FIDs
      PROVE  /\ New(q) \in [Conf : Nat, Time : Nat, Steps : Nat] /\ New(q).Conf <= New(q).Steps * One
             /\ q \in best => New(q).Conf = conf /\ New(q).Steps = 1
  <2>1. s.acc[q] \in [Conf : Nat, Time : Nat, Steps : Nat] /\ s.acc[q].Conf <= s.acc[q].Steps * One
    BY <1>1 DEF Accs
  <2>2. [s.acc[q] EXCEPT !.Conf = conf, !.Steps = 1]
          = [Conf |-> conf, Time |-> s.acc[q].Time, Steps |-> 1]
    <3>1. PICK r \in [Conf : Nat, Time : Nat, Steps : Nat] : r = s.acc[q]
      BY <2>1
    <3> DEFINE w == [r EXCEPT !.Conf = conf]
    <3> HIDE DEF conf
    <3>2. [r EXCEPT !.Conf = conf, !.Steps = 1] = [w EXCEPT !.Steps = 1]
      OBVIOUS
    <3>3. w = [Conf |-> conf, Time |-> r.Time, Steps |-> r.Steps]
      OBVIOUS
    <3> HIDE DEF w
    <3>4. [w EXCEPT !.Steps = 1] = [Conf |-> conf, Time |-> r.Time, Steps |-> 1]
      BY <3>3
    <3>5. QED
      BY <3>1, <3>2, <3>4
  <2>3. conf \in Nat /\ conf <= 1 * One
    BY <1>3, OneType
  <2> HIDE DEF best, conf
  <2>4. CASE q \in best
    <3>1. New(q) = [Conf |-> conf, Time |-> s.acc[q].Time, Steps |-> 1]
      BY <2>2, <2>4
    <3>2. QED
      BY <2>1, <2>3, <2>4, <3>1
  <2>5. CASE q \notin best
    BY <2>1, <2>5
  <2>6. QED
    BY <2>4, <2>5
<1> HIDE DEF New, conf
<1>5. a \in Accs /\ \A q \in FIDs : a[q] = New(q)
  BY <1>4 DEF Accs
<1> HIDE DEF a
<1>6. v = [lfs |-> s.lfs, results |-> s.results, acc |-> a, idMatches |-> s.idMatches]
  BY <1>1
<1>7. v \in States /\ v.results = s.results /\ v.idMatches = <<>> /\ v.acc = a
  BY <1>1, <1>5, <1>6 DEF States
<1> HIDE DEF v
<1>8. CASE best # {} /\ Accepted(s, time)
  <2>1. u = FillResults(v, IDENTIFIED)
    BY <1>2, <1>8
  <2>2. PICK n : n = Len(v.results.best)
    OBVIOUS
  <2>3. ASSUME NEW i \in 1..n
        PROVE  Mean(v.acc[v.results.best[i]]) >= Threshold /\ LongEnough(v, v.results.best[i], time)
    <3>1. PICK q : q = v.results.best[i]
      OBVIOUS
    <3>2. q \in FIDs /\ q \in best
      BY <1>3, <1>7, <2>2, <3>1 DEF ToSet
    <3>3. Mean(v.acc[q]) = conf
      <4>1. PICK r : r = New(q)
        OBVIOUS
      <4>2. r \in [Conf : Nat, Time : Nat, Steps : Nat] /\ r.Conf <= r.Steps * One
            /\ r.Conf = conf /\ r.Steps = 1
        BY <1>4, <3>2, <4>1
      <4>3. Mean(r) = conf
        BY <4>2, MeanType
      <4>4. QED
        BY <1>5, <1>7, <3>2, <4>1, <4>3
    <3>4. conf >= Threshold
      BY <1>8 DEF Accepted, Threshold, conf
    <3>5. QED
      BY <3>1, <3>3, <3>4 DEF LongEnough
  <2>4. IDENTIFIED \in Classes
    BY DEF IDENTIFIED, Classes
  <2>5. QED
    BY <1>7, <2>1, <2>2, <2>3, <2>4, FilledStrong
<1>9. CASE ~(best # {} /\ Accepted(s, time))
  <2>1. u = v
    BY <1>2, <1>9
  <2>2. QED
    BY <1>7, <2>1, NoAnswer
<1>10. QED
  BY <1>8, <1>9

\* The one best match, weighed and classified.
LEMMA FlushStepStrong ==
  ASSUME MaxTies <= 1, idType = "FUZZY", idMode \in Modes, NEW s \in States, s.idMatches = <<>>,
         NEW q \in FIDs, \A i \in DOMAIN s.results.best : s.results.best[i] = q,
         NEW conf \in 0..One, NEW dt \in Nat, NEW time \in Nat,
         NEW u, u = FlushStep(s, q, conf, dt, time)
  PROVE  Strong(u, time)
<1>1. PICK v : v = Weighed(s, q, conf, dt)
  OBVIOUS
<1>2. PICK class : class = ClassOf(v, q, conf, time)
  OBVIOUS
<1>3. u = Conclude(v, class)
  BY <1>1, <1>2 DEF FlushStep
<1>4. v \in States /\ v.results = s.results /\ v.idMatches = s.idMatches /\ v.acc[q].Steps > 0
  BY <1>1, WeighedType
<1>5. v.idMatches = <<>> /\ \A i \in DOMAIN v.results.best : v.results.best[i] = q
  BY <1>4
<1>6. QED
  BY <1>2, <1>3, <1>4, <1>5, ConcludeStrong

\* The results of a flush.
LEMMA FlushedStrong ==
  ASSUME OneBest, idType \in {"FUZZY", "BINARY"}, idMode \in Modes, NEW s \in States,
         NEW dt \in Nat, NEW time \in Nat, Strong(s, time),
         NEW u, u = ProcessFlushed(s, dt, time)
  PROVE  Strong(u, time)
<1> DEFINE best == s.results.best
           N    == Len(best)
           conf == s.results.conf
           after == Flushed(s, dt, time)
           b == BinaryBest(s, time)
           c == Classify(idMode, 0, time)
<1>1. u = CASE ~Open(s) -> s
            [] Open(s) /\ idType = "BINARY" -> IF time >= MaxIdTime THEN NoMatch(b) ELSE b
            [] Open(s) /\ idType = "FUZZY"  -> IF best = <<>> THEN Conclude(s, c) ELSE after[N]
  BY DEF ProcessFlushed, Flushed, FlushStep
<1> HIDE DEF after, b, c
<1>2. CASE ~Open(s)
  BY <1>1, <1>2
<1>3. CASE Open(s) /\ idType = "BINARY"
  <2>1. u = IF time >= MaxIdTime THEN NoMatch(b) ELSE b
    BY <1>1, <1>3
  <2>2. b \in States
    BY BinaryBestType DEF b
  <2>3. Strong(b, time)
    BY <1>3, BinaryBestStrong DEF b, Open
  <2>4. QED
    BY <2>1, <2>2, <2>3, NoMatchStrong
<1>4. CASE Open(s) /\ idType = "FUZZY"
  <2>1. u = IF best = <<>> THEN Conclude(s, c) ELSE after[N]
    BY <1>1, <1>4
  <2>2. CASE best = <<>>
    <3>1. u = Conclude(s, c)
      BY <2>1, <2>2
    <3>2. QED
      BY <1>4, <3>1, NothingStrong DEF c, Open
  <2>3. CASE best # <<>>
    <3>1. N = 1 /\ best[1] \in FIDs /\ DOMAIN best = {1} /\ conf \in 0..One
      <4>1. best \in Seq(FIDs) /\ N <= MaxTies /\ conf \in 0..One
        BY ResultsType DEF States
      <4>2. MaxTies \in Nat
        BY RecognizerAssumption
      <4>3. MaxTies <= 1
        BY <1>4 DEF OneBest
      <4> HIDE DEF best
      <4>4. N \in Nat /\ DOMAIN best = 1..N
        BY <4>1
      <4>5. N # 0
        BY <2>3, <4>1
      <4>6. N = 1
        BY <4>1, <4>2, <4>3, <4>4, <4>5
      <4> HIDE DEF N, conf
      <4>7. DOMAIN best = {1}
        BY <4>4, <4>6
      <4>8. best[1] \in FIDs
        BY <4>1, <4>7
      <4>9. QED
        BY <4>1, <4>6, <4>7, <4>8
    <3>2. after[0] = s /\ \A i \in 1..N : after[i] = FlushStep(after[i - 1], best[i], conf, dt, time)
      <4>1. FlushRun(s, dt, time)
        BY ONLY idMode \in Modes, s \in States, dt \in Nat, time \in Nat, FlushSteps
      <4>2. QED
        BY <4>1 DEF FlushRun, after
    <3>3. PICK q : q = best[1]
      OBVIOUS
    <3>4. u = FlushStep(s, q, conf, dt, time)
      <4>1. 1 \in 1..N /\ 1 - 1 = 0
        BY <3>1
      <4>2. u = after[1]
        BY <2>1, <2>3, <3>1
      <4> HIDE DEF N, best, conf
      <4>3. QED
        BY <3>2, <3>3, <4>1, <4>2
    <3>5. q \in FIDs /\ \A i \in DOMAIN s.results.best : s.results.best[i] = q
      BY <3>1, <3>3
    <3>6. conf \in 0..One /\ s.idMatches = <<>> /\ idType = "FUZZY"
      BY <1>4, <3>1 DEF Open
    <3>7. MaxTies <= 1 /\ idMode \in Modes /\ s \in States /\ dt \in Nat /\ time \in Nat
      BY <1>4 DEF OneBest
    <3> HIDE DEF conf
    <3>8. QED
      BY ONLY <3>4, <3>5, <3>6, <3>7, FlushStepStrong
  <2>4. QED
    BY <2>2, <2>3
<1>5. QED
  BY <1>2, <1>3, <1>4

\* A flush leaves a limit that was reached, and an answer strong.
LEMMA FlushToStrong ==
  ASSUME OneBest, idType \in {"FUZZY", "BINARY"}, idMode \in Modes, NEW s \in States,
         NEW time \in Nat, Strong(s, time), NEW fl, IsFlush(fl, s.results),
         NEW u, u = FlushTo(fl, s, time)
  PROVE  Strong(u, time) /\ (s.results.big => u.results.big)
<1>1. PICK v : v = [s EXCEPT !.lfs = 0, !.results = fl.results]
  OBVIOUS
<1>2. u = IF s.lfs < 2 THEN s ELSE ProcessFlushed(v, fl.time, CurTime(v, time))
  BY <1>1 DEF FlushTo
<1>3. /\ s = [lfs |-> s.lfs, results |-> s.results, acc |-> s.acc, idMatches |-> s.idMatches]
      /\ s.results \in Results /\ s.acc \in Accs /\ s.idMatches \in Seq(Entries)
  BY DEF States
<1>4. v = [lfs |-> 0, results |-> fl.results, acc |-> s.acc, idMatches |-> s.idMatches]
  BY <1>1, <1>3, Zenon
<1>5. fl.results \in Results /\ fl.time \in Nat /\ (s.results.big => fl.results.big)
  BY <1>3, ResultsType DEF IsFlush
<1>6. 0 \in 0..(Nk - 1)
  BY RecognizerAssumption
<1>7. v \in States /\ v.results = fl.results /\ v.acc = s.acc /\ v.idMatches = s.idMatches
  BY <1>3, <1>4, <1>5, <1>6 DEF States
<1>8. CASE s.lfs < 2
  <2>1. u = s
    BY <1>2, <1>8
  <2>2. QED
    BY <2>1
<1>9. CASE ~(s.lfs < 2)
  <2>1. PICK t : t = CurTime(v, time)
    OBVIOUS
  <2>2. /\ t \in Nat /\ (time >= MaxIdTime => t >= MaxIdTime)
        /\ t >= MaxIdTime => time >= MaxIdTime \/ v.results.big
    BY <2>1, CurTimeType
  <2>3. PICK d : d = fl.time
    OBVIOUS
  <2>4. u = ProcessFlushed(v, d, t) /\ d \in Nat
    BY <1>2, <1>5, <1>9, <2>1, <2>3
  <2>5. idType \in {"FUZZY", "BINARY"} /\ idMode \in Modes /\ v \in States /\ OneBest
    BY <1>7
  <2>6. Strong(v, t)
    BY <1>5, <1>7, <2>2 DEF Strong, LongEnough
  <2>7. Strong(u, t)
    BY ONLY <2>2, <2>4, <2>5, <2>6, FlushedStrong
  <2>8. u.results = v.results
    BY ONLY <2>2, <2>4, <2>5, FlushedType, Z3T(30)
  <2>9. Strong(u, time)
    BY <2>2, <2>7, <2>8, StrongWhenBig
  <2>10. QED
    BY <1>5, <1>7, <2>8, <2>9
<1>10. QED
  BY <1>8, <1>9

\* The one best match, weighed and classified; if the classification gives
\* up, whatever the flush then finds.
LEMMA FuzzyStepStrong ==
  ASSUME MaxTies <= 1, idType = "FUZZY", idMode \in Modes, NEW s \in States, s.idMatches = <<>>,
         NEW q \in FIDs, \A i \in DOMAIN s.results.best : s.results.best[i] = q,
         NEW conf \in 0..One, NEW dt \in Nat, NEW time \in Nat,
         NEW fl, IsFlush(fl, s.results), NEW u, u = FuzzyStep(s, q, conf, dt, time, fl)
  PROVE  Strong(u, time)
<1>1. PICK v : v = Weighed(s, q, conf, dt)
  OBVIOUS
<1>2. PICK class : class = ClassOf(v, q, conf, time)
  OBVIOUS
<1>3. u = IF class = UNIDENTIFIED THEN NoMatch(FlushTo(fl, v, time)) ELSE Conclude(v, class)
  BY <1>1, <1>2 DEF FuzzyStep, DoClassification
<1>4. v \in States /\ v.results = s.results /\ v.idMatches = s.idMatches /\ v.acc[q].Steps > 0
  BY <1>1, WeighedType
<1>5. v.idMatches = <<>> /\ \A i \in DOMAIN v.results.best : v.results.best[i] = q
  BY <1>4
<1>6. CASE class = UNIDENTIFIED
  <2>1. PICK w : w = FlushTo(fl, v, time)
    OBVIOUS
  <2>2. u = NoMatch(w)
    BY <1>3, <1>6, <2>1
  <2>3. IsFlush(fl, v.results) /\ Strong(v, time) /\ OneBest
    BY <1>4, <1>5, NoAnswer DEF OneBest
  <2>4. w \in States /\ Strong(w, time)
    BY <1>4, <2>1, <2>3, FlushToType, FlushToStrong
  <2>5. QED
    BY <2>2, <2>4, NoMatchStrong
<1>7. CASE class # UNIDENTIFIED
  <2>1. u = Conclude(v, class)
    BY <1>3, <1>7
  <2>2. QED
    BY <1>2, <1>4, <1>5, <2>1, ConcludeStrong
<1>8. QED
  BY <1>6, <1>7

\* A matching step of a fuzzy identification.
LEMMA FuzzyStrong ==
  ASSUME MaxTies <= 1, idType = "FUZZY", idMode \in Modes, NEW s \in States, s.idMatches = <<>>,
         NEW processed \in BOOLEAN, NEW dt \in Nat, NEW time \in Nat,
         NEW fl, IsFlush(fl, s.results), NEW u, u = Fuzzy(s, processed, dt, time, fl)
  PROVE  Strong(u, time)
<1> DEFINE best == s.results.best
           N    == Len(best)
           conf == s.results.conf
           after == Processed(s, dt, time, fl)
           c == Classify(idMode, 0, time)
<1>1. u = IF processed /\ best # <<>> THEN after[N] ELSE DoClassification(s, c, time, fl)
  BY DEF Fuzzy, Processed, FuzzyStep
<1> HIDE DEF after, c
<1>2. /\ MaxTies <= 1 /\ OneBest /\ idType = "FUZZY" /\ idType \in {"FUZZY", "BINARY"} /\ idMode \in Modes
      /\ s \in States /\ dt \in Nat /\ time \in Nat /\ IsFlush(fl, s.results)
  BY DEF OneBest
<1>3. CASE processed /\ best # <<>>
  <2>1. N = 1 /\ best[1] \in FIDs /\ DOMAIN best = {1} /\ conf \in 0..One
    <3>1. best \in Seq(FIDs) /\ N <= MaxTies /\ conf \in 0..One
      BY ResultsType DEF States
    <3>2. MaxTies \in Nat
      BY RecognizerAssumption
    <3>3. MaxTies <= 1
      OBVIOUS
    <3> HIDE DEF best
    <3>4. N \in Nat /\ DOMAIN best = 1..N
      BY <3>1
    <3>5. N # 0
      BY <1>3, <3>1
    <3>6. N = 1
      BY <3>1, <3>2, <3>3, <3>4, <3>5
    <3> HIDE DEF N, conf
    <3>7. DOMAIN best = {1}
      BY <3>4, <3>6
    <3>8. best[1] \in FIDs
      BY <3>1, <3>7, SMTT(30)
    <3>9. QED
      BY <3>1, <3>6, <3>7, <3>8
  <2>2. after[0] = s /\ \A i \in 1..N : after[i] = FuzzyStep(after[i - 1], best[i], conf, dt, time, fl)
    <3>1. FuzzyRun(s, dt, time, fl)
      BY ONLY idType \in {"FUZZY", "BINARY"}, idMode \in Modes, s \in States, dt \in Nat,
              time \in Nat, IsFlush(fl, s.results), FuzzySteps
    <3>2. QED
      BY <3>1 DEF FuzzyRun, after
  <2>3. PICK q : q = best[1]
    OBVIOUS
  <2>4. u = FuzzyStep(s, q, conf, dt, time, fl)
    <3>1. 1 \in 1..N /\ 1 - 1 = 0
      BY <2>1
    <3>2. u = after[1]
      BY <1>1, <1>3, <2>1
    <3> HIDE DEF N, best, conf
    <3>3. QED
      BY <2>2, <2>3, <3>1, <3>2
  <2>5. q \in FIDs /\ \A i \in DOMAIN s.results.best : s.results.best[i] = q
    BY <2>1, <2>3
  <2>6. conf \in 0..One /\ s.idMatches = <<>>
    BY <2>1
  <2> HIDE DEF conf
  <2>7. QED
    BY ONLY <1>2, <2>4, <2>5, <2>6, FuzzyStepStrong
<1>4. CASE ~(processed /\ best # <<>>)
  <2>1. u = IF c = UNIDENTIFIED THEN NoMatch(FlushTo(fl, s, time)) ELSE Conclude(s, c)
    BY <1>1, <1>4 DEF DoClassification
  <2>2. CASE c = UNIDENTIFIED
    <3>1. PICK w : w = FlushTo(fl, s, time)
      OBVIOUS
    <3>2. u = NoMatch(w)
      BY <2>1, <2>2, <3>1
    <3>3. Strong(s, time)
      BY NoAnswer
    <3>4. w \in States
      BY ONLY <1>2, <3>1, FlushToType
    <3>5. Strong(w, time)
      BY ONLY <1>2, <3>1, <3>3, FlushToStrong
    <3>6. QED
      BY <3>2, <3>4, <3>5, NoMatchStrong
  <2>3. CASE c # UNIDENTIFIED
    <3>1. u = Conclude(s, c)
      BY <2>1, <2>3
    <3>2. QED
      BY <3>1, NothingStrong DEF c
  <2>4. QED
    BY <2>2, <2>3
<1>5. QED
  BY <1>3, <1>4

\* A matching step of a binary identification.
LEMMA BinaryStrong ==
  ASSUME idType = "BINARY", idMode \in Modes, NEW s \in States, s.idMatches = <<>>,
         NEW processed \in BOOLEAN, NEW time \in Nat,
         NEW fl, IsFlush(fl, s.results), NEW u, u = Binary(s, processed, time, fl)
  PROVE  Strong(u, time)
<1>1. CASE ~processed
  <2>1. u = s
    BY <1>1 DEF Binary
  <2>2. QED
    BY <2>1, NoAnswer
<1>2. CASE processed
  <2>1. PICK b : b = BinaryBest(s, time)
    OBVIOUS
  <2>2. b \in States /\ b.results = s.results /\ Strong(b, time)
    BY <2>1, BinaryBestType, BinaryBestStrong
  <2>3. u = IF time >= MaxIdTime /\ Open(b) THEN NoMatch(FlushTo(fl, b, time)) ELSE b
    BY <1>2, <2>1 DEF Binary
  <2>4. CASE time >= MaxIdTime /\ Open(b)
    <3>1. PICK v : v = FlushTo(fl, b, time)
      OBVIOUS
    <3>2. u = NoMatch(v)
      BY <2>3, <2>4, <3>1
    <3>3. IsFlush(fl, b.results) /\ idType \in {"FUZZY", "BINARY"} /\ OneBest
      BY <2>2 DEF OneBest
    <3>4. v \in States /\ Strong(v, time)
      BY <2>2, <3>1, <3>3, FlushToType, FlushToStrong
    <3>5. QED
      BY <3>2, <3>4, NoMatchStrong
  <2>5. CASE ~(time >= MaxIdTime /\ Open(b))
    BY <2>2, <2>3, <2>5
  <2>6. QED
    BY <2>4, <2>5
<1>3. QED
  BY <1>1, <1>2

\* A call of the client with its audio.
LEMMA ProcessStrong ==
  ASSUME OneBest, idType \in {"FUZZY", "BINARY"}, idMode \in Modes, NEW s \in States,
         NEW processed \in BOOLEAN, NEW dt \in Nat, NEW time \in Nat, Strong(s, time),
         NEW fl, IsFlush(fl, s.results),
         NEW u, u = ProcessMatchResults(s, processed, dt, time, fl)
  PROVE  Strong(u, time)
<1>1. PICK t : t = CurTime(s, time)
  OBVIOUS
<1>2. t \in Nat /\ (t >= MaxIdTime => time >= MaxIdTime \/ s.results.big)
  BY <1>1, CurTimeType
<1>3. u = CASE ~Open(s) -> s
            [] Open(s) /\ idType = "FUZZY"  -> Fuzzy(s, processed, dt, t, fl)
            [] Open(s) /\ idType = "BINARY" -> Binary(s, processed, t, fl)
  BY <1>1 DEF ProcessMatchResults
<1>4. CASE ~Open(s)
  BY <1>3, <1>4
<1>5. s.results.big => u.results.big
  <2>1. u.results \in {s.results, fl.results}
    BY ProcessType
  <2>2. s.results \in Results
    BY DEF States
  <2>3. s.results.big => fl.results.big
    BY <2>2, ResultsType DEF IsFlush
  <2>4. QED
    BY <2>1, <2>3
<1>6. t >= MaxIdTime => time >= MaxIdTime \/ u.results.big
  BY <1>2, <1>5
<1>7. CASE Open(s) /\ idType = "FUZZY"
  <2>1. u = Fuzzy(s, processed, dt, t, fl) /\ s.idMatches = <<>>
    BY <1>3, <1>7 DEF Open
  <2>2. Strong(u, t)
    BY <1>2, <1>7, <2>1, FuzzyStrong DEF OneBest
  <2>3. QED
    BY <1>6, <2>2, StrongWhenBig
<1>8. CASE Open(s) /\ idType = "BINARY"
  <2>1. u = Binary(s, processed, t, fl) /\ s.idMatches = <<>>
    BY <1>3, <1>8 DEF Open
  <2>2. Strong(u, t)
    BY <1>2, <1>8, <2>1, BinaryStrong
  <2>3. QED
    BY <1>6, <2>2, StrongWhenBig
<1>9. QED
  BY <1>4, <1>7, <1>8

-----------------------------------------------------------------------------
(* The client's calls.                                                     *)

\* Nothing has been heard when no time has passed, and a fuzzy identification
\* whose time is up has its answer.
RecInv ==
  /\ idType \in Types /\ idMode \in IdModes /\ idTime \in Nat
  /\ State \in States
  /\ idTime = 0 => lfs = 0 /\ idMatches = <<>>
  /\ idType = "FUZZY" /\ idTime >= MaxIdTime => idMatches # <<>>

\* What a step may do: the first results after the limit are an answer, and
\* an answer stays until the reset.
Ends == idTime' >= MaxIdTime /\ results' # results => idMatches' # <<>>

Stands == idMatches # <<>> /\ idMatches' # idMatches => idMatches' = <<>> /\ idTime' = 0

\* The state of the variables.
LEMMA StateFields ==
  /\ State.lfs = lfs /\ State.results = results /\ State.acc = acc /\ State.idMatches = idMatches
BY DEF State

\* The state of the variables after a step.
LEMMA BecomesState == ASSUME NEW s \in States, Becomes(s) PROVE State' = s /\ State' \in States
<1>1. s = [lfs |-> s.lfs, results |-> s.results, acc |-> s.acc, idMatches |-> s.idMatches]
  BY DEF States
<1>2. State' = [lfs |-> lfs', results |-> results', acc |-> acc', idMatches |-> idMatches']
  BY DEF State
<1>3. QED
  BY <1>1, <1>2 DEF Becomes

\* A new identification.
LEMMA FreshState == Fresh \in States
<1>1. 0 \in 0..(Nk - 1) /\ NoResults \in Results /\ <<>> \in Seq(Entries)
  BY RecognizerAssumption DEF Results, Matched
<1>2. NoAcc \in Accs
  BY OneType DEF NoAcc, Accs
<1>3. QED
  BY <1>1, <1>2 DEF Fresh, States

\* The first identification is a new one.
LEMMA RecInit == Init => RecInv
<1> SUFFICES ASSUME Init PROVE RecInv
  OBVIOUS
<1>1. State = Fresh
  BY DEF Init, State, Fresh
<1>2. State \in States
  BY <1>1, FreshState
<1>3. QED
  BY <1>2 DEF Init, RecInv, MaxIdTime

\* What a call of Identify processes: the matcher's results of now, and those
\* a flush may find.
LEMMA IdentifyCall ==
  ASSUME RecInv, NEW n \in Extracted, Identify(n)
  PROVE  \E u \in States, s \in States, steps \in BOOLEAN : \E fl :
           /\ u.results \in Matched(results) /\ (~steps => u.results = results)
           /\ u.acc = acc /\ u.idMatches = idMatches /\ IsFlush(fl, u.results)
           /\ s = ProcessMatchResults(u, steps, Duration, idTime', fl) /\ Becomes(s)
<1> DEFINE left  == (lfs + n) % Nk
           steps == lfs + n >= Nk
<1>1. PICK time : time = idTime + Duration
  OBVIOUS
<1>2. PICK now \in IF steps THEN Matched(results) ELSE {results} :
        \E fl \in IF left < 2 \/ idMatches # <<>> THEN {[results |-> now, time |-> 0]}
                  ELSE Flushes(now) :
          \E s \in {ProcessMatchResults([State EXCEPT !.lfs = left, !.results = now],
                                        steps, Duration, time, fl)} : Becomes(s)
  BY <1>1 DEF Identify
<1>3. PICK fl \in IF left < 2 \/ idMatches # <<>> THEN {[results |-> now, time |-> 0]}
                  ELSE Flushes(now) :
        \E s \in {ProcessMatchResults([State EXCEPT !.lfs = left, !.results = now],
                                      steps, Duration, time, fl)} : Becomes(s)
  BY <1>2
<1>4. PICK u : u = [State EXCEPT !.lfs = left, !.results = now]
  OBVIOUS
<1>5. PICK s : s = ProcessMatchResults(u, steps, Duration, time, fl) /\ Becomes(s)
  BY <1>3, <1>4
<1>6. /\ idType \in {"FUZZY", "BINARY"} /\ idMode \in Modes /\ Duration \in Nat
      /\ Nk \in Nat /\ Nk > 0 /\ n \in Nat /\ idTime \in Nat /\ FlushTimes \subseteq Nat
  BY RecognizerAssumption DEF RecInv
<1>7. lfs \in 0..(Nk - 1) /\ results \in Results /\ acc \in Accs /\ idMatches \in Seq(Entries)
  BY StateFields DEF RecInv, States
<1>8. left \in 0..(Nk - 1) /\ time \in Nat /\ steps \in BOOLEAN
  BY <1>1, <1>6, <1>7
<1> HIDE DEF left, steps
<1>9. now \in Matched(results) /\ (~steps => now = results)
  BY <1>2 DEF Matched
<1>10. now \in Results
  BY <1>7, <1>9, ResultsType
<1>11. u = [lfs |-> left, results |-> now, acc |-> acc, idMatches |-> idMatches]
  BY <1>4, Zenon DEF State
<1>12. u \in States /\ u.results = now /\ u.acc = acc /\ u.idMatches = idMatches
  BY <1>7, <1>8, <1>10, <1>11 DEF States
<1>13. IsFlush(fl, u.results)
  <2>1. now \in Matched(now) /\ 0 \in Nat
    BY DEF Matched
  <2>2. CASE left < 2 \/ idMatches # <<>>
    <3>1. fl = [results |-> now, time |-> 0]
      BY <1>3, <2>2
    <3>2. QED
      BY <1>12, <2>1, <3>1 DEF IsFlush
  <2>3. CASE ~(left < 2 \/ idMatches # <<>>)
    <3>1. fl \in Flushes(now)
      BY <1>3, <2>3
    <3>2. QED
      BY <1>6, <1>12, <3>1 DEF IsFlush, Flushes
  <2>4. QED
    BY <2>2, <2>3
<1>14. s \in States
  BY <1>5, <1>6, <1>8, <1>12, <1>13, ProcessType
<1>15. idTime' = time
  BY <1>1 DEF Identify
<1>16. QED
  BY <1>5, <1>8, <1>9, <1>12, <1>13, <1>14, <1>15

\* A call with audio.
LEMMA IdentifyStep ==
  ASSUME RecInv, NEW n \in Extracted, Identify(n)
  PROVE  RecInv' /\ Ends /\ Stands
<1>1. PICK u \in States, s \in States, steps \in BOOLEAN : \E fl :
        /\ u.results \in Matched(results) /\ (~steps => u.results = results)
        /\ u.acc = acc /\ u.idMatches = idMatches /\ IsFlush(fl, u.results)
        /\ s = ProcessMatchResults(u, steps, Duration, idTime', fl) /\ Becomes(s)
  BY IdentifyCall
<1>2. PICK fl :
        /\ u.results \in Matched(results) /\ (~steps => u.results = results)
        /\ u.acc = acc /\ u.idMatches = idMatches /\ IsFlush(fl, u.results)
        /\ s = ProcessMatchResults(u, steps, Duration, idTime', fl) /\ Becomes(s)
  BY <1>1
<1>3. idTime' = idTime + Duration /\ idType' = idType /\ idMode' = idMode
  BY DEF Identify
<1>4. /\ idType \in {"FUZZY", "BINARY"} /\ idMode \in Modes /\ Duration \in Nat /\ Duration > 0
      /\ idTime \in Nat
  BY RecognizerAssumption DEF RecInv
<1>5. PICK time \in Nat : time = idTime' /\ time > 0
  BY <1>3, <1>4
<1>6. s = ProcessMatchResults(u, steps, Duration, time, fl)
  BY <1>2, <1>5
<1>7. /\ u.idMatches # <<>> => s = u
      /\ idType = "FUZZY" /\ time >= MaxIdTime => s.idMatches # <<>>
      /\ steps /\ time >= MaxIdTime => s.idMatches # <<>>
      /\ idType = "BINARY" /\ ~steps => s.results = u.results
  BY <1>2, <1>4, <1>6, ProcessType
<1>8. State' \in States /\ results' = s.results /\ idMatches' = s.idMatches
  BY <1>2, BecomesState DEF Becomes
<1>9. RecInv'
  BY <1>3, <1>5, <1>7, <1>8 DEF RecInv
<1>10. Ends
  BY <1>2, <1>4, <1>5, <1>7, <1>8 DEF Ends
<1>11. Stands
  BY <1>2, <1>7, <1>8 DEF Stands
<1>12. QED
  BY <1>9, <1>10, <1>11

\* A flush.
LEMMA FlushPreserves ==
  ASSUME RecInv, Flush
  PROVE  RecInv' /\ Ends /\ Stands
<1>1. PICK fl \in Flushes(results) : \E s \in {FlushTo(fl, State, idTime)} : Becomes(s)
  BY DEF Flush
<1>2. PICK s : s = FlushTo(fl, State, idTime) /\ Becomes(s)
  BY <1>1
<1>3. /\ idType \in {"FUZZY", "BINARY"} /\ idMode \in Modes
      /\ idTime \in Nat /\ FlushTimes \subseteq Nat
  BY RecognizerAssumption DEF RecInv
<1>4. PICK u : u = State
  OBVIOUS
<1>5. u \in States /\ u.results = results /\ u.idMatches = idMatches
  BY <1>4, StateFields DEF RecInv
<1>6. IsFlush(fl, u.results)
  BY <1>1, <1>3, <1>5 DEF Flushes, IsFlush
<1>7. s = FlushTo(fl, u, idTime)
  BY <1>2, <1>4
<1>8. /\ s \in States
      /\ u.idMatches # <<>> => s.idMatches = u.idMatches
      /\ idTime >= MaxIdTime /\ s.results # u.results => s.idMatches # <<>>
  BY <1>3, <1>5, <1>6, <1>7, FlushToType
<1>9. State' \in States /\ results' = s.results /\ idMatches' = s.idMatches
  BY <1>2, <1>8, BecomesState DEF Becomes
<1>10. idTime' = idTime /\ idType' = idType /\ idMode' = idMode /\ lfs >= 2
  BY DEF Flush
<1>11. idTime # 0
  BY <1>10 DEF RecInv
<1>12. RecInv'
  BY <1>3, <1>5, <1>8, <1>9, <1>10, <1>11 DEF RecInv
<1>13. Ends
  BY <1>5, <1>8, <1>9, <1>10 DEF Ends
<1>14. Stands
  BY <1>5, <1>8, <1>9 DEF Stands
<1>15. QED
  BY <1>12, <1>13, <1>14

\* Every call keeps the invariant, and an answer.
LEMMA RecStep == RecInv /\ [Next]_vars => RecInv' /\ (Ends \/ UNCHANGED vars) /\ (Stands \/ UNCHANGED vars)
<1> SUFFICES ASSUME RecInv, [Next]_vars
             PROVE  RecInv' /\ (Ends \/ UNCHANGED vars) /\ (Stands \/ UNCHANGED vars)
  OBVIOUS
<1>1. CASE \E n \in Extracted : Identify(n)
  BY <1>1, IdentifyStep
<1>2. CASE Flush
  BY <1>2, FlushPreserves
<1>3. CASE Reset
  <2>1. Becomes(Fresh) /\ idTime' = 0 /\ idType' = idType /\ idMode' = idMode
    BY <1>3 DEF Reset
  <2>2. State' \in States
    BY <2>1, FreshState, BecomesState
  <2>3. lfs' = 0 /\ idMatches' = <<>>
    BY <2>1 DEF Becomes, Fresh
  <2>4. ~(0 >= MaxIdTime)
    BY DEF MaxIdTime
  <2>5. RecInv' /\ Ends /\ Stands
    BY <2>1, <2>2, <2>3, <2>4 DEF RecInv, Ends, Stands
  <2>6. QED
    BY <2>5
<1>4. CASE \E type \in Types, m \in IdModes : Configure(type, m)
  <2>1. PICK type \in Types, m \in IdModes : Configure(type, m)
    BY <1>4
  <2>2. /\ idTime = 0 /\ idType' = type /\ idMode' = m /\ idTime' = idTime
        /\ lfs' = lfs /\ results' = results /\ acc' = acc /\ idMatches' = idMatches
    BY <2>1 DEF Configure
  <2>3. State' = State
    BY <2>2 DEF State
  <2>4. ~(0 >= MaxIdTime)
    BY DEF MaxIdTime
  <2>5. RecInv' /\ Ends /\ Stands
    BY <2>2, <2>3, <2>4 DEF RecInv, Ends, Stands
  <2>6. QED
    BY <2>5
<1>5. CASE UNCHANGED vars
  <2>1. State' = State
    BY <1>5 DEF vars, State
  <2>2. QED
    BY <1>5, <2>1 DEF vars, RecInv
<1>6. QED
  BY <1>1, <1>2, <1>3, <1>4, <1>5 DEF Next

\* So it holds always.
LEMMA RecInvariant == Spec => []RecInv
BY RecInit, RecStep, PTL DEF Spec

\* With one best match, the answer given is strong.
StrongAnswer == Strong(State, idTime)

\* An answer stays as strong as it was: with time and with greater scores.
LEMMA StaysStrong ==
  ASSUME NEW s, NEW t \in Nat, Strong(s, t), NEW u, u.idMatches = s.idMatches, u.acc = s.acc,
         s.results.big => u.results.big, NEW time \in Nat, t <= time
  PROVE  Strong(u, time)
BY DEF Strong, LongEnough, MaxIdTime

\* Every call leaves a strong answer or none.
LEMMA StrongStep ==
  ASSUME MaxTies <= 1 \/ "FUZZY" \notin Types, RecInv, StrongAnswer, [Next]_vars
  PROVE  StrongAnswer'
<1> USE DEF StrongAnswer
<1>1. /\ idType \in {"FUZZY", "BINARY"} /\ idMode \in Modes /\ Duration \in Nat
      /\ idTime \in Nat /\ FlushTimes \subseteq Nat /\ State \in States /\ OneBest
  BY RecognizerAssumption DEF RecInv, OneBest
<1>2. ASSUME NEW s \in States, Becomes(s), Strong(s, idTime'), idType' = idType, idMode' = idMode
      PROVE  Strong(State, idTime)'
  <2>1. State' = s
    BY <1>2, BecomesState
  <2>2. Threshold' = Threshold
    BY <1>2 DEF Threshold
  <2>3. QED
    BY <1>2, <2>1, <2>2 DEF Strong, LongEnough
<1>3. ASSUME idMatches' = <<>> PROVE Strong(State, idTime)'
  BY <1>3 DEF Strong, State
<1>4. CASE \E n \in Extracted : Identify(n)
  <2>1. PICK n \in Extracted : Identify(n)
    BY <1>4
  <2>2. PICK u \in States, s \in States, steps \in BOOLEAN : \E fl :
          /\ u.results \in Matched(results) /\ (~steps => u.results = results)
          /\ u.acc = acc /\ u.idMatches = idMatches /\ IsFlush(fl, u.results)
          /\ s = ProcessMatchResults(u, steps, Duration, idTime', fl) /\ Becomes(s)
    BY <2>1, IdentifyCall
  <2>3. PICK fl :
          /\ u.results \in Matched(results) /\ (~steps => u.results = results)
          /\ u.acc = acc /\ u.idMatches = idMatches /\ IsFlush(fl, u.results)
          /\ s = ProcessMatchResults(u, steps, Duration, idTime', fl) /\ Becomes(s)
    BY <2>2
  <2>4. idTime' = idTime + Duration /\ idType' = idType /\ idMode' = idMode
    BY <2>1 DEF Identify
  <2>5. PICK time \in Nat : time = idTime' /\ idTime <= time
    BY <1>1, <2>4
  <2>6. Strong(u, time)
    <3>1. results \in Results
      BY <1>1, StateFields DEF States
    <3>2. State.results.big => u.results.big
      BY <2>3, <3>1, StateFields, ResultsType
    <3>3. u.idMatches = State.idMatches /\ u.acc = State.acc
      BY <2>3, StateFields
    <3>4. QED
      BY <1>1, <2>5, <3>2, <3>3, StaysStrong
  <2>7. s = ProcessMatchResults(u, steps, Duration, time, fl) /\ IsFlush(fl, u.results)
    BY <2>3, <2>5
  <2>8. Strong(s, time)
    BY <1>1, <2>6, <2>7, ProcessStrong
  <2>9. QED
    BY <1>2, <2>3, <2>4, <2>5, <2>8
<1>5. CASE Flush
  <2>1. PICK fl \in Flushes(results) : \E s \in {FlushTo(fl, State, idTime)} : Becomes(s)
    BY <1>5 DEF Flush
  <2>2. PICK s : s = FlushTo(fl, State, idTime) /\ Becomes(s)
    BY <2>1
  <2>3. PICK u \in States : u = State
    BY <1>1
  <2>4. IsFlush(fl, u.results)
    BY <1>1, <2>1, <2>3, StateFields DEF Flushes, IsFlush
  <2>5. s = FlushTo(fl, u, idTime) /\ Strong(u, idTime)
    BY <2>2, <2>3
  <2>6. s \in States /\ Strong(s, idTime)
    BY <1>1, <2>4, <2>5, FlushToType, FlushToStrong
  <2>7. idTime' = idTime /\ idType' = idType /\ idMode' = idMode
    BY <1>5 DEF Flush
  <2>8. QED
    BY <1>2, <2>2, <2>6, <2>7
<1>6. CASE Reset
  <2>1. idMatches' = <<>>
    BY <1>6 DEF Reset, Becomes, Fresh
  <2>2. QED
    BY <1>3, <2>1
<1>7. CASE \E type \in Types, m \in IdModes : Configure(type, m)
  <2>1. idTime = 0 /\ idMatches' = idMatches
    BY <1>7 DEF Configure
  <2>2. QED
    BY <1>3, <2>1 DEF RecInv
<1>8. CASE UNCHANGED vars
  <2>1. State' = State /\ idTime' = idTime /\ Threshold' = Threshold /\ idType' = idType /\ idMode' = idMode
    BY <1>8 DEF vars, State, Threshold
  <2>2. QED
    BY <2>1 DEF Strong, LongEnough
<1>9. QED
  BY <1>4, <1>5, <1>6, <1>7, <1>8 DEF Next

-----------------------------------------------------------------------------
(* Theorems.                                                               *)

\* Every variable keeps its type; in particular every confidence given to
\* the client is one, or the 0/0 of a match without evidence.
THEOREM RecognizerTypes == Spec => []TypeOK
<1>1. RecInv => TypeOK
  <2> SUFFICES ASSUME RecInv PROVE TypeOK
    OBVIOUS
  <2>1. lfs \in 0..(Nk - 1) /\ results \in Results /\ acc \in Accs /\ idMatches \in Seq(Entries)
    BY StateFields DEF RecInv, States
  <2>2. QED
    BY <2>1 DEF TypeOK, RecInv, Results, Accs, Entries
<1>2. QED
  BY <1>1, RecInvariant, PTL

\* A fuzzy identification ends at its maximum time, whatever the matcher
\* finds: every class the classifier gives then is an answer.
THEOREM AnswersInTime == Spec => []AnswerInTime
<1>1. RecInv => AnswerInTime
  BY RecognizerAssumption DEF RecInv, AnswerInTime, MaxIdTime
<1>2. QED
  BY <1>1, RecInvariant, PTL

\* The first match results after the limit are an answer in either type of
\* identification, and no audio and no flush changes an answer.
THEOREM AnswersOnce == Spec => AnsweredOnce
<1>1. RecInv /\ [Next]_vars => [idTime' >= MaxIdTime /\ results' # results => idMatches' # <<>>]_vars
  BY RecStep DEF Ends
<1>2. RecInv /\ [Next]_vars =>
        [idMatches # <<>> /\ idMatches' # idMatches => idMatches' = <<>> /\ idTime' = 0]_vars
  BY RecStep DEF Stands
<1>3. Spec => EndsOnceMatched
  BY <1>1, RecInvariant, PTL DEF Spec, EndsOnceMatched
<1>4. Spec => AnswerStands
  BY <1>2, RecInvariant, PTL DEF Spec, AnswerStands
<1>5. QED
  BY <1>3, <1>4 DEF AnsweredOnce
\* An answer IDENTIFIED has the confidence, and in a fuzzy identification the
\* listening time, its mode asks for, also when a flush gave it.  In a fuzzy
\* identification all the matches that tie for the best are listed with the
\* class of the last one classified: there the theorem is about one best match.
THEOREM AnswersAreSound ==
  ASSUME MaxTies <= 1 \/ "FUZZY" \notin Types
  PROVE  Spec => []AnswersSound
<1>1. Init => StrongAnswer
  BY DEF Init, StrongAnswer, Strong, State
<1>2. RecInv /\ StrongAnswer /\ [Next]_vars => StrongAnswer'
  BY StrongStep
<1>3. RecInv /\ StrongAnswer => StrongConfidence /\ EvidenceTakesTime
  <2> SUFFICES ASSUME RecInv, StrongAnswer, NEW i \in Identified
               PROVE  /\ idMatches[i].Confidence >= Threshold
                      /\ LongEnough(State, idMatches[i].FID, idTime)
    BY StateFields DEF StrongConfidence, EvidenceTakesTime, Threshold, LongEnough
  <2>1. i \in DOMAIN idMatches /\ idMatches[i].IdClass = IDENTIFIED
    BY DEF Identified
  <2>2. QED
    BY <2>1, StateFields DEF StrongAnswer, Strong
<1>4. Spec => []TypeOK
  BY RecognizerTypes
<1>5. QED
  BY <1>1, <1>2, <1>3, <1>4, RecInvariant, PTL DEF Spec, AnswersSound
=============================================================================
