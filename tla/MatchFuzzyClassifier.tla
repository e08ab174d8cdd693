------------------------ MODULE MatchFuzzyClassifier ------------------------
(***************************************************************************)
(* The fuzzy classifier of match results: from the mean confidence of a    *)
(* match and the time it has been listened to, an answer or LISTENING.     *)
(*                                                                         *)
(* Doubles are replaced by rationals over fixed denominators, so that the  *)
(* comparisons are exact: a confidence is in units of 1/25200, a time in   *)
(* tenths of a second, a membership degree in units of 1/Scale.            *)
(***************************************************************************)
EXTENDS Integers, FiniteSetsExt, Functions

One == 25200

\* Divisible by the length of every slope below.
Scale == 19126800

Modes == {"EASY", "STRICT"}

\* Conf(n): a confidence of n thousandths.
Conf(n) == (n * One) \div 1000

\* SetMode: the corners of the three fuzzy sets of each variable.
CONF ==
  [EASY   |-> [LOW |-> <<Conf(550), Conf(650)>>, MED |-> <<Conf(600), Conf(700), Conf(800)>>,
               HIGH |-> <<Conf(750), Conf(900)>>],
   STRICT |-> [LOW |-> <<Conf(550), Conf(650)>>, MED |-> <<Conf(600), Conf(700), Conf(920)>>,
               HIGH |-> <<Conf(875), Conf(950)>>]]

CDUR ==
  [EASY   |-> [LOW |-> <<15, 30>>, MED |-> <<20, 100, 220>>, HIGH |-> <<175, 200>>],
   STRICT |-> [LOW |-> <<20, 50>>, MED |-> <<28, 120, 192>>, HIGH |-> <<150, 200>>]]

Levels == {"LOW", "MED", "HIGH"}

AtLeast0(x) == IF x < 0 THEN 0 ELSE x

Falling(x, a, b) == IF x <= a THEN Scale ELSE AtLeast0((b - x) * (Scale \div (b - a)))

Rising(x, a, b) == IF x >= b THEN Scale ELSE AtLeast0((x - a) * (Scale \div (b - a)))

\* uCONF_* and uCDUR_*, which have the same shape.  The values LOW, MED and
\* HIGH of a duration are called SHORT, MED and LONG in the code.
Degree(level, x, p) ==
  CASE level = "LOW"  -> Falling(x, p.LOW[1], p.LOW[2])
    [] level = "MED"  -> IF x <= p.MED[2] THEN Rising(x, p.MED[1], p.MED[2])
                         ELSE Falling(x, p.MED[2], p.MED[3])
    [] level = "HIGH" -> Rising(x, p.HIGH[1], p.HIGH[2])

UNIDENTIFIED == 0
SOUNDS_LIKE == 1
IDENTIFIED == 2
LISTENING == 3
Classes == 0..3

\* Bug_ operators: wrong rules, kept to show that the properties notice.
\* A low confidence never settles.
Bug_LowListens(c, d) ==
  IF c = "HIGH" /\ d # "LOW" THEN IDENTIFIED
  ELSE IF c = "MED" /\ d = "HIGH" THEN SOUNDS_LIKE ELSE LISTENING

\* The answers of a medium and a low confidence are swapped.
Bug_SwapsAnswers(c, d) ==
  IF c = "HIGH" /\ d # "LOW" THEN IDENTIFIED
  ELSE IF c = "HIGH" \/ d # "HIGH" THEN LISTENING
  ELSE IF c = "LOW" THEN SOUNDS_LIKE ELSE UNIDENTIFIED

\* The nine rules: what a confidence c and a duration d tell.
Rule(c, d) ==
  CASE c = "HIGH" /\ d # "LOW"  -> IDENTIFIED
    [] c = "MED" /\ d = "HIGH" -> SOUNDS_LIKE
    [] c = "LOW" /\ d = "HIGH" -> UNIDENTIFIED
    [] OTHER                   -> LISTENING

Lesser(m, n) == IF m < n THEN m ELSE n

\* The rules that hold most; a rule is as true as the less true of its two
\* conditions.
Truest(mode, Hu, dT) ==
  LET uCONF == [l \in Levels |-> Degree(l, Hu, CONF[mode])]
      uCDUR == [l \in Levels |-> Degree(l, dT, CDUR[mode])]
      truth == [r \in Levels \X Levels |-> Lesser(uCONF[r[1]], uCDUR[r[2]])]
      most  == Max(Range(truth))
  IN  {r \in DOMAIN truth : truth[r] = most}

\* Process: of equally true classes the first one is taken.
Classify(mode, Hu, dT) == Min({Rule(r[1], r[2]) : r \in Truest(mode, Hu, dT)})
=============================================================================
