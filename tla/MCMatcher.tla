------------------------------ MODULE MCMatcher ------------------------------
(* Small instances of Matcher for TLC.                                     *)
EXTENDS Matcher

LF(t, f, w) == [T |-> t, F |-> f, W |-> w, E |-> (t + w) % 3]

\* Two versions of a piece, a recording with none of its terms, a short part of
\* it, a long recording that repeats its first peak and has the others
\* in a later bin, beyond the smaller histogram, and the first two peaks alone.
Database ==
  << <<LF(0, 18, 1), LF(5, 18, 2), LF(10, 19, 1), LF(15, 18, 3), LF(20, 18, 1)>>,
     <<LF(0, 200, 7)>>,
     <<LF(1, 18, 1), LF(6, 18, 2), LF(15, 19, 1)>>,
     <<LF(25, 18, 1), LF(26, 18, 1), LF(230, 18, 1), LF(235, 18, 2), LF(240, 19, 1)>>,
     <<LF(0, 18, 1), LF(6, 18, 2)>> >>

\* All of the first recording, the last of the third with a strange peak, and
\* pieces nearly as in several of them.
Heard == {Database[1],
          <<LF(2, 18, 2), LF(7, 100, 5), LF(12, 18, 1)>>,
          <<LF(20, 18, 1), LF(25, 18, 2), LF(30, 18, 1), LF(31, 18, 1)>>,
          <<LF(8, 18, 1), LF(13, 18, 2), LF(23, 19, 1), LF(24, 18, 2), LF(29, 19, 1)>>}
==============================================================================
