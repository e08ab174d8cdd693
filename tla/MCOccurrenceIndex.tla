-------------------------- MODULE MCOccurrenceIndex --------------------------
(* Small instances of OccurrenceIndex for TLC.                             *)
EXTENDS OccurrenceIndex

LF(t, f) == [T |-> t, F |-> f, W |-> 1, E |-> (t + f) % 3]

High(t, f) == [T |-> t, F |-> f, W |-> 99, E |-> 2]

\* One peak; three whose pairs have the same term, once rounded; the last too
\* far from the first; two of another band, the later one lower.
Recorded == {<<LF(4, 18)>>,
             <<LF(4, 18), LF(4, 19), LF(9, 18)>>,
             <<LF(4, 19), LF(9, 18), LF(17, 18)>>,
             <<LF(9, 18), High(9, 556), LF(17, 18), LF(17, 19), High(17, 372)>>}

Rounded == {<<3, 13>>, <<4, 9>>, <<8, 13>>}
==============================================================================
