----------------------------- MODULE LiveIndex ------------------------------
(***************************************************************************)
(* What indexing promises to the matcher: a set of postings lists, each    *)
(* strictly increasing whenever it is read, that only grow, hold nothing   *)
(* but postings of accepted recordings, and hold every posting of a        *)
(* session whose end was acknowledged.                                     *)
(***************************************************************************)
EXTENDS Integers, Sequences, SequencesExt

CONSTANTS Terms, FIDs

VARIABLES lists, accepted, acked

Increasing(s) == \A i \in 1..(Len(s) - 1) : s[i] < s[i + 1]

Held == UNION {{<<t, f>> : f \in ToSet(lists[t])} : t \in Terms}

Init == lists = [t \in Terms |-> <<>>] /\ accepted = {} /\ acked = {}

\* A recording is accepted: it is not readable yet.
Accept ==
  /\ \E f \in FIDs, ts \in SUBSET Terms : accepted' = accepted \cup (ts \X {f})
  /\ UNCHANGED <<lists, acked>>

\* Accepted postings become readable, in any order and any number.
Grow ==
  /\ \A t \in Terms : /\ Increasing(lists'[t])
                      /\ ToSet(lists[t]) \subseteq ToSet(lists'[t])
  /\ Held' \subseteq accepted
  /\ UNCHANGED <<accepted, acked>>

\* A session is over: its postings are readable.
Acknowledge ==
  /\ acked \subseteq acked' /\ acked' \subseteq Held
  /\ UNCHANGED <<lists, accepted>>

Next == Accept \/ Grow \/ Acknowledge

Spec == Init /\ [][Next]_<<lists, accepted, acked>>
=============================================================================
