---------------------------- MODULE RevisionLog ----------------------------
(***************************************************************************)
(* What the revisions of the source material promise: an append-only log   *)
(* per publication whose last entry is the text in force.                  *)
(***************************************************************************)
EXTENDS Naturals

CONSTANTS Pubs, Texts, MaxRevision, None

VARIABLES length, entries, current

log == <<length, entries, current>>

Init ==
    /\ length = [p \in Pubs |-> 0]
    /\ entries = [p \in Pubs |-> [n \in 1 .. MaxRevision |-> None]]
    /\ current = [p \in Pubs |-> None]

Append(p, t) ==
    /\ length[p] < MaxRevision
    /\ length' = [length EXCEPT ![p] = @ + 1]
    /\ entries' = [entries EXCEPT ![p][length[p] + 1] = t]
    /\ current' = [current EXCEPT ![p] = t]

Next == \E p \in Pubs, t \in Texts : Append(p, t)

Spec == Init /\ [][Next]_log
============================================================================
