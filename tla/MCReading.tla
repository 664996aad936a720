----------------------------- MODULE MCReading -----------------------------
(* Months of every length, for TLC. *)
EXTENDS Reading, TLC

\* December, January, February, March, April, of a year that has no leap day
MonthStart == [m \in 0 .. 5 |-> <<0, 31, 62, 90, 121, 151>>[m + 1]]

\* Bound: a reader in the feed, who meets no other reader, is there alone.
AloneInFeed ==
    \A v, w \in Readers : visit[v].at \in {"feed", "end"} /\ v # w => visit[w].at = "idle"

Symmetry == Permutations(Readers) \cup Permutations(Pubs \ Digests)
============================================================================
