---------------------------- MODULE MCCommunity ----------------------------
(* One reader, limits of two comments and one report, for TLC. *)
EXTENDS Community, FiniteSets, TLC

CallKeys == {"comment", "report"} \X Readers
CallLimit == [k \in CallKeys |-> IF k[1] = "comment" THEN 2 ELSE 1]

\* Bound: while the clock runs calls are admitted or refused and then fail,
\* one at a time; what is stored by requests that overlap does not depend on
\* the time, and is explored at time 0 with processes that start afresh.
TimeOrContent ==
    now > 0 =>
        /\ \A c \in Comments : ~ comment[c].exists
        /\ \A s \in Reports : report[s].status = "absent"
        /\ published = Pubs
        /\ Cardinality({r \in Requests : rq[r].at # "idle"}) <= 1

Symmetry == Permutations(Comments) \cup Permutations(Reports) \cup Permutations(Requests)
============================================================================
