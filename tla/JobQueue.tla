----------------------------- MODULE JobQueue -----------------------------
(***************************************************************************)
(* What a background queue promises: a job is processed by one worker at a *)
(* time, at most MaxAttempts times, and never again once it is done.       *)
(***************************************************************************)
EXTENDS Naturals

CONSTANTS Jobs, MaxAttempts

VARIABLES state, attempts

queue == <<state, attempts>>

Init ==
    /\ state = [j \in Jobs |-> "none"]
    /\ attempts = [j \in Jobs |-> 0]

Move(S, from, to) ==
    /\ S # {}
    /\ \A j \in S : state[j] = from
    /\ state' = [j \in Jobs |-> IF j \in S THEN to ELSE state[j]]

Enqueue(S) == Move(S, "none", "pending") /\ UNCHANGED attempts

Claim(j) ==
    /\ attempts[j] < MaxAttempts
    /\ Move({j}, "pending", "running")
    /\ attempts' = [attempts EXCEPT ![j] = @ + 1]

Finish(j) == Move({j}, "running", "done") /\ UNCHANGED attempts

Fail(j) == Move({j}, "running", "failed") /\ UNCHANGED attempts

Retry(S) ==
    /\ \A j \in S : attempts[j] < MaxAttempts
    /\ Move(S, "failed", "pending")
    /\ UNCHANGED attempts

Next ==
    \/ \E S \in SUBSET Jobs : Enqueue(S) \/ Retry(S)
    \/ \E j \in Jobs : Claim(j) \/ Finish(j) \/ Fail(j)

Spec == Init /\ [][Next]_queue
============================================================================
