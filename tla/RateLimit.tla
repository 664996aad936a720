----------------------------- MODULE RateLimit -----------------------------
(***************************************************************************)
(* The sliding-window limit of services/rate_limits.py.  A key stands for  *)
(* a scope and what is limited in it (a reader, an address).  The function *)
(* has no await, so a call is one step; its memory is the process's and    *)
(* goes with it.  Time is counted in ticks, several to the second, because *)
(* the clock is a float and Retry-After a whole number of seconds.         *)
(***************************************************************************)
EXTENDS Naturals, Sequences

CONSTANTS
    Keys,      \* (scope, key)
    Limit,     \* limit, for each key
    Window,    \* window_seconds, in ticks
    Second,    \* ticks in a second
    MaxTime    \* bound: the last tick of the clock

ASSUME RateLimitAssumption ==
    /\ Limit \in [Keys -> Nat \ {0}]
    /\ Window \in Nat \ {0}
    /\ Second \in Nat \ {0}
    /\ MaxTime \in Nat

VARIABLES
    now,        \* monotonic()
    bucket,     \* _requests: the times of the admitted calls still remembered
    admitted,   \* the times of all the calls admitted since the process began
    told,       \* the time a refused caller was told to wait for, by Retry-After
    refused     \* refusals in a row of calls that had waited as told

limiter == <<bucket, admitted, told, refused>>
limitVars == <<now, limiter>>

NoCalls == [k \in Keys |-> <<>>]
Zeros == [k \in Keys |-> 0]

LimitInit ==
    /\ now = 0
    /\ bucket = NoCalls
    /\ admitted = NoCalls
    /\ told = Zeros
    /\ refused = Zeros

LimitTypeOK ==
    /\ now \in Nat
    /\ bucket \in [Keys -> Seq(Nat)]
    /\ admitted \in [Keys -> Seq(Nat)]
    /\ told \in [Keys -> Nat]
    /\ refused \in [Keys -> Nat]

\* Whether a call made at time t is out of the window.
Expired(t) == t + Window <= now

\* while bucket and bucket[0] <= cutoff: bucket.popleft()
\* Mutant: all are forgotten when the first is.
ForgetAll(q) == IF q # <<>> /\ Expired(q[1]) THEN <<>> ELSE q
StopsAt(q, n) ==
    /\ \A i \in 1 .. n : Expired(q[i])
    /\ n < Len(q) => ~ Expired(q[n + 1])
Outdated(q) == CHOOSE n \in 0 .. Len(q) : StopsAt(q, n)
Forget(q) == SubSeq(q, Outdated(q) + 1, Len(q))

\* max(1, int(window_seconds - (now - bucket[0]))), in ticks
\* Mutant: without the max.
RetryTruncated(q) == Second * ((Window - (now - q[1])) \div Second)
RetryAfter(q) ==
    LET whole == (Window - (now - q[1])) \div Second
    IN  Second * (IF whole > 1 THEN whole ELSE 1)

Admit(k) ==
    LET q == Forget(bucket[k])
    IN  /\ Len(q) < Limit[k]
        /\ bucket' = [bucket EXCEPT ![k] = Append(q, now)]
        /\ admitted' = [admitted EXCEPT ![k] = Append(@, now)]
        /\ refused' = [refused EXCEPT ![k] = 0]
        /\ UNCHANGED <<now, told>>

\* HTTP 429.  A call that came too early starts the count again.
Refuse(k) ==
    LET q == Forget(bucket[k])
    IN  /\ Len(q) >= Limit[k]
        /\ bucket' = [bucket EXCEPT ![k] = q]
        /\ told' = [told EXCEPT ![k] = now + RetryAfter(q)]
        /\ refused' = [refused EXCEPT ![k] = IF now < told[k] THEN 1 ELSE @ + 1]
        /\ UNCHANGED <<now, admitted>>

\* The clock jumps to any later tick.
Tick ==
    /\ \E t \in now + 1 .. MaxTime : now' = t
    /\ UNCHANGED limiter

\* A new process (or reset_rate_limits) begins with nothing.
Forgetful ==
    /\ bucket' = NoCalls
    /\ admitted' = NoCalls
    /\ told' = Zeros
    /\ refused' = Zeros
    /\ UNCHANGED now

LimitNext ==
    \/ Tick
    \/ Forgetful
    \/ \E k \in Keys : Admit(k) \/ Refuse(k)

LimitSpec == LimitInit /\ [][LimitNext]_limitVars

----------------------------------------------------------------------------
(* Properties *)

\* No window, wherever it begins, admits more than the limit: between a call
\* and the one admitted Limit calls later lies a whole window.
WindowIsKept ==
    \A k \in Keys : \A i, j \in DOMAIN admitted[k] :
        j = i + Limit[k] => admitted[k][i] + Window <= admitted[k][j]

\* A caller that waits as Retry-After says may be refused once more, because
\* the seconds are rounded down, but not twice more.
WaitingHelps == \A k \in Keys : refused[k] <= 2
============================================================================
