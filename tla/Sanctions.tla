----------------------------- MODULE Sanctions -----------------------------
(***************************************************************************)
(* Suspensions and their appeals (api/routes/moderation.py) over the       *)
(* accounts of Accounts, which they share with every other request.        *)
(*                                                                         *)
(* No handler here locks what it reads: it reads, works and commits, and   *)
(* updates only the columns that differ from what it has read.  So         *)
(* suspend_user is one step unless the end it is given is the one it       *)
(* loads.  A commit inserts a row that refers to the account and so waits  *)
(* for its row lock.  "Suspensions" are the rows of user_sanctions with    *)
(* the action "suspend", in the order in which they were committed         *)
(* (created_at is the start of the transaction; suspensions that overlap   *)
(* are taken to begin in the order in which they end).                     *)
(***************************************************************************)
EXTENDS Accounts

CONSTANTS
    MaxSuspensions,  \* bound: suspensions imposed
    Reviews          \* requests about lifts and appeals in flight at once

ASSUME SanctionsAssumption ==
    /\ MaxSuspensions \in Nat \ {0}
    /\ None \notin 1 .. MaxSuspensions

VARIABLES
    suspended,   \* user_sanctions with action "suspend": whom
    expired,     \* those whose expires_at has passed
    inForce,     \* the suspension that wrote users.suspended_until
    last,        \* action of the account's last row of user_sanctions; "again"
                 \* is a suspension that wrote no end
    appeal,      \* user_sanction_appeals.status, by sanction
    review       \* what each request of this module has read

sanctionVars == <<suspended, expired, inForce, last, appeal, review>>
allVars == <<vars, sanctionVars>>

Suspensions == 1 .. MaxSuspensions

\* An operation, the account and the suspension it is about, and whether the
\* time it has loaded was there to be cleared.
Review ==
    {r \in [op     : {"idle", "again", "appeal", "lift", "decide", "approve"},
            user   : Users \cup {None},
            about  : Suspensions \cup {None},
            clears : BOOLEAN] :
        /\ r.op # "idle" => r.user \in Users
        /\ r.op \in {"appeal", "decide", "approve"} => r.about \in Suspensions}

NoReview == [op |-> "idle", user |-> None, about |-> None, clears |-> FALSE]

\* Every variable has its type, and an account has a time just when that
\* comes from a suspension.
SanctionsTypeOK ==
    /\ suspended \in [Suspensions -> Users \cup {None}]
    /\ expired \in SUBSET Suspensions
    /\ inForce \in [Users -> Suspensions \cup {None}]
    /\ last \in [Users -> {"none", "suspend", "again", "lift"}]
    /\ appeal \in [Suspensions -> {"none", "submitted", "approved", "rejected"}]
    /\ review \in [Reviews -> Review]
    /\ \A u \in Users : until[u] = "none" <=> inForce[u] = None

ModeratedInit ==
    /\ Init
    /\ suspended = [x \in Suspensions |-> None]
    /\ expired = {}
    /\ inForce = [u \in Users |-> None]
    /\ last = [u \in Users |-> "none"]
    /\ appeal = [x \in Suspensions |-> "none"]
    /\ review = [m \in Reviews |-> NoReview]

Imposed == {x \in Suspensions : suspended[x] # None}

Start(m, r) ==
    /\ review[m] = NoReview
    /\ review' = [review EXCEPT ![m] = r]
    /\ UNCHANGED <<vars, suspended, expired, inForce, last, appeal>>

Finish(m) == review' = [review EXCEPT ![m] = NoReview]

----------------------------------------------------------------------------
(* Suspensions *)

\* The row, the account's time and its sessions are one transaction.
\* Mutant: the sessions are kept.
SuspendOnly(u, x) ==
    /\ Imposed = 1 .. (x - 1)
    /\ state[u] # "absent"
    /\ lock[u] = None
    /\ until' = [until EXCEPT ![u] = "future"]
    /\ suspended' = [suspended EXCEPT ![x] = u]
    /\ inForce' = [inForce EXCEPT ![u] = x]
    /\ last' = [last EXCEPT ![u] = "suspend"]
    /\ UNCHANGED <<account, sessions, tokens, lock, req, expired, appeal, review>>
SuspendUser(u, x) ==
    /\ Imposed = 1 .. (x - 1)
    /\ Suspend(u, "future")
    /\ suspended' = [suspended EXCEPT ![x] = u]
    /\ inForce' = [inForce EXCEPT ![u] = x]
    /\ last' = [last EXCEPT ![u] = "suspend"]
    /\ UNCHANGED <<expired, appeal, review>>

\* The account is loaded with the very end it is to be given.
BeginSuspendAgain(m, u) ==
    /\ until[u] = "future"
    /\ Start(m, [NoReview EXCEPT !.op = "again", !.user = u])

CommitSuspendAgain(m, x) ==
    LET u == review[m].user
    IN  /\ review[m].op = "again"
        /\ Imposed = 1 .. (x - 1)
        /\ Suspend(u, until[u])
        /\ suspended' = [suspended EXCEPT ![x] = u]
        /\ last' = [last EXCEPT ![u] = "again"]
        /\ Finish(m)
        /\ UNCHANGED <<expired, inForce, appeal>>

\* The clock passes expires_at.
Expire(x) ==
    /\ x \in Imposed \ expired
    /\ expired' = expired \cup {x}
    /\ IF inForce[suspended[x]] = x THEN SuspensionEnds(suspended[x]) ELSE UNCHANGED vars
    /\ UNCHANGED <<suspended, inForce, last, appeal, review>>

\* A "lift" row, and NULL over a time that was loaded.
\* Mutants: the row alone; the time alone.
LiftRowOnly(u, clears) ==
    /\ lock[u] = None
    /\ last' = [last EXCEPT ![u] = "lift"]
    /\ UNCHANGED <<vars, inForce>>
LiftTimeOnly(u, clears) ==
    /\ lock[u] = None
    /\ inForce' = [inForce EXCEPT ![u] = IF clears THEN None ELSE @]
    /\ IF clears /\ inForce[u] # None THEN Lift(u) ELSE UNCHANGED vars
    /\ UNCHANGED last
LiftRow(u, clears) ==
    /\ lock[u] = None
    /\ last' = [last EXCEPT ![u] = "lift"]
    /\ inForce' = [inForce EXCEPT ![u] = IF clears THEN None ELSE @]
    /\ IF clears /\ inForce[u] # None THEN Lift(u) ELSE UNCHANGED vars

\* lift_user_suspension
BeginLift(m, u) ==
    /\ inForce[u] # None
    /\ Start(m, [NoReview EXCEPT !.op = "lift", !.user = u, !.clears = TRUE])

CommitLift(m) ==
    /\ review[m].op = "lift"
    /\ LiftRow(review[m].user, review[m].clears)
    /\ Finish(m)
    /\ UNCHANGED <<suspended, expired, appeal>>

----------------------------------------------------------------------------
(* Appeals *)

Appealing(x) ==
    [NoReview EXCEPT !.op = "appeal", !.user = suspended[x], !.about = x]

\* create_sanction_appeal: the account is suspended, not necessarily by x.
BeginAppeal(m, x) ==
    /\ x \in Imposed
    /\ state[suspended[x]] = "active"
    /\ until[suspended[x]] = "future"
    /\ appeal[x] = "none"
    /\ Start(m, Appealing(x))

\* create_current_sanction_appeal: the last suspension that has not expired,
\* lifted or not.
BeginCurrentAppeal(m, x) ==
    /\ x \in Imposed \ expired
    /\ state[suspended[x]] = "active"
    /\ \A y \in Imposed \ expired : suspended[y] = suspended[x] => y <= x
    /\ appeal[x] = "none"
    /\ Start(m, Appealing(x))

\* UNIQUE (sanction_id)
CommitAppeal(m) ==
    /\ review[m].op = "appeal"
    /\ lock[review[m].user] = None
    /\ appeal[review[m].about] = "none"
    /\ appeal' = [appeal EXCEPT ![review[m].about] = "submitted"]
    /\ Finish(m)
    /\ UNCHANGED <<vars, suspended, expired, inForce, last>>

\* decide_sanction_appeal reads the appeal and, to approve it, the account
\* after that.
BeginDecide(m, x) ==
    /\ appeal[x] = "submitted"
    /\ Start(m, [NoReview EXCEPT !.op = "decide", !.user = suspended[x], !.about = x])

Reject(m) ==
    /\ review[m].op = "decide"
    /\ appeal' = [appeal EXCEPT ![review[m].about] = "rejected"]
    /\ Finish(m)
    /\ UNCHANGED <<vars, suspended, expired, inForce, last>>

LoadAppellant(m) ==
    /\ review[m].op = "decide"
    /\ review' = [review EXCEPT ![m] =
                     [@ EXCEPT !.op = "approve",
                              !.clears = inForce[review[m].user] # None]]
    /\ UNCHANGED <<vars, suspended, expired, inForce, last, appeal>>

Approve(m) ==
    /\ review[m].op = "approve"
    /\ LiftRow(review[m].user, review[m].clears)
    /\ appeal' = [appeal EXCEPT ![review[m].about] = "approved"]
    /\ Finish(m)
    /\ UNCHANGED <<suspended, expired>>

\* A failed check, a unique violation or a lost connection.
AbortReview(m) ==
    /\ review[m] # NoReview
    /\ Finish(m)
    /\ UNCHANGED <<vars, suspended, expired, inForce, last, appeal>>

----------------------------------------------------------------------------

SanctionStep ==
    \/ \E u \in Users, x \in Suspensions : SuspendUser(u, x)
    \/ \E x \in Suspensions : Expire(x)
    \/ \E m \in Reviews, u \in Users : BeginSuspendAgain(m, u) \/ BeginLift(m, u)
    \/ \E m \in Reviews, x \in Suspensions :
          \/ CommitSuspendAgain(m, x)
          \/ BeginAppeal(m, x) \/ BeginCurrentAppeal(m, x) \/ BeginDecide(m, x)
    \/ \E m \in Reviews :
          \/ CommitLift(m) \/ CommitAppeal(m)
          \/ LoadAppellant(m) \/ Approve(m) \/ Reject(m)
          \/ AbortReview(m)

ModeratedNext ==
    \/ UserStep /\ UNCHANGED sanctionVars
    \/ SanctionStep

ModeratedSpec == ModeratedInit /\ [][ModeratedNext]_allVars

----------------------------------------------------------------------------
(* Properties *)

\* An approved appeal never leaves its suspension in force, although the
\* moderator decides on an account loaded before and other moderators
\* suspend, lift and decide meanwhile.
ApprovedIsLifted ==
    \A x \in Imposed : appeal[x] = "approved" => inForce[suspended[x]] # x

\* An account whose history ends in a suspension is suspended by it: no
\* request that began before it takes it back without a row of its own.  Not
\* so after one that repeated the end it had loaded, "again", which another
\* moderator may have lifted before it commits.
LastSuspensionHolds ==
    \A u \in Users : last[u] = "suspend" =>
        \A x \in Imposed : suspended[x] = u => inForce[u] \in x .. MaxSuspensions

\* To the accounts, all this is a moderator suspending and lifting at will.
ImplementsAccounts == Spec
============================================================================
