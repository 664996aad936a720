------------------------------ MODULE Accounts ------------------------------
(***************************************************************************)
(* Accounts and their sessions (api/routes/auth.py).  Moderators suspend   *)
(* accounts in any order; how they come to is in Sanctions.                *)
(*                                                                         *)
(* A handler reads an account, works on what it has read, and commits.     *)
(* Only reset_password reads FOR UPDATE.  An UPDATE waits for that row     *)
(* lock, and so does the INSERT of a row that refers to the account        *)
(* (sessions, reset tokens and sanctions, by their foreign key).           *)
(*                                                                         *)
(* A password is the number of times the account has been given one.       *)
(* Expired sessions and reset tokens are rows no query returns: they are   *)
(* like rows that are not there.                                           *)
(***************************************************************************)
EXTENDS Naturals, FiniteSets

CONSTANTS
    Users,         \* accounts that may be registered
    Sessions,      \* session tokens (the cookie's value)
    ResetTokens,   \* tokens of password recovery links
    Requests,      \* requests in flight at once
    MaxPasswords,  \* bound: passwords given to one account
    None

ASSUME AccountsAssumption ==
    /\ MaxPasswords \in Nat \ {0}
    /\ None \notin Users \cup Sessions \cup ResetTokens \cup Requests
    /\ None \notin 1 .. MaxPasswords
    /\ Sessions \cap ResetTokens = {}

VARIABLES
    state,      \* is there an account, and is it active
    password,   \* users.password_hash; None for one that nobody knows
    name,       \* users.display_name
    until,      \* users.suspended_until
    sessions,   \* user_sessions
    tokens,     \* password_reset_tokens
    lock,       \* the request holding the row lock of an account
    req         \* what each request has read

account == <<state, password, name>>
vars == <<account, until, sessions, tokens, lock, req>>

Passwords == 1 .. MaxPasswords

NoToken == [user |-> None, used |-> FALSE]
NoSession == [user |-> None, password |-> None]
Idle == [op |-> "idle", user |-> None, password |-> None, token |-> None, gone |-> {}]

\* An operation between two of its statements, and what it holds: the account
\* and the password it has read, the link it redeems, the rows its DELETE took.
Request == [op       : {"idle", "login", "recover", "reset", "revoke",
                        "rename", "delete"},
            user     : Users \cup {None},
            password : Passwords \cup {None},
            token    : ResetTokens \cup {None},
            gone     : SUBSET (Sessions \cup ResetTokens)]

\* Every variable has its type; a session was opened with a real password.
TypeOK ==
    /\ state \in [Users -> {"absent", "active", "deleted"}]
    /\ password \in [Users -> Passwords \cup {None}]
    /\ name \in [Users -> {"none", "chosen", "pseudonym"}]
    /\ until \in [Users -> {"none", "future", "past"}]
    /\ sessions \in [Sessions -> [user : Users, password : Passwords] \cup {NoSession}]
    /\ tokens \in [ResetTokens -> [user : Users, used : BOOLEAN] \cup {NoToken}]
    /\ lock \in [Users -> Requests \cup {None}]
    /\ req \in [Requests -> Request]

Init ==
    /\ state = [u \in Users |-> "absent"]
    /\ password = [u \in Users |-> None]
    /\ name = [u \in Users |-> "none"]
    /\ until = [u \in Users |-> "none"]
    /\ sessions = [s \in Sessions |-> NoSession]
    /\ tokens = [k \in ResetTokens |-> NoToken]
    /\ lock = [u \in Users |-> None]
    /\ req = [c \in Requests |-> Idle]

SessionsOf(u) == {s \in Sessions : sessions[s].user = u}

\* Rows that are still there are without what a DELETE has taken.
Without(gone) == [s \in Sessions |-> IF s \in gone THEN NoSession ELSE sessions[s]]

\* Tokens are random: one that is being deleted does not come back.
Fresh(t) == \A d \in Requests : t \notin req[d].gone

Begin(c, r) ==
    /\ req[c] = Idle
    /\ req' = [req EXCEPT ![c] = r]

\* The commit of a request that read account u, once nobody locks u's row.
Commit(c, op) ==
    /\ req[c].op = op
    /\ lock[req[c].user] = None
    /\ req' = [req EXCEPT ![c] = Idle]
    /\ lock' = lock

----------------------------------------------------------------------------
(* Opening and closing sessions *)

\* The account and its first session are one transaction.
Register(u, s) ==
    /\ state[u] = "absent"
    /\ sessions[s] = NoSession
    /\ Fresh(s)
    /\ state' = [state EXCEPT ![u] = "active"]
    /\ password' = [password EXCEPT ![u] = 1]
    /\ name' = [name EXCEPT ![u] = "chosen"]
    /\ sessions' = [sessions EXCEPT ![s] = [user |-> u, password |-> 1]]
    /\ UNCHANGED <<until, tokens, lock, req>>

\* Mutant: any account found by its e-mail may log in.
BeginAnyLogin(c, u) ==
    /\ state[u] # "absent"
    /\ Begin(c, [Idle EXCEPT !.op = "login", !.user = u, !.password = password[u]])
    /\ UNCHANGED <<account, until, sessions, tokens, lock>>

\* login knows the password and finds it in the row it has read.
BeginLogin(c, u) ==
    /\ state[u] = "active"
    /\ until[u] # "future"
    /\ Begin(c, [Idle EXCEPT !.op = "login", !.user = u, !.password = password[u]])
    /\ UNCHANGED <<account, until, sessions, tokens, lock>>

CommitLogin(c, s) ==
    /\ sessions[s] = NoSession
    /\ Fresh(s)
    /\ Commit(c, "login")
    /\ sessions' = [sessions EXCEPT ![s] =
                       [user |-> req[c].user, password |-> req[c].password]]
    /\ UNCHANGED <<account, until, tokens>>

Logout(s) ==
    /\ sessions[s] # NoSession
    /\ sessions' = Without({s})
    /\ UNCHANGED <<account, until, tokens, lock, req>>

\* get_current_user
CurrentUser(s, u) ==
    /\ sessions[s].user = u
    /\ state[u] = "active"
    /\ until[u] # "future"

----------------------------------------------------------------------------
(* Password recovery *)

Link(u) == [user |-> u, used |-> FALSE]

\* request_password_reset deletes the unused tokens it sees and holds them
\* until its commit; a token that a reset has locked is used after the wait.
BeginRecovery(c, u) ==
    /\ state[u] = "active"
    /\ lock[u] = None
    /\ Begin(c, [Idle EXCEPT !.op = "recover", !.user = u,
                             !.gone = {k \in ResetTokens : tokens[k] = Link(u)}])
    /\ UNCHANGED <<account, until, sessions, tokens, lock>>

CommitRecovery(c, k) ==
    /\ tokens[k] = NoToken
    /\ Fresh(k)
    /\ Commit(c, "recover")
    /\ tokens' = [j \in ResetTokens |->
                     IF j = k THEN Link(req[c].user)
                     ELSE IF j \in req[c].gone THEN NoToken
                     ELSE tokens[j]]
    /\ UNCHANGED <<account, until, sessions>>

\* A valid link of an active account; a token being deleted is waited for.
Redeems(k, u) ==
    /\ tokens[k] = Link(u)
    /\ Fresh(k)
    /\ state[u] = "active"

Redeeming(k, u) == [Idle EXCEPT !.op = "reset", !.user = u, !.token = k]

\* Mutant: without FOR UPDATE.
LoadReset(c, k, u) ==
    /\ Redeems(k, u)
    /\ Begin(c, Redeeming(k, u))
    /\ UNCHANGED <<account, until, sessions, tokens, lock>>
\* reset_password locks the token and then the account.
BeginReset(c, k, u) ==
    /\ Redeems(k, u)
    /\ lock[u] = None
    /\ Begin(c, Redeeming(k, u))
    /\ lock' = [lock EXCEPT ![u] = c]
    /\ UNCHANGED <<account, until, sessions, tokens>>

\* DELETE FROM user_sessions takes the sessions it sees.
Revoke(c) ==
    /\ req[c].op = "reset"
    /\ req' = [req EXCEPT ![c] = [@ EXCEPT !.op = "revoke", !.gone = SessionsOf(req[c].user)]]
    /\ UNCHANGED <<account, until, sessions, tokens, lock>>

CommitReset(c) ==
    LET u == req[c].user
    IN  /\ req[c].op = "revoke"
        /\ password[u] # MaxPasswords
        /\ password' = [password EXCEPT ![u] = IF @ = None THEN 1 ELSE @ + 1]
        /\ tokens' = [tokens EXCEPT ![req[c].token] = [@ EXCEPT !.used = TRUE]]
        /\ sessions' = Without(req[c].gone)
        /\ lock' = [lock EXCEPT ![u] = None]
        /\ req' = [req EXCEPT ![c] = Idle]
        /\ UNCHANGED <<state, name, until>>

----------------------------------------------------------------------------
(* The profile *)

BeginAs(c, s, op) ==
    /\ \E u \in Users :
          /\ CurrentUser(s, u)
          /\ Begin(c, [Idle EXCEPT !.op = op, !.user = u])
    /\ UNCHANGED <<account, until, sessions, tokens, lock>>

\* update_me
BeginRename(c, s) == BeginAs(c, s, "rename")

CommitRename(c) ==
    /\ Commit(c, "rename")
    /\ name' = [name EXCEPT ![req[c].user] = "chosen"]
    /\ UNCHANGED <<state, password, until, sessions, tokens>>

\* delete_my_account, with the password confirmed.
BeginDelete(c, s) == BeginAs(c, s, "delete")

\* The new e-mail address is a unique key, so the UPDATE keeps sessions from
\* being inserted until the commit.  account_deletion_audit has one row per
\* account: of two requests the second fails.
CommitDelete(c) ==
    LET u == req[c].user
    IN  /\ Commit(c, "delete")
        /\ state[u] = "active"
        /\ state' = [state EXCEPT ![u] = "deleted"]
        /\ password' = [password EXCEPT ![u] = None]
        /\ name' = [name EXCEPT ![u] = "pseudonym"]
        /\ sessions' = Without(SessionsOf(u))
        /\ UNCHANGED <<until, tokens>>

----------------------------------------------------------------------------
(* Suspensions *)

\* suspend_user writes a new end, or none where it has loaded the same one.
\* Neither its UPDATE nor its INSERT keeps a session from being inserted: one
\* inserted after the DELETE looks like one inserted after the commit.
Suspend(u, end) ==
    /\ state[u] # "absent"
    /\ lock[u] = None
    /\ until' = [until EXCEPT ![u] = end]
    /\ sessions' = Without(SessionsOf(u))
    /\ UNCHANGED <<account, tokens, lock, req>>

SuspensionEnds(u) ==
    /\ until[u] = "future"
    /\ until' = [until EXCEPT ![u] = "past"]
    /\ UNCHANGED <<account, sessions, tokens, lock, req>>

\* A moderator's request writes NULL over the time.
Lift(u) ==
    /\ until[u] # "none"
    /\ lock[u] = None
    /\ until' = [until EXCEPT ![u] = "none"]
    /\ UNCHANGED <<account, sessions, tokens, lock, req>>

----------------------------------------------------------------------------

\* An error or a lost connection rolls the request back.
Abort(c) ==
    /\ req[c] # Idle
    /\ req' = [req EXCEPT ![c] = Idle]
    /\ lock' = [u \in Users |-> IF lock[u] = c THEN None ELSE lock[u]]
    /\ UNCHANGED <<account, until, sessions, tokens>>

UserStep ==
    \/ \E u \in Users, s \in Sessions : Register(u, s)
    \/ \E s \in Sessions : Logout(s)
    \/ \E c \in Requests :
          \/ \E u \in Users : BeginLogin(c, u) \/ BeginRecovery(c, u)
          \/ \E s \in Sessions : CommitLogin(c, s) \/ BeginRename(c, s) \/ BeginDelete(c, s)
          \/ \E k \in ResetTokens : CommitRecovery(c, k)
          \/ \E k \in ResetTokens, u \in Users : BeginReset(c, k, u)
          \/ Revoke(c) \/ CommitReset(c)
          \/ CommitRename(c) \/ CommitDelete(c)
          \/ Abort(c)

ModeratorStep ==
    \E u \in Users :
        \/ \E end \in {"future", until[u]} : Suspend(u, end)
        \/ SuspensionEnds(u)
        \/ Lift(u)

Next == UserStep \/ ModeratorStep

Spec == Init /\ [][Next]_vars

----------------------------------------------------------------------------
(* Properties *)

\* A recovery link sets one password: whenever an account gets another one, a
\* link of that account turns from unused to used, and a used link stays so,
\* however many requests redeem or renew links at the same time.
LinksAreSingleUse ==
    [][/\ \A u \in Users :
             password[u] # None /\ password'[u] \notin {None, password[u]} =>
                 \E k \in ResetTokens :
                     tokens[k] = Link(u) /\ tokens'[k] = [Link(u) EXCEPT !.used = TRUE]
       /\ \A k \in ResetTokens : tokens[k].used => tokens'[k] = tokens[k]]_vars

\* When a reset or a deletion replaces a password, it leaves no session of
\* the account behind, even one that was opened while it was running.
NewPasswordRevokes ==
    [][\A u \in Users :
          password[u] # None /\ password'[u] # password[u] =>
              \A s \in Sessions : sessions'[s].user # u]_vars

\* A deleted account stays closed: no reset that was under way when it was
\* deleted gives it a password somebody knows.
DeletedIsClosed ==
    \A u \in Users : state[u] = "deleted" => password[u] = None

\* "A new password revokes all sessions": every session of an active account
\* was opened with the password it has now.  A login that read the old
\* password and commits after the reset opens one that was not.
SessionsKnowThePassword ==
    \A s \in Sessions, u \in Users :
        sessions[s].user = u /\ state[u] = "active" => sessions[s].password = password[u]

\* What would be so if login locked the account it checks, as reset_password
\* does: a session opens while the account has the password it was asked for.
FreshLogins ==
    \A c \in Requests, s \in Sessions :
        CommitLogin(c, s) => req[c].password = password[req[c].user]
============================================================================
