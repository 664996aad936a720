------------------------------- MODULE Roles -------------------------------
(***************************************************************************)
(* Roles and how they are come by: the administrator's editor of roles     *)
(* (api/routes/admin.py), the applications for the author role             *)
(* (api/routes/author_applications.py) and the seeds (seeds.py).           *)
(*                                                                         *)
(* No handler locks what it reads.  A request loads its own user with the  *)
(* roles, then what it works on, and writes at its COMMIT; the primary key *)
(* of user_roles is the only check made by the database.  The audit is     *)
(* append-only and is kept as a number of rows for each user, role and     *)
(* action.                                                                 *)
(***************************************************************************)
EXTENDS Naturals, FiniteSets

CONSTANTS
    Users,                  \* users
    RoleCodes,              \* the roles, RoleCode
    SeedRows,               \* the grants the seeds make, of <<user, role>>
    Apps,                   \* author_applications
    Requests,               \* requests in flight at once
    MaxGrants,              \* bound: grants of one role to one user, audited or seeded
    MaxRevocations,         \* bound: audited revocations of one role of one user
    None                    \* SQL NULL / no row

ASSUME RolesAssumption ==
    /\ {"administrator", "author"} \subseteq RoleCodes
    /\ SeedRows \subseteq Users \X RoleCodes
    /\ MaxGrants \in Nat /\ MaxRevocations \in Nat
    /\ None \notin Users \cup Apps

VARIABLES
    userRoles,   \* user_roles, a set of <<user, role>>
    granted,     \* user_role_audit: rows with action "granted" ...
    revoked,     \* ... and with action "revoked"
    seeded,      \* rows of user_roles the seeds have inserted, without an audit row
    apps,        \* author_applications
    rq           \* where each request is and what it holds

audit == <<granted, revoked>>
vars == <<userRoles, audit, seeded, apps, rq>>

Keys == Users \X RoleCodes

Application == [user   : Users \cup {None},
                status : {"absent", "submitted", "approved", "rejected"}]
NoApplication == [user |-> None, status |-> "absent"]

\* wanted: the roles asked for; current: the roles loaded; todo: the rows of
\* user_roles still to be looked up, found: those that were there.
Request == [at      : {"idle", "edit", "lookup", "apply", "insert", "load", "decide", "flushed", "looked"},
            actor   : Users \cup {None},
            user    : Users \cup {None},
            wanted  : SUBSET RoleCodes,
            current : SUBSET RoleCodes,
            todo    : SUBSET RoleCodes,
            found   : SUBSET RoleCodes,
            app     : Apps \cup {None},
            approve : BOOLEAN]

Idle == [at |-> "idle", actor |-> None, user |-> None, wanted |-> {}, current |-> {},
         todo |-> {}, found |-> {}, app |-> None, approve |-> FALSE]

\* Every variable has its type, and a request that is going to write knows
\* whom it writes about.
RolesTypeOK ==
    /\ userRoles \subseteq Keys
    /\ granted \in [Keys -> 0 .. MaxGrants]
    /\ revoked \in [Keys -> 0 .. MaxRevocations]
    /\ seeded \in [Keys -> 0 .. MaxGrants]
    /\ apps \in [Apps -> Application]
    /\ rq \in [Requests -> Request]
    /\ \A a \in Apps : apps[a].status # "absent" => apps[a].user \in Users
    /\ \A r \in Requests :
          /\ rq[r].at \in {"edit", "lookup", "apply", "insert"} => rq[r].user \in Users
          /\ rq[r].at \in {"edit", "lookup", "load"} => rq[r].actor \in Users
          /\ rq[r].at = "load" => rq[r].app \in Apps
          /\ rq[r].at \in {"decide", "flushed", "looked"} =>
                rq[r].app \in Apps /\ apps[rq[r].app].status # "absent"

Init ==
    /\ userRoles = {}
    /\ granted = [k \in Keys |-> 0]
    /\ revoked = [k \in Keys |-> 0]
    /\ seeded = [k \in Keys |-> 0]
    /\ apps = [a \in Apps |-> NoApplication]
    /\ rq = [r \in Requests |-> Idle]

RolesOf(u) == {c \in RoleCodes : <<u, c>> \in userRoles}
Administrators == {u \in Users : <<u, "administrator">> \in userRoles}

\* One more row for each key of K.
Logged(count, K) == [k \in Keys |-> IF k \in K THEN count[k] + 1 ELSE count[k]]
Below(count, K, max) == \A k \in K : count[k] < max

----------------------------------------------------------------------------
(* seeds.py: one transaction that inserts the grants that are missing *)

Seed ==
    LET new == SeedRows \ userRoles
    IN  /\ new # {}
        /\ Below(seeded, new, MaxGrants)
        /\ userRoles' = userRoles \cup new
        /\ seeded' = Logged(seeded, new)
        /\ UNCHANGED <<audit, apps, rq>>

----------------------------------------------------------------------------
(* A request between two statements *)

Goto(r, s) ==
    /\ rq' = [rq EXCEPT ![r] = s]
    /\ UNCHANGED <<userRoles, audit, seeded, apps>>

\* An answer that is an error: nothing of the transaction stays.
AbortRequest(r) ==
    /\ rq[r].at # "idle"
    /\ Goto(r, Idle)

----------------------------------------------------------------------------
(* update_user_roles *)

\* get_current_user loads the administrator with their roles.
BeginEdit(r) ==
    /\ rq[r].at = "idle"
    /\ \E a \in Administrators, u \in Users, w \in SUBSET RoleCodes :
          Goto(r, [Idle EXCEPT !.at = "edit", !.actor = a, !.user = u,
                               !.wanted = w, !.current = RolesOf(a)])

\* Loads the user.  A session that has the user already (administrators who
\* edit themselves) keeps the roles it loaded before.
Loaded(s) == IF s.user = s.actor THEN s.current ELSE RolesOf(s.user)

\* Mutant: administrators may drop their own role.
ReadAnyRoles(r) ==
    /\ rq[r].at = "edit"
    /\ Goto(r, [rq[r] EXCEPT !.at = "lookup", !.current = Loaded(rq[r]),
                             !.todo = Loaded(rq[r]) \ rq[r].wanted])
ReadRoles(r) ==
    /\ rq[r].at = "edit"
    /\ rq[r].user = rq[r].actor => "administrator" \in rq[r].wanted
    /\ Goto(r, [rq[r] EXCEPT !.at = "lookup", !.current = Loaded(rq[r]),
                             !.todo = Loaded(rq[r]) \ rq[r].wanted])

\* session.get(UserRole) for the next role to revoke.
LookUpRole(r) ==
    /\ rq[r].at = "lookup"
    /\ \E c \in rq[r].todo :
          Goto(r, [rq[r] EXCEPT !.todo = @ \ {c}, !.found = @ \cup ({c} \cap RolesOf(rq[r].user))])

\* Deletes the rows that were found, which may be gone by now; inserts the
\* others, which the primary key refuses if they exist; and writes an audit
\* row for every role that was to be revoked or granted.
\* Mutant: and for every role that was to be kept.
CommitAllWanted(r) ==
    LET s == rq[r]
        grants == {s.user} \X (s.wanted \ s.current)
        revokes == {s.user} \X (s.current \ s.wanted)
    IN  /\ s.at = "lookup"
        /\ s.todo = {}
        /\ grants \cap userRoles = {}
        /\ Below(granted, {s.user} \X s.wanted, MaxGrants) /\ Below(revoked, revokes, MaxRevocations)
        /\ userRoles' = (userRoles \ ({s.user} \X s.found)) \cup grants
        /\ granted' = Logged(granted, {s.user} \X s.wanted)
        /\ revoked' = Logged(revoked, revokes)
        /\ rq' = [rq EXCEPT ![r] = Idle]
        /\ UNCHANGED <<seeded, apps>>
CommitEdit(r) ==
    LET s == rq[r]
        grants == {s.user} \X (s.wanted \ s.current)
        revokes == {s.user} \X (s.current \ s.wanted)
    IN  /\ s.at = "lookup"
        /\ s.todo = {}
        /\ grants \cap userRoles = {}
        /\ Below(granted, grants, MaxGrants) /\ Below(revoked, revokes, MaxRevocations)
        /\ userRoles' = (userRoles \ ({s.user} \X s.found)) \cup grants
        /\ granted' = Logged(granted, grants)
        /\ revoked' = Logged(revoked, revokes)
        /\ rq' = [rq EXCEPT ![r] = Idle]
        /\ UNCHANGED <<seeded, apps>>

----------------------------------------------------------------------------
(* create_application *)

BeginApply(r) ==
    /\ rq[r].at = "idle"
    /\ \E u \in Users :
          /\ "author" \notin RolesOf(u)
          /\ Goto(r, [Idle EXCEPT !.at = "apply", !.user = u])

CheckApply(r) ==
    /\ rq[r].at = "apply"
    /\ \A a \in Apps : apps[a].user = rq[r].user => apps[a].status # "submitted"
    /\ Goto(r, [rq[r] EXCEPT !.at = "insert"])

CommitApply(r, a) ==
    /\ rq[r].at = "insert"
    /\ apps[a].status = "absent"
    /\ apps' = [apps EXCEPT ![a] = [user |-> rq[r].user, status |-> "submitted"]]
    /\ rq' = [rq EXCEPT ![r] = Idle]
    /\ UNCHANGED <<userRoles, audit, seeded>>

----------------------------------------------------------------------------
(* decide_application *)

BeginDecide(r) ==
    /\ rq[r].at = "idle"
    /\ \E d \in Administrators, a \in Apps, yes \in BOOLEAN :
          Goto(r, [Idle EXCEPT !.at = "load", !.actor = d, !.app = a, !.approve = yes])

LoadApplication(r) ==
    /\ rq[r].at = "load"
    /\ apps[rq[r].app].status = "submitted"
    /\ Goto(r, [rq[r] EXCEPT !.at = "decide"])

\* The UPDATE of an application waits for a transaction that has made one.
Unlocked(a) == \A r \in Requests : rq[r].at \in {"flushed", "looked"} => rq[r].app # a

\* The UPDATE names the row by its key only and so is made on any status.
Decide(r, outcome) ==
    /\ apps' = [apps EXCEPT ![rq[r].app].status = outcome]
    /\ rq' = [rq EXCEPT ![r] = Idle]
    /\ UNCHANGED seeded

CommitRejection(r) ==
    /\ rq[r].at = "decide"
    /\ ~ rq[r].approve
    /\ Unlocked(rq[r].app)
    /\ Decide(r, "rejected")
    /\ UNCHANGED <<userRoles, audit>>

\* The SELECT of the author role flushes the UPDATE of the application.
FlushApproval(r) ==
    /\ rq[r].at = "decide"
    /\ rq[r].approve
    /\ Unlocked(rq[r].app)
    /\ Goto(r, [rq[r] EXCEPT !.at = "flushed"])

LookUpAuthor(r) ==
    /\ rq[r].at = "flushed"
    /\ Goto(r, [rq[r] EXCEPT !.at = "looked",
                             !.found = {"author"} \cap RolesOf(apps[rq[r].app].user)])

\* The grant and its audit row, unless the role was there.
\* Mutant: whoever is approved stays what they are.
ApproveOnly(r) ==
    /\ rq[r].at = "looked"
    /\ UNCHANGED <<userRoles, audit>>
    /\ Decide(r, "approved")
CommitApproval(r) ==
    LET k == <<apps[rq[r].app].user, "author">>
    IN  /\ rq[r].at = "looked"
        /\ \/ /\ rq[r].found # {}
              /\ UNCHANGED <<userRoles, granted>>
           \/ /\ rq[r].found = {}
              /\ k \notin userRoles
              /\ Below(granted, {k}, MaxGrants)
              /\ userRoles' = userRoles \cup {k}
              /\ granted' = Logged(granted, {k})
        /\ UNCHANGED revoked
        /\ Decide(r, "approved")

----------------------------------------------------------------------------

RequestStep(r) ==
    \/ BeginEdit(r) \/ ReadRoles(r) \/ LookUpRole(r) \/ CommitEdit(r)
    \/ BeginApply(r) \/ CheckApply(r) \/ \E a \in Apps : CommitApply(r, a)
    \/ BeginDecide(r) \/ LoadApplication(r) \/ CommitRejection(r)
    \/ FlushApproval(r) \/ LookUpAuthor(r) \/ CommitApproval(r)
    \/ AbortRequest(r)

Next == Seed \/ \E r \in Requests : RequestStep(r)

Spec == Init /\ [][Next]_vars

----------------------------------------------------------------------------
(* Properties *)

\* The audit and the table agree as far as overlapping edits allow: a role
\* that is held was granted or seeded, and was granted or seeded at most
\* once more often than it was revoked; one that is not held, at most as
\* often.  So every grant in the audit was a real one, although two
\* administrators may both record the same revocation.
GrantsBalance ==
    \A k \in Keys :
        /\ k \in userRoles => 0 < granted[k] + seeded[k]
        /\ granted[k] + seeded[k] <= revoked[k] + (IF k \in userRoles THEN 1 ELSE 0)

\* Whoever has an approved application was made an author, by the approval
\* or before, and still is one unless the audit shows the revocation; also
\* when the role comes and goes while the application is being decided.
ApprovalsGrant ==
    \A a \in Apps :
        apps[a].status = "approved" =>
            LET k == <<apps[a].user, "author">>
            IN  /\ 0 < granted[k] + seeded[k]
                /\ k \in userRoles \/ 0 < revoked[k]

\* The last administrator's role is only taken by somebody who has lost it
\* too while their request was under way: the check on one's own role keeps
\* an administrator in place as long as edits do not overlap.
LastAdministratorGoesInARace ==
    [][Administrators # {} /\ Administrators' = {} =>
          \E r \in Requests : /\ rq[r].at = "lookup"
                              /\ rq[r].actor \in Users \ Administrators]_vars
============================================================================
