---------------------------- MODULE RolesProofs ----------------------------
(***************************************************************************)
(* Proofs about Roles.  What a request holds is stale, but two things it   *)
(* knows stay true until it commits: it deletes only rows of roles it also *)
(* records as revoked, and an author it has seen was granted the role and  *)
(* can only have lost it by a revocation.                                  *)
(***************************************************************************)
EXTENDS Roles, TLAPS

\* What update_user_roles has read: rows are looked up for roles that will
\* be recorded as revoked, and nobody revokes their own administration.
Revoking(s) ==
    /\ s.at = "edit" => s.found = {}
    /\ s.at = "lookup" =>
          /\ s.found \subseteq s.current \ s.wanted
          /\ s.todo \subseteq s.current \ s.wanted
          /\ s.user = s.actor => "administrator" \in s.wanted

WasGranted(k) ==
    /\ 0 < granted[k] + seeded[k]
    /\ k \in userRoles \/ 0 < revoked[k]

\* What decide_application has read: whoever was an author has been made one.
Approving(s) ==
    s.at = "looked" /\ s.found # {} => WasGranted(<<apps[s.app].user, "author">>)

RolesInv ==
    /\ RolesTypeOK
    /\ GrantsBalance
    /\ ApprovalsGrant
    /\ \A r \in Requests : Revoking(rq[r]) /\ Approving(rq[r])

----------------------------------------------------------------------------

LEMMA IdleFits == Idle \in Request /\ Idle.at = "idle"
  BY DEF Idle, Request

LEMMA KeysAre ==
    /\ \A u \in Users : <<u, "author">> \in Keys /\ <<u, "administrator">> \in Keys
    /\ SeedRows \subseteq Keys
    /\ \A u \in Users, C \in SUBSET RoleCodes : {u} \X C \in SUBSET Keys
  BY RolesAssumption DEF Keys

LEMMA InitRoles == Init => RolesInv
  <1> SUFFICES ASSUME Init PROVE RolesInv
    OBVIOUS
  <1>1. \A r \in Requests : rq[r] = Idle
    BY DEF Init
  <1>2. RolesTypeOK
    <2>1. /\ granted \in [Keys -> 0 .. MaxGrants] /\ seeded \in [Keys -> 0 .. MaxGrants]
          /\ revoked \in [Keys -> 0 .. MaxRevocations]
      BY RolesAssumption DEF Init
    <2>2. apps \in [Apps -> Application] /\ \A a \in Apps : apps[a].status = "absent"
      BY DEF Init, Application, NoApplication
    <2>3. rq \in [Requests -> Request] /\ userRoles \subseteq Keys
      BY IdleFits DEF Init
    <2>4. QED
      BY <1>1, <2>1, <2>2, <2>3, IdleFits DEF RolesTypeOK
  <1>3. GrantsBalance
    BY DEF Init, GrantsBalance
  <1>4. ApprovalsGrant
    BY DEF Init, ApprovalsGrant, NoApplication
  <1>5. \A r \in Requests : Revoking(rq[r]) /\ Approving(rq[r])
    BY <1>1, IdleFits DEF Revoking, Approving
  <1>6. QED
    BY <1>2, <1>3, <1>4, <1>5 DEF RolesInv

\* A counter with one more row for some keys stays a counter.
LEMMA LoggedTypes ==
    ASSUME NEW max \in Nat, NEW count \in [Keys -> 0 .. max], NEW K, K \subseteq Keys,
           Below(count, K, max)
    PROVE  /\ Logged(count, K) \in [Keys -> 0 .. max]
           /\ \A k \in Keys : Logged(count, K)[k] = IF k \in K THEN count[k] + 1 ELSE count[k]
  BY DEF Logged, Below

----------------------------------------------------------------------------
(* Steps that only change what one request holds *)

LEMMA GotoKeeps ==
    ASSUME RolesInv, NEW r \in Requests, NEW s \in Request, Goto(r, s),
           /\ s.at \in {"edit", "lookup", "apply", "insert"} => s.user \in Users
           /\ s.at \in {"edit", "lookup", "load"} => s.actor \in Users
           /\ s.at = "load" => s.app \in Apps
           /\ s.at \in {"decide", "flushed", "looked"} =>
                 s.app \in Apps /\ apps[s.app].status # "absent",
           Revoking(s), Approving(s)
    PROVE  RolesInv'
  <1>1. /\ rq' = [rq EXCEPT ![r] = s]
        /\ UNCHANGED <<userRoles, granted, revoked, seeded, apps>>
    BY DEF Goto, audit
  <1>2. rq \in [Requests -> Request]
    BY DEF RolesInv, RolesTypeOK
  <1>3. \A q \in Requests : rq'[q] = IF q = r THEN s ELSE rq[q]
    BY <1>1, <1>2
  <1>4. RolesTypeOK'
    BY <1>1, <1>2, <1>3 DEF RolesInv, RolesTypeOK
  <1>5. GrantsBalance' /\ ApprovalsGrant'
    BY <1>1 DEF RolesInv, GrantsBalance, ApprovalsGrant
  <1>6. \A q \in Requests : (Revoking(rq[q]) /\ Approving(rq[q]))'
    BY <1>1, <1>3 DEF RolesInv, Revoking, Approving, WasGranted
  <1>7. QED
    BY <1>4, <1>5, <1>6 DEF RolesInv

LEMMA EditReads ==
    ASSUME RolesInv, NEW r \in Requests,
           BeginEdit(r) \/ ReadRoles(r) \/ LookUpRole(r) \/ AbortRequest(r)
    PROVE  RolesInv'
  <1>0. rq[r] \in Request /\ rq \in [Requests -> Request]
    BY DEF RolesInv, RolesTypeOK
  <1>1. CASE BeginEdit(r)
    <2>1. PICK a \in Administrators, u \in Users, w \in SUBSET RoleCodes :
             Goto(r, [Idle EXCEPT !.at = "edit", !.actor = a, !.user = u,
                                  !.wanted = w, !.current = RolesOf(a)])
      BY <1>1 DEF BeginEdit
    <2>2. a \in Users /\ RolesOf(a) \subseteq RoleCodes
      BY DEF Administrators, RolesOf
    <2>3. QED
      BY <2>1, <2>2, GotoKeeps DEF Idle, Request, Revoking, Approving
  <1>2. CASE ReadRoles(r)
    <2>1. Loaded(rq[r]) \in SUBSET RoleCodes
      BY <1>0 DEF Loaded, RolesOf, Request
    <2>2. rq[r].user \in Users /\ rq[r].actor \in Users
      BY <1>2 DEF ReadRoles, RolesInv, RolesTypeOK
    <2>3. PICK s : s = [rq[r] EXCEPT !.at = "lookup", !.current = Loaded(rq[r]),
                                     !.todo = Loaded(rq[r]) \ rq[r].wanted]
      OBVIOUS
    <2>4. /\ s \in Request /\ s.at = "lookup" /\ s.user = rq[r].user /\ s.actor = rq[r].actor
          /\ s.todo = s.current \ s.wanted /\ s.found = {} /\ s.wanted = rq[r].wanted
      BY <1>0, <1>2, <2>1, <2>3 DEF Request, ReadRoles, RolesInv, Revoking
    <2>5. QED
      BY <1>2, <2>2, <2>3, <2>4, GotoKeeps DEF ReadRoles, Revoking, Approving
  <1>3. CASE LookUpRole(r)
    <2>1. PICK c \in rq[r].todo :
             Goto(r, [rq[r] EXCEPT !.todo = @ \ {c},
                                   !.found = @ \cup ({c} \cap RolesOf(rq[r].user))])
      BY <1>3 DEF LookUpRole
    <2>2. PICK s : s = [rq[r] EXCEPT !.todo = @ \ {c},
                                     !.found = @ \cup ({c} \cap RolesOf(rq[r].user))]
      OBVIOUS
    <2>3. /\ rq[r].at = "lookup" /\ rq[r].user \in Users /\ rq[r].actor \in Users
          /\ Revoking(rq[r])
      BY <1>3 DEF LookUpRole, RolesInv, RolesTypeOK
    <2>4. /\ s.at = "lookup" /\ s.user = rq[r].user /\ s.actor = rq[r].actor
          /\ s.wanted = rq[r].wanted /\ s.current = rq[r].current
          /\ s.todo = rq[r].todo \ {c}
          /\ s.found = rq[r].found \cup ({c} \cap RolesOf(rq[r].user))
      BY <1>0, <2>2, <2>3 DEF Request
    <2>5. s \in Request
      BY <1>0, <2>2, <2>4 DEF Request
    <2>6. Revoking(s)
      BY <2>1, <2>3, <2>4 DEF Revoking
    <2>7. QED
      BY <2>1, <2>2, <2>3, <2>4, <2>5, <2>6, GotoKeeps DEF Approving
  <1>4. CASE AbortRequest(r)
    BY <1>4, IdleFits, GotoKeeps DEF AbortRequest, Revoking, Approving
  <1>5. QED
    BY <1>1, <1>2, <1>3, <1>4

LEMMA ApplicationReads ==
    ASSUME RolesInv, NEW r \in Requests,
           \/ BeginApply(r) \/ CheckApply(r) \/ BeginDecide(r)
           \/ LoadApplication(r) \/ FlushApproval(r)
    PROVE  RolesInv'
  <1>0. rq[r] \in Request /\ rq \in [Requests -> Request] /\ RolesTypeOK
    BY DEF RolesInv, RolesTypeOK
  <1>1. CASE BeginApply(r)
    BY <1>1, GotoKeeps DEF BeginApply, Idle, Request, Revoking, Approving
  <1>2. CASE BeginDecide(r)
    <2>1. PICK d \in Administrators, a \in Apps, yes \in BOOLEAN :
             Goto(r, [Idle EXCEPT !.at = "load", !.actor = d, !.app = a, !.approve = yes])
      BY <1>2 DEF BeginDecide
    <2>2. d \in Users
      BY DEF Administrators
    <2>3. QED
      BY <2>1, <2>2, GotoKeeps DEF Idle, Request, Revoking, Approving
  <1>3. ASSUME NEW t \in {"insert", "decide", "flushed"}, Goto(r, [rq[r] EXCEPT !.at = t]),
               t = "insert" => rq[r].user \in Users,
               t # "insert" => rq[r].app \in Apps /\ apps[rq[r].app].status # "absent"
        PROVE  RolesInv'
    <2>1. PICK s : s = [rq[r] EXCEPT !.at = t]
      OBVIOUS
    <2>2. s \in Request /\ s.at = t /\ s.user = rq[r].user /\ s.app = rq[r].app
      BY <1>0, <2>1 DEF Request
    <2>3. QED
      BY <1>3, <2>1, <2>2, GotoKeeps DEF Revoking, Approving
  <1>4. CASE CheckApply(r)
    BY <1>0, <1>3, <1>4 DEF CheckApply, RolesTypeOK
  <1>5. CASE LoadApplication(r)
    BY <1>0, <1>3, <1>5 DEF LoadApplication, RolesTypeOK
  <1>6. CASE FlushApproval(r)
    BY <1>0, <1>3, <1>6 DEF FlushApproval, RolesTypeOK
  <1>7. QED
    BY <1>1, <1>2, <1>4, <1>5, <1>6

\* Whoever is seen to be an author has been made one.
LEMMA LookUpSees == ASSUME RolesInv, NEW r \in Requests, LookUpAuthor(r) PROVE RolesInv'
  <1>0. /\ rq[r] \in Request /\ rq[r].at = "flushed" /\ rq[r].app \in Apps
        /\ apps[rq[r].app].status # "absent" /\ apps[rq[r].app].user \in Users
    BY DEF RolesInv, RolesTypeOK, LookUpAuthor
  <1>1. PICK s : s = [rq[r] EXCEPT !.at = "looked",
                                   !.found = {"author"} \cap RolesOf(apps[rq[r].app].user)]
    OBVIOUS
  <1>2. /\ s \in Request /\ s.at = "looked" /\ s.app = rq[r].app
        /\ s.found = {"author"} \cap RolesOf(apps[rq[r].app].user)
    BY <1>0, <1>1, RolesAssumption DEF Request
  <1>3. ASSUME s.found # {} PROVE WasGranted(<<apps[s.app].user, "author">>)
    BY <1>0, <1>2, <1>3, KeysAre DEF RolesInv, GrantsBalance, WasGranted, RolesOf
  <1>4. QED
    BY <1>0, <1>1, <1>2, <1>3, GotoKeeps DEF LookUpAuthor, Revoking, Approving

----------------------------------------------------------------------------
(* Steps that commit *)

\* What a commit has to establish: the types, the balance, that what was
\* granted stays granted, and that the applications it decides are covered.
LEMMA CommitKeeps ==
    ASSUME RolesInv, RolesTypeOK', GrantsBalance',
           \A k \in Keys : WasGranted(k) => WasGranted(k)',
           \A q \in Requests : rq'[q] = rq[q] \/ rq'[q] = Idle,
           \A a \in Apps : apps[a].status # "absent" => apps'[a].user = apps[a].user,
           \A a \in Apps, u \in Users :
               apps'[a].status = "approved" /\ apps'[a].user = u =>
                   \/ apps[a].status = "approved" /\ apps[a].user = u
                   \/ WasGranted(<<u, "author">>)'
    PROVE  RolesInv'
  <1>1. ASSUME NEW a \in Apps, apps'[a].status = "approved"
        PROVE  \E u \in Users : u = apps'[a].user /\ WasGranted(<<u, "author">>)'
    <2>1. apps'[a].user \in Users
      BY <1>1 DEF RolesTypeOK
    <2>2. PICK u \in Users : u = apps'[a].user
      BY <2>1
    <2>3. CASE apps[a].status = "approved" /\ apps[a].user = u
      <3>1. WasGranted(<<u, "author">>)
        BY <2>3 DEF RolesInv, ApprovalsGrant, WasGranted
      <3>2. QED
        BY <2>2, <3>1, KeysAre
    <2>4. QED
      BY <1>1, <2>2, <2>3
  <1>2. ApprovalsGrant'
    BY <1>1 DEF ApprovalsGrant, WasGranted
  <1>3. ASSUME NEW q \in Requests PROVE Revoking(rq[q])' /\ Approving(rq[q])'
    <2>1. CASE rq'[q] = Idle
      BY <2>1, IdleFits DEF Revoking, Approving
    <2>2. CASE rq'[q] = rq[q]
      <3>1. Revoking(rq[q]) /\ Approving(rq[q])
        BY DEF RolesInv
      <3>2. ASSUME rq[q].at = "looked", rq[q].found # {}
            PROVE  WasGranted(<<apps[rq[q].app].user, "author">>)'
        <4>1. /\ rq[q].app \in Apps /\ apps[rq[q].app].status # "absent"
              /\ apps[rq[q].app].user \in Users
          BY <3>2 DEF RolesInv, RolesTypeOK
        <4>2. PICK u \in Users : u = apps[rq[q].app].user
          BY <4>1
        <4>3. WasGranted(<<u, "author">>)'
          BY <3>1, <3>2, <4>2, KeysAre DEF Approving
        <4>4. apps'[rq'[q].app].user = u
          BY <2>2, <4>1, <4>2
        <4>5. QED
          BY <4>3, <4>4 DEF WasGranted
      <3>3. QED
        BY <2>2, <3>1, <3>2 DEF Revoking, Approving
    <2>3. QED
      BY <2>1, <2>2
  <1>4. QED
    BY <1>2, <1>3 DEF RolesInv

\* Counts that only grow, and no row that goes without a revocation.
LEMMA GrantedStays ==
    ASSUME RolesInv, RolesTypeOK', NEW k \in Keys, WasGranted(k),
           granted'[k] >= granted[k], seeded'[k] >= seeded[k], revoked'[k] >= revoked[k],
           k \in userRoles => k \in userRoles' \/ 0 < revoked'[k]
    PROVE  WasGranted(k)'
  <1>1. /\ granted[k] \in Nat /\ seeded[k] \in Nat /\ revoked[k] \in Nat
        /\ granted'[k] \in Nat /\ seeded'[k] \in Nat /\ revoked'[k] \in Nat
    BY RolesAssumption DEF RolesInv, RolesTypeOK
  <1>2. QED
    BY <1>1 DEF WasGranted

\* The types of the tables while requests only go back to rest.
LEMMA TablesFit ==
    ASSUME RolesInv, userRoles' \subseteq Keys,
           granted' \in [Keys -> 0 .. MaxGrants], seeded' \in [Keys -> 0 .. MaxGrants],
           revoked' \in [Keys -> 0 .. MaxRevocations], apps' \in [Apps -> Application],
           \A a \in Apps : apps'[a].status # "absent" => apps'[a].user \in Users,
           \A a \in Apps : apps[a].status # "absent" => apps'[a].status # "absent",
           rq' \in [Requests -> Request],
           \A q \in Requests : rq'[q] = rq[q] \/ rq'[q] = Idle
    PROVE  RolesTypeOK'
  BY IdleFits DEF RolesInv, RolesTypeOK

LEMMA SeedKeeps == ASSUME RolesInv, Seed PROVE RolesInv'
  <1> DEFINE new == SeedRows \ userRoles
  <1>0. RolesTypeOK /\ GrantsBalance
    BY DEF RolesInv
  <1>1. /\ userRoles' = userRoles \cup new /\ seeded' = Logged(seeded, new)
        /\ Below(seeded, new, MaxGrants) /\ UNCHANGED <<granted, revoked, apps, rq>>
        /\ new \subseteq Keys /\ new \cap userRoles = {}
    BY KeysAre DEF Seed, audit
  <1> HIDE DEF new
  <1>2. /\ seeded' \in [Keys -> 0 .. MaxGrants]
        /\ \A k \in Keys : seeded'[k] = IF k \in new THEN seeded[k] + 1 ELSE seeded[k]
    BY <1>0, <1>1, LoggedTypes, RolesAssumption DEF RolesTypeOK
  <1>3. RolesTypeOK'
    BY <1>0, <1>1, <1>2, TablesFit DEF RolesTypeOK
  <1>4. \A k \in Keys : granted[k] \in Nat /\ seeded[k] \in Nat /\ revoked[k] \in Nat
    BY <1>0, RolesAssumption DEF RolesTypeOK
  <1>5. GrantsBalance'
    BY <1>0, <1>1, <1>2, <1>4 DEF GrantsBalance
  <1>6. \A k \in Keys : WasGranted(k) => WasGranted(k)'
    BY <1>1, <1>2, <1>3, <1>4, GrantedStays
  <1>7. QED
    BY <1>1, <1>3, <1>5, <1>6, CommitKeeps

LEMMA CommitEditKeeps == ASSUME RolesInv, NEW r \in Requests, CommitEdit(r) PROVE RolesInv'
  <1>0. RolesTypeOK /\ GrantsBalance /\ Revoking(rq[r]) /\ rq[r] \in Request
    BY DEF RolesInv, RolesTypeOK
  <1>1. PICK grants, revokes, deleted :
          /\ grants = {rq[r].user} \X (rq[r].wanted \ rq[r].current)
          /\ revokes = {rq[r].user} \X (rq[r].current \ rq[r].wanted)
          /\ deleted = {rq[r].user} \X rq[r].found
    OBVIOUS
  <1>2. /\ rq[r].at = "lookup" /\ rq[r].user \in Users
        /\ grants \cap userRoles = {}
        /\ Below(granted, grants, MaxGrants) /\ Below(revoked, revokes, MaxRevocations)
        /\ userRoles' = (userRoles \ deleted) \cup grants
        /\ granted' = Logged(granted, grants) /\ revoked' = Logged(revoked, revokes)
        /\ rq' = [rq EXCEPT ![r] = Idle] /\ UNCHANGED <<seeded, apps>>
    BY <1>0, <1>1 DEF CommitEdit, RolesTypeOK
  <1>3. grants \subseteq Keys /\ revokes \subseteq Keys /\ deleted \subseteq revokes
        /\ grants \cap revokes = {}
    BY <1>0, <1>1, <1>2 DEF Keys, Request, Revoking
  <1>4. /\ granted' \in [Keys -> 0 .. MaxGrants] /\ revoked' \in [Keys -> 0 .. MaxRevocations]
        /\ \A k \in Keys :
              /\ granted'[k] = IF k \in grants THEN granted[k] + 1 ELSE granted[k]
              /\ revoked'[k] = IF k \in revokes THEN revoked[k] + 1 ELSE revoked[k]
    BY <1>0, <1>2, <1>3, LoggedTypes, RolesAssumption DEF RolesTypeOK
  <1>5. RolesTypeOK'
    BY <1>0, <1>2, <1>3, <1>4, IdleFits, TablesFit DEF RolesTypeOK
  <1>6. \A k \in Keys : granted[k] \in Nat /\ seeded[k] \in Nat /\ revoked[k] \in Nat
    BY <1>0, RolesAssumption DEF RolesTypeOK
  <1>7. ASSUME NEW k \in Keys
        PROVE  /\ k \in userRoles' => 0 < granted'[k] + seeded'[k]
               /\ granted'[k] + seeded'[k] <= revoked'[k] + (IF k \in userRoles' THEN 1 ELSE 0)
    <2>1. CASE k \in grants
      BY <1>0, <1>2, <1>3, <1>4, <1>6, <2>1 DEF GrantsBalance
    <2>2. CASE k \in revokes
      BY <1>0, <1>2, <1>3, <1>4, <1>6, <2>2 DEF GrantsBalance
    <2>3. CASE k \notin grants \cup revokes
      BY <1>0, <1>2, <1>3, <1>4, <1>6, <2>3 DEF GrantsBalance
    <2>4. QED
      BY <2>1, <2>2, <2>3
  <1>8. GrantsBalance'
    BY <1>7 DEF GrantsBalance
  <1>9. ASSUME NEW k \in Keys, WasGranted(k) PROVE WasGranted(k)'
    <2>1. k \in userRoles => k \in userRoles' \/ 0 < revoked'[k]
      BY <1>2, <1>3, <1>4, <1>6
    <2>2. granted'[k] >= granted[k] /\ seeded'[k] >= seeded[k] /\ revoked'[k] >= revoked[k]
      BY <1>2, <1>4, <1>6
    <2>3. QED
      BY <1>5, <1>9, <2>1, <2>2, GrantedStays
  <1>10. QED
    BY <1>0, <1>2, <1>5, <1>8, <1>9, CommitKeeps DEF RolesTypeOK

\* Commits of the applications.
LEMMA CommitApplyKeeps ==
    ASSUME RolesInv, NEW r \in Requests, NEW a \in Apps, CommitApply(r, a) PROVE RolesInv'
  <1>0. RolesTypeOK /\ GrantsBalance /\ rq[r].user \in Users
    BY DEF RolesInv, RolesTypeOK, CommitApply
  <1>1. /\ UNCHANGED <<userRoles, granted, revoked, seeded>> /\ rq' = [rq EXCEPT ![r] = Idle]
        /\ apps[a].status = "absent"
        /\ \A b \in Apps : apps'[b] = IF b = a THEN [user |-> rq[r].user, status |-> "submitted"]
                                                ELSE apps[b]
        /\ apps' \in [Apps -> Application]
    BY <1>0 DEF CommitApply, audit, RolesTypeOK, Application
  <1>2. RolesTypeOK'
    BY <1>0, <1>1, IdleFits, TablesFit DEF RolesTypeOK
  <1>3. GrantsBalance'
    BY <1>0, <1>1 DEF GrantsBalance
  <1>4. \A k \in Keys : WasGranted(k) => WasGranted(k)'
    BY <1>1 DEF WasGranted
  <1>5. QED
    BY <1>0, <1>1, <1>2, <1>3, <1>4, CommitKeeps DEF RolesTypeOK

\* What Decide leaves of the applications.
LEMMA DecideWrites ==
    ASSUME RolesTypeOK, NEW r \in Requests, NEW o \in {"approved", "rejected"}, Decide(r, o),
           rq[r].at \in {"decide", "looked"}
    PROVE  /\ apps' \in [Apps -> Application] /\ rq[r].app \in Apps
           /\ \A a \in Apps : apps'[a].user = apps[a].user
           /\ \A a \in Apps : apps'[a].status = IF a = rq[r].app THEN o ELSE apps[a].status
           /\ \A a \in Apps : apps'[a].status # "absent" => apps'[a].user \in Users
           /\ apps[rq[r].app].user \in Users
           /\ rq' = [rq EXCEPT ![r] = Idle] /\ seeded' = seeded
  BY DEF RolesTypeOK, Application, Decide

LEMMA CommitRejectionKeeps ==
    ASSUME RolesInv, NEW r \in Requests, CommitRejection(r) PROVE RolesInv'
  <1>0. RolesTypeOK /\ GrantsBalance
    BY DEF RolesInv
  <1>1. /\ UNCHANGED <<userRoles, granted, revoked>> /\ Decide(r, "rejected")
        /\ rq[r].at = "decide"
    BY DEF CommitRejection, audit
  <1>2. /\ apps' \in [Apps -> Application] /\ rq' = [rq EXCEPT ![r] = Idle] /\ seeded' = seeded
        /\ \A a \in Apps : /\ apps'[a].user = apps[a].user
                           /\ apps'[a].status \in {"rejected", apps[a].status}
                           /\ apps'[a].status # "absent" => apps'[a].user \in Users
    BY <1>0, <1>1, DecideWrites
  <1>3. RolesTypeOK'
    BY <1>0, <1>1, <1>2, IdleFits, TablesFit DEF RolesTypeOK
  <1>4. GrantsBalance' /\ \A k \in Keys : WasGranted(k) => WasGranted(k)'
    BY <1>0, <1>1, <1>2 DEF GrantsBalance, WasGranted
  <1>5. QED
    BY <1>0, <1>2, <1>3, <1>4, CommitKeeps DEF RolesTypeOK

LEMMA CommitApprovalKeeps ==
    ASSUME RolesInv, NEW r \in Requests, CommitApproval(r) PROVE RolesInv'
  <1>0. RolesTypeOK /\ GrantsBalance /\ Approving(rq[r])
    BY DEF RolesInv
  <1>1. Decide(r, "approved") /\ rq[r].at = "looked" /\ revoked' = revoked
    BY DEF CommitApproval
  <1>2. /\ apps' \in [Apps -> Application] /\ rq' = [rq EXCEPT ![r] = Idle] /\ seeded' = seeded
        /\ \A a \in Apps : /\ apps'[a].user = apps[a].user
                           /\ apps'[a].status = IF a = rq[r].app THEN "approved" ELSE apps[a].status
                           /\ apps'[a].status # "absent" => apps'[a].user \in Users
        /\ rq[r].app \in Apps /\ apps[rq[r].app].user \in Users
    BY <1>0, <1>1, DecideWrites
  <1>3. PICK k \in Keys : k = <<apps[rq[r].app].user, "author">>
    BY <1>2, KeysAre
  <1>4. \/ /\ rq[r].found # {}
           /\ UNCHANGED <<userRoles, granted>>
        \/ /\ rq[r].found = {}
           /\ k \notin userRoles
           /\ Below(granted, {k}, MaxGrants)
           /\ userRoles' = userRoles \cup {k}
           /\ granted' = Logged(granted, {k})
    BY <1>3 DEF CommitApproval
  <1>5. \A j \in Keys : granted[j] \in Nat /\ seeded[j] \in Nat /\ revoked[j] \in Nat
    BY <1>0, RolesAssumption DEF RolesTypeOK
  <1>6. /\ RolesTypeOK' /\ GrantsBalance' /\ \A j \in Keys : WasGranted(j) => WasGranted(j)'
        /\ WasGranted(k)'
    <2>1. CASE rq[r].found # {} /\ UNCHANGED <<userRoles, granted>>
      <3>1. RolesTypeOK'
        BY <1>0, <1>1, <1>2, <2>1, IdleFits, TablesFit DEF RolesTypeOK
      <3>2. GrantsBalance' /\ \A j \in Keys : WasGranted(j) => WasGranted(j)'
        BY <1>0, <1>1, <1>2, <2>1 DEF GrantsBalance, WasGranted
      <3>3. WasGranted(k)
        BY <1>0, <1>1, <1>3, <2>1 DEF Approving
      <3>4. QED
        BY <3>1, <3>2, <3>3
    <2>2. CASE rq[r].found = {} /\ k \notin userRoles
      <3>1. /\ granted' \in [Keys -> 0 .. MaxGrants] /\ userRoles' = userRoles \cup {k}
            /\ \A j \in Keys : granted'[j] = IF j = k THEN granted[j] + 1 ELSE granted[j]
        <4>1. /\ granted' = Logged(granted, {k}) /\ userRoles' = userRoles \cup {k}
              /\ Below(granted, {k}, MaxGrants)
          BY <1>4, <2>2
        <4>2. granted \in [Keys -> 0 .. MaxGrants] /\ MaxGrants \in Nat /\ {k} \subseteq Keys
          BY <1>0, RolesAssumption DEF RolesTypeOK
        <4>3. \A j \in Keys : (j \in {k}) = (j = k)
          OBVIOUS
        <4>4. PICK K : K = {k}
          OBVIOUS
        <4>5. /\ Logged(granted, K) \in [Keys -> 0 .. MaxGrants]
              /\ \A j \in Keys : Logged(granted, K)[j] = IF j \in K THEN granted[j] + 1 ELSE granted[j]
          <5>1. Below(granted, K, MaxGrants) /\ K \subseteq Keys
            BY <4>1, <4>2, <4>4
          <5>2. QED
            BY <4>2, <5>1, LoggedTypes
        <4>6. QED
          BY <4>1, <4>3, <4>4, <4>5
      <3>2. RolesTypeOK'
        BY <1>0, <1>1, <1>2, <3>1, IdleFits, TablesFit DEF RolesTypeOK
      <3>3. GrantsBalance'
        BY <1>0, <1>1, <1>2, <1>5, <2>2, <3>1 DEF GrantsBalance
      <3>4. \A j \in Keys : WasGranted(j) => WasGranted(j)'
        BY <1>1, <1>2, <1>5, <3>1, <3>2, GrantedStays
      <3>5. WasGranted(k)'
        BY <1>2, <1>5, <3>1 DEF WasGranted
      <3>6. QED
        BY <3>2, <3>3, <3>4, <3>5
    <2>3. QED
      BY <1>4, <2>1, <2>2
  <1>7. ASSUME NEW a \in Apps, NEW u \in Users, apps'[a].status = "approved", apps'[a].user = u
        PROVE  \/ apps[a].status = "approved" /\ apps[a].user = u
               \/ WasGranted(<<u, "author">>)'
    <2>1. CASE a = rq[r].app
      <3>1. k = <<u, "author">>
        BY <1>2, <1>3, <1>7, <2>1
      <3>2. QED
        BY <1>6, <3>1
    <2>2. CASE a # rq[r].app
      BY <1>2, <1>7, <2>2
    <2>3. QED
      BY <2>1, <2>2
  <1>8. QED
    BY <1>0, <1>2, <1>6, <1>7, CommitKeeps DEF RolesTypeOK
----------------------------------------------------------------------------

LEMMA NextRoles == RolesInv /\ [Next]_vars => RolesInv'
  <1> SUFFICES ASSUME RolesInv, [Next]_vars PROVE RolesInv'
    OBVIOUS
  <1>1. CASE Seed
    BY <1>1, SeedKeeps
  <1>2. ASSUME NEW r \in Requests, RequestStep(r) PROVE RolesInv'
    BY <1>2, EditReads, ApplicationReads, LookUpSees, CommitEditKeeps, CommitApplyKeeps,
       CommitRejectionKeeps, CommitApprovalKeeps DEF RequestStep
  <1>3. CASE UNCHANGED vars
    BY <1>3 DEF vars, audit, RolesInv, RolesTypeOK, GrantsBalance, ApprovalsGrant,
       Revoking, Approving, WasGranted
  <1>4. QED
    BY <1>1, <1>2, <1>3 DEF Next

\* The invariant holds in every reachable state.
THEOREM RolesInvariant == Spec => []RolesInv
  BY InitRoles, NextRoles, PTL DEF Spec

\* Every variable has its type, and what a request is about to write names
\* an existing user and application (update_user_roles, decide_application).
THEOREM RolesTypes == Spec => []RolesTypeOK
  <1>1. RolesInv => RolesTypeOK
    BY DEF RolesInv
  <1>2. QED
    BY RolesInvariant, <1>1, PTL

\* For any users, roles and number of requests, a grant in user_role_audit
\* was a real one: a role is granted at most once more than it is revoked.
THEOREM GrantsAreReal == Spec => []GrantsBalance
  <1>1. RolesInv => GrantsBalance
    BY DEF RolesInv
  <1>2. QED
    BY RolesInvariant, <1>1, PTL

\* However decisions and edits of roles overlap, an approved applicant was
\* made an author and only a recorded revocation takes the role away.
THEOREM ApprovalsMakeAuthors == Spec => []ApprovalsGrant
  <1>1. RolesInv => ApprovalsGrant
    BY DEF RolesInv
  <1>2. QED
    BY RolesInvariant, <1>1, PTL

\* The check of update_user_roles on one's own role: only a request whose
\* administrator has meanwhile lost the role can remove the last one.
LEMMA LastGoes ==
    ASSUME RolesInv, [Next]_vars, Administrators # {}, Administrators' = {}
    PROVE  \E r \in Requests : rq[r].at = "lookup" /\ rq[r].actor \in Users \ Administrators
  <1>1. PICK x \in Users : <<x, "administrator">> \in userRoles
    BY DEF Administrators
  <1>2. \A u \in Users : <<u, "administrator">> \notin userRoles'
    BY DEF Administrators
  <1>3. \E r \in Requests : CommitEdit(r)
    BY <1>1, <1>2 DEF Next, vars, audit, Seed, RequestStep, Goto, BeginEdit, ReadRoles,
       LookUpRole, BeginApply, CheckApply, CommitApply, BeginDecide, LoadApplication,
       CommitRejection, FlushApproval, LookUpAuthor, CommitApproval, AbortRequest
  <1>4. PICK r \in Requests : CommitEdit(r)
    BY <1>3
  <1>5. /\ rq[r].at = "lookup" /\ rq[r].actor \in Users /\ Revoking(rq[r])
        /\ userRoles \ ({rq[r].user} \X rq[r].found) \subseteq userRoles'
    BY <1>4 DEF CommitEdit, RolesInv, RolesTypeOK
  <1>6. SUFFICES ASSUME rq[r].actor \in Administrators PROVE FALSE
    BY <1>5
  <1>7. <<rq[r].actor, "administrator">> \in {rq[r].user} \X rq[r].found
    BY <1>2, <1>5, <1>6 DEF Administrators
  <1>8. rq[r].user = rq[r].actor /\ "administrator" \in rq[r].found
    BY <1>7
  <1>9. QED
    BY <1>5, <1>8 DEF Revoking

\* The check on one's own role keeps the last administrator in place unless
\* edits overlap (update_user_roles), for any number of them.
THEOREM LastAdministrator == Spec => LastAdministratorGoesInARace
  <1>1. RolesInv /\ [Next]_vars =>
            [Administrators # {} /\ Administrators' = {} =>
               \E r \in Requests : /\ rq[r].at = "lookup"
                                   /\ rq[r].actor \in Users \ Administrators]_vars
    BY LastGoes
  <1>2. QED
    BY RolesInvariant, <1>1, PTL DEF Spec, LastAdministratorGoesInARace
============================================================================
