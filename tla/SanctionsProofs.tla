-------------------------- MODULE SanctionsProofs --------------------------
(***************************************************************************)
(* The properties of Sanctions, proved for any number of accounts,         *)
(* suspensions and moderators.                                             *)
(*                                                                         *)
(* First, that a request of this module is about a suspension that was     *)
(* imposed and the account it was imposed on (Known): every step is then a *)
(* moderator's step of Accounts or none at all, so that what is proved of  *)
(* Accounts holds here.  With the types of Accounts that yields the second *)
(* invariant (Explained), whose heart is Spares: a moderator who approves  *)
(* an appeal and has seen no time to clear will find none of that          *)
(* suspension at the commit, because a suspension is imposed only once.    *)
(***************************************************************************)
EXTENDS Sanctions, AccountsProofs

USE AccountsAssumption, SanctionsAssumption

\* Only imposed suspensions are appealed.
AppealsAreOfImposed == \A x \in Suspensions : appeal[x] # "none" => x \in Imposed

\* What a moderator's or an appellant's request is about.
Concerns(m) ==
    review[m].op \in {"appeal", "decide", "approve"} =>
        /\ review[m].about \in Imposed
        /\ review[m].user = suspended[review[m].about]

Known ==
    /\ suspended \in [Suspensions -> Users \cup {None}]
    /\ appeal \in [Suspensions -> {"none", "submitted", "approved", "rejected"}]
    /\ review \in [Reviews -> Review]
    /\ AppealsAreOfImposed
    /\ \A m \in Reviews : Concerns(m)

----------------------------------------------------------------------------
(* What requests are about *)

LEMMA NoReviewTypes == NoReview \in Review /\ NoReview.op = "idle"
  BY DEF NoReview, Review

\* A request that begins.
LEMMA StartKnown ==
    ASSUME Known, NEW m \in Reviews, NEW r \in Review, Start(m, r),
           r.op \in {"appeal", "decide", "approve"} =>
               r.about \in Imposed /\ r.user = suspended[r.about]
    PROVE  Known'
  <1>1. review' = [review EXCEPT ![m] = r] /\ UNCHANGED <<suspended, appeal>>
    BY DEF Start
  <1>2. Imposed' = Imposed
    BY <1>1 DEF Imposed
  <1>3. review' \in [Reviews -> Review]
    BY <1>1 DEF Known
  <1>4. ASSUME NEW n \in Reviews
        PROVE  Concerns(n)'
    <2>1. review'[n] = IF n = m THEN r ELSE review[n]
      BY <1>1 DEF Known
    <2>2. QED
      BY <1>1, <1>2, <2>1 DEF Known, Concerns
  <1>5. QED
    BY <1>1, <1>2, <1>3, <1>4 DEF Known, AppealsAreOfImposed

\* A request that ends, and what it does to appeals of imposed suspensions.
LEMMA FinishKnown ==
    ASSUME Known, NEW m \in Reviews, Finish(m), UNCHANGED suspended,
           appeal' \in [Suspensions -> {"none", "submitted", "approved", "rejected"}],
           \A x \in Suspensions : appeal'[x] # "none" => x \in Imposed
    PROVE  Known'
  <1>1. Imposed' = Imposed
    BY DEF Imposed
  <1>2. review' \in [Reviews -> Review]
    BY NoReviewTypes DEF Known, Finish
  <1>3. ASSUME NEW n \in Reviews
        PROVE  Concerns(n)'
    <2>1. review'[n] = IF n = m THEN NoReview ELSE review[n]
      BY DEF Known, Finish
    <2>2. QED
      BY <1>1, <2>1, NoReviewTypes DEF Known, Concerns
  <1>4. QED
    BY <1>1, <1>2, <1>3 DEF Known, AppealsAreOfImposed

\* A decision of an appeal the request has read.
LEMMA DecisionKnown ==
    ASSUME Known, NEW m \in Reviews, Finish(m), UNCHANGED suspended,
           review[m].op \in {"appeal", "decide", "approve"},
           NEW s \in {"submitted", "approved", "rejected"},
           appeal' = [appeal EXCEPT ![review[m].about] = s]
    PROVE  Known'
  <1>1. review[m].about \in Imposed
    BY DEF Known, Concerns
  <1>2. \A x \in Suspensions : appeal'[x] # "none" => x \in Imposed
    BY <1>1 DEF Known, AppealsAreOfImposed
  <1>3. appeal' \in [Suspensions -> {"none", "submitted", "approved", "rejected"}]
    BY DEF Known
  <1>4. QED
    BY <1>2, <1>3, FinishKnown

\* A suspension that is imposed, by a request that ends with it if it has
\* begun before.
LEMMA ImposedKnown ==
    ASSUME Known, NEW u \in Users, NEW x \in Suspensions, Imposed = 1 .. (x - 1),
           suspended' = [suspended EXCEPT ![x] = u], UNCHANGED appeal,
           review' \in [Reviews -> Review],
           \A m \in Reviews : review'[m] \in {review[m], NoReview}
    PROVE  Known'
  <1>1. x \notin Imposed
    BY DEF Suspensions
  <1>2. suspended' \in [Suspensions -> Users \cup {None}]
    BY <1>1 DEF Known
  <1>3. \A y \in Imposed : y \in Imposed' /\ suspended'[y] = suspended[y]
    BY <1>1 DEF Known, Imposed
  <1>4. AppealsAreOfImposed'
    BY <1>1, <1>3 DEF Known, AppealsAreOfImposed
  <1>5. \A m \in Reviews : Concerns(m)'
    BY <1>1, <1>3, NoReviewTypes DEF Known, Concerns
  <1>6. QED
    BY <1>2, <1>4, <1>5 DEF Known

LEMMA SuspendKnown ==
    ASSUME Known, NEW u \in Users, NEW x \in Suspensions, SuspendUser(u, x)
    PROVE  Known'
  <1>1. /\ Imposed = 1 .. (x - 1)
        /\ suspended' = [suspended EXCEPT ![x] = u]
        /\ UNCHANGED <<appeal, review>>
    BY DEF SuspendUser
  <1>2. QED
    BY <1>1, ImposedKnown DEF Known

LEMMA SuspendAgainKnown ==
    ASSUME Known, NEW m \in Reviews, NEW x \in Suspensions, CommitSuspendAgain(m, x)
    PROVE  Known'
  <1>1. PICK u \in Users : u = review[m].user
    BY DEF CommitSuspendAgain, Known, Review
  <1>2. /\ Imposed = 1 .. (x - 1)
        /\ suspended' = [suspended EXCEPT ![x] = u]
        /\ UNCHANGED appeal
        /\ review' = [review EXCEPT ![m] = NoReview]
    BY <1>1 DEF CommitSuspendAgain, Finish
  <1>3. review' \in [Reviews -> Review]
    BY <1>2, NoReviewTypes DEF Known
  <1>4. \A n \in Reviews : review'[n] \in {review[n], NoReview}
    BY <1>2 DEF Known
  <1>5. QED
    BY <1>2, <1>3, <1>4, ImposedKnown

LEMMA BeginKnown ==
    ASSUME Known, NEW m \in Reviews, NEW x \in Suspensions,
           BeginAppeal(m, x) \/ BeginCurrentAppeal(m, x) \/ BeginDecide(m, x)
    PROVE  Known'
  <1>1. x \in Imposed
    BY DEF BeginAppeal, BeginCurrentAppeal, BeginDecide, Known, AppealsAreOfImposed
  <1>2. suspended[x] \in Users
    BY <1>1 DEF Known, Imposed
  <1>3. PICK op \in {"appeal", "decide"} :
            Start(m, [NoReview EXCEPT !.op = op, !.user = suspended[x], !.about = x])
    BY DEF BeginAppeal, BeginCurrentAppeal, BeginDecide, Appealing
  <1> DEFINE r == [NoReview EXCEPT !.op = op, !.user = suspended[x], !.about = x]
  <1>4. r \in Review /\ r.user = suspended[x] /\ r.about = x
    BY <1>2 DEF Review, NoReview
  <1>5. Start(m, r)
    BY <1>3
  <1> HIDE DEF r
  <1>6. QED
    BY <1>1, <1>4, <1>5, StartKnown

LEMMA LoadKnown ==
    ASSUME Known, NEW m \in Reviews, LoadAppellant(m)
    PROVE  Known'
  <1> DEFINE r == [review[m] EXCEPT !.op = "approve",
                                    !.clears = inForce[review[m].user] # None]
  <1>1. /\ review' = [review EXCEPT ![m] = r]
        /\ UNCHANGED <<suspended, appeal>>
        /\ review[m].op = "decide"
    BY DEF LoadAppellant
  <1>2. review[m] \in Review /\ review[m].about \in Imposed
        /\ review[m].user = suspended[review[m].about]
    BY <1>1 DEF Known, Concerns
  <1>3. r \in Review /\ r.about = review[m].about /\ r.user = review[m].user
    BY <1>1, <1>2 DEF Review, Imposed
  <1> HIDE DEF r
  <1>4. review' \in [Reviews -> Review]
    BY <1>1, <1>3 DEF Known
  <1>5. Imposed' = Imposed
    BY <1>1 DEF Imposed
  <1>6. ASSUME NEW n \in Reviews
        PROVE  Concerns(n)'
    <2>1. review'[n] = IF n = m THEN r ELSE review[n]
      BY <1>1 DEF Known
    <2>2. QED
      BY <1>1, <1>2, <1>3, <1>5, <2>1 DEF Known, Concerns
  <1>7. QED
    BY <1>1, <1>4, <1>5, <1>6 DEF Known, AppealsAreOfImposed

LEMMA NextKnown == Known /\ [ModeratedNext]_allVars => Known'
  <1> SUFFICES ASSUME Known, [ModeratedNext]_allVars PROVE Known'
    OBVIOUS
  <1>1. CASE UNCHANGED <<suspended, appeal, review>>
    BY <1>1 DEF Known, AppealsAreOfImposed, Concerns, Imposed
  <1>2. ASSUME NEW u \in Users, NEW x \in Suspensions, SuspendUser(u, x)
        PROVE  Known'
    BY <1>2, SuspendKnown
  <1>3. ASSUME NEW m \in Reviews, NEW u \in Users, BeginLift(m, u) \/ BeginSuspendAgain(m, u)
        PROVE  Known'
    <2>1. PICK r \in Review : Start(m, r) /\ r.op \in {"lift", "again"}
      <3>1. /\ [NoReview EXCEPT !.op = "lift", !.user = u, !.clears = TRUE] \in Review
            /\ [NoReview EXCEPT !.op = "again", !.user = u] \in Review
        BY DEF NoReview, Review
      <3>2. CASE BeginLift(m, u)
        BY <3>1, <3>2 DEF BeginLift, NoReview
      <3>3. CASE BeginSuspendAgain(m, u)
        BY <3>1, <3>3 DEF BeginSuspendAgain, NoReview
      <3>4. QED
        BY <1>3, <3>2, <3>3
    <2>2. QED
      BY <2>1, StartKnown
  <1>a. ASSUME NEW m \in Reviews, NEW x \in Suspensions, CommitSuspendAgain(m, x)
        PROVE  Known'
    BY <1>a, SuspendAgainKnown
  <1>4. ASSUME NEW m \in Reviews, NEW x \in Suspensions,
               BeginAppeal(m, x) \/ BeginCurrentAppeal(m, x) \/ BeginDecide(m, x)
        PROVE  Known'
    BY <1>4, BeginKnown
  <1>5. ASSUME NEW m \in Reviews, CommitLift(m) \/ AbortReview(m)
        PROVE  Known'
    BY <1>5, FinishKnown DEF CommitLift, AbortReview, Known, AppealsAreOfImposed
  <1>6. ASSUME NEW m \in Reviews, CommitAppeal(m) \/ Approve(m) \/ Reject(m)
        PROVE  Known'
    BY <1>6, DecisionKnown DEF CommitAppeal, Approve, Reject
  <1>7. ASSUME NEW m \in Reviews, LoadAppellant(m)
        PROVE  Known'
    BY <1>7, LoadKnown
  <1>8. QED
    BY <1>1, <1>2, <1>3, <1>a, <1>4, <1>5, <1>6, <1>7
    DEF ModeratedNext, SanctionStep, Expire, allVars, sanctionVars

LEMMA InitKnown == ModeratedInit => Known
  BY NoReviewTypes DEF ModeratedInit, Known, AppealsAreOfImposed, Concerns

\* Requests are about imposed suspensions and the accounts they concern.
THEOREM ReviewsAreKnown == ModeratedSpec => []Known
  BY InitKnown, NextKnown, PTL DEF ModeratedSpec

----------------------------------------------------------------------------
(* What it is to the accounts *)

LEMMA LiftRowMaps ==
    ASSUME NEW u \in Users, NEW clears, LiftRow(u, clears)
    PROVE  [Next]_vars
  <1>1. Lift(u) \/ UNCHANGED vars
    BY DEF LiftRow
  <1>2. QED
    BY <1>1 DEF Next, ModeratorStep

LEMMA StepMaps == Known /\ [ModeratedNext]_allVars => [Next]_vars
  <1> SUFFICES ASSUME Known, [ModeratedNext]_allVars PROVE [Next]_vars
    OBVIOUS
  <1>1. CASE UserStep \/ UNCHANGED vars
    BY <1>1 DEF Next
  <1>2. ASSUME NEW u \in Users, NEW x \in Suspensions, SuspendUser(u, x)
        PROVE  [Next]_vars
    BY <1>2 DEF SuspendUser, Next, ModeratorStep
  <1>a. ASSUME NEW m \in Reviews, NEW x \in Suspensions, CommitSuspendAgain(m, x)
        PROVE  [Next]_vars
    <2>1. PICK u \in Users : u = review[m].user
      BY <1>a DEF CommitSuspendAgain, Known, Review
    <2>2. Suspend(u, until[u])
      BY <1>a, <2>1 DEF CommitSuspendAgain
    <2>3. QED
      BY <2>2 DEF Next, ModeratorStep
  <1>3. ASSUME NEW x \in Suspensions, Expire(x)
        PROVE  [Next]_vars
    <2>1. suspended[x] \in Users
      BY <1>3 DEF Expire, Imposed, Known
    <2>2. SuspensionEnds(suspended[x]) \/ UNCHANGED vars
      BY <1>3 DEF Expire
    <2>3. QED
      BY <2>1, <2>2 DEF Next, ModeratorStep
  <1>4. ASSUME NEW m \in Reviews, CommitLift(m) \/ Approve(m)
        PROVE  [Next]_vars
    <2>1. review[m].user \in Users
      BY <1>4 DEF CommitLift, Approve, Known, Review
    <2>2. LiftRow(review[m].user, review[m].clears)
      BY <1>4 DEF CommitLift, Approve
    <2>3. QED
      BY <2>1, <2>2, LiftRowMaps
  <1>5. QED
    BY <1>1, <1>2, <1>a, <1>3, <1>4
    DEF ModeratedNext, SanctionStep, BeginSuspendAgain, BeginLift, BeginAppeal,
        BeginCurrentAppeal, BeginDecide,
        Start, CommitAppeal, LoadAppellant, Reject, AbortReview, allVars

\* Suspensions and their appeals are to the accounts a moderator who suspends
\* and lifts at will: every behaviour of Sanctions is one of Accounts.
THEOREM ModeratorsAreOrderly == ModeratedSpec => ImplementsAccounts
  <1>1. ModeratedInit => Init
    BY DEF ModeratedInit
  <1>2. QED
    BY <1>1, ReviewsAreKnown, StepMaps, PTL DEF ModeratedSpec, Spec, ImplementsAccounts

LEMMA AccountsAreTyped == ModeratedSpec => []TypeOK
  BY ModeratorsAreOrderly, AccountTypes, PTL DEF ImplementsAccounts

\* So what is proved of the accounts alone (login, reset_password,
\* delete_my_account) is so while moderators suspend, lift and decide.
THEOREM ModeratedAccountsAreSafe ==
    ModeratedSpec =>
        /\ []DeletedIsClosed
        /\ NewPasswordRevokes
        /\ LinksAreSingleUse
        /\ [][FreshLogins]_vars => []SessionsKnowThePassword
  BY ModeratorsAreOrderly, ClosedForGood, ResetsRevoke, LinksWorkOnce,
     FreshLoginsKnowThePassword, PTL DEF ImplementsAccounts

----------------------------------------------------------------------------
(* Which suspension an account owes its time to *)

\* A suspension in force was imposed on the account.
ForceIsImposed ==
    \A u \in Users : inForce[u] # None =>
        inForce[u] \in Imposed /\ suspended[inForce[u]] = u

\* A request that lifts has loaded a time; one that approves and has not will
\* not leave the suspension in force either.
Spares(m) ==
    /\ review[m].op = "lift" => review[m].clears
    /\ review[m].op = "approve" /\ ~ review[m].clears =>
          inForce[review[m].user] # review[m].about

Explained ==
    /\ SanctionsTypeOK
    /\ ForceIsImposed
    /\ \A m \in Reviews : Spares(m)
    /\ ApprovedIsLifted
    /\ LastSuspensionHolds

LEMMA InitExplained == ModeratedInit => Explained
  BY NoReviewTypes
  DEF ModeratedInit, Init, Explained, SanctionsTypeOK, ForceIsImposed, Spares,
      ApprovedIsLifted, LastSuspensionHolds, Imposed

\* Steps that leave the suspensions, the times and the history alone.
LEMMA ReviewExplained ==
    ASSUME Known, Known', Explained, NEW m \in Reviews, NEW r,
           review' = [review EXCEPT ![m] = r],
           r.op = "lift" => r.clears,
           r.op = "approve" /\ ~ r.clears => inForce[r.user] # r.about,
           UNCHANGED <<until, suspended, expired, inForce, last>>,
           \A x \in Imposed : appeal'[x] = "approved" => appeal[x] = "approved"
    PROVE  Explained'
  <1>1. Imposed' = Imposed
    BY DEF Imposed
  <1>2. SanctionsTypeOK'
    BY DEF Explained, SanctionsTypeOK, Known
  <1>3. ForceIsImposed'
    BY <1>1 DEF Explained, ForceIsImposed
  <1>4. ASSUME NEW n \in Reviews
        PROVE  Spares(n)'
    <2>1. review'[n] = IF n = m THEN r ELSE review[n]
      BY DEF Known
    <2>2. QED
      BY <2>1 DEF Explained, Spares
  <1>5. ApprovedIsLifted'
    BY <1>1 DEF Explained, ApprovedIsLifted
  <1>6. LastSuspensionHolds'
    BY <1>1 DEF Explained, LastSuspensionHolds
  <1>7. QED
    BY <1>2, <1>3, <1>4, <1>5, <1>6 DEF Explained

LEMMA SuspendExplained ==
    ASSUME TypeOK, Known, Known', Explained,
           NEW u \in Users, NEW x \in Suspensions, SuspendUser(u, x)
    PROVE  Explained'
  <1>1. /\ Imposed = 1 .. (x - 1)
        /\ until' = [until EXCEPT ![u] = "future"]
        /\ suspended' = [suspended EXCEPT ![x] = u]
        /\ inForce' = [inForce EXCEPT ![u] = x]
        /\ last' = [last EXCEPT ![u] = "suspend"]
        /\ UNCHANGED <<expired, appeal, review>>
    BY DEF SuspendUser, Suspend
  <1>2. Imposed' = 1 .. x
    <2>1. Imposed' = Imposed \cup {x}
      BY <1>1 DEF Imposed, Known
    <2>2. QED
      BY <1>1, <2>1 DEF Suspensions
  <1>3. x \notin Imposed /\ x # None
    BY <1>1 DEF Suspensions
  <1>4. SanctionsTypeOK'
    BY <1>1, <1>3 DEF Explained, SanctionsTypeOK, Known, TypeOK
  <1>5. ForceIsImposed'
    <2>1. ASSUME NEW v \in Users, inForce'[v] # None
          PROVE  inForce'[v] \in Imposed' /\ suspended'[inForce'[v]] = v
      <3>1. CASE v = u
        BY <1>1, <1>2, <3>1 DEF Explained, SanctionsTypeOK, Known, Suspensions
      <3>2. CASE v # u
        <4>1. /\ inForce'[v] = inForce[v]
              /\ inForce[v] \in Imposed
              /\ suspended[inForce[v]] = v
          BY <1>1, <2>1, <3>2 DEF Explained, SanctionsTypeOK, ForceIsImposed
        <4>2. QED
          BY <1>1, <1>2, <1>3, <4>1 DEF Known, Suspensions
      <3>3. QED
        BY <3>1, <3>2
    <2>2. QED
      BY <2>1 DEF ForceIsImposed
  <1>6. \A m \in Reviews : Spares(m)'
    <2>1. ASSUME NEW m \in Reviews, review[m].op = "approve", ~ review[m].clears
          PROVE  inForce'[review[m].user] # review[m].about
      <3>1. review[m].about \in Imposed
        BY <2>1 DEF Known, Concerns
      <3>2. inForce[review[m].user] # review[m].about
        BY <2>1 DEF Explained, Spares
      <3>3. QED
        BY <1>1, <1>3, <3>1, <3>2 DEF Explained, SanctionsTypeOK
    <2>2. QED
      BY <1>1, <2>1 DEF Explained, Spares
  <1>7. ApprovedIsLifted'
    <2>1. appeal[x] = "none"
      BY <1>3 DEF Known, AppealsAreOfImposed
    <2>2. ASSUME NEW y \in Imposed', appeal'[y] = "approved"
          PROVE  inForce'[suspended'[y]] # y
      <3>1. y \in Imposed /\ y # x
        BY <1>1, <1>2, <2>1, <2>2 DEF Suspensions
      <3>2. suspended'[y] = suspended[y] /\ suspended[y] \in Users
        BY <1>1, <3>1 DEF Known, Imposed
      <3>3. inForce[suspended[y]] # y
        BY <1>1, <2>2, <3>1 DEF Explained, ApprovedIsLifted
      <3>4. QED
        BY <1>1, <3>1, <3>2, <3>3 DEF Explained, SanctionsTypeOK
    <2>3. QED
      BY <2>2 DEF ApprovedIsLifted
  <1>8. LastSuspensionHolds'
    <2>1. ASSUME NEW v \in Users, last'[v] = "suspend",
                 NEW y \in Imposed', suspended'[y] = v
          PROVE  inForce'[v] \in y .. MaxSuspensions
      <3>1. CASE v = u
        BY <1>1, <1>2, <3>1 DEF Explained, SanctionsTypeOK, Suspensions
      <3>2. CASE v # u
        <4>1. y # x /\ y \in Imposed
          BY <1>1, <1>2, <2>1, <3>2 DEF Known, Suspensions
        <4>2. suspended[y] = v /\ last[v] = "suspend" /\ inForce'[v] = inForce[v]
          BY <1>1, <2>1, <3>2, <4>1 DEF Known, Explained, SanctionsTypeOK, Imposed
        <4>3. QED
          BY <4>1, <4>2 DEF Explained, LastSuspensionHolds
      <3>3. QED
        BY <3>1, <3>2
    <2>2. QED
      BY <2>1 DEF LastSuspensionHolds
  <1>9. QED
    BY <1>4, <1>5, <1>6, <1>7, <1>8 DEF Explained

\* A suspension that writes no end.
LEMMA SuspendAgainExplained ==
    ASSUME TypeOK, Known, Known', Explained,
           NEW m \in Reviews, NEW x \in Suspensions, CommitSuspendAgain(m, x)
    PROVE  Explained'
  <1>0. PICK u \in Users : u = review[m].user
    BY DEF CommitSuspendAgain, Known, Review
  <1>1. /\ Imposed = 1 .. (x - 1)
        /\ suspended' = [suspended EXCEPT ![x] = u]
        /\ last' = [last EXCEPT ![u] = "again"]
        /\ review' = [review EXCEPT ![m] = NoReview]
        /\ UNCHANGED <<expired, inForce, appeal>>
    BY <1>0 DEF CommitSuspendAgain, Finish
  <1>2. until' = until
    BY <1>0 DEF CommitSuspendAgain, Suspend, TypeOK
  <1>3. Imposed' = Imposed \cup {x} /\ x \notin Imposed
    <2>1. x \notin Imposed
      BY <1>1 DEF Suspensions
    <2>2. u # None
      BY AccountsAssumption
    <2>3. \A y \in Suspensions : suspended'[y] = IF y = x THEN u ELSE suspended[y]
      BY <1>1 DEF Known
    <2>4. QED
      BY <2>1, <2>2, <2>3 DEF Imposed
  <1>4. \A y \in Imposed : suspended'[y] = suspended[y] /\ suspended[y] \in Users
    BY <1>1, <1>3 DEF Known, Imposed
  <1>5. SanctionsTypeOK'
    BY <1>1, <1>2 DEF Explained, SanctionsTypeOK, Known
  <1>6. ForceIsImposed'
    BY <1>1, <1>3, <1>4 DEF Explained, ForceIsImposed
  <1>7. ASSUME NEW n \in Reviews
        PROVE  Spares(n)'
    <2>1. review'[n] = IF n = m THEN NoReview ELSE review[n]
      BY <1>1 DEF Known
    <2>2. QED
      BY <1>1, <2>1, NoReviewTypes DEF Explained, Spares
  <1>8. ApprovedIsLifted'
    <2>1. appeal[x] = "none"
      BY <1>3 DEF Known, AppealsAreOfImposed
    <2>2. QED
      BY <1>1, <1>3, <1>4, <2>1 DEF Explained, ApprovedIsLifted
  <1>9. LastSuspensionHolds'
    <2>1. ASSUME NEW v \in Users, last'[v] = "suspend",
                 NEW y \in Imposed', suspended'[y] = v
          PROVE  inForce'[v] \in y .. MaxSuspensions
      <3>1. v # u /\ last[v] = "suspend"
        BY <1>1, <2>1 DEF Explained, SanctionsTypeOK
      <3>2. y # x
        BY <1>1, <2>1, <3>1 DEF Known
      <3>3. y \in Imposed /\ suspended[y] = v
        BY <1>3, <1>4, <2>1, <3>2
      <3>4. QED
        BY <1>1, <3>1, <3>3 DEF Explained, LastSuspensionHolds
    <2>2. QED
      BY <2>1 DEF LastSuspensionHolds
  <1>10. QED
    BY <1>5, <1>6, <1>7, <1>8, <1>9 DEF Explained

LEMMA ExpireExplained ==
    ASSUME TypeOK, Known, Explained, NEW x \in Suspensions, Expire(x)
    PROVE  Explained'
  <1>1. /\ expired' = expired \cup {x}
        /\ UNCHANGED <<suspended, inForce, last, appeal, review>>
        /\ x \in Imposed
    BY DEF Expire
  <1>2. Imposed' = Imposed
    BY <1>1 DEF Imposed
  <1>3. \A u \in Users : until'[u] = "none" <=> until[u] = "none"
    BY DEF Expire, SuspensionEnds, vars, TypeOK
  <1>4. SanctionsTypeOK'
    BY <1>1, <1>3 DEF Explained, SanctionsTypeOK
  <1>5. QED
    BY <1>1, <1>2, <1>4
    DEF Explained, ForceIsImposed, Spares, ApprovedIsLifted, LastSuspensionHolds

\* A commit that lifts.  The appeal it may approve is of a suspension that is
\* cleared by it or not in force.
LEMMA LiftExplained ==
    ASSUME TypeOK, Known, Known', Explained, NEW m \in Reviews, NEW u \in Users, NEW clears,
           LiftRow(u, clears), Finish(m), UNCHANGED <<suspended, expired>>,
           \A x \in Imposed : appeal'[x] = "approved" /\ appeal[x] # "approved" =>
               suspended[x] = u /\ (clears \/ inForce[u] # x)
    PROVE  Explained'
  <1>1. Imposed' = Imposed
    BY DEF Imposed
  <1>2. /\ inForce' = [inForce EXCEPT ![u] = IF clears THEN None ELSE @]
        /\ last' = [last EXCEPT ![u] = "lift"]
    BY DEF LiftRow
  <1>3. \A v \in Users : inForce'[v] = IF clears /\ v = u THEN None ELSE inForce[v]
    BY <1>2 DEF Explained, SanctionsTypeOK
  <1>4. \A v \in Users : until'[v] = "none" <=> inForce'[v] = None
    <2>1. CASE clears /\ inForce[u] # None
      <3>1. until' = [until EXCEPT ![u] = "none"]
        BY <2>1 DEF LiftRow, Lift
      <3>2. QED
        BY <1>3, <2>1, <3>1 DEF TypeOK, Explained, SanctionsTypeOK
    <2>2. CASE ~ (clears /\ inForce[u] # None)
      <3>1. until' = until
        BY <2>2 DEF LiftRow, vars
      <3>2. QED
        BY <1>3, <2>2, <3>1 DEF Explained, SanctionsTypeOK
    <2>3. QED
      BY <2>1, <2>2
  <1>5. SanctionsTypeOK'
    <2>1. inForce' \in [Users -> Suspensions \cup {None}]
      BY <1>2 DEF Explained, SanctionsTypeOK
    <2>2. last' \in [Users -> {"none", "suspend", "again", "lift"}]
      BY <1>2 DEF Explained, SanctionsTypeOK
    <2>3. QED
      BY <1>4, <2>1, <2>2 DEF Explained, SanctionsTypeOK, Known
  <1>6. ForceIsImposed'
    BY <1>1, <1>3 DEF Explained, ForceIsImposed
  <1>7. ASSUME NEW n \in Reviews
        PROVE  Spares(n)'
    <2>1. review'[n] = IF n = m THEN NoReview ELSE review[n]
      BY DEF Known, Finish
    <2>2. CASE n = m
      BY <2>1, <2>2, NoReviewTypes DEF Spares
    <2>3. ASSUME n # m, review[n].op = "approve", ~ review[n].clears
          PROVE  inForce'[review[n].user] # review[n].about
      <3>1. /\ review[n].user \in Users
            /\ review[n].about # None
            /\ inForce[review[n].user] # review[n].about
        BY <2>3 DEF Explained, Spares, Known, Concerns, Review, Imposed, Suspensions
      <3>2. QED
        BY <1>3, <3>1
    <2>4. QED
      BY <2>1, <2>2, <2>3 DEF Explained, Spares
  <1>8. ApprovedIsLifted'
    <2>1. ASSUME NEW x \in Imposed, appeal'[x] = "approved"
          PROVE  inForce'[suspended[x]] # x
      <3>1. suspended[x] \in Users /\ x # None
        BY DEF Known, Imposed, Suspensions
      <3>2. inForce[suspended[x]] # x \/ (suspended[x] = u /\ clears)
        BY <2>1 DEF Explained, ApprovedIsLifted
      <3>3. QED
        BY <1>3, <3>1, <3>2
    <2>2. QED
      BY <1>1, <2>1 DEF ApprovedIsLifted
  <1>9. LastSuspensionHolds'
    BY <1>1, <1>2, <1>3 DEF Explained, SanctionsTypeOK, LastSuspensionHolds
  <1>10. QED
    BY <1>5, <1>6, <1>7, <1>8, <1>9 DEF Explained

LEMMA UserKeepsTimes == UserStep => until' = until
  BY DEF UserStep, Register, Logout, BeginLogin, BeginRecovery, CommitLogin, BeginRename,
         BeginDelete, BeginAs, CommitRecovery, BeginReset, Revoke, CommitReset, CommitRename,
         CommitDelete, Abort

LEMMA NextExplained ==
    TypeOK /\ Known /\ Known' /\ Explained /\ [ModeratedNext]_allVars => Explained'
  <1> SUFFICES ASSUME TypeOK, Known, Known', Explained, [ModeratedNext]_allVars
               PROVE  Explained'
    OBVIOUS
  <1>1. CASE UNCHANGED <<until, sanctionVars>>
    BY <1>1
    DEF Explained, SanctionsTypeOK, ForceIsImposed, Spares, ApprovedIsLifted,
        LastSuspensionHolds, Imposed, sanctionVars
  <1>2. ASSUME NEW u \in Users, NEW x \in Suspensions, SuspendUser(u, x)
        PROVE  Explained'
    BY <1>2, SuspendExplained
  <1>3. ASSUME NEW x \in Suspensions, Expire(x)
        PROVE  Explained'
    BY <1>3, ExpireExplained
  <1>a. ASSUME NEW m \in Reviews, NEW x \in Suspensions, CommitSuspendAgain(m, x)
        PROVE  Explained'
    BY <1>a, SuspendAgainExplained
  <1>b. ASSUME NEW m \in Reviews, NEW u \in Users, BeginSuspendAgain(m, u)
        PROVE  Explained'
    <2> DEFINE r == [NoReview EXCEPT !.op = "again", !.user = u]
    <2>1. r.op \notin {"lift", "approve"}
      BY DEF NoReview
    <2>2. /\ review' = [review EXCEPT ![m] = r]
          /\ UNCHANGED <<until, suspended, expired, inForce, last, appeal>>
      BY <1>b DEF BeginSuspendAgain, Start, vars
    <2> HIDE DEF r
    <2>3. QED
      BY <2>1, <2>2, ReviewExplained
  <1>4. ASSUME NEW m \in Reviews, NEW u \in Users, BeginLift(m, u)
        PROVE  Explained'
    <2> DEFINE r == [NoReview EXCEPT !.op = "lift", !.user = u, !.clears = TRUE]
    <2>1. r.op = "lift" /\ r.clears
      BY DEF NoReview
    <2>2. /\ review' = [review EXCEPT ![m] = r]
          /\ UNCHANGED <<until, suspended, expired, inForce, last, appeal>>
      BY <1>4 DEF BeginLift, Start, vars
    <2> HIDE DEF r
    <2>3. QED
      BY <2>1, <2>2, ReviewExplained
  <1>5. ASSUME NEW m \in Reviews, NEW x \in Suspensions,
               BeginAppeal(m, x) \/ BeginCurrentAppeal(m, x) \/ BeginDecide(m, x)
        PROVE  Explained'
    <2>1. PICK op \in {"appeal", "decide"} :
              Start(m, [NoReview EXCEPT !.op = op, !.user = suspended[x], !.about = x])
      BY <1>5 DEF BeginAppeal, BeginCurrentAppeal, BeginDecide, Appealing
    <2> DEFINE r == [NoReview EXCEPT !.op = op, !.user = suspended[x], !.about = x]
    <2>2. r.op \notin {"lift", "approve"}
      BY DEF NoReview
    <2>3. /\ review' = [review EXCEPT ![m] = r]
          /\ UNCHANGED <<until, suspended, expired, inForce, last, appeal>>
      BY <2>1 DEF Start, vars
    <2> HIDE DEF r
    <2>4. QED
      BY <2>2, <2>3, ReviewExplained
  <1>6. ASSUME NEW m \in Reviews, CommitAppeal(m) \/ Reject(m) \/ AbortReview(m)
        PROVE  Explained'
    <2>1. UNCHANGED <<until, suspended, expired, inForce, last>> /\ Finish(m)
      BY <1>6 DEF CommitAppeal, Reject, AbortReview, vars
    <2>2. \A x \in Imposed : appeal'[x] = "approved" => appeal[x] = "approved"
      BY <1>6 DEF CommitAppeal, Reject, AbortReview, Known, Imposed
    <2>3. QED
      BY <2>1, <2>2, NoReviewTypes, ReviewExplained DEF Finish
  <1>7. ASSUME NEW m \in Reviews, LoadAppellant(m)
        PROVE  Explained'
    <2> DEFINE r == [review[m] EXCEPT !.op = "approve",
                                      !.clears = inForce[review[m].user] # None]
    <2>1. /\ review' = [review EXCEPT ![m] = r]
          /\ UNCHANGED <<until, suspended, expired, inForce, last, appeal>>
          /\ review[m].op = "decide"
      BY <1>7 DEF LoadAppellant, vars
    <2>2. review[m] \in Review /\ review[m].about # None
      BY <2>1 DEF Known, Concerns, Review, Imposed, Suspensions
    <2>3. /\ r.op = "approve"
          /\ r.user = review[m].user /\ r.about = review[m].about
          /\ r.clears = (inForce[review[m].user] # None)
      BY <2>2 DEF Review
    <2> HIDE DEF r
    <2>4. QED
      BY <2>1, <2>2, <2>3, ReviewExplained
  <1>8. ASSUME NEW m \in Reviews, CommitLift(m)
        PROVE  Explained'
    <2>1. review[m].user \in Users
      BY <1>8 DEF CommitLift, Known, Review
    <2>2. QED
      BY <1>8, <2>1, LiftExplained DEF CommitLift
  <1>9. ASSUME NEW m \in Reviews, Approve(m)
        PROVE  Explained'
    <2> DEFINE u == review[m].user
    <2>1. u \in Users /\ review[m].about \in Imposed /\ suspended[review[m].about] = u
      BY <1>9 DEF Approve, Known, Concerns, Review
    <2>2. review[m].clears \/ inForce[u] # review[m].about
      BY <1>9 DEF Approve, Explained, Spares
    <2>3. \A x \in Imposed : appeal'[x] = "approved" /\ appeal[x] # "approved" =>
              x = review[m].about
      BY <1>9 DEF Approve, Known, Imposed
    <2>4. QED
      BY <1>9, <2>1, <2>2, <2>3, LiftExplained DEF Approve
  <1>10. QED
    BY <1>1, <1>2, <1>a, <1>b, <1>3, <1>4, <1>5, <1>6, <1>7, <1>8, <1>9, UserKeepsTimes
    DEF ModeratedNext, SanctionStep, allVars, vars

\* Every time on an account is explained by a suspension.
THEOREM TimesAreExplained == ModeratedSpec => []Explained
  BY ReviewsAreKnown, AccountsAreTyped, InitExplained, NextExplained, PTL DEF ModeratedSpec

\* Every variable has its type, and an account has a time just when that
\* comes from a suspension.
THEOREM SanctionTypes == ModeratedSpec => []SanctionsTypeOK
  <1>1. Explained => SanctionsTypeOK
    BY DEF Explained
  <1>2. QED
    BY <1>1, TimesAreExplained, PTL

\* An approved appeal's suspension is not in force.
THEOREM ApprovalsLift == ModeratedSpec => []ApprovedIsLifted
  <1>1. Explained => ApprovedIsLifted
    BY DEF Explained
  <1>2. QED
    BY <1>1, TimesAreExplained, PTL

\* An account whose history ends in a suspension that wrote its end is
\* suspended by it.
THEOREM SuspensionsHold == ModeratedSpec => []LastSuspensionHolds
  <1>1. Explained => LastSuspensionHolds
    BY DEF Explained
  <1>2. QED
    BY <1>1, TimesAreExplained, PTL
============================================================================
