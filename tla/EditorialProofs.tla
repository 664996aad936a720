-------------------------- MODULE EditorialProofs --------------------------
(* The safety invariants of the editorial core, proved for every instance. *)
EXTENDS EditorialTypes

\* The types of the bounds, which every step needs.
USE StoreAssumption

----------------------------------------------------------------------------
(* What a step does to the drafts and to one row of each queue. *)

\* A step that writes a draft appends one revision to it: the unique
\* constraint turns the revision number a stale request computed into the
\* next one or into a failure.
LEMMA DraftSteps ==
    ASSUME IInv, [Next]_vars
    PROVE  \/ UNCHANGED draftVars
           \/ \E p \in Pubs, t \in Texts : Log!Append(p, t)
  <1> USE DEF draftVars
  <1>1. CASE \E c \in Clients : RequestStep(c)
    <2>1. PICK c \in Clients : RequestStep(c)
      BY <1>1
    <2>2. CASE CommitUpdate(c)
      <3> DEFINE p == req[c].pub
                 n == req[c].rev
      <3>1. req[c] \in Request /\ req[c].op = "update"
        BY <2>2 DEF CommitUpdate, IInv, TypeOK
      <3>2. p \in Pubs /\ n \in 1 .. sourceRevision[p] /\ n < MaxRevision
        BY <3>1 DEF Request, IInv, SnapshotsAreOld
      <3>3. PICK t \in Texts : WriteRevision(p, n + 1, t)
        BY <2>2 DEF CommitUpdate
      <3>4. sourceRevision[p] \in 0 .. MaxRevision
        BY <3>2 DEF IInv, TypeOK
      <3>5. n + 1 \in Revisions /\ revisions[p][n + 1] = None
        BY <3>2, <3>3, <3>4 DEF WriteRevision, Revisions
      <3>6. ~(n + 1 <= sourceRevision[p])
        <4>1. \A m \in Revisions : revisions[p][m] # None <=> m <= sourceRevision[p]
          BY <3>2 DEF IInv, RevisionHistory
        <4>2. QED
          BY <4>1, <3>5
      <3>7. n = sourceRevision[p]
        BY <3>2, <3>4, <3>6
      <3>8. Log!Append(p, t)
        BY <3>2, <3>3, <3>4, <3>7 DEF WriteRevision, Log!Append
      <3>9. QED
        BY <3>2, <3>8
    <2>3. CASE ~CommitUpdate(c)
      BY <2>1, <2>3 DEF RequestStep, BeginUpdate, BeginSubmit, BeginDecision, BeginItems, CheckHasItems, SelectItems,
         CommitSubmit, CommitDecision, CommitItems, AbortRequest, Begin
    <2>4. QED
      BY <2>2, <2>3
  <1>2. CASE \E p \in Pubs : LockedStep(p)
    <2>1. PICK p \in Pubs : LockedStep(p)
      BY <1>2
    <2>2. sourceRevision[p] \in 0 .. MaxRevision
      BY DEF IInv, TypeOK
    <2>3. CASE CreateDraft(p)
      <3>1. sourceRevision[p] = 0
        BY <2>3 DEF CreateDraft, IInv, SnapshotsAreOld
      <3>2. PICK t \in Texts : /\ text' = [text EXCEPT ![p] = t]
                               /\ revisions' = [revisions EXCEPT ![p][1] = t]
        BY <2>3 DEF CreateDraft
      <3>3. Log!Append(p, t)
        <4>1. sourceRevision[p] + 1 = 1 /\ sourceRevision[p] < MaxRevision
          BY <3>1
        <4>2. sourceRevision' = [sourceRevision EXCEPT ![p] = sourceRevision[p] + 1]
          BY <2>3, <4>1 DEF CreateDraft
        <4>3. revisions' = [revisions EXCEPT ![p][sourceRevision[p] + 1] = t]
          BY <3>2, <4>1
        <4>4. QED
          BY <3>2, <4>1, <4>2, <4>3 DEF Log!Append
      <3>4. QED
        BY <3>3
    <2>4. CASE Restore(p)
      <3>1. PICK n \in Revisions : /\ revisions[p][n] # None
                                   /\ WriteRevision(p, sourceRevision[p] + 1, revisions[p][n])
        BY <2>4 DEF Restore
      <3>2. revisions[p][n] \in Texts
        <4>1. revisions[p][n] \in Texts \cup {None}
          BY DEF IInv, TypeOK
        <4>2. QED
          BY <3>1, <4>1
      <3>3. Log!Append(p, revisions[p][n])
        BY <2>2, <2>4, <3>1 DEF Restore, WriteRevision, Log!Append
      <3>4. QED
        BY <3>2, <3>3
    <2>5. CASE Archive(p) \/ Unarchive(p) \/ EditLocalization(p)
      BY <2>5 DEF Archive, Unarchive, ChangeArchiveStatus, EditLocalization
    <2>6. QED
      BY <2>1, <2>3, <2>4, <2>5 DEF LockedStep
  <1>3. CASE \E p \in Pubs : TimePasses(p) \/ ChangeAuthorRole(p)
    BY <1>3 DEF TimePasses, ChangeAuthorRole
  <1>4. CASE \E w \in Workers : WorkerStep(w) \/ CrashAndRestart(w)
    BY <1>4 DEF WorkerStep, PublishDue, PublishDueFails, RequeueReviews, RequeueJobs,
       NoPendingReview, ClaimReview, ReviewFails, CompleteReview, NoPendingJob, ClaimJob,
       TranslationFails, ReadTarget, SaveTranslation, CrashAndRestart
  <1>5. CASE UNCHANGED vars
    BY <1>5 DEF vars
  <1>6. QED
    BY <1>1, <1>2, <1>3, <1>4, <1>5 DEF Next

\* So the number of revisions never decreases.
LEMMA RevisionsGrow ==
    ASSUME IInv, [Next]_vars, NEW p \in Pubs
    PROVE  /\ sourceRevision[p] \in Nat
           /\ sourceRevision'[p] \in Nat
           /\ sourceRevision[p] <= sourceRevision'[p]
  <1>1. sourceRevision \in [Pubs -> 0 .. MaxRevision]
    BY DEF IInv, TypeOK
  <1>2. CASE UNCHANGED draftVars
    BY <1>1, <1>2 DEF draftVars
  <1>3. CASE \E q \in Pubs, t \in Texts : Log!Append(q, t)
    BY <1>1, <1>3 DEF Log!Append
  <1>4. QED
    BY <1>2, <1>3, DraftSteps

\* A review row is inserted for an existing revision and from then on only
\* leaves the states before "completed".
LEMMA ReviewRowSteps ==
    ASSUME IInv, [Next]_vars, NEW p \in Pubs, NEW n \in Revisions
    PROVE  \/ aiReviews'[p][n] = aiReviews[p][n]
           \/ /\ aiReviews[p][n].status = "none"
              /\ aiReviews'[p][n] = NewReview
              /\ n <= sourceRevision[p]
           \/ /\ aiReviews[p][n].status \in {"pending", "reviewing", "failed"}
              /\ aiReviews'[p][n].status # "none"
  <1>a. aiReviews \in [Pubs -> [Revisions -> AiReview]]
    BY DEF IInv, TypeOK
  <1>b. aiReviews[p][n] \in AiReview
    BY <1>a
  <1>1. CASE \E c \in Clients : RequestStep(c)
    <2>1. PICK c \in Clients : RequestStep(c)
      BY <1>1
    <2>2. CASE CommitSubmit(c)
      <3> DEFINE q == req[c].pub
                 m == req[c].rev
      <3>1. req[c] \in Request /\ req[c].op = "submit"
        BY <2>2 DEF CommitSubmit, IInv, TypeOK
      <3>2. q \in Pubs /\ m \in 1 .. sourceRevision[q]
        BY <3>1 DEF Request, IInv, SnapshotsAreOld
      <3>3. sourceRevision[q] \in 0 .. MaxRevision
        BY <3>2 DEF IInv, TypeOK
      <3>4. m \in Revisions /\ m <= sourceRevision[q]
        BY <3>2, <3>3 DEF Revisions
      <3>5. /\ aiReviews[q][m].status = "none"
            /\ aiReviews' = [aiReviews EXCEPT ![q][m] = NewReview]
        BY <2>2 DEF CommitSubmit
      <3> HIDE DEF q, m
      <3>6. CASE p = q /\ n = m
        BY <1>a, <3>2, <3>4, <3>5, <3>6
      <3>7. CASE ~(p = q /\ n = m)
        BY <1>a, <3>2, <3>4, <3>5, <3>7
      <3>8. QED
        BY <3>6, <3>7
    <2>3. CASE ~CommitSubmit(c)
      BY <2>1, <2>3 DEF RequestStep, BeginUpdate, BeginSubmit, BeginDecision, BeginItems, CheckHasItems, SelectItems,
         CommitUpdate, CommitDecision, CommitItems, AbortRequest, Begin, queueVars
    <2>4. QED
      BY <2>2, <2>3
  <1>2. CASE \E q \in Pubs : LockedStep(q) \/ TimePasses(q) \/ ChangeAuthorRole(q)
    BY <1>2 DEF LockedStep, CreateDraft, Restore, Archive, Unarchive, ChangeArchiveStatus,
       EditLocalization, TimePasses, ChangeAuthorRole, queueVars
  <1>3. CASE \E w \in Workers : WorkerStep(w) \/ CrashAndRestart(w)
    <2>1. PICK w \in Workers : WorkerStep(w) \/ CrashAndRestart(w)
      BY <1>3
    <2>2. CASE RequeueReviews(w)
      <3>1. aiReviews'[p][n] = IF Retryable(aiReviews[p][n])
                               THEN [aiReviews[p][n] EXCEPT !.status = "pending"]
                               ELSE aiReviews[p][n]
        BY <2>2 DEF RequeueReviews
      <3>2. QED
        BY <1>b, <3>1 DEF Retryable, AiReview
    <2>3. CASE ClaimReview(w)
      <3>1. PICK q \in Pubs, m \in Revisions :
               /\ aiReviews[q][m].status = "pending"
               /\ aiReviews' = [aiReviews EXCEPT ![q][m] =
                     [status |-> "reviewing", attempts |-> @.attempts + 1,
                      decision |-> @.decision]]
        BY <2>3 DEF ClaimReview
      <3>2. CASE p = q /\ n = m
        BY <1>a, <3>1, <3>2
      <3>3. CASE ~(p = q /\ n = m)
        BY <1>a, <3>1, <3>3
      <3>4. QED
        BY <3>2, <3>3
    <2>4. CASE ReviewFails(w) \/ CompleteReview(w)
      <3> DEFINE q == wk[w].pub
                 m == wk[w].rev
      <3>1. wk[w] \in WorkerState /\ wk[w].stage = "reviewing"
        BY <2>4 DEF ReviewFails, CompleteReview, IInv, TypeOK
      <3>2. q \in Pubs /\ m \in Revisions
        BY <3>1 DEF WorkerState, Revisions
      <3>3. aiReviews[q][m].status = "reviewing"
        BY <3>1, <3>2 DEF IInv, ExclusiveClaims, HoldsReview
      <3>4. PICK r \in {"pass", "needs_editor", "block_until_review"} :
               \/ aiReviews' = [aiReviews EXCEPT ![q][m] = [@ EXCEPT !.status = "failed"]]
               \/ aiReviews' = [aiReviews EXCEPT ![q][m] =
                     [status |-> "completed", attempts |-> @.attempts, decision |-> r]]
        BY <2>4 DEF ReviewFails, CompleteReview
      <3> HIDE DEF q, m
      <3>5. CASE p = q /\ n = m
        BY <1>a, <1>b, <3>2, <3>3, <3>4, <3>5 DEF AiReview
      <3>6. CASE ~(p = q /\ n = m)
        BY <1>a, <3>2, <3>4, <3>6
      <3>7. QED
        BY <3>5, <3>6
    <2>5. CASE ~(RequeueReviews(w) \/ ClaimReview(w) \/ ReviewFails(w) \/ CompleteReview(w))
      BY <2>1, <2>5 DEF WorkerStep, PublishDue, PublishDueFails, RequeueJobs, NoPendingReview,
         NoPendingJob, ClaimJob, TranslationFails, ReadTarget, SaveTranslation,
         CrashAndRestart, queueVars
    <2>6. QED
      BY <2>2, <2>3, <2>4, <2>5
  <1>4. CASE UNCHANGED vars
    BY <1>4 DEF vars, queueVars
  <1>5. QED
    BY <1>1, <1>2, <1>3, <1>4 DEF Next

\* So a review row stays, and a completed one stays as it is.
LEMMA ReviewsStay ==
    ASSUME IInv, [Next]_vars, NEW p \in Pubs
    PROVE  /\ HasReview(p) => HasReview(p)'
           /\ HasPassed(p) => HasPassed(p)'
  <1>1. ASSUME HasReview(p)
        PROVE  HasReview(p)'
    <2>1. PICK n \in Revisions : aiReviews[p][n].status # "none"
      BY <1>1 DEF HasReview
    <2>2. aiReviews'[p][n].status # "none"
      BY <2>1, ReviewRowSteps
    <2>3. QED
      BY <2>2 DEF HasReview
  <1>2. ASSUME HasPassed(p)
        PROVE  HasPassed(p)'
    <2>1. PICK n \in Revisions : aiReviews[p][n].status = "completed" /\ aiReviews[p][n].decision = "pass"
      BY <1>2 DEF HasPassed
    <2>2. aiReviews'[p][n] = aiReviews[p][n]
      BY <2>1, ReviewRowSteps
    <2>3. QED
      BY <2>1, <2>2 DEF HasPassed
  <1>3. QED
    BY <1>1, <1>2

\* What the scheduler publishes: some of what is due.
LatePublished(S) ==
    /\ status' = [p \in Pubs |-> IF p \in S THEN "published" ELSE status[p]]
    /\ publishedAt' = [p \in Pubs |-> publishedAt[p] \/ p \in S]
    /\ scheduledAt' = [p \in Pubs |-> IF p \in S THEN "none" ELSE scheduledAt[p]]
    /\ jobs' = [p \in Pubs |-> IF p \in S THEN NewJob ELSE jobs[p]]
    /\ \A p \in S : ~HasJob(p)
    /\ UNCHANGED <<lastAudit, translations>>

LEMMA DuePublished ==
    ASSUME NEW w \in Workers, PublishDue(w)
    PROVE  \E S \in SUBSET DuePubs : LatePublished(S)
  BY DEF PublishDue, LatePublished

\* How a status changes: every way there is, with the rows that justify it.
LEMMA StatusSteps ==
    ASSUME IInv, [Next]_vars, NEW p \in Pubs
    PROVE  \/ /\ status'[p] = status[p]
              /\ lastAudit'[p] = lastAudit[p]
              /\ publishedAt[p] => publishedAt'[p]
              /\ scheduledAt'[p] = scheduledAt[p] \/ scheduledAt'[p] = "due"
           \/ /\ status[p] = "absent"
              /\ status'[p] = "draft"
              /\ lastAudit'[p] = "draft"
              /\ sourceRevision'[p] = 1
           \/ /\ status'[p] = "editorial_review"
              /\ lastAudit'[p] = "editorial_review"
              /\ sourceRevision[p] > 0
              /\ HasReview(p)'
              /\ scheduledAt'[p] = scheduledAt[p]
           \/ /\ status'[p] \in {"scheduled", "published", "rejected", "changes_requested"}
              /\ lastAudit'[p] = status'[p]
              /\ sourceRevision[p] > 0
              /\ HasReview(p)
              /\ status'[p] = "published" => publishedAt'[p]
           \/ /\ status[p] \in {"published", "archived"}
              /\ status'[p] \in {"published", "archived"}
              /\ lastAudit'[p] = status'[p]
              /\ publishedAt'[p] = publishedAt[p]
           \/ /\ status'[p] = "published"
              /\ publishedAt'[p]
              /\ lastAudit'[p] = lastAudit[p]
              /\ sourceRevision[p] > 0
              /\ HasReview(p)
              /\ status[p] = "scheduled" \/ HasPassed(p)'
  <1>a. /\ status \in [Pubs -> Statuses]
        /\ lastAudit \in [Pubs -> Statuses]
        /\ scheduledAt \in [Pubs -> Schedules]
        /\ publishedAt \in [Pubs -> BOOLEAN]
        /\ aiReviews \in [Pubs -> [Revisions -> AiReview]]
        /\ sourceRevision \in [Pubs -> 0 .. MaxRevision]
    BY DEF IInv, TypeOK
  <1>b. ASSUME UNCHANGED pubVars
        PROVE  /\ status'[p] = status[p]
               /\ lastAudit'[p] = lastAudit[p]
               /\ publishedAt[p] => publishedAt'[p]
               /\ scheduledAt'[p] = scheduledAt[p]
    BY <1>b DEF pubVars
  <1>1. CASE \E c \in Clients : RequestStep(c)
    <2>1. PICK c \in Clients : RequestStep(c)
      BY <1>1
    <2> DEFINE q == req[c].pub
               m == req[c].rev
    <2>a. req[c] \in Request
      BY DEF IInv, TypeOK
    <2>2. CASE CommitSubmit(c)
      <3>1. q \in Pubs /\ m \in 1 .. sourceRevision[q]
        BY <2>2, <2>a DEF CommitSubmit, Request, IInv, SnapshotsAreOld
      <3>2. m \in Revisions /\ sourceRevision[q] > 0
        BY <1>a, <3>1 DEF Revisions
      <3>3. /\ status' = [status EXCEPT ![q] = "editorial_review"]
            /\ aiReviews' = [aiReviews EXCEPT ![q][m] = NewReview]
            /\ lastAudit' = [lastAudit EXCEPT ![q] = "editorial_review"]
            /\ UNCHANGED <<scheduledAt, publishedAt>>
        BY <2>2 DEF CommitSubmit
      <3> HIDE DEF q, m
      <3>4. CASE p = q
        <4>1. aiReviews'[p][m].status # "none"
          BY <1>a, <3>1, <3>2, <3>3, <3>4 DEF NewReview, NoReview
        <4>2. HasReview(p)'
          BY <3>2, <4>1 DEF HasReview
        <4>3. /\ status'[p] = "editorial_review" /\ lastAudit'[p] = "editorial_review"
              /\ scheduledAt'[p] = scheduledAt[p]
          BY <1>a, <3>3, <3>4
        <4>4. QED
          BY <3>2, <3>4, <4>2, <4>3
      <3>5. CASE p # q
        BY <1>a, <3>1, <3>3, <3>5
      <3>6. QED
        BY <3>4, <3>5
    <2>3. CASE CommitDecision(c)
      <3>1. q \in Pubs /\ m \in 1 .. sourceRevision[q] /\ HasReview(q)
        BY <2>3, <2>a DEF CommitDecision, Request, IInv, SnapshotsAreOld
      <3>2. sourceRevision[q] > 0
        BY <1>a, <3>1
      <3>3. PICK d \in Decisions :
               /\ status' = [status EXCEPT ![q] = Resolved(d)]
               /\ lastAudit' = [lastAudit EXCEPT ![q] = Resolved(d)]
               /\ \E at \in Schedules : scheduledAt' = [scheduledAt EXCEPT ![q] = at]
               /\ publishedAt' = [publishedAt EXCEPT ![q] = Dated(q, d)]
        BY <2>3, <2>a, ScheduleTypes DEF CommitDecision, IInv
      <3>b. Dated(q, d) \in BOOLEAN /\ (publishedAt[q] \/ d = "publish" => Dated(q, d))
        BY <1>a, <3>1 DEF Dated
      <3>4. /\ Resolved(d) \in {"scheduled", "published", "rejected", "changes_requested"}
            /\ Resolved(d) = "published" => d = "publish"
        BY DEF Decisions, Resolved
      <3> HIDE DEF q, m
      <3>5. CASE p = q
        BY <1>a, <3>1, <3>2, <3>3, <3>b, <3>4, <3>5
      <3>6. CASE p # q
        BY <1>a, <3>1, <3>3, <3>6
      <3>7. QED
        BY <3>5, <3>6
    <2>4. CASE ~(CommitSubmit(c) \/ CommitDecision(c))
      <3>1. UNCHANGED pubVars
        BY <2>1, <2>4 DEF RequestStep, BeginUpdate, BeginSubmit, BeginDecision, BeginItems, CheckHasItems, SelectItems,
           CommitUpdate, CommitItems, AbortRequest, Begin
      <3>2. QED
        BY <1>b, <3>1
    <2>5. QED
      BY <2>2, <2>3, <2>4
  <1>2. CASE \E q \in Pubs : LockedStep(q) \/ TimePasses(q) \/ ChangeAuthorRole(q)
    <2>1. PICK q \in Pubs : LockedStep(q) \/ TimePasses(q) \/ ChangeAuthorRole(q)
      BY <1>2
    <2>2. CASE CreateDraft(q)
      BY <1>a, <2>2 DEF CreateDraft
    <2>3. CASE Archive(q) \/ Unarchive(q)
      BY <1>a, <2>3 DEF Archive, Unarchive, ChangeArchiveStatus
    <2>4. CASE TimePasses(q)
      BY <1>a, <2>4 DEF TimePasses
    <2>5. CASE Restore(q) \/ EditLocalization(q) \/ ChangeAuthorRole(q)
      <3>1. UNCHANGED pubVars
        BY <2>5 DEF Restore, EditLocalization, ChangeAuthorRole
      <3>2. QED
        BY <1>b, <3>1
    <2>6. QED
      BY <2>1, <2>2, <2>3, <2>4, <2>5 DEF LockedStep
  <1>3. CASE \E w \in Workers : WorkerStep(w) \/ CrashAndRestart(w)
    <2>1. PICK w \in Workers : WorkerStep(w) \/ CrashAndRestart(w)
      BY <1>3
    <2>2. CASE PublishDue(w)
      <3>1. PICK S \in SUBSET DuePubs : LatePublished(S)
        BY <2>2, DuePublished
      <3>2. CASE p \in S
        <4>1. status[p] = "scheduled"
          BY <3>2 DEF IsDue, DuePubs
        <4>2. HasReview(p) /\ sourceRevision[p] > 0
          BY <1>a, <4>1 DEF IInv, ReviewsBelongToRevisions, SnapshotsAreOld
        <4>3. status'[p] = "published" /\ publishedAt'[p] /\ lastAudit'[p] = lastAudit[p]
          BY <3>1, <3>2 DEF LatePublished
        <4>4. QED
          BY <4>1, <4>2, <4>3
      <3>3. CASE p \notin S
        BY <1>a, <3>1, <3>3 DEF LatePublished
      <3>4. QED
        BY <3>2, <3>3
    <2>3. CASE CompleteReview(w)
      <3> DEFINE q == wk[w].pub
                 m == wk[w].rev
      <3>1. wk[w] \in WorkerState /\ wk[w].stage = "reviewing"
        BY <2>3 DEF CompleteReview, IInv, TypeOK
      <3>2. q \in Pubs /\ m \in Revisions
        BY <3>1 DEF WorkerState, Revisions
      <3>3. aiReviews[q][m].status = "reviewing"
        BY <3>1, <3>2 DEF IInv, ExclusiveClaims, HoldsReview
      <3>4. m <= sourceRevision[q] /\ HasReview(q)
        BY <3>2, <3>3 DEF IInv, ReviewsBelongToRevisions, HasReview
      <3>5. sourceRevision[q] > 0
        BY <1>a, <3>2, <3>4 DEF Revisions
      <3>6. PICK d \in {"pass", "needs_editor", "block_until_review"} :
               /\ aiReviews' = [aiReviews EXCEPT ![q][m] =
                     [status |-> "completed", attempts |-> @.attempts, decision |-> d]]
               /\ IF Autopublishes(wk[w], d)
                  THEN /\ status' = [status EXCEPT ![q] = "published"]
                       /\ publishedAt' = [publishedAt EXCEPT ![q] = TRUE]
                  ELSE UNCHANGED <<status, publishedAt>>
        BY <2>3 DEF CompleteReview
      <3>7. UNCHANGED <<scheduledAt, lastAudit>>
        BY <2>3 DEF CompleteReview
      <3>8. Autopublishes(wk[w], d) => d = "pass"
        BY DEF Autopublishes
      <3> HIDE DEF q, m
      <3>9. CASE p = q /\ Autopublishes(wk[w], d)
        <4>1. aiReviews'[p][m].status = "completed" /\ aiReviews'[p][m].decision = "pass"
          BY <1>a, <3>2, <3>6, <3>8, <3>9
        <4>2. HasPassed(p)'
          BY <3>2, <4>1 DEF HasPassed
        <4>3. status'[p] = "published" /\ publishedAt'[p]
          BY <1>a, <3>6, <3>9
        <4>4. QED
          BY <3>4, <3>5, <3>7, <3>9, <4>2, <4>3
      <3>10. CASE ~(p = q /\ Autopublishes(wk[w], d))
        BY <1>a, <3>2, <3>6, <3>7, <3>10
      <3>11. QED
        BY <3>9, <3>10
    <2>4. CASE ~(PublishDue(w) \/ CompleteReview(w))
      <3>1. UNCHANGED pubVars
        BY <2>1, <2>4 DEF WorkerStep, PublishDueFails, RequeueReviews, RequeueJobs,
           NoPendingReview, ClaimReview, ReviewFails, NoPendingJob, ClaimJob,
           TranslationFails, ReadTarget, SaveTranslation, CrashAndRestart
      <3>2. QED
        BY <1>b, <3>1
    <2>5. QED
      BY <2>2, <2>3, <2>4
  <1>4. CASE UNCHANGED vars
    BY <1>b, <1>4 DEF vars
  <1>5. QED
    BY <1>1, <1>2, <1>3, <1>4 DEF Next

LEMMA LeavesDraft ==
    ASSUME IInv, [Next]_vars, NEW p \in Pubs,
           status[p] \in {"absent", "draft"}, status'[p] \notin {"absent", "draft"}
    PROVE  HasReview(p)'
  BY StatusSteps, ReviewsStay

LEMMA DatesStep ==
    ASSUME IInv, [Next]_vars
    PROVE  ShownIsDated'
  <1>1. ASSUME NEW p \in Pubs
        PROVE  status'[p] \in {"published", "archived"} => publishedAt'[p]
    <2>1. status[p] \in {"published", "archived"} => publishedAt[p]
      BY DEF IInv, ShownIsDated
    <2>2. QED
      BY <2>1, StatusSteps
  <1>2. QED
    BY <1>1 DEF ShownIsDated

LEMMA AuditStep ==
    ASSUME IInv, [Next]_vars
    PROVE  AuditExplainsStatus'
  <1>1. ASSUME NEW p \in Pubs
        PROVE  \/ status'[p] = lastAudit'[p]
               \/ status'[p] = "published" /\ (lastAudit'[p] = "scheduled" \/ HasPassed(p)')
    <2>1. \/ status[p] = lastAudit[p]
          \/ status[p] = "published" /\ (lastAudit[p] = "scheduled" \/ HasPassed(p))
      BY DEF IInv, AuditExplainsStatus
    <2>2. HasPassed(p) => HasPassed(p)'
      BY ReviewsStay
    <2>3. QED
      BY <2>1, <2>2, StatusSteps
  <1>2. QED
    BY <1>1 DEF AuditExplainsStatus

----------------------------------------------------------------------------
(* The parts of the invariant, one lemma each. *)

LEMMA RevisionHistoryStep ==
    ASSUME IInv, [Next]_vars
    PROVE  RevisionHistory'
  <1>a. /\ sourceRevision \in [Pubs -> 0 .. MaxRevision]
        /\ revisions \in [Pubs -> [Revisions -> Texts \cup {None}]]
        /\ text \in [Pubs -> Texts \cup {None}]
    BY DEF IInv, TypeOK
  <1>b. RevisionHistory
    BY DEF IInv
  <1>1. CASE UNCHANGED draftVars
    BY <1>1, <1>b DEF draftVars, RevisionHistory
  <1>2. CASE \E p \in Pubs, t \in Texts : Log!Append(p, t)
    <2>1. PICK p \in Pubs, t \in Texts : Log!Append(p, t)
      BY <1>2
    <2>2. /\ sourceRevision[p] + 1 \in Revisions
          /\ sourceRevision'[p] = sourceRevision[p] + 1
          /\ text'[p] = t
          /\ revisions'[p] = [revisions[p] EXCEPT ![sourceRevision[p] + 1] = t]
      BY <1>a, <2>1 DEF Log!Append, Revisions
    <2>3. ASSUME NEW q \in Pubs, q # p
          PROVE  /\ sourceRevision'[q] = sourceRevision[q]
                 /\ text'[q] = text[q]
                 /\ revisions'[q] = revisions[q]
      BY <1>a, <2>1, <2>3 DEF Log!Append
    <2>4. t # None
      OBVIOUS
    <2>5. ASSUME NEW n \in Revisions
          PROVE  revisions'[p][n] # None <=> n <= sourceRevision'[p]
      <3>1. CASE n = sourceRevision[p] + 1
        BY <1>a, <2>2, <2>4, <3>1
      <3>2. CASE n # sourceRevision[p] + 1
        <4>1. revisions'[p][n] = revisions[p][n]
          BY <1>a, <2>2, <3>2
        <4>2. n <= sourceRevision'[p] <=> n <= sourceRevision[p]
          BY <1>a, <2>2, <3>2 DEF Revisions
        <4>3. QED
          BY <1>b, <4>1, <4>2 DEF RevisionHistory
      <3>3. QED
        BY <3>1, <3>2
    <2>6. text'[p] = revisions'[p][sourceRevision'[p]]
      BY <1>a, <2>2
    <2>7. QED
      BY <1>b, <2>3, <2>5, <2>6 DEF RevisionHistory
  <1>3. QED
    BY <1>1, <1>2, DraftSteps

LEMMA ReviewsBelongStep ==
    ASSUME IInv, [Next]_vars
    PROVE  ReviewsBelongToRevisions'
  <1>b. ReviewsBelongToRevisions
    BY DEF IInv
  <1>1. ASSUME NEW p \in Pubs, NEW n \in Revisions, aiReviews'[p][n].status # "none"
        PROVE  n <= sourceRevision'[p]
    <2>1. n <= sourceRevision[p]
      BY <1>1, <1>b, ReviewRowSteps DEF ReviewsBelongToRevisions
    <2>2. QED
      BY <2>1, RevisionsGrow DEF Revisions
  <1>2. ASSUME NEW p \in Pubs, status'[p] \notin {"absent", "draft"}
        PROVE  HasReview(p)'
    <2>1. CASE status[p] \notin {"absent", "draft"}
      BY <1>b, <2>1, ReviewsStay DEF ReviewsBelongToRevisions
    <2>2. CASE status[p] \in {"absent", "draft"}
      BY <1>2, <2>2, LeavesDraft
    <2>3. QED
      BY <2>1, <2>2
  <1>3. QED
    BY <1>1, <1>2 DEF ReviewsBelongToRevisions

LEMMA PublishedOnceStep ==
    ASSUME IInv, [Next]_vars
    PROVE  PublishedOnce'
  <1>a. /\ jobs \in [Pubs -> TranslationJob]
        /\ publishedAt \in [Pubs -> BOOLEAN]
        /\ PublishedOnce
    BY DEF IInv, TypeOK
  <1>b. ASSUME UNCHANGED <<publishedAt, jobs>>
        PROVE  PublishedOnce'
    BY <1>a, <1>b DEF PublishedOnce, HasJob
  <1>c. ASSUME UNCHANGED publishedAt, NEW p \in Pubs, NEW r,
               HasJob(p), r.status # "none", jobs' = [jobs EXCEPT ![p] = r]
        PROVE  PublishedOnce'
    BY <1>a, <1>c DEF PublishedOnce, HasJob
  <1>d. NewJob.status # "none"
    BY DEF NewJob, NoJob
  <1>1. CASE \E c \in Clients : RequestStep(c)
    <2>1. PICK c \in Clients : RequestStep(c)
      BY <1>1
    <2>2. CASE CommitDecision(c)
      <3> DEFINE p == req[c].pub
      <3>1. req[c] \in Request /\ req[c].op = "decide"
        BY <2>2 DEF CommitDecision, IInv, TypeOK
      <3>2. p \in Pubs
        BY <3>1 DEF Request
      <3>3. PICK d \in Decisions :
               /\ publishedAt' = [publishedAt EXCEPT ![p] = Dated(p, d)]
               /\ jobs' = IF d = "publish" THEN [jobs EXCEPT ![p] = NewJob] ELSE jobs
        BY <2>2 DEF CommitDecision
      <3> HIDE DEF p
      <3>4. CASE d = "publish"
        BY <1>a, <1>d, <3>2, <3>3, <3>4 DEF PublishedOnce, HasJob, Dated
      <3>5. CASE d # "publish"
        <4>1. publishedAt' = publishedAt /\ jobs' = jobs
          BY <1>a, <3>2, <3>3, <3>5 DEF Dated
        <4>2. QED
          BY <1>b, <4>1
      <3>6. QED
        BY <3>4, <3>5
    <2>3. CASE ~CommitDecision(c)
      <3>1. UNCHANGED <<publishedAt, jobs>>
        BY <2>1, <2>3 DEF RequestStep, BeginUpdate, BeginSubmit, BeginDecision, BeginItems, CheckHasItems, SelectItems,
           CommitUpdate, CommitSubmit, CommitItems, AbortRequest, Begin, pubVars, queueVars
      <3>2. QED
        BY <1>b, <3>1
    <2>4. QED
      BY <2>2, <2>3
  <1>2. CASE \E p \in Pubs : LockedStep(p) \/ TimePasses(p) \/ ChangeAuthorRole(p)
    <2>1. UNCHANGED <<publishedAt, jobs>>
      BY <1>2 DEF LockedStep, CreateDraft, Restore, Archive, Unarchive, ChangeArchiveStatus,
         EditLocalization, TimePasses, ChangeAuthorRole, pubVars, queueVars
    <2>2. QED
      BY <1>b, <2>1
  <1>3. CASE \E w \in Workers : WorkerStep(w) \/ CrashAndRestart(w)
    <2>1. PICK w \in Workers : WorkerStep(w) \/ CrashAndRestart(w)
      BY <1>3
    <2> DEFINE p == wk[w].pub
    <2>a. wk[w] \in WorkerState
      BY DEF IInv, TypeOK
    <2>2. CASE PublishDue(w)
      BY <1>a, <1>d, <2>2 DEF PublishDue, PublishedOnce, HasJob
    <2>3. CASE CompleteReview(w)
      <3>1. p \in Pubs
        BY <2>3, <2>a DEF CompleteReview, WorkerState
      <3>2. \/ UNCHANGED <<publishedAt, jobs>>
            \/ /\ publishedAt' = [publishedAt EXCEPT ![p] = TRUE]
               /\ jobs' = IF HasJob(p) THEN jobs ELSE [jobs EXCEPT ![p] = NewJob]
        <4>1. PICK d \in {"pass", "needs_editor", "block_until_review"} :
                 IF Autopublishes(wk[w], d)
                 THEN /\ publishedAt' = [publishedAt EXCEPT ![p] = TRUE]
                      /\ jobs' = IF HasJob(p) THEN jobs ELSE [jobs EXCEPT ![p] = NewJob]
                 ELSE UNCHANGED <<publishedAt, jobs>>
          BY <2>3 DEF CompleteReview
        <4>2. QED
          BY <4>1
      <3> HIDE DEF p
      <3>3. QED
        BY <1>a, <1>b, <1>d, <3>1, <3>2 DEF PublishedOnce, HasJob
    <2>4. CASE RequeueJobs(w)
      <3>1. ASSUME NEW q \in Pubs
            PROVE  HasJob(q)' <=> HasJob(q)
        <4>1. jobs'[q] = IF Retryable(jobs[q]) THEN [jobs[q] EXCEPT !.status = "pending"]
                                               ELSE jobs[q]
          BY <2>4 DEF RequeueJobs
        <4>2. jobs[q] \in TranslationJob
          BY <1>a
        <4>3. QED
          BY <4>1, <4>2 DEF Retryable, HasJob, TranslationJob
      <3>2. UNCHANGED publishedAt
        BY <2>4 DEF RequeueJobs, pubVars
      <3>3. QED
        BY <1>a, <3>1, <3>2 DEF PublishedOnce
    <2>5. CASE ClaimJob(w)
      <3>1. PICK q \in Pubs :
               /\ jobs[q].status = "pending"
               /\ jobs' = [jobs EXCEPT ![q] =
                     [status |-> "translating", attempts |-> jobs[q].attempts + 1]]
        BY <2>5 DEF ClaimJob
      <3>2. UNCHANGED publishedAt
        BY <2>5 DEF ClaimJob, pubVars
      <3>3. QED
        BY <1>c, <3>1, <3>2 DEF HasJob
    <2>6. CASE TranslationFails(w) \/ SaveTranslation(w)
      <3>1. p \in Pubs
        BY <2>6, <2>a DEF TranslationFails, SaveTranslation, WorkerState
      <3>2. HasJob(p)
        BY <2>6, <3>1 DEF IInv, ExclusiveClaims, HoldsJob, HasJob, TranslationFails, SaveTranslation
      <3>3. PICK s \in {"failed", "ready"} : jobs' = [jobs EXCEPT ![p] = [jobs[p] EXCEPT !.status = s]]
        BY <2>6 DEF TranslationFails, SaveTranslation
      <3>4. UNCHANGED publishedAt
        BY <2>6 DEF TranslationFails, SaveTranslation, pubVars
      <3>5. [jobs[p] EXCEPT !.status = s].status # "none"
        BY <1>a, <3>1 DEF TranslationJob
      <3>6. QED
        BY <1>c, <3>1, <3>2, <3>3, <3>4, <3>5
    <2>7. CASE ~(\/ PublishDue(w) \/ CompleteReview(w) \/ RequeueJobs(w) \/ ClaimJob(w)
                 \/ TranslationFails(w) \/ SaveTranslation(w))
      <3>1. UNCHANGED <<publishedAt, jobs>>
        BY <2>1, <2>7 DEF WorkerStep, PublishDueFails, RequeueReviews, NoPendingReview,
           ClaimReview, ReviewFails, NoPendingJob, ReadTarget, CrashAndRestart, pubVars, queueVars
      <3>2. QED
        BY <1>b, <3>1
    <2>8. QED
      BY <2>2, <2>3, <2>4, <2>5, <2>6, <2>7
  <1>4. CASE UNCHANGED vars
    BY <1>b, <1>4 DEF vars, pubVars, queueVars
  <1>5. QED
    BY <1>1, <1>2, <1>3, <1>4 DEF Next

\* The first revision is the one of the new draft.
LEMMA FirstRevision ==
    ASSUME IInv, [Next]_vars, NEW p \in Pubs, sourceRevision[p] = 0
    PROVE  status'[p] = "absent" <=> sourceRevision'[p] = 0
  <1>a. /\ status[p] = "absent"
        /\ sourceRevision \in [Pubs -> 0 .. MaxRevision]
        /\ status \in [Pubs -> Statuses]
    BY DEF IInv, SnapshotsAreOld, TypeOK
  <1>1. CASE \E c \in Clients : RequestStep(c)
    <2>1. PICK c \in Clients : RequestStep(c)
      BY <1>1
    <2>2. sourceRevision'[p] = sourceRevision[p]
      <3>1. CASE CommitUpdate(c)
        <4>1. req[c] \in Request /\ req[c].op = "update"
          BY <3>1 DEF CommitUpdate, IInv, TypeOK
        <4>2. /\ req[c].pub \in Pubs
              /\ req[c].rev \in 1 .. sourceRevision[req[c].pub]
          BY <4>1 DEF Request, IInv, SnapshotsAreOld
        <4>3. p # req[c].pub
          BY <4>2
        <4>4. PICK t \in Texts : WriteRevision(req[c].pub, req[c].rev + 1, t)
          BY <3>1 DEF CommitUpdate
        <4>5. QED
          BY <1>a, <4>3, <4>4 DEF WriteRevision
      <3>2. CASE ~CommitUpdate(c)
        BY <2>1, <3>2 DEF RequestStep, BeginUpdate, BeginSubmit, BeginDecision, BeginItems, CheckHasItems, SelectItems,
           CommitSubmit, CommitDecision, CommitItems, AbortRequest, Begin, draftVars
      <3>3. QED
        BY <3>1, <3>2
    <2>3. status'[p] = "absent" \/ (status'[p] = "draft" /\ sourceRevision'[p] = 1)
      <3>1. ~(sourceRevision[p] > 0)
        OBVIOUS
      <3>2. QED
        BY <1>a, <3>1, StatusSteps
    <2>4. QED
      BY <2>2, <2>3
  <1>2. CASE \E q \in Pubs : LockedStep(q) \/ TimePasses(q) \/ ChangeAuthorRole(q)
    <2>1. PICK q \in Pubs : LockedStep(q) \/ TimePasses(q) \/ ChangeAuthorRole(q)
      BY <1>2
    <2>2. CASE CreateDraft(q)
      BY <1>a, <2>2 DEF CreateDraft
    <2>3. CASE Restore(q)
      <3>1. p # q
        BY <1>a, <2>3 DEF Restore, Editable
      <3>2. sourceRevision'[p] = sourceRevision[p] /\ status'[p] = status[p]
        BY <1>a, <2>3, <3>1 DEF Restore, WriteRevision, pubVars
      <3>3. QED
        BY <1>a, <3>2
    <2>4. CASE Archive(q) \/ Unarchive(q)
      BY <1>a, <2>4 DEF Archive, Unarchive, ChangeArchiveStatus, draftVars
    <2>5. CASE EditLocalization(q) \/ TimePasses(q) \/ ChangeAuthorRole(q)
      BY <1>a, <2>5 DEF EditLocalization, TimePasses, ChangeAuthorRole, pubVars, draftVars
    <2>6. QED
      BY <2>1, <2>2, <2>3, <2>4, <2>5 DEF LockedStep
  <1>3. CASE \/ \E w \in Workers : WorkerStep(w) \/ CrashAndRestart(w)
             \/ UNCHANGED vars
    <2>1. sourceRevision'[p] = sourceRevision[p]
      BY <1>3 DEF WorkerStep, PublishDue, PublishDueFails, RequeueReviews, RequeueJobs,
         NoPendingReview, ClaimReview, ReviewFails, CompleteReview, NoPendingJob, ClaimJob,
         TranslationFails, ReadTarget, SaveTranslation, CrashAndRestart, draftVars, vars
    <2>2. status'[p] = "absent" \/ (status'[p] = "draft" /\ sourceRevision'[p] = 1)
      <3>1. ~(sourceRevision[p] > 0)
        OBVIOUS
      <3>2. QED
        BY <1>a, <3>1, StatusSteps
    <2>3. QED
      BY <2>1, <2>2
  <1>4. QED
    BY <1>1, <1>2, <1>3 DEF Next

\* A request that begins has just read the row; one that goes on keeps what it
\* read.
LEMMA NewRequests ==
    ASSUME IInv, [Next]_vars, NEW c \in Clients, req'[c] # req[c], req'[c].op # "none"
    PROVE  /\ UNCHANGED <<status, scheduledAt, sourceRevision, aiReviews>>
           /\ \/ \E p \in Pubs :
                    /\ req'[c].pub = p
                    /\ req'[c].rev = sourceRevision[p]
                    /\ req'[c].at = scheduledAt[p]
                    /\ status[p] # "absent"
                    /\ req'[c].op \in {"submit", "submit_digest"} => Editable(p)
                    /\ req'[c].op = "decide" => status[p] = "editorial_review"
              \/ /\ req'[c].pub = req[c].pub
                 /\ req'[c].rev = req[c].rev
                 /\ \/ req[c].op = "submit_digest" /\ req'[c].op = "submit"
                    \/ req[c].op = "items" /\ req'[c].op = "items"
  <1>a. req \in [Clients -> Request]
    BY DEF IInv, TypeOK
  <1>1. CASE \E d \in Clients : RequestStep(d)
    <2>1. PICK d \in Clients : RequestStep(d)
      BY <1>1
    <2>2. CASE \E p \in Pubs : BeginUpdate(d, p) \/ BeginSubmit(d, p) \/ BeginItems(d, p)
                               \/ BeginDecision(d, p)
      <3>1. PICK p \in Pubs : BeginUpdate(d, p) \/ BeginSubmit(d, p) \/ BeginItems(d, p)
                              \/ BeginDecision(d, p)
        BY <2>2
      <3>2. PICK op \in {"update", "submit", "submit_digest", "items", "decide"} :
               /\ Begin(d, Read(op, p))
               /\ op \in {"submit", "submit_digest"} => Editable(p)
               /\ op = "decide" => status[p] = "editorial_review"
               /\ status[p] # "absent"
        BY <3>1 DEF BeginUpdate, BeginSubmit, BeginItems, BeginDecision, Editable
      <3>3. c = d
        BY <1>a, <3>2 DEF Begin
      <3>4. req'[c] = Read(op, p)
        BY <1>a, <3>2, <3>3 DEF Begin
      <3>5. UNCHANGED <<status, scheduledAt, sourceRevision, aiReviews>>
        BY <3>2 DEF Begin, pubVars, draftVars, queueVars
      <3>6. QED
        BY <3>2, <3>4, <3>5 DEF Read
    <2>3. CASE CommitUpdate(d) \/ CommitSubmit(d) \/ CommitDecision(d) \/ CommitItems(d)
               \/ AbortRequest(d)
      <3>1. req' = [req EXCEPT ![d] = NoRequest]
        BY <2>3 DEF CommitUpdate, CommitSubmit, CommitDecision, CommitItems, AbortRequest, Done
      <3>2. req'[c] = NoRequest
        BY <1>a, <3>1
      <3>3. QED
        BY <3>2 DEF NoRequest
    <2>4. CASE CheckHasItems(d) \/ SelectItems(d)
      <3>1. UNCHANGED <<status, scheduledAt, sourceRevision, aiReviews>>
        BY <2>4 DEF CheckHasItems, SelectItems, pubVars, draftVars, queueVars
      <3>2. req[d] \in Request
        BY <1>a
      <3>3. CASE CheckHasItems(d)
        <4>1. /\ req' = [req EXCEPT ![d] = [req[d] EXCEPT !.op = "submit"]]
              /\ req[d].op = "submit_digest"
          BY <1>a, <3>3 DEF CheckHasItems
        <4>2. c = d /\ req'[c] = [req[c] EXCEPT !.op = "submit"]
          BY <1>a, <4>1
        <4>3. QED
          BY <3>1, <3>2, <4>1, <4>2 DEF Request
      <3>4. CASE SelectItems(d)
        <4>1. PICK chosen : /\ req' = [req EXCEPT ![d] = [req[d] EXCEPT !.items = chosen]]
                            /\ req[d].op = "items"
          BY <1>a, <3>4 DEF SelectItems
        <4>2. c = d /\ req'[c] = [req[c] EXCEPT !.items = chosen]
          BY <1>a, <4>1
        <4>3. QED
          BY <3>1, <3>2, <4>1, <4>2 DEF Request
      <3>5. QED
        BY <2>4, <3>3, <3>4
    <2>5. QED
      BY <2>1, <2>2, <2>3, <2>4 DEF RequestStep
  <1>2. CASE \/ \E p \in Pubs : LockedStep(p) \/ TimePasses(p) \/ ChangeAuthorRole(p)
             \/ \E w \in Workers : WorkerStep(w) \/ CrashAndRestart(w)
             \/ UNCHANGED vars
    <2>1. UNCHANGED req
      BY <1>2 DEF LockedStep, CreateDraft, Restore, Archive, Unarchive, ChangeArchiveStatus,
         EditLocalization, TimePasses, ChangeAuthorRole, WorkerStep, PublishDue,
         PublishDueFails, RequeueReviews, RequeueJobs, NoPendingReview, ClaimReview,
         ReviewFails, CompleteReview, NoPendingJob, ClaimJob, TranslationFails, ReadTarget,
         SaveTranslation, CrashAndRestart, vars
    <2>2. QED
      BY <2>1
  <1>3. QED
    BY <1>1, <1>2 DEF Next

\* A worker that has just claimed a row has just read the revision, and one
\* about to save found no translation.
LEMMA NewClaims ==
    ASSUME IInv, [Next]_vars, NEW w \in Workers, wk'[w] # wk[w],
           wk'[w].stage \in {"reviewing", "translating", "saving"}
    PROVE  /\ wk'[w].seenRev <= sourceRevision'[wk'[w].pub]
           /\ wk'[w].stage = "saving" => wk'[w].seenOrigin = "none"
  <1>a. /\ wk \in [Workers -> WorkerState]
        /\ sourceRevision \in [Pubs -> 0 .. MaxRevision]
    BY DEF IInv, TypeOK
  <1>1. CASE \E u \in Workers : WorkerStep(u) \/ CrashAndRestart(u)
    <2>1. PICK u \in Workers : WorkerStep(u) \/ CrashAndRestart(u)
      BY <1>1
    <2>2. UNCHANGED draftVars
      BY <2>1 DEF WorkerStep, PublishDue, PublishDueFails, RequeueReviews, RequeueJobs,
         NoPendingReview, ClaimReview, ReviewFails, CompleteReview, NoPendingJob, ClaimJob,
         TranslationFails, ReadTarget, SaveTranslation, CrashAndRestart
    <2>3. PICK s : Goto(u, s)
      BY <2>1 DEF WorkerStep, PublishDue, PublishDueFails, RequeueReviews, RequeueJobs,
         NoPendingReview, ClaimReview, ReviewFails, CompleteReview, NoPendingJob, ClaimJob,
         TranslationFails, ReadTarget, SaveTranslation, CrashAndRestart
    <2>4. u = w
      BY <1>a, <2>3 DEF Goto
    <2>5. CASE ClaimReview(u) \/ ClaimJob(u)
      <3>1. PICK p \in Pubs : /\ wk'[w].pub = p
                              /\ wk'[w].seenRev = sourceRevision[p]
                              /\ wk'[w].stage # "saving"
        BY <1>a, <2>4, <2>5 DEF ClaimReview, ClaimJob, Goto
      <3>2. QED
        BY <1>a, <2>2, <3>1 DEF draftVars
    <2>6. CASE ReadTarget(u)
      <3> DEFINE p == wk[w].pub
      <3>1. wk[w] \in WorkerState /\ wk[w].stage = "translating"
        BY <1>a, <2>4, <2>6 DEF ReadTarget
      <3>2. /\ p \in Pubs
            /\ jobs[p].status = "translating"
            /\ wk[w].seenRev <= sourceRevision[p]
        BY <3>1 DEF WorkerState, IInv, ExclusiveClaims, HoldsJob, SnapshotsAreOld
      <3>3. translations[p].origin = "none"
        BY <3>2 DEF IInv, TranslationIffReady
      <3>4. wk'[w] = [wk[w] EXCEPT !.stage = "saving", !.seenOrigin = translations[p].origin]
        BY <1>a, <2>4, <2>6 DEF ReadTarget, Goto
      <3>5. wk'[w].pub = p /\ wk'[w].seenRev = wk[w].seenRev /\ wk'[w].seenOrigin = "none"
        BY <3>1, <3>3, <3>4 DEF WorkerState
      <3>6. QED
        BY <2>2, <3>2, <3>5 DEF draftVars
    <2>7. CASE ~(ClaimReview(u) \/ ClaimJob(u) \/ ReadTarget(u))
      <3>1. PICK r \in Stages \ {"reviewing", "translating", "saving"} : Goto(u, At(r))
        BY <2>1, <2>7 DEF WorkerStep, PublishDue, PublishDueFails, RequeueReviews,
           RequeueJobs, NoPendingReview, ReviewFails, CompleteReview, NoPendingJob,
           TranslationFails, SaveTranslation, CrashAndRestart, Stages
      <3>2. wk'[w].stage = r
        BY <1>a, <2>4, <3>1 DEF Goto, At
      <3>3. QED
        BY <3>1, <3>2
    <2>8. QED
      BY <2>5, <2>6, <2>7
  <1>2. CASE \/ \E c \in Clients : RequestStep(c)
             \/ \E p \in Pubs : LockedStep(p) \/ TimePasses(p) \/ ChangeAuthorRole(p)
             \/ UNCHANGED vars
    <2>1. UNCHANGED wk
      BY <1>2 DEF RequestStep, BeginUpdate, BeginSubmit, BeginDecision, BeginItems, CheckHasItems, SelectItems, Begin,
         CommitUpdate, CommitSubmit, CommitDecision, CommitItems, AbortRequest,
         LockedStep, CreateDraft, Restore, Archive, Unarchive, ChangeArchiveStatus,
         EditLocalization, TimePasses, ChangeAuthorRole, vars
    <2>2. QED
      BY <2>1
  <1>3. QED
    BY <1>1, <1>2 DEF Next

\* A translation is written together with its job's last state.
LEMMA TranslationStep ==
    ASSUME IInv, [Next]_vars
    PROVE  TranslationIffReady'
  <1>a. /\ jobs \in [Pubs -> TranslationJob]
        /\ translations \in [Pubs -> Localization]
    BY DEF IInv, TypeOK
  <1>b. ASSUME NEW p \in Pubs
        PROVE  /\ translations[p].origin # "none" <=> jobs[p].status = "ready"
               /\ translations[p].rev <= sourceRevision[p]
               /\ translations[p].rev \in Nat
               /\ jobs[p].status \in {"none", "pending", "translating", "failed", "ready"}
    BY <1>a DEF IInv, TranslationIffReady, Localization, TranslationJob
  <1>c. ASSUME UNCHANGED translations,
               \A p \in Pubs : jobs'[p].status = "ready" <=> jobs[p].status = "ready"
        PROVE  TranslationIffReady'
    BY <1>b, <1>c, RevisionsGrow DEF TranslationIffReady
  <1>1. CASE \E c \in Clients : RequestStep(c)
    <2>1. PICK c \in Clients : RequestStep(c)
      BY <1>1
    <2>2. CASE CommitDecision(c)
      <3> DEFINE q == req[c].pub
      <3>1. req[c] \in Request /\ req[c].op = "decide"
        BY <2>2 DEF CommitDecision, IInv, TypeOK
      <3>2. q \in Pubs
        BY <3>1 DEF Request
      <3>3. PICK d \in Decisions :
               /\ d = "publish" => ~HasJob(q)
               /\ jobs' = IF d = "publish" THEN [jobs EXCEPT ![q] = NewJob] ELSE jobs
        BY <2>2 DEF CommitDecision
      <3>4. UNCHANGED translations
        BY <2>2 DEF CommitDecision
      <3> HIDE DEF q
      <3>5. ASSUME NEW p \in Pubs
            PROVE  jobs'[p].status = "ready" <=> jobs[p].status = "ready"
        BY <1>a, <3>2, <3>3 DEF HasJob, NewJob, NoJob
      <3>6. QED
        BY <1>c, <3>4, <3>5
    <2>3. CASE ~CommitDecision(c)
      <3>1. UNCHANGED <<translations, jobs>>
        BY <2>1, <2>3 DEF RequestStep, BeginUpdate, BeginSubmit, BeginDecision, BeginItems, CheckHasItems, SelectItems,
           CommitUpdate, CommitSubmit, CommitItems, AbortRequest, Begin, queueVars
      <3>2. QED
        BY <1>c, <3>1
    <2>4. QED
      BY <2>2, <2>3
  <1>2. CASE \E p \in Pubs : LockedStep(p) \/ TimePasses(p) \/ ChangeAuthorRole(p)
    <2>1. PICK q \in Pubs : LockedStep(q) \/ TimePasses(q) \/ ChangeAuthorRole(q)
      BY <1>2
    <2>2. CASE EditLocalization(q)
      <3>1. /\ translations[q].origin # "none"
            /\ translations' = [translations EXCEPT ![q] =
                  [translations[q] EXCEPT !.origin = "human"]]
            /\ UNCHANGED jobs
        BY <2>2 DEF EditLocalization
      <3>2. /\ [translations[q] EXCEPT !.origin = "human"].origin # "none"
            /\ [translations[q] EXCEPT !.origin = "human"].rev = translations[q].rev
        BY <1>a DEF Localization
      <3>3. ASSUME NEW p \in Pubs
            PROVE  /\ translations'[p].origin # "none" <=> translations[p].origin # "none"
                   /\ translations'[p].rev = translations[p].rev
        BY <1>a, <3>1, <3>2
      <3>4. QED
        BY <1>b, <3>1, <3>3, RevisionsGrow DEF TranslationIffReady
    <2>3. CASE ~EditLocalization(q)
      <3>1. UNCHANGED <<translations, jobs>>
        BY <2>1, <2>3 DEF LockedStep, CreateDraft, Restore, Archive, Unarchive,
           ChangeArchiveStatus, TimePasses, ChangeAuthorRole, queueVars
      <3>2. QED
        BY <1>c, <3>1
    <2>4. QED
      BY <2>2, <2>3
  <1>3. CASE \E w \in Workers : WorkerStep(w) \/ CrashAndRestart(w)
    <2>1. PICK w \in Workers : WorkerStep(w) \/ CrashAndRestart(w)
      BY <1>3
    <2> DEFINE q == wk[w].pub
    <2>a. wk[w] \in WorkerState
      BY DEF IInv, TypeOK
    <2>2. CASE PublishDue(w)
      <3>1. ASSUME NEW p \in Pubs
            PROVE  jobs'[p].status = "ready" <=> jobs[p].status = "ready"
        BY <2>2 DEF PublishDue, HasJob, NewJob, NoJob
      <3>2. UNCHANGED translations
        BY <2>2 DEF PublishDue
      <3>3. QED
        BY <1>c, <3>1, <3>2
    <2>3. CASE CompleteReview(w)
      <3>1. q \in Pubs
        BY <2>3, <2>a DEF CompleteReview, WorkerState
      <3>2. \/ jobs' = jobs
            \/ ~HasJob(q) /\ jobs' = [jobs EXCEPT ![q] = NewJob]
        <4>1. PICK d \in {"pass", "needs_editor", "block_until_review"} :
                 IF Autopublishes(wk[w], d)
                 THEN jobs' = IF HasJob(q) THEN jobs ELSE [jobs EXCEPT ![q] = NewJob]
                 ELSE UNCHANGED jobs
          BY <2>3 DEF CompleteReview
        <4>2. QED
          BY <4>1
      <3>3. UNCHANGED translations
        BY <2>3 DEF CompleteReview
      <3> HIDE DEF q
      <3>4. ASSUME NEW p \in Pubs
            PROVE  jobs'[p].status = "ready" <=> jobs[p].status = "ready"
        BY <1>a, <3>1, <3>2 DEF HasJob, NewJob, NoJob
      <3>5. QED
        BY <1>c, <3>3, <3>4
    <2>4. CASE RequeueJobs(w)
      <3>1. ASSUME NEW p \in Pubs
            PROVE  jobs'[p].status = "ready" <=> jobs[p].status = "ready"
        <4>1. jobs'[p] = IF Retryable(jobs[p]) THEN [jobs[p] EXCEPT !.status = "pending"]
                                               ELSE jobs[p]
          BY <2>4 DEF RequeueJobs
        <4>2. jobs[p] \in TranslationJob
          BY <1>a
        <4>3. QED
          BY <4>1, <4>2 DEF Retryable, TranslationJob
      <3>2. UNCHANGED translations
        BY <2>4 DEF RequeueJobs
      <3>3. QED
        BY <1>c, <3>1, <3>2
    <2>5. CASE ClaimJob(w)
      <3>1. PICK r \in Pubs :
               /\ jobs[r].status = "pending"
               /\ jobs' = [jobs EXCEPT ![r] =
                     [status |-> "translating", attempts |-> jobs[r].attempts + 1]]
        BY <2>5 DEF ClaimJob
      <3>2. UNCHANGED translations
        BY <2>5 DEF ClaimJob
      <3>3. ASSUME NEW p \in Pubs
            PROVE  jobs'[p].status = "ready" <=> jobs[p].status = "ready"
        BY <1>a, <3>1
      <3>4. QED
        BY <1>c, <3>2, <3>3
    <2>6. CASE TranslationFails(w)
      <3>1. q \in Pubs /\ jobs[q].status = "translating"
        BY <2>6, <2>a DEF TranslationFails, WorkerState, IInv, ExclusiveClaims, HoldsJob
      <3>2. /\ jobs' = [jobs EXCEPT ![q] = [jobs[q] EXCEPT !.status = "failed"]]
            /\ UNCHANGED translations
        BY <2>6 DEF TranslationFails
      <3>3. [jobs[q] EXCEPT !.status = "failed"].status = "failed"
        BY <1>a, <3>1 DEF TranslationJob
      <3> HIDE DEF q
      <3>4. ASSUME NEW p \in Pubs
            PROVE  jobs'[p].status = "ready" <=> jobs[p].status = "ready"
        BY <1>a, <3>1, <3>2, <3>3
      <3>5. QED
        BY <1>c, <3>2, <3>4
    <2>7. CASE SaveTranslation(w)
      <3>1. /\ q \in Pubs
            /\ wk[w].seenOrigin = "none"
            /\ wk[w].seenRev <= sourceRevision[q]
            /\ wk[w].seenRev \in Nat
        BY <2>7, <2>a DEF SaveTranslation, WorkerState, IInv, SnapshotsAreOld
      <3>2. /\ jobs' = [jobs EXCEPT ![q] = [jobs[q] EXCEPT !.status = "ready"]]
            /\ translations' = [translations EXCEPT ![q] =
                  [origin |-> "ai", rev |-> wk[w].seenRev]]
        BY <2>7, <3>1 DEF SaveTranslation, Saved
      <3>3. [jobs[q] EXCEPT !.status = "ready"].status = "ready"
        BY <1>a, <3>1 DEF TranslationJob
      <3> HIDE DEF q
      <3>4. ASSUME NEW p \in Pubs
            PROVE  /\ translations'[p].origin # "none" <=> jobs'[p].status = "ready"
                   /\ translations'[p].rev <= sourceRevision[p]
                   /\ translations'[p].rev \in Nat
        <4>1. CASE p = q
          BY <1>a, <3>1, <3>2, <3>3, <4>1
        <4>2. CASE p # q
          BY <1>a, <1>b, <3>2, <4>2
        <4>3. QED
          BY <4>1, <4>2
      <3>5. QED
        BY <3>4, RevisionsGrow DEF TranslationIffReady
    <2>8. CASE ~(\/ PublishDue(w) \/ CompleteReview(w) \/ RequeueJobs(w) \/ ClaimJob(w)
                 \/ TranslationFails(w) \/ SaveTranslation(w))
      <3>1. UNCHANGED <<translations, jobs>>
        BY <2>1, <2>8 DEF WorkerStep, PublishDueFails, RequeueReviews, NoPendingReview,
           ClaimReview, ReviewFails, NoPendingJob, ReadTarget, CrashAndRestart, queueVars
      <3>2. QED
        BY <1>c, <3>1
    <2>9. QED
      BY <2>2, <2>3, <2>4, <2>5, <2>6, <2>7, <2>8
  <1>4. CASE UNCHANGED vars
    BY <1>c, <1>4 DEF vars, queueVars
  <1>5. QED
    BY <1>1, <1>2, <1>3, <1>4 DEF Next

\* What requests and workers hold stays a past of the rows.
LEMMA SnapshotsStep ==
    ASSUME IInv, [Next]_vars
    PROVE  SnapshotsAreOld'
  <1>a. /\ req \in [Clients -> Request]
        /\ wk \in [Workers -> WorkerState]
        /\ sourceRevision \in [Pubs -> 0 .. MaxRevision]
    BY DEF IInv, TypeOK
  <1>1. ASSUME NEW p \in Pubs
        PROVE  status'[p] = "absent" <=> sourceRevision'[p] = 0
    <2>1. status[p] = "absent" <=> sourceRevision[p] = 0
      BY DEF IInv, SnapshotsAreOld
    <2>2. /\ sourceRevision[p] \in Nat
          /\ sourceRevision'[p] \in Nat
          /\ sourceRevision[p] <= sourceRevision'[p]
      BY RevisionsGrow
    <2>3. CASE sourceRevision[p] > 0
      <3>1. status[p] # "absent" /\ sourceRevision'[p] > 0
        BY <2>1, <2>2, <2>3
      <3>2. status'[p] # "absent"
        BY <3>1, StatusSteps
      <3>3. QED
        BY <3>1, <3>2
    <2>4. CASE sourceRevision[p] = 0
      BY <2>1, <2>4, FirstRevision
    <2>5. QED
      BY <2>2, <2>3, <2>4
  <1>2. ASSUME NEW c \in Clients, req'[c].op # "none"
        PROVE  /\ req'[c].rev \in 1 .. sourceRevision'[req'[c].pub]
               /\ req'[c].op = "decide" => HasReview(req[c].pub)'
    <2>1. CASE req'[c] = req[c]
      <3>1. PICK p \in Pubs : p = req[c].pub
        BY <1>a, <1>2, <2>1 DEF Request
      <3>2. /\ req[c].rev \in 1 .. sourceRevision[p]
            /\ req[c].op = "decide" => HasReview(p)
        BY <1>2, <2>1, <3>1 DEF IInv, SnapshotsAreOld
      <3>3. /\ sourceRevision[p] \in Nat /\ sourceRevision'[p] \in Nat
            /\ sourceRevision[p] <= sourceRevision'[p]
        BY RevisionsGrow
      <3>4. HasReview(p) => HasReview(p)'
        BY ReviewsStay
      <3>5. req[c].rev \in 1 .. sourceRevision'[p]
        BY <3>2, <3>3
      <3>6. req'[c].pub = p /\ req'[c].rev = req[c].rev /\ req'[c].op = req[c].op
        BY <2>1, <3>1
      <3>7. QED
        BY <3>2, <3>4, <3>5, <3>6 DEF HasReview
    <2>2. ASSUME NEW p \in Pubs,
                 req'[c].pub = p,
                 req'[c].rev = sourceRevision[p],
                 status[p] # "absent",
                 req'[c].op = "decide" => status[p] = "editorial_review",
                 UNCHANGED <<sourceRevision, aiReviews>>
          PROVE  /\ req'[c].rev \in 1 .. sourceRevision'[req'[c].pub]
                 /\ req'[c].op = "decide" => HasReview(req[c].pub)'
      <3>1. sourceRevision[p] > 0
        BY <1>a, <2>2 DEF IInv, SnapshotsAreOld
      <3>2. req'[c].op = "decide" => HasReview(p)
        BY <2>2 DEF IInv, ReviewsBelongToRevisions
      <3>3. HasReview(p) => HasReview(p)'
        BY ReviewsStay
      <3>4. req'[c].rev \in 1 .. sourceRevision'[p]
        BY <1>a, <2>2, <3>1
      <3>5. QED
        BY <2>2, <3>2, <3>3, <3>4 DEF HasReview
    <2>3. ASSUME req'[c].pub = req[c].pub,
                 req'[c].rev = req[c].rev,
                 req[c].op \in {"submit_digest", "items"},
                 req'[c].op \in {"submit", "items"},
                 UNCHANGED sourceRevision
          PROVE  /\ req'[c].rev \in 1 .. sourceRevision'[req'[c].pub]
                 /\ req'[c].op = "decide" => HasReview(req[c].pub)'
      <3>1. req[c].rev \in 1 .. sourceRevision[req[c].pub]
        BY <2>3 DEF IInv, SnapshotsAreOld
      <3>2. QED
        BY <2>3, <3>1
    <2>4. CASE req'[c] # req[c]
      BY <1>2, <2>2, <2>3, <2>4, NewRequests
    <2>5. QED
      BY <2>1, <2>4
  <1>3. ASSUME NEW w \in Workers, wk'[w].stage \in {"reviewing", "translating", "saving"}
        PROVE  /\ wk'[w].seenRev <= sourceRevision'[wk'[w].pub]
               /\ wk'[w].stage = "saving" => wk'[w].seenOrigin = "none"
    <2>1. CASE wk'[w] = wk[w]
      <3>1. PICK p \in Pubs : p = wk[w].pub
        BY <1>a, <1>3, <2>1 DEF WorkerState
      <3>0. wk[w].seenRev \in Nat
        BY <1>a DEF WorkerState
      <3>2. /\ wk[w].seenRev <= sourceRevision[p]
            /\ wk[w].stage = "saving" => wk[w].seenOrigin = "none"
        BY <1>3, <2>1, <3>1 DEF IInv, SnapshotsAreOld
      <3>3. /\ sourceRevision[p] \in Nat /\ sourceRevision'[p] \in Nat
            /\ sourceRevision[p] <= sourceRevision'[p]
        BY RevisionsGrow
      <3>4. wk[w].seenRev <= sourceRevision'[p]
        BY <3>0, <3>2, <3>3
      <3>5. wk'[w].pub = p /\ wk'[w].seenRev = wk[w].seenRev /\ wk'[w].stage = wk[w].stage
            /\ wk'[w].seenOrigin = wk[w].seenOrigin
        BY <2>1, <3>1
      <3>6. QED
        BY <3>2, <3>4, <3>5
    <2>2. CASE wk'[w] # wk[w]
      BY <1>3, <2>2, NewClaims
    <2>3. QED
      BY <2>1, <2>2
  <1>4. QED
    BY <1>1, <1>2, <1>3 DEF SnapshotsAreOld

\* One worker moves at a time.
LEMMA OneWorkerMoves ==
    ASSUME IInv, [Next]_vars
    PROVE  \/ UNCHANGED wk
           \/ \E u \in Workers : /\ WorkerStep(u) \/ CrashAndRestart(u)
                                 /\ \A w \in Workers : w # u => wk'[w] = wk[w]
  <1>a. wk \in [Workers -> WorkerState]
    BY DEF IInv, TypeOK
  <1>1. CASE \E u \in Workers : WorkerStep(u) \/ CrashAndRestart(u)
    <2>1. PICK u \in Workers : WorkerStep(u) \/ CrashAndRestart(u)
      BY <1>1
    <2>2. PICK s : Goto(u, s)
      BY <2>1 DEF WorkerStep, PublishDue, PublishDueFails, RequeueReviews, RequeueJobs,
         NoPendingReview, ClaimReview, ReviewFails, CompleteReview, NoPendingJob, ClaimJob,
         TranslationFails, ReadTarget, SaveTranslation, CrashAndRestart
    <2>3. QED
      BY <1>a, <2>1, <2>2 DEF Goto
  <1>2. CASE \/ \E c \in Clients : RequestStep(c)
             \/ \E p \in Pubs : LockedStep(p) \/ TimePasses(p) \/ ChangeAuthorRole(p)
             \/ UNCHANGED vars
    <2>1. UNCHANGED wk
      BY <1>2 DEF RequestStep, BeginUpdate, BeginSubmit, BeginDecision, BeginItems, CheckHasItems, SelectItems, Begin,
         CommitUpdate, CommitSubmit, CommitDecision, CommitItems, AbortRequest,
         LockedStep, CreateDraft, Restore, Archive, Unarchive, ChangeArchiveStatus,
         EditLocalization, TimePasses, ChangeAuthorRole, vars
    <2>2. QED
      BY <2>1
  <1>3. QED
    BY <1>1, <1>2 DEF Next

\* A worker gets hold of a row only in three of its steps.
LEMMA WorkerMoves ==
    ASSUME IInv, NEW w \in Workers, WorkerStep(w) \/ CrashAndRestart(w)
    PROVE  \/ ClaimReview(w) /\ wk'[w].stage = "reviewing"
           \/ ClaimJob(w) /\ wk'[w].stage = "translating"
           \/ /\ ReadTarget(w)
              /\ wk[w].stage = "translating"
              /\ wk'[w].stage = "saving"
              /\ wk'[w].pub = wk[w].pub
           \/ wk'[w].stage \notin {"reviewing", "translating", "saving"}
  <1>a. wk \in [Workers -> WorkerState]
    BY DEF IInv, TypeOK
  <1>1. CASE ClaimReview(w)
    <2>1. wk'[w].stage = "reviewing"
      BY <1>a, <1>1 DEF ClaimReview, Goto
    <2>2. QED
      BY <1>1, <2>1
  <1>2. CASE ClaimJob(w)
    <2>1. wk'[w].stage = "translating"
      BY <1>a, <1>2 DEF ClaimJob, Goto
    <2>2. QED
      BY <1>2, <2>1
  <1>3. CASE ReadTarget(w)
    <2>1. wk'[w] = [wk[w] EXCEPT !.stage = "saving",
                                 !.seenOrigin = translations[wk[w].pub].origin]
      BY <1>a, <1>3 DEF ReadTarget, Goto
    <2>2. wk[w] \in WorkerState
      BY <1>a
    <2>3. QED
      BY <1>3, <2>1, <2>2 DEF ReadTarget, WorkerState
  <1>4. CASE ~(ClaimReview(w) \/ ClaimJob(w) \/ ReadTarget(w))
    <2>1. PICK r \in Stages \ {"reviewing", "translating", "saving"} : Goto(w, At(r))
      BY <1>4 DEF WorkerStep, PublishDue, PublishDueFails, RequeueReviews, RequeueJobs,
         NoPendingReview, ReviewFails, CompleteReview, NoPendingJob, TranslationFails,
         SaveTranslation, CrashAndRestart, Stages
    <2>2. wk'[w].stage = r
      BY <1>a, <2>1 DEF Goto, At
    <2>3. QED
      BY <2>1, <2>2
  <1>5. QED
    BY <1>1, <1>2, <1>3, <1>4

\* A worker comes to hold a review row only by claiming it while pending.
LEMMA ReviewClaims ==
    ASSUME IInv, [Next]_vars, NEW w \in Workers, NEW p \in Pubs, NEW n \in Revisions,
           ~HoldsReview(w, p, n), HoldsReview(w, p, n)'
    PROVE  /\ aiReviews[p][n].status = "pending"
           /\ aiReviews'[p][n].status = "reviewing"
           /\ \A u \in Workers : u # w => wk'[u] = wk[u]
  <1>a. /\ wk \in [Workers -> WorkerState]
        /\ aiReviews \in [Pubs -> [Revisions -> AiReview]]
    BY DEF IInv, TypeOK
  <1>1. PICK u \in Workers : /\ WorkerStep(u) \/ CrashAndRestart(u)
                             /\ \A v \in Workers : v # u => wk'[v] = wk[v]
    BY OneWorkerMoves DEF HoldsReview
  <1>2. u = w
    BY <1>1 DEF HoldsReview
  <1>3. CASE ClaimReview(w)
    <2>1. PICK q \in Pubs, m \in Revisions :
             /\ aiReviews[q][m].status = "pending"
             /\ aiReviews' = [aiReviews EXCEPT ![q][m] =
                   [status |-> "reviewing", attempts |-> @.attempts + 1,
                    decision |-> @.decision]]
             /\ wk' = [wk EXCEPT ![w] =
                   [stage |-> "reviewing", pub |-> q, rev |-> m,
                    seenStatus |-> status[q], seenRev |-> sourceRevision[q],
                    seenOrigin |-> "none"]]
      BY <1>3 DEF ClaimReview, Goto
    <2>2. q = p /\ m = n
      BY <1>a, <2>1 DEF HoldsReview
    <2>3. QED
      BY <1>a, <1>1, <1>2, <2>1, <2>2
  <1>4. CASE ~ClaimReview(w)
    <2>1. wk'[w].stage # "reviewing"
      BY <1>1, <1>2, <1>4, WorkerMoves
    <2>2. QED
      BY <2>1 DEF HoldsReview
  <1>5. QED
    BY <1>3, <1>4

\* While a worker holds a review row nobody changes it.
LEMMA HeldReviewStays ==
    ASSUME IInv, [Next]_vars, NEW w \in Workers, NEW p \in Pubs, NEW n \in Revisions,
           HoldsReview(w, p, n), HoldsReview(w, p, n)'
    PROVE  aiReviews'[p][n].status = "reviewing"
  <1>a. /\ wk \in [Workers -> WorkerState]
        /\ aiReviews \in [Pubs -> [Revisions -> AiReview]]
    BY DEF IInv, TypeOK
  <1>b. aiReviews[p][n].status = "reviewing"
    BY DEF IInv, ExclusiveClaims
  <1>1. ASSUME NEW c \in Clients, RequestStep(c)
        PROVE  aiReviews'[p][n].status = "reviewing"
    <2>1. CASE CommitSubmit(c)
      <3>1. PICK q, m : /\ aiReviews[q][m].status = "none"
                        /\ aiReviews' = [aiReviews EXCEPT ![q][m] = NewReview]
        BY <2>1 DEF CommitSubmit
      <3>2. ~(q = p /\ m = n)
        BY <1>b, <3>1
      <3>3. QED
        BY <1>a, <1>b, <3>1, <3>2
    <2>2. CASE ~CommitSubmit(c)
      BY <1>b, <1>1, <2>2 DEF RequestStep, BeginUpdate, BeginSubmit, BeginDecision, BeginItems, CheckHasItems, SelectItems,
         Begin, CommitUpdate, CommitDecision, CommitItems, AbortRequest, queueVars
    <2>3. QED
      BY <2>1, <2>2
  <1>2. ASSUME NEW u \in Workers, WorkerStep(u) \/ CrashAndRestart(u)
        PROVE  aiReviews'[p][n].status = "reviewing"
    <2>1. CASE RequeueReviews(u)
      <3>1. aiReviews'[p][n] = aiReviews[p][n]
        BY <1>b, <2>1 DEF RequeueReviews, Retryable
      <3>2. QED
        BY <1>b, <3>1
    <2>2. CASE ClaimReview(u)
      <3>1. PICK q \in Pubs, m \in Revisions :
               /\ aiReviews[q][m].status = "pending"
               /\ aiReviews' = [aiReviews EXCEPT ![q][m] =
                     [status |-> "reviewing", attempts |-> @.attempts + 1,
                      decision |-> @.decision]]
        BY <2>2 DEF ClaimReview
      <3>2. ~(q = p /\ m = n)
        BY <1>b, <3>1
      <3>3. QED
        BY <1>a, <1>b, <3>1, <3>2
    <2>3. CASE ReviewFails(u) \/ CompleteReview(u)
      <3>1. /\ wk[u] \in WorkerState
            /\ wk[u].stage = "reviewing"
            /\ wk'[u].stage = "next_job"
        BY <1>a, <2>3 DEF ReviewFails, CompleteReview, Goto, At
      <3>2. u # w
        BY <3>1 DEF HoldsReview
      <3>3. ~(wk[u].pub = p /\ wk[u].rev = n)
        BY <3>1, <3>2 DEF IInv, ExclusiveClaims, HoldsReview
      <3>4. PICK x : aiReviews' = [aiReviews EXCEPT ![wk[u].pub][wk[u].rev] = x]
        BY <2>3 DEF ReviewFails, CompleteReview
      <3>5. QED
        BY <1>a, <1>b, <3>3, <3>4
    <2>4. CASE ~(RequeueReviews(u) \/ ClaimReview(u) \/ ReviewFails(u) \/ CompleteReview(u))
      <3>1. aiReviews' = aiReviews
        BY <1>2, <2>4 DEF WorkerStep, PublishDue, PublishDueFails, RequeueJobs,
           NoPendingReview, NoPendingJob, ClaimJob, TranslationFails, ReadTarget,
           SaveTranslation, CrashAndRestart, queueVars
      <3>2. QED
        BY <1>b, <3>1
    <2>5. QED
      BY <2>1, <2>2, <2>3, <2>4
  <1>3. CASE \/ \E q \in Pubs : LockedStep(q) \/ TimePasses(q) \/ ChangeAuthorRole(q)
             \/ UNCHANGED vars
    BY <1>b, <1>3 DEF LockedStep, CreateDraft, Restore, Archive, Unarchive, ChangeArchiveStatus,
       EditLocalization, TimePasses, ChangeAuthorRole, vars, queueVars
  <1>4. QED
    BY <1>1, <1>2, <1>3 DEF Next

\* A worker comes to hold a job only by claiming it while pending.
LEMMA JobClaims ==
    ASSUME IInv, [Next]_vars, NEW w \in Workers, NEW p \in Pubs,
           ~HoldsJob(w, p), HoldsJob(w, p)'
    PROVE  /\ jobs[p].status = "pending"
           /\ jobs'[p].status = "translating"
           /\ \A u \in Workers : u # w => wk'[u] = wk[u]
  <1>a. /\ wk \in [Workers -> WorkerState]
        /\ jobs \in [Pubs -> TranslationJob]
    BY DEF IInv, TypeOK
  <1>1. PICK u \in Workers : /\ WorkerStep(u) \/ CrashAndRestart(u)
                             /\ \A v \in Workers : v # u => wk'[v] = wk[v]
    BY OneWorkerMoves DEF HoldsJob
  <1>2. u = w
    BY <1>1 DEF HoldsJob
  <1>3. ClaimJob(w)
    BY <1>1, <1>2, WorkerMoves DEF HoldsJob
  <1>4. PICK q \in Pubs :
           /\ jobs[q].status = "pending"
           /\ jobs' = [jobs EXCEPT ![q] =
                 [status |-> "translating", attempts |-> @.attempts + 1]]
           /\ wk' = [wk EXCEPT ![w] =
                 [stage |-> "translating", pub |-> q, rev |-> 0,
                  seenStatus |-> "absent", seenRev |-> sourceRevision[q],
                  seenOrigin |-> "none"]]
    BY <1>3 DEF ClaimJob, Goto
  <1>5. q = p
    BY <1>a, <1>4 DEF HoldsJob
  <1>6. QED
    BY <1>a, <1>1, <1>2, <1>4, <1>5

\* While a worker holds a job nobody changes it.
LEMMA HeldJobStays ==
    ASSUME IInv, [Next]_vars, NEW w \in Workers, NEW p \in Pubs,
           HoldsJob(w, p), HoldsJob(w, p)'
    PROVE  jobs'[p].status = "translating"
  <1>a. /\ wk \in [Workers -> WorkerState]
        /\ jobs \in [Pubs -> TranslationJob]
    BY DEF IInv, TypeOK
  <1>b. jobs[p].status = "translating"
    BY DEF IInv, ExclusiveClaims
  <1>c. ASSUME NEW q, ~HasJob(q), jobs' = [jobs EXCEPT ![q] = NewJob]
        PROVE  jobs'[p].status = "translating"
    <2>1. q # p
      BY <1>b, <1>c DEF HasJob
    <2>2. QED
      BY <1>a, <1>b, <1>c, <2>1
  <1>1. ASSUME NEW c \in Clients, RequestStep(c)
        PROVE  jobs'[p].status = "translating"
    <2>1. CASE CommitDecision(c)
      <3>1. PICK d \in Decisions :
               /\ d = "publish" => ~HasJob(req[c].pub)
               /\ jobs' = IF d = "publish" THEN [jobs EXCEPT ![req[c].pub] = NewJob] ELSE jobs
        BY <2>1 DEF CommitDecision
      <3>2. QED
        BY <1>b, <1>c, <3>1
    <2>2. CASE ~CommitDecision(c)
      BY <1>b, <1>1, <2>2 DEF RequestStep, BeginUpdate, BeginSubmit, BeginDecision, BeginItems, CheckHasItems, SelectItems,
         Begin, CommitUpdate, CommitSubmit, CommitItems, AbortRequest, queueVars
    <2>3. QED
      BY <2>1, <2>2
  <1>2. ASSUME NEW u \in Workers, WorkerStep(u) \/ CrashAndRestart(u)
        PROVE  jobs'[p].status = "translating"
    <2>1. CASE PublishDue(u)
      <3>1. jobs'[p] = jobs[p]
        BY <1>b, <2>1 DEF PublishDue, HasJob
      <3>2. QED
        BY <1>b, <3>1
    <2>2. CASE CompleteReview(u)
      <3>1. PICK d \in {"pass", "needs_editor", "block_until_review"} :
               IF Autopublishes(wk[u], d)
               THEN jobs' = IF HasJob(wk[u].pub) THEN jobs
                            ELSE [jobs EXCEPT ![wk[u].pub] = NewJob]
               ELSE UNCHANGED jobs
        BY <2>2 DEF CompleteReview
      <3>2. QED
        BY <1>b, <1>c, <3>1
    <2>3. CASE RequeueJobs(u)
      <3>1. jobs'[p] = jobs[p]
        BY <1>b, <2>3 DEF RequeueJobs, Retryable
      <3>2. QED
        BY <1>b, <3>1
    <2>4. CASE ClaimJob(u)
      <3>1. PICK q \in Pubs :
               /\ jobs[q].status = "pending"
               /\ jobs' = [jobs EXCEPT ![q] =
                     [status |-> "translating", attempts |-> @.attempts + 1]]
        BY <2>4 DEF ClaimJob
      <3>2. q # p
        BY <1>b, <3>1
      <3>3. QED
        BY <1>a, <1>b, <3>1, <3>2
    <2>5. CASE TranslationFails(u) \/ SaveTranslation(u)
      <3>1. /\ wk[u] \in WorkerState
            /\ wk[u].stage \in {"translating", "saving"}
            /\ wk'[u].stage = "publish_due"
        BY <1>a, <2>5 DEF TranslationFails, SaveTranslation, Goto, At
      <3>2. u # w
        BY <3>1 DEF HoldsJob
      <3>3. wk[u].pub # p
        BY <3>1, <3>2 DEF IInv, ExclusiveClaims, HoldsJob
      <3>4. PICK x : jobs' = [jobs EXCEPT ![wk[u].pub] = x]
        BY <2>5 DEF TranslationFails, SaveTranslation
      <3>5. QED
        BY <1>a, <1>b, <3>3, <3>4
    <2>6. CASE ~(\/ PublishDue(u) \/ CompleteReview(u) \/ RequeueJobs(u) \/ ClaimJob(u)
                 \/ TranslationFails(u) \/ SaveTranslation(u))
      <3>1. jobs' = jobs
        BY <1>2, <2>6 DEF WorkerStep, PublishDueFails, RequeueReviews, NoPendingReview,
           ClaimReview, ReviewFails, NoPendingJob, ReadTarget, CrashAndRestart, queueVars
      <3>2. QED
        BY <1>b, <3>1
    <2>7. QED
      BY <2>1, <2>2, <2>3, <2>4, <2>5, <2>6
  <1>3. CASE \/ \E q \in Pubs : LockedStep(q) \/ TimePasses(q) \/ ChangeAuthorRole(q)
             \/ UNCHANGED vars
    BY <1>b, <1>3 DEF LockedStep, CreateDraft, Restore, Archive, Unarchive, ChangeArchiveStatus,
       EditLocalization, TimePasses, ChangeAuthorRole, vars, queueVars
  <1>4. QED
    BY <1>1, <1>2, <1>3 DEF Next

LEMMA ExclusiveClaimsStep ==
    ASSUME IInv, [Next]_vars
    PROVE  ExclusiveClaims'
  <1>1. ASSUME NEW w \in Workers, NEW p \in Pubs, NEW n \in Revisions, HoldsReview(w, p, n)'
        PROVE  /\ aiReviews'[p][n].status = "reviewing"
               /\ \A u \in Workers : HoldsReview(u, p, n)' => u = w
    <2>1. aiReviews'[p][n].status = "reviewing"
      BY <1>1, ReviewClaims, HeldReviewStays
    <2>2. ASSUME NEW u \in Workers, HoldsReview(u, p, n)', u # w
          PROVE  FALSE
      <3>1. ~(HoldsReview(w, p, n) /\ HoldsReview(u, p, n))
        BY <2>2 DEF IInv, ExclusiveClaims
      <3>2. ASSUME NEW v \in Workers, NEW x \in Workers, x # v,
                   ~HoldsReview(v, p, n), HoldsReview(v, p, n)', HoldsReview(x, p, n)'
            PROVE  FALSE
        <4>1. /\ aiReviews[p][n].status = "pending"
              /\ wk'[x] = wk[x]
          BY <3>2, ReviewClaims
        <4>2. HoldsReview(x, p, n)
          BY <3>2, <4>1 DEF HoldsReview
        <4>3. QED
          BY <4>1, <4>2 DEF IInv, ExclusiveClaims
      <3>3. QED
        BY <1>1, <2>2, <3>1, <3>2
    <2>3. QED
      BY <2>1, <2>2
  <1>2. ASSUME NEW w \in Workers, NEW p \in Pubs, HoldsJob(w, p)'
        PROVE  /\ jobs'[p].status = "translating"
               /\ \A u \in Workers : HoldsJob(u, p)' => u = w
    <2>1. jobs'[p].status = "translating"
      BY <1>2, JobClaims, HeldJobStays
    <2>2. ASSUME NEW u \in Workers, HoldsJob(u, p)', u # w
          PROVE  FALSE
      <3>1. ~(HoldsJob(w, p) /\ HoldsJob(u, p))
        BY <2>2 DEF IInv, ExclusiveClaims
      <3>2. ASSUME NEW v \in Workers, NEW x \in Workers, x # v,
                   ~HoldsJob(v, p), HoldsJob(v, p)', HoldsJob(x, p)'
            PROVE  FALSE
        <4>1. /\ jobs[p].status = "pending"
              /\ wk'[x] = wk[x]
          BY <3>2, JobClaims
        <4>2. HoldsJob(x, p)
          BY <3>2, <4>1 DEF HoldsJob
        <4>3. QED
          BY <4>1, <4>2 DEF IInv, ExclusiveClaims
      <3>3. QED
        BY <1>2, <2>2, <3>1, <3>2
    <2>3. QED
      BY <2>1, <2>2
  <1>3. QED
    BY <1>1, <1>2 DEF ExclusiveClaims

----------------------------------------------------------------------------
(* The theorems *)

LEMMA InitIInv == Init => IInv
  <1> SUFFICES ASSUME Init
               PROVE  IInv
    OBVIOUS
  <1>1. TypeOK
    BY InitTypes
  <1>2. SnapshotsAreOld
    BY DEF Init, SnapshotsAreOld, NoRequest, At
  <1>3. RevisionHistory
    BY DEF Init, RevisionHistory, Revisions
  <1>4. ReviewsBelongToRevisions
    BY DEF Init, ReviewsBelongToRevisions, NoReview
  <1>5. ExclusiveClaims
    BY DEF Init, ExclusiveClaims, HoldsReview, HoldsJob, At
  <1>6. TranslationIffReady
    BY DEF Init, TranslationIffReady, NoLocalization, NoJob
  <1>7. PublishedOnce /\ ShownIsDated /\ AuditExplainsStatus
    BY DEF Init, PublishedOnce, ShownIsDated, AuditExplainsStatus, HasJob, NoJob
  <1>8. QED
    BY <1>1, <1>2, <1>3, <1>4, <1>5, <1>6, <1>7 DEF IInv

LEMMA StepIInv == IInv /\ [Next]_vars => IInv'
  <1> SUFFICES ASSUME IInv, [Next]_vars
               PROVE  IInv'
    OBVIOUS
  <1>1. TypeOK'
    BY StepTypes DEF IInv
  <1>2. QED
    BY <1>1, SnapshotsStep, RevisionHistoryStep, ReviewsBelongStep, ExclusiveClaimsStep,
       TranslationStep, PublishedOnceStep, DatesStep, AuditStep DEF IInv

\* The inductive invariant holds in every reachable state, for any number of
\* publications, requests in flight, workers, revisions and attempts.
THEOREM Invariant == Spec => []IInv
  <1>1. QED
    BY InitIInv, StepIInv, PTL DEF Spec

\* Overlapping edits and restorations leave the gapless numbered history of
\* revisions that ends in the text in force.
THEOREM HistoryIsGapless == Spec => []RevisionHistory
  <1>1. IInv => RevisionHistory
    BY DEF IInv
  <1>2. QED
    BY <1>1, Invariant, PTL

\* A publication has a translation job exactly when it has been published,
\* whichever of the editor, the scheduler and the AI review published it.
THEOREM OneJobPerPublication == Spec => []PublishedOnce
  <1>1. IInv => PublishedOnce
    BY DEF IInv
  <1>2. QED
    BY <1>1, Invariant, PTL

\* However many workers compete and die, each queue row is in the hands of at
\* most one of them.
THEOREM ClaimsAreExclusive == Spec => []ExclusiveClaims
  <1>1. IInv => ExclusiveClaims
    BY DEF IInv
  <1>2. QED
    BY <1>1, Invariant, PTL

\* A translation exists exactly when its job is ready, so what an editor made
\* of it is never written over.
THEOREM TranslationsAreFinal == Spec => []TranslationIffReady
  <1>1. IInv => TranslationIffReady
    BY DEF IInv
  <1>2. QED
    BY <1>1, Invariant, PTL

\* Every status is explained by the audit trail, a schedule or a passed
\* review.
THEOREM StatusIsExplained == Spec => []AuditExplainsStatus
  <1>1. IInv => AuditExplainsStatus
    BY DEF IInv
  <1>2. QED
    BY <1>1, Invariant, PTL

\* Only written revisions are reviewed, and nothing leaves its author's hands
\* without a review row.
THEOREM ReviewsAreOfRevisions == Spec => []ReviewsBelongToRevisions
  <1>1. IInv => ReviewsBelongToRevisions
    BY DEF IInv
  <1>2. QED
    BY <1>1, Invariant, PTL

\* What a request or a worker holds across its gap is a past of the row.
THEOREM GapsHoldThePast == Spec => []SnapshotsAreOld
  <1>1. IInv => SnapshotsAreOld
    BY DEF IInv
  <1>2. QED
    BY <1>1, Invariant, PTL

----------------------------------------------------------------------------
(* Digests: a publication date is never taken away, and what a request has *)
(* selected was published when it was.                                     *)

SelectedWasPublished ==
    \A c \in Clients : req[c].op = "items" =>
        \A p \in req[c].items : publishedAt[p]

LEMMA DatesStay == ASSUME IInv, [Next]_vars, NEW p \in Pubs, publishedAt[p] PROVE publishedAt'[p]
  <1>1. publishedAt \in [Pubs -> BOOLEAN]
    BY DEF IInv, TypeOK
  <1>2. ASSUME NEW c \in Clients, CommitDecision(c) PROVE publishedAt'[p]
    BY <1>1, <1>2 DEF CommitDecision, Dated
  <1>3. ASSUME NEW w \in Workers, PublishDue(w) PROVE publishedAt'[p]
    BY <1>1, <1>3 DEF PublishDue
  <1>4. ASSUME NEW w \in Workers, CompleteReview(w) PROVE publishedAt'[p]
    BY <1>1, <1>4 DEF CompleteReview
  <1>5. CASE UNCHANGED publishedAt
    BY <1>5
  <1>6. CASE \E c \in Clients : RequestStep(c)
    <2>1. PICK c \in Clients : RequestStep(c)
      BY <1>6
    <2>2. CASE ~CommitDecision(c)
      BY <1>5, <2>1, <2>2 DEF RequestStep, Begin, BeginUpdate, BeginSubmit, BeginItems,
         BeginDecision, CheckHasItems, SelectItems, CommitUpdate, CommitSubmit, CommitItems, AbortRequest, pubVars
    <2>3. QED
      BY <1>2, <2>2
  <1>7. CASE \E q \in Pubs : LockedStep(q) \/ TimePasses(q) \/ ChangeAuthorRole(q)
    BY <1>5, <1>7 DEF LockedStep, CreateDraft, Restore, Archive, Unarchive,
       ChangeArchiveStatus, EditLocalization, TimePasses, ChangeAuthorRole, pubVars
  <1>8. CASE \E w \in Workers : WorkerStep(w) \/ CrashAndRestart(w)
    BY <1>3, <1>4, <1>5, <1>8 DEF WorkerStep, PublishDueFails, RequeueReviews, RequeueJobs,
       NoPendingReview, ClaimReview, ReviewFails, NoPendingJob, ClaimJob, TranslationFails,
       ReadTarget, SaveTranslation, CrashAndRestart, pubVars
  <1>9. CASE UNCHANGED vars
    BY <1>5, <1>9 DEF pubVars, vars
  <1>10. QED
    BY <1>6, <1>7, <1>8, <1>9 DEF Next

LEMMA SelectionStep ==
    ASSUME IInv, SelectedWasPublished, DigestItemsWerePublished, [Next]_vars
    PROVE  SelectedWasPublished' /\ DigestItemsWerePublished'
  <1>a. /\ req \in [Clients -> Request]
        /\ items \in [Pubs -> SUBSET Pubs]
        /\ \A p \in Pubs : publishedAt[p] => publishedAt'[p]
    BY DatesStay DEF IInv, TypeOK
  <1>b. \A c \in Clients : req[c].items \subseteq Pubs
    BY <1>a DEF Request
  <1>1. ASSUME NEW c \in Clients, SelectItems(c) PROVE SelectedWasPublished'
    <2>1. PICK chosen \in SUBSET Selectable : req' = [req EXCEPT ![c].items = chosen]
      BY <1>1 DEF SelectItems
    <2>2. \A p \in chosen : p \in Pubs /\ publishedAt[p]
      BY DEF Selectable, IInv, ShownIsDated
    <2>3. req[c] \in Request
      BY <1>a
    <2>4. /\ \A b \in Clients : b # c => req'[b] = req[b]
          /\ req'[c].items = chosen
      BY <1>a, <2>1, <2>3 DEF Request
    <2>5. QED
      BY <1>a, <1>b, <2>2, <2>4 DEF SelectedWasPublished
  <1>2. ASSUME \A c \in Clients :
                  req'[c] = req[c] \/ req'[c].op # "items" \/ req'[c].items = {}
        PROVE  SelectedWasPublished'
    BY <1>a, <1>b, <1>2 DEF SelectedWasPublished
  <1>3. SelectedWasPublished'
    <2>1. CASE \E c \in Clients : SelectItems(c)
      BY <1>1, <2>1
    <2>2. CASE ~ \E c \in Clients : SelectItems(c)
      <3>1. \A c \in Clients : req'[c] = req[c] \/ req'[c].op # "items" \/ req'[c].items = {}
        <4>1. ASSUME NEW c \in Clients, NEW s, s.op # "items" \/ s.items = {},
                     req' = [req EXCEPT ![c] = s]
              PROVE  \A b \in Clients :
                        req'[b] = req[b] \/ req'[b].op # "items" \/ req'[b].items = {}
          BY <1>a, <4>1
        <4>2. CASE \E c \in Clients : RequestStep(c)
          <5>1. PICK c \in Clients : RequestStep(c)
            BY <4>2
          <5>2. ASSUME NEW p \in Pubs, \/ BeginUpdate(c, p) \/ BeginSubmit(c, p)
                                       \/ BeginDecision(c, p) \/ BeginItems(c, p)
                PROVE  \E s : s.items = {} /\ req' = [req EXCEPT ![c] = s]
            <6>1. PICK op : Begin(c, Read(op, p))
              BY <5>2 DEF BeginUpdate, BeginSubmit, BeginDecision, BeginItems
            <6>2. PICK s : s = Read(op, p)
              OBVIOUS
            <6>3. s.items = {} /\ req' = [req EXCEPT ![c] = s]
              BY <6>1, <6>2 DEF Begin, Read
            <6>4. QED
              BY <6>3
          <5>3. ASSUME \/ CommitUpdate(c) \/ CommitSubmit(c) \/ CommitDecision(c)
                       \/ CommitItems(c) \/ AbortRequest(c)
                PROVE  \E s : s.items = {} /\ req' = [req EXCEPT ![c] = s]
            <6>1. Done(c)
              BY <5>3 DEF CommitUpdate, CommitSubmit, CommitDecision, CommitItems, AbortRequest
            <6>2. PICK s : s = NoRequest
              OBVIOUS
            <6>3. s.items = {} /\ req' = [req EXCEPT ![c] = s]
              BY <6>1, <6>2 DEF Done, NoRequest
            <6>4. QED
              BY <6>3
          <5>c. ASSUME CheckHasItems(c)
                PROVE  \E s : s.op # "items" /\ req' = [req EXCEPT ![c] = s]
            <6>1. PICK s : s = [req[c] EXCEPT !.op = "submit"]
              OBVIOUS
            <6>2. req[c] \in Request
              BY <1>a
            <6>3. s.op # "items" /\ req' = [req EXCEPT ![c] = s]
              BY <1>a, <5>c, <6>1, <6>2 DEF CheckHasItems, Request
            <6>4. QED
              BY <6>3
          <5>4. \E s : (s.op # "items" \/ s.items = {}) /\ req' = [req EXCEPT ![c] = s]
            BY <2>2, <5>1, <5>2, <5>3, <5>c DEF RequestStep
          <5>5. QED
            BY <4>1, <5>4
        <4>3. CASE \E p \in Pubs : LockedStep(p) \/ TimePasses(p) \/ ChangeAuthorRole(p)
          BY <4>3 DEF LockedStep, CreateDraft, Restore, Archive, Unarchive, ChangeArchiveStatus,
             EditLocalization, TimePasses, ChangeAuthorRole
        <4>4. CASE \E w \in Workers : WorkerStep(w) \/ CrashAndRestart(w)
          BY <4>4 DEF WorkerStep, PublishDue, PublishDueFails, RequeueReviews, RequeueJobs,
             NoPendingReview, ClaimReview, ReviewFails, CompleteReview, NoPendingJob, ClaimJob,
             TranslationFails, ReadTarget, SaveTranslation, CrashAndRestart
        <4>5. CASE UNCHANGED vars
          BY <4>5 DEF vars
        <4>6. QED
          BY <4>2, <4>3, <4>4, <4>5 DEF Next
      <3>2. QED
        BY <1>2, <3>1
    <2>3. QED
      BY <2>1, <2>2
  <1>4. ASSUME NEW c \in Clients, CommitItems(c) PROVE DigestItemsWerePublished'
    <2>1. /\ \A d \in Pubs : items'[d] = IF d = req[c].pub THEN req[c].items ELSE items[d]
          /\ req[c].op = "items"
      BY <1>a, <1>4 DEF CommitItems
    <2>2. QED
      BY <1>a, <1>b, <2>1 DEF SelectedWasPublished, DigestItemsWerePublished
  <1>5. ASSUME UNCHANGED items PROVE DigestItemsWerePublished'
    BY <1>a, <1>5 DEF DigestItemsWerePublished
  <1>6. UNCHANGED items \/ \E c \in Clients : CommitItems(c)
    <2>1. CASE \E c \in Clients : RequestStep(c)
      BY <2>1 DEF RequestStep, Begin, BeginUpdate, BeginSubmit, BeginItems, BeginDecision,
         CheckHasItems, SelectItems, CommitUpdate, CommitSubmit, CommitDecision, AbortRequest
    <2>2. CASE \E p \in Pubs : LockedStep(p) \/ TimePasses(p) \/ ChangeAuthorRole(p)
      BY <2>2 DEF LockedStep, CreateDraft, Restore, Archive, Unarchive, ChangeArchiveStatus,
         EditLocalization, TimePasses, ChangeAuthorRole
    <2>3. CASE \E w \in Workers : WorkerStep(w) \/ CrashAndRestart(w)
      BY <2>3 DEF WorkerStep, PublishDue, PublishDueFails, RequeueReviews, RequeueJobs,
         NoPendingReview, ClaimReview, ReviewFails, CompleteReview, NoPendingJob, ClaimJob,
         TranslationFails, ReadTarget, SaveTranslation, CrashAndRestart
    <2>4. CASE UNCHANGED vars
      BY <2>4 DEF vars
    <2>5. QED
      BY <2>1, <2>2, <2>3, <2>4 DEF Next
  <1>7. QED
    BY <1>3, <1>4, <1>5, <1>6

\* A digest contains only materials that have been published, although they
\* are selected by one statement and stored at the end of the transaction.
THEOREM DigestsHoldPublished == Spec => []DigestItemsWerePublished
  <1>1. Init => SelectedWasPublished /\ DigestItemsWerePublished
    BY DEF Init, SelectedWasPublished, DigestItemsWerePublished, NoRequest
  <1>2. IInv /\ SelectedWasPublished /\ DigestItemsWerePublished /\ [Next]_vars
            => (SelectedWasPublished /\ DigestItemsWerePublished)'
    BY SelectionStep
  <1>3. QED
    BY <1>1, <1>2, Invariant, PTL DEF Spec

----------------------------------------------------------------------------
(* Materials without a time *)

\* Only a decision leaves a material waiting without a time, and only one
\* that had loaded a time which is gone.
LEMMA StrandingStep ==
    ASSUME IInv, [Next]_vars, NEW p \in Pubs, Stranded(p)', ~Stranded(p)
    PROVE  \E c \in Clients : /\ CommitDecision(c)
                              /\ req[c].op = "decide" /\ req[c].pub = p
                              /\ req[c].at = "future" /\ scheduledAt[p] = "none"
  <1>a. status \in [Pubs -> Statuses] /\ scheduledAt \in [Pubs -> Schedules]
    BY DEF IInv, TypeOK
  <1>b. ~(status'[p] = status[p] /\ scheduledAt'[p] = scheduledAt[p])
    BY DEF Stranded
  <1>c. status'[p] = "scheduled" /\ scheduledAt'[p] = "none"
    BY DEF Stranded
  <1>1. CASE \E c \in Clients : RequestStep(c)
    <2>1. PICK c \in Clients : RequestStep(c)
      BY <1>1
    <2>2. CASE CommitDecision(c)
      <3>1. req[c] \in Request /\ req[c].op = "decide"
        BY <2>2 DEF CommitDecision, IInv, TypeOK
      <3>2. PICK q \in Pubs : q = req[c].pub
        BY <3>1 DEF Request
      <3>3. PICK d \in Decisions, at \in Schedules :
               /\ at \in NewSchedule(req[c], d)
               /\ status' = [status EXCEPT ![q] = Resolved(d)]
               /\ scheduledAt' = [scheduledAt EXCEPT ![q] = at]
        BY <2>2, <3>1, <3>2, ScheduleTypes DEF CommitDecision, IInv
      <3>4. q = p
        BY <1>a, <1>b, <3>3
      <3>5. d = "schedule" /\ at = "none"
        BY <1>a, <1>c, <3>3, <3>4 DEF Decisions, Resolved
      <3>6. req[c].at = "future" /\ scheduledAt[p] = "none"
        BY <3>2, <3>3, <3>4, <3>5 DEF NewSchedule
      <3>7. QED
        BY <2>2, <3>1, <3>2, <3>4, <3>6
    <2>3. CASE CommitSubmit(c)
      BY <1>a, <1>b, <1>c, <2>3 DEF CommitSubmit
    <2>4. CASE ~(CommitSubmit(c) \/ CommitDecision(c))
      BY <1>b, <2>1, <2>4 DEF RequestStep, BeginUpdate, BeginSubmit, BeginDecision, BeginItems,
         CheckHasItems, SelectItems, CommitUpdate, CommitItems, AbortRequest, Begin, pubVars
    <2>5. QED
      BY <2>2, <2>3, <2>4
  <1>2. CASE \E q \in Pubs : LockedStep(q) \/ TimePasses(q) \/ ChangeAuthorRole(q)
    BY <1>a, <1>b, <1>c, <1>2 DEF LockedStep, CreateDraft, Archive, Unarchive,
       ChangeArchiveStatus, Restore, EditLocalization, TimePasses, ChangeAuthorRole, pubVars
  <1>3. CASE \E w \in Workers : WorkerStep(w) \/ CrashAndRestart(w)
    <2>1. PICK w \in Workers : WorkerStep(w) \/ CrashAndRestart(w)
      BY <1>3
    <2>2. CASE PublishDue(w)
      <3>1. PICK S \in SUBSET DuePubs : LatePublished(S)
        BY <2>2, DuePublished
      <3>2. QED
        BY <1>a, <1>b, <1>c, <3>1 DEF LatePublished
    <2>3. CASE CompleteReview(w)
      <3>1. /\ \/ status' = status
               \/ status' = [status EXCEPT ![wk[w].pub] = "published"]
            /\ scheduledAt' = scheduledAt
        BY <2>3 DEF CompleteReview
      <3>2. QED
        BY <1>a, <1>b, <1>c, <3>1
    <2>4. CASE ~(PublishDue(w) \/ CompleteReview(w))
      BY <1>b, <2>1, <2>4 DEF WorkerStep, PublishDueFails, RequeueReviews, RequeueJobs,
         NoPendingReview, ClaimReview, ReviewFails, NoPendingJob, ClaimJob,
         TranslationFails, ReadTarget, SaveTranslation, CrashAndRestart, pubVars
    <2>5. QED
      BY <2>2, <2>3, <2>4
  <1>4. CASE UNCHANGED vars
    BY <1>b, <1>4 DEF vars, pubVars
  <1>5. QED
    BY <1>1, <1>2, <1>3, <1>4 DEF Next

\* No single decision, worker or clock loses the time of a scheduled material:
\* it takes a decision that has loaded a time another one then cleared
\* (make_editorial_decision).
THEOREM TimesAreLostInRaces == Spec => TimeIsLostInARace
  <1>1. IInv /\ [Next]_vars =>
          [\A p \in Pubs : Stranded(p)' /\ ~Stranded(p) =>
              \E c \in Clients : /\ req[c].op = "decide" /\ req[c].pub = p
                                 /\ req[c].at = "future" /\ scheduledAt[p] = "none"]_vars
    BY StrandingStep
  <1>2. QED
    BY <1>1, Invariant, PTL DEF Spec, TimeIsLostInARace

----------------------------------------------------------------------------
\* The drafts implement the append-only log of revisions.
THEOREM DraftsAreALog == Spec => ImplementsRevisionLog
  <1>1. Init => Log!Init
    BY DEF Init, Log!Init, Revisions
  <1>2. IInv /\ [Next]_vars => [Log!Next]_(Log!log)
    BY DraftSteps DEF Log!Next, Log!log, draftVars
  <1>3. QED
    BY <1>1, <1>2, Invariant, PTL DEF Spec, ImplementsRevisionLog, Log!Spec

----------------------------------------------------------------------------
(* The published materials *)

Shown == {p \in Pubs : status[p] = "published"}
EverDated == {p \in Pubs : publishedAt[p]}
Translated == {p \in Pubs : translations[p].origin # "none"}

\* A step that writes the status and the date of one material publishes it,
\* withdraws it, or is not seen by its readers.
LEMMA OneMaterialMoves ==
    ASSUME IInv, NEW q \in Pubs, NEW s, NEW b \in BOOLEAN,
           status' = [status EXCEPT ![q] = s],
           publishedAt' = [publishedAt EXCEPT ![q] = b],
           UNCHANGED translations,
           publishedAt[q] => b,
           b /\ ~ publishedAt[q] => s = "published",
           s = "published" => b
    PROVE  Materials!Next \/ UNCHANGED <<Shown, EverDated, Translated>>
  <1>1. status \in [Pubs -> Statuses] /\ publishedAt \in [Pubs -> BOOLEAN]
    BY DEF IInv, TypeOK
  <1>2. Translated' = Translated
    BY DEF Translated
  <1>3. CASE s = "published"
    <2>1. Shown' = Shown \cup {q} /\ EverDated' = EverDated \cup {q}
      BY <1>1, <1>3 DEF Shown, EverDated
    <2>2. Materials!Publish({q})
      BY <1>2, <2>1 DEF Materials!Publish, Shown, EverDated, Translated
    <2>3. QED
      BY <2>2 DEF Materials!Next
  <1>4. CASE s # "published"
    <2>1. Shown' = Shown \ {q} /\ EverDated' = EverDated
      BY <1>1, <1>4 DEF Shown, EverDated
    <2>2. CASE q \in Shown
      <3>1. Materials!Withdraw(q)
        BY <1>2, <2>1, <2>2 DEF Materials!Withdraw, Shown, EverDated, Translated
      <3>2. QED
        BY <3>1 DEF Materials!Next
    <2>3. CASE q \notin Shown
      BY <1>2, <2>1, <2>3
    <2>4. QED
      BY <2>2, <2>3
  <1>5. QED
    BY <1>3, <1>4

\* What a step does to the materials, as their readers see it.
LEMMA MaterialSteps ==
    ASSUME IInv, [Next]_vars
    PROVE  Materials!Next \/ UNCHANGED <<Shown, EverDated, Translated>>
  <1>a. /\ status \in [Pubs -> Statuses]
        /\ publishedAt \in [Pubs -> BOOLEAN]
        /\ translations \in [Pubs -> Localization]
    BY DEF IInv, TypeOK
  <1>b. ASSUME UNCHANGED <<status, publishedAt, translations>>
        PROVE  UNCHANGED <<Shown, EverDated, Translated>>
    BY <1>b DEF Shown, EverDated, Translated
  <1>1. CASE \E c \in Clients : RequestStep(c)
    <2>1. PICK c \in Clients : RequestStep(c)
      BY <1>1
    <2>2. req[c] \in Request
      BY DEF IInv, TypeOK
    <2>3. CASE CommitSubmit(c)
      <3>1. PICK q \in Pubs : q = req[c].pub
        BY <2>2, <2>3 DEF CommitSubmit, Request
      <3>2. /\ status' = [status EXCEPT ![q] = "editorial_review"]
            /\ UNCHANGED <<publishedAt, translations>>
        BY <2>3, <3>1 DEF CommitSubmit
      <3>3. PICK b \in BOOLEAN : b = publishedAt[q]
        BY <1>a
      <3>4. publishedAt' = [publishedAt EXCEPT ![q] = b]
        BY <1>a, <3>2, <3>3
      <3>5. QED
        BY <3>2, <3>3, <3>4, OneMaterialMoves
    <2>4. CASE CommitDecision(c)
      <3>1. PICK q \in Pubs : q = req[c].pub
        BY <2>2, <2>4 DEF CommitDecision, Request
      <3>2. PICK d \in Decisions :
               /\ status' = [status EXCEPT ![q] = Resolved(d)]
               /\ publishedAt' = [publishedAt EXCEPT ![q] = Dated(q, d)]
        BY <2>4, <3>1 DEF CommitDecision
      <3>3. UNCHANGED translations
        BY <2>4 DEF CommitDecision
      <3>4. /\ Dated(q, d) \in BOOLEAN
            /\ publishedAt[q] => Dated(q, d)
            /\ Dated(q, d) /\ ~ publishedAt[q] => Resolved(d) = "published"
            /\ Resolved(d) = "published" => Dated(q, d)
        BY <1>a DEF Dated, Decisions, Resolved
      <3>5. QED
        BY <3>2, <3>3, <3>4, OneMaterialMoves
    <2>5. CASE ~(CommitSubmit(c) \/ CommitDecision(c))
      <3>1. UNCHANGED <<status, publishedAt, translations>>
        BY <2>1, <2>5 DEF RequestStep, BeginUpdate, BeginSubmit, BeginDecision, BeginItems, CheckHasItems, SelectItems,
           CommitUpdate, CommitItems, AbortRequest, Begin, pubVars, queueVars
      <3>2. QED
        BY <1>b, <3>1
    <2>6. QED
      BY <2>3, <2>4, <2>5
  <1>2. CASE \E q \in Pubs : LockedStep(q) \/ TimePasses(q) \/ ChangeAuthorRole(q)
    <2>1. PICK q \in Pubs : LockedStep(q) \/ TimePasses(q) \/ ChangeAuthorRole(q)
      BY <1>2
    <2>2. ASSUME NEW s, status' = [status EXCEPT ![q] = s], UNCHANGED <<publishedAt, translations>>,
                 s = "published" => publishedAt[q]
          PROVE  Materials!Next \/ UNCHANGED <<Shown, EverDated, Translated>>
      <3>1. PICK b \in BOOLEAN : b = publishedAt[q]
        BY <1>a
      <3>2. publishedAt' = [publishedAt EXCEPT ![q] = b]
        BY <1>a, <2>2, <3>1
      <3>3. QED
        BY <2>2, <3>1, <3>2, OneMaterialMoves
    <2>3. CASE CreateDraft(q)
      <3>1. status' = [status EXCEPT ![q] = "draft"] /\ UNCHANGED <<publishedAt, translations>>
        BY <2>3 DEF CreateDraft, queueVars
      <3>2. QED
        BY <2>2, <3>1
    <2>4. CASE Archive(q)
      <3>1. status' = [status EXCEPT ![q] = "archived"] /\ UNCHANGED <<publishedAt, translations>>
        BY <2>4 DEF Archive, ChangeArchiveStatus, queueVars
      <3>2. QED
        BY <2>2, <3>1
    <2>5. CASE Unarchive(q)
      <3>1. /\ status[q] = "archived"
            /\ status' = [status EXCEPT ![q] = "published"]
            /\ UNCHANGED <<publishedAt, translations>>
        BY <2>5 DEF Unarchive, ChangeArchiveStatus, queueVars
      <3>2. publishedAt[q]
        BY <3>1 DEF IInv, ShownIsDated
      <3>3. QED
        BY <2>2, <3>1, <3>2
    <2>6. CASE EditLocalization(q)
      <3>1. /\ translations[q].origin # "none"
            /\ translations' = [translations EXCEPT ![q] = [@ EXCEPT !.origin = "human"]]
            /\ UNCHANGED <<status, publishedAt>>
        BY <2>6 DEF EditLocalization, pubVars
      <3>2. \A p \in Pubs : translations'[p].origin # "none" <=> translations[p].origin # "none"
        BY <1>a, <3>1 DEF Localization
      <3>3. QED
        BY <3>1, <3>2 DEF Shown, EverDated, Translated
    <2>7. CASE Restore(q) \/ TimePasses(q) \/ ChangeAuthorRole(q)
      <3>1. UNCHANGED <<status, publishedAt, translations>>
        BY <2>7 DEF Restore, TimePasses, ChangeAuthorRole, pubVars, queueVars
      <3>2. QED
        BY <1>b, <3>1
    <2>8. QED
      BY <2>1, <2>3, <2>4, <2>5, <2>6, <2>7 DEF LockedStep
  <1>3. CASE \E w \in Workers : WorkerStep(w) \/ CrashAndRestart(w)
    <2>1. PICK w \in Workers : WorkerStep(w) \/ CrashAndRestart(w)
      BY <1>3
    <2>2. wk[w] \in WorkerState
      BY DEF IInv, TypeOK
    <2>3. CASE PublishDue(w)
      <3>1. PICK S \in SUBSET Pubs : LatePublished(S)
        BY <2>3, DuePublished DEF DuePubs
      <3>2. /\ Shown' = Shown \cup S /\ EverDated' = EverDated \cup S
            /\ Translated' = Translated
        BY <1>a, <3>1 DEF LatePublished, Shown, EverDated, Translated
      <3>3. CASE S = {}
        BY <3>2, <3>3
      <3>4. CASE S # {}
        <4>1. Materials!Publish(S)
          BY <3>2, <3>4 DEF Materials!Publish, Shown, EverDated, Translated
        <4>2. QED
          BY <4>1 DEF Materials!Next
      <3>5. QED
        BY <3>3, <3>4
    <2>4. CASE CompleteReview(w)
      <3>1. PICK q \in Pubs : q = wk[w].pub
        BY <2>2, <2>4 DEF CompleteReview, WorkerState
      <3>2. PICK d : IF Autopublishes(wk[w], d)
                     THEN /\ status' = [status EXCEPT ![q] = "published"]
                          /\ publishedAt' = [publishedAt EXCEPT ![q] = TRUE]
                     ELSE UNCHANGED <<status, publishedAt>>
        BY <2>4, <3>1 DEF CompleteReview
      <3>3. UNCHANGED translations
        BY <2>4 DEF CompleteReview
      <3>4. CASE Autopublishes(wk[w], d)
        BY <3>2, <3>3, <3>4, OneMaterialMoves
      <3>5. CASE ~ Autopublishes(wk[w], d)
        BY <1>b, <3>2, <3>3, <3>5
      <3>6. QED
        BY <3>4, <3>5
    <2>5. CASE SaveTranslation(w)
      <3>1. PICK q \in Pubs : q = wk[w].pub
        BY <2>2, <2>5 DEF SaveTranslation, WorkerState
      <3>2. wk[w].stage = "saving" /\ wk[w].seenOrigin = "none"
        BY <2>5, <3>1 DEF SaveTranslation, IInv, SnapshotsAreOld
      <3>3. /\ translations' = [translations EXCEPT ![q] = Saved(wk[w])]
            /\ UNCHANGED <<status, publishedAt>>
        BY <2>5, <3>1 DEF SaveTranslation, pubVars
      <3>4. Saved(wk[w]).origin = "ai"
        BY <3>2 DEF Saved
      <3>5. publishedAt[q]
        <4>1. jobs[q].status = "translating"
          BY <3>1, <3>2 DEF IInv, ExclusiveClaims, HoldsJob
        <4>2. QED
          BY <4>1 DEF IInv, PublishedOnce, HasJob
      <3>6. Translated' = Translated \cup {q} /\ q \in EverDated
            /\ UNCHANGED <<Shown, EverDated>>
        BY <1>a, <3>3, <3>4, <3>5 DEF Shown, EverDated, Translated
      <3>7. Materials!Translate(q)
        BY <3>6 DEF Materials!Translate, Shown, EverDated, Translated
      <3>8. QED
        BY <3>7 DEF Materials!Next
    <2>6. CASE ~(PublishDue(w) \/ CompleteReview(w) \/ SaveTranslation(w))
      <3>1. UNCHANGED <<status, publishedAt, translations>>
        BY <2>1, <2>6 DEF WorkerStep, PublishDueFails, RequeueReviews, RequeueJobs,
           NoPendingReview, ClaimReview, ReviewFails, NoPendingJob, ClaimJob,
           TranslationFails, ReadTarget, CrashAndRestart, pubVars, queueVars
      <3>2. QED
        BY <1>b, <3>1
    <2>7. QED
      BY <2>3, <2>4, <2>5, <2>6
  <1>4. CASE UNCHANGED vars
    BY <1>b, <1>4 DEF vars, pubVars, queueVars
  <1>5. QED
    BY <1>1, <1>2, <1>3, <1>4 DEF Next

\* Readers, the journal and the community see materials published, withdrawn
\* and translated as PublishedMaterials says, whatever handlers and workers
\* overlap.
THEOREM MaterialsAreKept == Spec => ImplementsMaterials
  <1>1. Init => Materials!Init
    BY DEF Init, Materials!Init, NoLocalization
  <1>2. IInv /\ [Next]_vars => [Materials!Next]_(Materials!materials)
    BY MaterialSteps DEF Materials!materials, Shown, EverDated, Translated
  <1>3. QED
    BY <1>1, <1>2, Invariant, PTL DEF Spec, ImplementsMaterials, Materials!Spec

----------------------------------------------------------------------------
(* The queues *)

\* What a step does to the translation jobs: some are enqueued or put back,
\* or one is claimed or brought to an end by the worker that holds it.
LEMMA JobSteps ==
    ASSUME IInv, [Next]_vars
    PROVE  \/ jobs' = jobs
           \/ \E S \in (SUBSET Pubs) \ {{}} :
                 \/ /\ \A p \in S : jobs[p].status = "none"
                    /\ jobs' = [p \in Pubs |-> IF p \in S THEN NewJob ELSE jobs[p]]
                 \/ /\ \A p \in S : Retryable(jobs[p])
                    /\ jobs' = [p \in Pubs |-> IF p \in S THEN [jobs[p] EXCEPT !.status = "pending"]
                                                ELSE jobs[p]]
           \/ \E p \in Pubs :
                 /\ jobs[p].status = "pending"
                 /\ jobs' = [jobs EXCEPT ![p] = [status |-> "translating", attempts |-> @.attempts + 1]]
           \/ \E p \in Pubs, end \in {"failed", "ready"} :
                 /\ jobs[p].status = "translating"
                 /\ jobs' = [jobs EXCEPT ![p] = [@ EXCEPT !.status = end]]
  <1>a. jobs \in [Pubs -> TranslationJob]
    BY DEF IInv, TypeOK
  <1>b. ASSUME NEW p \in Pubs, ~HasJob(p), jobs' = [jobs EXCEPT ![p] = NewJob]
        PROVE  \E S \in (SUBSET Pubs) \ {{}} :
                 /\ \A q \in S : jobs[q].status = "none"
                 /\ jobs' = [q \in Pubs |-> IF q \in S THEN NewJob ELSE jobs[q]]
    <2>1. {p} \in (SUBSET Pubs) \ {{}} /\ \A q \in {p} : jobs[q].status = "none"
      BY <1>b DEF HasJob
    <2>2. jobs' = [q \in Pubs |-> IF q \in {p} THEN NewJob ELSE jobs[q]]
      BY <1>a, <1>b
    <2>3. QED
      BY <2>1, <2>2
  <1>1. CASE \E c \in Clients : RequestStep(c)
    <2>1. PICK c \in Clients : RequestStep(c)
      BY <1>1
    <2>2. CASE CommitDecision(c)
      <3> DEFINE p == req[c].pub
      <3>1. req[c] \in Request /\ req[c].op = "decide"
        BY <2>2 DEF CommitDecision, IInv, TypeOK
      <3>2. p \in Pubs
        BY <3>1 DEF Request
      <3>3. jobs' = jobs \/ (~HasJob(p) /\ jobs' = [jobs EXCEPT ![p] = NewJob])
        BY <2>2 DEF CommitDecision
      <3> HIDE DEF p
      <3>4. QED
        BY <1>b, <3>2, <3>3
    <2>3. CASE ~CommitDecision(c)
      BY <2>1, <2>3 DEF RequestStep, BeginUpdate, BeginSubmit, BeginDecision, BeginItems, CheckHasItems, SelectItems,
         CommitUpdate, CommitSubmit, CommitItems, AbortRequest, Begin, queueVars
    <2>4. QED
      BY <2>2, <2>3
  <1>2. CASE \E q \in Pubs : LockedStep(q) \/ TimePasses(q) \/ ChangeAuthorRole(q)
    BY <1>2 DEF LockedStep, CreateDraft, Restore, Archive, Unarchive, ChangeArchiveStatus,
       EditLocalization, TimePasses, ChangeAuthorRole, queueVars
  <1>3. CASE \E w \in Workers : WorkerStep(w) \/ CrashAndRestart(w)
    <2>1. PICK w \in Workers : WorkerStep(w) \/ CrashAndRestart(w)
      BY <1>3
    <2>2. CASE PublishDue(w)
      <3>1. PICK S \in SUBSET Pubs : LatePublished(S)
        BY <2>2, DuePublished DEF DuePubs
      <3>2. /\ \A p \in S : jobs[p].status = "none"
            /\ jobs' = [p \in Pubs |-> IF p \in S THEN NewJob ELSE jobs[p]]
        BY <3>1 DEF LatePublished, HasJob
      <3>3. CASE S = {}
        BY <1>a, <3>2, <3>3
      <3>4. QED
        BY <3>2, <3>3
    <2>3. CASE RequeueJobs(w)
      <3> DEFINE S == {p \in Pubs : Retryable(jobs[p])}
      <3>1. jobs' = [p \in Pubs |-> IF p \in S THEN [jobs[p] EXCEPT !.status = "pending"] ELSE jobs[p]]
        BY <2>3 DEF RequeueJobs
      <3>2. CASE S = {}
        BY <1>a, <3>1, <3>2
      <3>3. CASE S # {}
        <4>1. S \in (SUBSET Pubs) \ {{}} /\ \A p \in S : Retryable(jobs[p])
          BY <3>3
        <4> HIDE DEF S
        <4>2. QED
          BY <3>1, <4>1
      <3>4. QED
        BY <3>2, <3>3
    <2>4. CASE ClaimJob(w)
      BY <2>4 DEF ClaimJob
    <2>5. CASE TranslationFails(w) \/ SaveTranslation(w)
      <3> DEFINE p == wk[w].pub
      <3>1. wk[w] \in WorkerState /\ wk[w].stage \in {"translating", "saving"}
        BY <2>5 DEF TranslationFails, SaveTranslation, IInv, TypeOK
      <3>2. p \in Pubs
        BY <3>1 DEF WorkerState
      <3>3. jobs[p].status = "translating"
        BY <3>1, <3>2 DEF IInv, ExclusiveClaims, HoldsJob
      <3>4. PICK end \in {"failed", "ready"} : jobs' = [jobs EXCEPT ![p] = [@ EXCEPT !.status = end]]
        BY <2>5 DEF TranslationFails, SaveTranslation
      <3> HIDE DEF p
      <3>5. QED
        BY <3>2, <3>3, <3>4
    <2>6. CASE CompleteReview(w)
      <3> DEFINE p == wk[w].pub
      <3>1. wk[w] \in WorkerState /\ wk[w].stage = "reviewing"
        BY <2>6 DEF CompleteReview, IInv, TypeOK
      <3>2. p \in Pubs
        BY <3>1 DEF WorkerState
      <3>3. jobs' = jobs \/ (~HasJob(p) /\ jobs' = [jobs EXCEPT ![p] = NewJob])
        BY <2>6 DEF CompleteReview
      <3> HIDE DEF p
      <3>4. QED
        BY <1>b, <3>2, <3>3
    <2>7. CASE ~(\/ PublishDue(w) \/ RequeueJobs(w) \/ ClaimJob(w) \/ TranslationFails(w)
                \/ SaveTranslation(w) \/ CompleteReview(w))
      BY <2>1, <2>7 DEF WorkerStep, PublishDueFails, RequeueReviews, NoPendingReview,
         ClaimReview, ReviewFails, NoPendingJob, ReadTarget, CrashAndRestart, queueVars
    <2>8. QED
      BY <2>2, <2>3, <2>4, <2>5, <2>6, <2>7
  <1>4. CASE UNCHANGED vars
    BY <1>4 DEF vars, queueVars
  <1>5. QED
    BY <1>1, <1>2, <1>3, <1>4 DEF Next

\* A job that has not been made has not been tried.
FreshJobs == \A p \in Pubs : jobs[p].status = "none" => jobs[p].attempts = 0

LEMMA FreshJobsStep ==
    ASSUME IInv, [Next]_vars, FreshJobs
    PROVE  FreshJobs'
  <1>a. jobs \in [Pubs -> TranslationJob]
    BY DEF IInv, TypeOK
  <1>1. SUFFICES ASSUME NEW p \in Pubs, jobs'[p].status = "none"
                 PROVE  jobs'[p].attempts = 0
    BY DEF FreshJobs
  <1>2. jobs'[p] = jobs[p]
    BY <1>a, <1>1, JobSteps DEF NewJob, NoJob, TranslationJob
  <1>3. QED
    BY <1>1, <1>2 DEF FreshJobs

\* Every such step is one of the queue.
LEMMA JobQueueStep ==
    ASSUME IInv, [Next]_vars, FreshJobs
    PROVE  [TranslationQueue!Next]_(TranslationQueue!queue)
  <1>a. /\ jobs \in [Pubs -> TranslationJob]
        /\ jobs' \in [Pubs -> TranslationJob]
    BY StepIInv DEF IInv, TypeOK
  <1>b. \A p \in Pubs : /\ jobs[p].attempts \in 0 .. MaxAttempts
                        /\ jobs[p].status = "pending" => jobs[p].attempts < MaxAttempts
    BY <1>a DEF TranslationJob
  <1>1. CASE jobs' = jobs
    BY <1>1 DEF TranslationQueue!queue
  <1>2. ASSUME NEW S \in (SUBSET Pubs) \ {{}}, \A p \in S : jobs[p].status = "none",
               jobs' = [p \in Pubs |-> IF p \in S THEN NewJob ELSE jobs[p]]
        PROVE  TranslationQueue!Enqueue(S)
    <2>1. \A p \in Pubs : jobs'[p].attempts = jobs[p].attempts
      BY <1>2 DEF FreshJobs, NewJob, NoJob
    <2>2. QED
      BY <1>2, <2>1 DEF TranslationQueue!Enqueue, TranslationQueue!Move, NewJob, NoJob
  <1>3. ASSUME NEW S \in (SUBSET Pubs) \ {{}}, \A p \in S : Retryable(jobs[p]),
               jobs' = [p \in Pubs |-> IF p \in S THEN [jobs[p] EXCEPT !.status = "pending"]
                                       ELSE jobs[p]]
        PROVE  TranslationQueue!Retry(S)
    <2>1. \A p \in Pubs : /\ jobs'[p].attempts = jobs[p].attempts
                         /\ jobs'[p].status = IF p \in S THEN "pending" ELSE jobs[p].status
      BY <1>a, <1>3 DEF TranslationJob
    <2>2. \A p \in S : jobs[p].status = "failed" /\ jobs[p].attempts < MaxAttempts
      BY <1>3 DEF Retryable
    <2>3. QED
      BY <2>1, <2>2 DEF TranslationQueue!Retry, TranslationQueue!Move
  <1>4. ASSUME NEW p \in Pubs, jobs[p].status = "pending",
               jobs' = [jobs EXCEPT ![p] = [status |-> "translating", attempts |-> @.attempts + 1]]
        PROVE  TranslationQueue!Claim(p)
    <2>1. \A q \in Pubs :
             /\ jobs'[q].status = IF q = p THEN "translating" ELSE jobs[q].status
             /\ jobs'[q].attempts = IF q = p THEN jobs[p].attempts + 1 ELSE jobs[q].attempts
      BY <1>a, <1>4
    <2>2. jobs[p].attempts < MaxAttempts
      BY <1>b, <1>4
    <2>3. TranslationQueue!Move({p}, "pending", "running")
      BY <1>4, <2>1 DEF TranslationQueue!Move
    <2>4. QED
      BY <2>1, <2>2, <2>3 DEF TranslationQueue!Claim
  <1>5. ASSUME NEW p \in Pubs, NEW end \in {"failed", "ready"}, jobs[p].status = "translating",
               jobs' = [jobs EXCEPT ![p] = [@ EXCEPT !.status = end]]
        PROVE  TranslationQueue!Finish(p) \/ TranslationQueue!Fail(p)
    <2>1. \A q \in Pubs :
             /\ jobs'[q].status = IF q = p THEN end ELSE jobs[q].status
             /\ jobs'[q].attempts = jobs[q].attempts
      BY <1>a, <1>5 DEF TranslationJob
    <2>2. QED
      BY <1>5, <2>1 DEF TranslationQueue!Finish, TranslationQueue!Fail, TranslationQueue!Move
  <1>6. QED
    BY <1>1, <1>2, <1>3, <1>4, <1>5, JobSteps DEF TranslationQueue!Next

\* For any number of workers that may die anywhere, a translation job is
\* processed by one at a time, at most max_attempts times and never again
\* once it is ready (process_next_translation_job).
THEOREM JobsAreAQueue == Spec => ImplementsTranslationQueue
  <1>1. Init => TranslationQueue!Init /\ FreshJobs
    BY DEF Init, TranslationQueue!Init, NoJob, FreshJobs
  <1>2. IInv /\ FreshJobs /\ [Next]_vars => FreshJobs' /\ [TranslationQueue!Next]_(TranslationQueue!queue)
    BY FreshJobsStep, JobQueueStep
  <1>3. QED
    BY <1>1, <1>2, Invariant, PTL DEF Spec, ImplementsTranslationQueue, TranslationQueue!Spec

\* The same for the reviews, a table over pairs, row by row: a step enqueues
\* rows or puts them back, claims one or brings one to its end.
ReviewRows == Pubs \X Revisions
Row(j) == aiReviews[j[1]][j[2]]

Enqueued(S) ==
    \A j \in ReviewRows : IF j \in S THEN Row(j).status = "none" /\ Row(j)' = NewReview
                                     ELSE Row(j)' = Row(j)
PutBack(S) ==
    \A j \in ReviewRows :
        IF j \in S THEN Retryable(Row(j)) /\ Row(j)' = [Row(j) EXCEPT !.status = "pending"]
                   ELSE Row(j)' = Row(j)
Claimed(i) ==
    \A j \in ReviewRows : IF j = i THEN /\ Row(j).status = "pending"
                                       /\ Row(j)'.status = "reviewing"
                                       /\ Row(j)'.attempts = Row(j).attempts + 1
                                  ELSE Row(j)' = Row(j)
Ended(i, end) ==
    \A j \in ReviewRows : IF j = i THEN /\ Row(j).status = "reviewing"
                                       /\ Row(j)'.status = end
                                       /\ Row(j)'.attempts = Row(j).attempts
                                  ELSE Row(j)' = Row(j)

LEMMA ReviewSteps ==
    ASSUME IInv, [Next]_vars
    PROVE  \/ aiReviews' = aiReviews
           \/ \E S \in (SUBSET ReviewRows) \ {{}} : Enqueued(S) \/ PutBack(S)
           \/ \E i \in ReviewRows : Claimed(i) \/ Ended(i, "failed") \/ Ended(i, "completed")
  <1>a. aiReviews \in [Pubs -> [Revisions -> AiReview]]
    BY DEF IInv, TypeOK
  <1>b. ASSUME NEW p \in Pubs, NEW n \in Revisions, NEW r,
               aiReviews' = [aiReviews EXCEPT ![p][n] = r]
        PROVE  \A j \in Pubs \X Revisions : Row(j)' = IF j = <<p, n>> THEN r ELSE Row(j)
    <2>1. SUFFICES ASSUME NEW q \in Pubs, NEW m \in Revisions
                   PROVE  aiReviews'[q][m] = IF <<q, m>> = <<p, n>> THEN r ELSE aiReviews[q][m]
      BY DEF Row
    <2>2. QED
      BY <1>a, <1>b
  <1>1. CASE \E c \in Clients : RequestStep(c)
    <2>1. PICK c \in Clients : RequestStep(c)
      BY <1>1
    <2>2. CASE CommitSubmit(c)
      <3> DEFINE q == req[c].pub
                 m == req[c].rev
      <3>1. req[c] \in Request /\ req[c].op = "submit"
        BY <2>2 DEF CommitSubmit, IInv, TypeOK
      <3>2. q \in Pubs /\ m \in 1 .. sourceRevision[q]
        BY <3>1 DEF Request, IInv, SnapshotsAreOld
      <3>3. sourceRevision[q] \in 0 .. MaxRevision
        BY <3>2 DEF IInv, TypeOK
      <3>4. m \in Revisions
        BY <3>2, <3>3 DEF Revisions
      <3>5. /\ aiReviews[q][m].status = "none"
            /\ aiReviews' = [aiReviews EXCEPT ![q][m] = NewReview]
        BY <2>2 DEF CommitSubmit
      <3> HIDE DEF q, m
      <3>6. \A j \in Pubs \X Revisions : Row(j)' = IF j = <<q, m>> THEN NewReview ELSE Row(j)
        BY <1>b, <3>2, <3>4, <3>5
      <3>7. Row(<<q, m>>).status = "none" /\ {<<q, m>>} \in (SUBSET (Pubs \X Revisions)) \ {{}}
        BY <3>2, <3>4, <3>5 DEF Row
      <3>8. PICK S \in (SUBSET (Pubs \X Revisions)) \ {{}} : S = {<<q, m>>}
        BY <3>7
      <3>9. Enqueued(S)
        BY <3>6, <3>7, <3>8 DEF Enqueued, ReviewRows
      <3>10. QED
        BY <3>9 DEF ReviewRows
    <2>3. CASE ~CommitSubmit(c)
      BY <2>1, <2>3 DEF RequestStep, BeginUpdate, BeginSubmit, BeginDecision, BeginItems, CheckHasItems, SelectItems,
         CommitUpdate, CommitDecision, CommitItems, AbortRequest, Begin, queueVars
    <2>4. QED
      BY <2>2, <2>3
  <1>2. CASE \E q \in Pubs : LockedStep(q) \/ TimePasses(q) \/ ChangeAuthorRole(q)
    BY <1>2 DEF LockedStep, CreateDraft, Restore, Archive, Unarchive, ChangeArchiveStatus,
       EditLocalization, TimePasses, ChangeAuthorRole, queueVars
  <1>3. CASE \E w \in Workers : WorkerStep(w) \/ CrashAndRestart(w)
    <2>1. PICK w \in Workers : WorkerStep(w) \/ CrashAndRestart(w)
      BY <1>3
    <2>2. CASE RequeueReviews(w)
      <3> DEFINE S == {j \in Pubs \X Revisions : Retryable(Row(j))}
      <3>1. \A j \in Pubs \X Revisions :
               Row(j)' = IF j \in S THEN [Row(j) EXCEPT !.status = "pending"] ELSE Row(j)
        BY <2>2 DEF RequeueReviews, Row
      <3>2. CASE S = {}
        <4>1. \A p \in Pubs, n \in Revisions : ~ Retryable(aiReviews[p][n])
          <5>1. SUFFICES ASSUME NEW p \in Pubs, NEW n \in Revisions, Retryable(aiReviews[p][n])
                         PROVE  FALSE
            OBVIOUS
          <5>2. <<p, n>> \in S
            BY <5>1 DEF Row
          <5>3. QED
            BY <3>2, <5>2
        <4>2. aiReviews' = [p \in Pubs |-> [n \in Revisions |-> aiReviews[p][n]]]
          BY <2>2, <4>1 DEF RequeueReviews
        <4>3. QED
          BY <1>a, <4>2
      <3>3. CASE S # {}
        <4>1. PICK Q \in (SUBSET (Pubs \X Revisions)) \ {{}} : Q = S
          BY <3>3
        <4>2. \A j \in Q : Retryable(Row(j))
          BY <4>1
        <4> HIDE DEF S
        <4>3. PutBack(Q)
          BY <3>1, <4>1, <4>2 DEF PutBack, ReviewRows
        <4>4. QED
          BY <4>3 DEF ReviewRows
      <3>4. QED
        BY <3>2, <3>3
    <2>3. CASE ClaimReview(w)
      <3>1. PICK q \in Pubs, m \in Revisions :
               /\ aiReviews[q][m].status = "pending"
               /\ aiReviews' = [aiReviews EXCEPT ![q][m] =
                     [status |-> "reviewing", attempts |-> @.attempts + 1,
                      decision |-> @.decision]]
        BY <2>3 DEF ClaimReview
      <3>2. PICK r : /\ r = [status |-> "reviewing", attempts |-> aiReviews[q][m].attempts + 1,
                             decision |-> aiReviews[q][m].decision]
                     /\ aiReviews' = [aiReviews EXCEPT ![q][m] = r]
        BY <1>a, <3>1
      <3>3. r.status = "reviewing" /\ r.attempts = Row(<<q, m>>).attempts + 1
        BY <3>2 DEF Row
      <3>4. \A j \in Pubs \X Revisions : Row(j)' = IF j = <<q, m>> THEN r ELSE Row(j)
        <4>1. q \in Pubs /\ m \in Revisions /\ aiReviews' = [aiReviews EXCEPT ![q][m] = r]
          BY <3>1, <3>2
        <4>2. QED
          BY <1>b, <4>1
      <3>5. <<q, m>> \in Pubs \X Revisions /\ Row(<<q, m>>).status = "pending"
        BY <3>1 DEF Row
      <3>6. PICK i \in Pubs \X Revisions : i = <<q, m>>
        BY <3>5
      <3>7. Claimed(i)
        BY <3>3, <3>4, <3>5, <3>6 DEF Claimed, ReviewRows
      <3>8. QED
        BY <3>7 DEF ReviewRows
    <2>4. CASE ReviewFails(w) \/ CompleteReview(w)
      <3>1. wk[w] \in WorkerState /\ wk[w].stage = "reviewing"
        BY <2>4 DEF ReviewFails, CompleteReview, IInv, TypeOK
      <3>2. PICK q \in Pubs, m \in Revisions : q = wk[w].pub /\ m = wk[w].rev
        BY <3>1 DEF WorkerState, Revisions
      <3>3. aiReviews[q][m].status = "reviewing"
        BY <3>1, <3>2 DEF IInv, ExclusiveClaims, HoldsReview
      <3>4. aiReviews[q][m] \in AiReview
        BY <1>a
      <3>5. PICK i \in ReviewRows : i = <<q, m>>
        BY DEF ReviewRows
      <3>6. ASSUME NEW end \in {"failed", "completed"}, NEW r,
                   r.status = end, r.attempts = aiReviews[q][m].attempts,
                   aiReviews' = [aiReviews EXCEPT ![q][m] = r]
            PROVE  Ended(i, end)
        <4>1. \A j \in Pubs \X Revisions : Row(j)' = IF j = <<q, m>> THEN r ELSE Row(j)
          BY <1>b, <3>6
        <4>2. Row(i) = aiReviews[q][m]
          BY <3>5 DEF Row
        <4>3. QED
          BY <3>3, <3>5, <3>6, <4>1, <4>2 DEF Ended, ReviewRows
      <3>7. CASE ReviewFails(w)
        <4>1. PICK r : r = [aiReviews[q][m] EXCEPT !.status = "failed"]
          OBVIOUS
        <4>2. r.status = "failed" /\ r.attempts = aiReviews[q][m].attempts
          BY <3>4, <4>1 DEF AiReview
        <4>3. aiReviews' = [aiReviews EXCEPT ![q][m] = [@ EXCEPT !.status = "failed"]]
          BY <3>2, <3>7 DEF ReviewFails
        <4>4. aiReviews' = [aiReviews EXCEPT ![q][m] = r]
          BY <1>a, <4>1, <4>3
        <4>5. Ended(i, "failed")
          BY <3>6, <4>2, <4>4
        <4>6. QED
          BY <4>5
      <3>8. CASE CompleteReview(w)
        <4>1. PICK d : aiReviews' = [aiReviews EXCEPT ![q][m] =
                          [status |-> "completed", attempts |-> @.attempts, decision |-> d]]
          BY <3>2, <3>8 DEF CompleteReview
        <4>2. PICK r : r = [status |-> "completed", attempts |-> aiReviews[q][m].attempts,
                            decision |-> d]
          OBVIOUS
        <4>3. r.status = "completed" /\ r.attempts = aiReviews[q][m].attempts
          BY <4>2
        <4>4. aiReviews' = [aiReviews EXCEPT ![q][m] = r]
          BY <1>a, <4>1, <4>2
        <4>5. Ended(i, "completed")
          BY <3>6, <4>3, <4>4
        <4>6. QED
          BY <4>5
      <3>9. QED
        BY <2>4, <3>7, <3>8
    <2>5. CASE ~(RequeueReviews(w) \/ ClaimReview(w) \/ ReviewFails(w) \/ CompleteReview(w))
      BY <2>1, <2>5 DEF WorkerStep, PublishDue, PublishDueFails, RequeueJobs, NoPendingReview,
         NoPendingJob, ClaimJob, TranslationFails, ReadTarget, SaveTranslation,
         CrashAndRestart, queueVars
    <2>6. QED
      BY <2>2, <2>3, <2>4, <2>5
  <1>4. CASE UNCHANGED vars
    BY <1>4 DEF vars, queueVars
  <1>5. QED
    BY <1>1, <1>2, <1>3, <1>4 DEF Next

\* A review that has not been asked for has not been tried.
FreshReviews == \A j \in ReviewRows : Row(j).status = "none" => Row(j).attempts = 0

LEMMA FreshReviewsStep ==
    ASSUME IInv, [Next]_vars, FreshReviews
    PROVE  FreshReviews'
  <1>1. SUFFICES ASSUME NEW j \in ReviewRows, Row(j)'.status = "none"
                 PROVE  Row(j)'.attempts = 0
    BY DEF FreshReviews
  <1>2. PICK p \in Pubs, n \in Revisions : j = <<p, n>>
    BY DEF ReviewRows
  <1>3. aiReviews'[p][n] = aiReviews[p][n]
    BY <1>1, <1>2, ReviewRowSteps DEF Row, NewReview, NoReview
  <1>4. Row(j)' = Row(j)
    BY <1>2, <1>3 DEF Row
  <1>5. QED
    BY <1>1, <1>4 DEF FreshReviews

\* Every such step is one of the queue.
LEMMA ReviewQueueStep ==
    ASSUME IInv, [Next]_vars, FreshReviews
    PROVE  [ReviewQueue!Next]_(ReviewQueue!queue)
  <1>b. \A j \in ReviewRows : /\ Row(j).attempts \in 0 .. MaxAttempts
                              /\ Row(j).status = "pending" => Row(j).attempts < MaxAttempts
                              /\ [Row(j) EXCEPT !.status = "pending"].status = "pending"
                              /\ [Row(j) EXCEPT !.status = "pending"].attempts = Row(j).attempts
    <2>1. \A j \in ReviewRows : Row(j) \in AiReview
      BY DEF IInv, TypeOK, Row, ReviewRows
    <2>2. QED
      BY <2>1 DEF AiReview
  <1>1. CASE aiReviews' = aiReviews
    BY <1>1 DEF ReviewQueue!queue
  <1>2. ASSUME NEW S \in (SUBSET ReviewRows) \ {{}}, Enqueued(S)
        PROVE  ReviewQueue!Enqueue(S)
    <2>1. \A j \in ReviewRows : /\ Row(j)'.attempts = Row(j).attempts
                                /\ Row(j)'.status = IF j \in S THEN "pending" ELSE Row(j).status
      BY <1>2 DEF Enqueued, FreshReviews, NewReview, NoReview
    <2>2. QED
      BY <1>2, <2>1 DEF Enqueued, ReviewQueue!Enqueue, ReviewQueue!Move, Row, ReviewRows
  <1>3. ASSUME NEW S \in (SUBSET ReviewRows) \ {{}}, PutBack(S)
        PROVE  ReviewQueue!Retry(S)
    <2>1. \A j \in ReviewRows : /\ Row(j)'.attempts = Row(j).attempts
                                /\ Row(j)'.status = IF j \in S THEN "pending" ELSE Row(j).status
      BY <1>b, <1>3 DEF PutBack
    <2>2. \A j \in S : Row(j).status = "failed" /\ Row(j).attempts < MaxAttempts
      BY <1>3 DEF PutBack, Retryable
    <2>3. QED
      BY <1>3, <2>1, <2>2 DEF ReviewQueue!Retry, ReviewQueue!Move, Row, ReviewRows
  <1>4. ASSUME NEW i \in ReviewRows, Claimed(i)
        PROVE  ReviewQueue!Claim(i)
    <2>1. \A j \in ReviewRows :
             /\ Row(j)'.status = IF j = i THEN "reviewing" ELSE Row(j).status
             /\ Row(j)'.attempts = IF j = i THEN Row(i).attempts + 1 ELSE Row(j).attempts
      BY <1>4 DEF Claimed
    <2>2. Row(i).status = "pending" /\ Row(i).attempts < MaxAttempts
      BY <1>b, <1>4 DEF Claimed
    <2>3. QED
      BY <2>1, <2>2 DEF ReviewQueue!Claim, ReviewQueue!Move, Row, ReviewRows
  <1>5. ASSUME NEW i \in ReviewRows, NEW end \in {"failed", "completed"}, Ended(i, end)
        PROVE  ReviewQueue!Finish(i) \/ ReviewQueue!Fail(i)
    <2>1. \A j \in ReviewRows : /\ Row(j)'.status = IF j = i THEN end ELSE Row(j).status
                                /\ Row(j)'.attempts = Row(j).attempts
      BY <1>5 DEF Ended
    <2>2. Row(i).status = "reviewing"
      BY <1>5 DEF Ended
    <2>3. QED
      BY <2>1, <2>2 DEF ReviewQueue!Finish, ReviewQueue!Fail, ReviewQueue!Move, Row, ReviewRows
  <1>6. QED
    BY <1>1, <1>2, <1>3, <1>4, <1>5, ReviewSteps DEF ReviewQueue!Next, ReviewRows

\* The same of the AI reviews, one for each revision: its result is recorded
\* once (process_next_ai_review, requeue_failed_ai_reviews).
THEOREM ReviewsAreAQueue == Spec => ImplementsReviewQueue
  <1>1. Init => ReviewQueue!Init /\ FreshReviews
    BY DEF Init, ReviewQueue!Init, NoReview, FreshReviews, Row, ReviewRows
  <1>2. IInv /\ FreshReviews /\ [Next]_vars => FreshReviews' /\ [ReviewQueue!Next]_(ReviewQueue!queue)
    BY FreshReviewsStep, ReviewQueueStep
  <1>3. QED
    BY <1>1, <1>2, Invariant, PTL DEF Spec, ImplementsReviewQueue, ReviewQueue!Spec

----------------------------------------------------------------------------
(* A row's progress, a number that only rises and has a bound: no row is   *)
(* tried for ever and none returns to a state it was in, whatever dies.    *)

Progress(row) ==
    CASE row.status = "none"                        -> 0
      [] row.status \in {"reviewing", "translating"} -> 3 * row.attempts
      [] row.status = "failed"                      -> 3 * row.attempts + 1
      [] row.status = "pending"                     -> 3 * row.attempts + 2
      [] row.status \in {"completed", "ready"}      -> 3 * MaxAttempts + 2

\* The bound: a row takes at most so many steps in its life.
LEMMA ProgressBound ==
    ASSUME NEW row \in AiReview \cup TranslationJob
    PROVE  Progress(row) \in 0 .. 3 * MaxAttempts + 2
  <1>1. /\ row.attempts \in 0 .. MaxAttempts
        /\ row.status = "pending" => row.attempts < MaxAttempts
        /\ row.status \in {"none", "pending", "reviewing", "translating", "failed",
                           "completed", "ready"}
    BY DEF AiReview, TranslationJob
  <1>2. QED
    BY <1>1 DEF Progress

\* A translation job changes only forward (publish_due_publications,
\* make_editorial_decision, requeue_failed_translation_jobs,
\* process_next_translation_job).
THEOREM JobsOnlyAdvance ==
    Spec => [][\A p \in Pubs : jobs'[p] # jobs[p] => Progress(jobs[p]) < Progress(jobs'[p])]_vars
  <1>1. ASSUME IInv, FreshJobs, [Next]_vars, NEW p \in Pubs, jobs'[p] # jobs[p]
        PROVE  Progress(jobs[p]) < Progress(jobs'[p])
    <2>a. jobs \in [Pubs -> TranslationJob]
      BY <1>1 DEF IInv, TypeOK
    <2>b. /\ jobs[p].attempts \in 0 .. MaxAttempts
          /\ jobs[p].status = "none" => jobs[p].attempts = 0
          /\ jobs[p].status = "pending" => jobs[p].attempts < MaxAttempts
          /\ [jobs[p] EXCEPT !.status = "pending"].status = "pending"
          /\ [jobs[p] EXCEPT !.status = "pending"].attempts = jobs[p].attempts
      BY <1>1, <2>a DEF FreshJobs, TranslationJob
    <2>1. ASSUME NEW S \in SUBSET Pubs, \A q \in S : jobs[q].status = "none",
                 jobs' = [q \in Pubs |-> IF q \in S THEN NewJob ELSE jobs[q]]
          PROVE  Progress(jobs[p]) < Progress(jobs'[p])
      <3>1. jobs[p].status = "none" /\ jobs'[p] = NewJob
        BY <1>1, <2>1
      <3>2. QED
        BY <3>1 DEF Progress, NewJob, NoJob
    <2>2. ASSUME NEW S \in SUBSET Pubs, \A q \in S : Retryable(jobs[q]),
                 jobs' = [q \in Pubs |-> IF q \in S THEN [jobs[q] EXCEPT !.status = "pending"]
                                         ELSE jobs[q]]
          PROVE  Progress(jobs[p]) < Progress(jobs'[p])
      <3>1. jobs[p].status = "failed" /\ jobs'[p] = [jobs[p] EXCEPT !.status = "pending"]
        BY <1>1, <2>2 DEF Retryable
      <3>2. QED
        BY <2>b, <3>1 DEF Progress
    <2>3. ASSUME NEW q \in Pubs, jobs[q].status = "pending",
                 jobs' = [jobs EXCEPT ![q] = [status |-> "translating", attempts |-> @.attempts + 1]]
          PROVE  Progress(jobs[p]) < Progress(jobs'[p])
      <3>1. p = q /\ jobs'[p].status = "translating" /\ jobs'[p].attempts = jobs[p].attempts + 1
        BY <1>1, <2>a, <2>3
      <3>2. QED
        BY <2>b, <2>3, <3>1 DEF Progress
    <2>4. ASSUME NEW q \in Pubs, NEW end \in {"failed", "ready"}, jobs[q].status = "translating",
                 jobs' = [jobs EXCEPT ![q] = [@ EXCEPT !.status = end]]
          PROVE  Progress(jobs[p]) < Progress(jobs'[p])
      <3>1. p = q /\ jobs'[p].status = end /\ jobs'[p].attempts = jobs[p].attempts
        BY <1>1, <2>a, <2>4 DEF TranslationJob
      <3>2. QED
        BY <2>b, <2>4, <3>1 DEF Progress
    <2>5. QED
      BY <1>1, <2>1, <2>2, <2>3, <2>4, JobSteps
  <1>2. Init => FreshJobs
    BY DEF Init, NoJob, FreshJobs
  <1>3. /\ IInv
        /\ FreshJobs
        /\ [Next]_vars
        => /\ FreshJobs'
           /\ [\A p \in Pubs : jobs'[p] # jobs[p] => Progress(jobs[p]) < Progress(jobs'[p])]_vars
    BY <1>1, FreshJobsStep
  <1>4. QED
    BY <1>2, <1>3, Invariant, PTL DEF Spec

\* Nor does a review (submit_draft, requeue_failed_ai_reviews,
\* process_next_ai_review): a verdict is recorded once.
THEOREM ReviewsOnlyAdvance ==
    Spec => [][\A j \in ReviewRows :
                  Row(j)' # Row(j) => Progress(Row(j)) < Progress(Row(j)')]_vars
  <1>1. ASSUME IInv, FreshReviews, [Next]_vars, NEW j \in ReviewRows, Row(j)' # Row(j)
        PROVE  Progress(Row(j)) < Progress(Row(j)')
    <2>a. Row(j) \in AiReview
      BY <1>1 DEF IInv, TypeOK, Row, ReviewRows
    <2>b. /\ Row(j).attempts \in 0 .. MaxAttempts
          /\ Row(j).status = "none" => Row(j).attempts = 0
          /\ Row(j).status = "pending" => Row(j).attempts < MaxAttempts
          /\ [Row(j) EXCEPT !.status = "pending"].status = "pending"
          /\ [Row(j) EXCEPT !.status = "pending"].attempts = Row(j).attempts
      BY <1>1, <2>a DEF FreshReviews, AiReview
    <2>1. ASSUME NEW S, Enqueued(S)
          PROVE  Progress(Row(j)) < Progress(Row(j)')
      <3>1. Row(j).status = "none" /\ Row(j)' = NewReview
        BY <1>1, <2>1 DEF Enqueued
      <3>2. QED
        BY <3>1 DEF Progress, NewReview, NoReview
    <2>2. ASSUME NEW S, PutBack(S)
          PROVE  Progress(Row(j)) < Progress(Row(j)')
      <3>1. Row(j).status = "failed" /\ Row(j)' = [Row(j) EXCEPT !.status = "pending"]
        BY <1>1, <2>2 DEF PutBack, Retryable
      <3>2. QED
        BY <2>b, <3>1 DEF Progress
    <2>3. ASSUME NEW i, Claimed(i)
          PROVE  Progress(Row(j)) < Progress(Row(j)')
      <3>1. /\ Row(j).status = "pending"
            /\ Row(j)'.status = "reviewing"
            /\ Row(j)'.attempts = Row(j).attempts + 1
        BY <1>1, <2>3 DEF Claimed
      <3>2. QED
        BY <2>b, <3>1 DEF Progress
    <2>4. ASSUME NEW i, NEW end \in {"failed", "completed"}, Ended(i, end)
          PROVE  Progress(Row(j)) < Progress(Row(j)')
      <3>1. /\ Row(j).status = "reviewing"
            /\ Row(j)'.status = end
            /\ Row(j)'.attempts = Row(j).attempts
        BY <1>1, <2>4 DEF Ended
      <3>2. QED
        BY <2>b, <2>4, <3>1 DEF Progress
    <2>5. aiReviews' # aiReviews
      BY <1>1 DEF Row
    <2>6. QED
      BY <1>1, <2>1, <2>2, <2>3, <2>4, <2>5, ReviewSteps
  <1>2. Init => FreshReviews
    BY DEF Init, NoReview, FreshReviews, Row, ReviewRows
  <1>3. /\ IInv
        /\ FreshReviews
        /\ [Next]_vars
        => /\ FreshReviews'
           /\ [\A j \in ReviewRows :
                  Row(j)' # Row(j) => Progress(Row(j)) < Progress(Row(j)')]_vars
    BY <1>1, FreshReviewsStep
  <1>4. QED
    BY <1>2, <1>3, Invariant, PTL DEF Spec

----------------------------------------------------------------------------
(* What is written stays *)

\* A revision, once written, is never written again, and none is taken away
\* (publication_revisions; update_draft, restore_publication_revision).
THEOREM RevisionsAreFinal ==
    Spec => [][\A p \in Pubs, n \in Revisions :
                  revisions[p][n] # None => revisions'[p][n] = revisions[p][n]]_vars
  <1>1. ASSUME IInv, [Next]_vars, NEW p \in Pubs, NEW n \in Revisions, revisions[p][n] # None
        PROVE  revisions'[p][n] = revisions[p][n]
    <2>a. /\ revisions \in [Pubs -> [Revisions -> Texts \cup {None}]]
          /\ sourceRevision \in [Pubs -> 0 .. MaxRevision]
      BY <1>1 DEF IInv, TypeOK
    <2>1. n <= sourceRevision[p]
      BY <1>1 DEF IInv, RevisionHistory
    <2>2. ASSUME NEW q \in Pubs, NEW t \in Texts, Log!Append(q, t)
          PROVE  revisions'[p][n] = revisions[p][n]
      <3>1. revisions' = [revisions EXCEPT ![q][sourceRevision[q] + 1] = t]
        BY <2>2 DEF Log!Append
      <3>2. p = q => n # sourceRevision[q] + 1
        BY <2>a, <2>1 DEF Revisions
      <3>3. QED
        BY <2>a, <3>1, <3>2
    <2>3. CASE UNCHANGED draftVars
      BY <2>3 DEF draftVars
    <2>4. QED
      BY <1>1, <2>2, <2>3, DraftSteps
  <1>2. IInv /\ [Next]_vars
        => [\A p \in Pubs, n \in Revisions :
               revisions[p][n] # None => revisions'[p][n] = revisions[p][n]]_vars
    BY <1>1
  <1>3. QED
    BY <1>2, Invariant, PTL DEF Spec

\* A translation that exists is changed by an editor and nobody else: a worker
\* that saves late, or a second time, finds none (process_next_translation_job,
\* update_localization_by_editor).
THEOREM OnlyEditorsRewrite ==
    Spec => [][\A p \in Pubs :
                  translations[p].origin # "none" /\ translations'[p] # translations[p]
                     => EditLocalization(p)]_vars
  <1>1. ASSUME IInv, [Next]_vars, NEW p \in Pubs,
               translations[p].origin # "none", translations'[p] # translations[p]
        PROVE  EditLocalization(p)
    <2>a. translations \in [Pubs -> Localization] /\ translations' # translations
      BY <1>1 DEF IInv, TypeOK
    <2>1. CASE \E c \in Clients : RequestStep(c)
      BY <2>a, <2>1 DEF RequestStep, BeginUpdate, BeginSubmit, BeginDecision, BeginItems, CheckHasItems, SelectItems,
         Begin, CommitUpdate, CommitSubmit, CommitDecision, CommitItems, AbortRequest,
         queueVars
    <2>2. CASE \E q \in Pubs : LockedStep(q) \/ TimePasses(q) \/ ChangeAuthorRole(q)
      <3>1. PICK q \in Pubs : EditLocalization(q)
        BY <2>a, <2>2 DEF LockedStep, CreateDraft, Restore, Archive, Unarchive,
           ChangeArchiveStatus, TimePasses, ChangeAuthorRole, queueVars
      <3>2. q = p
        BY <1>1, <2>a, <3>1 DEF EditLocalization
      <3>3. QED
        BY <3>1, <3>2
    <2>3. CASE \E w \in Workers : WorkerStep(w) \/ CrashAndRestart(w)
      <3>1. PICK w \in Workers : SaveTranslation(w)
        BY <2>a, <2>3 DEF WorkerStep, PublishDue, PublishDueFails, RequeueReviews,
           RequeueJobs, NoPendingReview, ClaimReview, ReviewFails, CompleteReview,
           NoPendingJob, ClaimJob, TranslationFails, ReadTarget, CrashAndRestart, queueVars
      <3>2. PICK q \in Pubs : q = wk[w].pub
        <4>1. wk[w] \in WorkerState /\ wk[w].stage = "saving"
          BY <1>1, <3>1 DEF SaveTranslation, IInv, TypeOK
        <4>2. QED
          BY <4>1 DEF WorkerState
      <3>3. jobs[q].status = "translating"
        BY <1>1, <3>1, <3>2 DEF SaveTranslation, IInv, ExclusiveClaims, HoldsJob
      <3>4. q # p
        BY <1>1, <3>3 DEF IInv, TranslationIffReady
      <3>5. translations'[p] = translations[p]
        BY <2>a, <3>1, <3>2, <3>4 DEF SaveTranslation
      <3>6. QED
        BY <1>1, <3>5
    <2>4. CASE UNCHANGED vars
      BY <2>a, <2>4 DEF vars, queueVars
    <2>5. QED
      BY <1>1, <2>1, <2>2, <2>3, <2>4 DEF Next
  <1>2. IInv /\ [Next]_vars
        => [\A p \in Pubs :
               translations[p].origin # "none" /\ translations'[p] # translations[p]
                  => EditLocalization(p)]_vars
    BY <1>1
  <1>3. QED
    BY <1>2, Invariant, PTL DEF Spec

----------------------------------------------------------------------------
(* What row locks would give.  The violations TLC finds all start with a   *)
(* stale commit or a stale route; without them the promises hold.          *)

\* A published or archived material changes its status only between the two.
LEMMA PublishedStaysStep ==
    ASSUME IInv, [Next]_vars, FreshCommits, NEW p \in Pubs,
           status[p] \in {"published", "archived"}
    PROVE  status'[p] \in {"published", "archived"}
  <1>a. status \in [Pubs -> Statuses]
    BY DEF IInv, TypeOK
  <1>b. ASSUME NEW q, q # p, NEW s, status' = [status EXCEPT ![q] = s]
        PROVE  status'[p] = status[p]
    BY <1>a, <1>b
  <1>1. CASE \E c \in Clients : RequestStep(c)
    <2>1. PICK c \in Clients : RequestStep(c)
      BY <1>1
    <2>2. CASE CommitSubmit(c)
      <3>1. Editable(req[c].pub)
        BY <2>2 DEF FreshCommits
      <3>2. req[c].pub # p
        BY <3>1 DEF Editable
      <3>3. status' = [status EXCEPT ![req[c].pub] = "editorial_review"]
        BY <2>2 DEF CommitSubmit
      <3>4. QED
        BY <1>b, <3>2, <3>3
    <2>3. CASE CommitDecision(c)
      <3>1. req[c].pub # p
        BY <2>3 DEF FreshCommits
      <3>2. PICK s : status' = [status EXCEPT ![req[c].pub] = s]
        BY <2>3 DEF CommitDecision
      <3>3. QED
        BY <1>b, <3>1, <3>2
    <2>4. CASE ~(CommitSubmit(c) \/ CommitDecision(c))
      BY <2>1, <2>4 DEF RequestStep, BeginUpdate, BeginSubmit, BeginDecision, BeginItems, CheckHasItems, SelectItems,
         CommitUpdate, CommitItems, AbortRequest, Begin, pubVars
    <2>5. QED
      BY <2>2, <2>3, <2>4
  <1>2. CASE \E q \in Pubs : LockedStep(q) \/ TimePasses(q) \/ ChangeAuthorRole(q)
    <2>1. PICK q \in Pubs : LockedStep(q) \/ TimePasses(q) \/ ChangeAuthorRole(q)
      BY <1>2
    <2>2. CASE CreateDraft(q) \/ Archive(q) \/ Unarchive(q)
      BY <1>a, <2>2 DEF CreateDraft, Archive, Unarchive, ChangeArchiveStatus
    <2>3. CASE ~(CreateDraft(q) \/ Archive(q) \/ Unarchive(q))
      BY <2>1, <2>3 DEF LockedStep, Restore, EditLocalization, TimePasses, ChangeAuthorRole,
         pubVars
    <2>4. QED
      BY <2>2, <2>3
  <1>3. CASE \E w \in Workers : WorkerStep(w) \/ CrashAndRestart(w)
    <2>1. PICK w \in Workers : WorkerStep(w) \/ CrashAndRestart(w)
      BY <1>3
    <2>2. CASE PublishDue(w)
      BY <2>2 DEF PublishDue
    <2>3. CASE CompleteReview(w)
      <3>1. \/ status' = status
            \/ status' = [status EXCEPT ![wk[w].pub] = "published"]
        BY <2>3 DEF CompleteReview
      <3>2. QED
        BY <1>a, <3>1
    <2>4. CASE ~(PublishDue(w) \/ CompleteReview(w))
      BY <2>1, <2>4 DEF WorkerStep, PublishDueFails, RequeueReviews, RequeueJobs,
         NoPendingReview, ClaimReview, ReviewFails, NoPendingJob, ClaimJob,
         TranslationFails, ReadTarget, SaveTranslation, CrashAndRestart, pubVars
    <2>5. QED
      BY <2>2, <2>3, <2>4
  <1>4. CASE UNCHANGED vars
    BY <1>4 DEF vars, pubVars
  <1>5. QED
    BY <1>1, <1>2, <1>3, <1>4 DEF Next

\* If submissions and decisions commit on the status they were checked against
\* (submit_draft, make_editorial_decision), nothing takes back a publication.
THEOREM FreshCommitsKeepPublications ==
    Spec /\ [][FreshCommits]_vars => PublishedStays
  <1>1. /\ IInv
        /\ [Next]_vars
        /\ [FreshCommits]_vars
        => [\A p \in Pubs : status[p] \in {"published", "archived"} =>
               status'[p] \in {"published", "archived"}]_vars
    BY PublishedStaysStep DEF vars
  <1>2. QED
    BY <1>1, Invariant, PTL DEF Spec, PublishedStays

\* A publication date comes with the status "published".
LEMMA DatedWhenPublished ==
    ASSUME IInv, [Next]_vars, NEW p \in Pubs, publishedAt'[p], ~ publishedAt[p]
    PROVE  status'[p] = "published"
  <1>1. p \in EverDated' /\ p \notin EverDated
    BY DEF EverDated
  <1>2. EverDated' # EverDated
    BY <1>1
  <1>3. Materials!Next
    BY <1>2, MaterialSteps
  <1>4. PICK S \in SUBSET Pubs : Materials!Publish(S)
    BY <1>2, <1>3 DEF Materials!Next, Materials!Withdraw, Materials!Translate, EverDated
  <1>5. EverDated' = EverDated \cup S /\ Shown' = Shown \cup S
    BY <1>4 DEF Materials!Publish, EverDated, Shown
  <1>6. p \in Shown'
    BY <1>1, <1>5
  <1>7. QED
    BY <1>6 DEF Shown

\* What has been published once is published or archived.
DatedAreOut == \A p \in Pubs : publishedAt[p] => status[p] \in {"published", "archived"}

\* Then nothing the scheduler finds due has a job, so inserting one never
\* fails the batch (publish_due_publications), whatever the AI answers late.
THEOREM FreshCommitsKeepTheScheduler ==
    Spec /\ [][FreshCommits]_vars => []SchedulerRuns
  <1>1. Init => DatedAreOut
    BY DEF Init, DatedAreOut
  <1>2. ASSUME IInv, [Next]_vars, [FreshCommits]_vars, DatedAreOut
        PROVE  DatedAreOut'
    <2>1. CASE UNCHANGED vars
      BY <1>2, <2>1 DEF vars, pubVars, DatedAreOut
    <2>2. CASE FreshCommits
      <3>1. ASSUME NEW p \in Pubs, publishedAt'[p]
            PROVE  status'[p] \in {"published", "archived"}
        <4>1. CASE publishedAt[p]
          BY <1>2, <2>2, <4>1, PublishedStaysStep DEF DatedAreOut
        <4>2. CASE ~ publishedAt[p]
          BY <1>2, <3>1, <4>2, DatedWhenPublished
        <4>3. QED
          BY <4>1, <4>2
      <3>2. QED
        BY <3>1 DEF DatedAreOut
    <2>3. QED
      BY <1>2, <2>1, <2>2
  <1>3. IInv /\ DatedAreOut => SchedulerRuns
    BY DEF IInv, PublishedOnce, DatedAreOut, SchedulerRuns, IsDue
  <1>4. QED
    BY <1>1, <1>2, <1>3, Invariant, PTL DEF Spec

\* What an editor has scheduled then waits for its time and is published: no
\* step takes it back or loses the time (make_editorial_decision,
\* publish_due_publications).
THEOREM FreshCommitsKeepSchedules ==
    Spec /\ [][FreshCommits]_vars =>
        [][\A p \in Pubs : status[p] = "scheduled" =>
              \/ status'[p] = "published"
              \/ status'[p] = "scheduled" /\ scheduledAt'[p] \in {scheduledAt[p], "due"}]_vars
  <1>1. ASSUME IInv, [Next]_vars, FreshCommits, NEW p \in Pubs, status[p] = "scheduled"
        PROVE  \/ status'[p] = "published"
               \/ status'[p] = "scheduled" /\ scheduledAt'[p] \in {scheduledAt[p], "due"}
    <2>a. status \in [Pubs -> Statuses] /\ scheduledAt \in [Pubs -> Schedules]
      BY <1>1 DEF IInv, TypeOK
    <2>1. CASE \E c \in Clients : RequestStep(c)
      <3>1. PICK c \in Clients : RequestStep(c)
        BY <2>1
      <3>2. CASE CommitSubmit(c)
        BY <1>1, <2>a, <3>2 DEF CommitSubmit, FreshCommits, Editable
      <3>3. CASE CommitDecision(c)
        <4>1. req[c].pub # p
          BY <1>1, <3>3 DEF FreshCommits
        <4>2. PICK s, t : /\ status' = [status EXCEPT ![req[c].pub] = s]
                          /\ scheduledAt' = [scheduledAt EXCEPT ![req[c].pub] = t]
          BY <3>3 DEF CommitDecision
        <4>3. QED
          BY <1>1, <2>a, <4>1, <4>2
      <3>4. CASE ~(CommitSubmit(c) \/ CommitDecision(c))
        BY <1>1, <3>1, <3>4 DEF RequestStep, BeginUpdate, BeginSubmit, BeginDecision,
           BeginItems, CheckHasItems, SelectItems, CommitUpdate, CommitItems, AbortRequest, Begin, pubVars
      <3>5. QED
        BY <3>2, <3>3, <3>4
    <2>2. CASE \E q \in Pubs : LockedStep(q) \/ TimePasses(q) \/ ChangeAuthorRole(q)
      BY <1>1, <2>a, <2>2 DEF LockedStep, CreateDraft, Archive, Unarchive,
         ChangeArchiveStatus, Restore, EditLocalization, TimePasses, ChangeAuthorRole,
         pubVars
    <2>3. CASE \E w \in Workers : WorkerStep(w) \/ CrashAndRestart(w)
      <3>1. PICK w \in Workers : WorkerStep(w) \/ CrashAndRestart(w)
        BY <2>3
      <3>2. CASE PublishDue(w)
        BY <1>1, <3>2 DEF PublishDue
      <3>3. CASE CompleteReview(w)
        <4>1. /\ \/ status' = status
                 \/ status' = [status EXCEPT ![wk[w].pub] = "published"]
              /\ scheduledAt' = scheduledAt
          BY <3>3 DEF CompleteReview
        <4>2. QED
          BY <1>1, <2>a, <4>1
      <3>4. CASE ~(PublishDue(w) \/ CompleteReview(w))
        BY <1>1, <3>1, <3>4 DEF WorkerStep, PublishDueFails, RequeueReviews, RequeueJobs,
           NoPendingReview, ClaimReview, ReviewFails, NoPendingJob, ClaimJob,
           TranslationFails, ReadTarget, SaveTranslation, CrashAndRestart, pubVars
      <3>5. QED
        BY <3>2, <3>3, <3>4
    <2>4. CASE UNCHANGED vars
      BY <1>1, <2>4 DEF vars, pubVars
    <2>5. QED
      BY <1>1, <2>1, <2>2, <2>3, <2>4 DEF Next
  <1>2. /\ IInv
        /\ [Next]_vars
        /\ [FreshCommits]_vars
        => [\A p \in Pubs : status[p] = "scheduled" =>
              \/ status'[p] = "published"
              \/ status'[p] = "scheduled" /\ scheduledAt'[p] \in {scheduledAt[p], "due"}]_vars
    BY <1>1 DEF vars
  <1>3. QED
    BY <1>2, Invariant, PTL DEF Spec

\* And every scheduled material has a time: it does not wait for ever
\* (make_editorial_decision).
THEOREM FreshCommitsStrandNothing ==
    Spec /\ [][FreshCommits]_vars => [](\A p \in Pubs : ~Stranded(p))
  <1>1. Init => \A p \in Pubs : ~Stranded(p)
    BY DEF Init, Stranded
  <1>2. ASSUME IInv, [Next]_vars, FreshCommits \/ UNCHANGED vars, \A p \in Pubs : ~Stranded(p)
        PROVE  (\A p \in Pubs : ~Stranded(p))'
    <2>1. ASSUME NEW p \in Pubs, Stranded(p)'
          PROVE  FALSE
      <3>1. PICK c \in Clients : /\ CommitDecision(c) /\ req[c].pub = p
                                 /\ req[c].at = "future" /\ scheduledAt[p] = "none"
        BY <1>2, <2>1, StrandingStep
      <3>2. CASE FreshCommits
        BY <3>1, <3>2 DEF FreshCommits
      <3>3. CASE UNCHANGED vars
        BY <1>2, <2>1, <3>3 DEF vars, pubVars, Stranded
      <3>4. QED
        BY <1>2, <3>2, <3>3
    <2>2. QED
      BY <2>1
  <1>3. QED
    BY <1>1, <1>2, Invariant, PTL DEF Spec

\* Only the answer to a review can publish as the worker leaves it.
LEMMA FreshRouteStep ==
    ASSUME IInv, [Next]_vars, FreshRoutes, NEW w \in Workers, PublishesAfterReview(w)
    PROVE  /\ status[wk[w].pub] = "editorial_review"
           /\ sourceRevision[wk[w].pub] = wk[w].rev
           /\ wk[w].pub \in verified
  <1>1. PICK u \in Workers : /\ WorkerStep(u) \/ CrashAndRestart(u)
                             /\ \A v \in Workers : v # u => wk'[v] = wk[v]
    BY OneWorkerMoves DEF PublishesAfterReview
  <1>2. u = w
    BY <1>1 DEF PublishesAfterReview
  <1>3. CompleteReview(w)
    <2>1. ~ ReviewFails(w) /\ ~ CrashAndRestart(w)
      BY DEF PublishesAfterReview, ReviewFails, CrashAndRestart, pubVars
    <2>2. wk[w].stage = "reviewing"
      BY DEF PublishesAfterReview
    <2>3. QED
      BY <1>1, <1>2, <2>1, <2>2 DEF WorkerStep, PublishDue, PublishDueFails, RequeueReviews,
         RequeueJobs, NoPendingReview, ClaimReview, NoPendingJob, ClaimJob,
         TranslationFails, ReadTarget, SaveTranslation
  <1>4. wk[w].seenStatus = status[wk[w].pub] /\ wk[w].seenRev = sourceRevision[wk[w].pub]
    BY <1>3 DEF FreshRoutes
  <1>5. PICK d : Autopublishes(wk[w], d)
    BY <1>3 DEF CompleteReview, PublishesAfterReview
  <1>6. QED
    BY <1>4, <1>5 DEF Autopublishes

\* If the worker loaded the publication and the source again before it routes
\* a review (route_completed_review), the AI would publish only the revision
\* it was asked about, while it is under review.
THEOREM FreshRoutesAutopublishCurrent ==
    Spec /\ [][FreshRoutes]_vars => AutopublishCurrent
  <1>1. /\ IInv
        /\ [Next]_vars
        /\ [FreshRoutes]_vars
        => [\A w \in Workers : PublishesAfterReview(w) =>
              /\ status[wk[w].pub] = "editorial_review"
              /\ sourceRevision[wk[w].pub] = wk[w].rev
              /\ wk[w].pub \in verified]_vars
    BY FreshRouteStep DEF vars
  <1>2. QED
    BY <1>1, Invariant, PTL DEF Spec, AutopublishCurrent

----------------------------------------------------------------------------
(* Requests that do not overlap, about authors the AI does not publish. *)

AloneInv ==
    /\ verified = {}
    /\ \A c \in Clients :
          /\ req[c].op \in {"submit", "submit_digest"} => Editable(req[c].pub)
          /\ req[c].op = "decide" =>
                /\ status[req[c].pub] = "editorial_review"
                /\ req[c].at # "none" => scheduledAt[req[c].pub] # "none"

\* Then what an editor or an author is about to change, nobody else changes.
LEMMA OnlyRequestsTake ==
    ASSUME IInv, [Next]_vars, verified = {}, NEW p \in Pubs,
           status[p] \in {"draft", "changes_requested", "editorial_review"},
           status'[p] # status[p]
    PROVE  \E c \in Clients : CommitSubmit(c) \/ CommitDecision(c)
  <1>a. status \in [Pubs -> Statuses]
    BY DEF IInv, TypeOK
  <1>1. CASE \E c \in Clients : RequestStep(c)
    BY <1>1 DEF RequestStep, BeginUpdate, BeginSubmit, BeginDecision, BeginItems, CheckHasItems, SelectItems,
       CommitUpdate, CommitItems, AbortRequest, Begin, pubVars
  <1>2. CASE \E q \in Pubs : LockedStep(q) \/ TimePasses(q) \/ ChangeAuthorRole(q)
    BY <1>a, <1>2 DEF LockedStep, CreateDraft, Archive, Unarchive, ChangeArchiveStatus,
       Restore, EditLocalization, TimePasses, ChangeAuthorRole, pubVars
  <1>3. CASE \E w \in Workers : WorkerStep(w) \/ CrashAndRestart(w)
    <2>1. PICK w \in Workers : WorkerStep(w) \/ CrashAndRestart(w)
      BY <1>3
    <2>2. CASE PublishDue(w)
      BY <1>a, <2>2 DEF PublishDue, DuePubs, IsDue
    <2>3. CASE ~PublishDue(w)
      BY <2>1, <2>3 DEF WorkerStep, PublishDueFails, RequeueReviews, RequeueJobs,
         NoPendingReview, ClaimReview, ReviewFails, CompleteReview, Autopublishes,
         NoPendingJob, ClaimJob, TranslationFails, ReadTarget, SaveTranslation,
         CrashAndRestart, pubVars
    <2>4. QED
      BY <2>2, <2>3
  <1>4. CASE UNCHANGED vars
    BY <1>4 DEF vars, pubVars
  <1>5. QED
    BY <1>1, <1>2, <1>3, <1>4 DEF Next

\* The author role is given to nobody.
LEMMA NobodyVerified ==
    ASSUME Verifiable = {}, verified = {}, [Next]_vars
    PROVE  verified' = {}
  <1>1. ASSUME NEW c \in Clients, RequestStep(c) PROVE verified' = verified
    BY <1>1 DEF RequestStep, BeginUpdate, BeginSubmit, BeginDecision, BeginItems, CheckHasItems, SelectItems, Begin,
       CommitUpdate, CommitSubmit, CommitDecision, CommitItems, AbortRequest
  <1>2. ASSUME NEW p \in Pubs, LockedStep(p) \/ TimePasses(p) \/ ChangeAuthorRole(p)
        PROVE  verified' = verified
    BY <1>2 DEF LockedStep, CreateDraft, Archive, Unarchive, ChangeArchiveStatus, Restore,
       EditLocalization, TimePasses, ChangeAuthorRole
  <1>3. ASSUME NEW w \in Workers, WorkerStep(w) \/ CrashAndRestart(w)
        PROVE  verified' = verified
    BY <1>3 DEF WorkerStep, PublishDue, PublishDueFails, RequeueReviews, RequeueJobs,
       NoPendingReview, ClaimReview, ReviewFails, CompleteReview, NoPendingJob, ClaimJob,
       TranslationFails, ReadTarget, SaveTranslation, CrashAndRestart
  <1>4. CASE UNCHANGED vars
    BY <1>4 DEF vars
  <1>5. QED
    BY <1>1, <1>2, <1>3, <1>4 DEF Next

LEMMA AloneStep ==
    ASSUME \A c, d \in Clients : c = d, IInv, AloneInv, [Next]_vars, verified' = {}
    PROVE  AloneInv'
  <1>a. req \in [Clients -> Request]
    BY DEF IInv, TypeOK
  <1>1. ASSUME NEW c \in Clients, req'[c].op \in {"submit", "submit_digest", "decide"}
        PROVE  /\ req'[c].op \in {"submit", "submit_digest"} => Editable(req[c].pub)'
               /\ req'[c].op = "decide" =>
                     /\ status'[req'[c].pub] = "editorial_review"
                     /\ req'[c].at # "none" => scheduledAt'[req'[c].pub] # "none"
    <2>1. CASE req'[c] = req[c]
      <3>1. PICK p \in Pubs : p = req[c].pub
        <4>1. req[c] \in Request /\ req[c].op # "none"
          BY <1>a, <1>1, <2>1
        <4>2. QED
          BY <4>1 DEF Request
      <3>2. /\ req[c].op \in {"submit", "submit_digest"} => Editable(p)
            /\ req[c].op = "decide" =>
                  /\ status[p] = "editorial_review"
                  /\ req[c].at # "none" => scheduledAt[p] # "none"
            /\ verified = {}
        BY <3>1 DEF AloneInv
      <3>3. ASSUME NEW d \in Clients, CommitSubmit(d) \/ CommitDecision(d)
            PROVE  FALSE
        <4>1. c = d
          OBVIOUS
        <4>2. req'[c] = NoRequest
          BY <1>a, <3>3, <4>1 DEF CommitSubmit, CommitDecision, Done
        <4>3. QED
          BY <1>1, <4>2 DEF NoRequest
      <3>4. status'[p] = status[p]
        <4>1. status[p] \in {"draft", "changes_requested", "editorial_review"}
          BY <1>1, <2>1, <3>2 DEF Editable
        <4>2. QED
          BY <3>2, <3>3, <4>1, OnlyRequestsTake
      <3>5. ASSUME status[p] = "editorial_review", scheduledAt[p] # "none"
            PROVE  scheduledAt'[p] # "none"
        BY <3>4, <3>5, StatusSteps
      <3>6. CASE req[c].op = "decide"
        BY <2>1, <3>1, <3>2, <3>4, <3>5, <3>6
      <3>7. CASE req[c].op # "decide"
        BY <1>1, <2>1, <3>1, <3>2, <3>4, <3>7 DEF Editable
      <3>8. QED
        BY <3>6, <3>7
    <2>2. ASSUME NEW p \in Pubs,
                 req'[c].pub = p,
                 req'[c].at = scheduledAt[p],
                 req'[c].op \in {"submit", "submit_digest"} => Editable(p),
                 req'[c].op = "decide" => status[p] = "editorial_review",
                 UNCHANGED <<status, scheduledAt>>
          PROVE  /\ req'[c].op \in {"submit", "submit_digest"} => Editable(req[c].pub)'
                 /\ req'[c].op = "decide" =>
                       /\ status'[req'[c].pub] = "editorial_review"
                       /\ req'[c].at # "none" => scheduledAt'[req'[c].pub] # "none"
      BY <2>2 DEF Editable
    <2>3. ASSUME req'[c].pub = req[c].pub, req[c].op = "submit_digest", req'[c].op = "submit",
                 UNCHANGED status
          PROVE  Editable(req[c].pub)'
      BY <2>3 DEF AloneInv, Editable
    <2>4. CASE req'[c] # req[c]
      BY <1>1, <2>2, <2>3, <2>4, NewRequests
    <2>5. QED
      BY <2>1, <2>4
  <1>2. QED
    BY <1>1 DEF AloneInv

\* A decision or a submission that no other request and no answer of the AI
\* can overlap commits on what it was checked against.
THEOREM RequestsAloneAreFresh ==
    ASSUME Verifiable = {}, \A c, d \in Clients : c = d
    PROVE  Spec => [][FreshCommits]_vars
  <1>1. Init => AloneInv
    BY DEF Init, AloneInv, NoRequest
  <1>2. IInv /\ AloneInv /\ [Next]_vars => AloneInv'
    BY NobodyVerified, AloneStep DEF AloneInv
  <1>3. IInv /\ AloneInv => FreshCommits
    BY DEF AloneInv, FreshCommits, CommitSubmit, CommitDecision
  <1>4. QED
    BY <1>1, <1>2, <1>3, Invariant, PTL DEF Spec

\* So the scheduler of the run without overlapping requests never fails.
THEOREM RequestsAloneKeepTheScheduler ==
    ASSUME Verifiable = {}, \A c, d \in Clients : c = d
    PROVE  Spec => []SchedulerRuns
  BY RequestsAloneAreFresh, FreshCommitsKeepTheScheduler, PTL
============================================================================
