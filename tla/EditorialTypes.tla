-------------------------- MODULE EditorialTypes --------------------------
(* Type correctness of the editorial core, proved for every instance. *)
EXTENDS Editorial, TLAPS

\* The types of the columns, which every step needs.
USE StoreAssumption

LEMMA RequestConstants == NoRequest \in Request
  BY DEF NoRequest, Request, Statuses, Schedules

LEMMA StageTypes == ASSUME NEW s \in Stages \ {"reviewing", "translating", "saving"}
                    PROVE  At(s) \in WorkerState
  BY DEF At, WorkerState, Statuses

LEMMA RowConstants ==
    /\ NoReview \in AiReview
    /\ NewReview \in AiReview
    /\ NoJob \in TranslationJob
    /\ NewJob \in TranslationJob
    /\ NoLocalization \in Localization
  <1>1. NoReview \in AiReview /\ NewReview \in AiReview
    BY DEF NoReview, NewReview, AiReview
  <1>2. NoJob \in TranslationJob /\ NewJob \in TranslationJob
    BY DEF NoJob, NewJob, TranslationJob
  <1>3. QED
    BY <1>1, <1>2 DEF NoLocalization, Localization

LEMMA ReviewUpdates ==
    ASSUME NEW r \in AiReview
    PROVE  /\ [r EXCEPT !.status = "failed"] \in AiReview
           /\ r.attempts < MaxAttempts => [r EXCEPT !.status = "pending"] \in AiReview
           /\ \A d \in {"pass", "needs_editor", "block_until_review"} :
                 [status |-> "completed", attempts |-> r.attempts, decision |-> d] \in AiReview
  BY DEF AiReview

LEMMA ReviewPuts ==
    ASSUME NEW f \in [Pubs -> [Revisions -> AiReview]],
           NEW p \in Pubs, NEW n \in Revisions, NEW r \in AiReview
    PROVE  [f EXCEPT ![p][n] = r] \in [Pubs -> [Revisions -> AiReview]]
  OBVIOUS

LEMMA JobUpdates ==
    ASSUME NEW r \in TranslationJob
    PROVE  /\ [r EXCEPT !.status = "failed"] \in TranslationJob
           /\ [r EXCEPT !.status = "ready"] \in TranslationJob
           /\ r.attempts < MaxAttempts => [r EXCEPT !.status = "pending"] \in TranslationJob
  BY DEF TranslationJob

LEMMA LocalizationUpdates ==
    ASSUME NEW r \in Localization
    PROVE  [r EXCEPT !.origin = "human"] \in Localization
  BY DEF Localization

LEMMA InitTypes == Init => TypeOK
  BY RequestConstants, StageTypes, RowConstants DEF Init, TypeOK, Statuses, Schedules, Revisions, Stages

LEMMA ScheduleTypes ==
    ASSUME TypeOK, NEW r \in Request, r.op # "none", NEW d \in Decisions
    PROVE  NewSchedule(r, d) \subseteq Schedules
  BY DEF NewSchedule, Schedules, Request, TypeOK

LEMMA RequestTypes ==
    ASSUME TypeOK, NEW c \in Clients, RequestStep(c)
    PROVE  TypeOK'
  <1>1. ASSUME NEW op \in {"update", "submit", "submit_digest", "decide", "items"},
               NEW p \in Pubs,
               op = "update" => sourceRevision[p] < MaxRevision,
               Begin(c, Read(op, p))
        PROVE  TypeOK'
    <2>1. /\ sourceRevision[p] \in 0 .. MaxRevision
          /\ scheduledAt[p] \in Schedules
      BY DEF TypeOK
    <2>2. Read(op, p) \in Request
      BY <1>1, <2>1 DEF Request, Read
    <2>3. QED
      BY <1>1, <2>2 DEF TypeOK, Begin, pubVars, draftVars, queueVars
  <1>3. ASSUME NEW p \in Pubs,
               BeginUpdate(c, p) \/ BeginSubmit(c, p) \/ BeginDecision(c, p) \/ BeginItems(c, p)
        PROVE  TypeOK'
    BY <1>1, <1>3 DEF BeginUpdate, BeginSubmit, BeginDecision, BeginItems
  <1>4. CASE CheckHasItems(c) \/ SelectItems(c)
    <2>1. req[c] \in Request
      BY DEF TypeOK
    <2>2. CASE CheckHasItems(c)
      <3>1. [req[c] EXCEPT !.op = "submit"] \in Request
        BY <2>1, <2>2 DEF CheckHasItems, Request
      <3>2. QED
        BY <2>2, <3>1 DEF CheckHasItems, TypeOK, pubVars, draftVars, queueVars
    <2>3. CASE SelectItems(c)
      <3>1. PICK chosen \in SUBSET Pubs : req' = [req EXCEPT ![c].items = chosen]
        BY <2>3 DEF SelectItems, Selectable
      <3>2. [req[c] EXCEPT !.items = chosen] \in Request
        BY <2>1, <2>3 DEF SelectItems, Request
      <3>3. QED
        BY <2>3, <3>1, <3>2 DEF SelectItems, TypeOK, pubVars, draftVars, queueVars
    <2>4. QED
      BY <1>4, <2>2, <2>3
  <1>5. CASE CommitUpdate(c)
    <2>1. req[c] \in Request /\ req[c].op = "update"
      BY <1>5 DEF CommitUpdate, TypeOK
    <2>2. req[c].rev + 1 \in Revisions /\ req[c].pub \in Pubs
      BY <2>1 DEF Request, Revisions
    <2>3. PICK t \in Texts : WriteRevision(req[c].pub, req[c].rev + 1, t)
      BY <1>5 DEF CommitUpdate
    <2>4. text' \in [Pubs -> Texts \cup {None}]
      BY <2>2, <2>3 DEF WriteRevision, TypeOK
    <2>5. sourceRevision' \in [Pubs -> 0 .. MaxRevision]
      BY <2>2, <2>3 DEF WriteRevision, TypeOK, Revisions
    <2>6. revisions' \in [Pubs -> [Revisions -> Texts \cup {None}]]
      BY <2>2, <2>3 DEF WriteRevision, TypeOK
    <2>7. req' \in [Clients -> Request]
      BY <1>5, RequestConstants DEF CommitUpdate, Done, TypeOK
    <2>8. QED
      BY <1>5, <2>4, <2>5, <2>6, <2>7 DEF CommitUpdate, TypeOK, pubVars, queueVars
  <1>6. CASE CommitSubmit(c)
    BY <1>6, RequestConstants, RowConstants DEF CommitSubmit, Done, TypeOK, Request, Statuses,
       pubVars, draftVars, queueVars
  <1>7. CASE CommitDecision(c)
    <2>1. req[c] \in Request /\ req[c].op = "decide"
      BY <1>7 DEF CommitDecision, TypeOK
    <2>2. PICK d \in Decisions, at \in Schedules :
             /\ status' = [status EXCEPT ![req[c].pub] = Resolved(d)]
             /\ lastAudit' = [lastAudit EXCEPT ![req[c].pub] = Resolved(d)]
             /\ scheduledAt' = [scheduledAt EXCEPT ![req[c].pub] = at]
             /\ publishedAt' = [publishedAt EXCEPT ![req[c].pub] = Dated(req[c].pub, d)]
             /\ jobs' = IF d = "publish" THEN [jobs EXCEPT ![req[c].pub] = NewJob] ELSE jobs
      BY <1>7, <2>1, ScheduleTypes DEF CommitDecision
    <2>3. Resolved(d) \in Statuses /\ Dated(req[c].pub, d) \in BOOLEAN
      BY <2>1 DEF Statuses, Decisions, Resolved, Dated, TypeOK, Request
    <2>4. /\ status' \in [Pubs -> Statuses]
          /\ lastAudit' \in [Pubs -> Statuses]
          /\ scheduledAt' \in [Pubs -> Schedules]
      BY <2>2, <2>3 DEF TypeOK
    <2>5. publishedAt' \in [Pubs -> BOOLEAN]
      BY <2>2, <2>3 DEF TypeOK
    <2>6. jobs' \in [Pubs -> TranslationJob]
      BY <2>2, RowConstants DEF TypeOK
    <2>7. QED
      BY <1>7, <2>4, <2>5, <2>6, RequestConstants DEF CommitDecision, Done, TypeOK, draftVars
  <1>8. CASE CommitItems(c)
    BY <1>8, RequestConstants, RowConstants DEF CommitItems, Done, TypeOK, Request,
       pubVars, draftVars, queueVars
  <1>9. CASE AbortRequest(c)
    BY <1>9, RequestConstants, RowConstants DEF AbortRequest, Done, TypeOK, pubVars, draftVars, queueVars
  <1>10. QED
    BY <1>3, <1>4, <1>5, <1>6, <1>7, <1>8, <1>9 DEF RequestStep

LEMMA LockedTypes ==
    ASSUME TypeOK, NEW p \in Pubs, LockedStep(p)
    PROVE  TypeOK'
  <1>1. CASE CreateDraft(p)
    <2>1. 1 \in Revisions
      BY DEF Revisions
    <2>2. QED
      BY <1>1, <2>1 DEF CreateDraft, TypeOK, Statuses, Revisions, queueVars
  <1>2. CASE Restore(p)
    <2>1. PICK n \in Revisions : /\ revisions[p][n] # None
                                 /\ WriteRevision(p, sourceRevision[p] + 1, revisions[p][n])
      BY <1>2 DEF Restore
    <2>2. sourceRevision[p] + 1 \in Revisions /\ revisions[p][n] \in Texts \cup {None}
      BY <1>2, <2>1 DEF Restore, TypeOK, Revisions
    <2>3. QED
      BY <1>2, <2>1, <2>2 DEF Restore, WriteRevision, TypeOK, Revisions, pubVars, queueVars
  <1>3. CASE Archive(p) \/ Unarchive(p)
    BY <1>3 DEF Archive, Unarchive, ChangeArchiveStatus, TypeOK, Statuses, draftVars, queueVars
  <1>4. CASE EditLocalization(p)
    BY <1>4, LocalizationUpdates DEF EditLocalization, TypeOK, pubVars, draftVars
  <1>5. QED
    BY <1>1, <1>2, <1>3, <1>4 DEF LockedStep

LEMMA WorkerTypes ==
    ASSUME TypeOK, NEW w \in Workers, WorkerStep(w) \/ CrashAndRestart(w)
    PROVE  TypeOK'
  <1> DEFINE Rest == {"publish_due", "requeue_reviews", "requeue_jobs", "next_review", "next_job"}
  <1>a. ASSUME NEW s \in Rest, Goto(w, At(s))
        PROVE  wk' \in [Workers -> WorkerState]
    BY <1>a, StageTypes DEF Goto, TypeOK, Stages
  <1>b. wk[w] \in WorkerState
    BY DEF TypeOK
  <1> HIDE DEF Rest
  <1>1. CASE PublishDue(w)
    <2>1. wk' \in [Workers -> WorkerState]
      BY <1>1, <1>a DEF PublishDue, Rest
    <2>2. jobs' \in [Pubs -> TranslationJob]
      BY <1>1, RowConstants DEF PublishDue, TypeOK
    <2>3. /\ status' \in [Pubs -> Statuses]
          /\ scheduledAt' \in [Pubs -> Schedules]
          /\ publishedAt' \in [Pubs -> BOOLEAN]
      BY <1>1 DEF PublishDue, TypeOK, Statuses, Schedules
    <2>4. QED
      BY <1>1, <2>1, <2>2, <2>3 DEF PublishDue, TypeOK, draftVars
  <1>2. CASE \/ PublishDueFails(w) \/ NoPendingReview(w) \/ NoPendingJob(w) \/ CrashAndRestart(w)
    <2>1. wk' \in [Workers -> WorkerState]
      BY <1>2, <1>a DEF PublishDueFails, NoPendingReview, NoPendingJob, CrashAndRestart, Rest
    <2>2. QED
      BY <1>2, <2>1 DEF PublishDueFails, NoPendingReview, NoPendingJob, CrashAndRestart,
         TypeOK, pubVars, draftVars, queueVars
  <1>3. CASE RequeueReviews(w)
    <2>1. wk' \in [Workers -> WorkerState]
      BY <1>3, <1>a DEF RequeueReviews, Rest
    <2>2. aiReviews' \in [Pubs -> [Revisions -> AiReview]]
      <3>1. aiReviews \in [Pubs -> [Revisions -> AiReview]]
        BY DEF TypeOK
      <3>2. ASSUME NEW p \in Pubs, NEW n \in Revisions
            PROVE  (IF Retryable(aiReviews[p][n])
                    THEN [aiReviews[p][n] EXCEPT !.status = "pending"]
                    ELSE aiReviews[p][n]) \in AiReview
        BY <3>1, ReviewUpdates DEF Retryable
      <3>3. QED
        BY <1>3, <3>2 DEF RequeueReviews
    <2>3. QED
      BY <1>3, <2>1, <2>2 DEF RequeueReviews, TypeOK, pubVars, draftVars
  <1>4. CASE RequeueJobs(w)
    <2>1. wk' \in [Workers -> WorkerState]
      BY <1>4, <1>a DEF RequeueJobs, Rest
    <2>2. jobs' \in [Pubs -> TranslationJob]
      BY <1>4, JobUpdates DEF RequeueJobs, Retryable, TypeOK
    <2>3. QED
      BY <1>4, <2>1, <2>2 DEF RequeueJobs, TypeOK, pubVars, draftVars
  <1>5. CASE ClaimReview(w)
    <2>1. PICK p \in Pubs, n \in Revisions :
            /\ aiReviews[p][n].status = "pending"
            /\ aiReviews' = [aiReviews EXCEPT ![p][n] =
                  [status |-> "reviewing", attempts |-> @.attempts + 1, decision |-> @.decision]]
            /\ Goto(w, [stage |-> "reviewing", pub |-> p, rev |-> n,
                        seenStatus |-> status[p], seenRev |-> sourceRevision[p],
                        seenOrigin |-> "none"])
      BY <1>5 DEF ClaimReview
    <2>2. aiReviews[p][n] \in AiReview
      BY DEF TypeOK
    <2>3. [status |-> "reviewing", attempts |-> aiReviews[p][n].attempts + 1,
           decision |-> aiReviews[p][n].decision] \in AiReview
      BY <2>1, <2>2 DEF AiReview
    <2>4. aiReviews' \in [Pubs -> [Revisions -> AiReview]]
      BY <2>1, <2>3 DEF TypeOK
    <2>5. /\ n \in 0 .. MaxRevision /\ n > 0
          /\ status[p] \in Statuses
          /\ sourceRevision[p] \in 0 .. MaxRevision
      BY DEF Revisions, TypeOK
    <2>6. wk' \in [Workers -> WorkerState]
      BY <2>1, <2>5 DEF Goto, TypeOK, WorkerState, Stages
    <2>7. QED
      BY <1>5, <2>4, <2>6 DEF ClaimReview, TypeOK, pubVars, draftVars
  <1>6. CASE ReviewFails(w)
    <2>1. wk' \in [Workers -> WorkerState]
      BY <1>6, <1>a DEF ReviewFails, Rest
    <2>2. wk[w].pub \in Pubs /\ wk[w].rev \in Revisions
      BY <1>6, <1>b DEF ReviewFails, WorkerState, Revisions
    <2>3. aiReviews' \in [Pubs -> [Revisions -> AiReview]]
      <3> DEFINE r == aiReviews[wk[w].pub][wk[w].rev]
      <3>1. aiReviews \in [Pubs -> [Revisions -> AiReview]] /\ r \in AiReview
        BY <2>2 DEF TypeOK
      <3>2. [r EXCEPT !.status = "failed"] \in AiReview
        BY <3>1, ReviewUpdates
      <3>3. aiReviews' = [aiReviews EXCEPT ![wk[w].pub][wk[w].rev] =
                             [r EXCEPT !.status = "failed"]]
        BY <1>6 DEF ReviewFails
      <3> HIDE DEF r
      <3>4. QED
        BY <2>2, <3>1, <3>2, <3>3, ReviewPuts
    <2>4. QED
      BY <1>6, <2>1, <2>3 DEF ReviewFails, TypeOK, pubVars, draftVars
  <1>7. CASE CompleteReview(w)
    <2>1. wk' \in [Workers -> WorkerState]
      BY <1>7, <1>a DEF CompleteReview, Rest
    <2>2. wk[w].pub \in Pubs /\ wk[w].rev \in Revisions
      BY <1>7, <1>b DEF CompleteReview, WorkerState, Revisions
    <2>3. PICK d \in {"pass", "needs_editor", "block_until_review"} :
             /\ aiReviews' = [aiReviews EXCEPT ![wk[w].pub][wk[w].rev] =
                   [status |-> "completed", attempts |-> @.attempts, decision |-> d]]
             /\ IF Autopublishes(wk[w], d)
                THEN /\ status' = [status EXCEPT ![wk[w].pub] = "published"]
                     /\ publishedAt' = [publishedAt EXCEPT ![wk[w].pub] = TRUE]
                     /\ jobs' = IF HasJob(wk[w].pub) THEN jobs
                                ELSE [jobs EXCEPT ![wk[w].pub] = NewJob]
                ELSE UNCHANGED <<status, publishedAt, jobs>>
      BY <1>7 DEF CompleteReview
    <2>4. aiReviews' \in [Pubs -> [Revisions -> AiReview]]
      <3> DEFINE r == aiReviews[wk[w].pub][wk[w].rev]
                 done == [status |-> "completed", attempts |-> r.attempts, decision |-> d]
      <3>1. aiReviews \in [Pubs -> [Revisions -> AiReview]] /\ r \in AiReview
        BY <2>2 DEF TypeOK
      <3>2. done \in AiReview
        BY <3>1, ReviewUpdates
      <3>3. aiReviews' = [aiReviews EXCEPT ![wk[w].pub][wk[w].rev] = done]
        BY <2>3
      <3> HIDE DEF r, done
      <3>4. QED
        BY <2>2, <3>1, <3>2, <3>3, ReviewPuts
    <2>5. /\ status' \in [Pubs -> Statuses]
          /\ publishedAt' \in [Pubs -> BOOLEAN]
          /\ jobs' \in [Pubs -> TranslationJob]
      <3>1. CASE Autopublishes(wk[w], d)
        <4>1. status' \in [Pubs -> Statuses]
          BY <3>1, <2>2, <2>3 DEF TypeOK, Statuses
        <4>2. publishedAt' \in [Pubs -> BOOLEAN]
          BY <3>1, <2>2, <2>3 DEF TypeOK
        <4>3. jobs' \in [Pubs -> TranslationJob]
          BY <3>1, <2>2, <2>3, RowConstants DEF TypeOK
        <4>4. QED
          BY <4>1, <4>2, <4>3
      <3>2. CASE ~Autopublishes(wk[w], d)
        BY <3>2, <2>3 DEF TypeOK
      <3>3. QED
        BY <3>1, <3>2
    <2>6. QED
      BY <1>7, <2>1, <2>4, <2>5 DEF CompleteReview, TypeOK, draftVars
  <1>8. CASE ClaimJob(w)
    <2>1. PICK p \in Pubs :
            /\ jobs[p].status = "pending"
            /\ jobs' = [jobs EXCEPT ![p] =
                  [status |-> "translating", attempts |-> @.attempts + 1]]
            /\ Goto(w, [stage |-> "translating", pub |-> p, rev |-> 0,
                        seenStatus |-> "absent", seenRev |-> sourceRevision[p],
                        seenOrigin |-> "none"])
      BY <1>8 DEF ClaimJob
    <2>2. jobs[p] \in TranslationJob /\ sourceRevision[p] \in 0 .. MaxRevision
      BY DEF TypeOK
    <2>3. [status |-> "translating", attempts |-> jobs[p].attempts + 1] \in TranslationJob
      BY <2>1, <2>2 DEF TranslationJob
    <2>4. jobs' \in [Pubs -> TranslationJob]
      BY <2>1, <2>3 DEF TypeOK
    <2>5. wk' \in [Workers -> WorkerState]
      BY <2>1, <2>2 DEF Goto, TypeOK, WorkerState, Stages, Statuses
    <2>6. QED
      BY <1>8, <2>4, <2>5 DEF ClaimJob, TypeOK, pubVars, draftVars
  <1>9. CASE TranslationFails(w)
    <2>1. wk' \in [Workers -> WorkerState]
      BY <1>9, <1>a DEF TranslationFails, Rest
    <2>2. jobs' \in [Pubs -> TranslationJob]
      BY <1>9, JobUpdates DEF TranslationFails, TypeOK
    <2>3. QED
      BY <1>9, <2>1, <2>2 DEF TranslationFails, TypeOK, pubVars, draftVars
  <1>10. CASE ReadTarget(w)
    <2>1. translations[wk[w].pub].origin \in {"none", "ai", "human"}
      BY <1>10, <1>b DEF ReadTarget, WorkerState, TypeOK, Localization
    <2>2. wk' \in [Workers -> WorkerState]
      BY <1>10, <1>b, <2>1 DEF ReadTarget, Goto, TypeOK, WorkerState, Stages
    <2>3. QED
      BY <1>10, <2>2 DEF ReadTarget, TypeOK, pubVars, draftVars, queueVars
  <1>11. CASE SaveTranslation(w)
    <2>1. wk' \in [Workers -> WorkerState]
      BY <1>11, <1>a DEF SaveTranslation, Rest
    <2>2. jobs' \in [Pubs -> TranslationJob]
      BY <1>11, JobUpdates DEF SaveTranslation, TypeOK
    <2>3. /\ wk[w].pub \in Pubs
          /\ wk[w].seenRev \in 0 .. MaxRevision
          /\ wk[w].seenOrigin \in {"none", "ai", "human"}
      BY <1>11, <1>b DEF SaveTranslation, WorkerState
    <2>4. Saved(wk[w]) \in Localization
      BY <2>3 DEF Saved, TypeOK, Localization
    <2>5. QED
      BY <1>11, <2>1, <2>2, <2>4 DEF SaveTranslation, TypeOK, pubVars, draftVars
  <1>12. QED
    BY <1>1, <1>2, <1>3, <1>4, <1>5, <1>6, <1>7, <1>8, <1>9, <1>10, <1>11 DEF WorkerStep

LEMMA StepTypes == TypeOK /\ [Next]_vars => TypeOK'
  <1> SUFFICES ASSUME TypeOK, [Next]_vars
               PROVE  TypeOK'
    OBVIOUS
  <1>1. ASSUME NEW p \in Pubs, TimePasses(p)
        PROVE  TypeOK'
    BY <1>1 DEF TimePasses, TypeOK, Schedules, draftVars, queueVars
  <1>2. ASSUME NEW p \in Pubs, ChangeAuthorRole(p)
        PROVE  TypeOK'
    BY <1>2 DEF ChangeAuthorRole, TypeOK, pubVars, draftVars, queueVars
  <1>3. CASE UNCHANGED vars
    BY <1>3 DEF TypeOK, vars, pubVars, draftVars, queueVars
  <1>4. QED
    BY <1>1, <1>2, <1>3, RequestTypes, LockedTypes, WorkerTypes DEF Next

\* Every variable of the editorial core keeps its type, for any number of
\* publications, requests and workers: in particular no queue row ever
\* waits without an attempt left.
THEOREM TypeCorrect == Spec => []TypeOK
  <1>1. QED
    BY InitTypes, StepTypes, PTL DEF Spec
============================================================================
