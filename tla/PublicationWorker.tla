------------------------- MODULE PublicationWorker -------------------------
(***************************************************************************)
(* The background worker (workers/translation.py): run_once publishes what *)
(* is due, puts failed reviews and jobs back in their queues, then takes   *)
(* one AI review and one translation job.  A queue row is claimed in a     *)
(* transaction of its own before the AI provider is called, and the        *)
(* objects loaded after that commit are not refreshed after the call.      *)
(*                                                                         *)
(* Loading the publication and its source is part of the claiming step:    *)
(* nobody else reads or writes a claimed row, so the claim commutes with   *)
(* whatever commits before the load; and source_revision never decreases,  *)
(* so the status and the revision the route compares could both have been  *)
(* read at the earlier of the two SELECTs.  The queues are served in any   *)
(* order: created_at is the start of the inserting transaction, not the    *)
(* order of the commits.  A publication cannot be deleted, so the branches *)
(* for a vanished publication or source are left out.                      *)
(***************************************************************************)
EXTENDS PublicationStore

Goto(w, s) == wk' = [wk EXCEPT ![w] = s]

----------------------------------------------------------------------------
(* services/scheduling.py: publish_due_publications *)

DuePubs == {p \in Pubs : IsDue(p)}

\* One transaction publishes the due rows and inserts a job for each.  SKIP
\* LOCKED leaves out rows that a commit under way holds; a round in which all
\* are held is one before they are due.
PublishDue(w) ==
    /\ wk[w].stage = "publish_due"
    /\ \E S \in SUBSET DuePubs :
          /\ DuePubs # {} => S # {}
          /\ \A p \in S : ~HasJob(p)
          /\ status' = [p \in Pubs |-> IF p \in S THEN "published" ELSE status[p]]
          /\ publishedAt' = [p \in Pubs |-> publishedAt[p] \/ p \in S]
          /\ scheduledAt' = [p \in Pubs |-> IF p \in S THEN "none" ELSE scheduledAt[p]]
          /\ jobs' = [p \in Pubs |-> IF p \in S THEN NewJob ELSE jobs[p]]
    /\ Goto(w, At("requeue_reviews"))
    /\ UNCHANGED <<lastAudit, draftVars, items, aiReviews, translations, verified, req>>

\* A due row that already has a job: the insert fails, the whole batch rolls
\* back, the process dies and systemd starts it again.
PublishDueFails(w) ==
    /\ wk[w].stage = "publish_due"
    /\ \E p \in DuePubs : HasJob(p)
    /\ Goto(w, At("publish_due"))
    /\ UNCHANGED <<pubVars, draftVars, items, queueVars, verified, req>>

----------------------------------------------------------------------------
(* services/ai_reviews.py *)

\* Mutants: no limit; a limit off by one, either way; rows a dead worker
\* left behind are tried again.
RetryableForever(row) == row.status = "failed"
RetryableOnceMore(row) == row.status = "failed" /\ row.attempts <= MaxAttempts
RetryableOnceLess(row) == row.status = "failed" /\ row.attempts + 1 < MaxAttempts
RetryableIfStuck(row) == /\ row.status \in {"failed", "reviewing", "translating"}
                         /\ row.attempts < MaxAttempts
Retryable(row) == row.status = "failed" /\ row.attempts < MaxAttempts

RequeueReviews(w) ==
    /\ wk[w].stage = "requeue_reviews"
    /\ aiReviews' = [p \in Pubs |-> [n \in Revisions |->
          IF Retryable(aiReviews[p][n])
          THEN [aiReviews[p][n] EXCEPT !.status = "pending"]
          ELSE aiReviews[p][n]]]
    /\ Goto(w, At("requeue_jobs"))
    /\ UNCHANGED <<pubVars, draftVars, items, jobs, translations, verified, req>>

NoPendingReview(w) ==
    /\ wk[w].stage = "next_review"
    /\ \A p \in Pubs, n \in Revisions : aiReviews[p][n].status # "pending"
    /\ Goto(w, At("next_job"))
    /\ UNCHANGED <<pubVars, draftVars, items, queueVars, verified, req>>

ClaimReview(w) ==
    /\ wk[w].stage = "next_review"
    /\ \E p \in Pubs, n \in Revisions :
          /\ aiReviews[p][n].status = "pending"
          /\ aiReviews' = [aiReviews EXCEPT ![p][n] =
                [status |-> "reviewing", attempts |-> @.attempts + 1, decision |-> @.decision]]
          /\ Goto(w, [stage |-> "reviewing", pub |-> p, rev |-> n,
                      seenStatus |-> status[p], seenRev |-> sourceRevision[p],
                      seenOrigin |-> "none"])
    /\ UNCHANGED <<pubVars, draftVars, items, jobs, translations, verified, req>>

\* The provider raised an error.
ReviewFails(w) ==
    /\ wk[w].stage = "reviewing"
    /\ aiReviews' = [aiReviews EXCEPT ![wk[w].pub][wk[w].rev] =
          [@ EXCEPT !.status = "failed"]]
    /\ Goto(w, At("next_job"))
    /\ UNCHANGED <<pubVars, draftVars, items, jobs, translations, verified, req>>

\* route_completed_review: the revision and the status are those loaded
\* before the call, the author's roles are read now.
\* Mutant: anything but a block publishes.
AutopublishesUnlessBlocked(v, decision) ==
    /\ decision # "block_until_review"
    /\ v.rev = v.seenRev
    /\ v.seenStatus = "editorial_review"
    /\ v.pub \in verified
Autopublishes(v, decision) ==
    /\ decision = "pass"
    /\ v.rev = v.seenRev
    /\ v.seenStatus = "editorial_review"
    /\ v.pub \in verified

\* The result and the route are one transaction.  The job is looked up after
\* the publication row is locked by its UPDATE.
CompleteReview(w) ==
    LET p == wk[w].pub
    IN  /\ wk[w].stage = "reviewing"
        /\ \E d \in {"pass", "needs_editor", "block_until_review"} :
              /\ aiReviews' = [aiReviews EXCEPT ![p][wk[w].rev] =
                    [status |-> "completed", attempts |-> @.attempts, decision |-> d]]
              /\ IF Autopublishes(wk[w], d)
                 THEN /\ status' = [status EXCEPT ![p] = "published"]
                      /\ publishedAt' = [publishedAt EXCEPT ![p] = TRUE]
                      /\ jobs' = IF HasJob(p) THEN jobs ELSE [jobs EXCEPT ![p] = NewJob]
                 ELSE UNCHANGED <<status, publishedAt, jobs>>
        /\ Goto(w, At("next_job"))
        /\ UNCHANGED <<scheduledAt, lastAudit, draftVars, items, translations,
                       verified, req>>

----------------------------------------------------------------------------
(* services/translations.py *)

RequeueJobs(w) ==
    /\ wk[w].stage = "requeue_jobs"
    /\ jobs' = [p \in Pubs |->
          IF Retryable(jobs[p])
          THEN [jobs[p] EXCEPT !.status = "pending"]
          ELSE jobs[p]]
    /\ Goto(w, At("next_review"))
    /\ UNCHANGED <<pubVars, draftVars, items, aiReviews, translations, verified, req>>

NoPendingJob(w) ==
    /\ wk[w].stage = "next_job"
    /\ \A p \in Pubs : jobs[p].status # "pending"
    /\ Goto(w, At("publish_due"))
    /\ UNCHANGED <<pubVars, draftVars, items, queueVars, verified, req>>

ClaimJob(w) ==
    /\ wk[w].stage = "next_job"
    /\ \E p \in Pubs :
          /\ jobs[p].status = "pending"
          /\ jobs' = [jobs EXCEPT ![p] =
                [status |-> "translating", attempts |-> @.attempts + 1]]
          /\ Goto(w, [stage |-> "translating", pub |-> p, rev |-> 0,
                      seenStatus |-> "absent", seenRev |-> sourceRevision[p],
                      seenOrigin |-> "none"])
    /\ UNCHANGED <<pubVars, draftVars, items, aiReviews, translations, verified, req>>

TranslationFails(w) ==
    /\ wk[w].stage = "translating"
    /\ jobs' = [jobs EXCEPT ![wk[w].pub] = [@ EXCEPT !.status = "failed"]]
    /\ Goto(w, At("publish_due"))
    /\ UNCHANGED <<pubVars, draftVars, items, aiReviews, translations, verified, req>>

\* The provider answered; the target localization is looked up.
ReadTarget(w) ==
    /\ wk[w].stage = "translating"
    /\ Goto(w, [wk[w] EXCEPT !.stage = "saving",
                             !.seenOrigin = translations[wk[w].pub].origin])
    /\ UNCHANGED <<pubVars, draftVars, items, queueVars, verified, req>>

\* Inserts the localization (one per locale), updates one that was seen to
\* be machine-made, leaves one that was seen to be human alone.
Saved(v) ==
    CASE v.seenOrigin = "none"  -> [origin |-> "ai", rev |-> v.seenRev]
      [] v.seenOrigin = "ai"    -> [origin |-> translations[v.pub].origin, rev |-> v.seenRev]
      [] v.seenOrigin = "human" -> translations[v.pub]

SaveTranslation(w) ==
    LET p == wk[w].pub
    IN  /\ wk[w].stage = "saving"
        /\ wk[w].seenOrigin = "none" => translations[p].origin = "none"
        /\ translations' = [translations EXCEPT ![p] = Saved(wk[w])]
        /\ jobs' = [jobs EXCEPT ![p] = [@ EXCEPT !.status = "ready"]]
        /\ Goto(w, At("publish_due"))
        /\ UNCHANGED <<pubVars, draftVars, items, aiReviews, verified, req>>

----------------------------------------------------------------------------
\* The process dies between two transactions and systemd (Restart=always)
\* starts it again: a claimed row stays claimed.
CrashAndRestart(w) ==
    /\ Crashes
    /\ wk[w].stage # "publish_due"
    /\ Goto(w, At("publish_due"))
    /\ UNCHANGED <<pubVars, draftVars, items, queueVars, verified, req>>
============================================================================
