----------------------------- MODULE Editorial -----------------------------
(***************************************************************************)
(* The editorial core: the API's handlers and the worker processes over    *)
(* one database, with the clock and the administration of the author role. *)
(***************************************************************************)
EXTENDS Publications, PublicationWorker

\* The clock passes scheduled_at.
TimePasses(p) ==
    /\ scheduledAt[p] = "future"
    /\ scheduledAt' = [scheduledAt EXCEPT ![p] = "due"]
    /\ UNCHANGED <<status, publishedAt, lastAudit, draftVars, items, queueVars,
                   verified, req, wk>>

\* An administrator grants or revokes the author role of p's author.
ChangeAuthorRole(p) ==
    /\ p \in Verifiable
    /\ verified' = IF p \in verified THEN verified \ {p} ELSE verified \cup {p}
    /\ UNCHANGED <<pubVars, draftVars, items, queueVars, req, wk>>

RequestStep(c) ==
    \/ \E p \in Pubs : \/ BeginUpdate(c, p)
                       \/ BeginSubmit(c, p)
                       \/ BeginDecision(c, p)
                       \/ BeginItems(c, p)
    \/ CommitUpdate(c)
    \/ CheckHasItems(c)
    \/ CommitSubmit(c)
    \/ CommitDecision(c)
    \/ SelectItems(c)
    \/ CommitItems(c)
    \/ AbortRequest(c)

LockedStep(p) ==
    \/ CreateDraft(p)
    \/ Restore(p)
    \/ Archive(p)
    \/ Unarchive(p)
    \/ EditLocalization(p)

\* The worker's own steps: everything but dying.
WorkerStep(w) ==
    \/ PublishDue(w)
    \/ PublishDueFails(w)
    \/ RequeueReviews(w)
    \/ RequeueJobs(w)
    \/ NoPendingReview(w)
    \/ ClaimReview(w)
    \/ ReviewFails(w)
    \/ CompleteReview(w)
    \/ NoPendingJob(w)
    \/ ClaimJob(w)
    \/ TranslationFails(w)
    \/ ReadTarget(w)
    \/ SaveTranslation(w)

Next ==
    \/ \E c \in Clients : RequestStep(c)
    \/ \E p \in Pubs : LockedStep(p) \/ TimePasses(p) \/ ChangeAuthorRole(p)
    \/ \E w \in Workers : WorkerStep(w) \/ CrashAndRestart(w)

Spec == Init /\ [][Next]_vars

----------------------------------------------------------------------------
(* Safety: what holds under every interleaving *)

\* The revisions of a publication are exactly 1 .. source_revision and the
\* current text is the last of them, however author requests overlap.
RevisionHistory ==
    \A p \in Pubs :
        /\ \A n \in Revisions : revisions[p][n] # None <=> n <= sourceRevision[p]
        /\ sourceRevision[p] > 0 => text[p] = revisions[p][sourceRevision[p]]

\* A translation is enqueued when a publication is first published, and only
\* then, whichever of the three publishing paths race.
PublishedOnce == \A p \in Pubs : publishedAt[p] <=> HasJob(p)

\* What readers see, or saw before it was archived, has a publication date.
ShownIsDated ==
    \A p \in Pubs : status[p] \in {"published", "archived"} => publishedAt[p]

HasPassed(p) ==
    \E n \in Revisions : /\ aiReviews[p][n].status = "completed"
                         /\ aiReviews[p][n].decision = "pass"

\* The status is the one the audit trail of editorial decisions ends in,
\* except for a publication the worker published: on the schedule an editor
\* set, or on an AI review that passed.
AuditExplainsStatus ==
    \A p \in Pubs :
        \/ status[p] = lastAudit[p]
        \/ status[p] = "published" /\ (lastAudit[p] = "scheduled" \/ HasPassed(p))

HasReview(p) == \E n \in Revisions : aiReviews[p][n].status # "none"

\* Only revisions that were written are reviewed, and a material leaves its
\* author's hands only with a review row.
ReviewsBelongToRevisions ==
    \A p \in Pubs :
        /\ \A n \in Revisions : aiReviews[p][n].status # "none" => n <= sourceRevision[p]
        /\ status[p] \notin {"absent", "draft"} => HasReview(p)

HoldsReview(w, p, n) == wk[w].stage = "reviewing" /\ wk[w].pub = p /\ wk[w].rev = n

HoldsJob(w, p) == wk[w].stage \in {"translating", "saving"} /\ wk[w].pub = p

\* Two workers never process the same queue row, and a row being processed is
\* marked so, which keeps every requeue and claim away from it.
ExclusiveClaims ==
    \A w \in Workers, p \in Pubs :
        /\ \A n \in Revisions :
              HoldsReview(w, p, n) =>
                 /\ aiReviews[p][n].status = "reviewing"
                 /\ \A u \in Workers : HoldsReview(u, p, n) => u = w
        /\ HoldsJob(w, p) =>
              /\ jobs[p].status = "translating"
              /\ \A u \in Workers : HoldsJob(u, p) => u = w

\* What the scheduler finds due has no translation job, so inserting one never
\* fails the batch (publish_due_publications).  This is not so when a decision
\* commits on a status that is no longer the one it was checked against.
SchedulerRuns == \A p \in Pubs : IsDue(p) => ~ HasJob(p)

\* A translation exists exactly when its job is ready, so no worker is ever
\* about to write over one, made by hand or not.
TranslationIffReady ==
    \A p \in Pubs : /\ translations[p].origin # "none" <=> jobs[p].status = "ready"
                    /\ translations[p].rev <= sourceRevision[p]

\* What a request or a worker carries across its gap is a past of the row,
\* never a future: its revision exists and is at most the current one, a
\* decision is about a material that was submitted, and a worker about to
\* save found no translation.
SnapshotsAreOld ==
    /\ \A p \in Pubs : status[p] = "absent" <=> sourceRevision[p] = 0
    /\ \A c \in Clients : req[c].op # "none" =>
          /\ req[c].rev \in 1 .. sourceRevision[req[c].pub]
          /\ req[c].op = "decide" => HasReview(req[c].pub)
    /\ \A w \in Workers : wk[w].stage \in {"reviewing", "translating", "saving"} =>
          /\ wk[w].seenRev <= sourceRevision[wk[w].pub]
          /\ wk[w].stage = "saving" => wk[w].seenOrigin = "none"

\* The inductive invariant: each part but the first two needs another one.
IInv ==
    /\ TypeOK
    /\ SnapshotsAreOld
    /\ RevisionHistory
    /\ ReviewsBelongToRevisions
    /\ ExclusiveClaims
    /\ TranslationIffReady
    /\ PublishedOnce
    /\ ShownIsDated
    /\ AuditExplainsStatus

----------------------------------------------------------------------------
(* Refinement *)

Log == INSTANCE RevisionLog WITH
          length <- sourceRevision, entries <- revisions, current <- text

\* Whatever author requests overlap, each one that succeeds appends one
\* revision to the history and none rewrites it.
ImplementsRevisionLog == Log!Spec

ReviewQueue == INSTANCE JobQueue WITH
    Jobs     <- Pubs \X Revisions,
    state    <- [j \in Pubs \X Revisions |->
                   CASE aiReviews[j[1]][j[2]].status = "reviewing" -> "running"
                     [] aiReviews[j[1]][j[2]].status = "completed" -> "done"
                     [] OTHER -> aiReviews[j[1]][j[2]].status],
    attempts <- [j \in Pubs \X Revisions |-> aiReviews[j[1]][j[2]].attempts]

\* The AI reviews are a job queue: one review per revision, retried a bounded
\* number of times, its result recorded once.
ImplementsReviewQueue == ReviewQueue!Spec

TranslationQueue == INSTANCE JobQueue WITH
    Jobs     <- Pubs,
    state    <- [p \in Pubs |->
                   CASE jobs[p].status = "translating" -> "running"
                     [] jobs[p].status = "ready" -> "done"
                     [] OTHER -> jobs[p].status],
    attempts <- [p \in Pubs |-> jobs[p].attempts]

\* The translation jobs are a job queue, enqueued by three handlers and
\* processed by the workers.
ImplementsTranslationQueue == TranslationQueue!Spec

Materials == INSTANCE PublishedMaterials WITH
    published  <- {p \in Pubs : status[p] = "published"},
    dated      <- {p \in Pubs : publishedAt[p]},
    translated <- {p \in Pubs : translations[p].origin # "none"}

\* Whatever editors, authors and workers do at once, the rest of the system
\* sees materials published, withdrawn and translated as it may expect: a
\* date of publication is never taken back, nothing is shown without one, and
\* nothing is translated that was never published.
ImplementsMaterials == Materials!Spec

----------------------------------------------------------------------------
(* What a step may never do *)

PublishesAfterReview(w) ==
    /\ wk[w].stage = "reviewing"
    /\ wk'[w].stage # "reviewing"
    /\ status'[wk[w].pub] # status[wk[w].pub]

\* An AI review publishes only the material it was asked about: still under
\* editorial review, at the revision reviewed, by an author verified now.
AutopublishCurrent ==
    [][\A w \in Workers : PublishesAfterReview(w) =>
          /\ status[wk[w].pub] = "editorial_review"
          /\ sourceRevision[wk[w].pub] = wk[w].rev
          /\ wk[w].pub \in verified]_vars

\* A material that readers can see leaves their sight only into the archive.
\* A submission or a decision that read its row earlier takes it back.
PublishedStays ==
    [][\A p \in Pubs : status[p] \in {"published", "archived"} =>
          status'[p] \in {"published", "archived"}]_vars

\* The scheduler never finds it.
Stranded(p) == status[p] = "scheduled" /\ scheduledAt[p] = "none"

\* A material is left waiting for the scheduler without a time, and so for
\* ever, only by a race: the decision that scheduled it had loaded that same
\* time and so did not write it, and another one took it back meanwhile.
TimeIsLostInARace ==
    [][\A p \in Pubs : Stranded(p)' /\ ~Stranded(p) =>
          \E c \in Clients : /\ req[c].op = "decide" /\ req[c].pub = p
                             /\ req[c].at = "future" /\ scheduledAt[p] = "none"]_vars

\* A digest contains only materials that have been published, however its
\* replacement overlaps edits, submissions and other replacements.
DigestItemsWerePublished ==
    \A d \in Pubs : \A p \in items[d] : publishedAt[p]

----------------------------------------------------------------------------
(* What would be so if rows were locked or loaded again *)

\* Every submission and every decision commits on the status it was checked
\* against, and finds a time if it has loaded one, as under FOR UPDATE.
FreshCommits ==
    \A c \in Clients :
        /\ CommitSubmit(c) => Editable(req[c].pub)
        /\ CommitDecision(c) =>
              /\ status[req[c].pub] = "editorial_review"
              /\ req[c].at # "none" => scheduledAt[req[c].pub] # "none"

\* The worker routes a review by the publication and the source as they are
\* when the answer is stored.
FreshRoutes ==
    \A w \in Workers :
        CompleteReview(w) => /\ wk[w].seenStatus = status[wk[w].pub]
                             /\ wk[w].seenRev = sourceRevision[wk[w].pub]

----------------------------------------------------------------------------
(* Progress.  The worker is a loop under Restart=always and its calls end   *)
(* in an answer or an error; nothing is assumed of the users.               *)

FairSpec ==
    /\ Spec
    /\ \A w \in Workers : WF_vars(WorkerStep(w))
    /\ \A p \in Pubs : WF_vars(TimePasses(p))

\* A scheduled material is published.
ScheduledIsPublished ==
    \A p \in Pubs : status[p] = "scheduled" ~> status[p] = "published"

\* A material whose time has come does not wait for the scheduler for ever.
DueIsTaken == \A p \in Pubs : IsDue(p) ~> ~IsDue(p)

Settled(job, done) ==
    \/ job.status = done
    \/ job.status = "failed" /\ job.attempts = MaxAttempts

\* Every review and every translation job ends: done, or out of attempts.
QueuesSettle ==
    \A p \in Pubs :
        /\ HasJob(p) ~> Settled(jobs[p], "ready")
        /\ \A n \in Revisions :
              aiReviews[p][n].status # "none" ~> Settled(aiReviews[p][n], "completed")
============================================================================
