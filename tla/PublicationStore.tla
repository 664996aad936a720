------------------------- MODULE PublicationStore -------------------------
(***************************************************************************)
(* The database tables of the editorial core (models/publications.py) and  *)
(* the local state of the two kinds of process that write them: the HTTP   *)
(* handlers of the API and the background worker.  A row is a value of a   *)
(* function over its key; an absent row has the status "none" (or          *)
(* "absent" for a publication), an absent text is None.                    *)
(*                                                                         *)
(* Texts abstracts everything an author writes in one request: title,      *)
(* summary, body, category, game, score and content type.  DigestTexts are *)
(* those whose content type is "digest".                                   *)
(***************************************************************************)
EXTENDS Naturals, FiniteSets

CONSTANTS
    Pubs,         \* publications
    Texts,        \* what an author may write
    DigestTexts,  \* the texts with content_type "digest"
    Verifiable,   \* publications whose author may be given the author role
    Clients,      \* HTTP requests in flight at once
    Workers,      \* worker processes
    MaxRevision,  \* bound: revisions of one publication
    MaxAttempts,  \* max_attempts of the requeue functions
    Crashes,      \* whether worker processes may die
    None          \* SQL NULL / no row

ASSUME StoreAssumption ==
    /\ DigestTexts \subseteq Texts
    /\ Verifiable \subseteq Pubs
    /\ MaxRevision \in Nat \ {0}
    /\ MaxAttempts \in Nat \ {0}
    /\ Crashes \in BOOLEAN
    /\ None \notin Texts \cup Pubs

VARIABLES
    status,          \* publications.status
    scheduledAt,     \* publications.scheduled_at, against the clock
    publishedAt,     \* publications.published_at is set
    text,            \* current source text, with the metadata columns
    sourceRevision,  \* source_revision of the source localization
    revisions,       \* publication_revisions, by revision_number
    items,           \* digest_publications of a digest
    lastAudit,       \* to_status of the last publication_editorial_reviews row
    aiReviews,       \* publication_ai_reviews, by source_revision
    jobs,            \* translation_jobs (one target locale per publication)
    translations,    \* the localization in the other locale
    verified,        \* publications whose author holds the author role
    req,             \* what each request in flight has read
    wk               \* where each worker is and what it has read

pubVars == <<status, scheduledAt, publishedAt, lastAudit>>
draftVars == <<text, sourceRevision, revisions>>
queueVars == <<aiReviews, jobs, translations>>
vars == <<pubVars, draftVars, items, queueVars, verified, req, wk>>

----------------------------------------------------------------------------
(* Types *)

Statuses == {"absent", "draft", "editorial_review", "changes_requested",
             "scheduled", "published", "archived", "rejected"}

\* scheduled_at is NULL, later than now, or not later than now.
Schedules == {"none", "future", "due"}

Revisions == 1 .. MaxRevision

\* A row waiting in a queue has attempts left.
AiReview ==
    {r \in [status   : {"none", "pending", "reviewing", "failed", "completed"},
            attempts : 0 .. MaxAttempts,
            decision : {"none", "pass", "needs_editor", "block_until_review"}] :
        r.status \in {"none", "pending"} => r.attempts < MaxAttempts}

TranslationJob ==
    {r \in [status   : {"none", "pending", "translating", "failed", "ready"},
            attempts : 0 .. MaxAttempts] :
        r.status \in {"none", "pending"} => r.attempts < MaxAttempts}

Localization == [origin : {"none", "ai", "human"}, rev : 0 .. MaxRevision]

\* What a handler without row locks keeps between its SELECT and its COMMIT.
Request ==
    {r \in [op    : {"none", "update", "submit_digest", "submit", "decide", "items"},
            pub   : Pubs \cup {None},
            rev   : 0 .. MaxRevision,
            at    : Schedules,
            items : SUBSET Pubs] :
        /\ r.op # "none" => r.pub \in Pubs
        /\ r.op = "update" => r.rev < MaxRevision}

NoRequest == [op |-> "none", pub |-> None, rev |-> 0, at |-> "none", items |-> {}]

\* The stages of run_once, and the row and snapshots a stage holds.
Stages == {"publish_due", "requeue_reviews", "requeue_jobs", "next_review",
           "reviewing", "next_job", "translating", "saving"}

WorkerState ==
    {v \in [stage      : Stages,
            pub        : Pubs \cup {None},
            rev        : 0 .. MaxRevision,
            seenStatus : Statuses,
            seenRev    : 0 .. MaxRevision,
            seenOrigin : {"none", "ai", "human"}] :
        /\ v.stage \in {"reviewing", "translating", "saving"} => v.pub \in Pubs
        /\ v.stage = "reviewing" => v.rev > 0}

At(stage) == [stage |-> stage, pub |-> None, rev |-> 0,
              seenStatus |-> "absent", seenRev |-> 0, seenOrigin |-> "none"]

NoReview == [status |-> "none", attempts |-> 0, decision |-> "none"]
\* Mutant: submitting adds no review.
NewReviewForgotten == NoReview
NewReview == [NoReview EXCEPT !.status = "pending"]
NoJob == [status |-> "none", attempts |-> 0]
\* Mutant: publishing adds no job.
NewJobForgotten == NoJob
NewJob == [NoJob EXCEPT !.status = "pending"]
NoLocalization == [origin |-> "none", rev |-> 0]

\* Every variable has its type: rows have the columns of the models.
TypeOK ==
    /\ status \in [Pubs -> Statuses]
    /\ scheduledAt \in [Pubs -> Schedules]
    /\ publishedAt \in [Pubs -> BOOLEAN]
    /\ text \in [Pubs -> Texts \cup {None}]
    /\ sourceRevision \in [Pubs -> 0 .. MaxRevision]
    /\ revisions \in [Pubs -> [Revisions -> Texts \cup {None}]]
    /\ items \in [Pubs -> SUBSET Pubs]
    /\ lastAudit \in [Pubs -> Statuses]
    /\ aiReviews \in [Pubs -> [Revisions -> AiReview]]
    /\ jobs \in [Pubs -> TranslationJob]
    /\ translations \in [Pubs -> Localization]
    /\ verified \in SUBSET Pubs
    /\ req \in [Clients -> Request]
    /\ wk \in [Workers -> WorkerState]

Init ==
    /\ status = [p \in Pubs |-> "absent"]
    /\ scheduledAt = [p \in Pubs |-> "none"]
    /\ publishedAt = [p \in Pubs |-> FALSE]
    /\ text = [p \in Pubs |-> None]
    /\ sourceRevision = [p \in Pubs |-> 0]
    /\ revisions = [p \in Pubs |-> [n \in Revisions |-> None]]
    /\ items = [p \in Pubs |-> {}]
    /\ lastAudit = [p \in Pubs |-> "absent"]
    /\ aiReviews = [p \in Pubs |-> [n \in Revisions |-> NoReview]]
    /\ jobs = [p \in Pubs |-> NoJob]
    /\ translations = [p \in Pubs |-> NoLocalization]
    /\ verified = {}
    /\ req = [c \in Clients |-> NoRequest]
    /\ wk = [w \in Workers |-> At("publish_due")]

----------------------------------------------------------------------------
(* Row predicates shared by the handlers and the worker. *)

Editable(p) == status[p] \in {"draft", "changes_requested"}

IsDigest(p) == text[p] \in DigestTexts

\* Mutant: a job that is no longer pending is overlooked.
HasPendingJob(p) == jobs[p].status = "pending"
HasJob(p) == jobs[p].status # "none"

\* Mutant: the comparison with the clock is the wrong way round.
IsDueBackwards(p) == status[p] = "scheduled" /\ scheduledAt[p] = "future"
IsDue(p) == status[p] = "scheduled" /\ scheduledAt[p] = "due"
============================================================================
