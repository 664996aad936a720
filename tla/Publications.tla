--------------------------- MODULE Publications ---------------------------
(***************************************************************************)
(* The handlers of api/routes/publications.py that change a publication.   *)
(*                                                                         *)
(* update_draft, submit_draft, make_editorial_decision and                 *)
(* replace_digest_items SELECT without a lock and write at COMMIT what     *)
(* they computed from the rows they read, so each SELECT is a step that    *)
(* reads and checks, and Commit writes.  Anything may commit in between.   *)
(* The only checks left at COMMIT are the UNIQUE constraints, which are    *)
(* guards of the Commit step; where one fails the transaction rolls back,  *)
(* which is AbortRequest.  SQLAlchemy updates only the columns whose value *)
(* differs from the one it loaded.                                         *)
(*                                                                         *)
(* restore_publication_revision and change_archive_status lock the         *)
(* publication row (FOR UPDATE) from their SELECT to their COMMIT.  Every  *)
(* transaction that changes what they read either updates that row or      *)
(* inserts a row that references it, and so waits for them: each is one    *)
(* step.  A deadlock the database breaks is an AbortRequest.               *)
(*                                                                         *)
(* Only authorised requests are modelled.                                  *)
(***************************************************************************)
EXTENDS PublicationStore

Idle(c) == req[c].op = "none"

CreateDraft(p) ==
    /\ status[p] = "absent"
    /\ \E t \in Texts :
          /\ text' = [text EXCEPT ![p] = t]
          /\ revisions' = [revisions EXCEPT ![p][1] = t]
    /\ status' = [status EXCEPT ![p] = "draft"]
    /\ lastAudit' = [lastAudit EXCEPT ![p] = "draft"]
    /\ sourceRevision' = [sourceRevision EXCEPT ![p] = 1]
    /\ UNCHANGED <<scheduledAt, publishedAt, items, queueVars, verified, req, wk>>

\* The columns of p a handler has read.
Read(op, p) == [op |-> op, pub |-> p, rev |-> sourceRevision[p],
                at |-> scheduledAt[p], items |-> {}]

Begin(c, r) ==
    /\ Idle(c)
    /\ req' = [req EXCEPT ![c] = r]
    /\ UNCHANGED <<pubVars, draftVars, items, queueVars, verified, wk>>

Done(c) == req' = [req EXCEPT ![c] = NoRequest]

\* A validation error, a unique violation, a broken deadlock or a client
\* that went away: the transaction rolls back.
AbortRequest(c) ==
    /\ ~Idle(c)
    /\ Done(c)
    /\ UNCHANGED <<pubVars, draftVars, items, queueVars, verified, wk>>

----------------------------------------------------------------------------
(* The author's side *)

\* Writes t as the text and as revision n, which must not exist yet.
\* Mutants: the revision keeps the text from before the edit; no unique
\* constraint on (publication_id, revision_number).
WriteRevisionOfOldText(p, n, t) ==
    /\ revisions[p][n] = None
    /\ text' = [text EXCEPT ![p] = t]
    /\ sourceRevision' = [sourceRevision EXCEPT ![p] = n]
    /\ revisions' = [revisions EXCEPT ![p][n] = text[p]]
WriteRevisionOver(p, n, t) ==
    /\ text' = [text EXCEPT ![p] = t]
    /\ sourceRevision' = [sourceRevision EXCEPT ![p] = n]
    /\ revisions' = [revisions EXCEPT ![p][n] = t]
WriteRevision(p, n, t) ==
    /\ revisions[p][n] = None
    /\ text' = [text EXCEPT ![p] = t]
    /\ sourceRevision' = [sourceRevision EXCEPT ![p] = n]
    /\ revisions' = [revisions EXCEPT ![p][n] = t]

BeginUpdate(c, p) ==
    /\ Editable(p)
    /\ sourceRevision[p] < MaxRevision
    /\ Begin(c, Read("update", p))

CommitUpdate(c) ==
    /\ req[c].op = "update"
    /\ \E t \in Texts : WriteRevision(req[c].pub, req[c].rev + 1, t)
    /\ Done(c)
    /\ UNCHANGED <<pubVars, items, queueVars, verified, wk>>

Restore(p) ==
    /\ Editable(p)
    /\ sourceRevision[p] < MaxRevision
    /\ \E n \in Revisions :
          /\ revisions[p][n] # None
          /\ WriteRevision(p, sourceRevision[p] + 1, revisions[p][n])
    /\ UNCHANGED <<pubVars, items, queueVars, verified, req, wk>>

BeginSubmit(c, p) ==
    /\ Editable(p)
    /\ Begin(c, Read(IF IsDigest(p) THEN "submit_digest" ELSE "submit", p))

\* The second SELECT, for what was a digest at the first.
CheckHasItems(c) ==
    /\ req[c].op = "submit_digest"
    /\ items[req[c].pub] # {}
    /\ req' = [req EXCEPT ![c].op = "submit"]
    /\ UNCHANGED <<pubVars, draftVars, items, queueVars, verified, wk>>

\* One AI review per (publication, source_revision).
CommitSubmit(c) ==
    LET p == req[c].pub
        n == req[c].rev
    IN  /\ req[c].op = "submit"
        /\ aiReviews[p][n].status = "none"
        /\ status' = [status EXCEPT ![p] = "editorial_review"]
        /\ aiReviews' = [aiReviews EXCEPT ![p][n] = NewReview]
        /\ lastAudit' = [lastAudit EXCEPT ![p] = "editorial_review"]
        /\ Done(c)
        /\ UNCHANGED <<scheduledAt, publishedAt, draftVars, items, jobs,
                       translations, verified, wk>>

\* Mutant: any material may be selected.
SelectableUnchecked == {p \in Pubs : status[p] # "absent" /\ ~IsDigest(p)}
Selectable == {p \in Pubs : status[p] = "published" /\ ~IsDigest(p)}

BeginItems(c, d) ==
    /\ Editable(d)
    /\ IsDigest(d)
    /\ Begin(c, Read("items", d))

\* The materials are looked at after the digest, which may have become one of
\* them meanwhile.
SelectItems(c) ==
    /\ req[c].op = "items"
    /\ req[c].items = {}
    /\ \E chosen \in (SUBSET Selectable) \ {{}} :
          req' = [req EXCEPT ![c].items = chosen]
    /\ UNCHANGED <<pubVars, draftVars, items, queueVars, verified, wk>>

\* The unique position lets one of two overlapping replacements through, so
\* the surviving rows are those of one request.
CommitItems(c) ==
    /\ req[c].op = "items"
    /\ req[c].items # {}
    /\ items' = [items EXCEPT ![req[c].pub] = req[c].items]
    /\ Done(c)
    /\ UNCHANGED <<pubVars, draftVars, queueVars, verified, wk>>

----------------------------------------------------------------------------
(* The editor's side *)

\* Mutant: the status is not checked.
BeginAnyDecision(c, p) ==
    /\ status[p] # "absent"
    /\ Begin(c, Read("decide", p))
BeginDecision(c, p) ==
    /\ status[p] = "editorial_review"
    /\ Begin(c, Read("decide", p))

\* resolve_editorial_decision
Resolved(decision) ==
    CASE decision = "schedule"        -> "scheduled"
      [] decision = "publish"         -> "published"
      [] decision = "reject"          -> "rejected"
      [] decision = "request_changes" -> "changes_requested"

Decisions == {"schedule", "publish", "reject", "request_changes"}

\* scheduled_at afterwards: what is written is a value that differs from the
\* one that was loaded, so NULL only over a time, and a time (checked to be
\* still to come) not over the same one.
\* Mutant: the time of a first schedule is not stored.
NewScheduleLost(r, decision) ==
    IF r.at = "none" THEN {scheduledAt[r.pub]}
    ELSE IF decision = "schedule" THEN {"future"}
    ELSE {"none"}
NewSchedule(r, decision) ==
    IF decision = "schedule"
    THEN {"future"} \cup (IF r.at = "future" THEN {scheduledAt[r.pub]} ELSE {})
    ELSE {IF r.at = "none" THEN scheduledAt[r.pub] ELSE "none"}

\* published_at is written only by a decision to publish.
\* Mutant: every other decision clears it.
DatedByDecision(p, decision) == decision = "publish"
Dated(p, decision) == publishedAt[p] \/ decision = "publish"

\* Publishing inserts the translation job of the other locale, one per
\* publication.
CommitDecision(c) ==
    LET p == req[c].pub
    IN  /\ req[c].op = "decide"
        /\ \E d \in Decisions : \E at \in NewSchedule(req[c], d) :
              /\ d = "publish" => ~HasJob(p)
              /\ status' = [status EXCEPT ![p] = Resolved(d)]
              /\ lastAudit' = [lastAudit EXCEPT ![p] = Resolved(d)]
              /\ scheduledAt' = [scheduledAt EXCEPT ![p] = at]
              /\ publishedAt' = [publishedAt EXCEPT ![p] = Dated(p, d)]
              /\ jobs' = IF d = "publish" THEN [jobs EXCEPT ![p] = NewJob] ELSE jobs
        /\ Done(c)
        /\ UNCHANGED <<draftVars, items, aiReviews, translations, verified, wk>>

ChangeArchiveStatus(p, from, to) ==
    /\ status[p] = from
    /\ status' = [status EXCEPT ![p] = to]
    /\ lastAudit' = [lastAudit EXCEPT ![p] = to]
    /\ UNCHANGED <<scheduledAt, publishedAt, draftVars, items, queueVars,
                   verified, req, wk>>

Archive(p) == ChangeArchiveStatus(p, "published", "archived")

Unarchive(p) == ChangeArchiveStatus(p, "archived", "published")

\* update_localization_by_editor locks the localization it edits.
EditLocalization(p) ==
    /\ translations[p].origin # "none"
    /\ translations' = [translations EXCEPT ![p] = [@ EXCEPT !.origin = "human"]]
    /\ UNCHANGED <<pubVars, draftVars, items, aiReviews, jobs, verified, req, wk>>
============================================================================
