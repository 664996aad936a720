--------------------------- MODULE JournalIssues ---------------------------
(***************************************************************************)
(* The journal desk (api/routes/journal.py).  The handlers that change an  *)
(* issue lock its row (FOR UPDATE) from their first SELECT to their COMMIT *)
(* and release the event loop at every statement in between, so each is a  *)
(* sequence of steps of one request.  The publications an issue refers to  *)
(* are read without a lock, while the editorial core publishes, withdraws  *)
(* and edits them (PublishedMaterials).                                    *)
(*                                                                         *)
(* The order of the materials and what a page looks like are left out: a   *)
(* layout is the set of the publications on the pages, {} without pages    *)
(* (pages that show no publication occur only in an issue without          *)
(* materials, where the difference does not matter).                       *)
(* A publication's texts are a version number.                             *)
(***************************************************************************)
EXTENDS Naturals, FiniteSets

CONSTANTS
    Issues,      \* journal_issues
    Pubs,        \* publications that have been published
    Periods,     \* (period_start, period_end)
    Requests,    \* requests to the desk in flight at once
    MaxEdits,    \* bound: edits of one publication's texts
    None         \* SQL NULL / no row

ASSUME JournalAssumption ==
    /\ MaxEdits \in Nat
    /\ None \notin Pubs \cup Issues \cup Requests \cup Periods
    /\ None \notin 0 .. MaxEdits

VARIABLES
    published,   \* publications whose status is "published"
    version,     \* version of a publication's ready localizations
    issue,       \* journal_issues
    snapshot,    \* journal_issue_publications.snapshot
    lock,        \* the request holding the row lock of an issue
    rq           \* where each request is and what it holds

material == <<published, version>>
rows == <<issue, snapshot>>
vars == <<material, rows, lock, rq>>

NoIssue == [status |-> "absent", period |-> None, layout |-> {}, materials |-> {}]

Issue == [status    : {"draft", "published"},
          period    : Periods,
          layout    : SUBSET Pubs,
          materials : SUBSET Pubs] \cup {NoIssue}

Snapshots == [Pubs -> (0 .. MaxEdits) \cup {None}]

NoSnapshot == [p \in Pubs |-> None]

\* A request: the draft it wants to store, or the materials it has left to
\* take a snapshot of, the one it is at and the snapshots taken.
Request == [at    : {"idle", "items", "store", "materials", "texts"},
            issue : Issues \cup {None},
            draft : Issue,
            todo  : SUBSET Pubs,
            now   : Pubs \cup {None},
            taken : Snapshots]

Idle == [at |-> "idle", issue |-> None, draft |-> NoIssue, todo |-> {},
         now |-> None, taken |-> NoSnapshot]

\* Every variable has its type.
TypeOK ==
    /\ published \in SUBSET Pubs
    /\ version \in [Pubs -> 0 .. MaxEdits]
    /\ issue \in [Issues -> Issue]
    /\ snapshot \in [Issues -> Snapshots]
    /\ lock \in [Issues -> Requests \cup {None}]
    /\ rq \in [Requests -> Request]

Init ==
    /\ published = Pubs
    /\ version = [p \in Pubs |-> 0]
    /\ issue = [i \in Issues |-> NoIssue]
    /\ snapshot = [i \in Issues |-> NoSnapshot]
    /\ lock = [i \in Issues |-> None]
    /\ rq = [r \in Requests |-> Idle]

----------------------------------------------------------------------------
(* The editorial core: all of Pubs have been published once. *)

Materials == INSTANCE PublishedMaterials WITH dated <- Pubs, translated <- {}

Publish(S) ==
    /\ Materials!Publish(S)
    /\ UNCHANGED <<version, rows, lock, rq>>

Withdraw(p) ==
    /\ Materials!Withdraw(p)
    /\ UNCHANGED <<version, rows, lock, rq>>

EditTexts(p) ==
    /\ version[p] < MaxEdits
    /\ version' = [version EXCEPT ![p] = @ + 1]
    /\ UNCHANGED <<published, rows, lock, rq>>

EditorialStep ==
    \/ \E S \in SUBSET Pubs : Publish(S)
    \/ \E p \in Pubs : Withdraw(p) \/ EditTexts(p)

----------------------------------------------------------------------------
(* The desk *)

\* UNIQUE (period_start, period_end)
\* Mutant: the index is over drafts only.
PeriodFreeOfDrafts(i, t) ==
    \A j \in Issues \ {i} : issue[j].status = "draft" => issue[j].period # t
PeriodFree(i, t) == \A j \in Issues \ {i} : issue[j].period # t

\* One INSERT; the pages are stored, their materials are not.
CreateIssue(i) ==
    /\ issue[i].status = "absent"
    /\ \E t \in Periods, l \in SUBSET Pubs :
          /\ PeriodFree(i, t)
          /\ issue' = [issue EXCEPT ![i] =
                [status |-> "draft", period |-> t, layout |-> l, materials |-> {}]]
    /\ UNCHANGED <<material, snapshot, lock, rq>>

\* SELECT ... FOR UPDATE waits for the lock and then sees what was committed.
\* Mutant: a plain SELECT.
SelectDraft(r, i, s) ==
    /\ rq[r].at = "idle"
    /\ issue[i].status = "draft"
    /\ lock' = [lock EXCEPT ![i] = r]
    /\ rq' = [rq EXCEPT ![r] = s]
    /\ UNCHANGED <<material, rows>>
LockDraft(r, i, s) ==
    /\ rq[r].at = "idle"
    /\ lock[i] = None
    /\ issue[i].status = "draft"
    /\ lock' = [lock EXCEPT ![i] = r]
    /\ rq' = [rq EXCEPT ![r] = s]
    /\ UNCHANGED <<material, rows>>

Storing(i, t, l, m) ==
    [Idle EXCEPT !.at = "items", !.issue = i,
                 !.draft = [status |-> "draft", period |-> t, layout |-> l, materials |-> m]]

\* replace_issue_publications drops the pages.
\* Mutants: it keeps them; it loses the period.
ReplaceUndated(r, i) ==
    \E m \in (SUBSET Pubs) \ {{}} : LockDraft(r, i, Storing(i, None, {}, m))
ReplaceUnderLayout(r, i) ==
    \E m \in (SUBSET Pubs) \ {{}} :
        LockDraft(r, i, Storing(i, issue[i].period, issue[i].layout, m))
BeginReplace(r, i) ==
    \E m \in (SUBSET Pubs) \ {{}} : LockDraft(r, i, Storing(i, issue[i].period, {}, m))

\* save_issue takes the materials from the pages.
BeginSave(r, i) ==
    \E t \in Periods, l \in SUBSET Pubs :
        LockDraft(r, i, Storing(i, t, l, l))

\* Between two statements of r's transaction.
Goto(r, s) ==
    /\ rq' = [rq EXCEPT ![r] = s]
    /\ UNCHANGED <<material, rows, lock>>

CheckItems(r) ==
    /\ rq[r].at = "items"
    /\ rq[r].draft.materials \subseteq published
    /\ Goto(r, [rq[r] EXCEPT !.at = "store"])

\* The end of r's transaction releases its lock.
End(r) ==
    /\ lock' = [lock EXCEPT ![rq[r].issue] = None]
    /\ rq' = [rq EXCEPT ![r] = Idle]
    /\ UNCHANGED material

\* Updates the issue, deletes its material rows and inserts new ones, which
\* have no snapshot.  The status is not written.
Store(r) ==
    LET i == rq[r].issue
    IN  /\ rq[r].at = "store"
        /\ PeriodFree(i, rq[r].draft.period)
        /\ issue' = [issue EXCEPT ![i] = [rq[r].draft EXCEPT !.status = issue[i].status]]
        /\ snapshot' = [snapshot EXCEPT ![i] = NoSnapshot]
        /\ End(r)

\* publish_issue loads the row and its materials under the lock.
BeginPublish(r, i) ==
    LockDraft(r, i, [Idle EXCEPT !.at = "materials", !.issue = i, !.draft = issue[i],
                                 !.todo = issue[i].materials])

Publishable(d) ==
    /\ d.materials # {}
    /\ d.layout \in {{}, d.materials}

\* The next material must be published when its row is read ...
CheckMaterial(r) ==
    /\ rq[r].at = "materials"
    /\ Publishable(rq[r].draft)
    /\ \E p \in rq[r].todo \cap published :
          Goto(r, [rq[r] EXCEPT !.at = "texts", !.now = p])

\* ... and its localizations are read by the statement after that.
TakeSnapshot(r) ==
    LET p == rq[r].now
    IN  /\ rq[r].at = "texts"
        /\ Goto(r, [rq[r] EXCEPT !.at = "materials", !.now = None,
                                 !.todo = @ \ {p}, !.taken[p] = version[p]])

\* Updates the status and the snapshots of the rows that were read.
PublishIssue(r) ==
    LET i == rq[r].issue
    IN  /\ rq[r].at = "materials"
        /\ Publishable(rq[r].draft)
        /\ rq[r].todo = {}
        /\ rq[r].draft.materials \subseteq issue[i].materials
        /\ issue' = [issue EXCEPT ![i] = [@ EXCEPT !.status = "published"]]
        /\ snapshot' = [snapshot EXCEPT ![i] = rq[r].taken]
        /\ End(r)

\* list_issue_publications and issue_materials: the snapshots of a published
\* issue, or the texts of today if a material has none.
\* Mutant: the texts of today in any case.
ShownLive(i) == [p \in issue[i].materials |-> version[p]]
Shown(i) ==
    IF \A p \in issue[i].materials : snapshot[i][p] # None
    THEN [p \in issue[i].materials |-> snapshot[i][p]]
    ELSE [p \in issue[i].materials |-> version[p]]

\* Any check that fails, and a client or a connection that goes away.
Rollback(r) ==
    /\ rq[r].at # "idle"
    /\ End(r)
    /\ UNCHANGED rows

RequestStep(r) ==
    \/ CheckItems(r)
    \/ Store(r)
    \/ CheckMaterial(r)
    \/ TakeSnapshot(r)
    \/ PublishIssue(r)
    \/ Rollback(r)

Next ==
    \/ EditorialStep
    \/ \E i \in Issues : CreateIssue(i)
    \/ \E r \in Requests, i \in Issues :
          BeginReplace(r, i) \/ BeginSave(r, i) \/ BeginPublish(r, i)
    \/ \E r \in Requests : RequestStep(r)

Spec == Init /\ [][Next]_vars

----------------------------------------------------------------------------
(* Properties *)

\* The pages of an issue and its material rows are two records of the same
\* thing: whenever both are there they name the same publications, whatever
\* requests to save, replace and publish overlap.  publish_issue's check of
\* the layout therefore never refuses an issue written by these handlers.
LayoutIsOfMaterials ==
    \A i \in Issues :
        issue[i].materials # {} => issue[i].layout \in {{}, issue[i].materials}

\* A published issue shows its materials from their snapshots
\* (list_issue_publications): every material has one and nothing else does,
\* so no replacement slipped in between the snapshots and the new status.
PublishedIsComplete ==
    \A i \in Issues :
        issue[i].status = "published" =>
            /\ issue[i].materials # {}
            /\ \A p \in Pubs : snapshot[i][p] # None <=> p \in issue[i].materials

\* A published issue never changes again: neither its row nor a snapshot,
\* although requests that read it as a draft may still be in flight and its
\* materials are edited and withdrawn.
PublishedIsFrozen ==
    [][\A i \in Issues : issue[i].status = "published" =>
          issue'[i] = issue[i] /\ snapshot'[i] = snapshot[i]]_vars

\* A published issue stays reproducible (CHANGES.md:155-157): what its readers
\* are shown never changes, whatever becomes of its materials.
ListingIsReproducible ==
    [][\A i \in Issues : issue[i].status = "published" => Shown(i)' = Shown(i)]_vars

\* Overlapping requests of the desk have the effect of whole operations done
\* one after the other (IssueDesk).
Desk == INSTANCE IssueDesk WITH desk <- issue
ImplementsIssueDesk == Desk!Spec
============================================================================
