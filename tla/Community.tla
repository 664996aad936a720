----------------------------- MODULE Community -----------------------------
(***************************************************************************)
(* Comments and their moderation (api/routes/comments.py) and reports      *)
(* (api/routes/reports.py), over the limiter of RateLimit, which admits    *)
(* or refuses a call before its first statement.  Nothing is locked: each  *)
(* handler reads with plain SELECTs and writes at its COMMIT.              *)
(*                                                                         *)
(* Texts, reasons and notes are left out, and so is everything a list      *)
(* endpoint only formats.  The last row of an audit is the one committed   *)
(* last: created_at is the start of its transaction, and where moderators  *)
(* overlap the row with the newest created_at may be another one.          *)
(***************************************************************************)
EXTENDS RateLimit

CONSTANTS
    Readers,     \* members who comment and report
    Pubs,        \* publications
    Comments,    \* publication_comments
    Reports,     \* content_reports
    Requests,    \* requests in flight at once
    None         \* SQL NULL / no row

ASSUME CommunityAssumption ==
    /\ Keys = {"comment", "report"} \X Readers
    /\ None \notin Pubs \cup Comments \cup Reports \cup Readers \cup {"hide"}

VARIABLES
    published,    \* publications whose status is "published"
    comment,      \* publication_comments
    lastAction,   \* the action of a comment's last comment_moderation_actions row
    report,       \* content_reports
    rq            \* where each request is and what it holds

content == <<published, comment, lastAction, report>>
vars == <<limitVars, content, rq>>

Targets == Pubs \cup Comments

NoComment == [exists |-> FALSE, pub |-> None, parent |-> None, hidden |-> FALSE]
Comment == [exists : BOOLEAN, pub : Pubs \cup {None}, parent : Comments \cup {None},
            hidden : BOOLEAN]

NoReport == [by |-> None, target |-> None, status |-> "absent"]
Report == [by     : Readers \cup {None},
           target : Targets \cup {None},
           status : {"absent", "open", "resolved", "dismissed"}]

\* who calls, the row the request is about, and what was read or is wanted
Request == [at     : {"idle", "publication", "parent", "insert", "moderate",
                      "target", "existing", "file", "review"},
            who    : Readers \cup {None},
            about  : Targets \cup Reports \cup {None},
            parent : Comments \cup {None},
            seen   : BOOLEAN,
            want   : BOOLEAN \cup {"resolved", "dismissed"}]

Idle == [at |-> "idle", who |-> None, about |-> None, parent |-> None,
         seen |-> FALSE, want |-> FALSE]

Init ==
    /\ LimitInit
    /\ published = Pubs
    /\ comment = [c \in Comments |-> NoComment]
    /\ lastAction = [c \in Comments |-> None]
    /\ report = [s \in Reports |-> NoReport]
    /\ rq = [r \in Requests |-> Idle]

Goto(r, s) == rq' = [rq EXCEPT ![r] = s]
Finish(r) == Goto(r, Idle)

\* A statement of r's transaction that only reads.
ReadOnly == UNCHANGED <<limitVars, content>>

\* enforce_rate_limit, before anything else: the call is counted even if a
\* check fails afterwards, and a refused one goes no further.
Enforced(r, scope, s) ==
    /\ rq[r].at = "idle"
    /\ \/ Admit(<<scope, s.who>>) /\ Goto(r, s)
       \/ Refuse(<<scope, s.who>>) /\ UNCHANGED rq
    /\ UNCHANGED content

----------------------------------------------------------------------------
(* create_comment *)

BeginComment(r) ==
    \E u \in Readers, p \in Pubs, parent \in Comments \cup {None} :
        Enforced(r, "comment", [Idle EXCEPT !.at = "publication", !.who = u,
                                            !.about = p, !.parent = parent])

LoadPublication(r) ==
    /\ rq[r].at = "publication"
    /\ rq[r].about \in published
    /\ Goto(r, [rq[r] EXCEPT !.at = IF rq[r].parent = None THEN "insert" ELSE "parent"])
    /\ ReadOnly

LoadParent(r) ==
    LET c == rq[r].parent
    IN  /\ rq[r].at = "parent"
        /\ comment[c].exists
        /\ comment[c].pub = rq[r].about
        /\ comment[c].parent = None
        /\ Goto(r, [rq[r] EXCEPT !.at = "insert"])
        /\ ReadOnly

InsertComment(r, c) ==
    /\ rq[r].at = "insert"
    /\ ~ comment[c].exists
    /\ comment' = [comment EXCEPT ![c] = [exists |-> TRUE, pub |-> rq[r].about,
                                          parent |-> rq[r].parent, hidden |-> FALSE]]
    /\ Finish(r)
    /\ UNCHANGED <<limitVars, published, lastAction, report>>

----------------------------------------------------------------------------
(* update_comment_visibility *)

BeginModerate(r, c) ==
    /\ rq[r].at = "idle"
    /\ comment[c].exists
    /\ \E hide \in BOOLEAN :
          Goto(r, [Idle EXCEPT !.at = "moderate", !.about = c,
                               !.seen = comment[c].hidden, !.want = hide])
    /\ ReadOnly

\* The value is assigned whatever was loaded, but the UPDATE is made only if
\* it differs from what was loaded, as the audit row is.
\* Mutant: the UPDATE is made whether or not the value differs.
CommitAlways(r) ==
    LET c == rq[r].about
    IN  /\ rq[r].at = "moderate"
        /\ comment' = [comment EXCEPT ![c].hidden = rq[r].want]
        /\ lastAction' = IF rq[r].seen # rq[r].want
                         THEN [lastAction EXCEPT ![c] = IF rq[r].want THEN "hide" ELSE "restore"]
                         ELSE lastAction
        /\ Finish(r)
        /\ UNCHANGED <<limitVars, published, report>>
CommitModerate(r) ==
    LET c == rq[r].about
    IN  /\ rq[r].at = "moderate"
        /\ IF rq[r].seen # rq[r].want
           THEN /\ comment' = [comment EXCEPT ![c].hidden = rq[r].want]
                /\ lastAction' = [lastAction EXCEPT ![c] = IF rq[r].want THEN "hide" ELSE "restore"]
           ELSE UNCHANGED <<comment, lastAction>>
        /\ Finish(r)
        /\ UNCHANGED <<limitVars, published, report>>

----------------------------------------------------------------------------
(* create_report *)

BeginReport(r) ==
    \E u \in Readers, x \in Targets :
        Enforced(r, "report", [Idle EXCEPT !.at = "target", !.who = u, !.about = x])

\* A published publication or a visible comment.
LoadTarget(r) ==
    LET x == rq[r].about
    IN  /\ rq[r].at = "target"
        /\ x \in Pubs => x \in published
        /\ x \in Comments => comment[x].exists /\ ~ comment[x].hidden
        /\ Goto(r, [rq[r] EXCEPT !.at = "existing"])
        /\ ReadOnly

SameReport(r, s) == report[s].by = rq[r].who /\ report[s].target = rq[r].about

CheckExisting(r) ==
    /\ rq[r].at = "existing"
    /\ \A s \in Reports : ~ SameReport(r, s)
    /\ Goto(r, [rq[r] EXCEPT !.at = "file"])
    /\ ReadOnly

\* UNIQUE (reporter_id, target_type, target_id)
\* Mutant: the check above is all there is.
InsertUnchecked(r, s) ==
    /\ rq[r].at = "file"
    /\ report[s].status = "absent"
    /\ report' = [report EXCEPT ![s] = [by |-> rq[r].who, target |-> rq[r].about, status |-> "open"]]
    /\ Finish(r)
    /\ UNCHANGED <<limitVars, published, comment, lastAction>>
InsertReport(r, s) ==
    /\ rq[r].at = "file"
    /\ report[s].status = "absent"
    /\ \A t \in Reports : ~ SameReport(r, t)
    /\ report' = [report EXCEPT ![s] = [by |-> rq[r].who, target |-> rq[r].about, status |-> "open"]]
    /\ Finish(r)
    /\ UNCHANGED <<limitVars, published, comment, lastAction>>

----------------------------------------------------------------------------
(* review_report *)

BeginReview(r, s) ==
    /\ rq[r].at = "idle"
    /\ report[s].status = "open"
    /\ \E verdict \in {"resolved", "dismissed"} :
          Goto(r, [Idle EXCEPT !.at = "review", !.about = s, !.want = verdict])
    /\ ReadOnly

\* Written over whatever review was committed meanwhile.
CommitReview(r) ==
    /\ rq[r].at = "review"
    /\ report' = [report EXCEPT ![rq[r].about].status = rq[r].want]
    /\ Finish(r)
    /\ UNCHANGED <<limitVars, published, comment, lastAction>>

----------------------------------------------------------------------------

\* Any check that fails and any error: the transaction leaves nothing.
AbortRequest(r) ==
    /\ rq[r].at # "idle"
    /\ Finish(r)
    /\ ReadOnly

\* The editorial core: all of Pubs have been published once.
Materials == INSTANCE PublishedMaterials WITH dated <- Pubs, translated <- {}

Publish(S) ==
    /\ Materials!Publish(S)
    /\ UNCHANGED <<limitVars, comment, lastAction, report, rq>>

Withdraw(p) ==
    /\ Materials!Withdraw(p)
    /\ UNCHANGED <<limitVars, comment, lastAction, report, rq>>

EditorialStep ==
    \/ \E S \in SUBSET Pubs : Publish(S)
    \/ \E p \in Pubs : Withdraw(p)

Time == (Tick \/ Forgetful) /\ UNCHANGED <<content, rq>>

RequestStep(r) ==
    \/ BeginComment(r) \/ LoadPublication(r) \/ LoadParent(r)
    \/ \E c \in Comments : InsertComment(r, c)
    \/ \E c \in Comments : BeginModerate(r, c)
    \/ CommitModerate(r)
    \/ BeginReport(r) \/ LoadTarget(r) \/ CheckExisting(r)
    \/ \E s \in Reports : InsertReport(r, s)
    \/ \E s \in Reports : BeginReview(r, s)
    \/ CommitReview(r)
    \/ AbortRequest(r)

Next ==
    \/ Time
    \/ EditorialStep
    \/ \E r \in Requests : RequestStep(r)

Spec == Init /\ [][Next]_vars

----------------------------------------------------------------------------
(* Properties *)

\* No change of a comment's visibility goes unrecorded ("Скрытие и
\* восстановление комментария фиксируются в отдельном неизменяемом аудите"):
\* it is as the audit row committed last says, although a moderator may have
\* read the comment before others hid and restored it.
VisibilityIsAudited ==
    \A c \in Comments : comment[c].hidden <=> lastAction[c] = "hide"

\* Replies are one level deep and stay with the publication of the comment
\* they answer ("одноуровневые ответы").
ThreadsAreFlat ==
    \A c \in Comments : comment[c].parent # None =>
        /\ comment[comment[c].parent].exists
        /\ comment[comment[c].parent].parent = None
        /\ comment[comment[c].parent].pub = comment[c].pub

\* A member reports a target once, however many reports they send at a time.
OneReportEach ==
    \A s, t \in Reports :
        report[s].status # "absent" /\ report[s].by = report[t].by
            /\ report[s].target = report[t].target => s = t

\* Comments and reports use the limiter as it is meant to be used.
UsesLimiter == LimitSpec
============================================================================
