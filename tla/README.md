# Ion Pulse API: TLA+ models and proofs

Ion Pulse is a bilingual publishing platform: members write drafts, an AI
provider and editors review them, a worker publishes what is scheduled and
translates what is published, and editors bind published materials into digests
and journal issues. The API is FastAPI over PostgreSQL (`src/src/ion_pulse`), the
worker a separate process over the same database. Nothing else is shared: **all
coordination goes through rows, row locks and unique constraints**, and that is
what these models are about.

Paths below are relative to `src/src/ion_pulse/` unless they start with `src/`.

## 1. The system

### Parts, their state and how they interact

| Part | Code | State | Operations |
|---|---|---|---|
| Editorial workflow | `api/routes/publications.py`, `domain/publications.py` | `publications`, source localization, `publication_revisions`, `digest_publications`, `publication_editorial_reviews` (audit) | create, update, restore, submit, digest items, decide, archive, unarchive, edit localization |
| Background worker | `workers/translation.py`, `services/scheduling.py`, `services/ai_reviews.py`, `services/translations.py` | `publication_ai_reviews`, `translation_jobs` (queues), the translated localization | publish what is due, requeue failures, claim/finish a review, claim/finish a translation |
| Journal desk | `api/routes/journal.py` | `journal_issues`, `journal_issue_publications` with snapshots | create, save, replace materials, publish; image upload |
| Accounts | `api/routes/auth.py`, `models/identity.py` | `users`, `user_sessions`, `password_reset_tokens`, `account_deletion_audit` | register, log in, log out, request a recovery link, reset, rename, delete |
| Moderation | `api/routes/moderation.py` | `user_sanctions`, `user_sanction_appeals`, `users.suspended_until` | suspend, lift, appeal (two ways), decide |
| Roles | `api/routes/admin.py`, `api/routes/author_applications.py`, `seeds.py` | `user_roles`, `user_role_audit`, `author_applications` | grant, revoke, apply, decide, seed |
| Community | `api/routes/comments.py`, `api/routes/reports.py` | `publication_comments`, `comment_moderation_actions`, `content_reports` | comment, hide and restore, report, review |
| Rate limiter | `services/rate_limits.py` | timestamps in the memory of one process | admit or refuse |
| Public reading | `api/routes/publications.py` | `publications.view_count`; otherwise reads only | single material, feed, journal candidates |
| Ratings, subscriptions | `api/routes/ratings.py`, `api/routes/subscriptions.py` | one row per user and target | rate, follow |
| The rest | categories, games, seeds, provider adapters, configuration, schemas | catalogue rows, none | see "Not modelled" |

* A handler of the API calls the database only; handlers of one process
  interleave at every `await`, handlers of several processes anywhere.
* The API hands work to the worker by inserting queue rows (`submit_draft`: an AI
  review; a publishing decision: a translation job) or by setting `scheduled_at`.
* The worker publishes too (scheduler, `route_completed_review`), so a
  publication has three publishing paths and two queues.
* The journal desk, the digests and the readers read publications that editors
  archive and edit.
* Comments and reports call the limiter before their first statement.
* Accounts are written by their owner, by recovery requests and by moderators at
  once; the editorial core reads only whether an author holds the author role.

### What is hard here

PostgreSQL runs READ COMMITTED; the session factory has `expire_on_commit=False`
(`db/session.py`), so an object once loaded keeps its values across an `await`, a
commit and an AI call. Most handlers are *read, check, compute, commit* without a
row lock. What they write is only the columns that differ from what they loaded.
Checks are therefore stale when they matter, and the only checks left at COMMIT
are unique constraints. Eight handlers and three worker functions do take locks
(`FOR UPDATE`, the worker's with `SKIP LOCKED`); the models keep exactly those.
The worker may be killed between any two transactions (`Restart=always` in
`src/deploy/ion-pulse-worker.service`). The complete list of hazards, each at its
line, is in `PROJECT.json`.

### What makes each part correct

* Editorial: revisions are a gapless append-only log; a material has one
  translation job exactly when it has been published; what is shown is dated; the
  audit explains the status; a schedule loses its time only in a race; digests list
  published materials.
* Worker: a queue row is processed by one worker at a time, a bounded number of
  times, never after it is done; every row is brought to an end; a scheduled
  material is published; nobody's translation is written over.
* Journal: a published issue has a snapshot of every material and is never touched
  again; pages and material rows agree; one issue per period.
* Accounts: a recovery link works once; a new password leaves no session behind; a
  deleted account stays closed.
* Moderation: an approved appeal lifts its suspension; no suspension is lost to an
  older request; the account's history explains whether it is suspended.
* Roles: a role that is held was granted or seeded, and no grant is in the audit
  that was not made; an approved applicant becomes an author; the last
  administrator is not removed by one request alone.
* Limiter: no window admits more than its limit; a caller who waits as told is let in.
* Community: no change of a comment's visibility goes without its audit row; a target
  is reported once by each reader.
* Reading: every answer that shows a material is counted; a reader who pages to the
  end misses nothing; the candidates of an issue are those of two months.

## 2. Modules

```
PublicationStore          tables, types, initial state          RevisionLog         (abstract)
  |-- Publications        handlers of publications.py           JobQueue            (abstract)
  |-- PublicationWorker   the worker process                    PublishedMaterials  (abstract)
  `-- Editorial           composition, clock, properties, refinements
        |-- MCEditorial        TLC
        `-- EditorialTypes -- EditorialProofs

JournalIssues             journal.py over moving publications   IssueDesk     (abstract)
  |-- MCJournal
  `-- JournalProofs

Accounts                  auth.py; an arbitrary moderator
  |-- AccountsProofs
  `-- Sanctions           moderation.py over the same accounts; implements Accounts
        |-- MCAccounts
        `-- SanctionsProofs    (with AccountsProofs)

Roles                     admin.py, author_applications.py, seeds.py
  |-- MCRoles
  `-- RolesProofs

RateLimit                 rate_limits.py and its clock
  `-- Community           comments.py and reports.py over the limiter; implements it
        |-- MCCommunity
        `-- CommunityProofs

Reading                   the public part of publications.py
  |-- MCReading
  `-- ReadingProofs
```

A row is a value of a function over its key, an absent row a value of its own.
`PublishedMaterials` is the seam between the editorial core and everybody who looks
at what it publishes. `Editorial` implements it (`ImplementsMaterials`);
`JournalIssues`, `Community` and `Reading` instantiate the same module for their
materials, so that what happens around them is what the core may do and nothing
else. It says which materials are shown, which have ever had a date of publication and
which are translated: publication of one or of several at once, withdrawal,
translation.

Only requests that pass authentication and authorisation are modelled. A failed
check, a unique violation, a deadlock the database breaks and a client that goes
away all roll back and are one action per module (`AbortRequest`, `Rollback`,
`Abort`, `AbortReview`, `Leave`).

### PublicationStore, Publications, PublicationWorker, Editorial

| Model | Code |
|---|---|
| `status`, `scheduledAt`, `publishedAt`, `lastAudit` | columns of `publications`; `to_status` of the last audit row |
| `text`, `sourceRevision`, `revisions` | source localization and metadata, `publication_revisions` |
| `aiReviews[p][n]`, `jobs[p]`, `translations[p]` | one AI review per (publication, revision), one job and one translation per publication (there are two locales) |
| `req[c]` | what a handler without a lock has read |
| `wk[w]` | the stage of `run_once` and the snapshot a stage holds |
| `BeginX` / `CommitX` | the first SELECT and the COMMIT of `update_draft`, `submit_draft`, `make_editorial_decision`, `replace_digest_items` |
| `CheckHasItems`, `SelectItems` | the second SELECT of `submit_draft` for a digest, and of `replace_digest_items` |
| `NewSchedule` | `scheduled_at` after a decision: NULL only over a time that was loaded, a time only over another one |
| `Restore`, `Archive`, `Unarchive`, `EditLocalization` | the handlers that hold `FOR UPDATE` |
| `PublishDue`, `RequeueReviews`, `ClaimReview`, `CompleteReview`, ... | the transactions of the worker |
| `CrashAndRestart` | the process dies between two transactions |

Why the steps are as large as they are:

* `restore` and `archive`/`unarchive` lock the publication row. Any other commit
  that touches what they read either updates that row or inserts a row whose
  foreign key takes a share lock on it, which conflicts with `FOR UPDATE`. So the
  whole handler is one step.
* The AI route's UPDATE of the publication is flushed before the look-up of the
  job, so that look-up is current at the commit.
* Loading a claimed row's publication is part of the claim: nobody else reads or
  writes a claimed row, and `source_revision` never decreases.
* The unique `(digest, position)` lets one of two overlapping replacements
  through, so the rows that survive are one request's.
* The worker takes queue rows in any order: `created_at` is the start of the
  inserting transaction, not the order of commits.
* The scheduler's batch is any nonempty part of what is due: `SKIP LOCKED` leaves out
  rows that another worker or a decision has locked.
* A decision that sets the very time it has loaded does not write it; if another one
  takes the time back meanwhile the material is scheduled without a time (`Stranded`). Times are `"future"`, `"due"` or none, so a time that is given
  again may be the same one or another: both are in `NewSchedule`.
* `lastAudit` is in commit order; `"draft"` there stands for "no row yet".
* `DigestTexts` makes the content type part of the text, because `update_draft`
  may turn an article into a digest and back.

### JournalIssues, IssueDesk

Here the interest is *inside* the transaction, so every statement is a step:
`LockDraft` (SELECT ... FOR UPDATE, which `session.get(with_for_update=True)`
refreshes), `CheckItems`, `Store`, `CheckMaterial` / `TakeSnapshot` once per
material, `PublishIssue`. Publications are published, withdrawn
(`PublishedMaterials`) and edited at any moment in between. `IssueDesk` is the
promise: create, save, replace and publish as whole operations, one issue per period,
nothing after publication. `Shown(i)` is what `list_issue_publications` and
`issue_materials` answer: the snapshots of an issue, or the texts of today if one of
its materials has none.

### Accounts, Sanctions

`Accounts` has the row lock of an account explicitly (`lock[u]`). `reset_password`
locks the token and the account; every other commit that updates the account or
inserts a row that refers to it waits. A reset is three steps (lock, DELETE of the
sessions it sees, commit), because a login may be waiting or may already have
committed. A recovery request holds the unused links its DELETE has seen
(`req[c].gone`), so that a link being redeemed and a link being renewed exclude
each other as they do in the database.

* A deletion's UPDATE changes unique key columns, which takes the strong row lock;
  its UPDATE, DELETE and commit are one step. A suspension's does not: a session
  inserted between its DELETE and its COMMIT looks like one inserted just after.
* Expired sessions and links are rows no query returns: like rows that are gone.
* Tokens are random; `Fresh` keeps one that is being deleted from coming back.
* In `Accounts`, a moderator suspends, lifts and sees suspensions end in any order.
  `Sanctions` says how it comes to that: `suspend_user` is one step if the end it is
  given differs from the one it loads, whatever that was; with an equal end
  (`BeginSuspendAgain`, `CommitSuspendAgain`) it writes the row and revokes the sessions
  but leaves the time as others have made it meanwhile. Lifting, appealing and deciding
  read, work and commit, and write NULL only over a time they had loaded.
  `ImplementsAccounts` shows that this is a moderator of `Accounts`.
* `Sanctions` leaves out that a moderator could decide an appeal of their own (the
  code does not forbid it): their account would then be the one loaded at the
  beginning of the request. Overlapping suspensions begin in the order in which they
  are committed and end in any order.

### Roles

| Model | Code |
|---|---|
| `userRoles`, `apps` | `user_roles`, `author_applications` |
| `granted`, `revoked` | rows of `user_role_audit` for each user, role and action |
| `seeded` | rows of `user_roles` that `seeds.py` has inserted; the seeds write no audit |
| `BeginEdit`, `ReadRoles`, `LookUpRole`, `CommitEdit` | `update_user_roles`: the administrator with their roles, the user, one `session.get(UserRole)` for each role to revoke, the COMMIT |
| `BeginApply`, `CheckApply`, `CommitApply` | `create_application` |
| `BeginDecide`, `LoadApplication`, then `CommitRejection`, or `FlushApproval`, `LookUpAuthor`, `CommitApproval` | `decide_application`: the SELECT of the role flushes the UPDATE of the application, which locks its row until the COMMIT |
| `Seed` | the seeds insert the grants that are missing, in one transaction |

A session that has an object keeps what it loaded (`Loaded`): an administrator who
edits themselves edits the roles their own request began with. A role that was found
is deleted whether or not another request has deleted it meanwhile, and the audit row
is written all the same. An insert of a role that is there breaks the primary key.

### RateLimit, Community

`RateLimit` is `enforce_rate_limit`: `bucket[k]` is the deque of one (scope, key),
`Forget` its `popleft` loop, `RetryAfter` the header with `int()` and `max(1, ...)`.
The function has no `await`, so a call is one step. The clock is a float and
Retry-After a whole number of seconds, so a second is several ticks. `Forgetful` is
a new process (or `reset_rate_limits`). `admitted`, `told` and `refused` are
bookkeeping for the two properties: the calls that got through, the time a caller was
told to come back at, and the refusals in a row of calls that waited that long.

`Community` puts `Admit` or `Refuse` at the beginning of `create_comment` and
`create_report`; a call that fails later has been counted. After that each SELECT is a
step and the COMMIT another. `lastAction[c]` is the row of a comment's audit that was
committed last. That is not always the one with the newest `created_at`, which is the
start of the transaction: of two moderators who overlap the first to begin may be the
last to commit. Nothing in the code reads `comment_moderation_actions`, so no order of
its rows is promised; what is checked is that no change goes unrecorded. `InsertReport` has the unique constraint on (reporter, target). Publications come and
go as in `PublishedMaterials`. A `BeginReview` is written over whatever review was
committed meanwhile: the row keeps the last.

### Reading

| Model | Code |
|---|---|
| `OpenMaterial`, `SelectLocalized`, `SelectOriginal`, `CountView` | `get_published_publication`: the locale asked for, then the original, then `view_count + 1` and its commit, which is when an answer counts as given |
| `BeginFeed`, `FetchPage` | a client of `list_published_publications` who adds the limit to the offset until a page is not full |
| `Orders` | `ORDER BY published_at DESC`: materials of one moment come in any order, another one for every page |
| `Period`, `Candidates` | `journal_candidate_period`, `list_journal_candidates`: from the first day of the month before to the first day of the month after |
| `Publish`, `Withdraw`, `Translate` | what the editorial core does to what readers see (`PublishedMaterials`), with the day: a first publication and a late answer of the AI are dated today, a material out of the archive keeps its date |

`answered[p]` counts the answers. `steady` is what `PagesMissNothing` is conditional
on: while the reader paged nothing was withdrawn, nothing already shown was dated anew,
and no two materials have one time of publication. Without these the code does lose
rows: a material that goes away or to the top moves those behind its place one forward,
and ties may swap between two pages. The exemption for ties is not a rare case: the
scheduler gives all materials of one batch the same time (`services/scheduling.py:25`).
`ReadingAssumption` has a month before the first and one after the last that may be
asked for; `month=0001-01` and `month=9999-12` are therefore outside the model.

## 3. Runs

The counts are after symmetry where a run declares it (clients, workers, texts,
issues, requests, tokens are interchangeable; `live` declares none, because symmetry
is unsound for liveness). `CHECK_DEADLOCK FALSE` is only in `accounts`, `roles` and `digest`. In the first two it is a bound's doing: a
deleted account whose suspensions are used up has nothing left to do, nor have users
without an administrator when every grant has been made. In `digest` every material may
end rejected, which is final.

| Run | Instance | Distinct states | Shows |
|---|---|---|---|
| `editorial` | 1 publication, 2 texts, 2 overlapping requests, 1 worker that may die, 2 revisions, 1 attempt | 1,156,190 | history, audit, jobs, snapshots, times that are lost; drafts implement `RevisionLog` |
| `workers` | 1 publication, 1 request, 2 workers that may die, 1 revision, 3 attempts | 65,970 | exclusive claims, no overwritten translation; both queues implement `JobQueue`, the core implements `PublishedMaterials` |
| `live` | 1 publication, 1 request, 1 worker, 2 revisions, 2 attempts, fairness | 19,259 | scheduled materials are published, every queue row ends, the scheduler never fails |
| `digest` | 2 publications, an article text and a digest text, 2 overlapping requests, 2 revisions, no worker | 321,537 | digests list published materials, although one may become an article and be chosen for itself |
| `journal` | 2 issues, 2 publications, 2 periods, 2 overlapping requests, 1 edit | 322,932 | complete and frozen issues, shown as they were; the desk implements `IssueDesk` |
| `accounts` | 1 account, 1 session, 2 links, 3 passwords, 2 requests and 1 moderator, or 2 moderators, 2 suspensions | 875,424 | links, sessions, closed accounts, suspensions and appeals; `Sanctions` implements `Accounts` |
| `roles` | 2 users, 2 roles, 1 application, 2 overlapping requests, the seeds, 1 grant and 2 revocations of each role | 2,029,443 | true grants, approvals make authors, the last administrator goes only in a race |
| `community` | 1 reader, 2 comments and 1 report in a window of 2 s (4 ticks), 6 ticks, 2 overlapping requests, 1 comment, 2 reports | 311,053 | the limit, Retry-After, comments and their audit, one report each |
| `reading` | 2 readers, an article and a digest, 31 December, 1 January and 1 March (days 30, 31 and 90 from 1 December), pages of 1, 2 views | 562,323 | the counter, the feed page by page, the candidates |

Why the bounds suffice for what they are used for. Every race in this code is
between two requests, or between a request and the worker, about one row; two
requests and one worker (or two workers and one request) therefore show each pair.
Two revisions are needed for a stale number to collide and for a stale AI review,
two texts to tell the revisions apart, three attempts (the code's `max_attempts`)
for a retry of a retry, two issues and two periods for the unique period, two
materials for a snapshot that is partly taken, two links so that one is redeemed
while another is renewed, three passwords for a second reset, two suspensions so
that a request about the first meets the second, two revocations because two
administrators may record one, six ticks so that a window of four ends, half a second
so that Retry-After is rounded down, pages of one material so that two make three
pages. The theorems of section 5 hold for every value of these constants. Bounds in
guards: `MaxRevision` (edits), `MaxEdits`, `MaxPasswords`, `MaxSuspensions`,
`MaxGrants`, `MaxRevocations`, `MaxTime`, `Days` and `MaxViews`. `MaxAttempts` is a
constant of the code (3) and a bound of the runs: `workers`, whose questions are about
retries, has 3; `live` has 2, `editorial` and `digest` 1.

`digest` has no worker: its materials are published by decisions, and the property
needs only that they are, by whom does not matter (the theorem `DigestsHoldPublished`
has all three paths). `editorial` reaches a material scheduled without a time, and
`digest` one that lists itself.

Three runs have a constraint. `ModeratorsAlone` (`accounts`): while two moderators'
requests overlap, the account has no request of its own under way. A moderator meets the
account's own requests with one moderator at work, and another moderator with none;
the theorems on `Sanctions` have no such bound. `TimeOrContent` (`community`): comments and reports are
explored with the clock at 0 and processes that start afresh, and once the clock runs
nothing is stored and requests do not overlap. What is stored never depends on the
time, only on whether a call was admitted, and a call is one step of the limiter.
`AloneInFeed` (`reading`): a reader in the feed writes nothing and holds what nobody
else reads, so a second reader next to them adds nothing; the counter has both.

### Disagreements between the code and what is said of it

Each is a run that must find a violation of one property:

| Run | Property | What happens |
|---|---|---|
| `stale_autopublish` | `AutopublishCurrent` | The AI's answer publishes a material that was sent back, rejected, scheduled or rewritten while the provider was thinking: the check is on values loaded before the call (`services/ai_reviews.py:53,59`). |
| `due_poisoned` | `DueIsTaken` | Two editors decide at once, one to publish and one to schedule: when the time comes the scheduler's insert of a second job fails, the batch rolls back, the process dies and starts again, for ever and for all due materials (`services/scheduling.py:27`). |
| `reset_keeps_session` | `SessionsKnowThePassword` | A login that verified the old password opens its session after the reset revoked them all (`api/routes/auth.py:132`). |

Noticed while modelling. The models allow these, no property forbids them and no run
is about them, because nothing in the repository says otherwise:

* A profile update that read the account before its deletion writes the chosen name
  over the pseudonym (`api/routes/auth.py:249`).
* Two moderators may decide one appeal twice, the second over the first
  (`api/routes/moderation.py:143`); two editors one report, two administrators one
  application, which may then be rejected although its role was granted.
* A material archived after `publish_issue` looked at it is in the issue
  (`api/routes/journal.py:305`), like any material archived later.
* A material may be left scheduled with no time, where the scheduler never finds it
  (`api/routes/publications.py:942-944`): a decision that schedules it for the time it
  already has leaves the column alone, and another decision sets it to NULL meanwhile.
  `TimeIsLostInARace` shows that nothing else does it, `FreshCommitsStrandNothing`
  that a lock would rule it out.
* A digest may come to list itself (`api/routes/publications.py:436` and `452`): it is
  edited into an article, submitted and published between the look at it and the look
  at the materials.
* A suspension to the very end that is loaded is recorded and revokes the sessions, but
  if another moderator lifts the old one meanwhile the account is not suspended
  (`api/routes/moderation.py:190`).
* `month=0001-01` and `month=9999-12` raise an `OverflowError` in
  `journal_candidate_period` that `except ValueError` does not catch
  (`api/routes/publications.py:165-166`, `185`).
* Of two moderators who overlap on a comment, the newer row of the audit by
  `created_at` may name the other state (`models/publications.py:323`).
* A submission or a decision that read its row before a publication writes over the
  status and takes a material readers can see back into review or a draft
  (`api/routes/publications.py:860`, `941`); a late answer of the AI gives a visible
  material the date of today and so the top of the feed (`services/ai_reviews.py:59-60`).
* Two administrators who take each other's role leave none (`api/routes/admin.py:90`).
* Two administrators, or two moderators, who make the same change at once both record
  it; a revoked role of a demonstration account comes back with the next seeding,
  without an audit row (`seeds.py`).
* The journal's candidates are chosen by one score and displayed with another
  (`api/routes/publications.py:233-237` and `258-260`), and a material of an issue that
  is outside its two months gets a score of 0 in its snapshot.
* The feed has no tie-breaker (`api/routes/publications.py:318`).
* The limiter counts in one process and never drops an empty bucket
  (`services/rate_limits.py:6`).

## 4. Fairness

Only the editorial core has liveness properties. `FairSpec` is weak fairness of
each worker's own steps and of the clock passing each `scheduled_at`: the worker is
a loop that never stops (`workers/translation.py:28-35`), restarted by systemd, and
a provider call ends in an answer or an exception. Nothing is assumed of users. The
run `live` has no crashes because a crash between claim and result really does
leave a row claimed for ever (a hazard in `PROJECT.json`), and one request at a time
because overlapping decisions really do poison the scheduler (`due_poisoned`). For the
same reason its author is one the AI does not publish: a decision races the AI's answer
as it races another decision. Section 5 proves that nothing else can make the
scheduler fail (`FreshCommitsKeepTheScheduler`) and that the run's two conditions rule
these races out (`RequestsAloneKeepTheScheduler`).

## 5. Proofs

All theorems are checked by TLAPS for arbitrary sets of publications, texts,
requests, workers, issues, accounts, suspensions, users, comments, readers and
arbitrary bounds, from the named assumptions of the modules alone. `StoreAssumption`,
`JournalAssumption`, `AccountsAssumption`, `SanctionsAssumption` and
`CommunityAssumption` say that bounds are numbers and NULL is no other value;
`RolesAssumption` adds that the two roles the code names exist; `RateLimitAssumption`
that limits and windows are positive; `ReadingAssumption` that months have 28 to 31
days, that the days are within the calendar and that there are finitely many
materials.

**Editorial** (`EditorialTypes`, `EditorialProofs`). `IInv` is the inductive
invariant. Types alone are inductive (`TypeCorrect`); the rest lean on each other.
The key part is `SnapshotsAreOld`: what a request or a worker has read is a past of
the row and never a future, so a stale revision number is taken already (the unique
constraint refuses it) or is the next one. From it: `HistoryIsGapless` and
`DraftsAreALog` (every commit is an append of the abstract log). `ExclusiveClaims`
needs only that a claimed row is marked and that nothing but its holder changes the
mark; `TranslationIffReady` needs `ExclusiveClaims`; `PublishedOnce` needs that all
three publishing paths look for the job under a lock or a constraint;
`AuditExplainsStatus` needs that decisions are about submitted materials. The
invariant also has `ShownIsDated`: what readers see or saw has a publication date.
`DigestsHoldPublished` needs one more fact, that what a request has selected was
published when it looked and a publication's date is never taken back; the look at the
digest itself may be older. `TimesAreLostInRaces` is about single steps: of all
transactions only a decision to schedule makes a material `Stranded`, and that only if
it had loaded a time which is gone when it commits.
`JobsAreAQueue` and `ReviewsAreAQueue` reduce each step, whoever takes it, to what it
does to the rows of one queue (`JobSteps`, `ReviewSteps`: some are enqueued or put
back, or one is claimed or brought to its end) and show that to be a step of
`JobQueue`; the reviews are a table over pairs of a publication and a revision.
`MaterialsAreKept` does the same for what the rest of the system sees.

The same reductions give what a step of the core may never do. `RevisionsAreFinal`: a
revision is never rewritten. `OnlyEditorsRewrite`: a translation that exists is changed
by `update_localization_by_editor` alone, so the worker that saves late finds none.
`JobsOnlyAdvance` and `ReviewsOnlyAdvance`: every change of a queue row raises its rank
`Progress` (three times the attempts, and how far the present one is), which is at most
`3 * MaxAttempts + 2`. So no row is worked on for ever or twice after its end, for any
number of workers that may die; fairness is needed only for the row not to *rest* before
its end.

*What the violations come from.* Three runs show the code doing what it says it does
not. For each of them a theorem names the one kind of stale step that is to blame, as an
action formula, and proves that without it the property holds in every behaviour,
overlapping requests and crashes included:

| Run | Condition | Theorems |
|---|---|---|
| `due_poisoned` | `FreshCommits`: a submission or decision commits on the status it was checked against, and finds a time if it loaded one, as under `FOR UPDATE` | `FreshCommitsKeepTheScheduler`, `FreshCommitsKeepPublications`, `FreshCommitsKeepSchedules`, `FreshCommitsStrandNothing` |
| `stale_autopublish` | `FreshRoutes`: the worker routes a review by the publication and the source as they are when the answer is stored | `FreshRoutesAutopublishCurrent` |
| `reset_keeps_session` | `FreshLogins`: a session opens while the account has the password that was verified | `FreshLoginsKnowThePassword` |

They are conjoined as `Spec /\ [][FreshX]_vars`, so they restrict steps and assume
nothing of states; they are the specifications of a repair as much as diagnoses.
`FreshCommitsKeepTheScheduler` rests on one more inductive fact (`DatedAreOut`: what has
been published once is published or archived), which the code as it is does not keep:
that is how a material with a job becomes due again. The condition is not
empty: `RequestsAloneAreFresh` proves it of every behaviour with one request at a time
and no author the AI publishes (`AloneInv`: the row is then still what the request
read), and hence `RequestsAloneKeepTheScheduler` for the instance of `live`.
`FreshCommitsKeepSchedules` is the safety half of `ScheduledIsPublished`: what is
scheduled keeps its time until it is published.

**Journal** (`JournalProofs`). A request under way holds the lock of a *draft*
(`Holds`), so what it has read is what the issue still is (`Publishes`), the
snapshots it has taken are of exactly the materials it has passed, and what it
stores agrees with its pages (`Stores`). That gives `LayoutsAgree`,
`IssuesAreComplete`, `PublishedForGood` and, with one period per issue,
`RequestsAreOperations`: the interleaved statements implement `IssueDesk`. A published
issue that is complete is shown from its snapshots alone, hence `ListingsStay`.

**Accounts** (`AccountsProofs`). A request that redeems a link holds its account's
lock, so the link stays unused, the account active and the sessions those its
DELETE has seen (`Redeemed`, `Revokes`); one that renews links holds rows that are
unused links of its account or gone (`Renews`). Hence `LinksWorkOnce`,
`ResetsRevoke` and `ClosedForGood`. `FreshLoginsKnowThePassword` needs that a reset
leaves no session at all, so that under its condition those that exist were opened with
the password of today (`SessionsMatch`).

**Sanctions** (`SanctionsProofs`). First, that every request is about a suspension
that was imposed (`Known`); then every step is a step of `Accounts` or none
(`ModeratorsAreOrderly`), so the theorems on accounts carry over, types included
(`ModeratedAccountsAreSafe`).
With those the second invariant (`Explained`): a moderator who approves an appeal
and has seen no time to clear finds none of that suspension at the commit, because
a suspension is imposed only once (`Spares`). Hence `ApprovalsLift` and
`SuspensionsHold` (of a suspension that wrote its end), and `SanctionTypes`: an account
has a time of suspension just when it comes from one.

**Roles** (`RolesProofs`). Everything a request holds may be stale, but two things it
knows stay true: it deletes only rows of roles it also records as revoked
(`Revoking`), and an author it has seen was made one and can have lost the role only
by a recorded revocation (`Approving`). From the first, that the audit never counts
a grant too many (`GrantsAreReal`), and that a request takes the administrator's role
only from somebody else, so that its own actor must have lost it if nobody is left
(`LastAdministrator`); from the second, `ApprovalsMakeAuthors`.

**Limiter and community** (`CommunityProofs`). What is remembered of a key is the end
of the list of the calls it admitted, and everything before has left the window
(`Ledger`); so the call `Limit` places before a new one is forgotten, or there is none:
`LimitIsKept`. Once it has refused, it admits nothing until the first call it remembers
expires, and that time is less than a second beyond what a caller was told, hence
`PatienceIsRewarded`. `HandlersUseLimiter` carries both over to comments and reports.
`HiddenIsAudited` (in the order of commits) needs that an UPDATE of the visibility and
its audit row depend on one comparison with the state that was loaded: a moderator who
loads what they want writes neither, however the comment has changed meanwhile;
`RepliesAreFlat`, that a comment never changes its parent or publication;
`ReportsAreUnique`, the constraint.

**Reading** (`ReadingProofs`). `ReadingInvariant`: what is shown is dated; a request
for a material has one, and at the moment it is counted that material has been
published once and the counter loaded with it is not ahead of the row's. Hence
`EveryViewCounts`. The candidates' period: the 28th and four days is in
the next month and not the one after, whatever the lengths of the months
(`PeriodIsTwoMonths`). The feed: without ties there is one order, and a material's
place in it is the number of materials published after it (`PlaceInOrder`). While a
visit is steady none of those goes away, so a material not yet seen has at least
`offset` of them before it (`Paging`), however many are published or brought back
meanwhile. At the end there is nothing behind the offset: `PagingIsComplete`.

Only model-checked: the two liveness properties, `ScheduledIsPublished` and
`QueuesSettle` (temporal reasoning with fairness and ENABLED is beyond the prover).
What can be proved of them is: the rank that bounds the work on a row, the scheduler
that never fails, the schedule that is never lost. Conversely `ThreadsAreFlat`,
`SanctionsTypeOK`, `RolesTypeOK` and `PublishedStays` (under `FreshCommits`) are only
proved.

## 6. Not modelled, and why

* Authentication and authorisation checks: pure functions of the loaded user.
* Ratings and subscriptions: one row for each user and target under a primary key,
  written or deleted by one statement; no state relates two of them.
* Categories and games: catalogue rows that the last writer wins.
* Of the seeds only the grants are modelled (`Roles`). They also insert demonstration
  materials and one journal issue, all as published and with no queue or audit row
  (`seeds.py:238`, `282`): the properties of the editorial core and the journal desk are
  about what their handlers make. And they may replace the bootstrap administrator's
  password without revoking sessions (`seeds.py:184-185`): `NewPasswordRevokes` and
  `LinksAreSingleUse` are about recovery links, resets and deletions.
* Category and search filters of the lists, the order and scores of the candidates,
  and everything that only formats an answer.
* The upload of a journal's images: a file with a random name, referred to by nothing
  until an issue is saved.
* Provider adapters and SMTP: the worker's model lets a call end in any answer or an
  error; a mail changes no state.
* Configuration, schemas and middleware: validation and wiring.
* Migrations: their constraints and triggers are guards of the actions; the
  triggers that forbid changes of audit rows are why no action changes one.
* `Editorial` has the author role's coming and going as an action of its own
  (`ChangeAuthorRole`) and does not compose `Roles`: the core reads one bit of it.

## 7. Plan

Done, in order of importance:

1. Editorial core and worker: store, handlers, worker, composition, abstract log and
   queue, liveness, invariants and refinements proved.
2. Journal desk with its abstract specification, proved.
3. Accounts, sessions and recovery, proved.
4. Suspensions and appeals over the accounts, proved.
5. Roles, applications and their audit, proved.
6. The limiter, and comments and reports over it, proved.
7. Public reading: counter, feed and candidates, proved.

What could follow as the code grows: recovery of queue rows whose worker died (a
lease or a time-out would make `QueuesSettle` hold with crashes), a queue row for every
revision that is submitted again, ratings once averages are stored.
