------------------------------ MODULE Reading ------------------------------
(***************************************************************************)
(* What readers and the journal desk see of the published materials        *)
(* (api/routes/publications.py): a single material with its view counter,  *)
(* the feed page by page, and the candidates for a journal issue.          *)
(*                                                                         *)
(* Time is a day: day Start[m] is the first of month m, and one month      *)
(* follows another.  A material's text is left out; what counts is whether *)
(* it is shown in the language that was asked for, which is its own        *)
(* ("source") or the other.  Categories, search and the candidates' order  *)
(* are left out, and so are the first and the last month of the calendar,  *)
(* 0001-01 and 9999-12, whose period is no date: the OverflowError is not  *)
(* caught and no candidates are computed.                                  *)
(*                                                                         *)
(* What becomes of the materials meanwhile is PublishedMaterials, which    *)
(* the editorial core implements.                                          *)
(***************************************************************************)
EXTENDS Naturals, Sequences, FiniteSets

CONSTANTS
    Pubs,       \* publications
    Digests,    \* those of content_type "digest"
    Readers,    \* readers, each with one request at a time
    LastMonth,  \* months 1 .. LastMonth may be asked for
    Start,      \* the first day of each month
    Days,       \* bound: the days on which something happens
    Limit,      \* limit: the length of a page of the feed
    MaxViews,   \* bound: answers that show one publication
    None        \* no publication

Months == 1 .. LastMonth

\* Months 0 and LastMonth + 1 are there to be computed with.
ASSUME ReadingAssumption ==
    /\ LastMonth \in Nat
    /\ Start \in [0 .. LastMonth + 2 -> Nat]
    /\ \A m \in 0 .. LastMonth + 1 : \E n \in 28 .. 31 : Start[m + 1] = Start[m] + n
    /\ Days \subseteq Start[0] .. Start[LastMonth + 2] - 1
    /\ IsFiniteSet(Pubs)
    /\ Digests \subseteq Pubs
    /\ Limit \in Nat \ {0}
    /\ MaxViews \in Nat
    /\ None \notin Pubs

VARIABLES
    today,
    published,    \* publications whose status is "published"
    dated,        \* those with a published_at
    translated,   \* those with a ready localization in the other locale
    publishedAt,  \* publications.published_at, a day
    viewCount,    \* publications.view_count
    answered,     \* answers committed to, by the publication they show
    visit         \* where each reader is

store == <<today, published, dated, translated, publishedAt>>
vars == <<store, viewCount, answered, visit>>

\* A reader who opens a material has loaded its row (loaded is the counter
\* that row had).  One who pages through the feed has seen some materials,
\* should see those of must, and does so in steady conditions or not.
Visit == [at     : {"idle", "open", "fallback", "count", "feed", "end"},
          pub    : Pubs \cup {None},
          locale : {"source", "other"},
          loaded : 0 .. MaxViews,
          offset : Nat,
          seen   : SUBSET Pubs,
          must   : SUBSET Pubs,
          steady : BOOLEAN]

Idle == [at |-> "idle", pub |-> None, locale |-> "source", loaded |-> 0,
         offset |-> 0, seen |-> {}, must |-> {}, steady |-> TRUE]

ReadingTypeOK ==
    /\ today \in Nat
    /\ published \in SUBSET Pubs
    /\ dated \in SUBSET Pubs
    /\ translated \in SUBSET Pubs
    /\ publishedAt \in [Pubs -> Nat]
    /\ viewCount \in [Pubs -> 0 .. MaxViews]
    /\ answered \in [Pubs -> 0 .. MaxViews]
    /\ visit \in [Readers -> Visit]

Materials == INSTANCE PublishedMaterials

Init ==
    /\ Materials!Init
    /\ today \in Days
    /\ publishedAt = [p \in Pubs |-> 0]
    /\ viewCount = [p \in Pubs |-> 0]
    /\ answered = [p \in Pubs |-> 0]
    /\ visit = [v \in Readers |-> Idle]

----------------------------------------------------------------------------
(* The editors, the worker and the clock *)

Pass ==
    /\ today' \in {d \in Days : d > today}
    /\ UNCHANGED <<published, dated, translated, publishedAt, viewCount, answered, visit>>

\* Whoever pages through the feed while its rows change their places.
Disturbed ==
    [v \in Readers |-> IF visit[v].at = "feed"
                       THEN [visit[v] EXCEPT !.steady = FALSE] ELSE visit[v]]

\* A first publication is dated now, and so is one by an answer of the AI
\* that comes late, even of a material that is shown already.  Out of the
\* archive a material has its old date.
Publish(S) ==
    /\ Materials!Publish(S)
    /\ \E now \in SUBSET S :
          /\ S \ dated \subseteq now
          /\ publishedAt' = [p \in Pubs |-> IF p \in now THEN today ELSE publishedAt[p]]
          /\ visit' = IF now \cap published = {} THEN visit ELSE Disturbed
    /\ UNCHANGED <<today, viewCount, answered>>

\* The material goes away from under whoever pages through the feed.
Withdraw(p) ==
    /\ Materials!Withdraw(p)
    /\ visit' = Disturbed
    /\ UNCHANGED <<today, publishedAt, viewCount, answered>>

Translate(p) ==
    /\ Materials!Translate(p)
    /\ UNCHANGED <<today, publishedAt, viewCount, answered, visit>>

----------------------------------------------------------------------------
(* get_published_publication *)

Goto(v, s) ==
    /\ visit' = [visit EXCEPT ![v] = s]
    /\ UNCHANGED <<store, viewCount, answered>>

Localized(p, locale) == locale = "source" \/ p \in translated

OpenMaterial(v) ==
    /\ visit[v].at = "idle"
    /\ \E p \in Pubs, l \in {"source", "other"} :
          Goto(v, [Idle EXCEPT !.at = "open", !.pub = p, !.locale = l])

Found(v) ==
    Goto(v, [visit[v] EXCEPT !.at = "count", !.loaded = viewCount[visit[v].pub]])

\* The first SELECT asks for the locale, the second for the original.
SelectLocalized(v) ==
    LET p == visit[v].pub
    IN  /\ visit[v].at = "open"
        /\ IF p \in published /\ Localized(p, visit[v].locale)
           THEN Found(v)
           ELSE Goto(v, [visit[v] EXCEPT !.at = "fallback"])

SelectOriginal(v) ==
    /\ visit[v].at = "fallback"
    /\ IF visit[v].pub \in published THEN Found(v) ELSE Goto(v, Idle)

\* UPDATE ... SET view_count = view_count + 1, whatever the row is by now,
\* under its row lock until the COMMIT, so that the two are one step.  An
\* answer counts as given with the COMMIT, even if it is lost on its way.
\* Mutant: the counter is set from the row that was loaded.
CountLoaded(v) ==
    LET p == visit[v].pub
    IN  /\ visit[v].at = "count"
        /\ answered[p] < MaxViews
        /\ viewCount' = [viewCount EXCEPT ![p] = visit[v].loaded + 1]
        /\ answered' = [answered EXCEPT ![p] = @ + 1]
        /\ visit' = [visit EXCEPT ![v] = Idle]
        /\ UNCHANGED store
CountView(v) ==
    LET p == visit[v].pub
    IN  /\ visit[v].at = "count"
        /\ answered[p] < MaxViews
        /\ viewCount' = [viewCount EXCEPT ![p] = @ + 1]
        /\ answered' = [answered EXCEPT ![p] = @ + 1]
        /\ visit' = [visit EXCEPT ![v] = Idle]
        /\ UNCHANGED store

\* The connection goes away before the commit, or the reader leaves the feed.
Leave(v) ==
    /\ visit[v].at # "idle"
    /\ Goto(v, Idle)

----------------------------------------------------------------------------
(* list_published_publications *)

\* A material without a ready translation is listed with its original.
\* Mutant: the requested localization is an inner join.
ListedTranslated(locale) == {p \in published : Localized(p, locale)}
Listed(locale) == published

\* ORDER BY published_at DESC: materials of one moment come in any order.
Orders(S) ==
    {s \in [1 .. Cardinality(S) -> S] :
        \A i, j \in DOMAIN s : i < j => /\ s[i] # s[j]
                                        /\ publishedAt[s[i]] >= publishedAt[s[j]]}

Ties(S) == \E p, q \in S : p # q /\ publishedAt[p] = publishedAt[q]

BeginFeed(v) ==
    /\ visit[v].at = "idle"
    /\ \E l \in {"source", "other"} :
          Goto(v, [Idle EXCEPT !.at = "feed", !.locale = l, !.must = published])

\* OFFSET offset LIMIT limit
Page(order, offset) ==
    SubSeq(order, offset + 1,
           IF offset + Limit < Len(order) THEN offset + Limit ELSE Len(order))

\* The client goes on until a page is not full.
Turned(s, page, ties) ==
    [s EXCEPT !.at = IF Len(page) < Limit THEN "end" ELSE "feed",
              !.offset = @ + Limit,
              !.seen = @ \cup {page[i] : i \in DOMAIN page},
              !.steady = @ /\ ~ ties]

FetchPage(v) ==
    LET all == Listed(visit[v].locale)
    IN  /\ visit[v].at = "feed"
        /\ \E order \in Orders(all) :
              Goto(v, Turned(visit[v], Page(order, visit[v].offset), Ties(all)))

----------------------------------------------------------------------------
(* journal_candidate_period and list_journal_candidates *)

\* date.replace(day=1)
FirstOfMonth(d) ==
    LET m == CHOOSE m \in 0 .. LastMonth + 1 : Start[m] <= d /\ d < Start[m + 1]
    IN  Start[m]

\* Mutant: three days after the 28th.
PeriodThree(m) == [from  |-> FirstOfMonth(Start[m] - 1),
                   until |-> FirstOfMonth(Start[m] + 27 + 3)]
Period(m) == [from  |-> FirstOfMonth(Start[m] - 1),
              until |-> FirstOfMonth(Start[m] + 27 + 4)]

Candidates(m) ==
    {p \in published \ Digests :
        Period(m).from <= publishedAt[p] /\ publishedAt[p] < Period(m).until}

----------------------------------------------------------------------------

ReaderStep(v) ==
    \/ OpenMaterial(v) \/ SelectLocalized(v) \/ SelectOriginal(v) \/ CountView(v)
    \/ BeginFeed(v) \/ FetchPage(v)
    \/ Leave(v)

Next ==
    \/ Pass
    \/ \E S \in SUBSET Pubs : Publish(S)
    \/ \E p \in Pubs : Withdraw(p) \/ Translate(p)
    \/ \E v \in Readers : ReaderStep(v)

Spec == Init /\ [][Next]_vars

----------------------------------------------------------------------------
(* Properties *)

\* The counter of a material is the number of answers that have shown it:
\* no reader's visit is lost to another's, and a visit that began before the
\* material was withdrawn counts.
ViewsAreCounted == \A p \in Pubs : viewCount[p] = answered[p]

\* Whoever pages through the feed to its end has seen every material that
\* was there at the beginning, translated or not, although others are
\* published, brought back and translated meanwhile; unless one was withdrawn
\* or dated anew on the way, or two were published at the same moment.
PagesMissNothing ==
    \A v \in Readers :
        visit[v].at = "end" /\ visit[v].steady => visit[v].must \subseteq visit[v].seen

\* The candidates for an issue are the materials published in its month or
\* the one before, however long the months are.
CandidatesOfTwoMonths ==
    \A m \in Months :
        Candidates(m) = {p \in published \ Digests :
                            Start[m - 1] <= publishedAt[p] /\ publishedAt[p] < Start[m + 1]}
============================================================================
