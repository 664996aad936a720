--------------------------- MODULE ReadingProofs ---------------------------
(***************************************************************************)
(* Proofs about Reading: the days arithmetic of the candidates' period for *)
(* every calendar whose months have 28 to 31 days, the view counter, and   *)
(* the feed page by page.                                                  *)
(***************************************************************************)
EXTENDS Reading, TLAPS, FiniteSetTheorems, SequenceTheorems, WellFoundedInduction

----------------------------------------------------------------------------
(* The calendar *)

LEMMA MonthsFollow ==
    ASSUME NEW m \in 0 .. LastMonth + 1
    PROVE  /\ Start[m] \in Nat /\ Start[m + 1] \in Nat
           /\ Start[m] + 28 <= Start[m + 1] /\ Start[m + 1] <= Start[m] + 31
  <1>1. LastMonth \in Nat /\ Start \in [0 .. LastMonth + 2 -> Nat]
    BY ReadingAssumption
  <1>2. Start[m] \in Nat /\ Start[m + 1] \in Nat
    BY <1>1
  <1>3. PICK n \in 28 .. 31 : Start[m + 1] = Start[m] + n
    BY ReadingAssumption
  <1>4. QED
    BY <1>2, <1>3

\* A later month begins when an earlier one is over, by the least month for
\* which it would not.
LEMMA MonthsAreOrdered ==
    ASSUME NEW i \in 0 .. LastMonth + 2, NEW j \in 0 .. LastMonth + 2, i < j
    PROVE  Start[i + 1] <= Start[j]
  <1> DEFINE T == {k \in 0 .. LastMonth + 2 : i < k /\ ~ (Start[i + 1] <= Start[k])}
  <1>0. LastMonth \in Nat
    BY ReadingAssumption
  <1>1. SUFFICES ASSUME T # {} PROVE FALSE
    OBVIOUS
  <1>2. T \subseteq Nat
    BY <1>0
  <1>3. PICK k \in T : \A y \in T : ~ (<<y, k>> \in OpToRel(<, Nat))
    <2> HIDE DEF T
    <2>1. QED
      BY <1>1, <1>2, NatLessThanWellFounded, WFMin
  <1>4. \A y \in T : ~ (y < k)
    BY <1>2, <1>3 DEF OpToRel
  <1>5. k # i + 1
    <2>1. i \in 0 .. LastMonth + 1
      BY <1>0
    <2>2. Start[i + 1] \in Nat
      BY <2>1, MonthsFollow
    <2>3. QED
      BY <2>2
  <1>6. k - 1 \in 0 .. LastMonth + 1 /\ i < k - 1
    BY <1>0, <1>5
  <1>7. Start[i + 1] <= Start[k - 1]
    BY <1>0, <1>4, <1>6
  <1>8. Start[k - 1] <= Start[k] /\ Start[k - 1] \in Nat /\ Start[k] \in Nat
    <2>1. k - 1 + 1 = k
      BY <1>6
    <2>2. QED
      BY <1>6, <2>1, MonthsFollow
  <1>9. Start[i + 1] \in Nat
    BY <1>0, MonthsFollow
  <1>10. QED
    BY <1>7, <1>8, <1>9

\* A day is in one month only.
LEMMA FirstOfItsMonth ==
    ASSUME NEW m \in 0 .. LastMonth + 1, NEW d \in Nat, Start[m] <= d, d < Start[m + 1]
    PROVE  FirstOfMonth(d) = Start[m]
  <1> DEFINE In(k) == Start[k] <= d /\ d < Start[k + 1]
  <1>0. LastMonth \in Nat
    BY ReadingAssumption
  <1>1. ASSUME NEW k \in 0 .. LastMonth + 1, In(k) PROVE k = m
    <2>1. /\ Start[k] \in Nat /\ Start[k + 1] \in Nat
          /\ Start[m] \in Nat /\ Start[m + 1] \in Nat
      BY MonthsFollow
    <2>2. k < m => Start[k + 1] <= Start[m]
      BY <1>0, MonthsAreOrdered
    <2>3. m < k => Start[m + 1] <= Start[k]
      BY <1>0, MonthsAreOrdered
    <2>4. QED
      BY <1>0, <1>1, <2>1, <2>2, <2>3
  <1>2. (CHOOSE k \in 0 .. LastMonth + 1 : In(k)) = m
    <2>1. In(m)
      OBVIOUS
    <2> HIDE DEF In
    <2>2. QED
      BY <1>1, <2>1
  <1>3. QED
    BY <1>2 DEF FirstOfMonth

\* The period begins with the month before and ends with the month itself:
\* the first minus one day, and the 28th plus four, of any month.
LEMMA PeriodIsTwoMonths ==
    ASSUME NEW m \in Months
    PROVE  Period(m).from = Start[m - 1] /\ Period(m).until = Start[m + 1]
  <1>1. LastMonth \in Nat /\ m \in 1 .. LastMonth
    BY ReadingAssumption DEF Months
  <1>2. m - 1 \in 0 .. LastMonth + 1 /\ m \in 0 .. LastMonth + 1 /\ m + 1 \in 0 .. LastMonth + 1
        /\ m - 1 + 1 = m
    BY <1>1
  <1>3. PICK a, b, c, e : a = Start[m - 1] /\ b = Start[m] /\ c = Start[m + 1] /\ e = Start[m + 1 + 1]
    OBVIOUS
  <1>4. /\ a \in Nat /\ b \in Nat /\ c \in Nat /\ e \in Nat
        /\ a + 28 <= b /\ b + 28 <= c /\ c <= b + 31 /\ c + 28 <= e
    BY <1>2, <1>3, MonthsFollow
  <1>5. FirstOfMonth(b - 1) = a
    <2>1. b - 1 \in Nat /\ a <= b - 1 /\ b - 1 < b
      BY <1>4
    <2>2. QED
      BY <1>2, <1>3, <2>1, FirstOfItsMonth
  <1>6. FirstOfMonth(b + 27 + 4) = c
    <2>1. b + 27 + 4 \in Nat /\ c <= b + 27 + 4 /\ b + 27 + 4 < e
      BY <1>4
    <2>2. QED
      BY <1>2, <1>3, <2>1, FirstOfItsMonth
  <1>7. QED
    BY <1>3, <1>5, <1>6 DEF Period

LEMMA CandidatesAre == CandidatesOfTwoMonths
  BY PeriodIsTwoMonths DEF CandidatesOfTwoMonths, Candidates

\* For every calendar, the candidates for an issue are the materials of its
\* month and the one before (journal_candidate_period).
THEOREM CandidatesFit == Spec => []CandidatesOfTwoMonths
  BY CandidatesAre, PTL

----------------------------------------------------------------------------
(* The view counter *)

\* A request for a material has one; it is counted and answered only for one
\* that has been published, and its row was loaded no later than now.
Served(s) ==
    /\ s.at \in {"open", "fallback", "count"} => s.pub \in Pubs
    /\ s.at = "count" => s.pub \in dated /\ s.loaded <= viewCount[s.pub]

ReadingInv ==
    /\ ReadingTypeOK
    /\ ViewsAreCounted
    /\ published \subseteq dated
    /\ \A v \in Readers : Served(visit[v])

LEMMA TodayIsNat == \A d \in Days : d \in Nat
  <1>1. LastMonth \in Nat /\ Start \in [0 .. LastMonth + 2 -> Nat]
        /\ Days \subseteq Start[0] .. Start[LastMonth + 2] - 1
    BY ReadingAssumption
  <1>2. Start[0] \in Nat /\ Start[LastMonth + 2] \in Nat
    BY <1>1
  <1>3. QED
    BY <1>1, <1>2

LEMMA IdleVisits == Idle \in Visit /\ Idle.at = "idle"
  BY ReadingAssumption DEF Idle, Visit

LEMMA InitReading == Init => ReadingInv
  <1>1. Init => ReadingTypeOK /\ ViewsAreCounted
    BY TodayIsNat, IdleVisits, ReadingAssumption
    DEF Init, Materials!Init, ReadingTypeOK, ViewsAreCounted
  <1>2. Init => published \subseteq dated
    BY DEF Init, Materials!Init
  <1>3. Init => \A v \in Readers : Served(visit[v])
    BY IdleVisits DEF Init, Served
  <1>4. QED
    BY <1>1, <1>2, <1>3 DEF ReadingInv

\* A material once dated stays so, and a counter never goes back.
LEMMA ServedStays ==
    ASSUME NEW s \in Visit, Served(s), ReadingTypeOK,
           dated \subseteq dated', viewCount' \in [Pubs -> Nat],
           \A p \in Pubs : viewCount[p] <= viewCount'[p]
    PROVE  Served(s)'
  <1>1. ASSUME s.at = "count" PROVE s.pub \in dated' /\ s.loaded <= viewCount'[s.pub]
    <2>1. s.pub \in Pubs /\ s.pub \in dated /\ s.loaded <= viewCount[s.pub]
      BY <1>1 DEF Served
    <2>2. PICK a, b, c : a = s.loaded /\ b = viewCount[s.pub] /\ c = viewCount'[s.pub]
      OBVIOUS
    <2>3. a \in Nat /\ b \in Nat /\ c \in Nat /\ a <= b /\ b <= c
      BY <2>1, <2>2, ReadingAssumption DEF ReadingTypeOK, Visit
    <2>4. a <= c
      BY <2>3
    <2>5. QED
      BY <2>1, <2>2, <2>4
  <1>2. QED
    BY <1>1 DEF Served

LEMMA IdleIsServed == Served(Idle)
  BY IdleVisits DEF Served

LEMMA GoingKeeps ==
    ASSUME ReadingInv, NEW v \in Readers, NEW s \in Visit, Served(s), Goto(v, s)
    PROVE  ReadingInv'
  <1>1. UNCHANGED <<today, published, dated, translated, publishedAt, viewCount, answered>>
        /\ visit' = [visit EXCEPT ![v] = s]
    BY DEF Goto, store
  <1>2. ReadingTypeOK' /\ ViewsAreCounted' /\ published' \subseteq dated'
    BY <1>1 DEF ReadingInv, ReadingTypeOK, ViewsAreCounted
  <1>3. ASSUME NEW w \in Readers PROVE Served(visit[w])'
    <2>1. PICK t : t = visit'[w] /\ t \in {visit[w], s}
      BY <1>1 DEF ReadingInv, ReadingTypeOK
    <2>2. Served(t)
      BY <2>1 DEF ReadingInv
    <2>3. QED
      BY <1>1, <2>1, <2>2 DEF Served
  <1>4. QED
    BY <1>2, <1>3 DEF ReadingInv

\* A page holds materials that are listed.
LEMMA PagesList ==
    ASSUME NEW S \in SUBSET Pubs, NEW order \in Orders(S), NEW n \in Nat
    PROVE  Page(order, n) \in Seq(S)
  <1>1. Cardinality(S) \in Nat
    BY ReadingAssumption, FS_Subset, FS_CardinalityType
  <1>2. order \in Seq(S)
    BY <1>1 DEF Orders
  <1>3. PICK e : e = IF n + Limit < Len(order) THEN n + Limit ELSE Len(order)
    OBVIOUS
  <1>4. e \in Nat /\ e <= Len(order) /\ n + 1 \in Int
    BY <1>2, <1>3, ReadingAssumption
  <1>5. \A i \in n + 1 .. e : order[i] \in S
    BY <1>2, <1>4
  <1>6. SubSeq(order, n + 1, e) \in Seq(S)
    BY <1>4, <1>5, SubSeqProperties
  <1>7. QED
    BY <1>3, <1>6 DEF Page

LEMMA TurnedVisits ==
    ASSUME NEW s \in Visit, NEW S \in SUBSET Pubs, NEW page \in Seq(S), NEW ties \in BOOLEAN
    PROVE  /\ Turned(s, page, ties) \in Visit
           /\ Turned(s, page, ties).at \in {"feed", "end"}
  <1>1. /\ (IF Len(page) < Limit THEN "end" ELSE "feed") \in {"end", "feed"}
        /\ s.offset + Limit \in Nat
    BY ReadingAssumption DEF Visit
  <1>2. s.seen \cup {page[i] : i \in DOMAIN page} \in SUBSET Pubs
    BY DEF Visit
  <1>3. (s.steady /\ ~ ties) \in BOOLEAN
    OBVIOUS
  <1>4. QED
    BY <1>1, <1>2, <1>3 DEF Turned, Visit

LEMMA ReadersKeep == ASSUME ReadingInv, NEW v \in Readers, ReaderStep(v) PROVE ReadingInv'
  <1>0. /\ visit[v] \in Visit /\ viewCount \in [Pubs -> 0 .. MaxViews]
        /\ answered \in [Pubs -> 0 .. MaxViews] /\ \A p \in Pubs : viewCount[p] = answered[p]
        /\ MaxViews \in Nat /\ None \notin Pubs
    BY ReadingAssumption DEF ReadingInv, ReadingTypeOK, ViewsAreCounted
  <1>1. CASE OpenMaterial(v)
    <2>1. PICK p \in Pubs, l \in {"source", "other"} :
             Goto(v, [Idle EXCEPT !.at = "open", !.pub = p, !.locale = l])
      BY <1>1 DEF OpenMaterial
    <2>2. /\ [Idle EXCEPT !.at = "open", !.pub = p, !.locale = l] \in Visit
          /\ Served([Idle EXCEPT !.at = "open", !.pub = p, !.locale = l])
      BY IdleVisits DEF Visit, Served
    <2>3. QED
      BY <2>1, <2>2, GoingKeeps
  <1>2. ASSUME Found(v), visit[v].pub \in published PROVE ReadingInv'
    <2>1. viewCount[visit[v].pub] \in 0 .. MaxViews
      BY <1>0, <1>2 DEF ReadingInv, ReadingTypeOK
    <2> DEFINE s == [visit[v] EXCEPT !.at = "count", !.loaded = viewCount[visit[v].pub]]
    <2>2. /\ s \in Visit /\ s.pub = visit[v].pub /\ s.at = "count"
          /\ s.loaded = viewCount[visit[v].pub]
      BY <1>0, <2>1 DEF Visit
    <2>3. visit[v].pub \in dated /\ visit[v].pub \in Pubs
      BY <1>2 DEF ReadingInv, ReadingTypeOK
    <2>4. Goto(v, s)
      BY <1>2 DEF Found
    <2> HIDE DEF s
    <2>5. Served(s)
      <3>1. PICK n \in 0 .. MaxViews : n = viewCount[visit[v].pub]
        BY <2>1
      <3>2. n <= n
        BY <1>0, <3>1
      <3>3. QED
        BY <2>2, <2>3, <3>1, <3>2 DEF Served
    <2>6. QED
      BY <2>2, <2>4, <2>5, GoingKeeps
  <1>3. CASE SelectLocalized(v)
    <2>1. visit[v].pub \in Pubs
      BY <1>3 DEF SelectLocalized, ReadingInv, Served
    <2>2. /\ [visit[v] EXCEPT !.at = "fallback"] \in Visit
          /\ Served([visit[v] EXCEPT !.at = "fallback"])
      BY <1>0, <2>1 DEF Visit, Served
    <2>3. QED
      BY <1>2, <1>3, <2>2, GoingKeeps DEF SelectLocalized
  <1>4. CASE SelectOriginal(v)
    BY <1>2, <1>4, IdleVisits, IdleIsServed, GoingKeeps DEF SelectOriginal
  <1>5. CASE CountView(v)
    <2>1. PICK p \in Pubs : p = visit[v].pub
      BY <1>5 DEF CountView, ReadingInv, Served
    <2>2. /\ answered[p] < MaxViews
          /\ viewCount' = [viewCount EXCEPT ![p] = @ + 1]
          /\ answered' = [answered EXCEPT ![p] = @ + 1]
          /\ visit' = [visit EXCEPT ![v] = Idle]
          /\ UNCHANGED <<today, published, dated, translated, publishedAt>>
      BY <1>5, <2>1 DEF CountView, store
    <2>3. /\ viewCount' \in [Pubs -> 0 .. MaxViews] /\ answered' \in [Pubs -> 0 .. MaxViews]
          /\ \A q \in Pubs : viewCount'[q] = answered'[q]
      <3>1. answered[p] + 1 \in 0 .. MaxViews /\ viewCount[p] + 1 = answered[p] + 1
        BY <1>0, <2>2
      <3>2. QED
        BY <1>0, <2>2, <3>1
    <2>4. visit' \in [Readers -> Visit]
      BY <2>2, IdleVisits DEF ReadingInv, ReadingTypeOK
    <2>5. ReadingTypeOK' /\ ViewsAreCounted' /\ published' \subseteq dated'
      BY <2>2, <2>3, <2>4 DEF ReadingInv, ReadingTypeOK, ViewsAreCounted
    <2>6. \A q \in Pubs : viewCount[q] <= viewCount'[q]
      <3>1. ASSUME NEW q \in Pubs PROVE viewCount[q] <= viewCount'[q]
        <4>1. PICK n \in Nat : n = viewCount[q]
          BY <1>0
        <4>2. viewCount'[q] = n \/ viewCount'[q] = n + 1
          BY <1>0, <2>2, <4>1
        <4>3. QED
          BY <4>1, <4>2
      <3>2. QED
        BY <3>1
    <2>7. viewCount' \in [Pubs -> Nat]
      BY <1>0, <2>3
    <2>8. ASSUME NEW w \in Readers PROVE Served(visit[w])'
      <3>1. PICK t \in Visit : t = visit'[w] /\ t \in {visit[w], Idle}
        BY <2>2, <2>4 DEF ReadingInv, ReadingTypeOK
      <3>2. Served(t)
        BY <3>1, IdleIsServed DEF ReadingInv
      <3>3. Served(t)'
        BY <2>2, <2>6, <2>7, <3>2, ServedStays DEF ReadingInv
      <3>4. QED
        BY <3>1, <3>3 DEF Served
    <2>9. QED
      BY <2>5, <2>8 DEF ReadingInv
  <1>6. CASE BeginFeed(v)
    <2>1. PICK l \in {"source", "other"} :
             Goto(v, [Idle EXCEPT !.at = "feed", !.locale = l, !.must = published])
      BY <1>6 DEF BeginFeed
    <2>2. /\ [Idle EXCEPT !.at = "feed", !.locale = l, !.must = published] \in Visit
          /\ Served([Idle EXCEPT !.at = "feed", !.locale = l, !.must = published])
      BY IdleVisits DEF Visit, ReadingInv, ReadingTypeOK, Served
    <2>3. QED
      BY <2>1, <2>2, GoingKeeps
  <1>7. CASE FetchPage(v)
    <2>1. PICK S \in SUBSET Pubs : S = Listed(visit[v].locale)
      BY DEF Listed, ReadingInv, ReadingTypeOK
    <2>2. PICK order \in Orders(S) :
             Goto(v, Turned(visit[v], Page(order, visit[v].offset), Ties(S)))
      BY <1>7, <2>1 DEF FetchPage
    <2>3. Page(order, visit[v].offset) \in Seq(S)
      BY <1>0, PagesList DEF Visit
    <2>4. Ties(S) \in BOOLEAN
      BY DEF Ties
    <2>5. /\ Turned(visit[v], Page(order, visit[v].offset), Ties(S)) \in Visit
          /\ Turned(visit[v], Page(order, visit[v].offset), Ties(S)).at \in {"feed", "end"}
      BY <1>0, <2>3, <2>4, TurnedVisits
    <2>6. QED
      BY <2>2, <2>5, GoingKeeps DEF Served
  <1>8. CASE Leave(v)
    BY <1>8, IdleVisits, IdleIsServed, GoingKeeps DEF Leave
  <1>9. QED
    BY <1>1, <1>3, <1>4, <1>5, <1>6, <1>7, <1>8 DEF ReaderStep

\* What the editorial core may do meanwhile.
Surroundings ==
    \/ Pass
    \/ \E S \in SUBSET Pubs : Publish(S)
    \/ \E p \in Pubs : Withdraw(p) \/ Translate(p)

LEMMA DisturbedVisits == ASSUME ReadingInv PROVE Disturbed \in [Readers -> Visit]
  <1>1. \A s \in Visit : [s EXCEPT !.steady = FALSE] \in Visit
    BY DEF Visit
  <1>2. QED
    BY <1>1 DEF Disturbed, ReadingInv, ReadingTypeOK

\* Nobody outside touches a counter or a request for a material.
LEMMA OthersServe ==
    ASSUME ReadingInv, UNCHANGED viewCount, dated \subseteq dated',
           visit' \in {visit, Disturbed}
    PROVE  \A v \in Readers : Served(visit[v])'
  <1>1. ASSUME NEW v \in Readers PROVE Served(visit[v])'
    <2>1. PICK s \in Visit : s = visit[v]
      BY DEF ReadingInv, ReadingTypeOK
    <2>2. PICK t : t = visit'[v]
      OBVIOUS
    <2>3. t \in {s, [s EXCEPT !.steady = FALSE]}
      <3>1. CASE visit' = visit
        BY <2>1, <2>2, <3>1
      <3>2. CASE visit' = Disturbed
        BY <2>1, <2>2, <3>2 DEF Disturbed
      <3>3. QED
        BY <3>1, <3>2
    <2>4. Served(s) /\ (t.at = s.at /\ t.pub = s.pub /\ t.loaded = s.loaded)
      BY <2>1, <2>3 DEF ReadingInv, Visit
    <2>5. Served(s)'
      BY <2>4 DEF Served
    <2>6. QED
      BY <2>2, <2>4, <2>5 DEF Served
  <1>2. QED
    BY <1>1

LEMMA SurroundingsKeep == ASSUME ReadingInv, Surroundings PROVE ReadingInv'
  <1>0. today \in Nat /\ published \in SUBSET Pubs /\ dated \in SUBSET Pubs
        /\ translated \in SUBSET Pubs /\ publishedAt \in [Pubs -> Nat]
        /\ published \subseteq dated /\ visit \in [Readers -> Visit]
    BY DEF ReadingInv, ReadingTypeOK
  <1>1. ASSUME today' \in Nat, published' \in SUBSET Pubs, dated' \in SUBSET Pubs,
               translated' \in SUBSET Pubs, publishedAt' \in [Pubs -> Nat],
               UNCHANGED <<viewCount, answered>>, published' \subseteq dated',
               dated \subseteq dated', visit' \in {visit, Disturbed}
        PROVE  ReadingInv'
    <2>1. visit' \in [Readers -> Visit]
      BY <1>0, <1>1, DisturbedVisits
    <2>2. ReadingTypeOK' /\ ViewsAreCounted'
      BY <1>1, <2>1 DEF ReadingInv, ReadingTypeOK, ViewsAreCounted
    <2>3. QED
      BY <1>1, <2>2, OthersServe DEF ReadingInv
  <1>2. CASE Pass
    <2>1. today' \in Nat
      BY <1>2, TodayIsNat DEF Pass
    <2>2. QED
      BY <1>0, <1>1, <1>2, <2>1 DEF Pass
  <1>3. ASSUME NEW S \in SUBSET Pubs, Publish(S) PROVE ReadingInv'
    <2>1. PICK now \in SUBSET S :
             /\ publishedAt' = [p \in Pubs |-> IF p \in now THEN today ELSE publishedAt[p]]
             /\ visit' = IF now \cap published = {} THEN visit ELSE Disturbed
      BY <1>3 DEF Publish
    <2>2. publishedAt' \in [Pubs -> Nat]
      BY <1>0, <2>1
    <2>3. visit' \in {visit, Disturbed}
      BY <2>1
    <2>4. /\ published' = published \cup S /\ dated' = dated \cup S
          /\ UNCHANGED <<today, translated, viewCount, answered>>
      BY <1>3 DEF Publish, Materials!Publish
    <2>5. published' \in SUBSET Pubs /\ dated' \in SUBSET Pubs
          /\ published' \subseteq dated' /\ dated \subseteq dated'
      BY <1>0, <2>4
    <2>6. QED
      BY <1>0, <1>1, <2>2, <2>3, <2>4, <2>5
  <1>4. ASSUME NEW p \in Pubs, Withdraw(p) PROVE ReadingInv'
    BY <1>0, <1>1, <1>4 DEF Withdraw, Materials!Withdraw
  <1>5. ASSUME NEW p \in Pubs, Translate(p) PROVE ReadingInv'
    BY <1>0, <1>1, <1>5 DEF Translate, Materials!Translate
  <1>6. QED
    BY <1>2, <1>3, <1>4, <1>5 DEF Surroundings

LEMMA NextReading == ReadingInv /\ [Next]_vars => ReadingInv'
  <1> SUFFICES ASSUME ReadingInv, [Next]_vars PROVE ReadingInv'
    OBVIOUS
  <1>1. CASE UNCHANGED vars
    <2>1. UNCHANGED <<today, published, dated, translated, publishedAt, viewCount, answered, visit>>
      BY <1>1 DEF vars, store
    <2>2. QED
      BY <2>1 DEF ReadingInv, ReadingTypeOK, ViewsAreCounted, Served
  <1>2. QED
    BY <1>1, ReadersKeep, SurroundingsKeep DEF Next, Surroundings

\* In every reachable state, what is shown is dated, and a reader about to be
\* answered has a material that was published once, withdrawn since or not,
\* and a counter that has not gone back (get_published_publication).
THEOREM ReadingInvariant == Spec => []ReadingInv
  BY InitReading, NextReading, PTL DEF Spec

\* However readers overlap, the counter of a material is the number of
\* answers that have shown it (get_published_publication).
THEOREM EveryViewCounts == Spec => []ViewsAreCounted
  <1>1. ReadingInv => ViewsAreCounted
    BY DEF ReadingInv
  <1>2. QED
    BY ReadingInvariant, <1>1, PTL

----------------------------------------------------------------------------
(* The feed.  A material's place in the feed is given by the materials     *)
(* published after it.  None of them goes away while a visit is steady, so *)
(* what has not been seen yet lies at or beyond the offset.                *)

Ahead(p) == {q \in published : publishedAt[q] > publishedAt[p]}

Paging(s) ==
    s.steady =>
        /\ s.at = "feed" => \A p \in s.must :
              p \in published /\ (p \in s.seen \/ Cardinality(Ahead(p)) >= s.offset)
        /\ s.at = "end" => s.must \subseteq s.seen

FeedInv == ReadingInv /\ \A v \in Readers : Paging(visit[v])

\* Without ties there is one order, and it lists everything at its place.
LEMMA PlaceInOrder ==
    ASSUME ReadingInv, NEW order \in Orders(published), ~ Ties(published), NEW p \in published
    PROVE  \E i \in 1 .. Cardinality(published) :
              order[i] = p /\ Cardinality(Ahead(p)) = i - 1
  <1> DEFINE S == published
             n == Cardinality(S)
  <1>1. IsFiniteSet(S) /\ n \in Nat /\ S \subseteq Pubs
    <2>1. S \in SUBSET Pubs
      BY DEF ReadingInv, ReadingTypeOK
    <2>2. QED
      BY <2>1, ReadingAssumption, FS_Subset, FS_CardinalityType
  <1>2. /\ order \in [1 .. n -> S]
        /\ \A i, j \in 1 .. n : i < j => order[i] # order[j] /\ publishedAt[order[i]] >= publishedAt[order[j]]
    BY DEF Orders
  <1>3. \A q \in S : publishedAt[q] \in Nat
    BY <1>1 DEF ReadingInv, ReadingTypeOK
  <1> HIDE DEF S, n
  <1>4. \A i, j \in 1 .. n : i < j => publishedAt[order[i]] > publishedAt[order[j]]
    <2>1. ASSUME NEW i \in 1 .. n, NEW j \in 1 .. n, i < j
          PROVE  publishedAt[order[i]] > publishedAt[order[j]]
      <3>1. order[i] \in S /\ order[j] \in S /\ order[i] # order[j]
        BY <1>2, <2>1
      <3>2. publishedAt[order[i]] # publishedAt[order[j]]
        BY <3>1 DEF Ties, S
      <3>3. QED
        BY <1>2, <1>3, <2>1, <3>1, <3>2
    <2>2. QED
      BY <2>1
  <1>5. order \in Surjection(1 .. n, S)
    <2>1. order \in Injection(1 .. n, S)
      <3>1. \A i, j \in 1 .. n : order[i] = order[j] => i = j
        <4>1. ASSUME NEW i \in 1 .. n, NEW j \in 1 .. n, order[i] = order[j] PROVE i = j
          <5>1. ~ (i < j) /\ ~ (j < i)
            BY <1>2, <4>1
          <5>2. QED
            BY <1>1, <5>1
        <4>2. QED
          BY <4>1
      <3>2. QED
        BY <1>2, <3>1 DEF Injection, IsInjective
    <2>2. IsFiniteSet(1 .. n) /\ Cardinality(1 .. n) = n
      BY <1>1, FS_Interval
    <2>3. QED
      BY <1>1, <2>1, <2>2, FS_Injection DEF n
  <1>6. PICK i \in 1 .. n : order[i] = p
    BY <1>5 DEF Surjection, S
  <1>7. \A j \in 1 .. n : order[j] \in Ahead(p) <=> j < i
    <2>1. ASSUME NEW j \in 1 .. n PROVE order[j] \in Ahead(p) <=> j < i
      <3>1. order[j] \in S /\ publishedAt[order[j]] \in Nat /\ publishedAt[p] \in Nat
        BY <1>2, <1>3 DEF S
      <3>2. CASE j < i
        BY <1>4, <1>6, <3>1, <3>2 DEF Ahead, S
      <3>3. CASE j = i
        BY <1>6, <3>1, <3>3 DEF Ahead
      <3>4. CASE j > i
        <4>1. publishedAt[p] > publishedAt[order[j]]
          BY <1>4, <1>6, <3>4
        <4>2. QED
          BY <3>1, <3>4, <4>1, <1>1 DEF Ahead
      <3>5. QED
        BY <1>1, <3>2, <3>3, <3>4
    <2>2. QED
      BY <2>1
  <1>8. Cardinality(Ahead(p)) = i - 1
    <2> DEFINE f == [j \in 1 .. i - 1 |-> order[j]]
    <2>1. i - 1 \in Nat /\ \A j \in 1 .. i - 1 : j \in 1 .. n /\ j < i
      BY <1>1
    <2>2. f \in [1 .. i - 1 -> Ahead(p)]
      BY <1>7, <2>1
    <2>3. \A j, k \in 1 .. i - 1 : f[j] = f[k] => j = k
      <3>1. ASSUME NEW j \in 1 .. i - 1, NEW k \in 1 .. i - 1, f[j] = f[k] PROVE j = k
        <4>1. order[j] = order[k] /\ j \in 1 .. n /\ k \in 1 .. n
          BY <2>1, <3>1
        <4>2. ~ (j < k) /\ ~ (k < j)
          BY <1>2, <4>1
        <4>3. QED
          BY <1>1, <4>1, <4>2
      <3>2. QED
        BY <3>1
    <2>4. \A q \in Ahead(p) : \E j \in 1 .. i - 1 : f[j] = q
      <3>1. ASSUME NEW q \in Ahead(p) PROVE \E j \in 1 .. i - 1 : f[j] = q
        <4>1. q \in S
          BY DEF Ahead, S
        <4>2. PICK j \in 1 .. n : order[j] = q
          BY <1>5, <4>1 DEF Surjection
        <4>3. j \in 1 .. i - 1
          BY <1>7, <4>2
        <4>4. QED
          BY <4>2, <4>3
      <3>2. QED
        BY <3>1
    <2> HIDE DEF f
    <2>5. f \in Bijection(1 .. i - 1, Ahead(p))
      BY <2>2, <2>3, <2>4 DEF Bijection, Injection, IsInjective, Surjection
    <2>6. QED
      BY <2>1, <2>5, FS_CountingElements DEF ExistsBijection
  <1>9. QED
    BY <1>6, <1>8 DEF n, S

LEMMA AheadIsFinite ==
    ASSUME NEW p, ReadingInv
    PROVE  IsFiniteSet(Ahead(p)) /\ Cardinality(Ahead(p)) \in Nat
  <1>1. Ahead(p) \in SUBSET Pubs
    BY DEF Ahead, ReadingInv, ReadingTypeOK
  <1>2. QED
    BY <1>1, ReadingAssumption, FS_Subset, FS_CardinalityType

\* A page shows what was next, and one that is not full is the last.
LEMMA TurnPage ==
    ASSUME ReadingInv, NEW s \in Visit, s.at = "feed", Paging(s),
           NEW order \in Orders(published)
    PROVE  Paging(Turned(s, Page(order, s.offset), Ties(published)))
  <1> DEFINE page == Page(order, s.offset)
             t == Turned(s, page, Ties(published))
             o == s.offset
             n == Len(order)
  <1>1. /\ t.steady = (s.steady /\ ~ Ties(published)) /\ t.must = s.must
        /\ t.at = IF Len(page) < Limit THEN "end" ELSE "feed"
        /\ t.offset = o + Limit /\ t.seen = s.seen \cup {page[i] : i \in DOMAIN page}
    BY DEF Turned, Visit
  <1>2. SUFFICES ASSUME s.steady, ~ Ties(published), NEW p \in s.must
                 PROVE  /\ p \in published
                        /\ p \notin t.seen => t.at = "feed" /\ Cardinality(Ahead(p)) >= o + Limit
    BY <1>1 DEF Paging
  <1>3. /\ p \in published /\ (p \in s.seen \/ Cardinality(Ahead(p)) >= o)
        /\ o \in Nat /\ Limit \in Nat \ {0}
    BY <1>2, ReadingAssumption DEF Paging, Visit
  <1>4. SUFFICES ASSUME p \notin t.seen
                 PROVE  t.at = "feed" /\ Cardinality(Ahead(p)) >= o + Limit
    BY <1>3
  <1>5. PICK i \in 1 .. Cardinality(published) : order[i] = p /\ Cardinality(Ahead(p)) = i - 1
    BY <1>2, <1>3, PlaceInOrder
  <1>6. order \in Seq(published) /\ n = Cardinality(published) /\ n \in Nat
    <2>1. published \in SUBSET Pubs
      BY DEF ReadingInv, ReadingTypeOK
    <2>2. Cardinality(published) \in Nat
      BY <2>1, ReadingAssumption, FS_Subset, FS_CardinalityType
    <2>3. QED
      BY <2>2 DEF Orders
  <1>7. i > o
    BY <1>1, <1>3, <1>4, <1>5
  <1>8. PICK e : e = IF o + Limit < n THEN o + Limit ELSE n
    OBVIOUS
  <1>9. page = SubSeq(order, o + 1, e) /\ e \in Nat /\ e <= n
    BY <1>3, <1>6, <1>8 DEF Page
  <1>10. /\ page \in Seq(published) /\ Len(page) = IF o + 1 <= e THEN e - (o + 1) + 1 ELSE 0
         /\ \A j \in 1 .. e - (o + 1) + 1 : page[j] = order[o + 1 + j - 1]
    <2>1. \A j \in o + 1 .. e : order[j] \in published
      BY <1>3, <1>6, <1>9
    <2> HIDE DEF page, o, n, t
    <2>2. o + 1 \in Int /\ e \in Int
      BY <1>3, <1>9
    <2>3. /\ SubSeq(order, o + 1, e) \in Seq(published)
          /\ Len(SubSeq(order, o + 1, e)) = IF o + 1 <= e THEN e - (o + 1) + 1 ELSE 0
          /\ \A j \in 1 .. e - (o + 1) + 1 : SubSeq(order, o + 1, e)[j] = order[o + 1 + j - 1]
      BY <2>1, <2>2, SubSeqProperties
    <2>4. QED
      BY <1>9, <2>3
  <1> HIDE DEF page, o, n, t
  <1>11. i <= n
    BY <1>5, <1>6
  <1>12. i > e
    <2>1. SUFFICES ASSUME i <= e PROVE FALSE
      BY <1>5, <1>9
    <2>2. PICK j : j = i - o
      OBVIOUS
    <2>3. j \in 1 .. e - (o + 1) + 1 /\ o + 1 + j - 1 = i
      BY <1>3, <1>5, <1>7, <1>9, <2>1, <2>2
    <2>4. j \in DOMAIN page /\ page[j] = p
      BY <1>5, <1>9, <1>10, <1>3, <2>3
    <2>5. QED
      BY <1>1, <1>4, <2>4
  <1>13. e = o + Limit
    BY <1>6, <1>8, <1>11, <1>12, <1>3, <1>5
  <1>14. Len(page) = Limit
    BY <1>3, <1>10, <1>13
  <1>15. QED
    BY <1>1, <1>3, <1>5, <1>12, <1>13, <1>14

----------------------------------------------------------------------------

\* Nothing that a steady visit looks for goes away.
LEMMA PagingStays ==
    ASSUME ReadingInv, ReadingInv', NEW s \in Visit, Paging(s),
           published \subseteq published',
           \A p \in published : publishedAt'[p] = publishedAt[p]
    PROVE  Paging(s)'
  <1>1. ASSUME NEW p \in published, NEW o \in Nat, Cardinality(Ahead(p)) >= o
        PROVE  Cardinality(Ahead(p)') >= o
    <2>1. Ahead(p) \in SUBSET Ahead(p)'
      BY DEF Ahead
    <2>2. IsFiniteSet(Ahead(p)') /\ Cardinality(Ahead(p)') \in Nat
      <3>1. Ahead(p)' \in SUBSET Pubs
        BY DEF Ahead, ReadingInv, ReadingTypeOK
      <3>2. QED
        BY <3>1, ReadingAssumption, FS_Subset, FS_CardinalityType
    <2>3. Cardinality(Ahead(p)) <= Cardinality(Ahead(p)') /\ Cardinality(Ahead(p)) \in Nat
      BY <2>1, <2>2, FS_Subset, AheadIsFinite
    <2>4. QED
      BY <1>1, <2>2, <2>3
  <1>2. s.offset \in Nat
    BY DEF Visit
  <1>3. QED
    BY <1>1, <1>2 DEF Paging

\* The table of visits after a step of one reader.
LEMMA OneReaderMoves ==
    ASSUME FeedInv, ReadingInv', NEW v \in Readers, NEW s, Goto(v, s), Paging(s)
    PROVE  FeedInv'
  <1>1. UNCHANGED <<published, publishedAt>>
    BY DEF Goto, store
  <1>2. ASSUME NEW w \in Readers PROVE Paging(visit[w])'
    <2>1. visit'[w] = IF w = v THEN s ELSE visit[w]
      BY DEF Goto, FeedInv, ReadingInv, ReadingTypeOK
    <2>2. Paging(visit[w]) /\ Paging(s)
      BY DEF FeedInv
    <2>3. QED
      BY <1>1, <2>1, <2>2 DEF Paging, Ahead
  <1>3. QED
    BY <1>2 DEF FeedInv

LEMMA FeedReaders == ASSUME FeedInv, NEW v \in Readers, ReaderStep(v) PROVE FeedInv'
  <1>0. ReadingInv /\ ReadingInv' /\ visit[v] \in Visit /\ Paging(visit[v])
    BY ReadersKeep DEF FeedInv, ReadingInv, ReadingTypeOK
  <1>1. ASSUME NEW s, Goto(v, s), s.at \notin {"feed", "end"} PROVE FeedInv'
    BY <1>0, <1>1, OneReaderMoves DEF Paging
  <1>2. CASE OpenMaterial(v) \/ SelectLocalized(v) \/ SelectOriginal(v) \/ Leave(v)
    BY <1>0, <1>1, <1>2 DEF OpenMaterial, SelectLocalized, SelectOriginal, Found, Leave, Idle, Visit
  <1>3. CASE CountView(v)
    <2>1. UNCHANGED <<published, publishedAt>>
      BY <1>3 DEF CountView, store
    <2>2. \A w \in Readers : visit'[w] = visit[w] \/ visit'[w].at = "idle"
      BY <1>3 DEF CountView, Idle, FeedInv, ReadingInv, ReadingTypeOK
    <2>3. QED
      BY <1>0, <2>1, <2>2 DEF FeedInv, Paging, Ahead
  <1>4. CASE BeginFeed(v)
    <2>1. PICK l \in {"source", "other"} :
             Goto(v, [Idle EXCEPT !.at = "feed", !.locale = l, !.must = published])
      BY <1>4 DEF BeginFeed
    <2>2. PICK s : s = [Idle EXCEPT !.at = "feed", !.locale = l, !.must = published]
      OBVIOUS
    <2>3. s.at = "feed" /\ s.must = published /\ s.offset = 0
      BY <2>2 DEF Idle
    <2>4. \A p \in published : Cardinality(Ahead(p)) >= 0
      BY <1>0, AheadIsFinite
    <2>5. Paging(s)
      BY <2>3, <2>4 DEF Paging
    <2>6. QED
      BY <1>0, <2>1, <2>2, <2>5, OneReaderMoves
  <1>5. CASE FetchPage(v)
    <2>1. PICK order \in Orders(published) :
             Goto(v, Turned(visit[v], Page(order, visit[v].offset), Ties(published)))
      BY <1>5 DEF FetchPage, Listed
    <2>2. Paging(Turned(visit[v], Page(order, visit[v].offset), Ties(published)))
      BY <1>0, <1>5, TurnPage DEF FetchPage
    <2>3. QED
      BY <1>0, <2>1, <2>2, OneReaderMoves
  <1>6. QED
    BY <1>2, <1>3, <1>4, <1>5 DEF ReaderStep

LEMMA FeedSurroundings == ASSUME FeedInv, Surroundings PROVE FeedInv'
  <1>0. ReadingInv /\ ReadingInv' /\ \A v \in Readers : visit[v] \in Visit /\ Paging(visit[v])
    BY SurroundingsKeep DEF FeedInv, ReadingInv, ReadingTypeOK
  <1>1. ASSUME UNCHANGED visit, published \subseteq published',
               \A p \in published : publishedAt'[p] = publishedAt[p]
        PROVE  FeedInv'
    <2>1. ASSUME NEW v \in Readers PROVE Paging(visit[v])'
      <3>1. PICK s \in Visit : s = visit[v] /\ s = visit'[v]
        BY <1>0, <1>1
      <3>2. Paging(s)'
        BY <1>0, <1>1, <3>1, PagingStays
      <3>3. QED
        BY <3>1, <3>2 DEF Paging
    <2>2. QED
      BY <1>0, <2>1 DEF FeedInv
  <1>2. ASSUME visit' = Disturbed PROVE FeedInv'
    <2>1. ASSUME NEW v \in Readers PROVE Paging(visit[v])'
      <3>1. visit'[v] = IF visit[v].at = "feed" THEN [visit[v] EXCEPT !.steady = FALSE] ELSE visit[v]
        BY <1>2 DEF Disturbed
      <3>2. CASE visit[v].at = "feed"
        <4>1. ~ visit'[v].steady
          BY <1>0, <3>1, <3>2 DEF Visit
        <4>2. QED
          BY <4>1 DEF Paging
      <3>3. CASE visit[v].at # "feed"
        BY <1>0, <3>1, <3>3 DEF Paging
      <3>4. QED
        BY <3>2, <3>3
    <2>2. QED
      BY <1>0, <2>1 DEF FeedInv
  <1>3. CASE Pass
    BY <1>1, <1>3 DEF Pass
  <1>4. ASSUME NEW S \in SUBSET Pubs, Publish(S) PROVE FeedInv'
    <2>1. PICK now \in SUBSET S :
             /\ publishedAt' = [p \in Pubs |-> IF p \in now THEN today ELSE publishedAt[p]]
             /\ visit' = IF now \cap published = {} THEN visit ELSE Disturbed
      BY <1>4 DEF Publish
    <2>2. published \subseteq published' /\ published \subseteq Pubs
      BY <1>0, <1>4 DEF Publish, Materials!Publish, ReadingInv, ReadingTypeOK
    <2>3. CASE now \cap published = {}
      <3>1. \A p \in published : publishedAt'[p] = publishedAt[p]
        BY <2>1, <2>2, <2>3
      <3>2. QED
        BY <1>1, <2>1, <2>2, <2>3, <3>1
    <2>4. QED
      BY <1>2, <2>1, <2>3
  <1>5. ASSUME NEW p \in Pubs, Withdraw(p) PROVE FeedInv'
    BY <1>2, <1>5 DEF Withdraw
  <1>6. ASSUME NEW p \in Pubs, Translate(p) PROVE FeedInv'
    BY <1>1, <1>6 DEF Translate, Materials!Translate
  <1>7. QED
    BY <1>3, <1>4, <1>5, <1>6 DEF Surroundings

LEMMA NextFeed == FeedInv /\ [Next]_vars => FeedInv'
  <1> SUFFICES ASSUME FeedInv, [Next]_vars PROVE FeedInv'
    OBVIOUS
  <1>1. CASE UNCHANGED vars
    <2>1. ReadingInv'
      BY <1>1, NextReading DEF FeedInv
    <2>2. UNCHANGED <<published, publishedAt, visit>>
      BY <1>1 DEF vars, store
    <2>3. QED
      BY <2>1, <2>2 DEF FeedInv, Paging, Ahead
  <1>2. QED
    BY <1>1, FeedReaders, FeedSurroundings DEF Next, Surroundings

\* What a reader has yet to see lies ahead of the offset in every reachable
\* state (list_published_publications).
THEOREM FeedInvariant == Spec => []FeedInv
  <1>1. Init => FeedInv
    BY InitReading DEF Init, Idle, FeedInv, Paging
  <1>2. QED
    BY <1>1, NextFeed, PTL DEF Spec

\* Whoever pages to the end of the feed has seen all that was in it at the
\* beginning (list_published_publications), for any page length and any
\* number of materials.
THEOREM PagingIsComplete == Spec => []PagesMissNothing
  <1>1. FeedInv => PagesMissNothing
    BY DEF FeedInv, Paging, PagesMissNothing
  <1>2. QED
    BY FeedInvariant, <1>1, PTL
============================================================================
