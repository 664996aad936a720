--------------------------- MODULE JournalProofs ---------------------------
(***************************************************************************)
(* The properties of JournalIssues, proved for any number of issues,       *)
(* publications and overlapping requests.                                  *)
(*                                                                         *)
(* A request that is under way holds the row lock of a draft, so what it   *)
(* has read of the issue is still what the issue is when it commits, and   *)
(* the snapshots it has taken are those of the materials it has passed.    *)
(***************************************************************************)
EXTENDS JournalIssues, TLAPS

USE JournalAssumption

\* A request under way has a draft to itself.
Holds(r) ==
    rq[r].at # "idle" =>
        /\ rq[r].issue \in Issues
        /\ lock[rq[r].issue] = r
        /\ issue[rq[r].issue].status = "draft"

\* Pages and materials that show the same publications.
Consistent(d) == d.materials # {} => d.layout \in {{}, d.materials}

\* What save_issue and replace_issue_publications make of issue i.
Draft(i, d) ==
    /\ d.status = "draft"
    /\ \/ d.layout = d.materials
       \/ (d.layout = {} /\ d.period = issue[i].period)

\* A request that stores a draft.
Stores(r) ==
    rq[r].at \in {"items", "store"} => Draft(rq[r].issue, rq[r].draft)

\* A request that publishes an issue.
Publishes(r) ==
    rq[r].at \in {"materials", "texts"} =>
        /\ rq[r].draft = issue[rq[r].issue]
        /\ rq[r].todo \subseteq rq[r].draft.materials
        /\ \A p \in Pubs : rq[r].taken[p] # None
                              <=> p \in rq[r].draft.materials \ rq[r].todo
        /\ rq[r].at = "texts" => rq[r].now \in rq[r].todo

Inv ==
    /\ TypeOK
    /\ LayoutIsOfMaterials
    /\ PublishedIsComplete
    /\ \A r \in Requests : Holds(r) /\ Stores(r) /\ Publishes(r)

----------------------------------------------------------------------------

LEMMA RowTypes ==
    /\ NoIssue \in Issue
    /\ NoSnapshot \in Snapshots
    /\ Idle \in Request
    /\ Idle.at = "idle"
  BY DEF NoIssue, Issue, NoSnapshot, Snapshots, Idle, Request

\* The rows a request may write.
LEMMA DraftTypes ==
    ASSUME NEW s \in {"draft", "published"}, NEW t \in Periods,
           NEW l \in SUBSET Pubs, NEW m \in SUBSET Pubs
    PROVE  [status |-> s, period |-> t, layout |-> l, materials |-> m] \in Issue
  BY DEF Issue

LEMMA StatusChanges ==
    ASSUME NEW d \in Issue, d.status # "absent", NEW s \in {"draft", "published"}
    PROVE  /\ [d EXCEPT !.status = s] \in Issue
           /\ [d EXCEPT !.status = s].status = s
           /\ [d EXCEPT !.status = s].period = d.period
           /\ [d EXCEPT !.status = s].layout = d.layout
           /\ [d EXCEPT !.status = s].materials = d.materials
  BY DEF Issue, NoIssue

LEMMA InitInv == Init => Inv
  <1>1. Init => TypeOK
    BY RowTypes DEF Init, TypeOK
  <1>2. Init => LayoutIsOfMaterials /\ PublishedIsComplete
    BY DEF Init, LayoutIsOfMaterials, PublishedIsComplete, NoIssue
  <1>3. Init => \A r \in Requests : Holds(r) /\ Stores(r) /\ Publishes(r)
    BY DEF Init, Holds, Stores, Publishes, Idle
  <1>4. QED
    BY <1>1, <1>2, <1>3 DEF Inv

\* The publications may change under a request.
LEMMA MaterialInv ==
    ASSUME Inv, EditorialStep
    PROVE  Inv'
  <1>1. UNCHANGED <<rows, lock, rq>>
    BY DEF EditorialStep, Publish, Withdraw, EditTexts
  <1>2. TypeOK'
    BY <1>1 DEF Inv, TypeOK, EditorialStep, Publish, Withdraw, Materials!Publish,
       Materials!Withdraw, EditTexts, rows
  <1>3. LayoutIsOfMaterials' /\ PublishedIsComplete'
    BY <1>1 DEF Inv, LayoutIsOfMaterials, PublishedIsComplete, rows
  <1>4. \A r \in Requests : (Holds(r) /\ Stores(r) /\ Publishes(r))'
    BY <1>1 DEF Inv, Holds, Stores, Draft, Publishes, rows
  <1>5. QED
    BY <1>2, <1>3, <1>4 DEF Inv

\* A new issue is not one a request has locked.
LEMMA CreateInv ==
    ASSUME Inv, NEW i \in Issues, CreateIssue(i)
    PROVE  Inv'
  <1>1. PICK t \in Periods, l \in SUBSET Pubs :
            issue' = [issue EXCEPT ![i] =
                        [status |-> "draft", period |-> t, layout |-> l, materials |-> {}]]
    BY DEF CreateIssue
  <1> DEFINE d == [status |-> "draft", period |-> t, layout |-> l, materials |-> {}]
  <1>2. d \in Issue /\ d.status = "draft" /\ d.materials = {}
    BY DraftTypes
  <1>3. /\ issue' = [issue EXCEPT ![i] = d]
        /\ issue[i].status = "absent"
        /\ UNCHANGED <<material, snapshot, lock, rq>>
    BY <1>1 DEF CreateIssue
  <1> HIDE DEF d
  <1>4. TypeOK'
    BY <1>2, <1>3 DEF Inv, TypeOK, material
  <1>5. \A j \in Issues : issue'[j] = IF j = i THEN d ELSE issue[j]
    BY <1>3 DEF Inv, TypeOK
  <1>6. LayoutIsOfMaterials' /\ PublishedIsComplete'
    BY <1>2, <1>3, <1>5 DEF Inv, LayoutIsOfMaterials, PublishedIsComplete
  <1>7. ASSUME NEW r \in Requests
        PROVE  (Holds(r) /\ Stores(r) /\ Publishes(r))'
    <2>1. Holds(r) /\ Stores(r) /\ Publishes(r)
      BY DEF Inv
    <2>2. rq[r].at # "idle" => issue'[rq[r].issue] = issue[rq[r].issue]
      BY <1>3, <1>5, <2>1 DEF Holds
    <2>3. rq[r].at \in {"materials", "texts"} => rq[r].at # "idle"
      OBVIOUS
    <2>4. Holds(r)' /\ Stores(r)'
      BY <1>3, <2>1, <2>2 DEF Holds, Stores, Draft
    <2>5. Publishes(r)'
      BY <1>3, <2>1, <2>2, <2>3 DEF Publishes
    <2>6. QED
      BY <2>4, <2>5
  <1>8. QED
    BY <1>4, <1>6, <1>7 DEF Inv

----------------------------------------------------------------------------

\* A request that locks a draft in state s.
LEMMA LockInv ==
    ASSUME Inv, NEW r \in Requests, NEW i \in Issues, NEW s \in Request,
           LockDraft(r, i, s),
           s.at # "idle", s.issue = i,
           s.at \in {"items", "store"} => Draft(s.issue, s.draft),
           s.at \in {"materials", "texts"} =>
               /\ s.draft = issue[i]
               /\ s.todo \subseteq s.draft.materials
               /\ \A p \in Pubs : s.taken[p] # None <=> p \in s.draft.materials \ s.todo
               /\ s.at = "texts" => s.now \in s.todo
    PROVE  Inv'
  <1>1. /\ lock[i] = None /\ lock' = [lock EXCEPT ![i] = r]
        /\ rq' = [rq EXCEPT ![r] = s]
        /\ issue[i].status = "draft"
        /\ UNCHANGED <<material, rows>>
    BY DEF LockDraft
  <1>2. TypeOK'
    BY <1>1 DEF Inv, TypeOK, material, rows
  <1>3. LayoutIsOfMaterials' /\ PublishedIsComplete'
    BY <1>1 DEF Inv, LayoutIsOfMaterials, PublishedIsComplete, rows
  <1>4. ASSUME NEW q \in Requests
        PROVE  (Holds(q) /\ Stores(q) /\ Publishes(q))'
    <2>1. Holds(q) /\ Stores(q) /\ Publishes(q)
      BY DEF Inv
    <2>2. CASE q = r
      <3>1. rq'[q] = s /\ lock'[i] = q
        BY <1>1, <2>2 DEF Inv, TypeOK
      <3>2. Holds(q)'
        BY <1>1, <3>1 DEF Holds, rows
      <3>3. Stores(q)'
        BY <1>1, <3>1 DEF Stores, Draft, rows
      <3>4. Publishes(q)'
        BY <1>1, <3>1 DEF Publishes, rows
      <3>5. QED
        BY <3>2, <3>3, <3>4
    <2>3. CASE q # r
      <3>1. rq'[q] = rq[q]
        BY <1>1, <2>3 DEF Inv, TypeOK
      <3>2. rq[q].at # "idle" => lock'[rq[q].issue] = q
        BY <1>1, <2>1 DEF Inv, TypeOK, Holds
      <3>3. Holds(q)'
        BY <1>1, <2>1, <3>1, <3>2 DEF Holds, rows
      <3>4. Stores(q)' /\ Publishes(q)'
        BY <1>1, <2>1, <3>1 DEF Stores, Publishes, Draft, rows
      <3>5. QED
        BY <3>3, <3>4
    <2>4. QED
      BY <2>2, <2>3
  <1>5. QED
    BY <1>2, <1>3, <1>4 DEF Inv

LEMMA DraftRow ==
    ASSUME Inv, NEW i \in Issues, issue[i].status = "draft"
    PROVE  /\ issue[i] \in Issue
           /\ issue[i].period \in Periods
           /\ issue[i].materials \in SUBSET Pubs
           /\ issue[i].layout \in SUBSET Pubs
           /\ Consistent(issue[i])
  <1>1. issue[i] \in Issue /\ issue[i] # NoIssue
    BY DEF Inv, TypeOK, NoIssue
  <1>2. QED
    BY <1>1 DEF Issue, Inv, LayoutIsOfMaterials, Consistent

\* The state of a request that stores a draft.
LEMMA StoringTypes ==
    ASSUME NEW i \in Issues, NEW t \in Periods, NEW l \in SUBSET Pubs, NEW m \in SUBSET Pubs,
           l = m \/ (l = {} /\ t = issue[i].period)
    PROVE  /\ Storing(i, t, l, m) \in Request
           /\ Storing(i, t, l, m).at = "items"
           /\ Storing(i, t, l, m).issue = i
           /\ Draft(i, Storing(i, t, l, m).draft)
  <1> DEFINE d == [status |-> "draft", period |-> t, layout |-> l, materials |-> m]
  <1>1. d \in Issue /\ d.status = "draft" /\ d.materials = m /\ d.layout = l /\ d.period = t
    BY DraftTypes
  <1>2. Storing(i, t, l, m) = [Idle EXCEPT !.at = "items", !.issue = i, !.draft = d]
    BY DEF Storing
  <1> HIDE DEF d
  <1>3. QED
    BY <1>1, <1>2, RowTypes DEF Request, Idle, Draft

LEMMA BeginStoreInv ==
    ASSUME Inv, NEW r \in Requests, NEW i \in Issues, BeginReplace(r, i) \/ BeginSave(r, i)
    PROVE  Inv'
  <1>1. PICK t \in Periods, l \in SUBSET Pubs, m \in SUBSET Pubs :
            /\ l = m \/ (l = {} /\ t = issue[i].period)
            /\ LockDraft(r, i, Storing(i, t, l, m))
    <2>1. CASE BeginReplace(r, i)
      <3>1. PICK m \in (SUBSET Pubs) \ {{}} : LockDraft(r, i, Storing(i, issue[i].period, {}, m))
        BY <2>1 DEF BeginReplace
      <3>2. issue[i].period \in Periods
        BY <3>1, DraftRow DEF LockDraft
      <3>3. QED
        BY <3>1, <3>2
    <2>2. CASE BeginSave(r, i)
      <3>1. PICK t \in Periods, l \in SUBSET Pubs : LockDraft(r, i, Storing(i, t, l, l))
        BY <2>2 DEF BeginSave
      <3>2. QED
        BY <3>1
    <2>3. QED
      BY <2>1, <2>2
  <1> DEFINE s == Storing(i, t, l, m)
  <1>2. /\ s \in Request
        /\ s.at = "items" /\ s.issue = i
        /\ Draft(i, s.draft)
    BY <1>1, StoringTypes
  <1>3. LockDraft(r, i, s)
    BY <1>1
  <1> HIDE DEF s
  <1>4. QED
    BY <1>2, <1>3, LockInv

LEMMA BeginPublishInv ==
    ASSUME Inv, NEW r \in Requests, NEW i \in Issues, BeginPublish(r, i)
    PROVE  Inv'
  <1> DEFINE s == [Idle EXCEPT !.at = "materials", !.issue = i, !.draft = issue[i],
                               !.todo = issue[i].materials]
  <1>1. LockDraft(r, i, s)
    BY DEF BeginPublish
  <1>2. issue[i] \in Issue /\ issue[i].materials \in SUBSET Pubs
    BY <1>1, DraftRow DEF LockDraft
  <1>3. /\ s.at = "materials" /\ s.issue = i /\ s.draft = issue[i]
        /\ s.todo = issue[i].materials /\ s.taken = NoSnapshot
        /\ s \in Request
    BY <1>2, RowTypes DEF Idle, Request
  <1>4. \A p \in Pubs : s.taken[p] = None
    BY <1>3 DEF NoSnapshot
  <1> HIDE DEF s
  <1>5. QED
    BY <1>1, <1>3, <1>4, LockInv

\* A step of a request that keeps its lock.
LEMMA GotoInv ==
    ASSUME Inv, NEW r \in Requests, NEW s \in Request, Goto(r, s),
           rq[r].at # "idle", s.at # "idle", s.issue = rq[r].issue,
           s.at \in {"items", "store"} => Draft(s.issue, s.draft),
           s.at \in {"materials", "texts"} =>
               /\ s.draft = issue[s.issue]
               /\ s.todo \subseteq s.draft.materials
               /\ \A p \in Pubs : s.taken[p] # None <=> p \in s.draft.materials \ s.todo
               /\ s.at = "texts" => s.now \in s.todo
    PROVE  Inv'
  <1>1. rq' = [rq EXCEPT ![r] = s] /\ UNCHANGED <<material, rows, lock>>
    BY DEF Goto
  <1>2. TypeOK'
    BY <1>1 DEF Inv, TypeOK, material, rows
  <1>3. LayoutIsOfMaterials' /\ PublishedIsComplete'
    BY <1>1 DEF Inv, LayoutIsOfMaterials, PublishedIsComplete, rows
  <1>4. ASSUME NEW q \in Requests
        PROVE  (Holds(q) /\ Stores(q) /\ Publishes(q))'
    <2>1. Holds(q) /\ Stores(q) /\ Publishes(q)
      BY DEF Inv
    <2>2. rq'[r] = s /\ (q # r => rq'[q] = rq[q])
      BY <1>1 DEF Inv, TypeOK
    <2>3. CASE q = r
      <3>1. Holds(q)'
        BY <1>1, <2>1, <2>2, <2>3 DEF Holds, rows
      <3>2. Stores(q)'
        BY <1>1, <2>2, <2>3 DEF Stores, Draft, rows
      <3>3. Publishes(q)'
        BY <1>1, <2>2, <2>3 DEF Publishes, rows
      <3>4. QED
        BY <3>1, <3>2, <3>3
    <2>4. CASE q # r
      BY <1>1, <2>1, <2>2, <2>4 DEF Holds, Stores, Publishes, Draft, rows
    <2>5. QED
      BY <2>3, <2>4
  <1>5. QED
    BY <1>2, <1>3, <1>4 DEF Inv

LEMMA CheckItemsInv ==
    ASSUME Inv, NEW r \in Requests, CheckItems(r)
    PROVE  Inv'
  <1> DEFINE s == [rq[r] EXCEPT !.at = "store"]
  <1>1. rq[r].at = "items" /\ Goto(r, s)
    BY DEF CheckItems
  <1>2. rq[r] \in Request /\ Stores(r)
    BY DEF Inv, TypeOK
  <1>3. s \in Request /\ s.at = "store" /\ s.issue = rq[r].issue /\ s.draft = rq[r].draft
    BY <1>2 DEF Request
  <1>4. Draft(s.issue, s.draft)
    BY <1>1, <1>2, <1>3 DEF Stores
  <1> HIDE DEF s
  <1>5. QED
    BY <1>1, <1>3, <1>4, GotoInv

LEMMA CheckMaterialInv ==
    ASSUME Inv, NEW r \in Requests, CheckMaterial(r)
    PROVE  Inv'
  <1>1. PICK p \in rq[r].todo : Goto(r, [rq[r] EXCEPT !.at = "texts", !.now = p])
    BY DEF CheckMaterial
  <1> DEFINE s == [rq[r] EXCEPT !.at = "texts", !.now = p]
  <1>2. rq[r].at = "materials" /\ Goto(r, s)
    BY <1>1 DEF CheckMaterial
  <1>3. rq[r] \in Request /\ Publishes(r)
    BY DEF Inv, TypeOK
  <1>4. p \in Pubs
    BY <1>3 DEF Request
  <1>5. /\ s \in Request /\ s.at = "texts" /\ s.issue = rq[r].issue /\ s.draft = rq[r].draft
        /\ s.todo = rq[r].todo /\ s.taken = rq[r].taken /\ s.now = p
    BY <1>3, <1>4 DEF Request
  <1>6. /\ s.draft = issue[s.issue]
        /\ s.todo \subseteq s.draft.materials
        /\ \A q \in Pubs : s.taken[q] # None <=> q \in s.draft.materials \ s.todo
    BY <1>2, <1>3, <1>5 DEF Publishes
  <1> HIDE DEF s
  <1>7. QED
    BY <1>2, <1>5, <1>6, GotoInv

LEMMA TakeSnapshotInv ==
    ASSUME Inv, NEW r \in Requests, TakeSnapshot(r)
    PROVE  Inv'
  <1> DEFINE p == rq[r].now
             t == [rq[r].taken EXCEPT ![p] = version[p]]
             s == [rq[r] EXCEPT !.at = "materials", !.now = None,
                                !.todo = rq[r].todo \ {p}, !.taken = t]
  <1>1. rq[r].at = "texts"
    BY DEF TakeSnapshot
  <1>2. rq[r] \in Request /\ Publishes(r)
    BY DEF Inv, TypeOK
  <1>3. /\ p \in rq[r].todo /\ rq[r].todo \subseteq Pubs
        /\ rq[r].taken \in Snapshots
    BY <1>1, <1>2 DEF Publishes, Request
  <1>4. Goto(r, s)
    BY <1>2, <1>3 DEF TakeSnapshot, Request
  <1>5. /\ version[p] \in 0 .. MaxEdits
        /\ t \in Snapshots
        /\ t[p] # None
        /\ \A q \in Pubs \ {p} : t[q] = rq[r].taken[q]
    BY <1>3 DEF Inv, TypeOK, Snapshots
  <1> HIDE DEF t
  <1>6. /\ s \in Request /\ s.at = "materials" /\ s.issue = rq[r].issue /\ s.draft = rq[r].draft
        /\ s.todo = rq[r].todo \ {p} /\ s.taken = t
    BY <1>2, <1>5 DEF Request
  <1> HIDE DEF s
  <1>7. /\ s.draft = issue[s.issue]
        /\ s.todo \subseteq s.draft.materials
        /\ \A q \in Pubs : s.taken[q] # None <=> q \in s.draft.materials \ s.todo
    BY <1>1, <1>2, <1>3, <1>5, <1>6 DEF Publishes
  <1>8. QED
    BY <1>1, <1>4, <1>6, <1>7, GotoInv

----------------------------------------------------------------------------

\* A transaction that ends disturbs no other request: nobody else holds its
\* issue.
LEMMA EndInv ==
    ASSUME Inv, NEW r \in Requests, rq[r].at # "idle", End(r),
           NEW d \in Issue, NEW s \in Snapshots,
           issue' = [issue EXCEPT ![rq[r].issue] = d],
           snapshot' = [snapshot EXCEPT ![rq[r].issue] = s],
           Consistent(d),
           d.status = "published" =>
               /\ d.materials # {}
               /\ \A p \in Pubs : s[p] # None <=> p \in d.materials
    PROVE  Inv'
  <1> DEFINE i == rq[r].issue
  <1>1. /\ lock' = [lock EXCEPT ![i] = None]
        /\ rq' = [rq EXCEPT ![r] = Idle]
        /\ UNCHANGED material
        /\ i \in Issues /\ lock[i] = r
    BY DEF End, Inv, Holds
  <1>2. TypeOK'
    BY <1>1, RowTypes DEF Inv, TypeOK, material
  <1>3. \A j \in Issues : /\ issue'[j] = IF j = i THEN d ELSE issue[j]
                          /\ snapshot'[j] = IF j = i THEN s ELSE snapshot[j]
    BY <1>1 DEF Inv, TypeOK
  <1>4. LayoutIsOfMaterials'
    BY <1>3 DEF Inv, LayoutIsOfMaterials, Consistent
  <1>5. PublishedIsComplete'
    BY <1>3 DEF Inv, PublishedIsComplete
  <1>6. ASSUME NEW q \in Requests
        PROVE  (Holds(q) /\ Stores(q) /\ Publishes(q))'
    <2>1. Holds(q) /\ Stores(q) /\ Publishes(q)
      BY DEF Inv
    <2>2. rq'[r] = Idle /\ (q # r => rq'[q] = rq[q])
      BY <1>1 DEF Inv, TypeOK
    <2>3. CASE q = r
      BY <2>2, <2>3 DEF Holds, Stores, Publishes, Idle
    <2>4. CASE q # r
      <3>1. ASSUME rq[q].at # "idle"
            PROVE  /\ rq[q].issue \in Issues \ {i}
                   /\ lock'[rq[q].issue] = q
                   /\ issue'[rq[q].issue] = issue[rq[q].issue]
        <4>1. rq[q].issue \in Issues /\ lock[rq[q].issue] = q
          BY <2>1, <3>1 DEF Holds
        <4>2. rq[q].issue # i
          BY <1>1, <2>4, <4>1
        <4>3. QED
          BY <1>1, <1>3, <4>1, <4>2 DEF Inv, TypeOK
      <3>2. Holds(q)'
        BY <2>1, <2>2, <2>4, <3>1 DEF Holds
      <3>3. Stores(q)'
        BY <2>1, <2>2, <2>4, <3>1 DEF Stores, Draft
      <3>4. Publishes(q)'
        BY <2>1, <2>2, <2>4, <3>1 DEF Publishes
      <3>5. QED
        BY <3>2, <3>3, <3>4
    <2>5. QED
      BY <2>3, <2>4
  <1>7. QED
    BY <1>2, <1>4, <1>5, <1>6 DEF Inv

\* What a request stores.
LEMMA StoreWrites ==
    ASSUME Inv, NEW r \in Requests, Store(r)
    PROVE  /\ rq[r].issue \in Issues
           /\ issue[rq[r].issue].status = "draft"
           /\ rq[r].draft \in Issue
           /\ Draft(rq[r].issue, rq[r].draft)
           /\ rq[r].draft.period \in Periods
           /\ Consistent(rq[r].draft)
           /\ PeriodFree(rq[r].issue, rq[r].draft.period)
           /\ issue' = [issue EXCEPT ![rq[r].issue] = rq[r].draft]
           /\ snapshot' = [snapshot EXCEPT ![rq[r].issue] = NoSnapshot]
           /\ End(r)
  <1> DEFINE i == rq[r].issue
             d == rq[r].draft
  <1>1. /\ rq[r].at = "store"
        /\ PeriodFree(i, d.period)
        /\ issue' = [issue EXCEPT ![i] = [d EXCEPT !.status = issue[i].status]]
        /\ snapshot' = [snapshot EXCEPT ![i] = NoSnapshot]
        /\ End(r)
    BY DEF Store
  <1>2. /\ i \in Issues /\ issue[i].status = "draft"
        /\ Draft(i, d)
    BY <1>1 DEF Inv, Holds, Stores
  <1>3. d \in Issue
    BY DEF Inv, TypeOK, Request
  <1>4. d \in [status : {"draft", "published"}, period : Periods,
               layout : SUBSET Pubs, materials : SUBSET Pubs]
    BY <1>2, <1>3 DEF Issue, NoIssue, Draft
  <1>5. [d EXCEPT !.status = issue[i].status] = d /\ d.period \in Periods
    <2>1. d.status = issue[i].status
      BY <1>2 DEF Draft
    <2>2. QED
      BY <1>4, <2>1
  <1>6. Consistent(d)
    BY <1>2 DEF Draft, Consistent
  <1>7. QED
    BY <1>1, <1>2, <1>3, <1>5, <1>6

LEMMA StoreInv ==
    ASSUME Inv, NEW r \in Requests, Store(r)
    PROVE  Inv'
  <1> DEFINE d == rq[r].draft
  <1>1. rq[r].at # "idle"
    BY DEF Store
  <1>2. /\ d \in Issue /\ Consistent(d)
        /\ issue' = [issue EXCEPT ![rq[r].issue] = d]
        /\ snapshot' = [snapshot EXCEPT ![rq[r].issue] = NoSnapshot]
        /\ End(r)
    BY StoreWrites
  <1>3. d.status # "published"
    BY StoreWrites DEF Draft
  <1>4. NoSnapshot \in Snapshots
    BY RowTypes
  <1>5. QED
    BY <1>1, <1>2, <1>3, <1>4, EndInv

\* What a request publishes.
LEMMA PublishWrites ==
    ASSUME Inv, NEW r \in Requests, PublishIssue(r)
    PROVE  /\ rq[r].at = "materials"
           /\ rq[r].issue \in Issues
           /\ issue[rq[r].issue].status = "draft"
           /\ issue[rq[r].issue] \in Issue
           /\ Publishable(issue[rq[r].issue])
           /\ rq[r].taken \in Snapshots
           /\ \A p \in Pubs : rq[r].taken[p] # None <=> p \in issue[rq[r].issue].materials
           /\ issue' = [issue EXCEPT ![rq[r].issue] =
                           [issue[rq[r].issue] EXCEPT !.status = "published"]]
           /\ snapshot' = [snapshot EXCEPT ![rq[r].issue] = rq[r].taken]
           /\ End(r)
  <1> DEFINE i == rq[r].issue
  <1>1. /\ rq[r].at = "materials"
        /\ Publishable(rq[r].draft)
        /\ rq[r].todo = {}
        /\ issue' = [issue EXCEPT ![i] = [@ EXCEPT !.status = "published"]]
        /\ snapshot' = [snapshot EXCEPT ![i] = rq[r].taken]
        /\ End(r)
    BY DEF PublishIssue
  <1>2. Holds(r) /\ Publishes(r) /\ rq[r] \in Request
    BY DEF Inv, TypeOK
  <1>3. i \in Issues /\ issue[i].status = "draft" /\ rq[r].draft = issue[i]
    BY <1>1, <1>2 DEF Holds, Publishes
  <1>4. \A p \in Pubs : rq[r].taken[p] # None <=> p \in issue[i].materials
    BY <1>1, <1>2, <1>3 DEF Publishes
  <1>5. issue[i] \in Issue /\ rq[r].taken \in Snapshots
    BY <1>2, <1>3, DraftRow DEF Request
  <1>6. QED
    BY <1>1, <1>3, <1>4, <1>5

LEMMA PublishInv ==
    ASSUME Inv, NEW r \in Requests, PublishIssue(r)
    PROVE  Inv'
  <1> DEFINE i == rq[r].issue
             d == [issue[i] EXCEPT !.status = "published"]
  <1>1. /\ i \in Issues /\ issue[i].status = "draft" /\ issue[i] \in Issue
        /\ Publishable(issue[i])
        /\ issue' = [issue EXCEPT ![i] = d]
    BY PublishWrites
  <1>2. /\ d \in Issue /\ d.layout = issue[i].layout /\ d.materials = issue[i].materials
    BY <1>1, StatusChanges
  <1> HIDE DEF d
  <1>3. d.materials # {} /\ Consistent(d)
    BY <1>1, <1>2 DEF Publishable, Consistent
  <1>4. \A p \in Pubs : rq[r].taken[p] # None <=> p \in d.materials
    BY <1>2, PublishWrites
  <1>5. QED
    BY <1>1, <1>2, <1>3, <1>4, PublishWrites, EndInv

LEMMA RollbackInv ==
    ASSUME Inv, NEW r \in Requests, Rollback(r)
    PROVE  Inv'
  <1> DEFINE i == rq[r].issue
  <1>1. rq[r].at # "idle" /\ End(r) /\ issue' = issue /\ snapshot' = snapshot
    BY DEF Rollback, rows
  <1>2. i \in Issues /\ issue[i].status = "draft"
    BY <1>1 DEF Inv, Holds
  <1>3. /\ issue' = [issue EXCEPT ![i] = issue[i]]
        /\ snapshot' = [snapshot EXCEPT ![i] = snapshot[i]]
        /\ snapshot[i] \in Snapshots
    BY <1>1, <1>2 DEF Inv, TypeOK
  <1>4. issue[i] \in Issue /\ Consistent(issue[i]) /\ issue[i].status # "published"
    BY <1>2, DraftRow
  <1>5. QED
    BY <1>1, <1>3, <1>4, EndInv

----------------------------------------------------------------------------

LEMMA NextInv == Inv /\ [Next]_vars => Inv'
  <1>1. SUFFICES ASSUME Inv, [Next]_vars
                 PROVE  Inv'
    OBVIOUS
  <1>2. CASE EditorialStep
    BY <1>1, <1>2, MaterialInv
  <1>3. CASE \E i \in Issues : CreateIssue(i)
    BY <1>1, <1>3, CreateInv
  <1>4. ASSUME NEW r \in Requests, NEW i \in Issues,
               BeginReplace(r, i) \/ BeginSave(r, i) \/ BeginPublish(r, i)
        PROVE  Inv'
    BY <1>1, <1>4, BeginStoreInv, BeginPublishInv
  <1>5. ASSUME NEW r \in Requests, RequestStep(r)
        PROVE  Inv'
    BY <1>1, <1>5, CheckItemsInv, StoreInv, CheckMaterialInv, TakeSnapshotInv,
       PublishInv, RollbackInv DEF RequestStep
  <1>6. CASE UNCHANGED vars
    <2>1. UNCHANGED <<material, rows, lock, rq>>
      BY <1>6 DEF vars
    <2>2. TypeOK' /\ LayoutIsOfMaterials' /\ PublishedIsComplete'
      BY <1>1, <2>1 DEF Inv, TypeOK, LayoutIsOfMaterials, PublishedIsComplete, material, rows
    <2>3. \A r \in Requests : (Holds(r) /\ Stores(r) /\ Publishes(r))'
      BY <1>1, <2>1 DEF Inv, Holds, Stores, Publishes, Draft, rows
    <2>4. QED
      BY <2>2, <2>3 DEF Inv
  <1>7. QED
    BY <1>1, <1>2, <1>3, <1>4, <1>5, <1>6 DEF Next

\* The strengthening is an invariant of every instance.
THEOREM JournalInvariant == Spec => []Inv
  <1>1. Init => Inv
    BY InitInv
  <1>2. Inv /\ [Next]_vars => Inv'
    BY NextInv
  <1>3. QED
    BY <1>1, <1>2, PTL DEF Spec

\* The types of the rows and of the requests.
THEOREM JournalTypes == Spec => []TypeOK
  <1>1. Inv => TypeOK
    BY DEF Inv
  <1>2. QED
    BY <1>1, JournalInvariant, PTL

\* Pages and materials agree (replace_issue_publications, save_issue).
THEOREM LayoutsAgree == Spec => []LayoutIsOfMaterials
  <1>1. Inv => LayoutIsOfMaterials
    BY DEF Inv
  <1>2. QED
    BY <1>1, JournalInvariant, PTL

\* A published issue has exactly the snapshots of its materials
\* (publish_issue).
THEOREM IssuesAreComplete == Spec => []PublishedIsComplete
  <1>1. Inv => PublishedIsComplete
    BY DEF Inv
  <1>2. QED
    BY <1>1, JournalInvariant, PTL

----------------------------------------------------------------------------

\* Only three handlers write rows, each in one step.
LEMMA RowSteps ==
    ASSUME [Next]_vars
    PROVE  \/ UNCHANGED rows
           \/ \E i \in Issues : CreateIssue(i)
           \/ \E r \in Requests : Store(r) \/ PublishIssue(r)
  <1>1. CASE EditorialStep
    BY <1>1 DEF EditorialStep, Publish, Withdraw, EditTexts
  <1>2. CASE \E i \in Issues : CreateIssue(i)
    BY <1>2
  <1>3. ASSUME NEW r \in Requests, NEW i \in Issues,
               BeginReplace(r, i) \/ BeginSave(r, i) \/ BeginPublish(r, i)
        PROVE  UNCHANGED rows
    BY <1>3 DEF BeginReplace, BeginSave, BeginPublish, LockDraft
  <1>4. ASSUME NEW r \in Requests, RequestStep(r)
        PROVE  UNCHANGED rows \/ Store(r) \/ PublishIssue(r)
    BY <1>4 DEF RequestStep, CheckItems, CheckMaterial, TakeSnapshot, Rollback, Goto
  <1>5. CASE UNCHANGED vars
    BY <1>5 DEF vars
  <1>6. QED
    BY <1>1, <1>2, <1>3, <1>4, <1>5 DEF Next

\* A row that is written belonged to a draft, or to no issue.
LEMMA FrozenStep ==
    ASSUME Inv, [Next]_vars, NEW j \in Issues, issue[j].status = "published"
    PROVE  issue'[j] = issue[j] /\ snapshot'[j] = snapshot[j]
  <1>1. CASE UNCHANGED rows
    BY <1>1 DEF rows
  <1>2. ASSUME NEW i \in Issues, CreateIssue(i)
        PROVE  issue'[j] = issue[j] /\ snapshot'[j] = snapshot[j]
    <2>1. i # j /\ snapshot' = snapshot
      BY <1>2 DEF CreateIssue
    <2>2. issue'[j] = issue[j]
      BY <1>2, <2>1 DEF CreateIssue, Inv, TypeOK
    <2>3. QED
      BY <2>1, <2>2
  <1>3. ASSUME NEW r \in Requests, Store(r)
        PROVE  issue'[j] = issue[j] /\ snapshot'[j] = snapshot[j]
    <2>1. rq[r].issue # j
      BY <1>3, StoreWrites
    <2>2. QED
      BY <1>3, <2>1, StoreWrites DEF Inv, TypeOK
  <1>4. ASSUME NEW r \in Requests, PublishIssue(r)
        PROVE  issue'[j] = issue[j] /\ snapshot'[j] = snapshot[j]
    <2>1. rq[r].issue # j
      BY <1>4, PublishWrites
    <2>2. QED
      BY <1>4, <2>1, PublishWrites DEF Inv, TypeOK
  <1>5. QED
    BY <1>1, <1>2, <1>3, <1>4, RowSteps

\* What has been published stays as it was printed: no request in flight
\* writes over it (replace_issue_publications, save_issue, publish_issue).
THEOREM PublishedForGood == Spec => PublishedIsFrozen
  <1>1. Inv /\ [Next]_vars =>
            [\A i \in Issues : issue[i].status = "published" =>
                issue'[i] = issue[i] /\ snapshot'[i] = snapshot[i]]_vars
    BY FrozenStep
  <1>2. QED
    BY <1>1, JournalInvariant, PTL DEF Spec, PublishedIsFrozen

\* What the readers of a published issue see is fixed: its row and snapshots
\* are, and as every material has a snapshot the texts of today do not count.
THEOREM ListingsStay == Spec => ListingIsReproducible
  <1>1. Inv /\ [Next]_vars =>
            [\A i \in Issues : issue[i].status = "published" => Shown(i)' = Shown(i)]_vars
    <2> SUFFICES ASSUME Inv, Next, NEW i \in Issues, issue[i].status = "published"
                 PROVE  Shown(i)' = Shown(i)
      OBVIOUS
    <2>1. issue'[i] = issue[i] /\ snapshot'[i] = snapshot[i]
      BY FrozenStep DEF vars, material, rows
    <2>2. \A p \in issue[i].materials : snapshot[i][p] # None
      BY DEF Inv, TypeOK, Issue, NoIssue, PublishedIsComplete
    <2>3. QED
      BY <2>1, <2>2 DEF Shown
  <1>2. QED
    BY <1>1, JournalInvariant, PTL DEF Spec, ListingIsReproducible

----------------------------------------------------------------------------

LEMMA DeskCreates ==
    ASSUME NEW i \in Issues, CreateIssue(i)
    PROVE  Desk!Create(i)
  BY DEF CreateIssue, PeriodFree, Desk!Create, Desk!Put, Desk!Free

\* What Store writes is a whole replacement or a whole save.
LEMMA DeskStores ==
    ASSUME Inv, NEW r \in Requests, Store(r)
    PROVE  Desk!Replace(rq[r].issue) \/ Desk!Save(rq[r].issue)
  <1> DEFINE i == rq[r].issue
             d == rq[r].draft
  <1>1. /\ i \in Issues /\ issue[i].status = "draft"
        /\ d \in Issue /\ d.period \in Periods
        /\ Draft(i, d)
        /\ PeriodFree(i, d.period)
        /\ issue' = [issue EXCEPT ![i] = d]
    BY StoreWrites
  <1>2. /\ d.layout \in SUBSET Pubs /\ d.materials \in SUBSET Pubs
        /\ d = [status |-> "draft", period |-> d.period,
                layout |-> d.layout, materials |-> d.materials]
    BY <1>1 DEF Draft, Issue, NoIssue
  <1> HIDE DEF d
  <1>3. CASE d.layout = d.materials
    <2>1. Desk!Put(i, "draft", "draft", d.period, d.layout, d.layout)
      BY <1>1, <1>2, <1>3 DEF PeriodFree, Desk!Put, Desk!Free
    <2>2. QED
      BY <1>1, <1>2, <2>1 DEF Desk!Save
  <1>4. CASE d.layout = {} /\ d.period = issue[i].period
    <2>1. Desk!Put(i, "draft", "draft", issue[i].period, {}, d.materials)
      BY <1>1, <1>2, <1>4 DEF PeriodFree, Desk!Put, Desk!Free
    <2>2. QED
      BY <1>1, <1>2, <2>1 DEF Desk!Replace
  <1>5. QED
    BY <1>1, <1>3, <1>4 DEF Draft

\* No two issues have the same period.
OnePeriodEach ==
    \A i, j \in Issues :
        i # j /\ issue[i].status # "absent" => issue[i].period # issue[j].period

\* A row that takes a free period keeps the periods apart.
LEMMA PeriodStep ==
    ASSUME Inv, OnePeriodEach, NEW i \in Issues, NEW d \in Issue,
           d.status # "absent", PeriodFree(i, d.period),
           issue' = [issue EXCEPT ![i] = d]
    PROVE  OnePeriodEach'
  <1>1. \A j \in Issues : issue'[j] = IF j = i THEN d ELSE issue[j]
    BY DEF Inv, TypeOK
  <1>2. \A j \in Issues \ {i} : issue[j].period # d.period
    BY DEF PeriodFree
  <1>3. QED
    BY <1>1, <1>2 DEF OnePeriodEach

\* The period of a draft is its own.
LEMMA PeriodIsFree ==
    ASSUME OnePeriodEach, NEW i \in Issues, issue[i].status # "absent"
    PROVE  PeriodFree(i, issue[i].period)
  BY DEF OnePeriodEach, PeriodFree

LEMMA PeriodsInv == Inv /\ OnePeriodEach /\ [Next]_vars => OnePeriodEach'
  <1>1. SUFFICES ASSUME Inv, OnePeriodEach, [Next]_vars
                 PROVE  OnePeriodEach'
    OBVIOUS
  <1>2. CASE UNCHANGED rows
    BY <1>1, <1>2 DEF OnePeriodEach, rows
  <1>3. ASSUME NEW i \in Issues, CreateIssue(i)
        PROVE  OnePeriodEach'
    <2>1. PICK t \in Periods, l \in SUBSET Pubs :
             /\ PeriodFree(i, t)
             /\ issue' = [issue EXCEPT ![i] =
                   [status |-> "draft", period |-> t, layout |-> l, materials |-> {}]]
      BY <1>3 DEF CreateIssue
    <2> DEFINE d == [status |-> "draft", period |-> t, layout |-> l, materials |-> {}]
    <2>2. d \in Issue /\ d.status # "absent" /\ d.period = t
      BY DraftTypes
    <2>3. issue' = [issue EXCEPT ![i] = d]
      BY <2>1
    <2> HIDE DEF d
    <2>4. QED
      BY <1>1, <2>1, <2>2, <2>3, PeriodStep
  <1>4. ASSUME NEW r \in Requests, Store(r)
        PROVE  OnePeriodEach'
    <2>1. rq[r].draft.status # "absent"
      BY <1>1, <1>4, StoreWrites DEF Draft
    <2>2. QED
      BY <1>1, <1>4, <2>1, StoreWrites, PeriodStep
  <1>5. ASSUME NEW r \in Requests, PublishIssue(r)
        PROVE  OnePeriodEach'
    <2> DEFINE i == rq[r].issue
               d == [issue[i] EXCEPT !.status = "published"]
    <2>1. /\ i \in Issues /\ issue[i] \in Issue /\ issue[i].status = "draft"
          /\ issue' = [issue EXCEPT ![i] = d]
      BY <1>1, <1>5, PublishWrites
    <2>2. d \in Issue /\ d.status # "absent" /\ d.period = issue[i].period
      BY <2>1, StatusChanges
    <2>3. PeriodFree(i, d.period)
      BY <1>1, <2>1, <2>2, PeriodIsFree
    <2> HIDE DEF d
    <2>4. QED
      BY <1>1, <2>1, <2>2, <2>3, PeriodStep
  <1>6. QED
    BY <1>1, <1>2, <1>3, <1>4, <1>5, RowSteps

LEMMA DeskPublishes ==
    ASSUME Inv, OnePeriodEach, NEW r \in Requests, PublishIssue(r)
    PROVE  Desk!Publish(rq[r].issue)
  <1> DEFINE i == rq[r].issue
             e == issue[i]
  <1>1. /\ i \in Issues /\ e \in Issue /\ e.status = "draft"
        /\ Publishable(e)
        /\ issue' = [issue EXCEPT ![i] = [e EXCEPT !.status = "published"]]
    BY PublishWrites
  <1>2. [e EXCEPT !.status = "published"] =
           [status |-> "published", period |-> e.period,
            layout |-> e.layout, materials |-> e.materials]
    BY <1>1 DEF Issue, NoIssue
  <1>3. PeriodFree(i, e.period)
    BY <1>1, PeriodIsFree
  <1>4. Desk!Put(i, "draft", "published", e.period, e.layout, e.materials)
    BY <1>1, <1>2, <1>3 DEF PeriodFree, Desk!Put, Desk!Free
  <1>5. QED
    BY <1>1, <1>4 DEF Publishable, Desk!Publish

\* Overlapping requests amount to whole operations of the desk: what a request
\* read before it waited is still so when it commits.
THEOREM RequestsAreOperations == Spec => ImplementsIssueDesk
  <1>1. Init => Desk!Init /\ OnePeriodEach
    BY DEF Init, Desk!Init, Desk!Absent, NoIssue, OnePeriodEach
  <1>2. Inv /\ OnePeriodEach /\ [Next]_vars => [Desk!Next]_issue
    <2>1. SUFFICES ASSUME Inv, OnePeriodEach, [Next]_vars
                   PROVE  [Desk!Next]_issue
      OBVIOUS
    <2>2. CASE UNCHANGED rows
      BY <2>2 DEF rows
    <2>3. ASSUME NEW i \in Issues, CreateIssue(i)
          PROVE  Desk!Next
      BY <2>3, DeskCreates DEF Desk!Next
    <2>4. ASSUME NEW r \in Requests, Store(r)
          PROVE  Desk!Next
      BY <2>1, <2>4, DeskStores, StoreWrites DEF Desk!Next
    <2>5. ASSUME NEW r \in Requests, PublishIssue(r)
          PROVE  Desk!Next
      BY <2>1, <2>5, DeskPublishes, PublishWrites DEF Desk!Next
    <2>6. QED
      BY <2>1, <2>2, <2>3, <2>4, <2>5, RowSteps
  <1>3. Inv /\ OnePeriodEach /\ [Next]_vars => OnePeriodEach'
    BY PeriodsInv
  <1>4. QED
    BY <1>1, <1>2, <1>3, JournalInvariant, PTL DEF Spec, ImplementsIssueDesk, Desk!Spec
============================================================================
