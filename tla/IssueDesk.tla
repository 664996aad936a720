----------------------------- MODULE IssueDesk -----------------------------
(***************************************************************************)
(* What the journal desk promises its editors: an issue is created, its    *)
(* draft is replaced as a whole, and it is published once, not empty, laid *)
(* out as it was saved; after that it does not change.                     *)
(***************************************************************************)
CONSTANTS Issues, Pubs, Periods, None

VARIABLE desk

Absent == [status |-> "absent", period |-> None, layout |-> {}, materials |-> {}]

Init == desk = [i \in Issues |-> Absent]

Free(i, t) == \A j \in Issues \ {i} : desk[j].period # t

Put(i, from, s, t, l, m) ==
    /\ desk[i].status = from
    /\ Free(i, t)
    /\ desk' = [desk EXCEPT ![i] =
                  [status |-> s, period |-> t, layout |-> l, materials |-> m]]

Create(i) ==
    \E t \in Periods, l \in SUBSET Pubs : Put(i, "absent", "draft", t, l, {})

Replace(i) ==
    \E m \in SUBSET Pubs : Put(i, "draft", "draft", desk[i].period, {}, m)

Save(i) ==
    \E t \in Periods, l \in SUBSET Pubs : Put(i, "draft", "draft", t, l, l)

Publish(i) ==
    /\ desk[i].materials # {}
    /\ desk[i].layout \in {{}, desk[i].materials}
    /\ Put(i, "draft", "published", desk[i].period, desk[i].layout, desk[i].materials)

Next == \E i \in Issues : Create(i) \/ Replace(i) \/ Save(i) \/ Publish(i)

Spec == Init /\ [][Next]_desk
============================================================================
