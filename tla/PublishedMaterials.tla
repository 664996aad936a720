------------------------ MODULE PublishedMaterials ------------------------
(***************************************************************************)
(* What everybody outside the editorial core may rely on: which materials  *)
(* are shown, which have ever been given a publication date, and which     *)
(* have been translated.  The core implements this; readers, the journal   *)
(* desk and the community take it as what happens around them.             *)
(***************************************************************************)
CONSTANT Pubs

VARIABLES
    published,   \* shown to readers
    dated,       \* have been published once
    translated   \* have a translation

materials == <<published, dated, translated>>

Init == published = {} /\ dated = {} /\ translated = {}

\* By an editor, the scheduler (several at once), the AI's answer or out of
\* the archive.
Publish(S) ==
    /\ S # {}
    /\ published' = published \cup S
    /\ dated' = dated \cup S
    /\ translated' = translated

\* Into the archive, or by a handler that did not know it was published.
Withdraw(p) ==
    /\ p \in published
    /\ published' = published \ {p}
    /\ dated' = dated
    /\ translated' = translated

Translate(p) ==
    /\ p \in dated
    /\ translated' = translated \cup {p}
    /\ published' = published
    /\ dated' = dated

Next ==
    \/ \E S \in SUBSET Pubs : Publish(S)
    \/ \E p \in Pubs : Withdraw(p) \/ Translate(p)

Spec == Init /\ [][Next]_materials
============================================================================
