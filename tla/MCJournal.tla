----------------------------- MODULE MCJournal -----------------------------
(* A small journal desk for TLC. *)
EXTENDS JournalIssues, TLC

Symmetry == Permutations(Issues) \cup Permutations(Pubs) \cup
            Permutations(Requests) \cup Permutations(Periods)
============================================================================
