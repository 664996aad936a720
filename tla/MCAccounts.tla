----------------------------- MODULE MCAccounts -----------------------------
(* A small set of accounts and moderators for TLC. *)
EXTENDS Sanctions, TLC

\* Bound: while two moderators' requests overlap the account has none of its
\* own under way.
ModeratorsAlone ==
    (\A m \in Reviews : review[m] # NoReview) => \A c \in Requests : req[c] = Idle

Symmetry == Permutations(Sessions) \cup Permutations(ResetTokens) \cup
            Permutations(Requests) \cup Permutations(Reviews)
============================================================================
