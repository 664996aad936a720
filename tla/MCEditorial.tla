---------------------------- MODULE MCEditorial ----------------------------
(* Instances of Editorial for TLC. *)
EXTENDS Editorial, TLC

\* Requests, workers and texts are interchangeable where no text is a digest.
Symmetry == Permutations(Clients) \cup Permutations(Workers) \cup Permutations(Texts)

\* Which text is a digest matters; which publication holds it does not.
DigestSymmetry == Permutations(Clients) \cup Permutations(Pubs)
============================================================================
