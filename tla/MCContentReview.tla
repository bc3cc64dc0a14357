-------------------------- MODULE MCContentReview --------------------------
(* Instances of ContentReview for TLC. *)
EXTENDS ContentReview, TLC

\* Patch identifiers are opaque and reviewer threads interchangeable.
Symmetry == Permutations(Patches) \union Permutations(Reviewers)
=============================================================================
