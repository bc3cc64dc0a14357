---------------------------- MODULE MCRetention ----------------------------
(* Instances of Retention for TLC. *)
EXTENDS Retention, TLC

\* Identifiers are opaque and workers interchangeable.
Symmetry == Permutations(Projects) \union Permutations(Deletions)
            \union Permutations(Threads) \union Permutations(Erasers)
=============================================================================
