--------------------------- MODULE MCThreadEvents ---------------------------
(* Instances of ThreadEvents for TLC. *)
EXTENDS ThreadEvents, TLC

\* Every task belongs to the first run.
OneParent == [t \in Tasks |-> 1]

\* Requests and workers are interchangeable.
Symmetry == Permutations(Requests) \union Permutations(Workers)
=============================================================================
