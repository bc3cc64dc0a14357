--------------------------- MODULE MCContentBlocks ---------------------------
(* Model values of ContentBlocks for TLC. *)
EXTENDS ContentBlocks, TLC

\* Block identifiers are only compared.
Interchangeable == Permutations(BlockIds)
=============================================================================
