------------------------------ MODULE MCSkills ------------------------------
(* Instances of Skills for TLC. *)
EXTENDS Skills, TLC

\* Identifiers, slugs, projects and threads are interchangeable.
Symmetry == Permutations(Ids) \union Permutations(Slugs) \union Permutations(Projects)
            \union Permutations(Threads)
=============================================================================
