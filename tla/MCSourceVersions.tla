-------------------------- MODULE MCSourceVersions --------------------------
(* Instances of SourceVersions for TLC. *)
EXTENDS SourceVersions, TLC

CONSTANT first    \* an upload that is over when the instance begins

\* A state of SourceVersions: one source has a version that is ready.
MCInit ==
    LET v == <<CHOOSE s \in Sources : TRUE, 1>> IN
    /\ document \in {d \in [Uploads -> Document] : d[first] = "text"}
    /\ thread = [u \in Uploads |->
                    IF u = first THEN [pc |-> "ended", version |-> v]
                    ELSE [pc |-> "idle", version |-> Nothing]]
    /\ store = [w \in Versions |-> IF w = v THEN first ELSE Nothing]
    /\ version = [w \in Versions |->
                    IF w = v THEN [status |-> "ready", hash |-> first]
                    ELSE [status |-> "absent", hash |-> Nothing]]
    /\ job = [w \in Versions |->
                    IF w = v THEN [NoJob EXCEPT !.status = "completed"] ELSE NoJob]
    /\ blocks = [w \in Versions |-> IF w = v THEN first ELSE Nothing]
    /\ chunks = [w \in Versions |-> IF w = v THEN Embedded(Batches, 0) ELSE {}]
    /\ current = [s \in Sources |-> IF s = v[1] THEN 1 ELSE 0]
    /\ rebuild = [w \in Versions |-> NoJob]
    /\ worker = [w \in Workers |-> Resting]
    /\ faults = 0
    /\ overrun = {}

MCSpec == MCInit /\ [][Next]_vars

\* The uploads that race, and workers of a kind, are interchangeable.
Symmetry == Permutations(Uploads \ {first}) \union Permutations(Ingesters)
            \union Permutations(Indexers)
=============================================================================
