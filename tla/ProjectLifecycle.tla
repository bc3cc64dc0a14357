-------------------------- MODULE ProjectLifecycle --------------------------
(***************************************************************************)
(* What the deletion of projects promises to clients, whatever processes   *)
(* do the work and in which order they read and write: a project that is   *)
(* gone stays gone, it goes only for a request that names it and in one    *)
(* step together with every export that was ordered before that request,   *)
(* and an artifact that a client may download is withdrawn only once the   *)
(* deletion of its project has been requested.  An export ordered later    *)
(* may go with the project or outlive it.                                  *)
(***************************************************************************)
CONSTANTS
    Projects,       \* project identifiers
    Exports,        \* export identifiers
    Deletions,      \* identifiers of deletion requests
    Nothing         \* the project of an export or request that does not exist

VARIABLES
    life,           \* project -> none, live, doomed or gone
    request,        \* deletion request -> its outcome and its project
    artifact        \* export -> its state and its project; late: ordered
                    \* once the project was doomed

lifecycleVars == <<life, request, artifact>>

LifecycleInit ==
    /\ life = [p \in Projects |-> "none"]
    /\ request = [d \in Deletions |-> [outcome |-> "none", project |-> Nothing]]
    /\ artifact = [e \in Exports |->
                        [state |-> "none", project |-> Nothing, late |-> FALSE]]

Create(p) ==
    /\ life[p] = "none"
    /\ life' = [life EXCEPT ![p] = "live"]
    /\ UNCHANGED <<request, artifact>>

\* The project of a request is doomed; it may be gone already.
Ask(d, p) ==
    /\ request[d].outcome = "none"
    /\ life[p] # "none"
    /\ request' = [request EXCEPT ![d] = [outcome |-> "open", project |-> p]]
    /\ life' = [life EXCEPT ![p] = IF @ = "live" THEN "doomed" ELSE @]
    /\ UNCHANGED artifact

\* A request is answered; completed is no answer while the project is there.
Answer(d) ==
    /\ request[d].outcome # "none"
    /\ \E o \in {"blocked", "failed", "completed"} :
          /\ o = "completed" => life[request[d].project] = "gone"
          /\ request' = [request EXCEPT ![d].outcome = o]
    /\ UNCHANGED <<life, artifact>>

\* The project, its exports and the answer to the request: all or nothing.
Erase(d) ==
    LET p == request[d].project
        latecomers == {e \in Exports : artifact[e].project = p /\ artifact[e].late} IN
    /\ request[d].outcome # "none"
    /\ life' = [life EXCEPT ![p] = "gone"]
    /\ request' = [request EXCEPT ![d].outcome = "completed"]
    /\ \E kept \in SUBSET latecomers :
          artifact' = [e \in Exports |->
              IF artifact[e].project = p /\ e \notin kept
              THEN [artifact[e] EXCEPT !.state = "gone"]
              ELSE artifact[e]]

Order(e, p) ==
    /\ artifact[e].state = "none"
    /\ life[p] # "none"
    /\ artifact' = [artifact EXCEPT ![e] =
                        [state |-> "pending", project |-> p, late |-> life[p] # "live"]]
    /\ UNCHANGED <<life, request>>

\* The export is complete.  Unless the project is live its bytes may have been
\* deleted, before or after.
Deliver(e) ==
    /\ artifact[e].state \notin {"none", "gone"}
    /\ \/ artifact' = [artifact EXCEPT ![e].state = "available"]
       \/ /\ life[artifact[e].project] # "live"
          /\ artifact' = [artifact EXCEPT ![e].state = "withdrawn"]
    /\ UNCHANGED <<life, request>>

Fail(e) ==
    /\ artifact[e].state \notin {"none", "gone"}
    /\ artifact' = [artifact EXCEPT ![e].state = "failed"]
    /\ UNCHANGED <<life, request>>

LifecycleNext ==
    \/ \E p \in Projects : Create(p)
    \/ \E p \in Projects, d \in Deletions : Ask(d, p)
    \/ \E p \in Projects, e \in Exports : Order(e, p)
    \/ \E d \in Deletions : Answer(d) \/ Erase(d)
    \/ \E e \in Exports : Deliver(e) \/ Fail(e)

LifecycleSpec == LifecycleInit /\ [][LifecycleNext]_lifecycleVars
=============================================================================
