------------------------------ MODULE Retention -----------------------------
(***************************************************************************)
(* Projects of one workspace, their exports and their deletion             *)
(* (services.py: create_project, export_content, the export worker,        *)
(* request_project_deletion and the retention worker).                     *)
(*                                                                         *)
(* Rows and stored objects are kept apart: a transaction covers rows only, *)
(* objects appear and vanish one by one, when the adapter is called.  The  *)
(* reads of a handler that a commit of another process can separate are    *)
(* its steps.                                                              *)
(***************************************************************************)
EXTENDS Naturals

CONSTANTS
    Projects,       \* identifiers new_id("prj") may return
    Versions,       \* source versions, all ready; each has an object
    Exports,        \* identifiers new_id("exp") may return
    Deletions,      \* identifiers new_id("del") may return
    Threads,        \* API request threads
    Renderers,      \* export workers
    Erasers,        \* retention workers
    MaxAttempts,    \* claims of a deletion request: 3 in the code
    ForeignKeys,    \* rows that stay may refer to rows a deletion deletes, and
                    \* the database enforces it (it is not SQLite)
    LegalHolds,     \* the workspace may be put under a legal hold
    LongJobs,       \* a job may outlast the lease of its worker
    MaxFaults       \* bound: processes that die, leases that expire under a job

VARIABLES
    project,        \* rows of projects, each with its only configuration
    rows,           \* source versions that have a row
    objects,        \* keys in the object store
    export,         \* rows of export_jobs
    deletion,       \* rows of deletion_requests
    hold,           \* retention_policies.legal_hold
    referenced,     \* projects and versions other tables refer to
    proc,           \* thread or worker -> its handler and what it has read
    faults          \* crashes and expired leases of live jobs so far

policy == <<hold, referenced>>
stored == <<project, rows, objects, export, deletion>>
vars == <<stored, policy, proc, faults>>

Nothing == "nothing"

Jobs == Exports \union Deletions

Agents == Threads \union Renderers \union Erasers

ASSUME RetentionAssumption ==
    /\ Nothing \notin Projects \union Jobs
    /\ Versions \cap Exports = {}
    /\ Projects \cap Versions = {}
    /\ Exports \cap Deletions = {}
    /\ Threads \cap (Renderers \union Erasers) = {}
    /\ Renderers \cap Erasers = {}
    /\ MaxAttempts \in Nat \ {0}
    /\ {ForeignKeys, LegalHolds, LongJobs} \subseteq BOOLEAN
    /\ MaxFaults \in Nat

Project == [status : {"absent", "draft", "deletion_pending", "gone"},
            sources : SUBSET Versions]

Lease == {"none", "held", "expired"}

\* late is a history variable: the job was inserted when the deletion of its
\* project had been requested.
Export == [status : {"absent", "queued", "rendering", "completed", "failed", "gone"},
           project : Projects \union {Nothing}, named : BOOLEAN, lease : Lease,
           late : BOOLEAN]

Deletion == [status : {"absent", "pending", "running", "blocked", "completed", "failed"},
             project : Projects \union {Nothing}, attempts : Nat, lease : Lease]

Pc == {"idle", "creating", "exporting", "requesting", "repeating", "claimed",
       "rendered", "stored", "blocking", "cleared", "found", "listed",
       "erasing", "emptied", "raised"}

\* item: the project, export or request at work on; keys: versions chosen,
\* objects yet to be deleted or rows to be deleted, by pc.  At emptied the
\* export rows among them are deleted in a transaction that is still open.
Process == [pc : Pc, item : Projects \union Jobs \union {Nothing},
            keys : SUBSET (Versions \union Exports)]

Idle == [pc |-> "idle", item |-> Nothing, keys |-> {}]

\* Rows and what processes have read have their types, and a worker at work
\* holds a job of its kind whose row names a project.
TypeOK ==
    /\ project \in [Projects -> Project]
    /\ rows \subseteq Versions
    /\ objects \subseteq Versions \union Exports
    /\ export \in [Exports -> Export]
    /\ deletion \in [Deletions -> Deletion]
    /\ hold \in BOOLEAN
    /\ referenced \subseteq Projects \union Versions
    /\ proc \in [Agents -> Process]
    /\ \A w \in Renderers : proc[w].pc # "idle" =>
          proc[w].item \in Exports /\ export[proc[w].item].project \in Projects
    /\ \A w \in Erasers : proc[w].pc # "idle" =>
          proc[w].item \in Deletions /\ deletion[proc[w].item].project \in Projects
    /\ faults \in Nat

NoExport == [status |-> "absent", project |-> Nothing, named |-> FALSE, lease |-> "none",
             late |-> FALSE]

NoDeletion == [status |-> "absent", project |-> Nothing, attempts |-> 0, lease |-> "none"]

Init ==
    /\ project = [p \in Projects |-> [status |-> "absent", sources |-> {}]]
    /\ rows = Versions
    /\ objects = Versions
    /\ export = [e \in Exports |-> NoExport]
    /\ deletion = [d \in Deletions |-> NoDeletion]
    /\ hold = FALSE
    /\ referenced = {}
    /\ proc = [a \in Agents |-> Idle]
    /\ faults = 0

-----------------------------------------------------------------------------
At(a, pc, item, keys) ==
    proc' = [proc EXCEPT ![a] = [pc |-> pc, item |-> item, keys |-> keys]]

Done(a) == proc' = [proc EXCEPT ![a] = Idle]

\* Process a, at pc, goes on to the next one with what it has read.
Goes(a, pc, next, keys) ==
    /\ proc[a].pc = pc
    /\ At(a, next, proc[a].item, keys)

Exists(p) == project[p].status \in {"draft", "deletion_pending"}

ExportExists(e) == export[e].status \notin {"absent", "gone"}

-----------------------------------------------------------------------------
(* Handlers of the API *)

\* create_project looks up every chosen version, and commits the project
\* with its configuration in a transaction that refers to none of them.
CreateRead(t, chosen) ==
    /\ proc[t].pc = "idle"
    /\ chosen \subseteq rows
    /\ At(t, "creating", Nothing, chosen)
    /\ UNCHANGED <<stored, policy, faults>>

CreateCommit(t, p) ==
    /\ proc[t].pc = "creating"
    /\ project[p].status = "absent"
    /\ project' = [project EXCEPT ![p] =
                    [status |-> "draft", sources |-> proc[t].keys]]
    /\ Done(t)
    /\ UNCHANGED <<rows, objects, export, deletion, policy, faults>>

\* export_content: the state of the project is not looked at.  A request
\* whose key is known is answered with its job and changes nothing.
ExportRead(t, p) ==
    /\ proc[t].pc = "idle"
    /\ Exists(p)
    /\ At(t, "exporting", p, {})
    /\ UNCHANGED <<stored, policy, faults>>

\* export_jobs.project_id is no foreign key: the project may be gone.
ExportCommit(t, e) ==
    /\ proc[t].pc = "exporting"
    /\ export[e].status = "absent"
    /\ export' = [export EXCEPT ![e] =
                    [NoExport EXCEPT !.status = "queued", !.project = proc[t].item,
                                     !.late = project[proc[t].item].status # "draft"]]
    /\ Done(t)
    /\ UNCHANGED <<project, rows, objects, deletion, policy, faults>>

Open == {"pending", "running", "blocked"}

\* request_project_deletion: an open request for the project is the answer.
\* The project was loaded before the requests are queried: it may have been a
\* draft then, and there, whatever it is by now.
DeletionRead(t, p) ==
    /\ proc[t].pc = "idle"
    /\ project[p].status # "absent"
    /\ \A d \in Deletions : deletion[d].project = p => deletion[d].status \notin Open
    /\ \/ At(t, "requesting", p, {})
       \/ project[p].status # "draft" /\ At(t, "repeating", p, {})
    /\ UNCHANGED <<stored, policy, faults>>

\* A row that was pending when it was read is not updated: the request is
\* inserted even if the project is gone.
DeletionCommit(t, d) ==
    LET p == proc[t].item IN
    /\ proc[t].pc = "repeating" \/ (proc[t].pc = "requesting" /\ Exists(p))
    /\ deletion[d].status = "absent"
    /\ deletion' = [deletion EXCEPT ![d] =
                        [NoDeletion EXCEPT !.status = "pending", !.project = p]]
    /\ project' = [project EXCEPT ![p].status =
                        IF Exists(p) THEN "deletion_pending" ELSE @]
    /\ Done(t)
    /\ UNCHANGED <<rows, objects, export, policy, faults>>

\* The update of a project row that is gone fails and with it the request.
DeletionConflict(t) ==
    /\ proc[t].pc = "requesting"
    /\ ~Exists(proc[t].item)
    /\ Done(t)
    /\ UNCHANGED <<stored, policy, faults>>

\* update_retention_policy
SetHold ==
    /\ LegalHolds
    /\ hold' = ~hold
    /\ UNCHANGED <<stored, referenced, proc, faults>>

\* A turn of the project asks for approval, or the index of the version is
\* rebuilt: rows that the deletion does not delete refer to it from then on.
\* An insert that refers to a run an open transaction has deleted waits for it.
Refer(x) ==
    /\ ForeignKeys
    /\ x \in rows \/ (x \in Projects /\ Exists(x))
    /\ \A w \in Erasers : proc[w].pc = "emptied" => deletion[proc[w].item].project # x
    /\ referenced' = referenced \union {x}
    /\ UNCHANGED <<stored, hold, proc, faults>>

-----------------------------------------------------------------------------
(* The export worker; the inline call of export_content is one, too *)

\* The row is deleted by a transaction that is still open: other sessions read
\* it as it was, and those that lock or write it wait.
Locked(e) == \E w \in Erasers : proc[w].pc = "emptied" /\ e \in proc[w].keys

\* A fault: a job whose worker died is not claimed again.
ExportClaimableOnce(row) == row.status = "queued"

ClaimableExport(row) ==
    row.status = "queued" \/ (row.status = "rendering" /\ row.lease = "expired")

\* The claim skips locked rows.
ClaimExport(w, e) ==
    /\ proc[w].pc = "idle"
    /\ ClaimableExport(export[e]) /\ ~Locked(e)
    /\ export' = [export EXCEPT ![e].status = "rendering", ![e].lease = "held"]
    /\ At(w, "claimed", e, {})
    /\ UNCHANGED <<project, rows, objects, deletion, policy, faults>>

\* process_export_job loads the project and the blocks of the version.
RenderExport(w) ==
    /\ Goes(w, "claimed",
            IF Exists(export[proc[w].item].project) THEN "rendered" ELSE "raised", {})
    /\ UNCHANGED <<stored, policy, faults>>

StoreExport(w) ==
    /\ Goes(w, "rendered", "stored", {})
    /\ objects' = objects \union {proc[w].item}
    /\ UNCHANGED <<project, rows, export, deletion, policy, faults>>

\* Rendering fails or the object store is down.
ExportRaises(w) ==
    /\ Goes(w, "rendered", "raised", {})
    /\ UNCHANGED <<stored, policy, faults>>

\* The row is updated, unless it is gone: then the commit raises.
CompleteExport(w) ==
    LET e == proc[w].item IN
    \/ /\ proc[w].pc = "stored"
       /\ ExportExists(e) /\ ~Locked(e)
       /\ export' = [export EXCEPT ![e] = [export[e] EXCEPT
                        !.status = "completed", !.named = TRUE, !.lease = "none"]]
       /\ Done(w)
       /\ UNCHANGED <<project, rows, objects, deletion, policy, faults>>
    \/ /\ Goes(w, "stored", "raised", {})
       /\ ~ExportExists(e)
       /\ UNCHANGED <<stored, policy, faults>>

\* The except clause reads the row again and writes failed, if it is there.
FailExport(w) ==
    LET e == proc[w].item IN
    /\ proc[w].pc = "raised" /\ ~Locked(e)
    /\ export' = IF ExportExists(e)
                 THEN [export EXCEPT ![e].status = "failed", ![e].lease = "none"]
                 ELSE export
    /\ Done(w)
    /\ UNCHANGED <<project, rows, objects, deletion, policy, faults>>

RendererStep(w) ==
    RenderExport(w) \/ StoreExport(w) \/ ExportRaises(w)
        \/ CompleteExport(w) \/ FailExport(w)

-----------------------------------------------------------------------------
(* The retention worker *)

\* A fault: a request whose worker died is not claimed again.
DeletionClaimableOnce(row) == row.status = "pending"

\* A fault: a running request is claimed whether or not its lease has expired.
DeletionClaimableWhileHeld(row) ==
    row.status = "pending" \/ (row.status = "running" /\ row.attempts < MaxAttempts)

ClaimableDeletion(row) ==
    \/ row.status = "pending"
    \/ row.status = "running" /\ row.lease = "expired" /\ row.attempts < MaxAttempts

ClaimDeletion(w, d) ==
    /\ proc[w].pc = "idle"
    /\ ClaimableDeletion(deletion[d])
    /\ deletion' = [deletion EXCEPT ![d] = [deletion[d] EXCEPT !.status = "running",
                        !.attempts = @ + 1, !.lease = "held"]]
    /\ At(w, "claimed", d, {})
    /\ UNCHANGED <<project, rows, objects, export, policy, faults>>

\* The project of the request w works on.
Target(w) == deletion[proc[w].item].project

\* The request leaves the worker in its last state.
Close(w, status) ==
    /\ deletion' = [deletion EXCEPT ![proc[w].item].status = status,
                                    ![proc[w].item].lease = "none"]
    /\ Done(w)

\* process_deletion_request reads the policy once.
CheckHold(w) ==
    /\ Goes(w, "claimed", IF hold THEN "blocking" ELSE "cleared", {})
    /\ UNCHANGED <<stored, policy, faults>>

Block(w) ==
    /\ proc[w].pc = "blocking"
    /\ Close(w, "blocked")
    /\ UNCHANGED <<project, rows, objects, export, policy, faults>>

LoadProject(w) ==
    /\ proc[w].pc = "cleared"
    /\ \/ Exists(Target(w)) /\ Goes(w, "cleared", "found", {}) /\ UNCHANGED deletion
       \/ ~Exists(Target(w)) /\ Close(w, "completed")
    /\ UNCHANGED <<project, rows, objects, export, policy, faults>>

\* The versions p selects and no other project does; configurations are
\* deleted with their project.
Removable(p) ==
    project[p].sources \ UNION {project[q].sources : q \in Projects \ {p}}

ListVersions(w) ==
    /\ Goes(w, "found", "listed", Removable(Target(w)) \cap rows)
    /\ UNCHANGED <<stored, policy, faults>>

\* A fault: the exports of the workspace, not those of the project.
ArtifactsOfAll(p) == {e \in Exports : export[e].named /\ ExportExists(e)}

Artifacts(p) ==
    {e \in Exports : export[e].named /\ ExportExists(e) /\ export[e].project = p}

ListExports(w) ==
    /\ Goes(w, "listed", "erasing", proc[w].keys \union Artifacts(Target(w)))
    /\ UNCHANGED <<stored, policy, faults>>

\* Sources first; an object that is not there is deleted without complaint.
EraseObject(w, k) ==
    /\ k \in proc[w].keys
    /\ k \in Versions \/ proc[w].keys \cap Versions = {}
    /\ Goes(w, "erasing", "erasing", proc[w].keys \ {k})
    /\ objects' = objects \ {k}
    /\ UNCHANGED <<project, rows, export, deletion, policy, faults>>

\* The object store or the checkpoint directory raises.
EraseRaises(w) ==
    /\ Goes(w, "erasing", "raised", {})
    /\ UNCHANGED <<stored, policy, faults>>

\* A fault: the exports that have been stored, not all of the project's.
StoredExports(p) == Artifacts(p)

ExportRows(p) == {e \in Exports : ExportExists(e) /\ export[e].project = p}

\* _delete_project_records reads the configurations once more and deletes row
\* by row type; the bulk delete of export_jobs takes the rows committed by then.
\* A second deletion of the project waits at its configurations for the end of
\* the first.
DeleteRecords(w) ==
    /\ proc[w].keys = {}
    /\ Goes(w, "erasing", "emptied", Removable(Target(w)) \union ExportRows(Target(w)))
    /\ \A u \in Erasers \ {w} : proc[u].pc = "emptied" => Target(u) # Target(w)
    /\ UNCHANGED <<stored, policy, faults>>

Referenced(w) == ForeignKeys /\ referenced \cap ({Target(w)} \union proc[w].keys) # {}

\* A fault: the request is completed and the project row is kept.
ProjectWithoutRecords(p) == [project[p] EXCEPT !.sources = {}]

ProjectGone(p) == [status |-> "gone", sources |-> {}]

ExportGone(row) == [row EXCEPT !.status = "gone", !.lease = "none"]

\* Exports that were inserted since the bulk delete stay: their project is no
\* foreign key.
EraseCommit(w) ==
    LET p == Target(w) IN
    /\ proc[w].pc = "emptied"
    /\ ~Referenced(w)
    /\ project' = [project EXCEPT ![p] = ProjectGone(p)]
    /\ rows' = rows \ proc[w].keys
    /\ export' = [e \in Exports |->
                    IF e \in proc[w].keys
                    THEN ExportGone(export[e])
                    ELSE export[e]]
    /\ Close(w, "completed")
    /\ UNCHANGED <<objects, policy, faults>>

\* A foreign key refuses one of the deletes, which are all rolled back.
EraseRefused(w) ==
    /\ Goes(w, "emptied", "raised", {})
    /\ Referenced(w)
    /\ UNCHANGED <<stored, policy, faults>>

FailDeletion(w) ==
    /\ proc[w].pc = "raised"
    /\ Close(w, "failed")
    /\ UNCHANGED <<project, rows, objects, export, policy, faults>>

EraserStep(w) ==
    \/ CheckHold(w) \/ Block(w) \/ LoadProject(w)
    \/ ListVersions(w) \/ ListExports(w)
    \/ \E k \in Versions \union Exports : EraseObject(w, k)
    \/ EraseRaises(w) \/ DeleteRecords(w) \/ EraseCommit(w) \/ EraseRefused(w)
    \/ FailDeletion(w)

-----------------------------------------------------------------------------
(* Environment *)

\* Five minutes pass since a claim; normally the job is over by then.
LeaseEnds(j, workers) ==
    \/ (\A w \in workers : proc[w].item # j) /\ UNCHANGED faults
    \/ (\E w \in workers : proc[w].item = j)
          /\ LongJobs /\ faults < MaxFaults /\ faults' = faults + 1

ExpireExport(e) ==
    /\ export[e].lease = "held"
    /\ LeaseEnds(e, Renderers)
    /\ export' = [export EXCEPT ![e].lease = "expired"]
    /\ UNCHANGED <<project, rows, objects, deletion, policy, proc>>

ExpireDeletion(d) ==
    /\ deletion[d].lease = "held"
    /\ LeaseEnds(d, Erasers)
    /\ deletion' = [deletion EXCEPT ![d].lease = "expired"]
    /\ UNCHANGED <<project, rows, objects, export, policy, proc>>

\* A process dies with what it has read; rows and objects stay as they are.
Crash(a) ==
    /\ proc[a].pc # "idle"
    /\ faults < MaxFaults
    /\ faults' = faults + 1
    /\ Done(a)
    /\ UNCHANGED <<stored, policy>>

-----------------------------------------------------------------------------
ThreadStep(t) ==
    \/ \E chosen \in SUBSET Versions : CreateRead(t, chosen)
    \/ \E p \in Projects :
          CreateCommit(t, p) \/ ExportRead(t, p) \/ DeletionRead(t, p)
    \/ \E e \in Exports : ExportCommit(t, e)
    \/ \E d \in Deletions : DeletionCommit(t, d)
    \/ DeletionConflict(t)

Next ==
    \/ \E t \in Threads : ThreadStep(t)
    \/ \E w \in Renderers : RendererStep(w) \/ \E e \in Exports : ClaimExport(w, e)
    \/ \E w \in Erasers : EraserStep(w) \/ \E d \in Deletions : ClaimDeletion(w, d)
    \/ \E e \in Exports : ExpireExport(e)
    \/ \E d \in Deletions : ExpireDeletion(d)
    \/ \E a \in Agents : Crash(a)
    \/ SetHold
    \/ \E x \in Projects \union Versions : Refer(x)

Spec == Init /\ [][Next]_vars

\* Workers poll for jobs and finish them, and time passes.
Fairness ==
    /\ \A w \in Renderers : WF_vars(RendererStep(w))
    /\ \A w \in Renderers : WF_vars(\E e \in Exports : ClaimExport(w, e))
    /\ \A w \in Erasers : WF_vars(EraserStep(w))
    /\ \A w \in Erasers : WF_vars(\E d \in Deletions : ClaimDeletion(w, d))
    /\ \A e \in Exports : WF_vars(ExpireExport(e))
    /\ \A d \in Deletions : WF_vars(ExpireDeletion(d))

FairSpec == Spec /\ Fairness

-----------------------------------------------------------------------------
(* Deletion and export under every interleaving *)

\* A completed request means what it says: the project and its records are
\* gone, also when a second worker took the request over, a crash came
\* between objects and rows or two requests were open for one project.
CompletedMeansGone ==
    \A d \in Deletions : deletion[d].status = "completed" =>
        /\ ~Exists(deletion[d].project)
        /\ project[deletion[d].project].sources = {}

\* The deletion of one project leaves the artifacts of the others alone: an
\* export that a client sees completed can be downloaded.
LiveExportsStored ==
    \A e \in Exports :
        export[e].status = "completed" /\ project[export[e].project].status = "draft"
            => e \in objects

\* Every request is decided, although workers die between objects and rows:
\* it stays open only if a legal hold blocks it or its attempts are used up.
DeletionsEnd ==
    \A d \in Deletions :
        deletion[d].status \in {"pending", "running"} ~>
            \/ deletion[d].status \in {"completed", "failed", "blocked"}
            \/ deletion[d].attempts >= MaxAttempts

\* Every export job is decided or deleted with its project.
ExportsEnd ==
    \A e \in Exports :
        export[e].status \in {"queued", "rendering"} ~>
            export[e].status \in {"completed", "failed", "gone"}

\* While leases last, nothing that claimed a job earlier is left to write over
\* what clients rely on: an export that was completed stays so until it is
\* deleted, a deletion that was completed is never reported otherwise, and a
\* request that a legal hold has blocked is never carried out.
DecidedIsFinal ==
    [][/\ \A e \in Exports : export[e].status = "completed" =>
             export'[e].status \in {"completed", "gone"}
       /\ \A d \in Deletions : deletion[d].status \in {"completed", "blocked"} =>
             deletion'[d].status = deletion[d].status]_vars

-----------------------------------------------------------------------------
(* The life of projects, requests and artifacts that clients see *)

\* The bytes of a completed export are there or have been erased.
Made(e) ==
    CASE export[e].status \in {"queued", "rendering"} -> "pending"
      [] export[e].status = "completed" ->
            IF e \in objects THEN "available" ELSE "withdrawn"
      [] export[e].status = "absent" -> "none"
      [] OTHER -> export[e].status

Outcome(d) ==
    CASE deletion[d].status = "absent" -> "none"
      [] deletion[d].status \in {"pending", "running"} -> "open"
      [] OTHER -> deletion[d].status

Stage(p) ==
    CASE project[p].status = "absent" -> "none"
      [] project[p].status = "draft" -> "live"
      [] project[p].status = "deletion_pending" -> "doomed"
      [] project[p].status = "gone" -> "gone"

Lifecycle == INSTANCE ProjectLifecycle WITH
    life <- [p \in Projects |-> Stage(p)],
    request <- [d \in Deletions |->
                    [outcome |-> Outcome(d), project |-> deletion[d].project]],
    artifact <- [e \in Exports |->
                    [state |-> Made(e), project |-> export[e].project,
                     late |-> export[e].late]]

\* Crashes between objects and rows, workers that take over a request, late
\* exports and late requests leave clients with the life cycle they expect.
ImplementsLifecycle == Lifecycle!LifecycleSpec

-----------------------------------------------------------------------------
(* What the documents promise and the code does not keep *)

\* "Shared immutable source versions and their bytes are preserved": what a
\* project selects is in the object store until its deletion is requested.
SelectedBytesKept ==
    \A p \in Projects : project[p].status = "draft" =>
        project[p].sources \subseteq rows \cap objects

\* The deletion "removes content/run/export records": a project that is gone
\* has no export, and none is made for it later.
GoneWithExports ==
    \A e \in Exports : ExportExists(e) => project[export[e].project].status # "gone"

=============================================================================
