--------------------------- MODULE RetentionProofs ---------------------------
(***************************************************************************)
(* Proofs about Retention for any number of projects, sources, jobs,       *)
(* threads and workers, with or without foreign keys, and any bounds.      *)
(***************************************************************************)
EXTENDS Retention, TLAPS

Doomed == {"deletion_pending", "gone"}

\* What holds of what agent a has read, q, at any time.
Sound(a, q) ==
    /\ a \in Threads => q.keys \subseteq Versions
    /\ a \in Threads /\ q.pc \in {"exporting", "requesting", "repeating"} =>
          /\ q.item \in Projects
          /\ project[q.item].status # "absent"
          /\ q.pc = "repeating" => project[q.item].status \in Doomed
    /\ a \in Renderers /\ q.pc = "stored"
            /\ project[export[q.item].project].status = "draft" => q.item \in objects
    /\ a \in Erasers /\ q.pc # "idle" =>
          \A e \in q.keys \cap Exports : export[e].project = deletion[q.item].project

ProcInv == \A a \in Agents : Sound(a, proc[a])

\* Requests are about projects that will be or are deleted.
DeletionInv ==
    \A d \in Deletions :
        \/ deletion[d] = NoDeletion
        \/ /\ deletion[d].status # "absent"
           /\ deletion[d].project \in Projects
           /\ project[deletion[d].project].status \in Doomed

\* Jobs are about projects that exist or existed.
ExportInv ==
    \A e \in Exports :
        \/ export[e] = NoExport
        \/ /\ export[e].status # "absent"
           /\ export[e].project \in Projects
           /\ project[export[e].project].status # "absent"

GoneInv == \A p \in Projects : project[p].status = "gone" => project[p].sources = {}

IInv ==
    /\ TypeOK
    /\ DeletionInv
    /\ ExportInv
    /\ GoneInv
    /\ CompletedMeansGone
    /\ LiveExportsStored
    /\ ProcInv

-----------------------------------------------------------------------------
(* What every step does to the rows *)

\* Projects go from absent over draft and pending to gone, jobs stay with
\* their project, and artifacts vanish only with a doomed project.
Evolves ==
    /\ \A p \in Projects :
          /\ project[p].status # "absent" => project'[p].status # "absent"
          /\ project[p].status \in Doomed => project'[p].status \in Doomed
          /\ project[p].status = "gone" => project'[p].status = "gone"
    /\ \A e \in Exports :
          export[e].project \in Projects => export'[e].project = export[e].project
    /\ \A d \in Deletions :
          deletion[d].project \in Projects => deletion'[d].project = deletion[d].project
    /\ \A e \in Exports \cap objects :
          e \in objects' \/ (export[e].project \in Projects =>
                                project[export[e].project].status \in Doomed)

\* What an agent that takes no part in a step has read remains sound.
LEMMA OthersSound ==
    ASSUME IInv, TypeOK', Evolves, NEW a \in Agents, proc'[a] = proc[a]
    PROVE  Sound(a, proc[a])'
<1>. DEFINE q == proc[a]
<1>1. q \in Process /\ Sound(a, q)
  BY DEF IInv, TypeOK, ProcInv
<1>5. a \in Threads => q.keys \subseteq Versions
  BY <1>1 DEF Sound
<1>2. ASSUME a \in Threads, q.pc \in {"exporting", "requesting", "repeating"}
      PROVE  /\ q.item \in Projects
             /\ project'[q.item].status # "absent"
             /\ q.pc = "repeating" => project'[q.item].status \in Doomed
  BY <1>1, <1>2 DEF Sound, Evolves
<1>3. ASSUME a \in Renderers, q.pc = "stored",
             project'[export'[q.item].project].status = "draft"
      PROVE  q.item \in objects'
  <2>1. q.item \in Exports /\ export[q.item].project \in Projects
    BY <1>3 DEF IInv, TypeOK
  <2>2. export'[q.item].project = export[q.item].project
    BY <2>1 DEF Evolves
  <2>3. project[export[q.item].project].status # "absent"
    BY <2>1, RetentionAssumption DEF IInv, ExportInv, NoExport
  <2>4. project[export[q.item].project].status \notin Doomed
    BY <1>3, <2>1, <2>2 DEF Evolves, Doomed
  <2>5. project[export[q.item].project].status = "draft"
    BY <2>1, <2>3, <2>4 DEF IInv, TypeOK, Project, Doomed
  <2>. QED  BY <1>1, <1>3, <2>1, <2>4, <2>5 DEF Sound, Evolves
<1>4. ASSUME a \in Erasers, q.pc # "idle", NEW e \in q.keys \cap Exports
      PROVE  export'[e].project = deletion'[q.item].project
  <2>1. q.item \in Deletions /\ deletion[q.item].project \in Projects
    BY <1>4 DEF IInv, TypeOK
  <2>2. export[e].project = deletion[q.item].project
    BY <1>1, <1>4 DEF Sound
  <2>. QED  BY <1>4, <2>1, <2>2 DEF Evolves
<1>. QED  BY <1>2, <1>3, <1>4, <1>5 DEF Sound

\* The general step: rows evolve and every agent that moves is left sound.
LEMMA GeneralStep ==
    ASSUME IInv, TypeOK', DeletionInv', ExportInv', GoneInv',
           CompletedMeansGone', LiveExportsStored', Evolves,
           \A a \in Agents : proc'[a] = proc[a] \/ Sound(a, proc[a])'
    PROVE  IInv'
<1>1. ProcInv'
  BY OthersSound DEF ProcInv
<1>. QED  BY <1>1 DEF IInv

\* The item of a worker at work is a job of its kind, with a project.
Shaped(a, q) ==
    /\ a \in Renderers /\ q.pc # "idle" =>
          q.item \in Exports /\ export[q.item].project \in Projects
    /\ a \in Erasers /\ q.pc # "idle" =>
          q.item \in Deletions /\ deletion[q.item].project \in Projects

\* A step of one agent that changes neither rows nor objects.
LEMMA ProcStep ==
    ASSUME IInv, NEW a \in Agents, NEW q \in Process, Shaped(a, q), Sound(a, q),
           proc' = [proc EXCEPT ![a] = q], UNCHANGED <<stored, policy>>,
           faults' \in Nat
    PROVE  IInv'
<1>1. TypeOK'
  BY DEF IInv, TypeOK, Shaped, stored, policy
<1>2. DeletionInv' /\ ExportInv' /\ GoneInv' /\ CompletedMeansGone'
      /\ LiveExportsStored'
  BY DEF IInv, DeletionInv, ExportInv, GoneInv, CompletedMeansGone,
         LiveExportsStored, stored, Exists
<1>3. Evolves
  BY DEF Evolves, stored
<1>4. \A b \in Agents : proc'[b] = proc[b] \/ (b = a /\ proc'[b] = q)
  BY DEF IInv, TypeOK
<1>5. ASSUME NEW b \in Agents PROVE proc'[b] = proc[b] \/ Sound(b, proc[b])'
  BY <1>4 DEF Sound, stored
<1>. QED  BY <1>1, <1>2, <1>3, <1>5, GeneralStep

\* Idle is shaped and sound for everyone.
LEMMA IdleProcess ==
    ASSUME NEW a \in Agents
    PROVE  Idle \in Process /\ Shaped(a, Idle) /\ Sound(a, Idle)
BY DEF Idle, Process, Pc, Shaped, Sound

LEMMA DoneStep ==
    ASSUME IInv, NEW a \in Agents, Done(a), UNCHANGED <<stored, policy>>, faults' \in Nat
    PROVE  IInv'
BY IdleProcess, ProcStep DEF Done

-----------------------------------------------------------------------------
(* Steps that only read *)

\* A worker goes on with its job; the artifacts it holds are its project's.
LEMMA GoesStep ==
    ASSUME IInv, NEW w \in Renderers \union Erasers, NEW pc, NEW next \in Pc,
           NEW keys \in SUBSET (Versions \union Exports),
           Goes(w, pc, next, keys), pc # "idle", next # "stored",
           w \in Erasers => \A e \in keys \cap Exports : export[e].project = Target(w),
           UNCHANGED <<stored, policy, faults>>
    PROVE  IInv'
<1>. DEFINE q == [pc |-> next, item |-> proc[w].item, keys |-> keys]
<1>1. w \in Agents /\ w \notin Threads /\ proc[w] \in Process /\ faults' \in Nat
  BY RetentionAssumption DEF IInv, TypeOK, Agents
<1>2. q \in Process
  BY <1>1 DEF Process
<1>3. Shaped(w, q)
  BY <1>1 DEF Shaped, Goes, IInv, TypeOK
<1>4. Sound(w, q)
  BY <1>1 DEF Sound, Target
<1>5. proc' = [proc EXCEPT ![w] = q]
  BY DEF Goes, At
<1>. HIDE DEF q
<1>. QED  BY <1>1, <1>2, <1>3, <1>4, <1>5, ProcStep

\* A worker goes on and holds nothing.
LEMMA GoesOn ==
    ASSUME IInv, NEW w \in Renderers \union Erasers, NEW pc, NEW next \in Pc,
           Goes(w, pc, next, {}), pc # "idle", next # "stored",
           UNCHANGED <<stored, policy, faults>>
    PROVE  IInv'
<1>. DEFINE keys == {}
<1>1. keys \in SUBSET (Versions \union Exports) /\ keys \cap Exports = {}
  OBVIOUS
<1>2. Goes(w, pc, next, keys)
  OBVIOUS
<1>. HIDE DEF keys
<1>. QED  BY <1>1, <1>2, GoesStep

LEMMA ThreadReads ==
    ASSUME IInv, NEW t \in Threads
    PROVE  /\ \A chosen \in SUBSET Versions : CreateRead(t, chosen) => IInv'
           /\ \A p \in Projects : ExportRead(t, p) => IInv'
           /\ \A p \in Projects : DeletionRead(t, p) => IInv'
           /\ DeletionConflict(t) => IInv'
<1>1. t \in Agents /\ t \notin Renderers /\ t \notin Erasers /\ faults \in Nat
  BY RetentionAssumption DEF Agents, IInv, TypeOK
<1>2. ASSUME NEW pc \in Pc, NEW item \in Projects \union {Nothing},
             NEW chosen \in SUBSET Versions,
             At(t, pc, item, chosen), UNCHANGED <<stored, policy, faults>>,
             pc \in {"exporting", "requesting", "repeating"} =>
                /\ item \in Projects
                /\ project[item].status # "absent"
                /\ pc = "repeating" => project[item].status \in Doomed
      PROVE  IInv'
  <2>. DEFINE q == [pc |-> pc, item |-> item, keys |-> chosen]
  <2>1. q \in Process
    BY DEF Process
  <2>2. Shaped(t, q) /\ Sound(t, q)
    BY <1>1, <1>2 DEF Shaped, Sound
  <2>3. proc' = [proc EXCEPT ![t] = q] /\ faults' = faults
    BY <1>2 DEF At
  <2>. HIDE DEF q
  <2>. QED  BY <1>1, <1>2, <2>1, <2>2, <2>3, ProcStep
<1>3. ASSUME NEW chosen \in SUBSET Versions, CreateRead(t, chosen) PROVE IInv'
  BY <1>2, <1>3 DEF CreateRead, Pc
<1>4. ASSUME NEW p \in Projects, ExportRead(t, p) PROVE IInv'
  BY <1>2, <1>4 DEF ExportRead, Pc, Exists
<1>5. ASSUME NEW p \in Projects, DeletionRead(t, p) PROVE IInv'
  <2>1. project[p].status = "draft" \/ project[p].status \in Doomed
    BY <1>5 DEF DeletionRead, Doomed, IInv, TypeOK, Project
  <2>2. CASE At(t, "requesting", p, {})
    BY <1>2, <1>5, <2>2 DEF DeletionRead, Pc
  <2>3. CASE At(t, "repeating", p, {}) /\ project[p].status # "draft"
    BY <1>2, <1>5, <2>1, <2>3 DEF DeletionRead, Pc
  <2>. QED  BY <1>5, <2>2, <2>3 DEF DeletionRead
<1>6. DeletionConflict(t) => IInv'
  BY <1>1, DoneStep DEF DeletionConflict
<1>. QED  BY <1>3, <1>4, <1>5, <1>6

LEMMA WorkerReads ==
    ASSUME IInv, NEW w \in Renderers \union Erasers
    PROVE  /\ w \in Renderers /\ RenderExport(w) => IInv'
           /\ w \in Renderers /\ ExportRaises(w) => IInv'
           /\ CheckHold(w) => IInv'
           /\ w \in Erasers /\ ListVersions(w) => IInv'
           /\ w \in Erasers /\ ListExports(w) => IInv'
           /\ EraseRaises(w) => IInv'
           /\ w \in Erasers /\ DeleteRecords(w) => IInv'
           /\ EraseRefused(w) => IInv'
<1>. USE GoesStep DEF Pc
<1>0. Versions \cap Exports = {}
  BY RetentionAssumption
<1>1. ASSUME w \in Renderers, RenderExport(w) PROVE IInv'
  <2>. DEFINE next == IF Exists(export[proc[w].item].project) THEN "rendered" ELSE "raised"
  <2>1. next \in Pc /\ next # "stored"
    OBVIOUS
  <2>2. Goes(w, "claimed", next, {})
    BY <1>1 DEF RenderExport
  <2>. HIDE DEF next
  <2>. QED  BY <1>1, <2>1, <2>2, GoesOn DEF RenderExport
<1>2. ASSUME w \in Renderers, ExportRaises(w) PROVE IInv'
  BY <1>2, GoesOn DEF ExportRaises
<1>3. ASSUME CheckHold(w) PROVE IInv'
  <2>. DEFINE next == IF hold THEN "blocking" ELSE "cleared"
  <2>1. next \in Pc /\ next # "stored"
    OBVIOUS
  <2>2. Goes(w, "claimed", next, {})
    BY <1>3 DEF CheckHold
  <2>. HIDE DEF next
  <2>. QED  BY <1>3, <2>1, <2>2, GoesOn DEF CheckHold
<1>4. ASSUME w \in Erasers, ListVersions(w) PROVE IInv'
  <2>. DEFINE keys == Removable(Target(w)) \cap rows
  <2>1. keys \in SUBSET (Versions \union Exports) /\ keys \cap Exports = {}
    BY <1>0 DEF IInv, TypeOK
  <2>2. Goes(w, "found", "listed", keys)
    BY <1>4 DEF ListVersions
  <2>. HIDE DEF keys
  <2>. QED  BY <1>4, <2>1, <2>2 DEF ListVersions
<1>5. ASSUME w \in Erasers, ListExports(w) PROVE IInv'
  <2>. DEFINE keys == proc[w].keys \union Artifacts(Target(w))
  <2>1. keys \subseteq Versions \union Exports
    <3>1. proc[w] \in Process
      BY DEF IInv, TypeOK, Agents
    <3>. QED  BY <3>1 DEF Process, Artifacts
  <2>2. \A e \in keys \cap Exports : export[e].project = Target(w)
    <3>1. Sound(w, proc[w]) /\ proc[w].pc # "idle"
      BY <1>5 DEF IInv, ProcInv, Agents, ListExports, Goes
    <3>. QED  BY <1>5, <3>1 DEF Sound, Artifacts, Target
  <2>3. Goes(w, "listed", "erasing", keys)
    BY <1>5 DEF ListExports
  <2>. HIDE DEF keys
  <2>4. keys \in SUBSET (Versions \union Exports)
    BY <2>1
  <2>. QED  BY <1>5, <2>2, <2>3, <2>4 DEF ListExports
<1>6. ASSUME EraseRaises(w) PROVE IInv'
  BY <1>6, GoesOn DEF EraseRaises
<1>7. ASSUME w \in Erasers, DeleteRecords(w) PROVE IInv'
  <2>1. deletion[proc[w].item].project \in Projects
    BY <1>7 DEF IInv, TypeOK, DeleteRecords, Goes
  <2>. DEFINE keys == Removable(Target(w)) \union ExportRows(Target(w))
  <2>2. Removable(Target(w)) \subseteq Versions
    BY <2>1 DEF Removable, Target, IInv, TypeOK, Project
  <2>3. /\ keys \in SUBSET (Versions \union Exports)
        /\ \A e \in keys \cap Exports : export[e].project = Target(w)
    BY <1>0, <2>2 DEF ExportRows
  <2>4. Goes(w, "erasing", "emptied", keys)
    BY <1>7 DEF DeleteRecords
  <2>. HIDE DEF keys
  <2>. QED  BY <1>7, <2>3, <2>4 DEF DeleteRecords
<1>8. ASSUME EraseRefused(w) PROVE IInv'
  BY <1>8, GoesOn DEF EraseRefused
<1>. QED  BY <1>1, <1>2, <1>3, <1>4, <1>5, <1>6, <1>7, <1>8

-----------------------------------------------------------------------------
(* Steps that write one row *)

\* One agent moves, or none, and is sound where it arrives.
Moves ==
    \/ proc' = proc
    \/ \E a \in Agents, q \in Process :
          proc' = [proc EXCEPT ![a] = q] /\ Shaped(a, q) /\ Sound(a, q)

\* The process that moves and those that do not, when rows keep their projects.
LEMMA MovesSound ==
    ASSUME IInv, Moves, UNCHANGED <<project, objects>>,
           \A e \in Exports : export[e].project \in Projects =>
                export'[e].project = export[e].project,
           \A d \in Deletions : deletion[d].project \in Projects =>
                deletion'[d].project = deletion[d].project
    PROVE  /\ proc' \in [Agents -> Process]
           /\ \A a \in Agents : Shaped(a, proc[a])'
           /\ \A a \in Agents : proc'[a] = proc[a] \/ Sound(a, proc[a])'
<1>1. /\ proc \in [Agents -> Process]
      /\ \A a \in Agents : Shaped(a, proc[a]) /\ Sound(a, proc[a])
  BY DEF IInv, TypeOK, ProcInv, Shaped
<1>2. ASSUME NEW a \in Agents, NEW q \in Process, Shaped(a, q)
      PROVE  /\ a \in Renderers /\ q.pc # "idle" =>
                    q.item \in Exports /\ export'[q.item].project \in Projects
             /\ a \in Erasers /\ q.pc # "idle" =>
                    q.item \in Deletions /\ deletion'[q.item].project \in Projects
  BY <1>2 DEF Shaped
<1>3. ASSUME NEW a \in Agents, NEW q \in Process, Shaped(a, q), Sound(a, q), proc'[a] = q
      PROVE  Sound(a, proc[a])'
  <2>1. a \in Erasers /\ q.pc # "idle" =>
          \A e \in q.keys \cap Exports : export'[e].project = deletion'[q.item].project
    <3>. SUFFICES ASSUME a \in Erasers, q.pc # "idle", NEW e \in q.keys \cap Exports
                  PROVE  export'[e].project = deletion'[q.item].project
      OBVIOUS
    <3>1. q.item \in Deletions /\ deletion[q.item].project \in Projects
      BY <1>3 DEF Shaped
    <3>2. export[e].project = deletion[q.item].project
      BY <1>3 DEF Sound
    <3>. QED  BY <3>1, <3>2
  <2>2. a \in Renderers /\ q.pc = "stored"
            /\ project'[export'[q.item].project].status = "draft" => q.item \in objects'
    BY <1>3 DEF Shaped, Sound
  <2>. QED  BY <1>3, <2>1, <2>2 DEF Sound
<1>4. ASSUME proc' = proc
      PROVE  /\ proc' \in [Agents -> Process]
             /\ \A a \in Agents : Shaped(a, proc[a])'
             /\ \A a \in Agents : proc'[a] = proc[a] \/ Sound(a, proc[a])'
  BY <1>1, <1>2, <1>4 DEF Shaped
<1>5. ASSUME NEW b \in Agents, NEW q \in Process,
             proc' = [proc EXCEPT ![b] = q], Shaped(b, q), Sound(b, q)
      PROVE  /\ proc' \in [Agents -> Process]
             /\ \A a \in Agents : Shaped(a, proc[a])'
             /\ \A a \in Agents : proc'[a] = proc[a] \/ Sound(a, proc[a])'
  <2>1. proc' \in [Agents -> Process]
    BY <1>1, <1>5
  <2>2. \A a \in Agents : proc'[a] = IF a = b THEN q ELSE proc[a]
    BY <1>1, <1>5
  <2>3. ASSUME NEW a \in Agents PROVE Shaped(a, proc[a])'
    BY <1>1, <1>2, <1>5, <2>2 DEF Shaped
  <2>4. ASSUME NEW a \in Agents PROVE proc'[a] = proc[a] \/ Sound(a, proc[a])'
    BY <1>3, <1>5, <2>2
  <2>. QED  BY <2>1, <2>3, <2>4
<1>. QED  BY <1>4, <1>5 DEF Moves

\* The row of an export is written and stays with its project; it becomes
\* completed only when the artifact is there or the project is doomed.
LEMMA ExportWrite ==
    ASSUME IInv, NEW e \in Exports, NEW new \in Export, Moves,
           export[e].project \in Projects, new.project = export[e].project,
           new.status # "absent",
           new.status = "completed" => export[e].status = "completed"
                \/ e \in objects \/ project[new.project].status # "draft",
           export' = [export EXCEPT ![e] = new],
           UNCHANGED <<project, rows, objects, deletion, policy>>, faults' \in Nat
    PROVE  IInv'
<1>1. \A x \in Exports : export'[x] = IF x = e THEN new ELSE export[x]
  BY DEF IInv, TypeOK
<1>2. /\ proc' \in [Agents -> Process]
      /\ \A a \in Agents : Shaped(a, proc[a])'
      /\ \A a \in Agents : proc'[a] = proc[a] \/ Sound(a, proc[a])'
  BY <1>1, MovesSound DEF IInv, TypeOK
<1>3. TypeOK'
  <2>1. \A w \in Renderers : proc'[w].pc # "idle" =>
            proc'[w].item \in Exports /\ export'[proc'[w].item].project \in Projects
    BY <1>2 DEF Shaped, Agents
  <2>2. \A w \in Erasers : proc'[w].pc # "idle" =>
            proc'[w].item \in Deletions /\ deletion'[proc'[w].item].project \in Projects
    BY <1>2 DEF Shaped, Agents
  <2>. QED  BY <1>2, <2>1, <2>2 DEF IInv, TypeOK, policy
<1>4. DeletionInv' /\ GoneInv' /\ CompletedMeansGone'
  BY DEF IInv, DeletionInv, GoneInv, CompletedMeansGone, Exists
<1>5. ExportInv'
  <2>1. project[export[e].project].status # "absent"
    BY RetentionAssumption DEF IInv, ExportInv, NoExport
  <2>. QED  BY <1>1, <2>1 DEF IInv, ExportInv
<1>6. LiveExportsStored'
  BY <1>1 DEF IInv, LiveExportsStored
<1>7. Evolves
  BY <1>1 DEF Evolves
<1>. QED  BY <1>2, <1>3, <1>4, <1>5, <1>6, <1>7, GeneralStep

\* The row of a request is written and stays with its project; it becomes
\* completed only when the project is gone.
LEMMA DeletionWrite ==
    ASSUME IInv, NEW d \in Deletions, NEW new \in Deletion, Moves,
           deletion[d].project \in Projects, new.project = deletion[d].project,
           new.status # "absent",
           new.status = "completed" =>
                deletion[d].status = "completed" \/ ~Exists(new.project),
           deletion' = [deletion EXCEPT ![d] = new],
           UNCHANGED <<project, rows, objects, export, policy>>, faults' \in Nat
    PROVE  IInv'
<1>1. \A x \in Deletions : deletion'[x] = IF x = d THEN new ELSE deletion[x]
  BY DEF IInv, TypeOK
<1>2. /\ proc' \in [Agents -> Process]
      /\ \A a \in Agents : Shaped(a, proc[a])'
      /\ \A a \in Agents : proc'[a] = proc[a] \/ Sound(a, proc[a])'
  BY <1>1, MovesSound DEF IInv, TypeOK
<1>3. TypeOK'
  <2>1. \A w \in Renderers : proc'[w].pc # "idle" =>
            proc'[w].item \in Exports /\ export'[proc'[w].item].project \in Projects
    BY <1>2 DEF Shaped, Agents
  <2>2. \A w \in Erasers : proc'[w].pc # "idle" =>
            proc'[w].item \in Deletions /\ deletion'[proc'[w].item].project \in Projects
    BY <1>2 DEF Shaped, Agents
  <2>. QED  BY <1>2, <2>1, <2>2 DEF IInv, TypeOK, policy
<1>4. ExportInv' /\ GoneInv' /\ LiveExportsStored'
  BY DEF IInv, ExportInv, GoneInv, LiveExportsStored
<1>5. project[deletion[d].project].status \in Doomed
  BY RetentionAssumption DEF IInv, DeletionInv, NoDeletion
<1>6. DeletionInv'
  BY <1>1, <1>5 DEF IInv, DeletionInv
<1>7. CompletedMeansGone'
  <2>1. ~Exists(deletion[d].project) => project[deletion[d].project].sources = {}
    BY <1>5 DEF Exists, Doomed, IInv, GoneInv
  <2>. QED  BY <1>1, <2>1 DEF IInv, CompletedMeansGone, Exists
<1>8. Evolves
  BY <1>1 DEF Evolves
<1>. QED  BY <1>2, <1>3, <1>4, <1>6, <1>7, <1>8, GeneralStep

\* A worker that claims a job, goes on without objects or is done.
LEMMA WorkerMoves ==
    ASSUME IInv, NEW w \in Renderers \union Erasers
    PROVE  /\ Done(w) => Moves
           /\ \A e \in Exports :
                w \in Renderers /\ export[e].project \in Projects
                    /\ At(w, "claimed", e, {}) => Moves
           /\ \A d \in Deletions :
                w \in Erasers /\ deletion[d].project \in Projects
                    /\ At(w, "claimed", d, {}) => Moves
           /\ proc' = proc => Moves
<1>1. w \in Agents /\ w \notin Threads
  BY RetentionAssumption DEF Agents
<1>2. Done(w) => Moves
  BY <1>1, IdleProcess DEF Done, Moves
<1>3. ASSUME NEW j \in Jobs, At(w, "claimed", j, {}),
             w \in Renderers => j \in Exports /\ export[j].project \in Projects,
             w \in Erasers => j \in Deletions /\ deletion[j].project \in Projects
      PROVE  Moves
  <2>. DEFINE q == [pc |-> "claimed", item |-> j, keys |-> {}]
  <2>1. q \in Process
    BY DEF Process, Pc
  <2>2. Shaped(w, q) /\ Sound(w, q)
    BY <1>1, <1>3 DEF Shaped, Sound
  <2>3. proc' = [proc EXCEPT ![w] = q]
    BY <1>3 DEF At
  <2>. HIDE DEF q
  <2>. QED  BY <1>1, <2>1, <2>2, <2>3 DEF Moves
<1>4. \A e \in Exports :
        w \in Renderers /\ export[e].project \in Projects
            /\ At(w, "claimed", e, {}) => Moves
  BY <1>3, RetentionAssumption DEF Jobs
<1>5. \A d \in Deletions :
        w \in Erasers /\ deletion[d].project \in Projects
            /\ At(w, "claimed", d, {}) => Moves
  BY <1>3, RetentionAssumption DEF Jobs
<1>. QED  BY <1>2, <1>4, <1>5 DEF Moves

LEMMA ExportSteps ==
    ASSUME IInv, NEW w \in Renderers
    PROVE  /\ \A e \in Exports : ClaimExport(w, e) => IInv'
           /\ CompleteExport(w) => IInv'
           /\ FailExport(w) => IInv'
<1>0. faults \in Nat /\ export \in [Exports -> Export] /\ w \in Renderers \union Erasers
  BY DEF IInv, TypeOK
<1>1. ASSUME NEW e \in Exports, ClaimExport(w, e) PROVE IInv'
  <2>. DEFINE new == [export[e] EXCEPT !.status = "rendering", !.lease = "held"]
  <2>1. export[e].status # "absent"
    BY <1>1 DEF ClaimExport, ClaimableExport
  <2>2. export[e].project \in Projects
    BY <2>1 DEF IInv, ExportInv, NoExport
  <2>3. Moves
    BY <1>0, <1>1, <2>2, WorkerMoves DEF ClaimExport
  <2>4. /\ new \in Export /\ new.project = export[e].project
        /\ new.status = "rendering"
        /\ export' = [export EXCEPT ![e] = new]
    BY <1>0, <1>1 DEF ClaimExport, Export, Lease
  <2>. HIDE DEF new
  <2>. QED  BY <1>0, <1>1, <2>2, <2>3, <2>4, ExportWrite DEF ClaimExport
<1>2. ASSUME CompleteExport(w) PROVE IInv'
  <2>. DEFINE e == proc[w].item
              new == [export[e] EXCEPT !.status = "completed", !.named = TRUE,
                                       !.lease = "none"]
  <2>1. /\ e \in Exports /\ export[e].project \in Projects
        /\ proc[w].pc = "stored" /\ Sound(w, proc[w])
    BY <1>2 DEF CompleteExport, Goes, IInv, TypeOK, ProcInv, Agents
  <2>2. CASE ExportExists(e)
    <3>1. Done(w) /\ UNCHANGED <<project, rows, objects, deletion, policy, faults>>
      BY <1>2, <2>2 DEF CompleteExport
    <3>2. Moves
      BY <1>0, <3>1, WorkerMoves
    <3>5. export' = [export EXCEPT ![e] = new]
      BY <1>2, <2>2 DEF CompleteExport
    <3>6. export[e] \in Export
      BY <1>0, <2>1
    <3>7. ASSUME NEW x \in Export
          PROVE  LET y == [x EXCEPT !.status = "completed", !.named = TRUE, !.lease = "none"]
                 IN  y \in Export /\ y.project = x.project /\ y.status = "completed"
      BY DEF Export, Lease
    <3>3. new \in Export /\ new.project = export[e].project /\ new.status = "completed"
      BY <3>6, <3>7
    <3>4. e \in objects \/ project[new.project].status # "draft"
      BY <2>1, <3>3 DEF Sound
    <3>. HIDE DEF new, e
    <3>. QED  BY <1>0, <2>1, <3>1, <3>2, <3>3, <3>4, <3>5, ExportWrite
  <2>3. CASE ~ExportExists(e)
    BY <1>0, <1>2, <2>3, GoesOn DEF CompleteExport, Pc
  <2>. QED  BY <2>2, <2>3
<1>3. ASSUME FailExport(w) PROVE IInv'
  <2>. DEFINE e == proc[w].item
              new == [export[e] EXCEPT !.status = "failed", !.lease = "none"]
  <2>1. e \in Exports /\ export[e].project \in Projects
    BY <1>3 DEF FailExport, IInv, TypeOK
  <2>2. Done(w) /\ UNCHANGED <<project, rows, objects, deletion, policy, faults>>
    BY <1>3 DEF FailExport
  <2>3. Moves
    BY <1>0, <2>2, WorkerMoves
  <2>4. CASE ExportExists(e)
    <3>2. ASSUME NEW x \in Export
          PROVE  LET y == [x EXCEPT !.status = "failed", !.lease = "none"]
                 IN  y \in Export /\ y.project = x.project /\ y.status = "failed"
      BY DEF Export, Lease
    <3>3. new \in Export /\ new.project = export[e].project /\ new.status = "failed"
      BY <1>0, <2>1, <3>2
    <3>1. export' = [export EXCEPT ![e] = new]
      BY <1>0, <1>3, <2>1, <2>4 DEF FailExport
    <3>. HIDE DEF new, e
    <3>. QED  BY <1>0, <2>1, <2>2, <2>3, <3>1, <3>3, ExportWrite
  <2>5. CASE ~ExportExists(e)
    <3>1. UNCHANGED <<stored, policy>>
      BY <1>3, <2>2, <2>5 DEF FailExport, stored
    <3>. QED  BY <1>0, <2>2, <3>1, DoneStep DEF Agents
  <2>. QED  BY <2>4, <2>5
<1>. QED  BY <1>1, <1>2, <1>3

LEMMA ExpireSteps ==
    ASSUME IInv
    PROVE  /\ \A e \in Exports : ExpireExport(e) => IInv'
           /\ \A d \in Deletions : ExpireDeletion(d) => IInv'
<1>0. /\ faults \in Nat
      /\ export \in [Exports -> Export] /\ deletion \in [Deletions -> Deletion]
  BY DEF IInv, TypeOK
<1>1. ASSUME NEW e \in Exports, ExpireExport(e) PROVE IInv'
  <2>. DEFINE new == [export[e] EXCEPT !.lease = "expired"]
  <2>1. CASE export[e].project \in Projects
    <3>1. /\ new \in Export /\ new.project = export[e].project
          /\ new.status = export[e].status /\ new.status # "absent"
          /\ export' = [export EXCEPT ![e] = new]
      BY <1>0, <1>1, <2>1, RetentionAssumption
         DEF ExpireExport, Export, Lease, IInv, ExportInv, NoExport
    <3>2. Moves /\ faults' \in Nat
      BY <1>0, <1>1 DEF ExpireExport, LeaseEnds, Moves
    <3>. HIDE DEF new
    <3>. QED  BY <1>1, <2>1, <3>1, <3>2, ExportWrite DEF ExpireExport
  <2>2. CASE export[e].project \notin Projects
    \* A row that does not exist has no lease.
    BY <1>1, <2>2 DEF IInv, ExportInv, NoExport, ExpireExport
  <2>. QED  BY <2>1, <2>2
<1>2. ASSUME NEW d \in Deletions, ExpireDeletion(d) PROVE IInv'
  <2>. DEFINE new == [deletion[d] EXCEPT !.lease = "expired"]
  <2>1. CASE deletion[d].project \in Projects
    <3>1. /\ new \in Deletion /\ new.project = deletion[d].project
          /\ new.status = deletion[d].status /\ new.status # "absent"
          /\ deletion' = [deletion EXCEPT ![d] = new]
      BY <1>0, <1>2, <2>1, RetentionAssumption
         DEF ExpireDeletion, Deletion, Lease, IInv, DeletionInv, NoDeletion
    <3>2. Moves /\ faults' \in Nat
      BY <1>0, <1>2 DEF ExpireDeletion, LeaseEnds, Moves
    <3>. HIDE DEF new
    <3>. QED  BY <1>2, <2>1, <3>1, <3>2, DeletionWrite DEF ExpireDeletion
  <2>2. CASE deletion[d].project \notin Projects
    BY <1>2, <2>2 DEF IInv, DeletionInv, NoDeletion, ExpireDeletion
  <2>. QED  BY <2>1, <2>2
<1>. QED  BY <1>1, <1>2

LEMMA DeletionSteps ==
    ASSUME IInv, NEW w \in Erasers
    PROVE  /\ \A d \in Deletions : ClaimDeletion(w, d) => IInv'
           /\ Block(w) => IInv'
           /\ LoadProject(w) => IInv'
           /\ FailDeletion(w) => IInv'
<1>0. /\ faults \in Nat /\ w \in Renderers \union Erasers
      /\ deletion \in [Deletions -> Deletion]
  BY DEF IInv, TypeOK
<1>1. ASSUME NEW d \in Deletions, ClaimDeletion(w, d) PROVE IInv'
  <2>. DEFINE new == [deletion[d] EXCEPT !.status = "running",
                        !.attempts = @ + 1, !.lease = "held"]
  <2>1. deletion[d].status # "absent"
    BY <1>1 DEF ClaimDeletion, ClaimableDeletion
  <2>2. deletion[d].project \in Projects
    BY <2>1 DEF IInv, DeletionInv, NoDeletion
  <2>3. Moves
    BY <1>0, <1>1, <2>2, WorkerMoves DEF ClaimDeletion
  <2>4. /\ new \in Deletion /\ new.project = deletion[d].project
        /\ new.status = "running"
    <3>1. deletion[d] \in Deletion /\ deletion[d].attempts + 1 \in Nat
      BY <1>0 DEF Deletion
    <3>. QED  BY <3>1 DEF Deletion, Lease
  <2>5. deletion' = [deletion EXCEPT ![d] = new]
    BY <1>1 DEF ClaimDeletion
  <2>. HIDE DEF new
  <2>. QED  BY <1>0, <1>1, <2>2, <2>3, <2>4, <2>5, DeletionWrite DEF ClaimDeletion
<1>2. ASSUME NEW status \in {"blocked", "completed", "failed"},
             proc[w].pc # "idle", Close(w, status),
             status = "completed" => ~Exists(Target(w)),
             UNCHANGED <<project, rows, objects, export, policy, faults>>
      PROVE  IInv'
  <2>. DEFINE d == proc[w].item
              new == [deletion[d] EXCEPT !.status = status, !.lease = "none"]
  <2>1. d \in Deletions /\ deletion[d].project \in Projects
    BY <1>2 DEF IInv, TypeOK
  <2>2. Moves
    BY <1>0, <1>2, WorkerMoves DEF Close
  <2>3. /\ new \in Deletion /\ new.project = deletion[d].project
        /\ new.status = status
        /\ deletion' = [deletion EXCEPT ![d] = new]
    BY <1>0, <1>2, <2>1 DEF Close, Deletion, Lease
  <2>4. new.status = "completed" => ~Exists(new.project)
    BY <1>2, <2>3 DEF Target
  <2>. HIDE DEF new, d
  <2>. QED  BY <1>0, <1>2, <2>1, <2>2, <2>3, <2>4, DeletionWrite
<1>3. Block(w) => IInv'
  BY <1>2 DEF Block
<1>4. ASSUME LoadProject(w) PROVE IInv'
  <2>1. CASE Exists(Target(w))
    BY <1>0, <1>4, <2>1, GoesOn DEF LoadProject, stored, Pc
  <2>2. CASE ~Exists(Target(w))
    BY <1>2, <1>4, <2>2 DEF LoadProject
  <2>. QED  BY <2>1, <2>2
<1>5. FailDeletion(w) => IInv'
  BY <1>2 DEF FailDeletion
<1>. QED  BY <1>1, <1>3, <1>4, <1>5

-----------------------------------------------------------------------------
(* Steps that write a project, insert a row or touch an object *)

\* One agent moves to a state that is shaped and sound once rows have changed;
\* with Evolves and the invariants about rows the step is complete.
LEMMA ChangeStep ==
    ASSUME IInv, Evolves, NEW a \in Agents, NEW q \in Process,
           proc' = [proc EXCEPT ![a] = q],
           Shaped(a, proc[a])', Sound(a, proc[a])',
           project' \in [Projects -> Project], rows' \subseteq Versions,
           objects' \subseteq Versions \union Exports,
           export' \in [Exports -> Export], deletion' \in [Deletions -> Deletion],
           UNCHANGED <<policy, faults>>,
           DeletionInv', ExportInv', GoneInv', CompletedMeansGone', LiveExportsStored'
    PROVE  IInv'
<1>1. \A b \in Agents : proc'[b] = IF b = a THEN q ELSE proc[b]
  BY DEF IInv, TypeOK
<1>2. \A b \in Agents : Shaped(b, proc[b])
  BY DEF IInv, TypeOK, Shaped
<1>3. \A b \in Agents : Shaped(b, proc[b])'
  <2>. SUFFICES ASSUME NEW b \in Agents, b # a PROVE Shaped(b, proc[b])'
    OBVIOUS
  <2>1. proc'[b] = proc[b] /\ Shaped(b, proc[b])
    BY <1>1, <1>2
  <2>. QED  BY <2>1 DEF Shaped, Evolves
<1>4. TypeOK'
  <2>1. proc' \in [Agents -> Process]
    BY DEF IInv, TypeOK
  <2>2. \A w \in Renderers : proc'[w].pc # "idle" =>
            proc'[w].item \in Exports /\ export'[proc'[w].item].project \in Projects
    BY <1>3 DEF Shaped, Agents
  <2>3. \A w \in Erasers : proc'[w].pc # "idle" =>
            proc'[w].item \in Deletions /\ deletion'[proc'[w].item].project \in Projects
    BY <1>3 DEF Shaped, Agents
  <2>. QED  BY <2>1, <2>2, <2>3 DEF IInv, TypeOK, policy
<1>. QED  BY <1>1, <1>4, GeneralStep

\* What is idle is shaped and sound whatever the rows are.
LEMMA IdleNext ==
    ASSUME IInv, NEW a \in Agents, Done(a)
    PROVE  /\ Idle \in Process
           /\ proc' = [proc EXCEPT ![a] = Idle]
           /\ Shaped(a, proc[a])' /\ Sound(a, proc[a])'
<1>1. proc'[a] = Idle
  BY DEF Done, IInv, TypeOK
<1>. QED  BY <1>1, IdleProcess DEF Done, Idle, Shaped, Sound

LEMMA CreateStep ==
    ASSUME IInv, NEW t \in Threads, NEW p \in Projects, CreateCommit(t, p)
    PROVE  IInv'
<1>. DEFINE new == [status |-> "draft", sources |-> proc[t].keys]
<1>0. t \in Agents
  BY DEF Agents
<1>1. proc[t].keys \subseteq Versions
  BY <1>0 DEF IInv, ProcInv, Sound
<1>2. /\ project[p].status = "absent"
      /\ project' = [project EXCEPT ![p] = new]
      /\ project' \in [Projects -> Project]
      /\ \A x \in Projects : project'[x] = IF x = p THEN new ELSE project[x]
  BY <1>1 DEF CreateCommit, IInv, TypeOK, Project
<1>3. UNCHANGED <<rows, objects, export, deletion, policy, faults>> /\ Done(t)
  BY DEF CreateCommit
<1>4. Evolves
  BY <1>2, <1>3 DEF Evolves, Doomed
<1>5. DeletionInv' /\ CompletedMeansGone'
  BY <1>2, <1>3, RetentionAssumption
     DEF IInv, DeletionInv, CompletedMeansGone, NoDeletion, Exists, Doomed
<1>6. ExportInv' /\ LiveExportsStored'
  <2>1. \A e \in Exports : export[e] # NoExport =>
            export[e].project \in Projects /\ export[e].project # p
    BY <1>2 DEF IInv, ExportInv
  <2>2. ExportInv'
    BY <1>2, <1>3, <2>1 DEF IInv, ExportInv
  <2>3. LiveExportsStored'
    BY <1>2, <1>3, <2>1 DEF IInv, LiveExportsStored, NoExport
  <2>. QED  BY <2>2, <2>3
<1>7. GoneInv'
  BY <1>2 DEF IInv, GoneInv
<1>. QED  BY <1>0, <1>2, <1>3, <1>4, <1>5, <1>6, <1>7, IdleNext, ChangeStep DEF IInv, TypeOK

LEMMA ExportCommitStep ==
    ASSUME IInv, NEW t \in Threads, NEW e \in Exports, ExportCommit(t, e)
    PROVE  IInv'
<1>. DEFINE new == [NoExport EXCEPT !.status = "queued", !.project = proc[t].item,
                                    !.late = project[proc[t].item].status # "draft"]
<1>0. t \in Agents
  BY DEF Agents
<1>1. proc[t].item \in Projects /\ project[proc[t].item].status # "absent"
  BY <1>0 DEF IInv, ProcInv, Sound, ExportCommit
<1>2. new \in Export /\ new.project = proc[t].item /\ new.status = "queued"
  BY <1>1 DEF NoExport, Export, Lease
<1>3. export' = [export EXCEPT ![e] = new] /\ export[e] = NoExport
  BY DEF ExportCommit, IInv, ExportInv
<1>4. UNCHANGED <<project, rows, objects, deletion, policy, faults>> /\ Done(t)
  BY DEF ExportCommit
<1>. HIDE DEF new
<1>5. \A x \in Exports : export'[x] = IF x = e THEN new ELSE export[x]
  BY <1>3 DEF IInv, TypeOK
<1>6. export' \in [Exports -> Export]
  BY <1>2, <1>3 DEF IInv, TypeOK
<1>7. Evolves
  BY <1>3, <1>4, <1>5, RetentionAssumption DEF Evolves, NoExport
<1>8. DeletionInv' /\ GoneInv' /\ CompletedMeansGone'
  BY <1>4 DEF IInv, DeletionInv, GoneInv, CompletedMeansGone, Exists
<1>9. ExportInv' /\ LiveExportsStored'
  BY <1>1, <1>2, <1>4, <1>5 DEF IInv, ExportInv, LiveExportsStored
<1>. QED  BY <1>0, <1>4, <1>6, <1>7, <1>8, <1>9, IdleNext, ChangeStep DEF IInv, TypeOK

LEMMA DeletionCommitStep ==
    ASSUME IInv, NEW t \in Threads, NEW d \in Deletions, DeletionCommit(t, d)
    PROVE  IInv'
<1>. DEFINE p == proc[t].item
            new == [NoDeletion EXCEPT !.status = "pending", !.project = p]
            row == [project[p] EXCEPT !.status =
                        IF Exists(p) THEN "deletion_pending" ELSE @]
<1>0. t \in Agents
  BY DEF Agents
<1>1. p \in Projects /\ (Exists(p) \/ project[p].status \in Doomed)
  BY <1>0 DEF IInv, ProcInv, Sound, DeletionCommit
<1>2. new \in Deletion /\ new.project = p /\ new.status = "pending"
  BY <1>1 DEF NoDeletion, Deletion, Lease
<1>3. deletion' = [deletion EXCEPT ![d] = new] /\ deletion[d] = NoDeletion
  BY DEF DeletionCommit, IInv, DeletionInv
<1>4. UNCHANGED <<rows, objects, export, policy, faults>> /\ Done(t)
  BY DEF DeletionCommit
<1>5. /\ row \in Project /\ row.status \in Doomed
      /\ row.status = "gone" <=> project[p].status = "gone"
      /\ row.sources = project[p].sources
      /\ project' = [project EXCEPT ![p] = row]
  <2>1. project[p] \in Project
    BY <1>1 DEF IInv, TypeOK
  <2>2. Exists(p) \/ project[p].status = "gone"
    BY <1>1 DEF Exists, Doomed
  <2>3. project' = [project EXCEPT ![p] = row]
    BY DEF DeletionCommit
  <2>. QED  BY <2>1, <2>2, <2>3 DEF Project, Doomed, Exists
<1>. HIDE DEF new, row, p
<1>6. \A x \in Deletions : deletion'[x] = IF x = d THEN new ELSE deletion[x]
  BY <1>3 DEF IInv, TypeOK
<1>7. \A x \in Projects : project'[x] = IF x = p THEN row ELSE project[x]
  BY <1>5 DEF IInv, TypeOK
<1>8. deletion' \in [Deletions -> Deletion] /\ project' \in [Projects -> Project]
  BY <1>2, <1>3, <1>5 DEF IInv, TypeOK
<1>9. Evolves
  BY <1>3, <1>4, <1>5, <1>6, <1>7, RetentionAssumption DEF Evolves, NoDeletion, Doomed
<1>10. ExportInv' /\ GoneInv' /\ LiveExportsStored'
  BY <1>4, <1>5, <1>7 DEF IInv, ExportInv, GoneInv, LiveExportsStored, Doomed
<1>11. DeletionInv'
  BY <1>1, <1>2, <1>5, <1>6, <1>7 DEF IInv, DeletionInv
<1>12. CompletedMeansGone'
  <2>. SUFFICES ASSUME NEW x \in Deletions, deletion'[x].status = "completed"
                PROVE  /\ ~Exists(deletion[x].project)'
                       /\ project'[deletion'[x].project].sources = {}
    BY DEF CompletedMeansGone
  <2>1. x # d /\ deletion'[x] = deletion[x]
    BY <1>2, <1>6
  <2>2. /\ ~Exists(deletion[x].project) /\ project[deletion[x].project].sources = {}
        /\ deletion[x].project \in Projects
        /\ project[deletion[x].project].status \in Doomed
    BY <2>1 DEF IInv, CompletedMeansGone, DeletionInv, NoDeletion
  <2>. QED  BY <1>5, <1>7, <2>1, <2>2 DEF Exists, Doomed
<1>. QED  BY <1>0, <1>4, <1>8, <1>9, <1>10, <1>11, <1>12, IdleNext, ChangeStep
          DEF IInv, TypeOK

LEMMA StoreStep ==
    ASSUME IInv, NEW w \in Renderers, StoreExport(w)
    PROVE  IInv'
<1>. DEFINE q == [pc |-> "stored", item |-> proc[w].item, keys |-> {}]
<1>0. w \in Agents /\ w \notin Threads /\ w \notin Erasers
  BY RetentionAssumption DEF Agents
<1>1. proc[w].item \in Exports /\ export[proc[w].item].project \in Projects
  BY DEF IInv, TypeOK, StoreExport, Goes
<1>2. /\ UNCHANGED <<project, rows, export, deletion, policy, faults>>
      /\ objects' = objects \union {proc[w].item}
      /\ proc' = [proc EXCEPT ![w] = q]
  BY DEF StoreExport, Goes, At
<1>3. q \in Process
  BY <1>1 DEF Process, Pc, Jobs
<1>4. proc'[w] = q
  BY <1>0, <1>2 DEF IInv, TypeOK
<1>5. q.pc = "stored" /\ q.item \in Exports /\ export'[q.item].project \in Projects
      /\ q.item \in objects'
  BY <1>1, <1>2
<1>. HIDE DEF q
<1>6. Shaped(w, proc[w])' /\ Sound(w, proc[w])'
  BY <1>0, <1>4, <1>5 DEF Shaped, Sound
<1>7. Evolves
  BY <1>2 DEF Evolves
<1>8. /\ DeletionInv' /\ ExportInv' /\ GoneInv' /\ CompletedMeansGone'
      /\ LiveExportsStored'
  BY <1>2 DEF IInv, DeletionInv, ExportInv, GoneInv, CompletedMeansGone,
              LiveExportsStored, Exists
<1>9. objects' \subseteq Versions \union Exports
  BY <1>1, <1>2 DEF IInv, TypeOK
<1>10. /\ project' \in [Projects -> Project] /\ rows' \subseteq Versions
       /\ export' \in [Exports -> Export] /\ deletion' \in [Deletions -> Deletion]
       /\ UNCHANGED <<policy, faults>>
  BY <1>2 DEF IInv, TypeOK
<1>. QED  BY <1>0, <1>2, <1>3, <1>6, <1>7, <1>8, <1>9, <1>10, ChangeStep

\* What is erased is a source or an artifact of the doomed project.
LEMMA EraseStep ==
    ASSUME IInv, NEW w \in Erasers, NEW k \in Versions \union Exports, EraseObject(w, k)
    PROVE  IInv'
<1>. DEFINE q == [pc |-> "erasing", item |-> proc[w].item, keys |-> proc[w].keys \ {k}]
<1>0. w \in Agents /\ w \notin Threads /\ w \notin Renderers
  BY RetentionAssumption DEF Agents
<1>1. /\ proc[w].item \in Deletions /\ Target(w) \in Projects
      /\ proc[w] \in Process /\ Sound(w, proc[w]) /\ proc[w].pc = "erasing"
  BY <1>0 DEF IInv, TypeOK, ProcInv, EraseObject, Goes, Target
<1>2. /\ UNCHANGED <<project, rows, export, deletion, policy, faults>>
      /\ objects' = objects \ {k} /\ k \in proc[w].keys
      /\ proc' = [proc EXCEPT ![w] = q]
  BY DEF EraseObject, Goes, At
<1>3. q \in Process
  BY <1>1 DEF Process, Pc
<1>4. proc'[w] = q
  BY <1>0, <1>2 DEF IInv, TypeOK
<1>5. /\ q.item = proc[w].item
      /\ \A e \in q.keys \cap Exports : export[e].project = Target(w)
  BY <1>1 DEF Sound, Target
<1>. HIDE DEF q
<1>6. Shaped(w, proc[w])' /\ Sound(w, proc[w])'
  BY <1>0, <1>1, <1>2, <1>4, <1>5 DEF Shaped, Sound, Target
<1>7. project[Target(w)].status \in Doomed
  BY <1>1, RetentionAssumption DEF IInv, DeletionInv, NoDeletion, Target
<1>8. k \in Exports => export[k].project = Target(w)
  BY <1>1, <1>2 DEF Sound, Target
<1>9. Evolves
  BY <1>2, <1>7, <1>8 DEF Evolves
<1>10. DeletionInv' /\ ExportInv' /\ GoneInv' /\ CompletedMeansGone'
  BY <1>2 DEF IInv, DeletionInv, ExportInv, GoneInv, CompletedMeansGone, Exists
<1>11. LiveExportsStored'
  BY <1>2, <1>7, <1>8 DEF IInv, LiveExportsStored, Doomed
<1>12. /\ project' \in [Projects -> Project] /\ rows' \subseteq Versions
       /\ objects' \subseteq Versions \union Exports
       /\ export' \in [Exports -> Export] /\ deletion' \in [Deletions -> Deletion]
       /\ UNCHANGED <<policy, faults>>
  BY <1>2 DEF IInv, TypeOK
<1>. QED  BY <1>0, <1>2, <1>3, <1>6, <1>9, <1>10, <1>11, <1>12, ChangeStep

LEMMA EraseCommitStep ==
    ASSUME IInv, NEW w \in Erasers, EraseCommit(w)
    PROVE  IInv'
<1>. DEFINE p == Target(w)
            d == proc[w].item
            new == [deletion[d] EXCEPT !.status = "completed", !.lease = "none"]
<1>0. w \in Agents
  BY DEF Agents
<1>1. d \in Deletions /\ p \in Projects /\ deletion[d].project = p
  BY DEF IInv, TypeOK, EraseCommit, Target
<1>2. UNCHANGED <<objects, policy, faults>> /\ Done(w)
  BY DEF EraseCommit, Close
<1>3. \A x \in Projects : project'[x] = IF x = p THEN ProjectGone(p) ELSE project[x]
  BY DEF EraseCommit, IInv, TypeOK
<1>4. /\ project' \in [Projects -> Project]
      /\ ProjectGone(p).status = "gone" /\ ProjectGone(p).sources = {}
  <2>1. ProjectGone(p) \in Project
    BY DEF ProjectGone, Project
  <2>. QED  BY <2>1 DEF EraseCommit, IInv, TypeOK, ProjectGone
<1>5. \A e \in Exports : /\ export'[e] = IF e \in proc[w].keys
                                          THEN ExportGone(export[e]) ELSE export[e]
                         /\ export'[e].project = export[e].project
                         /\ export'[e] \in Export
                         /\ e \in proc[w].keys => export'[e].status = "gone"
  <2>1. \A e \in Exports : export'[e] = IF e \in proc[w].keys
                                         THEN ExportGone(export[e]) ELSE export[e]
    BY DEF EraseCommit
  <2>2. ASSUME NEW row \in Export
        PROVE  /\ ExportGone(row) \in Export /\ ExportGone(row).project = row.project
               /\ ExportGone(row).status = "gone"
    BY DEF ExportGone, Export, Lease
  <2>3. \A e \in Exports : export[e] \in Export
    BY DEF IInv, TypeOK
  <2>. QED  BY <2>1, <2>2, <2>3
<1>16. \A e \in Exports : e \in proc[w].keys => export[e].project = p
  BY <1>0, <1>1 DEF IInv, ProcInv, Sound, EraseCommit
<1>6. export' \in [Exports -> Export] /\ rows' \subseteq Versions
  BY <1>5 DEF EraseCommit, IInv, TypeOK
<1>7. /\ new \in Deletion /\ new.project = p /\ new.status = "completed"
      /\ deletion' = [deletion EXCEPT ![d] = new]
  <2>1. deletion \in [Deletions -> Deletion]
    BY DEF IInv, TypeOK
  <2>2. deletion' = [deletion EXCEPT ![d].status = "completed", ![d].lease = "none"]
    BY DEF EraseCommit, Close
  <2>3. new \in Deletion /\ new.project = p /\ new.status = "completed"
    <3>1. ASSUME NEW row \in Deletion
          PROVE  LET y == [row EXCEPT !.status = "completed", !.lease = "none"]
                 IN  y \in Deletion /\ y.project = row.project /\ y.status = "completed"
      BY DEF Deletion, Lease
    <3>2. deletion[d] \in Deletion /\ deletion[d].project = p
      BY <1>1, <2>1
    <3>. HIDE DEF d, p
    <3>. QED  BY <3>1, <3>2
  <2>4. PICK x \in Deletions : x = d
    BY <1>1
  <2>5. deletion' = [deletion EXCEPT ![x] =
                        [deletion[x] EXCEPT !.status = "completed", !.lease = "none"]]
    BY <2>1, <2>2, <2>4
  <2>. QED  BY <2>3, <2>4, <2>5
<1>. HIDE DEF p, d, new
<1>8. /\ \A x \in Deletions : deletion'[x] = IF x = d THEN new ELSE deletion[x]
      /\ deletion' \in [Deletions -> Deletion]
  BY <1>7 DEF IInv, TypeOK
<1>9. project[p].status \in Doomed
  BY <1>1, RetentionAssumption DEF IInv, DeletionInv, NoDeletion
<1>10. Evolves
  BY <1>1, <1>2, <1>3, <1>4, <1>5, <1>7, <1>8, <1>9 DEF Evolves, Doomed
<1>11. GoneInv'
  BY <1>3, <1>4 DEF IInv, GoneInv
<1>12. DeletionInv'
  BY <1>1, <1>3, <1>4, <1>7, <1>8 DEF IInv, DeletionInv, Doomed
<1>13. ExportInv'
  <2>1. ASSUME NEW e \in Exports, export[e] = NoExport PROVE export'[e] = NoExport
    <3>1. e \notin proc[w].keys
      BY <1>1, <1>16, <2>1, RetentionAssumption DEF NoExport
    <3>. QED  BY <1>5, <2>1, <3>1
  <2>2. ASSUME NEW e \in Exports, export[e].status # "absent",
               export[e].project \in Projects,
               project[export[e].project].status # "absent"
        PROVE  /\ export'[e].status # "absent"
               /\ export'[e].project \in Projects
               /\ project'[export'[e].project].status # "absent"
    BY <1>3, <1>4, <1>5, <2>2
  <2>. QED  BY <2>1, <2>2 DEF IInv, ExportInv
<1>14. CompletedMeansGone'
  <2>. SUFFICES ASSUME NEW x \in Deletions, deletion'[x].status = "completed"
                PROVE  /\ ~Exists(deletion[x].project)'
                       /\ project'[deletion'[x].project].sources = {}
    BY DEF CompletedMeansGone
  <2>1. CASE deletion'[x].project = p
    BY <1>1, <1>3, <1>4, <2>1 DEF Exists
  <2>2. CASE deletion'[x].project # p
    <3>1. deletion'[x] = deletion[x] /\ deletion[x].project \in Projects
      BY <1>7, <1>8, <2>2 DEF IInv, DeletionInv, NoDeletion
    <3>. QED  BY <1>3, <2>2, <3>1 DEF IInv, CompletedMeansGone, Exists
  <2>. QED  BY <2>1, <2>2
<1>15. LiveExportsStored'
  <2>. SUFFICES ASSUME NEW e \in Exports, export'[e].status = "completed",
                       project'[export'[e].project].status = "draft"
                PROVE  e \in objects'
    BY DEF LiveExportsStored
  <2>1. e \notin proc[w].keys /\ export'[e] = export[e]
    BY <1>5
  <2>2. export[e].project \in Projects
    BY <2>1 DEF IInv, ExportInv, NoExport
  <2>3. export[e].project # p
    BY <1>1, <1>3, <1>4, <2>1
  <2>. QED  BY <1>2, <1>3, <2>1, <2>2, <2>3 DEF IInv, LiveExportsStored
<1>. QED  BY <1>0, <1>2, <1>4, <1>6, <1>8, <1>10, <1>11, <1>12, <1>13, <1>14, <1>15,
             IdleNext, ChangeStep DEF IInv, TypeOK

-----------------------------------------------------------------------------
(* The theorems *)

\* The policy and the references to projects and sources are read, and that
\* is all that the invariant knows of them.
LEMMA PolicyStep ==
    ASSUME IInv, UNCHANGED <<stored, proc, faults>>, hold' \in BOOLEAN,
           referenced' \subseteq Projects \union Versions
    PROVE  IInv'
<1>1. TypeOK'
  BY DEF IInv, TypeOK, stored
<1>2. /\ DeletionInv' /\ ExportInv' /\ GoneInv' /\ CompletedMeansGone'
      /\ LiveExportsStored'
  BY DEF IInv, DeletionInv, ExportInv, GoneInv, CompletedMeansGone,
         LiveExportsStored, stored, Exists
<1>3. Evolves
  BY DEF Evolves, stored
<1>. QED  BY <1>1, <1>2, <1>3, GeneralStep

LEMMA InitIInv == Init => IInv
<1>. SUFFICES ASSUME Init PROVE IInv
  OBVIOUS
<1>1. TypeOK
  <2>1. [status |-> "absent", sources |-> {}] \in Project
    BY DEF Project
  <2>2. NoExport \in Export /\ NoDeletion \in Deletion
    BY DEF NoExport, Export, NoDeletion, Deletion, Lease
  <2>3. Idle \in Process
    BY DEF Idle, Process, Pc
  <2>. QED  BY <2>1, <2>2, <2>3 DEF Init, TypeOK, Agents, Idle
<1>2. DeletionInv /\ ExportInv /\ GoneInv /\ CompletedMeansGone /\ LiveExportsStored
  BY DEF Init, DeletionInv, ExportInv, GoneInv, CompletedMeansGone,
         LiveExportsStored, NoExport, NoDeletion
<1>3. ProcInv
  BY DEF Init, ProcInv, Sound, Idle
<1>. QED  BY <1>1, <1>2, <1>3 DEF IInv

LEMMA Induction == IInv /\ [Next]_vars => IInv'
<1>. SUFFICES ASSUME IInv, [Next]_vars PROVE IInv'
  OBVIOUS
<1>1. ASSUME NEW t \in Threads, ThreadStep(t) PROVE IInv'
  BY <1>1, ThreadReads, CreateStep, ExportCommitStep, DeletionCommitStep DEF ThreadStep
<1>2. ASSUME NEW w \in Renderers,
             RendererStep(w) \/ \E e \in Exports : ClaimExport(w, e)
      PROVE  IInv'
  BY <1>2, WorkerReads, StoreStep, ExportSteps DEF RendererStep
<1>3. ASSUME NEW w \in Erasers,
             EraserStep(w) \/ \E d \in Deletions : ClaimDeletion(w, d)
      PROVE  IInv'
  BY <1>3, WorkerReads, EraseStep, EraseCommitStep, DeletionSteps DEF EraserStep
<1>4. ASSUME NEW e \in Exports, ExpireExport(e) PROVE IInv'
  BY <1>4, ExpireSteps
<1>5. ASSUME NEW d \in Deletions, ExpireDeletion(d) PROVE IInv'
  BY <1>5, ExpireSteps
<1>6. ASSUME NEW a \in Agents, Crash(a) PROVE IInv'
  BY <1>6, DoneStep DEF Crash, IInv, TypeOK
<1>7. ASSUME SetHold PROVE IInv'
  BY <1>7, PolicyStep DEF SetHold, IInv, TypeOK, stored
<1>8. ASSUME NEW x \in Projects \union Versions, Refer(x) PROVE IInv'
  BY <1>8, PolicyStep DEF Refer, IInv, TypeOK, stored
<1>9. ASSUME UNCHANGED vars PROVE IInv'
  BY <1>9, PolicyStep DEF vars, policy, IInv, TypeOK
<1>. QED  BY <1>1, <1>2, <1>3, <1>4, <1>5, <1>6, <1>7, <1>8, <1>9 DEF Next

LEMMA Invariance == Spec => []IInv
<1>. QED  BY InitIInv, Induction, PTL DEF Spec

\* Rows keep their types, and a worker of exports or deletions always has a
\* job of its kind whose project is known, through crashes, leases that
\* expire under a worker and rows that vanish while it works.
THEOREM RetentionTypeCorrect == Spec => []TypeOK
<1>1. IInv => TypeOK
  BY DEF IInv
<1>. QED  BY <1>1, Invariance, PTL

\* A deletion request is completed only when the project and what it selected
\* are gone (process_deletion_request), however many requests are open for
\* the project and workers take them over.
THEOREM CompletedRequestsMeanGone == Spec => []CompletedMeansGone
<1>1. IInv => CompletedMeansGone
  BY DEF IInv
<1>. QED  BY <1>1, Invariance, PTL

\* The artifact of a completed export is in the object store as long as no
\* deletion of its project has been requested (process_export_job and the
\* deletion of objects in process_deletion_request).
THEOREM LiveExportsAreStored == Spec => []LiveExportsStored
<1>1. IInv => LiveExportsStored
  BY DEF IInv
<1>. QED  BY <1>1, Invariance, PTL

-----------------------------------------------------------------------------
(* While leases outlast jobs *)

\* A worker at work holds the lease of its job, unless the row is gone.
Held(w, q) ==
    /\ w \in Renderers /\ q.pc # "idle" =>
          \/ export[q.item].status = "rendering" /\ export[q.item].lease = "held"
          \/ export[q.item].status = "gone"
    /\ w \in Erasers /\ q.pc # "idle" =>
          deletion[q.item].status = "running" /\ deletion[q.item].lease = "held"

\* Workers at work hold their jobs, each of them one of its own.
Alone(W) ==
    \A w, u \in W : w # u /\ proc[w].pc # "idle" /\ proc[u].pc # "idle" =>
        proc[w].item # proc[u].item

OwnInv ==
    /\ \A w \in Renderers \union Erasers : Held(w, proc[w])
    /\ Alone(Renderers) /\ Alone(Erasers)

\* What DecidedIsFinal says of a step.
KeepsDecided ==
    /\ \A e \in Exports : export[e].status = "completed" =>
          export'[e].status \in {"completed", "gone"}
    /\ \A d \in Deletions : deletion[d].status \in {"completed", "blocked"} =>
          deletion'[d].status = deletion[d].status

\* Nobody is at work on j.
Free(j, W) == \A w \in W : proc[w].pc # "idle" => proc[w].item # j

\* The general step: agent a ends its work or goes on with the job it has,
\* and the rows that others hold stay or are erased.
LEMMA OwnStep ==
    ASSUME IInv, OwnInv, NEW a \in Agents, NEW q,
           proc' = [proc EXCEPT ![a] = q],
           q.pc = "idle" \/ (proc[a].pc # "idle" /\ q.item = proc[a].item)
               \/ a \in Threads,
           Held(a, q)',
           \A e \in Exports : \/ export'[e] = export[e]
                              \/ export'[e].status = "gone"
                              \/ Free(e, Renderers \ {a}),
           \A d \in Deletions : deletion'[d] = deletion[d] \/ Free(d, Erasers \ {a})
    PROVE  OwnInv'
<1>1. \A b \in Agents : proc'[b] = IF b = a THEN q ELSE proc[b]
  BY DEF IInv, TypeOK
<1>2. ASSUME NEW w \in Renderers \union Erasers PROVE Held(w, proc[w])'
  <2>1. CASE w = a
    BY <1>1, <2>1
  <2>2. CASE w # a
    <3>1. proc'[w] = proc[w] /\ Held(w, proc[w])
      BY <1>1, <1>2, <2>2 DEF Agents, OwnInv
    <3>2. CASE w \in Renderers /\ proc[w].pc # "idle"
      <4>1. proc[w].item \in Exports /\ w \notin Erasers
        BY <3>2, RetentionAssumption DEF IInv, TypeOK
      <4>2. \/ export'[proc[w].item] = export[proc[w].item]
            \/ export'[proc[w].item].status = "gone"
        BY <2>2, <3>2, <4>1 DEF Free
      <4>. QED  BY <3>1, <3>2, <4>1, <4>2 DEF Held
    <3>3. CASE w \in Erasers /\ proc[w].pc # "idle"
      <4>1. proc[w].item \in Deletions /\ w \notin Renderers
        BY <3>3, RetentionAssumption DEF IInv, TypeOK
      <4>2. deletion'[proc[w].item] = deletion[proc[w].item]
        BY <2>2, <3>3, <4>1 DEF Free
      <4>. QED  BY <3>1, <3>3, <4>1, <4>2 DEF Held
    <3>. QED  BY <3>1, <3>2, <3>3 DEF Held
  <2>. QED  BY <2>1, <2>2
<1>3. Alone(Renderers)' /\ Alone(Erasers)'
  <2>. SUFFICES ASSUME NEW W \in {Renderers, Erasers} PROVE Alone(W)'
    OBVIOUS
  <2>1. \A w \in W : proc'[w].pc # "idle" =>
            proc[w].pc # "idle" /\ proc'[w].item = proc[w].item
    BY <1>1, RetentionAssumption DEF Agents
  <2>2. Alone(W)
    BY DEF OwnInv
  <2>. QED  BY <2>1, <2>2 DEF Alone
<1>. QED  BY <1>2, <1>3 DEF OwnInv

\* An agent goes on with its job, or ends it, and no row changes.
LEMMA OwnRead ==
    ASSUME IInv, OwnInv, NEW a \in Agents, NEW q,
           proc' = [proc EXCEPT ![a] = q],
           q.pc = "idle" \/ (proc[a].pc # "idle" /\ q.item = proc[a].item)
               \/ a \in Threads,
           UNCHANGED <<export, deletion>>
    PROVE  OwnInv' /\ KeepsDecided
<1>1. Held(a, q)'
  <2>1. a \notin Threads => Held(a, proc[a])
    BY DEF OwnInv, Agents
  <2>2. a \in Threads => a \notin Renderers \union Erasers
    BY RetentionAssumption
  <2>. QED  BY <2>1, <2>2 DEF Held, Agents
<1>2. OwnInv'
  BY <1>1, OwnStep
<1>. QED  BY <1>2 DEF KeepsDecided

\* The same for the forms that actions have.
LEMMA OwnMoves ==
    ASSUME IInv, OwnInv, NEW a \in Agents, NEW pc, NEW next, NEW keys,
           pc # "idle", Goes(a, pc, next, keys), UNCHANGED <<export, deletion>>
    PROVE  OwnInv' /\ KeepsDecided
BY OwnRead DEF Goes, At

LEMMA OwnDone ==
    ASSUME IInv, OwnInv, NEW a \in Agents, Done(a), UNCHANGED <<export, deletion>>
    PROVE  OwnInv' /\ KeepsDecided
BY OwnRead DEF Done, Idle

\* What is idle holds nothing.
LEMMA OwnIdle == \A a \in Agents : Held(a, Idle)' /\ Idle.pc = "idle"
BY DEF Held, Idle

\* Requests insert rows that nobody works on.
LEMMA OwnThread ==
    ASSUME IInv, OwnInv, NEW t \in Threads, ThreadStep(t)
    PROVE  OwnInv' /\ KeepsDecided
<1>0. t \in Agents
  BY DEF Agents
<1>1. ASSUME UNCHANGED <<export, deletion>>,
             \E q : proc' = [proc EXCEPT ![t] = q]
      PROVE  OwnInv' /\ KeepsDecided
  BY <1>0, <1>1, OwnRead
<1>2. CASE \E e \in Exports : ExportCommit(t, e)
  <2>1. PICK e \in Exports : ExportCommit(t, e)
    BY <1>2
  <2>2. /\ export[e].status = "absent" /\ UNCHANGED deletion
        /\ \A x \in Exports : x # e => export'[x] = export[x]
        /\ proc' = [proc EXCEPT ![t] = Idle]
    BY <2>1 DEF ExportCommit, Done, IInv, TypeOK
  <2>3. Free(e, Renderers)
    BY <2>2 DEF Free, OwnInv, Held
  <2>4. \A x \in Exports : export'[x] = export[x] \/ Free(x, Renderers \ {t})
    BY <2>2, <2>3 DEF Free
  <2>5. OwnInv'
    BY <1>0, <2>2, <2>4, OwnIdle, OwnStep
  <2>. QED  BY <2>2, <2>5 DEF KeepsDecided
<1>3. CASE \E d \in Deletions : DeletionCommit(t, d)
  <2>1. PICK d \in Deletions : DeletionCommit(t, d)
    BY <1>3
  <2>2. /\ deletion[d].status = "absent" /\ UNCHANGED export
        /\ \A x \in Deletions : x # d => deletion'[x] = deletion[x]
        /\ proc' = [proc EXCEPT ![t] = Idle]
    BY <2>1 DEF DeletionCommit, Done, IInv, TypeOK
  <2>3. Free(d, Erasers)
    BY <2>2 DEF Free, OwnInv, Held
  <2>4. \A x \in Deletions : deletion'[x] = deletion[x] \/ Free(x, Erasers \ {t})
    BY <2>2, <2>3 DEF Free
  <2>5. OwnInv'
    BY <1>0, <2>2, <2>4, OwnIdle, OwnStep
  <2>. QED  BY <2>2, <2>5 DEF KeepsDecided
<1>4. ASSUME \E p \in Projects : CreateCommit(t, p) PROVE OwnInv' /\ KeepsDecided
  BY <1>1, <1>4 DEF CreateCommit, Done
<1>5. ASSUME \E chosen \in SUBSET Versions : CreateRead(t, chosen)
      PROVE  OwnInv' /\ KeepsDecided
  BY <1>1, <1>5 DEF CreateRead, At, stored
<1>6. ASSUME \E p \in Projects : ExportRead(t, p) PROVE OwnInv' /\ KeepsDecided
  BY <1>1, <1>6 DEF ExportRead, At, stored
<1>7. ASSUME \E p \in Projects : DeletionRead(t, p) PROVE OwnInv' /\ KeepsDecided
  BY <1>1, <1>7 DEF DeletionRead, At, stored
<1>8. ASSUME DeletionConflict(t) PROVE OwnInv' /\ KeepsDecided
  BY <1>1, <1>8 DEF DeletionConflict, Done, stored
<1>. QED  BY <1>2, <1>3, <1>4, <1>5, <1>6, <1>7, <1>8 DEF ThreadStep

\* A job that can be claimed is free, and its new worker holds it alone.
LEMMA OwnClaim ==
    ASSUME IInv, OwnInv, NEW W \in {Renderers, Erasers}, NEW w \in W, NEW j,
           proc[w].pc = "idle", At(w, "claimed", j, {}), Free(j, W),
           Held(w, [pc |-> "claimed", item |-> j, keys |-> {}])',
           \A e \in Exports : export'[e] = export[e] \/ (e = j /\ W = Renderers),
           \A d \in Deletions : deletion'[d] = deletion[d] \/ (d = j /\ W = Erasers)
    PROVE  OwnInv'
<1>0. w \in Agents
  BY DEF Agents
<1>1. \A b \in Agents : proc'[b] =
          IF b = w THEN [pc |-> "claimed", item |-> j, keys |-> {}] ELSE proc[b]
  BY DEF At, IInv, TypeOK
<1>2. ASSUME NEW v \in Renderers \union Erasers PROVE Held(v, proc[v])'
  <2>1. CASE v = w
    BY <1>0, <1>1, <2>1
  <2>2. CASE v # w
    <3>1. proc'[v] = proc[v] /\ Held(v, proc[v])
      BY <1>1, <1>2, <2>2 DEF Agents, OwnInv
    <3>2. CASE v \in Renderers /\ proc[v].pc # "idle"
      <4>1. proc[v].item \in Exports /\ v \notin Erasers
        BY <3>2, RetentionAssumption DEF IInv, TypeOK
      <4>2. export'[proc[v].item] = export[proc[v].item]
        BY <3>2, <4>1 DEF Free
      <4>. QED  BY <3>1, <3>2, <4>1, <4>2 DEF Held
    <3>3. CASE v \in Erasers /\ proc[v].pc # "idle"
      <4>1. proc[v].item \in Deletions /\ v \notin Renderers
        BY <3>3, RetentionAssumption DEF IInv, TypeOK
      <4>2. deletion'[proc[v].item] = deletion[proc[v].item]
        BY <3>3, <4>1 DEF Free
      <4>. QED  BY <3>1, <3>3, <4>1, <4>2 DEF Held
    <3>. QED  BY <3>1, <3>2, <3>3 DEF Held
  <2>. QED  BY <2>1, <2>2
<1>3. Alone(Renderers)' /\ Alone(Erasers)'
  <2>. SUFFICES ASSUME NEW V \in {Renderers, Erasers} PROVE Alone(V)'
    OBVIOUS
  <2>1. Alone(V) /\ V \subseteq Agents
    BY DEF OwnInv, Agents
  <2>2. w \in V => V = W
    BY RetentionAssumption
  <2>. QED  BY <1>1, <2>1, <2>2 DEF Alone, Free
<1>. QED  BY <1>2, <1>3 DEF OwnInv

LEMMA OwnClaims ==
    ASSUME IInv, OwnInv,
           \/ \E w \in Renderers, e \in Exports : ClaimExport(w, e)
           \/ \E w \in Erasers, d \in Deletions : ClaimDeletion(w, d)
    PROVE  OwnInv' /\ KeepsDecided
<1>1. ASSUME NEW w \in Renderers, NEW e \in Exports, ClaimExport(w, e)
      PROVE  OwnInv' /\ KeepsDecided
  <2>1. /\ proc[w].pc = "idle" /\ At(w, "claimed", e, {}) /\ UNCHANGED deletion
        /\ export[e].status = "queued" \/
              (export[e].status = "rendering" /\ export[e].lease = "expired")
    BY <1>1 DEF ClaimExport, ClaimableExport
  <2>2. /\ \A x \in Exports : x # e => export'[x] = export[x]
        /\ export'[e].status = "rendering" /\ export'[e].lease = "held"
    <3>1. export' = [export EXCEPT ![e] =
              [export[e] EXCEPT !.status = "rendering", !.lease = "held"]]
      BY <1>1 DEF ClaimExport, IInv, TypeOK
    <3>. QED  BY <3>1 DEF IInv, TypeOK, Export
  <2>3. Free(e, Renderers)
    BY <2>1 DEF Free, OwnInv, Held
  <2>4. Held(w, [pc |-> "claimed", item |-> e, keys |-> {}])'
    BY <2>2, RetentionAssumption DEF Held
  <2>5. OwnInv'
    BY <2>1, <2>2, <2>3, <2>4, OwnClaim
  <2>. QED  BY <2>1, <2>2, <2>5 DEF KeepsDecided
<1>2. ASSUME NEW w \in Erasers, NEW d \in Deletions, ClaimDeletion(w, d)
      PROVE  OwnInv' /\ KeepsDecided
  <2>1. /\ proc[w].pc = "idle" /\ At(w, "claimed", d, {}) /\ UNCHANGED export
        /\ deletion[d].status = "pending" \/
              (deletion[d].status = "running" /\ deletion[d].lease = "expired")
    BY <1>2 DEF ClaimDeletion, ClaimableDeletion
  <2>2. /\ \A x \in Deletions : x # d => deletion'[x] = deletion[x]
        /\ deletion'[d].status = "running" /\ deletion'[d].lease = "held"
    <3>1. deletion' = [deletion EXCEPT ![d] = [deletion[d] EXCEPT !.status = "running",
              !.attempts = @ + 1, !.lease = "held"]]
      BY <1>2 DEF ClaimDeletion
    <3>2. deletion \in [Deletions -> Deletion]
      BY DEF IInv, TypeOK
    <3>3. deletion' = [deletion EXCEPT ![d] = [deletion[d] EXCEPT !.status = "running",
              !.attempts = deletion[d].attempts + 1, !.lease = "held"]]
      BY <3>1
    <3>. QED  BY <3>2, <3>3 DEF Deletion
  <2>3. Free(d, Erasers)
    BY <2>1 DEF Free, OwnInv, Held
  <2>4. Held(w, [pc |-> "claimed", item |-> d, keys |-> {}])'
    BY <2>2, RetentionAssumption DEF Held
  <2>5. OwnInv'
    BY <2>1, <2>2, <2>3, <2>4, OwnClaim
  <2>. QED  BY <2>1, <2>2, <2>5 DEF KeepsDecided
<1>. QED  BY <1>1, <1>2

\* A renderer writes over nothing but the job it holds.
LEMMA OwnRender ==
    ASSUME IInv, OwnInv, NEW w \in Renderers, RendererStep(w)
    PROVE  OwnInv' /\ KeepsDecided
<1>0. w \in Agents
  BY DEF Agents
<1>. DEFINE e == proc[w].item
<1>1. ASSUME proc[w].pc # "idle", Done(w), UNCHANGED deletion,
             \A x \in Exports : x # e => export'[x] = export[x],
             export[e].status \in {"completed", "failed"} => export'[e] = export[e]
      PROVE  OwnInv' /\ KeepsDecided
  <2>1. Free(e, Renderers \ {w})
    BY <1>1 DEF Free, OwnInv, Alone
  <2>2. \A x \in Exports : export'[x] = export[x] \/ Free(x, Renderers \ {w})
    BY <1>1, <2>1
  <2>3. proc' = [proc EXCEPT ![w] = Idle]
    BY <1>1 DEF Done
  <2>4. OwnInv'
    BY <1>0, <1>1, <2>2, <2>3, OwnIdle, OwnStep
  <2>5. \A x \in Exports : export[x].status \in {"completed", "failed"} =>
            export'[x] = export[x]
    BY <1>1
  <2>. QED  BY <1>1, <2>4, <2>5 DEF KeepsDecided
<1>2. proc[w].pc # "idle" =>
          e \in Exports /\ export[e].status \notin {"completed", "failed"}
  BY DEF IInv, TypeOK, OwnInv, Held
<1>3. CASE RenderExport(w)
  BY <1>0, <1>3, OwnMoves DEF RenderExport, stored
<1>4. CASE StoreExport(w)
  BY <1>0, <1>4, OwnMoves DEF StoreExport
<1>5. CASE ExportRaises(w)
  BY <1>0, <1>5, OwnMoves DEF ExportRaises, stored
<1>6. CASE CompleteExport(w)
  <2>1. CASE Done(w) /\ proc[w].pc = "stored"
    <3>1. /\ UNCHANGED deletion
          /\ \A x \in Exports : x # e => export'[x] = export[x]
      BY <1>6, <2>1, <1>2 DEF CompleteExport, Goes, IInv, TypeOK, stored
    <3>. QED  BY <1>1, <1>2, <2>1, <3>1
  <2>2. CASE Goes(w, "stored", "raised", {}) /\ UNCHANGED <<export, deletion>>
    BY <1>0, <2>2, OwnMoves
  <2>. QED  BY <1>6, <2>1, <2>2 DEF CompleteExport, stored
<1>7. CASE FailExport(w)
  <2>1. /\ UNCHANGED deletion /\ Done(w) /\ proc[w].pc = "raised"
        /\ \A x \in Exports : x # e => export'[x] = export[x]
    BY <1>7 DEF FailExport, IInv, TypeOK
  <2>. QED  BY <1>1, <1>2, <2>1
<1>. QED  BY <1>3, <1>4, <1>5, <1>6, <1>7 DEF RendererStep

\* An eraser closes its own request, and erases exports with their project.
LEMMA OwnClose ==
    ASSUME IInv, OwnInv, NEW w \in Erasers, NEW status, proc[w].pc # "idle",
           Close(w, status),
           \A e \in Exports : export'[e] = export[e] \/ export'[e].status = "gone"
    PROVE  OwnInv' /\ KeepsDecided
<1>. DEFINE d == proc[w].item
<1>1. d \in Deletions /\ deletion[d].status = "running" /\ w \in Agents
  BY DEF IInv, TypeOK, OwnInv, Held, Agents
<1>2. \A x \in Deletions : x # d => deletion'[x] = deletion[x]
  BY DEF Close, IInv, TypeOK
<1>3. Free(d, Erasers \ {w})
  BY DEF Free, OwnInv, Alone
<1>4. \A x \in Deletions : deletion'[x] = deletion[x] \/ Free(x, Erasers \ {w})
  BY <1>2, <1>3
<1>5. proc' = [proc EXCEPT ![w] = Idle]
  BY DEF Close, Done
<1>6. OwnInv'
  BY <1>1, <1>4, <1>5, OwnIdle, OwnStep
<1>7. \A x \in Deletions : deletion[x].status \in {"completed", "failed", "blocked"} =>
          deletion'[x] = deletion[x]
  BY <1>1, <1>2
<1>. QED  BY <1>6, <1>7 DEF KeepsDecided

LEMMA OwnErase ==
    ASSUME IInv, OwnInv, NEW w \in Erasers, EraserStep(w)
    PROVE  OwnInv' /\ KeepsDecided
<1>0. w \in Agents
  BY DEF Agents
<1>1. CASE CheckHold(w)
  BY <1>0, <1>1, OwnMoves DEF CheckHold, stored
<1>2. CASE Block(w)
  BY <1>2, OwnClose DEF Block
<1>3. CASE LoadProject(w)
  <2>1. CASE Goes(w, "cleared", "found", {}) /\ UNCHANGED <<export, deletion>>
    BY <1>0, <2>1, OwnMoves
  <2>2. CASE Close(w, "completed") /\ proc[w].pc = "cleared" /\ UNCHANGED export
    BY <2>2, OwnClose
  <2>. QED  BY <1>3, <2>1, <2>2 DEF LoadProject
<1>4. CASE ListVersions(w)
  BY <1>0, <1>4, OwnMoves DEF ListVersions, stored
<1>5. CASE ListExports(w)
  BY <1>0, <1>5, OwnMoves DEF ListExports, stored
<1>6. CASE \E k \in Versions \union Exports : EraseObject(w, k)
  BY <1>0, <1>6, OwnMoves DEF EraseObject
<1>7. CASE EraseRaises(w)
  BY <1>0, <1>7, OwnMoves DEF EraseRaises, stored
<1>8. CASE DeleteRecords(w)
  BY <1>0, <1>8, OwnMoves DEF DeleteRecords, stored
<1>9. CASE EraseCommit(w)
  <2>1. \A e \in Exports : export'[e] = export[e] \/ export'[e].status = "gone"
    BY <1>9 DEF EraseCommit, ExportGone, IInv, TypeOK, Export
  <2>. QED  BY <1>9, <2>1, OwnClose DEF EraseCommit
<1>10. CASE EraseRefused(w)
  BY <1>0, <1>10, OwnMoves DEF EraseRefused, stored
<1>11. CASE FailDeletion(w)
  BY <1>11, OwnClose DEF FailDeletion
<1>. QED  BY <1>1, <1>2, <1>3, <1>4, <1>5, <1>6, <1>7, <1>8, <1>9, <1>10, <1>11
          DEF EraserStep

LEMMA OwnInduction ==
    ASSUME ~LongJobs, IInv, OwnInv, [Next]_vars
    PROVE  OwnInv' /\ KeepsDecided
<1>0. ASSUME UNCHANGED <<export, deletion, proc>> PROVE OwnInv' /\ KeepsDecided
  BY <1>0 DEF OwnInv, Held, Alone, KeepsDecided
<1>1. CASE \E t \in Threads : ThreadStep(t)
  BY <1>1, OwnThread
<1>2. CASE \E w \in Renderers : RendererStep(w) \/ \E e \in Exports : ClaimExport(w, e)
  BY <1>2, OwnRender, OwnClaims
<1>3. CASE \E w \in Erasers : EraserStep(w) \/ \E d \in Deletions : ClaimDeletion(w, d)
  BY <1>3, OwnErase, OwnClaims
<1>4. CASE \E e \in Exports : ExpireExport(e)
  <2>1. PICK e \in Exports : ExpireExport(e)
    BY <1>4
  <2>2. Free(e, Renderers) /\ UNCHANGED <<deletion, proc>>
    BY <2>1 DEF ExpireExport, LeaseEnds, Free
  <2>3. \A x \in Exports : /\ export'[x].status = export[x].status
                           /\ x # e => export'[x] = export[x]
    BY <2>1 DEF ExpireExport, IInv, TypeOK, Export
  <2>4. \A w \in Renderers : proc[w].pc # "idle" =>
            proc[w].item \in Exports /\ proc[w].item # e
    BY <2>2 DEF Free, IInv, TypeOK
  <2>5. OwnInv'
    BY <2>2, <2>3, <2>4 DEF OwnInv, Held, Alone
  <2>. QED  BY <2>2, <2>3, <2>5 DEF KeepsDecided
<1>5. CASE \E d \in Deletions : ExpireDeletion(d)
  <2>1. PICK d \in Deletions : ExpireDeletion(d)
    BY <1>5
  <2>2. Free(d, Erasers) /\ UNCHANGED <<export, proc>>
    BY <2>1 DEF ExpireDeletion, LeaseEnds, Free
  <2>3. \A x \in Deletions : /\ deletion'[x].status = deletion[x].status
                             /\ x # d => deletion'[x] = deletion[x]
    BY <2>1 DEF ExpireDeletion, IInv, TypeOK, Deletion
  <2>4. \A w \in Erasers : proc[w].pc # "idle" =>
            proc[w].item \in Deletions /\ proc[w].item # d
    BY <2>2 DEF Free, IInv, TypeOK
  <2>5. OwnInv'
    BY <2>2, <2>3, <2>4 DEF OwnInv, Held, Alone
  <2>. QED  BY <2>2, <2>3, <2>5 DEF KeepsDecided
<1>6. CASE \E a \in Agents : Crash(a)
  BY <1>6, OwnDone DEF Crash, stored
<1>7. CASE SetHold \/ \E x \in Projects \union Versions : Refer(x)
  BY <1>0, <1>7 DEF SetHold, Refer, stored
<1>8. CASE UNCHANGED vars
  BY <1>0, <1>8 DEF vars, stored
<1>. QED  BY <1>1, <1>2, <1>3, <1>4, <1>5, <1>6, <1>7, <1>8 DEF Next

LEMMA OwnInitially == Init => OwnInv
<1>. SUFFICES ASSUME Init PROVE OwnInv
  OBVIOUS
<1>1. \A a \in Agents : proc[a] = Idle
  BY DEF Init
<1>2. \A w \in Renderers \union Erasers : proc[w].pc = "idle"
  BY <1>1 DEF Agents, Idle
<1>. QED  BY <1>2 DEF OwnInv, Held, Alone

\* While leases outlast jobs, no step writes over a completed export, a
\* completed request or a blocked one (process_export_job, process_deletion_request and their except clauses):
\* every worker holds its job alone, until its row is gone.
THEOREM DecidedJobsAreFinal == ~LongJobs /\ Spec => DecidedIsFinal
<1>. SUFFICES ASSUME ~LongJobs PROVE Spec => DecidedIsFinal
  OBVIOUS
<1>1. IInv /\ OwnInv /\ [Next]_vars => OwnInv' /\ KeepsDecided
  BY OwnInduction
<1>2. Spec => [](IInv /\ OwnInv)
  BY <1>1, Induction, InitIInv, OwnInitially, PTL DEF Spec
<1>. QED  BY <1>1, <1>2, PTL DEF Spec, DecidedIsFinal, KeepsDecided

-----------------------------------------------------------------------------
(* The life cycle *)

\* A worker that has deleted the rows of a project holds every export of it,
\* except those ordered since its deletion was requested.
EmptiedInv ==
    \A w \in Erasers : proc[w].pc = "emptied" =>
        \A e \in Exports :
            ExportExists(e) /\ export[e].project = deletion[proc[w].item].project
                => e \in proc[w].keys \/ export[e].late

\* An export that is there was there before and is as late as it was, or has
\* been ordered by this step.
LEMMA ExportsStay ==
    ASSUME IInv, [Next]_vars, NEW e \in Exports, ExportExists(e)'
    PROVE  \/ /\ ExportExists(e)
              /\ export'[e].project = export[e].project
              /\ export'[e].late = export[e].late
           \/ export'[e].late
           \/ project[export'[e].project].status = "draft"
<1>. DEFINE Stays == /\ ExportExists(e)
                     /\ export'[e].project = export[e].project
                     /\ export'[e].late = export[e].late
<1>0. /\ export \in [Exports -> Export]
      /\ \A w \in Renderers : proc[w].pc # "idle" => proc[w].item \in Exports
  BY DEF IInv, TypeOK
<1>1. ASSUME UNCHANGED export PROVE Stays
  BY <1>1 DEF ExportExists
<1>2. ASSUME NEW t \in Threads, NEW x \in Exports, ExportCommit(t, x)
      PROVE  Stays \/ export'[e].late \/ project[export'[e].project].status = "draft"
  <2>1. CASE x = e
    <3>1. proc[t].item \in Projects
      BY <1>2 DEF ExportCommit, IInv, ProcInv, Sound, Agents
    <3>2. export'[e] = [NoExport EXCEPT !.status = "queued", !.project = proc[t].item,
                            !.late = project[proc[t].item].status # "draft"]
      BY <1>0, <1>2, <2>1 DEF ExportCommit
    <3>3. /\ export'[e].project = proc[t].item
          /\ export'[e].late = (project[proc[t].item].status # "draft")
      BY <3>2 DEF NoExport
    <3>. QED  BY <3>3
  <2>2. CASE x # e
    <3>1. export'[e] = export[e]
      BY <1>0, <1>2, <2>2 DEF ExportCommit
    <3>. QED  BY <3>1 DEF ExportExists
  <2>. QED  BY <2>1, <2>2
<1>3. ASSUME NEW x \in Exports, ExportExists(x),
             NEW row, row.project = export[x].project,
             row.late = export[x].late, export' = [export EXCEPT ![x] = row]
      PROVE  Stays
  <2>1. CASE x = e
    BY <1>0, <1>3, <2>1
  <2>2. CASE x # e
    <3>1. export'[e] = export[e]
      BY <1>0, <1>3, <2>2
    <3>. QED  BY <3>1 DEF ExportExists
  <2>. QED  BY <2>1, <2>2
<1>4. ASSUME NEW w \in Renderers, NEW x \in Exports, ClaimExport(w, x)
      PROVE  Stays
  <2>. DEFINE row == [export[x] EXCEPT !.status = "rendering", !.lease = "held"]
  <2>1. row.project = export[x].project /\ row.late = export[x].late
    BY <1>0 DEF Export
  <2>2. export' = [export EXCEPT ![x] = row] /\ ExportExists(x)
    BY <1>4 DEF ClaimExport, ClaimableExport, ExportExists
  <2>. HIDE DEF row
  <2>. QED  BY <1>3, <2>1, <2>2
<1>5. ASSUME NEW w \in Renderers, CompleteExport(w)
      PROVE  Stays
  <2>1. PICK x \in Exports : x = proc[w].item
    BY <1>0, <1>5 DEF CompleteExport, Goes
  <2>. DEFINE row == [export[x] EXCEPT !.status = "completed", !.named = TRUE,
                                       !.lease = "none"]
  <2>2. row.project = export[x].project /\ row.late = export[x].late
    BY <1>0 DEF Export
  <2>3. \/ export' = [export EXCEPT ![x] = row] /\ ExportExists(x)
        \/ UNCHANGED export
    BY <1>5, <2>1 DEF CompleteExport, stored
  <2>. HIDE DEF row
  <2>. QED  BY <1>1, <1>3, <2>2, <2>3
<1>6. ASSUME NEW w \in Renderers, FailExport(w)
      PROVE  Stays
  <2>1. PICK x \in Exports : x = proc[w].item
    BY <1>0, <1>6 DEF FailExport
  <2>. DEFINE row == [export[x] EXCEPT !.status = "failed", !.lease = "none"]
  <2>2. row.project = export[x].project /\ row.late = export[x].late
    BY <1>0 DEF Export
  <2>3. \/ export' = [export EXCEPT ![x].status = "failed", ![x].lease = "none"]
              /\ ExportExists(x)
        \/ UNCHANGED export
    BY <1>6, <2>1 DEF FailExport
  <2>4. \/ export' = [export EXCEPT ![x] = row] /\ ExportExists(x)
        \/ UNCHANGED export
    BY <1>0, <2>3
  <2>. HIDE DEF row
  <2>. QED  BY <1>1, <1>3, <2>2, <2>4
<1>7. ASSUME NEW x \in Exports, ExpireExport(x)
      PROVE  Stays
  <2>. DEFINE row == [export[x] EXCEPT !.lease = "expired"]
  <2>1. /\ row.project = export[x].project /\ row.late = export[x].late
        /\ row.status = export[x].status
    BY <1>0 DEF Export
  <2>2. export' = [export EXCEPT ![x] = row]
    BY <1>7 DEF ExpireExport
  <2>. HIDE DEF row
  <2>3. CASE ExportExists(x)
    BY <1>3, <2>1, <2>2, <2>3
  <2>4. CASE ~ExportExists(x)
    <3>1. export'[x].status = export[x].status
      BY <1>0, <2>1, <2>2
    <3>2. x # e
      BY <2>4, <3>1 DEF ExportExists
    <3>3. export'[e] = export[e]
      BY <1>0, <2>2, <3>2
    <3>. QED  BY <3>3 DEF ExportExists
  <2>. QED  BY <2>3, <2>4
<1>8. ASSUME NEW w \in Erasers, EraseCommit(w)
      PROVE  Stays
  <2>1. export'[e] = IF e \in proc[w].keys THEN ExportGone(export[e]) ELSE export[e]
    BY <1>8 DEF EraseCommit
  <2>2. ExportGone(export[e]).status = "gone"
    BY <1>0 DEF ExportGone, Export
  <2>3. export'[e] = export[e]
    BY <2>1, <2>2 DEF ExportExists
  <2>. QED  BY <2>3 DEF ExportExists
<1>9. CASE \E t \in Threads : ThreadStep(t)
  BY <1>1, <1>2, <1>9
  DEF ThreadStep, CreateRead, CreateCommit, ExportRead, DeletionRead, DeletionCommit,
      DeletionConflict, stored
<1>10. CASE \E w \in Renderers : RendererStep(w) \/ \E x \in Exports : ClaimExport(w, x)
  BY <1>1, <1>4, <1>5, <1>6, <1>10
  DEF RendererStep, RenderExport, StoreExport, ExportRaises, stored
<1>11. CASE \E w \in Erasers : EraserStep(w) \/ \E d \in Deletions : ClaimDeletion(w, d)
  BY <1>1, <1>8, <1>11
  DEF EraserStep, CheckHold, Block, LoadProject, ListVersions, ListExports, EraseObject,
      EraseRaises, DeleteRecords, EraseRefused, FailDeletion, ClaimDeletion, stored
<1>12. CASE \/ (\E d \in Deletions : ExpireDeletion(d)) \/ (\E a \in Agents : Crash(a))
            \/ SetHold \/ (\E x \in Projects \union Versions : Refer(x))
            \/ UNCHANGED vars
  BY <1>1, <1>12 DEF ExpireDeletion, Crash, SetHold, Refer, vars, stored
<1>. QED  BY <1>7, <1>9, <1>10, <1>11, <1>12 DEF Next

\* A request stays with its project.
LEMMA RequestsStay ==
    ASSUME IInv, [Next]_vars, NEW d \in Deletions, deletion[d].project \in Projects
    PROVE  deletion'[d].project = deletion[d].project
<1>0. /\ deletion \in [Deletions -> Deletion]
      /\ \A w \in Erasers : proc[w].pc # "idle" => proc[w].item \in Deletions
  BY DEF IInv, TypeOK
<1>1. CASE UNCHANGED deletion
  BY <1>1
<1>2. ASSUME NEW t \in Threads, NEW x \in Deletions, DeletionCommit(t, x)
      PROVE  deletion'[d].project = deletion[d].project
  <2>1. deletion[d] # NoDeletion
    BY RetentionAssumption DEF NoDeletion
  <2>2. deletion[d].status # "absent"
    BY <2>1 DEF IInv, DeletionInv
  <2>3. x # d
    BY <1>2, <2>2 DEF DeletionCommit
  <2>4. deletion'[d] = deletion[d]
    BY <1>0, <1>2, <2>3 DEF DeletionCommit
  <2>. QED  BY <2>4
<1>3. ASSUME NEW w \in Erasers, NEW x \in Deletions, ClaimDeletion(w, x)
      PROVE  deletion'[d].project = deletion[d].project
  BY <1>0, <1>3 DEF ClaimDeletion, Deletion
<1>4. ASSUME NEW x \in Deletions, ExpireDeletion(x)
      PROVE  deletion'[d].project = deletion[d].project
  BY <1>0, <1>4 DEF ExpireDeletion, Deletion
<1>5. ASSUME NEW w \in Erasers, NEW status, proc[w].pc # "idle", Close(w, status)
      PROVE  deletion'[d].project = deletion[d].project
  <2>1. PICK x \in Deletions : x = proc[w].item
    BY <1>0, <1>5
  <2>2. deletion' = [deletion EXCEPT ![x].status = status, ![x].lease = "none"]
    BY <1>5, <2>1 DEF Close
  <2>. QED  BY <1>0, <2>2 DEF Deletion
<1>6. ASSUME NEW w \in Erasers, EraserStep(w)
      PROVE  deletion'[d].project = deletion[d].project
  <2>1. \/ UNCHANGED deletion
        \/ proc[w].pc # "idle" /\ \E status : Close(w, status)
    BY <1>6
    DEF EraserStep, CheckHold, Block, LoadProject, ListVersions, ListExports,
        EraseObject, EraseRaises, DeleteRecords, EraseCommit, EraseRefused,
        FailDeletion, stored
  <2>. QED  BY <1>5, <2>1
<1>7. CASE \E t \in Threads : ThreadStep(t)
  BY <1>1, <1>2, <1>7
  DEF ThreadStep, CreateRead, CreateCommit, ExportRead, ExportCommit, DeletionRead,
      DeletionConflict, stored
<1>8. CASE \/ \E w \in Renderers : RendererStep(w) \/ \E x \in Exports : ClaimExport(w, x)
           \/ \E x \in Exports : ExpireExport(x)
  BY <1>1, <1>8
  DEF RendererStep, RenderExport, StoreExport, ExportRaises, CompleteExport, FailExport,
      ClaimExport, ExpireExport, stored
<1>9. CASE \/ (\E a \in Agents : Crash(a)) \/ SetHold
           \/ (\E x \in Projects \union Versions : Refer(x)) \/ UNCHANGED vars
  BY <1>1, <1>9 DEF Crash, SetHold, Refer, vars, stored
<1>. QED  BY <1>3, <1>4, <1>6, <1>7, <1>8, <1>9 DEF Next

\* A worker comes to that point only by deleting the rows.
LEMMA ErasersStay ==
    ASSUME IInv, [Next]_vars, NEW w \in Erasers, proc'[w].pc = "emptied"
    PROVE  proc'[w] = proc[w] \/ DeleteRecords(w)
<1>0. proc \in [Agents -> Process] /\ w \in Agents
  BY DEF IInv, TypeOK, Agents
<1>1. ASSUME NEW a \in Agents, NEW q, proc' = [proc EXCEPT ![a] = q],
             a # w \/ q.pc # "emptied"
      PROVE  proc'[w] = proc[w]
  BY <1>0, <1>1
<1>2. ASSUME NEW a \in Agents, Done(a) PROVE proc'[w] = proc[w]
  BY <1>1, <1>2 DEF Done, Idle
<1>3. ASSUME NEW a \in Agents, NEW pc, NEW item, NEW keys, At(a, pc, item, keys),
             a # w \/ pc # "emptied"
      PROVE  proc'[w] = proc[w]
  BY <1>1, <1>3 DEF At
<1>4. ASSUME NEW a \in Agents, NEW pc, NEW next, NEW keys, Goes(a, pc, next, keys),
             a # w \/ next # "emptied"
      PROVE  proc'[w] = proc[w]
  BY <1>3, <1>4 DEF Goes
<1>5. ASSUME NEW t \in Threads, ThreadStep(t) PROVE proc'[w] = proc[w]
  <2>1. t \in Agents /\ t # w
    BY RetentionAssumption DEF Agents
  <2>. QED  BY <1>2, <1>3, <1>5, <2>1
            DEF ThreadStep, CreateRead, CreateCommit, ExportRead, ExportCommit,
                DeletionRead, DeletionCommit, DeletionConflict
<1>6. ASSUME NEW x \in Renderers,
             RendererStep(x) \/ \E e \in Exports : ClaimExport(x, e)
      PROVE  proc'[w] = proc[w]
  <2>1. x \in Agents /\ x # w
    BY RetentionAssumption DEF Agents
  <2>. QED  BY <1>2, <1>3, <1>4, <1>6, <2>1
            DEF RendererStep, RenderExport, StoreExport, ExportRaises, CompleteExport,
                FailExport, ClaimExport
<1>7. ASSUME NEW u \in Erasers, EraserStep(u) \/ \E d \in Deletions : ClaimDeletion(u, d),
             ~DeleteRecords(u)
      PROVE  proc'[w] = proc[w]
  <2>1. u \in Agents
    BY DEF Agents
  <2>2. ASSUME CheckHold(u) PROVE proc'[w] = proc[w]
    <3>1. \E next \in {"blocking", "cleared"} : Goes(u, "claimed", next, {})
      BY <2>2 DEF CheckHold
    <3>. QED  BY <1>4, <2>1, <3>1
  <2>3. ASSUME Block(u) \/ LoadProject(u) \/ EraseCommit(u) \/ FailDeletion(u)
        PROVE  proc'[w] = proc[w]
    <3>1. Done(u) \/ Goes(u, "cleared", "found", {})
      BY <2>3 DEF Block, LoadProject, EraseCommit, FailDeletion, Close
    <3>. QED  BY <1>2, <1>4, <2>1, <3>1
  <2>4. ASSUME \/ ListVersions(u) \/ ListExports(u) \/ EraseRaises(u) \/ EraseRefused(u)
               \/ \E k \in Versions \union Exports : EraseObject(u, k)
               \/ \E d \in Deletions : ClaimDeletion(u, d)
        PROVE  proc'[w] = proc[w]
    <3>1. CASE ListVersions(u)
      BY <1>4, <2>1, <3>1 DEF ListVersions
    <3>2. CASE ListExports(u)
      BY <1>4, <2>1, <3>2 DEF ListExports
    <3>3. CASE EraseRaises(u) \/ EraseRefused(u)
      BY <1>4, <2>1, <3>3 DEF EraseRaises, EraseRefused
    <3>4. CASE \E k \in Versions \union Exports : EraseObject(u, k)
      BY <1>4, <2>1, <3>4 DEF EraseObject
    <3>5. CASE \E d \in Deletions : ClaimDeletion(u, d)
      BY <1>3, <2>1, <3>5 DEF ClaimDeletion
    <3>. QED  BY <2>4, <3>1, <3>2, <3>3, <3>4, <3>5
  <2>. QED  BY <1>7, <2>2, <2>3, <2>4 DEF EraserStep
<1>8. ASSUME NEW u \in Erasers, DeleteRecords(u), u # w PROVE proc'[w] = proc[w]
  BY <1>4, <1>8 DEF DeleteRecords, Agents
<1>9. CASE \/ (\E d \in Deletions : ExpireDeletion(d)) \/ (\E e \in Exports : ExpireExport(e))
           \/ SetHold \/ (\E x \in Projects \union Versions : Refer(x))
           \/ UNCHANGED vars
  BY <1>9 DEF ExpireDeletion, ExpireExport, SetHold, Refer, vars
<1>10. CASE \E a \in Agents : Crash(a)
  BY <1>2, <1>10 DEF Crash
<1>. QED  BY <1>5, <1>6, <1>7, <1>8, <1>9, <1>10 DEF Next

LEMMA EmptiedStep ==
    ASSUME IInv, EmptiedInv, [Next]_vars
    PROVE  EmptiedInv'
<1>. SUFFICES ASSUME NEW w \in Erasers, proc'[w].pc = "emptied",
                     NEW e \in Exports, ExportExists(e)',
                     export'[e].project = deletion'[proc'[w].item].project
              PROVE  e \in proc'[w].keys \/ export'[e].late
  BY DEF EmptiedInv, ExportExists
<1>0. w \in Agents /\ proc \in [Agents -> Process]
  BY DEF Agents, IInv, TypeOK
<1>1. CASE proc'[w] = proc[w]
  <2>1. PICK d \in Deletions : d = proc[w].item /\ deletion[d].project \in Projects
    BY <1>1 DEF IInv, TypeOK
  <2>2. deletion'[d].project = deletion[d].project
    BY <2>1, RequestsStay
  <2>3. export'[e].project = deletion[d].project
    BY <1>1, <2>1, <2>2
  <2>4. project[deletion[d].project].status # "draft"
    BY <2>1, RetentionAssumption DEF IInv, DeletionInv, NoDeletion, Doomed
  <2>5. CASE /\ ExportExists(e) /\ export'[e].project = export[e].project
             /\ export'[e].late = export[e].late
    BY <1>1, <2>1, <2>3, <2>5 DEF EmptiedInv
  <2>6. CASE export'[e].late
    BY <2>6
  <2>. QED  BY <2>3, <2>4, <2>5, <2>6, ExportsStay
<1>2. CASE DeleteRecords(w)
  <2>1. /\ UNCHANGED <<export, deletion>>
        /\ ExportRows(Target(w)) \subseteq proc'[w].keys
        /\ proc'[w].item = proc[w].item
    BY <1>0, <1>2 DEF DeleteRecords, Goes, At, stored
  <2>. QED  BY <2>1 DEF ExportRows, Target, ExportExists
<1>. QED  BY <1>1, <1>2, ErasersStay

LEMMA EmptiedInvariance == Spec => []EmptiedInv
<1>1. Init => EmptiedInv
  BY DEF Init, EmptiedInv, Idle, Agents
<1>. QED  BY <1>1, EmptiedStep, Invariance, PTL DEF Spec
-----------------------------------------------------------------------------
(* Every step is one of the life cycle or changes nothing a client sees *)

LifeMap == [p \in Projects |-> Stage(p)]

RequestMap == [d \in Deletions |-> [outcome |-> Outcome(d), project |-> deletion[d].project]]

ArtifactMap == [e \in Exports |-> [state |-> Made(e), project |-> export[e].project,
                                   late |-> export[e].late]]

MapVars == <<LifeMap, RequestMap, ArtifactMap>>

LEMMA LifeKept == UNCHANGED project => UNCHANGED LifeMap
BY DEF LifeMap, Stage

LEMMA RequestsKept == UNCHANGED deletion => UNCHANGED RequestMap
BY DEF RequestMap, Outcome

LEMMA ArtifactsKept == UNCHANGED <<export, objects>> => UNCHANGED ArtifactMap
BY DEF ArtifactMap, Made

\* One project changes as clients see it.
LEMMA OneLife ==
    ASSUME NEW p \in Projects, NEW st, Stage(p)' = st,
           \A x \in Projects : x # p => project'[x] = project[x]
    PROVE  LifeMap' = [LifeMap EXCEPT ![p] = st]
<1>1. ASSUME NEW x \in Projects, x # p
      PROVE  Stage(x)' = Stage(x)
  BY <1>1 DEF Stage
<1>. QED  BY <1>1 DEF LifeMap

\* One export changes as clients see it.
LEMMA OneArtifact ==
    ASSUME NEW e \in Exports,
           \A x \in Exports : x # e => /\ export'[x] = export[x]
                                       /\ x \in objects' <=> x \in objects
    PROVE  /\ ArtifactMap' = [ArtifactMap EXCEPT
                  ![e] = [state |-> Made(e)', project |-> export'[e].project,
                          late |-> export'[e].late]]
           /\ export'[e].project = export[e].project /\ export'[e].late = export[e].late =>
                 ArtifactMap' = [ArtifactMap EXCEPT ![e].state = Made(e)']
<1>1. ASSUME NEW x \in Exports, x # e
      PROVE  Made(x)' = Made(x) /\ export'[x] = export[x]
  BY <1>1 DEF Made
<1>. QED  BY <1>1 DEF ArtifactMap

\* One request changes as clients see it.
LEMMA OneRequest ==
    ASSUME NEW d \in Deletions,
           \A x \in Deletions : x # d => deletion'[x] = deletion[x]
    PROVE  RequestMap' = [RequestMap EXCEPT
               ![d] = [outcome |-> Outcome(d)', project |-> deletion'[d].project]]
<1>1. ASSUME NEW x \in Deletions, x # d
      PROVE  Outcome(x)' = Outcome(x) /\ deletion'[x].project = deletion[x].project
  BY <1>1 DEF Outcome
<1>. QED  BY <1>1 DEF RequestMap

\* One request gets an answer.
LEMMA OneAnswer ==
    ASSUME NEW d \in Deletions, NEW o, Outcome(d)' = o,
           deletion'[d].project = deletion[d].project,
           \A x \in Deletions : x # d => deletion'[x] = deletion[x]
    PROVE  RequestMap' = [RequestMap EXCEPT ![d].outcome = o]
<1>1. ASSUME NEW x \in Deletions, x # d
      PROVE  Outcome(x)' = Outcome(x) /\ deletion'[x].project = deletion[x].project
  BY <1>1 DEF Outcome
<1>. QED  BY <1>1 DEF RequestMap

LEMMA MapInit ==
    ASSUME Init
    PROVE  Lifecycle!LifecycleInit
<1>1. LifeMap = [p \in Projects |-> "none"]
  BY DEF Init, LifeMap, Stage
<1>2. RequestMap = [d \in Deletions |-> [outcome |-> "none", project |-> Nothing]]
  BY DEF Init, RequestMap, Outcome, NoDeletion
<1>3. ArtifactMap = [e \in Exports |-> [state |-> "none", project |-> Nothing,
                                        late |-> FALSE]]
  BY DEF Init, ArtifactMap, Made, NoExport
<1>. QED  BY <1>1, <1>2, <1>3
          DEF Lifecycle!LifecycleInit, LifeMap, RequestMap, ArtifactMap

\* The step changes nothing clients see.
LEMMA MapStutter == UNCHANGED MapVars => UNCHANGED Lifecycle!lifecycleVars
BY DEF MapVars, Lifecycle!lifecycleVars, LifeMap, RequestMap, ArtifactMap

LEMMA MapThread ==
    ASSUME IInv, NEW t \in Threads, ThreadStep(t)
    PROVE  Lifecycle!LifecycleNext \/ UNCHANGED Lifecycle!lifecycleVars
<1>0. t \in Agents
  BY DEF Agents
<1>1. ASSUME NEW p \in Projects, CreateCommit(t, p) PROVE Lifecycle!LifecycleNext
  <2>1. /\ project[p].status = "absent" /\ UNCHANGED <<deletion, export, objects>>
        /\ project'[p].status = "draft"
        /\ \A x \in Projects : x # p => project'[x] = project[x]
    BY <1>1 DEF CreateCommit, IInv, TypeOK
  <2>2. Stage(p) = "none" /\ Stage(p)' = "live"
    BY <2>1 DEF Stage
  <2>3. LifeMap[p] = "none" /\ LifeMap' = [LifeMap EXCEPT ![p] = "live"]
    BY <2>1, <2>2, OneLife DEF LifeMap
  <2>4. UNCHANGED <<RequestMap, ArtifactMap>>
    BY <2>1, RequestsKept, ArtifactsKept
  <2>5. Lifecycle!Create(p)
    BY <2>3, <2>4 DEF Lifecycle!Create, LifeMap, RequestMap, ArtifactMap
  <2>. QED  BY <2>5 DEF Lifecycle!LifecycleNext
<1>2. ASSUME NEW e \in Exports, ExportCommit(t, e) PROVE Lifecycle!LifecycleNext
  <2>1. PICK p \in Projects : p = proc[t].item /\ project[p].status # "absent"
    BY <1>0, <1>2 DEF IInv, ProcInv, Sound, ExportCommit
  <2>2. /\ export[e].status = "absent" /\ UNCHANGED <<project, deletion, objects>>
        /\ export'[e] = [NoExport EXCEPT !.status = "queued", !.project = p,
                                         !.late = project[p].status # "draft"]
        /\ \A x \in Exports : x # e => export'[x] = export[x]
    BY <1>2, <2>1 DEF ExportCommit, IInv, TypeOK
  <2>3. /\ Made(e)' = "pending" /\ export'[e].project = p
        /\ export'[e].late = (project[p].status # "draft")
    BY <2>2 DEF Made, NoExport
  <2>8. (project[p].status # "draft") = (LifeMap[p] # "live")
    BY <2>1 DEF LifeMap, Stage, IInv, TypeOK, Project
  <2>4. ArtifactMap' = [ArtifactMap EXCEPT ![e] =
            [state |-> "pending", project |-> p, late |-> LifeMap[p] # "live"]]
    <3>1. \A x \in Exports : x # e => /\ export'[x] = export[x]
                                      /\ x \in objects' <=> x \in objects
      BY <2>2
    <3>. QED  BY <2>3, <2>8, <3>1, OneArtifact
  <2>5. ArtifactMap[e].state = "none" /\ LifeMap[p] # "none"
    BY <2>1, <2>2 DEF ArtifactMap, Made, LifeMap, Stage, IInv, TypeOK, Project
  <2>6. UNCHANGED <<LifeMap, RequestMap>>
    BY <2>2, LifeKept, RequestsKept
  <2>7. Lifecycle!Order(e, p)
    BY <2>4, <2>5, <2>6 DEF Lifecycle!Order, LifeMap, RequestMap, ArtifactMap
  <2>. QED  BY <2>7 DEF Lifecycle!LifecycleNext
<1>3. ASSUME NEW d \in Deletions, DeletionCommit(t, d) PROVE Lifecycle!LifecycleNext
  <2>1. PICK p \in Projects : p = proc[t].item
    BY <1>0, <1>3 DEF IInv, ProcInv, Sound, DeletionCommit
  <2>2. Exists(p) \/ project[p].status \in Doomed
    BY <1>0, <1>3, <2>1 DEF IInv, ProcInv, Sound, DeletionCommit
  <2>3. /\ deletion[d].status = "absent" /\ UNCHANGED <<export, objects>>
        /\ deletion'[d] = [NoDeletion EXCEPT !.status = "pending", !.project = p]
        /\ \A x \in Deletions : x # d => deletion'[x] = deletion[x]
    BY <1>3, <2>1 DEF DeletionCommit, IInv, TypeOK
  <2>4. Outcome(d)' = "open" /\ deletion'[d].project = p
    BY <2>3 DEF Outcome, NoDeletion
  <2>5. RequestMap' = [RequestMap EXCEPT ![d] = [outcome |-> "open", project |-> p]]
    <3>1. \A x \in Deletions : x # d => deletion'[x] = deletion[x]
      BY <2>3
    <3>. QED  BY <2>4, <3>1, OneRequest
  <2>6. project' = [project EXCEPT ![p].status =
                        IF Exists(p) THEN "deletion_pending" ELSE project[p].status]
    BY <1>3, <2>1 DEF DeletionCommit, IInv, TypeOK
  <2>7. /\ \A x \in Projects : x # p => project'[x] = project[x]
        /\ project'[p].status = IF Exists(p) THEN "deletion_pending" ELSE project[p].status
    BY <2>6 DEF IInv, TypeOK, Project
  <2>8. Stage(p)' = IF Stage(p) = "live" THEN "doomed" ELSE Stage(p)
    BY <2>2, <2>7 DEF Stage, Exists, Doomed
  <2>9. LifeMap' = [LifeMap EXCEPT ![p] = IF LifeMap[p] = "live" THEN "doomed"
                                                                 ELSE LifeMap[p]]
    <3>1. LifeMap[p] = Stage(p)
      BY DEF LifeMap
    <3>. QED  BY <2>7, <2>8, <3>1, OneLife
  <2>10. RequestMap[d].outcome = "none" /\ LifeMap[p] # "none"
    BY <2>2, <2>3 DEF RequestMap, Outcome, LifeMap, Stage, Exists, Doomed
  <2>11. UNCHANGED ArtifactMap
    BY <2>3, ArtifactsKept
  <2>12. Lifecycle!Ask(d, p)
    BY <2>5, <2>9, <2>10, <2>11 DEF Lifecycle!Ask, LifeMap, RequestMap, ArtifactMap
  <2>. QED  BY <2>12 DEF Lifecycle!LifecycleNext
<1>4. CASE UNCHANGED stored
  BY <1>4, LifeKept, RequestsKept, ArtifactsKept, MapStutter DEF stored, MapVars
<1>. QED  BY <1>1, <1>2, <1>3, <1>4
          DEF ThreadStep, CreateRead, ExportRead, DeletionRead, DeletionConflict

\* One row of an export that is there, or its object, changes as a delivery, a
\* failure or nothing that clients see.
LEMMA MapExport ==
    ASSUME IInv, NEW e \in Exports, ExportExists(e), UNCHANGED <<project, deletion>>,
           export'[e].project = export[e].project, export'[e].late = export[e].late,
           \A x \in Exports : x # e => /\ export'[x] = export[x]
                                       /\ x \in objects' <=> x \in objects,
           \/ Made(e)' = Made(e)
           \/ Made(e)' \in {"failed", "available"}
           \/ Made(e)' = "withdrawn" /\ project[export[e].project].status # "draft"
    PROVE  Lifecycle!LifecycleNext \/ UNCHANGED Lifecycle!lifecycleVars
<1>1. PICK p \in Projects : p = export[e].project
  BY DEF IInv, ExportInv, NoExport, ExportExists
<1>2. ArtifactMap' = [ArtifactMap EXCEPT ![e].state = Made(e)']
  BY OneArtifact
<1>3. /\ ArtifactMap[e] = [state |-> Made(e), project |-> p, late |-> export[e].late]
      /\ ArtifactMap[e].state \notin {"none", "gone"}
  BY <1>1 DEF ArtifactMap, Made, ExportExists, IInv, TypeOK, Export
<1>4. UNCHANGED <<LifeMap, RequestMap>>
  BY LifeKept, RequestsKept
<1>5. CASE Made(e)' = Made(e)
  <2>1. UNCHANGED ArtifactMap
    BY <1>2, <1>3, <1>5 DEF ArtifactMap
  <2>. QED  BY <1>4, <2>1, MapStutter DEF MapVars
<1>6. CASE Made(e)' = "failed"
  <2>1. Lifecycle!Fail(e)
    BY <1>2, <1>3, <1>4, <1>6 DEF Lifecycle!Fail, LifeMap, RequestMap, ArtifactMap
  <2>. QED  BY <2>1 DEF Lifecycle!LifecycleNext
<1>7. CASE Made(e)' = "available"
  <2>2. Lifecycle!Deliver(e)
    BY <1>2, <1>3, <1>4, <1>7
    DEF Lifecycle!Deliver, LifeMap, RequestMap, ArtifactMap
  <2>. QED  BY <2>2 DEF Lifecycle!LifecycleNext
<1>8. CASE Made(e)' = "withdrawn" /\ project[export[e].project].status # "draft"
  <2>1. LifeMap[ArtifactMap[e].project] # "live"
    BY <1>1, <1>3, <1>8 DEF LifeMap, Stage, IInv, TypeOK, Project
  <2>2. Lifecycle!Deliver(e)
    BY <1>2, <1>3, <1>4, <1>8, <2>1
    DEF Lifecycle!Deliver, LifeMap, RequestMap, ArtifactMap
  <2>. QED  BY <2>2 DEF Lifecycle!LifecycleNext
<1>. QED  BY <1>5, <1>6, <1>7, <1>8

LEMMA MapRenderer ==
    ASSUME IInv,
           \/ \E w \in Renderers : RendererStep(w) \/ \E e \in Exports : ClaimExport(w, e)
           \/ \E e \in Exports : ExpireExport(e)
    PROVE  Lifecycle!LifecycleNext \/ UNCHANGED Lifecycle!lifecycleVars
<1>0. /\ export \in [Exports -> Export]
      /\ \A w \in Renderers : proc[w].pc # "idle" => proc[w].item \in Exports
  BY DEF IInv, TypeOK
<1>1. ASSUME NEW w \in Renderers, NEW e \in Exports, ClaimExport(w, e)
      PROVE  Lifecycle!LifecycleNext \/ UNCHANGED Lifecycle!lifecycleVars
  <2>1. /\ ExportExists(e) /\ UNCHANGED <<project, deletion, objects>>
        /\ \A x \in Exports : x # e => export'[x] = export[x]
        /\ export'[e].project = export[e].project /\ export'[e].late = export[e].late
        /\ export'[e].status = "rendering" /\ export[e].status \in {"queued", "rendering"}
    BY <1>0, <1>1 DEF ClaimExport, ClaimableExport, ExportExists, Export
  <2>2. Made(e)' = Made(e)
    BY <2>1 DEF Made
  <2>. QED  BY <2>1, <2>2, MapExport
<1>2. ASSUME NEW e \in Exports, ExpireExport(e)
      PROVE  UNCHANGED Lifecycle!lifecycleVars
  <2>1. /\ UNCHANGED <<project, deletion, objects>>
        /\ \A x \in Exports : /\ export'[x].project = export[x].project
                              /\ export'[x].status = export[x].status
                              /\ export'[x].late = export[x].late
    BY <1>0, <1>2 DEF ExpireExport, Export
  <2>2. UNCHANGED ArtifactMap
    BY <2>1 DEF ArtifactMap, Made
  <2>. QED  BY <2>1, <2>2, LifeKept, RequestsKept, MapStutter DEF MapVars
<1>3. ASSUME NEW w \in Renderers, StoreExport(w)
      PROVE  Lifecycle!LifecycleNext \/ UNCHANGED Lifecycle!lifecycleVars
  <2>1. PICK e \in Exports : e = proc[w].item
    BY <1>0, <1>3 DEF StoreExport, Goes
  <2>2. /\ UNCHANGED <<project, export, deletion>> /\ objects' = objects \union {e}
    BY <1>3, <2>1 DEF StoreExport
  <2>3. CASE export[e].status = "completed"
    <3>1. ExportExists(e)
      BY <2>3 DEF ExportExists
    <3>2. Made(e)' = "available"
      BY <2>2, <2>3 DEF Made
    <3>. QED  BY <2>2, <3>1, <3>2, MapExport
  <2>4. CASE export[e].status # "completed"
    <3>1. \A x \in Exports : Made(x)' = Made(x)
      BY <2>2, <2>4 DEF Made
    <3>2. UNCHANGED ArtifactMap
      BY <2>2, <3>1 DEF ArtifactMap
    <3>. QED  BY <2>2, <3>2, LifeKept, RequestsKept, MapStutter DEF MapVars
  <2>. QED  BY <2>3, <2>4
<1>4. ASSUME NEW w \in Renderers, CompleteExport(w), ExportExists(proc[w].item)
      PROVE  Lifecycle!LifecycleNext \/ UNCHANGED Lifecycle!lifecycleVars
  <2>1. PICK e \in Exports : e = proc[w].item /\ proc[w].pc = "stored"
    BY <1>0, <1>4 DEF CompleteExport, Goes
  <2>2. /\ UNCHANGED <<project, objects, deletion>>
        /\ export' = [export EXCEPT ![e] = [export[e] EXCEPT
                         !.status = "completed", !.named = TRUE, !.lease = "none"]]
    BY <1>4, <2>1 DEF CompleteExport
  <2>3. /\ \A x \in Exports : x # e => export'[x] = export[x]
        /\ export'[e].status = "completed" /\ export'[e].project = export[e].project
        /\ export'[e].late = export[e].late
    BY <1>0, <2>2 DEF Export
  <2>5. project[export[e].project].status = "draft" => e \in objects
    BY <2>1 DEF IInv, ProcInv, Sound, Agents
  <2>6. Made(e)' = IF e \in objects THEN "available" ELSE "withdrawn"
    BY <2>2, <2>3 DEF Made
  <2>. QED  BY <1>4, <2>1, <2>2, <2>3, <2>5, <2>6, MapExport
<1>5. ASSUME NEW w \in Renderers, FailExport(w), ExportExists(proc[w].item)
      PROVE  Lifecycle!LifecycleNext \/ UNCHANGED Lifecycle!lifecycleVars
  <2>1. PICK e \in Exports : e = proc[w].item
    BY <1>0, <1>5 DEF FailExport
  <2>2. /\ UNCHANGED <<project, objects, deletion>>
        /\ export' = [export EXCEPT ![e].status = "failed", ![e].lease = "none"]
    BY <1>5, <2>1 DEF FailExport
  <2>3. /\ \A x \in Exports : x # e => export'[x] = export[x]
        /\ export'[e].status = "failed" /\ export'[e].project = export[e].project
        /\ export'[e].late = export[e].late
    BY <1>0, <2>2 DEF Export
  <2>4. Made(e)' = "failed"
    BY <2>3 DEF Made
  <2>. QED  BY <1>5, <2>1, <2>2, <2>3, <2>4, MapExport
<1>6. ASSUME UNCHANGED stored PROVE UNCHANGED Lifecycle!lifecycleVars
  BY <1>6, LifeKept, RequestsKept, ArtifactsKept, MapStutter DEF stored, MapVars
<1>7. ASSUME NEW w \in Renderers,
             \/ CompleteExport(w) /\ ~ExportExists(proc[w].item)
             \/ FailExport(w) /\ ~ExportExists(proc[w].item)
             \/ RenderExport(w) \/ ExportRaises(w)
      PROVE  UNCHANGED stored
  BY <1>7 DEF CompleteExport, FailExport, RenderExport, ExportRaises, stored
<1>. QED  BY <1>1, <1>2, <1>3, <1>4, <1>5, <1>6, <1>7 DEF RendererStep

\* A request that names a project has doomed it.
LEMMA AskedFor ==
    ASSUME IInv, NEW d \in Deletions, deletion[d].project \in Projects
    PROVE  /\ deletion[d].status # "absent"
           /\ project[deletion[d].project].status \in Doomed
<1>1. deletion[d] # NoDeletion
  BY RetentionAssumption DEF NoDeletion
<1>. QED  BY <1>1 DEF IInv, DeletionInv

\* The answer of a request that has a row.
LEMMA MapClose ==
    ASSUME IInv, NEW w \in Erasers, proc[w].pc # "idle",
           NEW st \in {"blocked", "failed", "completed"}, Close(w, st),
           st = "completed" => ~Exists(Target(w)),
           UNCHANGED <<project, objects, export>>
    PROVE  Lifecycle!LifecycleNext
<1>1. PICK d \in Deletions : d = proc[w].item
  BY DEF IInv, TypeOK
<1>2. PICK p \in Projects : p = deletion[d].project /\ p = Target(w)
  BY <1>1 DEF IInv, TypeOK, Target
<1>3. deletion[d].status # "absent" /\ project[p].status \in Doomed
  BY <1>2, AskedFor
<1>4. deletion' = [deletion EXCEPT ![d].status = st, ![d].lease = "none"]
  BY <1>1 DEF Close
<1>5. /\ \A x \in Deletions : x # d => deletion'[x] = deletion[x]
      /\ deletion'[d].status = st /\ deletion'[d].project = p
  BY <1>2, <1>4 DEF IInv, TypeOK, Deletion
<1>6. Outcome(d)' = st
  BY <1>5 DEF Outcome
<1>7. deletion'[d].project = deletion[d].project
  BY <1>2, <1>5
<1>8. RequestMap' = [RequestMap EXCEPT ![d].outcome = st]
  BY <1>5, <1>6, <1>7, OneAnswer
<1>9. RequestMap[d] = [outcome |-> Outcome(d), project |-> p] /\ Outcome(d) # "none"
  BY <1>2, <1>3 DEF RequestMap, Outcome, IInv, TypeOK, Deletion
<1>10. st = "completed" => LifeMap[RequestMap[d].project] = "gone"
  BY <1>2, <1>3, <1>9 DEF LifeMap, Stage, Exists, Doomed
<1>11. UNCHANGED <<LifeMap, ArtifactMap>>
  BY LifeKept, ArtifactsKept
<1>12. Lifecycle!Answer(d)
  BY <1>9, <1>8, <1>10, <1>11 DEF Lifecycle!Answer, LifeMap, RequestMap, ArtifactMap
<1>. QED  BY <1>12 DEF Lifecycle!LifecycleNext

\* The exports that stay were ordered after the request.
LEMMA MapEraseCommit ==
    ASSUME IInv, EmptiedInv, NEW w \in Erasers, EraseCommit(w)
    PROVE  Lifecycle!LifecycleNext
<1>1. PICK d \in Deletions : d = proc[w].item
  BY DEF IInv, TypeOK, EraseCommit
<1>2. PICK p \in Projects : p = deletion[d].project /\ p = Target(w)
  BY <1>1 DEF IInv, TypeOK, Target, EraseCommit
<1>3. deletion[d].status # "absent"
  BY <1>2, AskedFor
<1>4. /\ deletion' = [deletion EXCEPT ![d].status = "completed", ![d].lease = "none"]
      /\ project' = [project EXCEPT ![p] = ProjectGone(p)]
      /\ export' = [e \in Exports |-> IF e \in proc[w].keys
                        THEN ExportGone(export[e]) ELSE export[e]]
      /\ UNCHANGED objects
  BY <1>1, <1>2 DEF EraseCommit, Close
<1>5. /\ \A x \in Deletions : x # d => deletion'[x] = deletion[x]
      /\ deletion'[d].status = "completed" /\ deletion'[d].project = p
  BY <1>2, <1>4 DEF IInv, TypeOK, Deletion
<1>6. Outcome(d)' = "completed"
  BY <1>5 DEF Outcome
<1>7. deletion'[d].project = deletion[d].project
  BY <1>2, <1>5
<1>8. RequestMap' = [RequestMap EXCEPT ![d].outcome = "completed"]
  BY <1>5, <1>6, <1>7, OneAnswer
<1>9. RequestMap[d] = [outcome |-> Outcome(d), project |-> p] /\ Outcome(d) # "none"
  BY <1>2, <1>3 DEF RequestMap, Outcome, IInv, TypeOK, Deletion
<1>10. LifeMap' = [LifeMap EXCEPT ![RequestMap[d].project] = "gone"]
  <2>1. project'[p].status = "gone" /\ \A x \in Projects : x # p => project'[x] = project[x]
    BY <1>4 DEF IInv, TypeOK, ProjectGone
  <2>2. Stage(p)' = "gone"
    BY <2>1 DEF Stage
  <2>. QED  BY <1>9, <2>1, <2>2, OneLife
<1>. DEFINE latecomers == {e \in Exports : ArtifactMap[e].project = RequestMap[d].project
                                           /\ ArtifactMap[e].late}
            kept == {e \in latecomers : e \notin proc[w].keys}
<1>13. ASSUME NEW e \in Exports, ArtifactMap[e].project = RequestMap[d].project, e \notin kept
       PROVE  ArtifactMap'[e] = [ArtifactMap[e] EXCEPT !.state = "gone"]
  <2>1. export[e].project = p
    BY <1>9, <1>13 DEF ArtifactMap
  <2>2. CASE e \in proc[w].keys
    <3>1. export'[e] = ExportGone(export[e]) /\ export[e] \in Export
      BY <1>4, <2>2 DEF IInv, TypeOK
    <3>2. /\ export'[e].status = "gone" /\ export'[e].project = export[e].project
          /\ export'[e].late = export[e].late
      BY <3>1 DEF ExportGone, Export
    <3>3. Made(e)' = "gone"
      BY <3>2 DEF Made
    <3>. QED  BY <3>2, <3>3 DEF ArtifactMap
  <2>3. CASE e \notin proc[w].keys
    <3>1. export'[e] = export[e]
      BY <1>4, <2>3
    <3>2. ~export[e].late
      BY <1>9, <2>1, <2>3, <1>13 DEF ArtifactMap
    <3>3. ~ExportExists(e)
      BY <1>1, <1>2, <2>1, <2>3, <3>2 DEF EmptiedInv, EraseCommit
    <3>4. export[e].status # "absent"
      BY <1>2, <2>1, RetentionAssumption DEF IInv, ExportInv, NoExport
    <3>5. Made(e) = "gone" /\ Made(e)' = "gone"
      BY <3>1, <3>3, <3>4 DEF Made, ExportExists
    <3>. QED  BY <3>1, <3>5 DEF ArtifactMap
  <2>. QED  BY <2>2, <2>3
<1>14. ASSUME NEW e \in Exports, ArtifactMap[e].project # RequestMap[d].project \/ e \in kept
       PROVE  ArtifactMap'[e] = ArtifactMap[e]
  <2>1. w \in Agents /\ proc[w].pc # "idle"
    BY DEF Agents, EraseCommit
  <2>2. e \in proc[w].keys => export[e].project = p
    BY <1>1, <1>2, <2>1 DEF IInv, ProcInv, Sound
  <2>3. e \notin proc[w].keys
    BY <1>9, <1>14, <2>2 DEF ArtifactMap
  <2>4. export'[e] = export[e]
    BY <1>4, <2>3
  <2>5. Made(e)' = Made(e)
    BY <1>4, <2>4 DEF Made
  <2>. QED  BY <2>4, <2>5 DEF ArtifactMap
<1>11. ArtifactMap' = [e \in Exports |->
            IF ArtifactMap[e].project = RequestMap[d].project /\ e \notin kept
            THEN [ArtifactMap[e] EXCEPT !.state = "gone"]
            ELSE ArtifactMap[e]]
  <2>. HIDE DEF kept
  <2>1. \A e \in Exports : ArtifactMap'[e] =
            IF ArtifactMap[e].project = RequestMap[d].project /\ e \notin kept
            THEN [ArtifactMap[e] EXCEPT !.state = "gone"]
            ELSE ArtifactMap[e]
    BY <1>13, <1>14
  <2>. QED  BY <2>1 DEF ArtifactMap
<1>15. kept \in SUBSET latecomers
  OBVIOUS
<1>16. \E set \in SUBSET latecomers :
          ArtifactMap' = [e \in Exports |->
              IF ArtifactMap[e].project = RequestMap[d].project /\ e \notin set
              THEN [ArtifactMap[e] EXCEPT !.state = "gone"]
              ELSE ArtifactMap[e]]
  BY <1>11, <1>15
<1>12. Lifecycle!Erase(d)
  BY <1>9, <1>8, <1>10, <1>16 DEF Lifecycle!Erase, LifeMap, RequestMap, ArtifactMap
<1>. QED  BY <1>12 DEF Lifecycle!LifecycleNext

\* The object of a doomed project goes before the rows do.
LEMMA MapErase ==
    ASSUME IInv, NEW w \in Erasers, NEW k \in Versions \union Exports,
           EraseObject(w, k)
    PROVE  Lifecycle!LifecycleNext \/ UNCHANGED Lifecycle!lifecycleVars
<1>1. /\ UNCHANGED <<project, rows, export, deletion>> /\ objects' = objects \ {k}
      /\ k \in proc[w].keys /\ proc[w].pc = "erasing"
  BY DEF EraseObject, Goes
<1>2. CASE k \in Exports /\ export[k].status = "completed"
  <2>1. ExportExists(k)
    BY <1>2 DEF ExportExists
  <2>2. export[k].project = deletion[proc[w].item].project /\ proc[w].item \in Deletions
        /\ deletion[proc[w].item].project \in Projects
    BY <1>1, <1>2 DEF IInv, TypeOK, ProcInv, Sound, Agents
  <2>4. project[export[k].project].status # "draft"
    BY <2>2, RetentionAssumption DEF IInv, DeletionInv, NoDeletion, Doomed
  <2>5. Made(k)' = "withdrawn"
    BY <1>1, <1>2 DEF Made
  <2>. QED  BY <1>1, <1>2, <2>1, <2>4, <2>5, MapExport
<1>3. CASE ~(k \in Exports /\ export[k].status = "completed")
  <2>1. \A x \in Exports : Made(x)' = Made(x)
    BY <1>1, <1>3 DEF Made
  <2>2. UNCHANGED ArtifactMap
    BY <1>1, <2>1 DEF ArtifactMap
  <2>. QED  BY <1>1, <2>2, LifeKept, RequestsKept, MapStutter DEF MapVars
<1>. QED  BY <1>2, <1>3

\* Claims and leases are no business of clients.
LEMMA MapLease ==
    ASSUME IInv, \/ \E w \in Erasers, d \in Deletions : ClaimDeletion(w, d)
                 \/ \E d \in Deletions : ExpireDeletion(d)
    PROVE  UNCHANGED Lifecycle!lifecycleVars
<1>0. deletion \in [Deletions -> Deletion]
  BY DEF IInv, TypeOK
<1>1. UNCHANGED <<project, export, objects>>
  BY DEF ClaimDeletion, ExpireDeletion
<1>2. CASE \E d \in Deletions : ExpireDeletion(d)
  <2>1. \A x \in Deletions : deletion'[x].project = deletion[x].project
                             /\ deletion'[x].status = deletion[x].status
    BY <1>0, <1>2 DEF ExpireDeletion, Deletion
  <2>2. UNCHANGED RequestMap
    BY <2>1 DEF RequestMap, Outcome
  <2>. QED  BY <1>1, <2>2, LifeKept, ArtifactsKept, MapStutter DEF MapVars
<1>3. ASSUME NEW w \in Erasers, NEW d \in Deletions, ClaimDeletion(w, d)
      PROVE  UNCHANGED Lifecycle!lifecycleVars
  <2>1. deletion[d].status \in {"pending", "running"}
    BY <1>3 DEF ClaimDeletion, ClaimableDeletion
  <2>2. deletion' = [deletion EXCEPT ![d] = [deletion[d] EXCEPT !.status = "running",
            !.attempts = deletion[d].attempts + 1, !.lease = "held"]]
    BY <1>3 DEF ClaimDeletion
  <2>3. /\ \A x \in Deletions : x # d => deletion'[x] = deletion[x]
        /\ deletion'[d].status = "running" /\ deletion'[d].project = deletion[d].project
    BY <1>0, <2>2 DEF Deletion
  <2>4. \A x \in Deletions : Outcome(x)' = Outcome(x)
                             /\ deletion'[x].project = deletion[x].project
    BY <2>1, <2>3 DEF Outcome
  <2>5. UNCHANGED RequestMap
    BY <2>4 DEF RequestMap
  <2>. QED  BY <1>1, <2>5, LifeKept, ArtifactsKept, MapStutter DEF MapVars
<1>. QED  BY <1>2, <1>3

LEMMA MapStep ==
    ASSUME IInv, EmptiedInv, [Next]_vars
    PROVE  Lifecycle!LifecycleNext \/ UNCHANGED Lifecycle!lifecycleVars
<1>1. CASE \E t \in Threads : ThreadStep(t)
  BY <1>1, MapThread
<1>2. CASE \/ \E w \in Renderers : RendererStep(w) \/ \E e \in Exports : ClaimExport(w, e)
           \/ \E e \in Exports : ExpireExport(e)
  BY <1>2, MapRenderer
<1>3. CASE \/ \E w \in Erasers, d \in Deletions : ClaimDeletion(w, d)
           \/ \E d \in Deletions : ExpireDeletion(d)
  BY <1>3, MapLease
<1>4. ASSUME UNCHANGED stored PROVE UNCHANGED Lifecycle!lifecycleVars
  BY <1>4, LifeKept, RequestsKept, ArtifactsKept, MapStutter DEF stored, MapVars
<1>5. ASSUME NEW w \in Erasers, EraserStep(w)
      PROVE  Lifecycle!LifecycleNext \/ UNCHANGED Lifecycle!lifecycleVars
  <2>1. CASE EraseCommit(w)
    BY <2>1, MapEraseCommit
  <2>2. CASE \E k \in Versions \union Exports : EraseObject(w, k)
    BY <2>2, MapErase
  <2>3. CASE Block(w)
    BY <2>3, MapClose DEF Block
  <2>4. CASE FailDeletion(w)
    BY <2>4, MapClose DEF FailDeletion
  <2>5. CASE LoadProject(w) /\ ~Exists(Target(w))
    BY <2>5, MapClose DEF LoadProject
  <2>6. CASE \/ LoadProject(w) /\ Exists(Target(w))
             \/ CheckHold(w) \/ ListVersions(w) \/ ListExports(w)
             \/ EraseRaises(w) \/ DeleteRecords(w) \/ EraseRefused(w)
    <3>1. UNCHANGED stored
      BY <2>6 DEF LoadProject, CheckHold, ListVersions, ListExports, EraseRaises,
                  DeleteRecords, EraseRefused, stored
    <3>. QED  BY <1>4, <3>1
  <2>. QED  BY <1>5, <2>1, <2>2, <2>3, <2>4, <2>5, <2>6 DEF EraserStep
<1>6. CASE \/ (\E a \in Agents : Crash(a)) \/ SetHold
           \/ (\E x \in Projects \union Versions : Refer(x)) \/ UNCHANGED vars
  BY <1>4, <1>6 DEF Crash, SetHold, Refer, vars
<1>. QED  BY <1>1, <1>2, <1>3, <1>5, <1>6 DEF Next

\* Clients see a project, its exports and its deletion requests go through the
\* life cycle of ProjectLifecycle, with any number of API threads, export
\* workers and retention workers that overlap, die and take over from others.
THEOREM DeletionKeepsLifecycle == Spec => ImplementsLifecycle
<1>1. Init => Lifecycle!LifecycleInit
  BY MapInit
<1>2. IInv /\ EmptiedInv /\ [Next]_vars
         => [Lifecycle!LifecycleNext]_(Lifecycle!lifecycleVars)
  BY MapStep
<1>. QED
  BY <1>1, <1>2, Invariance, EmptiedInvariance, PTL
  DEF Spec, ImplementsLifecycle, Lifecycle!LifecycleSpec
=============================================================================
