------------------------ MODULE SourceVersionsProofs ------------------------
(***************************************************************************)
(* Proofs about SourceVersions for any number of sources, uploads, versions*)
(* and workers, any batches and any bounds.                                *)
(***************************************************************************)
EXTENDS SourceVersions, TLAPS

\* Every embedding batch of v has a chunk.
Covered(v) == \A b \in 1..Batches : \E c \in chunks[v] : c[1] = b

Readable(u) == document[u] \in {"text", "image"}

\* A version that is or was ready: its passages are its own, and whole.
Good(v) ==
    /\ version[v].hash \in Uploads
    /\ blocks[v] = version[v].hash
    /\ Readable(version[v].hash)
    /\ Covered(v)

AbsentInv == \A v \in Versions : ~Present(v) => version[v].hash = Nothing

BlocksInv ==
    \A v \in Versions : blocks[v] # Nothing =>
        blocks[v] = version[v].hash /\ Readable(version[v].hash)

ReadyInv == \A v \in Versions : version[v].status = "ready" => Good(v)

\* A worker may come to a job, or has come to it.
Workable(j) == j.status \in {"queued", "completed"} \/ j.lease # "none"

\* Workers only ever work on versions that have been ready: an upload ingests
\* its version itself, and leaves a job that is not queued.
JobInv == \A v \in Versions : Workable(job[v]) \/ Workable(rebuild[v]) => Good(v)

WorkerInv ==
    \A w \in Workers :
        /\ \A j \in worker[w].batch : Good(j[1])
        /\ worker[w].pc = "loaded" => worker[w].item \in worker[w].batch

IInv ==
    /\ TypeOK
    /\ AbsentInv
    /\ BlocksInv
    /\ ReadyInv
    /\ JobInv
    /\ WorkerInv

\* What is good stays good.
Evolves == \A v \in Versions : Good(v) => Good(v)'

-----------------------------------------------------------------------------
(* Stages, jobs and workers in general *)

\* Only a document with a text, or images of one, comes to be ready.
LEMMA ReadyIsReadable ==
    ASSUME NEW d \in Document, "ready" \in Outcomes(d)
    PROVE  d \in {"text", "image"}
BY DEF Document, Outcomes, Scanned, Extracted, Recognised

\* Worker w has become q.
LEMMA WorkerMoves ==
    ASSUME IInv, Evolves, NEW w \in Workers, NEW q \in Worker,
           worker' = [worker EXCEPT ![w] = q],
           \A j \in q.batch : Good(j[1]),
           q.pc = "loaded" => q.item \in q.batch
    PROVE  worker' \in [Workers -> Worker] /\ WorkerInv'
<1>1. worker \in [Workers -> Worker]
  BY DEF IInv, TypeOK
<1>2. worker' \in [Workers -> Worker]
  BY <1>1
<1>3. ASSUME NEW o \in Workers
      PROVE  /\ \A j \in worker'[o].batch : j[1] \in Versions /\ Good(j[1])
             /\ worker'[o].pc = "loaded" => worker'[o].item \in worker'[o].batch
  <2>1. worker'[o].batch \subseteq Versions \X Nat
    BY <1>2 DEF Worker
  <2>2. CASE o = w
    BY <1>1, <2>1, <2>2
  <2>3. CASE o # w
    <3>1. worker'[o] = worker[o]
      BY <1>1, <2>3
    <3>. QED  BY <2>1, <3>1 DEF IInv, WorkerInv
  <2>. QED  BY <2>2, <2>3
<1>4. WorkerInv'
  <2>. SUFFICES ASSUME NEW o \in Workers
                PROVE  /\ \A j \in worker'[o].batch : Good(j[1])'
                       /\ worker'[o].pc = "loaded" => worker'[o].item \in worker'[o].batch
    BY DEF WorkerInv
  <2>. QED  BY <1>3 DEF Evolves
<1>. QED  BY <1>2, <1>4

\* Nobody works differently.
LEMMA WorkersStay ==
    ASSUME IInv, Evolves, UNCHANGED worker
    PROVE  worker' \in [Workers -> Worker] /\ WorkerInv'
<1>1. \A o \in Workers : worker[o].batch \subseteq Versions \X Nat
  BY DEF IInv, TypeOK, Worker
<1>. QED  BY <1>1 DEF IInv, TypeOK, WorkerInv, Evolves

LEMMA RestingIsWorker ==
    Resting \in Worker /\ Resting.batch = {} /\ Resting.pc = "idle"
BY DEF Resting, Worker, VersionStatus

LEMMA ProceedsMoves ==
    ASSUME IInv, Evolves, NEW w \in Workers, Proceeds(w)
    PROVE  worker' \in [Workers -> Worker] /\ WorkerInv'
<1>1. worker[w].batch \subseteq Versions \X Nat
  BY DEF IInv, TypeOK, Worker
<1>2. PICK q \in Worker : /\ worker' = [worker EXCEPT ![w] = q]
                          /\ q.pc # "loaded"
                          /\ q.batch \subseteq worker[w].batch
  <2>. DEFINE rest == worker[w].batch \ {worker[w].item}
              pc == IF rest = {} THEN "idle" ELSE "claimed"
              next == [Resting EXCEPT !.pc = pc, !.batch = rest]
  <2>1. worker' = [worker EXCEPT ![w] = next]
    BY DEF Proceeds
  <2>2. pc \in {"idle", "claimed"} /\ rest \in SUBSET (Versions \X Nat)
    BY <1>1
  <2>. HIDE DEF rest, pc
  <2>3. next \in Worker /\ next.pc # "loaded" /\ next.batch = rest
    BY <2>2 DEF Resting, Worker, VersionStatus
  <2>. HIDE DEF next
  <2>. QED  BY <2>1, <2>3 DEF rest
<1>3. \A j \in q.batch : Good(j[1])
  BY <1>2 DEF IInv, WorkerInv
<1>. QED  BY <1>2, <1>3, WorkerMoves

\* A claim takes jobs that a worker may come to.
LEMMA TakesMoves ==
    ASSUME IInv, Evolves, NEW w \in Workers, NEW batch \in SUBSET Versions,
           NEW jobs \in [Versions -> Job], Takes(w, jobs, batch),
           \A v \in Versions : Workable(jobs[v]) => Good(v)
    PROVE  /\ worker' \in [Workers -> Worker] /\ WorkerInv'
           /\ Claimed(jobs, batch) \in [Versions -> Job]
           /\ \A v \in Versions : Workable(Claimed(jobs, batch)[v]) => Good(v)
<1>1. \A v \in batch : Good(v)
  BY DEF Takes, Claimable, Workable
<1>2. \A v \in Versions : jobs[v].attempts + 1 \in Nat
  BY DEF Job
<1>3. PICK q \in Worker : /\ worker' = [worker EXCEPT ![w] = q]
                          /\ q.pc # "loaded"
                          /\ \A j \in q.batch : j[1] \in batch
  <2>. DEFINE held == {<<v, jobs[v].attempts + 1>> : v \in batch}
              next == [Resting EXCEPT !.pc = "claimed", !.batch = held]
  <2>1. worker' = [worker EXCEPT ![w] = next]
    BY DEF Takes
  <2>2. held \in SUBSET (Versions \X Nat) /\ \A j \in held : j[1] \in batch
    BY <1>2
  <2>. HIDE DEF held
  <2>3. next \in Worker /\ next.pc # "loaded" /\ next.batch = held
    BY <2>2 DEF Resting, Worker, VersionStatus
  <2>. HIDE DEF next
  <2>. QED  BY <2>1, <2>2, <2>3
<1>4. worker' \in [Workers -> Worker] /\ WorkerInv'
  BY <1>1, <1>3, WorkerMoves
<1>5. Claimed(jobs, batch) \in [Versions -> Job]
  BY <1>2 DEF Claimed, Job
<1>6. \A v \in Versions : Workable(Claimed(jobs, batch)[v]) => Good(v)
  BY <1>1 DEF Claimed
<1>. QED  BY <1>4, <1>5, <1>6

\* A job that has ended well was workable; one that has failed is not.
LEMMA EndsStep ==
    ASSUME NEW jobs \in [Versions -> Job], NEW v \in Versions,
           NEW status \in {"completed", "failed"}, Good(v),
           \A x \in Versions : Workable(jobs[x]) => Good(x)
    PROVE  /\ Ends(jobs, v, status) \in [Versions -> Job]
           /\ \A x \in Versions : Workable(Ends(jobs, v, status)[x]) => Good(x)
<1>1. ASSUME NEW j \in Job
      PROVE  [j EXCEPT !.status = status, !.lease = "none"] \in Job
  BY DEF Job
<1>. DEFINE ended == [jobs[v] EXCEPT !.status = status, !.lease = "none"]
<1>2. Ends(jobs, v, status) = [jobs EXCEPT ![v] = ended]
  BY DEF Ends
<1>3. ended \in Job
  BY <1>1
<1>. HIDE DEF ended
<1>4. Ends(jobs, v, status) \in [Versions -> Job]
  BY <1>2, <1>3
<1>5. ASSUME NEW x \in Versions, Workable(Ends(jobs, v, status)[x])
      PROVE  Good(x)
  <2>1. CASE x = v
    BY <2>1
  <2>2. CASE x # v
    <3>1. Ends(jobs, v, status)[x] = jobs[x]
      BY <1>2, <2>2
    <3>. QED  BY <1>5, <3>1
  <2>. QED  BY <2>1, <2>2
<1>. QED  BY <1>4, <1>5

\* The lease of a job that had one.
LEMMA LeaseStep ==
    ASSUME NEW jobs \in [Versions -> Job], NEW v \in Versions, jobs[v].lease = "held",
           \A x \in Versions : Workable(jobs[x]) => Good(x)
    PROVE  /\ [jobs EXCEPT ![v].lease = "expired"] \in [Versions -> Job]
           /\ \A x \in Versions : Workable([jobs EXCEPT ![v].lease = "expired"][x]) => Good(x)
<1>1. ASSUME NEW j \in Job
      PROVE  [j EXCEPT !.lease = "expired"] \in Job
  BY DEF Job
<1>2. Good(v)
  BY DEF Workable
<1>3. [jobs EXCEPT ![v].lease = "expired"]
        = [jobs EXCEPT ![v] = [jobs[v] EXCEPT !.lease = "expired"]]
  OBVIOUS
<1>. QED  BY <1>1, <1>2, <1>3

\* Jobs stay as good as they were.
LEMMA JobsStay ==
    ASSUME Evolves,
           \A v \in Versions : Workable(job'[v]) => Good(v),
           \A v \in Versions : Workable(rebuild'[v]) => Good(v)
    PROVE  JobInv'
BY DEF JobInv, Evolves, Workable

\* The rows of versions and their blocks and chunks are not touched.
LEMMA VersionsStay ==
    ASSUME IInv, UNCHANGED <<document, version, blocks, chunks>>
    PROVE  Evolves /\ AbsentInv' /\ BlocksInv' /\ ReadyInv'
<1>1. Evolves
  BY DEF Evolves, Good, Readable, Covered
<1>. QED
  BY <1>1 DEF IInv, AbsentInv, BlocksInv, ReadyInv, Present, Good, Readable, Covered

-----------------------------------------------------------------------------
(* Uploads *)

\* Steps of a request that commit nothing.
LEMMA RequestStep ==
    ASSUME IInv, thread' \in [Uploads -> Thread],
           store' \in [Versions -> Uploads \union {Nothing}],
           UNCHANGED <<document, rows, rebuild, worker, faults, overrun>>
    PROVE  IInv'
<1>1. UNCHANGED <<version, job, blocks, chunks, current>>
  BY DEF rows
<1>2. Evolves /\ AbsentInv' /\ BlocksInv' /\ ReadyInv'
  BY <1>1, VersionsStay
<1>3. WorkerInv' /\ JobInv'
  BY <1>1, <1>2, WorkersStay, JobsStay DEF IInv, JobInv
<1>4. TypeOK'
  BY <1>1 DEF IInv, TypeOK
<1>. QED  BY <1>2, <1>3, <1>4 DEF IInv

LEMMA EndTyped ==
    ASSUME IInv, NEW u \in Uploads, End(u)
    PROVE  thread' \in [Uploads -> Thread]
<1>1. ASSUME NEW h \in Thread
      PROVE  [h EXCEPT !.pc = "ended"] \in Thread
  BY DEF Thread
<1>2. thread' = [thread EXCEPT ![u] = [thread[u] EXCEPT !.pc = "ended"]]
  BY DEF End
<1>. QED  BY <1>1, <1>2 DEF IInv, TypeOK

LEMMA UploadReadStep ==
    ASSUME IInv, NEW u \in Uploads, NEW s \in Sources, NEW n \in 1..MaxVersions,
           UploadRead(u, s, n)
    PROVE  IInv'
<1>1. thread' \in [Uploads -> Thread]
  BY DEF UploadRead, IInv, TypeOK, Thread, Versions
<1>2. store' \in [Versions -> Uploads \union {Nothing}]
  BY DEF UploadRead, IInv, TypeOK
<1>. QED  BY <1>1, <1>2, RequestStep DEF UploadRead

LEMMA UploadPutStep ==
    ASSUME IInv, NEW u \in Uploads, UploadPut(u)
    PROVE  IInv'
<1>1. ASSUME NEW h \in Thread
      PROVE  [h EXCEPT !.pc = "stored"] \in Thread
  BY DEF Thread
<1>2. thread' = [thread EXCEPT ![u] = [thread[u] EXCEPT !.pc = "stored"]]
  BY DEF UploadPut
<1>3. thread' \in [Uploads -> Thread]
  BY <1>1, <1>2 DEF IInv, TypeOK
<1>4. store' \in [Versions -> Uploads \union {Nothing}]
  BY DEF UploadPut, IInv, TypeOK
<1>. QED  BY <1>3, <1>4, RequestStep DEF UploadPut

LEMMA UploadAbandonedStep ==
    ASSUME IInv, NEW u \in Uploads, UploadAbandoned(u)
    PROVE  IInv'
<1>1. thread' \in [Uploads -> Thread]
  BY EndTyped DEF UploadAbandoned
<1>2. store' \in [Versions -> Uploads \union {Nothing}]
  BY DEF UploadAbandoned, IInv, TypeOK
<1>. QED  BY <1>1, <1>2, RequestStep DEF UploadAbandoned

\* The insert of a version that was absent: nothing good is touched.
LEMMA InsertStep ==
    ASSUME IInv, NEW u \in Uploads, NEW v \in Versions, Inserts(u, v),
           NEW status \in VersionStatus \ {"absent"},
           NEW jobStatus \in {"running", "completed", "failed"},
           Row(v, u, status, jobStatus),
           blocks' \in [Versions -> Uploads \union {Nothing}],
           chunks' \in [Versions -> SUBSET Chunk],
           \A x \in Versions \ {v} : blocks'[x] = blocks[x] /\ chunks'[x] = chunks[x],
           blocks'[v] # Nothing => blocks'[v] = u /\ Readable(u),
           status = "ready" \/ jobStatus = "completed" =>
                blocks'[v] = u /\ Readable(u) /\ Covered(v)',
           current' \in [Sources -> 0..MaxVersions],
           UNCHANGED <<document, store, rebuild, worker, faults, overrun>>
    PROVE  IInv'
<1>1. /\ version \in [Versions -> Version] /\ job \in [Versions -> Job]
      /\ version' = [version EXCEPT ![v] = [status |-> status, hash |-> u]]
      /\ job' = [job EXCEPT ![v] = [NoJob EXCEPT !.status = jobStatus]]
  BY DEF IInv, TypeOK, Row
<1>2. ~Good(v)
  BY SourcesAssumption DEF Inserts, IInv, AbsentInv, Good
<1>3. \A x \in Versions \ {v} :
        version'[x] = version[x] /\ job'[x] = job[x] /\ (Good(x) => Good(x)')
  BY <1>1 DEF Good, Readable, Covered
<1>4. Evolves
  BY <1>2, <1>3 DEF Evolves
<1>5. version' \in [Versions -> Version]
  BY <1>1 DEF Version
<1>6. [NoJob EXCEPT !.status = jobStatus] \in Job
  BY DEF NoJob, Job
<1>7. job' \in [Versions -> Job]
  BY <1>1, <1>6
<1>8. thread' \in [Uploads -> Thread]
  BY EndTyped DEF Inserts
<1>9. worker' \in [Workers -> Worker] /\ WorkerInv'
  BY <1>4, WorkersStay
<1>10. version'[v].status = status /\ version'[v].hash = u
  BY <1>1
<1>11. AbsentInv'
  BY <1>3, <1>10 DEF IInv, AbsentInv, Present
<1>12. BlocksInv'
  BY <1>3, <1>10 DEF IInv, BlocksInv, Readable
<1>13. status = "ready" \/ jobStatus = "completed" => Good(v)'
  BY <1>10 DEF Good, Readable
<1>14. ReadyInv'
  BY <1>3, <1>10, <1>13 DEF IInv, ReadyInv
<1>15. JobInv'
  <2>1. Workable(job'[v]) => jobStatus = "completed"
    BY <1>1 DEF Workable, NoJob
  <2>2. ~Workable(rebuild[v])
    BY <1>2 DEF IInv, JobInv
  <2>3. \A x \in Versions \ {v} : Workable(job'[x]) \/ Workable(rebuild'[x]) => Good(x)'
    BY <1>3 DEF IInv, JobInv
  <2>. QED  BY <1>13, <2>1, <2>2, <2>3 DEF JobInv, Workable
<1>16. TypeOK'
  BY <1>5, <1>7, <1>8, <1>9 DEF IInv, TypeOK
<1>. QED  BY <1>9, <1>11, <1>12, <1>14, <1>15, <1>16 DEF IInv

\* The passages and the first n batches of chunks of a version.
LEMMA NormalizedIs ==
    ASSUME IInv, NEW v \in Versions, NEW u \in Uploads, NEW n \in 0..Batches,
           Normalized(v, u, n)
    PROVE  /\ blocks' \in [Versions -> Uploads \union {Nothing}]
           /\ chunks' \in [Versions -> SUBSET Chunk]
           /\ blocks'[v] = u
           /\ n = Batches => Covered(v)'
           /\ \A x \in Versions \ {v} : blocks'[x] = blocks[x] /\ chunks'[x] = chunks[x]
<1>1. /\ blocks \in [Versions -> Uploads \union {Nothing}]
      /\ chunks \in [Versions -> SUBSET Chunk]
      /\ blocks' = [blocks EXCEPT ![v] = u]
      /\ chunks' = [chunks EXCEPT ![v] = chunks[v] \union Embedded(n, 0)]
  BY DEF IInv, TypeOK, Normalized
<1>2. Batches \in Nat
  BY SourcesAssumption
<1>3. Embedded(n, 0) \subseteq Chunk
  BY <1>2 DEF Embedded, Chunk
<1>4. ASSUME n = Batches, NEW b \in 1..Batches
      PROVE  \E c \in chunks'[v] : c[1] = b
  <2>1. <<b, 0>> \in Embedded(n, 0)
    BY <1>4 DEF Embedded
  <2>. QED  BY <1>1, <2>1
<1>5. n = Batches => Covered(v)'
  BY <1>4 DEF Covered
<1>. QED  BY <1>1, <1>3, <1>5

LEMMA PointerTyped ==
    ASSUME IInv, NEW v \in Versions
    PROVE  [current EXCEPT ![v[1]] = v[2]] \in [Sources -> 0..MaxVersions]
<1>1. v[1] \in Sources /\ v[2] \in 0..MaxVersions
  BY SourcesAssumption DEF Versions
<1>. QED  BY <1>1 DEF IInv, TypeOK

LEMMA UploadReadyStep ==
    ASSUME IInv, NEW u \in Uploads, NEW v \in Versions, UploadReady(u, v)
    PROVE  IInv'
<1>1. Readable(u)
  BY ReadyIsReadable DEF UploadReady, IInv, TypeOK, Readable
<1>2. Batches \in 0..Batches
  BY SourcesAssumption
<1>3. /\ blocks' \in [Versions -> Uploads \union {Nothing}]
      /\ chunks' \in [Versions -> SUBSET Chunk]
      /\ blocks'[v] = u
      /\ Covered(v)'
      /\ \A x \in Versions \ {v} : blocks'[x] = blocks[x] /\ chunks'[x] = chunks[x]
  BY <1>2, NormalizedIs DEF UploadReady
<1>4. current' \in [Sources -> 0..MaxVersions]
  BY PointerTyped DEF UploadReady
<1>5. Inserts(u, v) /\ Row(v, u, "ready", "completed")
      /\ UNCHANGED <<document, store, rebuild, worker, faults, overrun>>
  BY DEF UploadReady
<1>6. "ready" \in VersionStatus \ {"absent"}
  BY DEF VersionStatus
<1>. QED  BY <1>1, <1>3, <1>4, <1>5, <1>6, InsertStep

LEMMA UploadFailsStep ==
    ASSUME IInv, NEW u \in Uploads, NEW v \in Versions,
           NEW status \in {"failed", "quarantined"}, UploadFails(u, v, status)
    PROVE  IInv'
<1>1. /\ Inserts(u, v) /\ Row(v, u, status, "failed")
      /\ UNCHANGED <<document, store, blocks, chunks, current, rebuild, worker, faults, overrun>>
  BY DEF UploadFails
<1>2. version[v].hash = Nothing
  BY <1>1 DEF Inserts, IInv, AbsentInv
<1>3. blocks[v] = Nothing
  BY <1>2 DEF IInv, BlocksInv
<1>4. status \in VersionStatus \ {"absent"} /\ status # "ready"
  BY DEF VersionStatus
<1>. QED  BY <1>1, <1>3, <1>4, InsertStep DEF IInv, TypeOK

LEMMA UploadStallsStep ==
    ASSUME IInv, NEW u \in Uploads, NEW v \in Versions, NEW n \in 0..(Batches - 1),
           UploadStalls(u, v, n)
    PROVE  IInv'
<1>1. Readable(u)
  BY ReadyIsReadable DEF UploadStalls, IInv, TypeOK, Readable
<1>2. n \in 0..Batches
  BY SourcesAssumption
<1>3. /\ blocks' \in [Versions -> Uploads \union {Nothing}]
      /\ chunks' \in [Versions -> SUBSET Chunk]
      /\ blocks'[v] = u
      /\ \A x \in Versions \ {v} : blocks'[x] = blocks[x] /\ chunks'[x] = chunks[x]
  BY <1>2, NormalizedIs DEF UploadStalls
<1>4. current' \in [Sources -> 0..MaxVersions]
  BY DEF UploadStalls, IInv, TypeOK
<1>5. Inserts(u, v) /\ Row(v, u, "normalizing", "running")
      /\ UNCHANGED <<document, store, rebuild, worker, faults, overrun>>
  BY DEF UploadStalls
<1>6. "normalizing" \in VersionStatus \ {"absent"}
  BY DEF VersionStatus
<1>. QED  BY <1>1, <1>3, <1>4, <1>5, <1>6, InsertStep

-----------------------------------------------------------------------------
(* Workers *)

\* A step of a worker or a lease that changes jobs and workers only.
LEMMA JobStep ==
    ASSUME IInv, job' \in [Versions -> Job], rebuild' \in [Versions -> Job],
           \A v \in Versions : Workable(job'[v]) \/ Workable(rebuild'[v]) => Good(v),
           worker' \in [Workers -> Worker], WorkerInv',
           faults' \in Nat, overrun' \subseteq Versions,
           UNCHANGED <<uploading, version, blocks, chunks, current>>
    PROVE  IInv'
<1>1. UNCHANGED <<document, thread, store>>
  BY DEF uploading
<1>2. Evolves /\ AbsentInv' /\ BlocksInv' /\ ReadyInv'
  BY <1>1, VersionsStay
<1>3. JobInv'
  BY <1>2, JobsStay
<1>4. TypeOK'
  BY <1>1 DEF IInv, TypeOK
<1>. QED  BY <1>2, <1>3, <1>4 DEF IInv

\* What JobStep asks of the rows a step leaves alone.
LEMMA RowsStay ==
    ASSUME IInv, UNCHANGED <<document, version, blocks, chunks>>
    PROVE  /\ Evolves
           /\ \A v \in Versions : Workable(job[v]) => Good(v)
           /\ \A v \in Versions : Workable(rebuild[v]) => Good(v)
           /\ job \in [Versions -> Job] /\ rebuild \in [Versions -> Job]
           /\ faults \in Nat /\ overrun \subseteq Versions
BY VersionsStay DEF IInv, JobInv, TypeOK

LEMMA RequeueStep ==
    ASSUME IInv, NEW v \in Versions, Requeue(v)
    PROVE  IInv'
<1>1. /\ job' = [job EXCEPT ![v] = [job[v] EXCEPT !.status = "queued", !.lease = "none"]]
      /\ version' = [version EXCEPT ![v] = [version[v] EXCEPT !.status = "uploaded"]]
      /\ UNCHANGED <<document, thread, store, blocks, chunks, current, rebuild, worker, faults, overrun>>
  BY DEF Requeue, IInv, TypeOK, uploading
<1>2. job[v].status = "completed" /\ job[v] \in Job /\ version[v] \in Version
  BY DEF Requeue, IInv, TypeOK
<1>3. Good(v)
  BY <1>2 DEF IInv, JobInv, Workable
<1>4. ASSUME NEW j \in Job, NEW r \in Version
      PROVE  /\ [j EXCEPT !.status = "queued", !.lease = "none"] \in Job
             /\ LET next == [r EXCEPT !.status = "uploaded"]
                IN  next \in Version /\ next.hash = r.hash /\ next.status = "uploaded"
  BY DEF Job, Version, VersionStatus
<1>5. /\ version' \in [Versions -> Version] /\ job' \in [Versions -> Job]
      /\ version'[v].status = "uploaded"
      /\ \A x \in Versions : version'[x].hash = version[x].hash
      /\ \A x \in Versions \ {v} : version'[x] = version[x] /\ job'[x] = job[x]
  BY <1>1, <1>2, <1>4 DEF IInv, TypeOK
<1>6. Evolves
  BY <1>1, <1>5 DEF Evolves, Good, Readable, Covered
<1>7. AbsentInv'
  BY <1>5 DEF IInv, AbsentInv, Present
<1>8. BlocksInv'
  BY <1>1, <1>5 DEF IInv, BlocksInv, Readable
<1>9. ReadyInv'
  BY <1>5, <1>6 DEF IInv, ReadyInv, Evolves
<1>10. JobInv'
  BY <1>1, <1>3, <1>5, <1>6 DEF IInv, JobInv, Evolves
<1>11. worker' \in [Workers -> Worker] /\ WorkerInv'
  BY <1>1, <1>6, WorkersStay
<1>. QED  BY <1>1, <1>5, <1>7, <1>8, <1>9, <1>10, <1>11 DEF IInv, TypeOK

LEMMA IngestClaimStep ==
    ASSUME IInv, NEW w \in Workers, NEW batch \in SUBSET Versions, IngestClaim(w, batch)
    PROVE  IInv'
<1>1. /\ Takes(w, job, batch) /\ job' = Claimed(job, batch)
      /\ UNCHANGED <<uploading, version, blocks, chunks, current, rebuild, faults, overrun>>
  BY DEF IngestClaim
<1>2. /\ Evolves
      /\ \A v \in Versions : Workable(job[v]) => Good(v)
      /\ \A v \in Versions : Workable(rebuild[v]) => Good(v)
      /\ job \in [Versions -> Job] /\ rebuild \in [Versions -> Job]
      /\ faults \in Nat /\ overrun \subseteq Versions
  BY <1>1, RowsStay DEF uploading
<1>3. /\ worker' \in [Workers -> Worker] /\ WorkerInv'
      /\ Claimed(job, batch) \in [Versions -> Job]
      /\ \A v \in Versions : Workable(Claimed(job, batch)[v]) => Good(v)
  BY <1>1, <1>2, TakesMoves
<1>. QED  BY <1>1, <1>2, <1>3, JobStep

LEMMA RebuildClaimStep ==
    ASSUME IInv, NEW w \in Workers, NEW batch \in SUBSET Versions, RebuildClaim(w, batch)
    PROVE  IInv'
<1>1. /\ Takes(w, rebuild, batch) /\ rebuild' = Claimed(rebuild, batch)
      /\ UNCHANGED <<uploading, version, job, blocks, chunks, current, faults, overrun>>
  BY DEF RebuildClaim, rows
<1>2. /\ Evolves
      /\ \A v \in Versions : Workable(job[v]) => Good(v)
      /\ \A v \in Versions : Workable(rebuild[v]) => Good(v)
      /\ job \in [Versions -> Job] /\ rebuild \in [Versions -> Job]
      /\ faults \in Nat /\ overrun \subseteq Versions
  BY <1>1, RowsStay DEF uploading
<1>3. /\ worker' \in [Workers -> Worker] /\ WorkerInv'
      /\ Claimed(rebuild, batch) \in [Versions -> Job]
      /\ \A v \in Versions : Workable(Claimed(rebuild, batch)[v]) => Good(v)
  BY <1>1, <1>2, TakesMoves
<1>. QED  BY <1>1, <1>2, <1>3, JobStep

LEMMA LeaseEndsStep ==
    ASSUME IInv, NEW v \in Versions, IngestLease(v) \/ RebuildLease(v)
    PROVE  IInv'
<1>1. UNCHANGED <<uploading, version, blocks, chunks, current, worker>>
  BY DEF IngestLease, RebuildLease, LeaseEnds
<1>2. /\ Evolves
      /\ \A x \in Versions : Workable(job[x]) => Good(x)
      /\ \A x \in Versions : Workable(rebuild[x]) => Good(x)
      /\ job \in [Versions -> Job] /\ rebuild \in [Versions -> Job]
      /\ faults \in Nat /\ overrun \subseteq Versions
  BY <1>1, RowsStay DEF uploading
<1>3. faults' \in Nat /\ overrun' \subseteq Versions
  BY <1>2 DEF IngestLease, RebuildLease, LeaseEnds
<1>4. worker' \in [Workers -> Worker] /\ WorkerInv'
  BY <1>1, <1>2, WorkersStay
<1>5. /\ job' \in [Versions -> Job] /\ rebuild' \in [Versions -> Job]
      /\ \A x \in Versions : Workable(job'[x]) \/ Workable(rebuild'[x]) => Good(x)
  <2>1. CASE IngestLease(v)
    <3>1. /\ job[v].lease = "held"
          /\ job' = [job EXCEPT ![v].lease = "expired"] /\ rebuild' = rebuild
      BY <2>1 DEF IngestLease, LeaseEnds
    <3>. QED  BY <1>2, <3>1, LeaseStep
  <2>2. CASE RebuildLease(v)
    <3>1. /\ rebuild[v].lease = "held"
          /\ rebuild' = [rebuild EXCEPT ![v].lease = "expired"] /\ job' = job
      BY <2>2 DEF RebuildLease, LeaseEnds
    <3>. QED  BY <1>2, <3>1, LeaseStep
  <2>. QED  BY <2>1, <2>2
<1>. QED  BY <1>1, <1>3, <1>4, <1>5, JobStep

LEMMA WorkerDiesStep ==
    ASSUME IInv, NEW w \in Workers, WorkerDies(w)
    PROVE  IInv'
<1>1. /\ worker' = [worker EXCEPT ![w] = Resting]
      /\ UNCHANGED <<uploading, version, job, blocks, chunks, current, rebuild, overrun>>
  BY DEF WorkerDies, rows
<1>2. /\ Evolves
      /\ \A x \in Versions : Workable(job[x]) => Good(x)
      /\ \A x \in Versions : Workable(rebuild[x]) => Good(x)
      /\ job \in [Versions -> Job] /\ rebuild \in [Versions -> Job]
      /\ faults \in Nat /\ overrun \subseteq Versions
  BY <1>1, RowsStay DEF uploading
<1>3. faults' \in Nat
  BY <1>2 DEF WorkerDies
<1>4. worker' \in [Workers -> Worker] /\ WorkerInv'
  BY <1>1, <1>2, RestingIsWorker, WorkerMoves
<1>. QED  BY <1>1, <1>2, <1>3, <1>4, JobStep

\* A worker has read what it needs of item j.
LEMMA LoadStep ==
    ASSUME IInv, NEW w \in Workers, NEW j \in worker[w].batch,
           NEW seen \in VersionStatus, NEW bytes \in Uploads \union {Nothing},
           NEW doomed \in SUBSET Chunk,
           worker' = [worker EXCEPT ![w].pc = "loaded", ![w].item = j, ![w].seen = seen,
                                    ![w].bytes = bytes, ![w].doomed = doomed],
           UNCHANGED <<uploading, rows, rebuild, faults, overrun>>
    PROVE  IInv'
<1>1. UNCHANGED <<uploading, version, job, blocks, chunks, current, rebuild, faults, overrun>>
  BY DEF rows
<1>2. /\ Evolves
      /\ \A x \in Versions : Workable(job[x]) => Good(x)
      /\ \A x \in Versions : Workable(rebuild[x]) => Good(x)
      /\ job \in [Versions -> Job] /\ rebuild \in [Versions -> Job]
      /\ faults \in Nat /\ overrun \subseteq Versions
  BY <1>1, RowsStay DEF uploading
<1>3. worker[w] \in Worker /\ j \in Versions \X Nat
  BY DEF IInv, TypeOK, Worker
<1>4. PICK q \in Worker : /\ worker' = [worker EXCEPT ![w] = q]
                          /\ q.item = j /\ q.batch = worker[w].batch
  <2>. DEFINE next == [worker[w] EXCEPT !.pc = "loaded", !.item = j, !.seen = seen,
                                        !.bytes = bytes, !.doomed = doomed]
  <2>1. next \in Worker /\ next.item = j /\ next.batch = worker[w].batch
    BY <1>3 DEF Worker
  <2>2. worker' = [worker EXCEPT ![w] = next]
    BY DEF IInv, TypeOK
  <2>. QED  BY <2>1, <2>2
<1>5. worker' \in [Workers -> Worker] /\ WorkerInv'
  BY <1>2, <1>4, WorkerMoves DEF IInv, WorkerInv
<1>. QED  BY <1>1, <1>2, <1>5, JobStep

LEMMA IngestLoadStep ==
    ASSUME IInv, NEW w \in Workers, NEW j \in worker[w].batch, IngestLoad(w, j)
    PROVE  IInv'
<1>1. worker[w] \in Worker /\ j[1] \in Versions
  BY DEF IInv, TypeOK, Worker
<1>2. PICK seen \in VersionStatus, bytes \in Uploads \union {Nothing} :
        seen = version[j[1]].status /\ bytes = store[j[1]]
  BY <1>1 DEF IInv, TypeOK, Version
<1>3. PICK doomed \in SUBSET Chunk : doomed = worker[w].doomed
  BY <1>1 DEF Worker
<1>4. worker' = [worker EXCEPT ![w].pc = "loaded", ![w].item = j, ![w].seen = seen,
                               ![w].bytes = bytes, ![w].doomed = doomed]
  <2>. DEFINE next == [worker[w] EXCEPT !.pc = "loaded", !.item = j, !.seen = seen,
                                        !.bytes = bytes]
              same == [next EXCEPT !.doomed = doomed]
  <2>1. worker' = [worker EXCEPT ![w] = next]
    BY <1>2 DEF IngestLoad, IInv, TypeOK
  <2>2. same = next
    BY <1>1, <1>3 DEF Worker
  <2>3. worker' = [worker EXCEPT ![w] = same]
    BY <2>1, <2>2
  <2>. QED  BY <2>3
<1>5. UNCHANGED <<uploading, rows, rebuild, faults, overrun>>
  BY DEF IngestLoad
<1>. QED  BY <1>4, <1>5, LoadStep

LEMMA RebuildDeleteStep ==
    ASSUME IInv, NEW w \in Workers, NEW j \in worker[w].batch, RebuildDelete(w, j)
    PROVE  IInv'
<1>1. worker[w] \in Worker /\ j[1] \in Versions
  BY DEF IInv, TypeOK, Worker
<1>2. PICK seen \in VersionStatus, bytes \in Uploads \union {Nothing} :
        seen = worker[w].seen /\ bytes = worker[w].bytes
  BY <1>1 DEF Worker
<1>3. PICK doomed \in SUBSET Chunk : doomed = chunks[j[1]]
  BY <1>1 DEF IInv, TypeOK
<1>4. worker' = [worker EXCEPT ![w].pc = "loaded", ![w].item = j, ![w].seen = seen,
                               ![w].bytes = bytes, ![w].doomed = doomed]
  <2>. DEFINE next == [worker[w] EXCEPT !.pc = "loaded", !.item = j, !.doomed = doomed]
              same == [worker[w] EXCEPT !.pc = "loaded", !.item = j, !.seen = seen,
                                        !.bytes = bytes, !.doomed = doomed]
  <2>1. worker' = [worker EXCEPT ![w] = next]
    BY <1>3 DEF RebuildDelete, IInv, TypeOK
  <2>2. same = next
    BY <1>1, <1>2 DEF Worker
  <2>3. worker' = [worker EXCEPT ![w] = same]
    BY <2>1, <2>2
  <2>. QED  BY <2>3
<1>5. UNCHANGED <<uploading, rows, rebuild, faults, overrun>>
  BY DEF RebuildDelete
<1>. QED  BY <1>4, <1>5, LoadStep

\* The version a worker has loaded is good.
LEMMA LoadedIsGood ==
    ASSUME IInv, NEW w \in Workers, worker[w].pc = "loaded"
    PROVE  worker[w].item \in Versions \X Nat /\ Good(worker[w].item[1])
<1>1. worker[w].item \in worker[w].batch
  BY DEF IInv, WorkerInv
<1>2. worker[w].batch \subseteq Versions \X Nat
  BY DEF IInv, TypeOK, Worker
<1>. QED  BY <1>1, <1>2 DEF IInv, WorkerInv

\* The status of a good version is written.
LEMMA StatusStep ==
    ASSUME IInv, NEW v \in Versions, Good(v),
           NEW status \in VersionStatus \ {"absent"},
           version' = version \/ version' = [version EXCEPT ![v].status = status],
           UNCHANGED <<document, blocks, chunks>>
    PROVE  /\ version' \in [Versions -> Version]
           /\ Evolves /\ AbsentInv' /\ BlocksInv' /\ ReadyInv'
<1>1. ASSUME NEW r \in Version
      PROVE  LET next == [r EXCEPT !.status = status]
             IN  next \in Version /\ next.hash = r.hash /\ next.status = status
  BY DEF Version
<1>2. version \in [Versions -> Version]
  BY DEF IInv, TypeOK
<1>. DEFINE next == [version[v] EXCEPT !.status = status]
<1>3. version' = version \/ version' = [version EXCEPT ![v] = next]
  BY <1>2
<1>4. next \in Version /\ next.hash = version[v].hash /\ next.status = status
  BY <1>1, <1>2
<1>. HIDE DEF next
<1>5. /\ version' \in [Versions -> Version]
      /\ \A x \in Versions : version'[x].hash = version[x].hash
      /\ \A x \in Versions \ {v} : version'[x] = version[x]
      /\ version'[v] = version[v] \/ version'[v].status = status
  <2>1. CASE version' = version
    BY <1>2, <2>1
  <2>2. CASE version' = [version EXCEPT ![v] = next]
    BY <1>2, <1>4, <2>2
  <2>. QED  BY <1>3, <2>1, <2>2
<1>6. Evolves
  BY <1>5 DEF Evolves, Good, Readable, Covered
<1>7. AbsentInv'
  <2>. SUFFICES ASSUME NEW x \in Versions, version'[x].status = "absent"
                PROVE  version'[x].hash = Nothing
    BY DEF AbsentInv, Present
  <2>1. version[x].status = "absent"
    BY <1>5
  <2>. QED  BY <1>5, <2>1 DEF IInv, AbsentInv, Present
<1>8. BlocksInv'
  BY <1>5 DEF IInv, BlocksInv, Readable
<1>9. ReadyInv'
  BY <1>5, <1>6 DEF IInv, ReadyInv, Evolves
<1>. QED  BY <1>5, <1>6, <1>7, <1>8, <1>9

LEMMA IngestReadyStep ==
    ASSUME IInv, NEW w \in Workers, NEW v \in Versions, IngestReady(w, v)
    PROVE  IInv'
<1>1. Good(v)
  BY LoadedIsGood DEF IngestReady
<1>2. blocks[v] # Nothing
  BY <1>1, SourcesAssumption DEF Good
<1>3. /\ version' = version \/ version' = [version EXCEPT ![v].status = "ready"]
      /\ job' = Ends(job, v, "completed")
      /\ current' = [current EXCEPT ![v[1]] = v[2]]
      /\ Proceeds(w)
      /\ UNCHANGED <<document, thread, store, blocks, chunks, rebuild, faults, overrun>>
  BY <1>2 DEF IngestReady, uploading
<1>4. "ready" \in VersionStatus \ {"absent"}
  BY DEF VersionStatus
<1>5. version' \in [Versions -> Version] /\ Evolves /\ AbsentInv' /\ BlocksInv' /\ ReadyInv'
  BY <1>1, <1>3, <1>4, StatusStep
<1>6. worker' \in [Workers -> Worker] /\ WorkerInv'
  BY <1>3, <1>5, ProceedsMoves
<1>7. /\ job' \in [Versions -> Job]
      /\ \A x \in Versions : Workable(job'[x]) => Good(x)
  BY <1>1, <1>3, EndsStep DEF IInv, TypeOK, JobInv
<1>8. JobInv'
  BY <1>3, <1>5, <1>7, JobsStay DEF IInv, JobInv
<1>9. current' \in [Sources -> 0..MaxVersions]
  BY <1>3, PointerTyped
<1>. QED  BY <1>3, <1>5, <1>6, <1>7, <1>8, <1>9 DEF IInv, TypeOK

LEMMA IngestFailsStep ==
    ASSUME IInv, NEW w \in Workers, NEW v \in Versions,
           NEW status \in {"failed", "quarantined"}, IngestFails(w, v, status)
    PROVE  IInv'
<1>1. Good(v)
  BY LoadedIsGood DEF IngestFails
<1>2. /\ version' = [version EXCEPT ![v].status = status]
      /\ job' = Ends(job, v, "failed")
      /\ Proceeds(w)
      /\ UNCHANGED <<document, thread, store, blocks, chunks, current, rebuild, faults, overrun>>
  BY DEF IngestFails, uploading
<1>3. status \in VersionStatus \ {"absent"}
  BY DEF VersionStatus
<1>4. version' \in [Versions -> Version] /\ Evolves /\ AbsentInv' /\ BlocksInv' /\ ReadyInv'
  BY <1>1, <1>2, <1>3, StatusStep
<1>5. worker' \in [Workers -> Worker] /\ WorkerInv'
  BY <1>2, <1>4, ProceedsMoves
<1>6. /\ job' \in [Versions -> Job]
      /\ \A x \in Versions : Workable(job'[x]) => Good(x)
  BY <1>1, <1>2, EndsStep DEF IInv, TypeOK, JobInv
<1>7. JobInv'
  BY <1>2, <1>4, <1>6, JobsStay DEF IInv, JobInv
<1>. QED  BY <1>2, <1>4, <1>5, <1>6, <1>7 DEF IInv, TypeOK

LEMMA RequestRebuildStep ==
    ASSUME IInv, NEW v \in Versions, RequestRebuild(v)
    PROVE  IInv'
<1>1. /\ rebuild' = [rebuild EXCEPT ![v] = [rebuild[v] EXCEPT !.status = "queued"]]
      /\ UNCHANGED <<uploading, version, job, blocks, chunks, current, worker, faults, overrun>>
  BY DEF RequestRebuild, rows, IInv, TypeOK
<1>2. Good(v)
  BY DEF RequestRebuild, IInv, ReadyInv
<1>3. /\ Evolves
      /\ \A x \in Versions : Workable(job[x]) => Good(x)
      /\ \A x \in Versions : Workable(rebuild[x]) => Good(x)
      /\ job \in [Versions -> Job] /\ rebuild \in [Versions -> Job]
      /\ faults \in Nat /\ overrun \subseteq Versions
  BY <1>1, RowsStay DEF uploading
<1>4. ASSUME NEW j \in Job
      PROVE  [j EXCEPT !.status = "queued"] \in Job
  BY DEF Job
<1>5. /\ rebuild' \in [Versions -> Job]
      /\ \A x \in Versions \ {v} : rebuild'[x] = rebuild[x]
  BY <1>1, <1>3, <1>4
<1>6. \A x \in Versions : Workable(job'[x]) \/ Workable(rebuild'[x]) => Good(x)
  BY <1>1, <1>2, <1>3, <1>5
<1>7. worker' \in [Workers -> Worker] /\ WorkerInv'
  BY <1>1, <1>3, WorkersStay
<1>. QED  BY <1>1, <1>3, <1>5, <1>6, <1>7, JobStep

LEMMA RebuildFailsStep ==
    ASSUME IInv, NEW w \in Workers, NEW v \in Versions, RebuildFails(w, v)
    PROVE  IInv'
<1>1. Good(v)
  BY LoadedIsGood DEF RebuildFails
<1>2. /\ rebuild' = Ends(rebuild, v, "failed") /\ Proceeds(w)
      /\ UNCHANGED <<uploading, version, job, blocks, chunks, current, faults, overrun>>
  BY DEF RebuildFails, rows
<1>3. /\ Evolves
      /\ \A x \in Versions : Workable(job[x]) => Good(x)
      /\ \A x \in Versions : Workable(rebuild[x]) => Good(x)
      /\ job \in [Versions -> Job] /\ rebuild \in [Versions -> Job]
      /\ faults \in Nat /\ overrun \subseteq Versions
  BY <1>2, RowsStay DEF uploading
<1>4. /\ rebuild' \in [Versions -> Job]
      /\ \A x \in Versions : Workable(rebuild'[x]) => Good(x)
  BY <1>1, <1>2, <1>3, EndsStep
<1>5. worker' \in [Workers -> Worker] /\ WorkerInv'
  BY <1>2, <1>3, ProceedsMoves
<1>. QED  BY <1>2, <1>3, <1>4, <1>5, JobStep

LEMMA RebuildCommitStep ==
    ASSUME IInv, NEW w \in Workers, NEW v \in Versions, NEW n \in Nat,
           RebuildCommit(w, v, n)
    PROVE  IInv'
<1>1. Good(v)
  BY LoadedIsGood DEF RebuildCommit
<1>2. /\ chunks' = [chunks EXCEPT ![v] = Reindexed(chunks[v], worker[w].doomed, n)]
      /\ rebuild' = Ends(rebuild, v, "completed") /\ Proceeds(w)
      /\ UNCHANGED <<document, thread, store, version, job, blocks, current, faults, overrun>>
  BY DEF RebuildCommit, uploading
<1>3. chunks \in [Versions -> SUBSET Chunk] /\ Batches \in Nat
  BY SourcesAssumption DEF IInv, TypeOK
<1>4. Reindexed(chunks[v], worker[w].doomed, n) \subseteq Chunk
  BY <1>3 DEF Reindexed, Embedded, Chunk
<1>5. chunks' \in [Versions -> SUBSET Chunk]
  BY <1>2, <1>3, <1>4
<1>6. ASSUME NEW b \in 1..Batches
      PROVE  \E c \in chunks'[v] : c[1] = b
  <2>1. <<b, n>> \in Reindexed(chunks[v], worker[w].doomed, n)
    BY DEF Reindexed, Embedded
  <2>. QED  BY <1>2, <1>3, <2>1
<1>7. \A x \in Versions \ {v} : chunks'[x] = chunks[x]
  BY <1>2, <1>3
<1>8. Evolves
  BY <1>2, <1>6, <1>7 DEF Evolves, Good, Readable, Covered
<1>9. AbsentInv' /\ BlocksInv'
  BY <1>2 DEF IInv, AbsentInv, Present, BlocksInv, Readable
<1>10. ReadyInv'
  BY <1>2, <1>8 DEF IInv, ReadyInv, Evolves
<1>11. worker' \in [Workers -> Worker] /\ WorkerInv'
  BY <1>2, <1>8, ProceedsMoves
<1>12. /\ rebuild' \in [Versions -> Job]
       /\ \A x \in Versions : Workable(rebuild'[x]) => Good(x)
  BY <1>1, <1>2, EndsStep DEF IInv, TypeOK, JobInv
<1>13. JobInv'
  BY <1>2, <1>8, <1>12, JobsStay DEF IInv, JobInv
<1>. QED  BY <1>2, <1>5, <1>9, <1>10, <1>11, <1>12, <1>13 DEF IInv, TypeOK

-----------------------------------------------------------------------------
(* The specification *)

LEMMA Initially == Init => IInv
<1>. SUFFICES ASSUME Init
              PROVE  IInv
  OBVIOUS
<1>1. NoJob \in Job /\ ~Workable(NoJob)
  BY DEF NoJob, Job, Workable
<1>2. [status |-> "absent", hash |-> Nothing] \in Version
  BY DEF Version, VersionStatus
<1>3. [pc |-> "idle", version |-> Nothing] \in Thread
  BY DEF Thread
<1>4. TypeOK
  BY <1>1, <1>2, <1>3, RestingIsWorker, SourcesAssumption DEF Init, TypeOK
<1>5. AbsentInv /\ BlocksInv /\ ReadyInv /\ JobInv
  BY <1>1 DEF Init, AbsentInv, BlocksInv, ReadyInv, JobInv
<1>6. WorkerInv
  BY RestingIsWorker DEF Init, WorkerInv
<1>. QED  BY <1>4, <1>5, <1>6 DEF IInv

LEMMA Step == IInv /\ Next => IInv'
<1>. SUFFICES ASSUME IInv, Next
              PROVE  IInv'
  OBVIOUS
<1>1. CASE UploadNext
  BY <1>1, UploadReadStep, UploadPutStep, UploadReadyStep, UploadFailsStep,
     UploadStallsStep, UploadAbandonedStep DEF UploadNext
<1>2. CASE \E v \in Versions : Requeue(v) \/ RequestRebuild(v)
  BY <1>2, RequeueStep, RequestRebuildStep
<1>3. CASE \E w \in Ingesters : IngestStep(w)
  <2>. SUFFICES ASSUME NEW w \in Workers, IngestStep(w)
                PROVE  IInv'
    BY <1>3 DEF Workers
  <2>. QED  BY IngestClaimStep, IngestLoadStep, IngestReadyStep, IngestFailsStep
            DEF IngestStep
<1>4. CASE \E w \in Indexers : RebuildStep(w)
  <2>. SUFFICES ASSUME NEW w \in Workers, RebuildStep(w)
                PROVE  IInv'
    BY <1>4 DEF Workers
  <2>1. worker[w].batch \subseteq Versions \X Nat
    BY DEF IInv, TypeOK, Worker
  <2>2. CASE \E batch \in SUBSET Versions : RebuildClaim(w, batch)
    BY <2>2, RebuildClaimStep
  <2>3. ASSUME NEW j \in worker[w].batch,
               RebuildDelete(w, j) \/ RebuildCommit(w, j[1], j[2]) \/ RebuildFails(w, j[1])
        PROVE  IInv'
    <3>1. j[1] \in Versions /\ j[2] \in Nat
      BY <2>1
    <3>. QED  BY <2>3, <3>1, RebuildDeleteStep, RebuildCommitStep, RebuildFailsStep
  <2>. QED  BY <2>2, <2>3 DEF RebuildStep
<1>5. CASE \E w \in Workers : WorkerDies(w)
  BY <1>5, WorkerDiesStep
<1>6. CASE Expiry
  BY <1>6, LeaseEndsStep DEF Expiry
<1>. QED  BY <1>1, <1>2, <1>3, <1>4, <1>5, <1>6 DEF Next

LEMMA Invariance == Spec => []IInv
<1>1. IInv /\ UNCHANGED vars => IInv'
  <2>. SUFFICES ASSUME IInv, UNCHANGED vars
                PROVE  IInv'
    OBVIOUS
  <2>1. UNCHANGED <<document, thread, store, rows, rebuild, worker, faults, overrun>>
    BY DEF vars, uploading
  <2>. QED  BY <2>1, RequestStep DEF IInv, TypeOK
<1>. QED  BY <1>1, Initially, Step, PTL DEF Spec

\* Rows and what processes have read keep their types (upload_source and the
\* workers of sources.py).
THEOREM SourcesTypeCorrect == Spec => []TypeOK
<1>1. IInv => TypeOK
  BY DEF IInv
<1>. QED  BY <1>1, Invariance, PTL

\* Passages come from the bytes whose hash the version records, whatever the
\* store holds (upload_source and process_ingestion_job).
THEOREM PassagesAreTheirOwn == Spec => []PassagesMatchHash
<1>1. IInv => PassagesMatchHash
  BY DEF IInv, BlocksInv, PassagesMatchHash
<1>. QED  BY <1>1, Invariance, PTL

\* What is served was readable and passed the scanner (process_ingestion_job).
THEOREM ServedIsSafe == Spec => []UnsafeNeverServed
<1>1. IInv => UnsafeNeverServed
  BY DEF IInv, BlocksInv, ReadyInv, Good, Readable, UnsafeNeverServed
<1>. QED  BY <1>1, Invariance, PTL

\* A ready version has every chunk of its index, through any rebuilds
\* (replace_source_version_index).
THEOREM ReadyMeansIndexed == Spec => []ReadyIndexed
<1>1. IInv => ReadyIndexed
  BY DEF IInv, ReadyInv, Good, Covered, ReadyIndexed
<1>. QED  BY <1>1, Invariance, PTL
-----------------------------------------------------------------------------
(* Each chunk once *)

\* While no rebuild of its version has outlasted a lease, a job in the batch
\* of an index worker is that worker's only, and under lease.
HoldInv ==
    \A w \in Indexers : \A j \in worker[w].batch : j[1] \notin overrun =>
        /\ rebuild[j[1]].status = "running" /\ rebuild[j[1]].lease = "held"
        /\ \A o \in Indexers : \A k \in worker[o].batch : k[1] = j[1] => o = w /\ k = j

\* What its worker is about to delete is all there is.
DoomedInv ==
    \A w \in Indexers : worker[w].pc = "loaded" /\ worker[w].item[1] \notin overrun =>
        worker[w].doomed = chunks[worker[w].item[1]]

Once(cs) == \A c, d \in cs : c[1] = d[1] => c = d

ExactInv ==
    /\ HoldInv
    /\ DoomedInv
    /\ \A v \in Versions : ~Present(v) => chunks[v] = {}
    /\ \A v \in Versions \ overrun : Once(chunks[v])

\* A step after which no index worker has a new job, and what a job that it
\* still has is about is as it was.
LEMMA ExactKept ==
    ASSUME IInv, IInv', ExactInv,
           overrun \subseteq overrun',
           \A o \in Indexers : worker'[o].batch \subseteq worker[o].batch,
           \A v \in Versions \ overrun' :
              \/ rebuild'[v] = rebuild[v]
              \/ \A o \in Indexers : \A k \in worker'[o].batch : k[1] # v,
           \A o \in Indexers : worker'[o].pc = "loaded" =>
              \/ /\ worker'[o] = worker[o]
                 /\ worker[o].item[1] \notin overrun' =>
                        chunks'[worker[o].item[1]] = chunks[worker[o].item[1]]
              \/ worker'[o].doomed = chunks'[worker'[o].item[1]],
           \A v \in Versions : version'[v].status = "absent" => chunks'[v] = {},
           \A v \in Versions \ overrun' : chunks'[v] = chunks[v] \/ Once(chunks'[v])
    PROVE  ExactInv'
<1>1. ASSUME NEW w \in Indexers, NEW j \in worker'[w].batch, j[1] \notin overrun'
      PROVE  /\ rebuild'[j[1]].status = "running" /\ rebuild'[j[1]].lease = "held"
             /\ \A o \in Indexers : \A k \in worker'[o].batch : k[1] = j[1] => o = w /\ k = j
  <2>1. j \in worker[w].batch /\ j[1] \notin overrun
    BY <1>1
  <2>2. worker'[w] \in Worker
    BY DEF IInv, TypeOK, Workers
  <2>3. j[1] \in Versions
    BY <2>2 DEF Worker
  <2>4. rebuild'[j[1]] = rebuild[j[1]]
    BY <1>1, <2>3
  <2>. QED  BY <2>1, <2>4 DEF ExactInv, HoldInv
<1>2. HoldInv'
  BY <1>1 DEF HoldInv
<1>3. DoomedInv'
  <2>. SUFFICES ASSUME NEW w \in Indexers, worker'[w].pc = "loaded",
                       worker'[w].item[1] \notin overrun'
                PROVE  worker'[w].doomed = chunks'[worker'[w].item[1]]
    BY DEF DoomedInv
  <2>. QED  BY DEF ExactInv, DoomedInv
<1>. QED  BY <1>2, <1>3 DEF ExactInv, Present

\* Nothing that index workers share is touched.
LEMMA ExactUntouched ==
    ASSUME IInv, IInv', ExactInv,
           \A o \in Indexers : worker'[o] = worker[o],
           \A v \in Versions : version'[v].status = "absent" => version[v].status = "absent",
           UNCHANGED <<rebuild, chunks, overrun>>
    PROVE  ExactInv'
<1>1. \A v \in Versions : version'[v].status = "absent" => chunks'[v] = {}
  BY DEF ExactInv, Present
<1>. QED  BY <1>1, ExactKept

\* Index workers are not ingestion workers.
LEMMA OthersStay ==
    ASSUME IInv, NEW w \in Ingesters, NEW q, worker' = [worker EXCEPT ![w] = q]
    PROVE  \A o \in Indexers : worker'[o] = worker[o]
BY SourcesAssumption DEF IInv, TypeOK, Workers

LEMMA ExactInsert ==
    ASSUME IInv, IInv', ExactInv, NEW u \in Uploads, NEW v \in Versions, NEW n \in Nat,
           NEW status, NEW jobStatus, Inserts(u, v), Row(v, u, status, jobStatus),
           status # "absent",
           Normalized(v, u, n) \/ UNCHANGED chunks,
           UNCHANGED <<rebuild, worker, overrun>>
    PROVE  ExactInv'
<1>1. /\ version' = [version EXCEPT ![v] = [status |-> status, hash |-> u]]
      /\ version \in [Versions -> Version] /\ chunks \in [Versions -> SUBSET Chunk]
  BY DEF Row, IInv, TypeOK
<1>2. chunks[v] = {} /\ ~Good(v)
  BY SourcesAssumption DEF Inserts, ExactInv, IInv, AbsentInv, Good
<1>3. \A x \in Versions \ {v} : chunks'[x] = chunks[x] /\ version'[x] = version[x]
  BY <1>1 DEF Normalized
<1>4. chunks'[v] = {} \/ chunks'[v] = Embedded(n, 0)
  BY <1>1, <1>2 DEF Normalized
<1>5. Once(chunks'[v])
  BY <1>4 DEF Once, Embedded
<1>6. \A x \in Versions : version'[x].status = "absent" => chunks'[x] = {}
  BY <1>1, <1>3 DEF ExactInv, Present
<1>7. ASSUME NEW o \in Indexers, worker[o].pc = "loaded"
      PROVE  chunks'[worker[o].item[1]] = chunks[worker[o].item[1]]
  <2>1. worker[o].item \in Versions \X Nat /\ Good(worker[o].item[1])
    BY <1>7, LoadedIsGood DEF Workers
  <2>2. worker[o].item[1] \in Versions \ {v}
    BY <1>2, <2>1
  <2>. QED  BY <1>3, <2>2
<1>. QED  BY <1>3, <1>5, <1>6, <1>7, ExactKept

LEMMA ExactUpload ==
    ASSUME IInv, IInv', ExactInv, UploadNext
    PROVE  ExactInv'
<1>1. ASSUME NEW u \in Uploads, NEW s \in Sources, NEW n \in 1..MaxVersions,
             UploadRead(u, s, n)
      PROVE  ExactInv'
  BY <1>1, ExactUntouched DEF UploadRead, rows
<1>2. ASSUME NEW u \in Uploads, UploadPut(u) \/ UploadAbandoned(u)
      PROVE  ExactInv'
  BY <1>2, ExactUntouched DEF UploadPut, UploadAbandoned, rows
<1>3. ASSUME NEW u \in Uploads, NEW v \in Versions, UploadReady(u, v)
      PROVE  ExactInv'
  <2>1. Batches \in Nat
    BY SourcesAssumption
  <2>. QED  BY <1>3, <2>1, ExactInsert DEF UploadReady
<1>4. ASSUME NEW u \in Uploads, NEW v \in Versions, NEW status \in {"failed", "quarantined"},
             UploadFails(u, v, status)
      PROVE  ExactInv'
  <2>1. 0 \in Nat /\ status # "absent"
    OBVIOUS
  <2>. QED  BY <1>4, <2>1, ExactInsert DEF UploadFails
<1>5. ASSUME NEW u \in Uploads, NEW v \in Versions, NEW n \in 0..(Batches - 1),
             UploadStalls(u, v, n)
      PROVE  ExactInv'
  <2>1. n \in Nat
    OBVIOUS
  <2>. QED  BY <1>5, <2>1, ExactInsert DEF UploadStalls
<1>. QED  BY <1>1, <1>2, <1>3, <1>4, <1>5 DEF UploadNext

\* A good version has a row.
LEMMA GoodIsPresent ==
    ASSUME IInv, NEW v \in Versions, Good(v)
    PROVE  Present(v) /\ blocks[v] # Nothing
BY SourcesAssumption DEF IInv, AbsentInv, Good

LEMMA ExactIngest ==
    ASSUME IInv, IInv', ExactInv, NEW w \in Ingesters, IngestStep(w)
    PROVE  ExactInv'
<1>1. w \in Workers /\ worker \in [Workers -> Worker] /\ version \in [Versions -> Version]
  BY DEF Workers, IInv, TypeOK
<1>2. ASSUME NEW batch \in SUBSET Versions, IngestClaim(w, batch)
      PROVE  ExactInv'
  <2>1. \A o \in Indexers : worker'[o] = worker[o]
    BY <1>2, OthersStay DEF IngestClaim, Takes
  <2>. QED  BY <1>2, <2>1, ExactUntouched DEF IngestClaim
<1>3. ASSUME NEW j \in worker[w].batch, IngestLoad(w, j)
      PROVE  ExactInv'
  <2>1. \A o \in Indexers : worker'[o] = worker[o]
    BY <1>1, <1>3, SourcesAssumption DEF IngestLoad, Workers
  <2>. QED  BY <1>3, <2>1, ExactUntouched DEF IngestLoad, rows
<1>4. ASSUME NEW v \in Versions, IngestReady(w, v)
      PROVE  ExactInv'
  <2>1. Present(v) /\ blocks[v] # Nothing
    BY <1>1, <1>4, LoadedIsGood, GoodIsPresent DEF IngestReady
  <2>2. UNCHANGED <<rebuild, chunks, overrun>>
    BY <1>4, <2>1 DEF IngestReady
  <2>3. \A o \in Indexers : worker'[o] = worker[o]
    BY <1>4, OthersStay DEF IngestReady, Proceeds
  <2>4. \A x \in Versions : version'[x].status = "absent" => version[x].status = "absent"
    BY <1>1, <1>4 DEF IngestReady
  <2>. QED  BY <2>2, <2>3, <2>4, ExactUntouched
<1>5. ASSUME NEW v \in Versions, NEW status \in {"failed", "quarantined"},
             IngestFails(w, v, status)
      PROVE  ExactInv'
  <2>1. UNCHANGED <<rebuild, chunks, overrun>>
    BY <1>5 DEF IngestFails
  <2>2. \A o \in Indexers : worker'[o] = worker[o]
    BY <1>5, OthersStay DEF IngestFails, Proceeds
  <2>3. \A x \in Versions : version'[x].status = "absent" => version[x].status = "absent"
    BY <1>1, <1>5 DEF IngestFails
  <2>. QED  BY <2>1, <2>2, <2>3, ExactUntouched
<1>. QED  BY <1>2, <1>3, <1>4, <1>5 DEF IngestStep

\* Claimed jobs are in no other batch, unless a rebuild outlasted its lease.
LEMMA ExactClaim ==
    ASSUME IInv, IInv', ExactInv, NEW w \in Indexers, NEW batch \in SUBSET Versions,
           RebuildClaim(w, batch)
    PROVE  ExactInv'
<1>1. /\ worker \in [Workers -> Worker] /\ rebuild \in [Versions -> Job] /\ w \in Workers
      /\ \A o \in Workers : worker'[o].batch \subseteq Versions \X Nat
  BY DEF IInv, TypeOK, Workers, Worker
<1>2. /\ rebuild' = Claimed(rebuild, batch)
      /\ \A v \in batch : Claimable(rebuild, v)
      /\ UNCHANGED <<version, chunks, overrun>>
  BY DEF RebuildClaim, Takes, rows
<1>3. \A v \in Versions :
        rebuild'[v] = IF v \in batch
                      THEN [status |-> "running", attempts |-> rebuild[v].attempts + 1,
                            lease |-> "held"]
                      ELSE rebuild[v]
  BY <1>2 DEF Claimed
<1>4. /\ worker'[w].batch = {<<v, rebuild[v].attempts + 1>> : v \in batch}
      /\ worker'[w].pc = "claimed"
      /\ \A o \in Indexers \ {w} : worker'[o] = worker[o]
  BY <1>1 DEF RebuildClaim, Takes, Resting, Workers
<1>5. ASSUME NEW o \in Indexers \ {w}, NEW k \in worker[o].batch, k[1] \notin overrun
      PROVE  k[1] \notin batch
  BY <1>2, <1>5 DEF ExactInv, HoldInv, Claimable
<1>6. HoldInv'
  <2>. SUFFICES ASSUME NEW x \in Indexers, NEW j \in worker'[x].batch, j[1] \notin overrun
                PROVE  /\ rebuild'[j[1]].status = "running" /\ rebuild'[j[1]].lease = "held"
                       /\ \A o \in Indexers : \A k \in worker'[o].batch :
                            k[1] = j[1] => o = x /\ k = j
    BY <1>2 DEF HoldInv
  <2>1. j[1] \in Versions
    BY <1>1 DEF Workers
  <2>2. CASE x = w
    <3>1. j[1] \in batch
      BY <1>4, <2>2
    <3>2. rebuild'[j[1]].status = "running" /\ rebuild'[j[1]].lease = "held"
      <4>1. PICK v \in Versions : v = j[1] /\ v \in batch
        BY <2>1, <3>1
      <4>2. rebuild'[v] = [status |-> "running", attempts |-> rebuild[v].attempts + 1,
                           lease |-> "held"]
        BY <1>3, <4>1
      <4>3. rebuild'[v].status = "running" /\ rebuild'[v].lease = "held"
        BY <4>2
      <4>. QED  BY <4>1, <4>3
    <3>3. ASSUME NEW o \in Indexers, NEW k \in worker'[o].batch, k[1] = j[1]
          PROVE  o = x /\ k = j
      <4>1. o = w
        BY <1>4, <1>5, <3>1, <3>3
      <4>2. k = <<k[1], rebuild[k[1]].attempts + 1>> /\ j = <<j[1], rebuild[j[1]].attempts + 1>>
        BY <1>4, <2>2, <4>1
      <4>. QED  BY <2>2, <3>3, <4>1, <4>2
    <3>. QED  BY <3>2, <3>3
  <2>3. CASE x # w
    <3>1. j \in worker[x].batch /\ j[1] \notin batch
      BY <1>4, <1>5, <2>3
    <3>2. rebuild'[j[1]] = rebuild[j[1]]
      BY <1>3, <2>1, <3>1
    <3>3. ASSUME NEW o \in Indexers, NEW k \in worker'[o].batch, k[1] = j[1]
          PROVE  o = x /\ k = j
      <4>1. o # w
        BY <1>4, <3>1, <3>3
      <4>. QED  BY <1>4, <3>1, <3>3, <4>1 DEF ExactInv, HoldInv
    <3>. QED  BY <3>1, <3>2, <3>3 DEF ExactInv, HoldInv
  <2>. QED  BY <2>2, <2>3
<1>7. DoomedInv'
  BY <1>2, <1>4 DEF ExactInv, DoomedInv
<1>. QED  BY <1>2, <1>6, <1>7 DEF ExactInv, Present

\* A worker ends the job it has loaded, and leaves its batch to the next.
LEMMA ExactEnds ==
    ASSUME IInv, IInv', ExactInv, NEW w \in Indexers, NEW v \in Versions,
           NEW status \in {"completed", "failed"},
           worker[w].pc = "loaded", v = worker[w].item[1],
           rebuild' = Ends(rebuild, v, status), Proceeds(w),
           \A x \in Versions \ {v} : chunks'[x] = chunks[x],
           v \notin overrun => chunks'[v] = chunks[v] \/ Once(chunks'[v]),
           UNCHANGED <<version, overrun>>
    PROVE  ExactInv'
<1>1. /\ worker \in [Workers -> Worker] /\ rebuild \in [Versions -> Job] /\ w \in Workers
      /\ worker[w].item \in worker[w].batch
  BY DEF IInv, TypeOK, WorkerInv, Workers
<1>2. /\ worker'[w].batch = worker[w].batch \ {worker[w].item}
      /\ worker'[w].pc \in {"idle", "claimed"}
      /\ \A o \in Indexers \ {w} : worker'[o] = worker[o]
  <2>. DEFINE rest == worker[w].batch \ {worker[w].item}
              pc == IF rest = {} THEN "idle" ELSE "claimed"
              next == [Resting EXCEPT !.pc = pc, !.batch = rest]
  <2>1. worker' = [worker EXCEPT ![w] = next]
    BY DEF Proceeds
  <2>2. next.pc = pc /\ next.batch = rest
    BY DEF Resting
  <2>. HIDE DEF next
  <2>3. worker'[w] = next /\ \A o \in Indexers \ {w} : worker'[o] = worker[o]
    BY <1>1, <2>1 DEF Workers
  <2>. QED  BY <2>2, <2>3
<1>3. ASSUME v \notin overrun, NEW o \in Indexers, NEW k \in worker'[o].batch
      PROVE  k[1] # v
  <2>1. CASE o = w
    BY <1>1, <1>2, <1>3, <2>1 DEF ExactInv, HoldInv
  <2>2. CASE o # w
    BY <1>1, <1>2, <1>3, <2>2 DEF ExactInv, HoldInv
  <2>. QED  BY <2>1, <2>2
<1>4. \A x \in Versions \ {v} : rebuild'[x] = rebuild[x]
  BY <1>1 DEF Ends
<1>5. \A o \in Indexers : worker'[o].batch \subseteq worker[o].batch
  BY <1>2
<1>6. ASSUME NEW o \in Indexers, worker'[o].pc = "loaded"
      PROVE  /\ worker'[o] = worker[o]
             /\ worker[o].item[1] \notin overrun' =>
                    chunks'[worker[o].item[1]] = chunks[worker[o].item[1]]
  <2>1. o # w /\ worker'[o] = worker[o]
    BY <1>2, <1>6
  <2>2. worker[o].item \in worker[o].batch /\ worker[o].item[1] \in Versions
    BY <1>6, <2>1, LoadedIsGood DEF IInv, WorkerInv, Workers
  <2>3. worker[o].item[1] \notin overrun => worker[o].item[1] # v
    BY <1>1, <2>1, <2>2 DEF ExactInv, HoldInv
  <2>. QED  BY <2>1, <2>2, <2>3
<1>7. Present(v)
  BY <1>1, LoadedIsGood, GoodIsPresent
<1>8. \A x \in Versions : version'[x].status = "absent" => chunks'[x] = {}
  BY <1>7 DEF ExactInv, Present
<1>9. \A x \in Versions \ overrun' :
        \/ rebuild'[x] = rebuild[x]
        \/ \A o \in Indexers : \A k \in worker'[o].batch : k[1] # x
  BY <1>3, <1>4
<1>10. \A x \in Versions \ overrun' : chunks'[x] = chunks[x] \/ Once(chunks'[x])
  OBVIOUS
<1>. QED  BY <1>5, <1>6, <1>8, <1>9, <1>10, ExactKept

LEMMA ExactRebuild ==
    ASSUME IInv, IInv', ExactInv, NEW w \in Indexers, RebuildStep(w)
    PROVE  ExactInv'
<1>1. /\ w \in Workers /\ worker \in [Workers -> Worker] /\ Batches \in Nat
      /\ chunks \in [Versions -> SUBSET Chunk] /\ worker[w].batch \subseteq Versions \X Nat
  BY SourcesAssumption DEF Workers, IInv, TypeOK, Worker
<1>2. ASSUME NEW batch \in SUBSET Versions, RebuildClaim(w, batch)
      PROVE  ExactInv'
  BY <1>2, ExactClaim
<1>3. ASSUME NEW j \in worker[w].batch, RebuildDelete(w, j)
      PROVE  ExactInv'
  <2>. DEFINE next == [worker[w] EXCEPT !.pc = "loaded", !.item = j, !.doomed = chunks[j[1]]]
  <2>1. /\ worker' = [worker EXCEPT ![w] = next]
        /\ UNCHANGED <<version, chunks, rebuild, overrun>>
    BY <1>1, <1>3 DEF RebuildDelete, rows
  <2>2. next.batch = worker[w].batch /\ next.item = j /\ next.doomed = chunks[j[1]]
    BY <1>1 DEF Worker
  <2>. HIDE DEF next
  <2>3. worker'[w] = next /\ \A o \in Indexers \ {w} : worker'[o] = worker[o]
    BY <1>1, <2>1 DEF Workers
  <2>4. \A o \in Indexers : worker'[o].batch \subseteq worker[o].batch
    BY <2>2, <2>3
  <2>5. \A o \in Indexers : worker'[o].pc = "loaded" =>
            \/ worker'[o] = worker[o] /\ chunks' = chunks
            \/ worker'[o].doomed = chunks'[worker'[o].item[1]]
    BY <2>1, <2>2, <2>3
  <2>6. \A v \in Versions : version'[v].status = "absent" => chunks'[v] = {}
    BY <2>1 DEF ExactInv, Present
  <2>. QED  BY <2>1, <2>4, <2>5, <2>6, ExactKept
<1>4. ASSUME NEW j \in worker[w].batch, RebuildCommit(w, j[1], j[2])
      PROVE  ExactInv'
  <2>1. PICK v \in Versions, n \in Nat : v = j[1] /\ n = j[2]
    BY <1>1, <1>4
  <2>2. /\ worker[w].pc = "loaded" /\ v = worker[w].item[1]
        /\ chunks' = [chunks EXCEPT ![v] = Reindexed(chunks[v], worker[w].doomed, n)]
        /\ rebuild' = Ends(rebuild, v, "completed") /\ Proceeds(w)
        /\ UNCHANGED <<version, overrun>>
    BY <1>4, <2>1 DEF RebuildCommit
  <2>3. ASSUME v \notin overrun
        PROVE  Once(chunks'[v])
    <3>1. worker[w].doomed = chunks[v]
      BY <2>2, <2>3 DEF ExactInv, DoomedInv
    <3>2. chunks'[v] = Embedded(Batches, n)
      BY <1>1, <2>2, <3>1 DEF Reindexed
    <3>. QED  BY <3>2 DEF Once, Embedded
  <2>4. \A x \in Versions \ {v} : chunks'[x] = chunks[x]
    BY <1>1, <2>2
  <2>. QED  BY <2>2, <2>3, <2>4, ExactEnds
<1>5. ASSUME NEW j \in worker[w].batch, RebuildFails(w, j[1])
      PROVE  ExactInv'
  <2>1. PICK v \in Versions : v = j[1]
    BY <1>1, <1>5
  <2>2. /\ worker[w].pc = "loaded" /\ v = worker[w].item[1]
        /\ rebuild' = Ends(rebuild, v, "failed") /\ Proceeds(w)
        /\ UNCHANGED <<version, chunks, overrun>>
    BY <1>5, <2>1 DEF RebuildFails, rows
  <2>. QED  BY <2>2, ExactEnds
<1>. QED  BY <1>2, <1>3, <1>4, <1>5 DEF RebuildStep

LEMMA ExactRequests ==
    ASSUME IInv, IInv', ExactInv, NEW v \in Versions, Requeue(v) \/ RequestRebuild(v)
    PROVE  ExactInv'
<1>1. CASE Requeue(v)
  <2>1. \A x \in Versions : version'[x].status = "absent" => version[x].status = "absent"
    BY <1>1 DEF Requeue, IInv, TypeOK
  <2>. QED  BY <1>1, <2>1, ExactUntouched DEF Requeue
<1>2. CASE RequestRebuild(v)
  <2>1. /\ rebuild[v].status = "absent" /\ UNCHANGED <<version, chunks, worker, overrun>>
        /\ \A x \in Versions \ {v} : rebuild'[x] = rebuild[x]
    BY <1>2 DEF RequestRebuild, rows, IInv, TypeOK
  <2>2. v \notin overrun => \A o \in Indexers : \A k \in worker'[o].batch : k[1] # v
    BY <2>1 DEF ExactInv, HoldInv
  <2>3. \A x \in Versions : version'[x].status = "absent" => chunks'[x] = {}
    BY <2>1 DEF ExactInv, Present
  <2>. QED  BY <2>1, <2>2, <2>3, ExactKept
<1>. QED  BY <1>1, <1>2

LEMMA ExactLeases ==
    ASSUME IInv, IInv', ExactInv, NEW v \in Versions, IngestLease(v) \/ RebuildLease(v)
    PROVE  ExactInv'
<1>1. UNCHANGED <<version, chunks, worker>>
  BY DEF IngestLease, RebuildLease, LeaseEnds
<1>2. \A x \in Versions : version'[x].status = "absent" => chunks'[x] = {}
  BY <1>1 DEF ExactInv, Present
<1>3. CASE IngestLease(v)
  BY <1>1, <1>3, ExactUntouched DEF IngestLease
<1>4. CASE RebuildLease(v)
  <2>1. /\ \A x \in Versions \ {v} : rebuild'[x] = rebuild[x]
        /\ overrun' = IF Holders(Indexers, v) = {} THEN overrun ELSE overrun \union {v}
    BY <1>4 DEF RebuildLease, IInv, TypeOK
  <2>2. v \notin overrun' => \A o \in Indexers : \A k \in worker'[o].batch : k[1] # v
    BY <1>1, <2>1 DEF Holders
  <2>3. overrun \subseteq overrun'
    BY <2>1
  <2>. QED  BY <1>1, <1>2, <2>1, <2>2, <2>3, ExactKept
<1>. QED  BY <1>3, <1>4

LEMMA ExactDeath ==
    ASSUME IInv, IInv', ExactInv, NEW w \in Workers, WorkerDies(w)
    PROVE  ExactInv'
<1>1. /\ worker' = [worker EXCEPT ![w] = Resting] /\ worker \in [Workers -> Worker]
      /\ UNCHANGED <<version, chunks, rebuild, overrun>>
  BY DEF WorkerDies, rows, IInv, TypeOK
<1>2. \A o \in Workers : worker'[o] = worker[o] \/ worker'[o] = Resting
  BY <1>1
<1>3. \A o \in Indexers : worker'[o].batch \subseteq worker[o].batch
  BY <1>2, RestingIsWorker DEF Workers
<1>4. \A o \in Indexers : worker'[o].pc = "loaded" => worker'[o] = worker[o]
  BY <1>2, RestingIsWorker DEF Workers
<1>5. \A x \in Versions : version'[x].status = "absent" => chunks'[x] = {}
  BY <1>1 DEF ExactInv, Present
<1>. QED  BY <1>1, <1>3, <1>4, <1>5, ExactKept

\* A ready version has each chunk once unless a rebuild of it outlasted its
\* lease (replace_source_version_index under run_index_worker_once).
THEOREM IndexesExact == Spec => []IndexExact
<1>1. Init => ExactInv
  <2>. SUFFICES ASSUME Init
                PROVE  ExactInv
    OBVIOUS
  <2>1. HoldInv /\ DoomedInv
    BY RestingIsWorker DEF Init, HoldInv, DoomedInv, Workers
  <2>2. \A v \in Versions : chunks[v] = {}
    BY DEF Init
  <2>. QED  BY <2>1, <2>2 DEF ExactInv, Once
<1>2. IInv /\ IInv' /\ ExactInv /\ [Next]_vars => ExactInv'
  <2>. SUFFICES ASSUME IInv, IInv', ExactInv, [Next]_vars
                PROVE  ExactInv'
    OBVIOUS
  <2>1. CASE Next
    BY <2>1, ExactUpload, ExactIngest, ExactRebuild, ExactRequests, ExactLeases, ExactDeath
    DEF Next, Expiry
  <2>2. CASE UNCHANGED vars
    BY <2>2, ExactUntouched DEF vars, rows
  <2>. QED  BY <2>1, <2>2
<1>3. ExactInv => IndexExact
  BY DEF ExactInv, Once, IndexExact
<1>. QED  BY <1>1, <1>2, <1>3, Invariance, PTL DEF Spec

-----------------------------------------------------------------------------
(* The pointer of a source *)

Tried(v) == job[v].attempts # 0

Touched(v) == Tried(v) \/ job[v].status = "queued"

Untouched(s) == \A n \in 1..MaxVersions : ~Touched(<<s, n>>)

\* All numbers below n of source s are taken.
TakenBelow(s, n) == \A m \in 1..MaxVersions : m < n => Present(<<s, m>>)

\* The pointer names a ready version that is not older than another.
Points(s) ==
    /\ current[s] # 0 => version[<<s, current[s]>>].status = "ready"
    /\ \A n \in 1..MaxVersions : version[<<s, n>>].status = "ready" => n <= current[s]

NoGapInv ==
    \A s \in Sources : \A n \in 1..MaxVersions : Present(<<s, n>>) => TakenBelow(s, n)

\* Numbers below one that an upload has read stay taken.
NumberInv ==
    \A u \in Uploads : thread[u].pc \in {"numbered", "stored"} =>
        \E s \in Sources : \E n \in 1..MaxVersions :
            thread[u].version = <<s, n>> /\ TakenBelow(s, n)

BatchInv == \A w \in Ingesters : \A j \in worker[w].batch : Tried(j[1])

NewestInv ==
    /\ NoGapInv
    /\ NumberInv
    /\ BatchInv
    /\ \A v \in Versions : ~Present(v) => job[v] = NoJob
    /\ \A s \in Sources : Untouched(s) => Points(s)

\* A step that inserts no version, and that touches the sources it changes.
LEMMA NewestKept ==
    ASSUME IInv, IInv', NewestInv,
           \A v \in Versions : Present(v) <=> Present(v)',
           \A u \in Uploads : \/ thread'[u] = thread[u]
                              \/ thread'[u].version = thread[u].version
                                 /\ thread[u].pc = "numbered"
                              \/ thread'[u].pc = "ended",
           \A v \in Versions : Tried(v) => Tried(v)',
           \A v \in Versions : Touched(v) => Touched(v)',
           \A w \in Ingesters : \A j \in worker'[w].batch :
              j \in worker[w].batch \/ Tried(j[1])',
           \A v \in Versions : ~Present(v) => job'[v] = job[v],
           \A s \in Sources :
              \/ /\ current'[s] = current[s]
                 /\ \A n \in 1..MaxVersions : version'[<<s, n>>] = version[<<s, n>>]
              \/ \E n \in 1..MaxVersions : Touched(<<s, n>>)'
    PROVE  NewestInv'
<1>1. \A s \in Sources : \A n \in 1..MaxVersions : <<s, n>> \in Versions
  BY DEF Versions
<1>2. \A s \in Sources : \A n \in 1..MaxVersions : TakenBelow(s, n) <=> TakenBelow(s, n)'
  BY <1>1 DEF TakenBelow
<1>3. NoGapInv'
  BY <1>1, <1>2 DEF NewestInv, NoGapInv
<1>4. NumberInv'
  <2>. SUFFICES ASSUME NEW u \in Uploads, thread'[u].pc \in {"numbered", "stored"}
                PROVE  \E s \in Sources : \E n \in 1..MaxVersions :
                          thread'[u].version = <<s, n>> /\ TakenBelow(s, n)'
    BY DEF NumberInv
  <2>1. /\ thread'[u].version = thread[u].version
        /\ thread[u].pc \in {"numbered", "stored"}
    OBVIOUS
  <2>2. PICK s \in Sources, n \in 1..MaxVersions :
            thread[u].version = <<s, n>> /\ TakenBelow(s, n)
    BY <2>1 DEF NewestInv, NumberInv
  <2>. QED  BY <1>2, <2>1, <2>2
<1>5. BatchInv'
  <2>. SUFFICES ASSUME NEW w \in Ingesters, NEW j \in worker'[w].batch
                PROVE  Tried(j[1])'
    BY DEF BatchInv
  <2>1. CASE j \in worker[w].batch
    <3>1. w \in Workers /\ worker[w] \in Worker
      BY DEF IInv, TypeOK, Workers
    <3>2. j[1] \in Versions /\ Tried(j[1])
      BY <2>1, <3>1 DEF Worker, NewestInv, BatchInv
    <3>3. PICK v \in Versions : v = j[1]
      BY <3>2
    <3>4. Tried(v)'
      BY <3>2, <3>3
    <3>. QED  BY <3>3, <3>4 DEF Tried
  <2>. QED  BY <2>1
<1>6. \A v \in Versions : ~Present(v)' => job'[v] = NoJob
  BY DEF NewestInv
<1>7. ASSUME NEW s \in Sources, Untouched(s)'
      PROVE  Points(s)'
  <2>1. /\ current'[s] = current[s]
        /\ \A n \in 1..MaxVersions : version'[<<s, n>>] = version[<<s, n>>]
    BY <1>7 DEF Untouched
  <2>2. Untouched(s)
    BY <1>1, <1>7 DEF Untouched
  <2>3. Points(s) /\ current[s] \in 0..MaxVersions
    BY <2>2 DEF NewestInv, IInv, TypeOK
  <2>. QED  BY <2>1, <2>3, SourcesAssumption DEF Points
<1>. QED  BY <1>3, <1>4, <1>5, <1>6, <1>7 DEF NewestInv

\* Only uploads do anything: rows and workers are left alone.
LEMMA NewestUntouched ==
    ASSUME IInv, IInv', NewestInv, UNCHANGED <<version, job, current, worker>>,
           \A u \in Uploads : \/ thread'[u] = thread[u]
                              \/ thread'[u].version = thread[u].version
                                 /\ thread[u].pc = "numbered"
                              \/ thread'[u].pc = "ended"
    PROVE  NewestInv'
<1>1. \A v \in Versions : (Present(v) <=> Present(v)') /\ (Tried(v) <=> Tried(v)')
                          /\ (Touched(v) <=> Touched(v)')
  BY DEF Present, Tried, Touched
<1>. QED  BY <1>1, NewestKept

\* Only workers do anything, and ingestion workers take nothing on.
LEMMA NewestWorkers ==
    ASSUME IInv, IInv', NewestInv, UNCHANGED <<version, job, current, thread>>,
           \A o \in Ingesters : worker'[o].batch \subseteq worker[o].batch
    PROVE  NewestInv'
<1>1. \A v \in Versions : (Present(v) <=> Present(v)') /\ (Tried(v) <=> Tried(v)')
                          /\ (Touched(v) <=> Touched(v)')
  BY DEF Present, Tried, Touched
<1>. QED  BY <1>1, NewestKept

LEMMA NewestRead ==
    ASSUME IInv, IInv', NewestInv, NEW u \in Uploads, NEW s \in Sources,
           NEW n \in 1..MaxVersions, UploadRead(u, s, n)
    PROVE  NewestInv'
<1>1. /\ thread' = [thread EXCEPT ![u] = [pc |-> "numbered", version |-> <<s, n>>]]
      /\ thread \in [Uploads -> Thread]
      /\ UNCHANGED <<version, job, current, worker>>
  BY DEF UploadRead, rows, IInv, TypeOK
<1>2. TakenBelow(s, n)
  <2>. SUFFICES ASSUME NEW m \in 1..MaxVersions, m < n
                PROVE  Present(<<s, m>>)
    BY DEF TakenBelow
  <2>1. n - 1 \in 1..MaxVersions /\ Present(<<s, n - 1>>) /\ m <= n - 1
    BY SourcesAssumption DEF UploadRead, NextNumber
  <2>2. CASE m = n - 1
    BY <2>1, <2>2
  <2>3. CASE m < n - 1
    BY <2>1, <2>3 DEF NewestInv, NoGapInv, TakenBelow
  <2>. QED  BY <2>1, <2>2, <2>3, SourcesAssumption
<1>3. NumberInv'
  <2>. SUFFICES ASSUME NEW o \in Uploads, thread'[o].pc \in {"numbered", "stored"}
                PROVE  \E t \in Sources : \E m \in 1..MaxVersions :
                          thread'[o].version = <<t, m>> /\ TakenBelow(t, m)
    BY <1>1 DEF NumberInv, TakenBelow, Present
  <2>1. CASE o = u
    BY <1>1, <1>2, <2>1
  <2>2. CASE o # u
    BY <1>1, <2>2 DEF NewestInv, NumberInv
  <2>. QED  BY <2>1, <2>2
<1>. QED  BY <1>1, <1>3
     DEF NewestInv, NoGapInv, TakenBelow, Present, BatchInv, Tried, Untouched, Touched, Points

LEMMA NewestInsert ==
    ASSUME IInv, IInv', NewestInv, NEW u \in Uploads, NEW v \in Versions,
           NEW status \in {"ready", "failed", "quarantined", "normalizing"},
           NEW jobStatus \in {"running", "completed", "failed"},
           Inserts(u, v), Row(v, u, status, jobStatus), UNCHANGED worker,
           current' = IF status = "ready" THEN [current EXCEPT ![v[1]] = v[2]] ELSE current
    PROVE  NewestInv'
<1>1. PICK s \in Sources, n \in 1..MaxVersions : v = <<s, n>> /\ TakenBelow(s, n)
  BY DEF Inserts, NewestInv, NumberInv
<1>2. ~Present(v) /\ job[v] = NoJob
  BY DEF Inserts, NewestInv
<1>3. /\ \A x \in Versions \ {v} : version'[x] = version[x] /\ job'[x] = job[x]
      /\ version'[v].status = status
      /\ job'[v].attempts = 0 /\ job'[v].status = jobStatus
  <2>1. /\ version' = [version EXCEPT ![v] = [status |-> status, hash |-> u]]
        /\ job' = [job EXCEPT ![v] = [NoJob EXCEPT !.status = jobStatus]]
        /\ version \in [Versions -> Version] /\ job \in [Versions -> Job]
    BY DEF Row, IInv, TypeOK
  <2>. QED  BY <2>1 DEF NoJob
<1>4. \A x \in Versions : Present(x)' <=> Present(x) \/ x = v
  BY <1>3 DEF Present
<1>5. \A t \in Sources : \A k \in 1..MaxVersions : <<t, k>> \in Versions
  BY DEF Versions
<1>6. \A t \in Sources : \A k \in 1..MaxVersions : TakenBelow(t, k) => TakenBelow(t, k)'
  BY <1>4, <1>5 DEF TakenBelow
<1>7. NoGapInv'
  <2>. SUFFICES ASSUME NEW t \in Sources, NEW k \in 1..MaxVersions, Present(<<t, k>>)'
                PROVE  TakenBelow(t, k)'
    BY DEF NoGapInv
  <2>1. Present(<<t, k>>) \/ <<t, k>> = v
    BY <1>4, <1>5
  <2>2. CASE Present(<<t, k>>)
    BY <1>6, <2>2 DEF NewestInv, NoGapInv
  <2>3. CASE <<t, k>> = v
    BY <1>1, <1>6, <2>3
  <2>. QED  BY <2>1, <2>2, <2>3
<1>8. NumberInv'
  <2>1. \A o \in Uploads : thread'[o].pc \in {"numbered", "stored"} => thread'[o] = thread[o]
    BY DEF Inserts, End, IInv, TypeOK
  <2>. SUFFICES ASSUME NEW o \in Uploads, thread'[o].pc \in {"numbered", "stored"}
                PROVE  \E t \in Sources : \E k \in 1..MaxVersions :
                          thread'[o].version = <<t, k>> /\ TakenBelow(t, k)'
    BY DEF NumberInv
  <2>2. PICK t \in Sources, k \in 1..MaxVersions :
            thread[o].version = <<t, k>> /\ TakenBelow(t, k)
    BY <2>1 DEF NewestInv, NumberInv
  <2>. QED  BY <1>6, <2>1, <2>2
<1>9. BatchInv'
  <2>. SUFFICES ASSUME NEW w \in Ingesters, NEW j \in worker[w].batch
                PROVE  Tried(j[1])'
    BY DEF BatchInv
  <2>1. j[1] \in Versions /\ Tried(j[1])
    BY DEF IInv, TypeOK, Worker, Workers, NewestInv, BatchInv
  <2>2. j[1] # v
    BY <1>2, <2>1 DEF Tried, NoJob
  <2>3. job'[j[1]] = job[j[1]]
    BY <1>3, <2>1, <2>2
  <2>. QED  BY <2>1, <2>3 DEF Tried
<1>10. \A x \in Versions : ~Present(x)' => job'[x] = NoJob
  BY <1>3, <1>4 DEF NewestInv
<1>11. ASSUME NEW t \in Sources, Untouched(t)'
       PROVE  Points(t)'
  <2>1. Untouched(t)
    <3>. SUFFICES ASSUME NEW k \in 1..MaxVersions
                  PROVE  ~Touched(<<t, k>>)
      BY DEF Untouched
    <3>1. CASE <<t, k>> = v
      BY <1>2, <3>1 DEF Touched, Tried, NoJob
    <3>2. CASE <<t, k>> # v
      BY <1>3, <1>5, <1>11, <3>2 DEF Untouched, Touched, Tried
    <3>. QED  BY <3>1, <3>2
  <2>2. Points(t) /\ current[t] \in 0..MaxVersions /\ current \in [Sources -> 0..MaxVersions]
    BY <2>1 DEF NewestInv, IInv, TypeOK
  <2>3. CASE t = s /\ status = "ready"
    <3>1. current'[t] = n
      BY <1>1, <2>2, <2>3
    <3>2. ASSUME NEW k \in 1..MaxVersions, version'[<<t, k>>].status = "ready"
          PROVE  k <= n
      <4>1. CASE <<t, k>> = v
        BY <1>1, <4>1
      <4>2. CASE <<t, k>> # v
        <5>1. Present(<<t, k>>)
          BY <1>3, <1>5, <3>2, <4>2 DEF Present
        <5>2. ~(n < k)
          BY <1>1, <1>2, <2>3, <5>1 DEF NewestInv, NoGapInv, TakenBelow
        <5>. QED  BY <5>2, SourcesAssumption
      <4>. QED  BY <4>1, <4>2
    <3>. QED  BY <1>1, <1>3, <2>3, <3>1, <3>2 DEF Points
  <2>4. CASE t # s \/ status # "ready"
    <3>1. current'[t] = current[t]
      BY <1>1, <2>2, <2>4
    <3>2. \A k \in 1..MaxVersions :
             version'[<<t, k>>].status = "ready" <=> version[<<t, k>>].status = "ready"
      BY <1>1, <1>2, <1>3, <1>5, <2>4 DEF Present
    <3>3. current[t] # 0 => current[t] \in 1..MaxVersions
      BY <2>2, SourcesAssumption
    <3>. QED  BY <2>2, <3>1, <3>2, <3>3 DEF Points
  <2>. QED  BY <2>3, <2>4
<1>. QED  BY <1>7, <1>8, <1>9, <1>10, <1>11 DEF NewestInv

LEMMA NewestUpload ==
    ASSUME IInv, IInv', NewestInv, UploadNext
    PROVE  NewestInv'
<1>0. thread \in [Uploads -> Thread]
  BY DEF IInv, TypeOK
<1>1. ASSUME NEW u \in Uploads, NEW s \in Sources, NEW n \in 1..MaxVersions,
             UploadRead(u, s, n)
      PROVE  NewestInv'
  BY <1>1, NewestRead
<1>2. ASSUME NEW u \in Uploads, UploadPut(u)
      PROVE  NewestInv'
  <2>1. \A o \in Uploads :
            \/ thread'[o] = thread[o]
            \/ /\ thread'[o].version = thread[o].version
               /\ thread[o].pc = "numbered"
    BY <1>0, <1>2 DEF UploadPut, Thread
  <2>. QED  BY <1>2, <2>1, NewestUntouched DEF UploadPut, rows
<1>3. ASSUME NEW u \in Uploads, UploadAbandoned(u)
      PROVE  NewestInv'
  <2>1. \A o \in Uploads : thread'[o] = thread[o] \/ thread'[o].pc = "ended"
    BY <1>0, <1>3 DEF UploadAbandoned, End, Thread
  <2>. QED  BY <1>3, <2>1, NewestUntouched DEF UploadAbandoned, rows
<1>4. ASSUME NEW u \in Uploads, NEW v \in Versions, UploadReady(u, v)
      PROVE  NewestInv'
  BY <1>4, NewestInsert DEF UploadReady
<1>5. ASSUME NEW u \in Uploads, NEW v \in Versions, NEW status \in {"failed", "quarantined"},
             UploadFails(u, v, status)
      PROVE  NewestInv'
  BY <1>5, NewestInsert DEF UploadFails
<1>6. ASSUME NEW u \in Uploads, NEW v \in Versions, NEW n \in 0..(Batches - 1),
             UploadStalls(u, v, n)
      PROVE  NewestInv'
  BY <1>6, NewestInsert DEF UploadStalls
<1>. QED  BY <1>1, <1>2, <1>3, <1>4, <1>5, <1>6 DEF UploadNext

\* Worker w ends a job of its batch.
LEMMA BatchShrinks ==
    ASSUME IInv, NEW w \in Workers, Proceeds(w)
    PROVE  \A o \in Workers : worker'[o].batch \subseteq worker[o].batch
<1>1. worker \in [Workers -> Worker]
  BY DEF IInv, TypeOK
<1>2. worker'[w].batch = worker[w].batch \ {worker[w].item}
  BY <1>1 DEF Proceeds, Resting
<1>3. \A o \in Workers \ {w} : worker'[o] = worker[o]
  BY <1>1 DEF Proceeds
<1>. QED  BY <1>2, <1>3

\* An ingestion worker ends the job it has loaded.
LEMMA NewestEnds ==
    ASSUME IInv, IInv', NewestInv, NEW w \in Ingesters, NEW v \in Versions,
           worker[w].pc = "loaded", v = worker[w].item[1], Proceeds(w),
           NEW status \in {"completed", "failed"}, job' = Ends(job, v, status),
           version'[v].status # "absent",
           \A x \in Versions \ {v} : version'[x] = version[x],
           \A s \in Sources \ {v[1]} : current'[s] = current[s],
           UNCHANGED thread
    PROVE  NewestInv'
<1>1. w \in Workers /\ worker[w].item \in worker[w].batch
  BY DEF IInv, WorkerInv, Workers
<1>2. Present(v) /\ Tried(v)
  BY <1>1, LoadedIsGood, GoodIsPresent DEF NewestInv, BatchInv
<1>3. /\ \A x \in Versions \ {v} : job'[x] = job[x]
      /\ job'[v].attempts = job[v].attempts
  <2>1. job \in [Versions -> Job]
    BY DEF IInv, TypeOK
  <2>2. job' = [job EXCEPT ![v] = [[job[v] EXCEPT !.status = status] EXCEPT !.lease = "none"]]
    BY <2>1 DEF Ends
  <2>3. [[job[v] EXCEPT !.status = status] EXCEPT !.lease = "none"].attempts = job[v].attempts
    BY <2>1 DEF Job
  <2>. QED  BY <2>1, <2>2, <2>3
<1>4. Tried(v)' /\ Present(v)'
  BY <1>2, <1>3 DEF Tried, Present
<1>5. \A x \in Versions \ {v} : /\ Present(x) <=> Present(x)'
                                /\ Tried(x) <=> Tried(x)'
                                /\ Touched(x) <=> Touched(x)'
  BY <1>3 DEF Present, Tried, Touched
<1>6. \A o \in Ingesters : worker'[o].batch \subseteq worker[o].batch
  BY <1>1, BatchShrinks DEF Workers
<1>7. ASSUME NEW s \in Sources
      PROVE  \/ /\ current'[s] = current[s]
                /\ \A n \in 1..MaxVersions : version'[<<s, n>>] = version[<<s, n>>]
             \/ \E n \in 1..MaxVersions : Touched(<<s, n>>)'
  <2>1. PICK t \in Sources, k \in 1..MaxVersions : v = <<t, k>>
    BY DEF Versions
  <2>2. CASE s = t
    BY <1>4, <2>1, <2>2 DEF Touched
  <2>3. CASE s # t
    BY <2>1, <2>3 DEF Versions
  <2>. QED  BY <2>2, <2>3
<1>. QED  BY <1>2, <1>3, <1>4, <1>5, <1>6, <1>7, NewestKept DEF Touched

LEMMA NewestClaim ==
    ASSUME IInv, IInv', NewestInv, NEW w \in Ingesters, NEW batch \in SUBSET Versions,
           IngestClaim(w, batch)
    PROVE  NewestInv'
<1>1. /\ worker \in [Workers -> Worker] /\ job \in [Versions -> Job] /\ w \in Workers
      /\ UNCHANGED <<version, current, thread>>
  BY DEF IInv, TypeOK, Workers, IngestClaim, uploading
<1>2. \A v \in Versions :
        job'[v] = IF v \in batch
                  THEN [status |-> "running", attempts |-> job[v].attempts + 1,
                        lease |-> "held"]
                  ELSE job[v]
  BY DEF IngestClaim, Claimed
<1>3. \A v \in Versions : job[v].attempts \in Nat
  BY <1>1 DEF Job
<1>4. ASSUME NEW v \in batch
      PROVE  Tried(v)'
  <2>1. PICK x \in Versions : x = v /\ x \in batch
    OBVIOUS
  <2>2. job'[x] = [status |-> "running", attempts |-> job[x].attempts + 1, lease |-> "held"]
    BY <1>2, <2>1
  <2>3. job'[x].attempts = job[x].attempts + 1
    BY <2>2
  <2>4. job[x].attempts \in Nat
    BY <1>3
  <2>5. job'[x].attempts # 0
    BY <2>3, <2>4
  <2>. QED  BY <2>1, <2>5 DEF Tried
<1>5. \A v \in Versions \ batch : (Tried(v) <=> Tried(v)') /\ (Touched(v) <=> Touched(v)')
  BY <1>2 DEF Tried, Touched
<1>6. \A v \in batch : Present(v)
  BY DEF IngestClaim, Takes, Claimable, NewestInv, NoJob
<1>7. \A v \in Versions : ~Present(v) => job'[v] = job[v]
  BY <1>2, <1>6
<1>8. ASSUME NEW o \in Ingesters, NEW j \in worker'[o].batch
      PROVE  j \in worker[o].batch \/ Tried(j[1])'
  <2>1. CASE o = w
    <3>1. worker'[w].batch = {<<v, job[v].attempts + 1>> : v \in batch}
      BY <1>1 DEF IngestClaim, Takes, Resting
    <3>2. j[1] \in batch
      BY <1>8, <2>1, <3>1
    <3>3. PICK v \in batch : v = j[1]
      BY <3>2
    <3>. QED  BY <1>4, <3>3 DEF Tried
  <2>2. CASE o # w
    BY <1>1, <1>8, <2>2 DEF IngestClaim, Takes, Workers
  <2>. QED  BY <2>1, <2>2
<1>9. \A v \in Versions : Present(v) <=> Present(v)'
  BY <1>1 DEF Present
<1>10. \A s \in Sources : /\ current'[s] = current[s]
                          /\ \A n \in 1..MaxVersions : version'[<<s, n>>] = version[<<s, n>>]
  BY <1>1
<1>. QED  BY <1>1, <1>4, <1>5, <1>7, <1>8, <1>9, <1>10, NewestKept DEF Touched

LEMMA NewestIngest ==
    ASSUME IInv, IInv', NewestInv, NEW w \in Ingesters, IngestStep(w)
    PROVE  NewestInv'
<1>1. w \in Workers /\ worker \in [Workers -> Worker] /\ version \in [Versions -> Version]
  BY DEF Workers, IInv, TypeOK
<1>2. ASSUME NEW batch \in SUBSET Versions, IngestClaim(w, batch)
      PROVE  NewestInv'
  BY <1>2, NewestClaim
<1>3. ASSUME NEW j \in worker[w].batch, IngestLoad(w, j)
      PROVE  NewestInv'
  <2>1. \A o \in Ingesters : worker'[o].batch = worker[o].batch
    BY <1>1, <1>3 DEF IngestLoad, Worker, Workers
  <2>2. UNCHANGED <<version, job, current, thread>>
    BY <1>3 DEF IngestLoad, rows, uploading
  <2>. QED  BY <2>1, <2>2, NewestWorkers
<1>4. ASSUME NEW v \in Versions, IngestReady(w, v)
      PROVE  NewestInv'
  <2>1. /\ worker[w].pc = "loaded" /\ v = worker[w].item[1] /\ Proceeds(w)
        /\ job' = Ends(job, v, "completed") /\ UNCHANGED thread
        /\ current' = [current EXCEPT ![v[1]] = v[2]]
        /\ version' = version \/ version' = [version EXCEPT ![v].status = "ready"]
    BY <1>4 DEF IngestReady, uploading
  <2>2. version[v].status # "absent"
    BY <1>1, <2>1, LoadedIsGood, GoodIsPresent DEF Present
  <2>3. /\ version'[v].status # "absent"
        /\ \A x \in Versions \ {v} : version'[x] = version[x]
    BY <1>1, <2>1, <2>2 DEF Version
  <2>4. \A s \in Sources \ {v[1]} : current'[s] = current[s]
    BY <2>1 DEF IInv, TypeOK
  <2>. QED  BY <2>1, <2>3, <2>4, NewestEnds
<1>5. ASSUME NEW v \in Versions, NEW status \in {"failed", "quarantined"},
             IngestFails(w, v, status)
      PROVE  NewestInv'
  <2>1. /\ worker[w].pc = "loaded" /\ v = worker[w].item[1] /\ Proceeds(w)
        /\ job' = Ends(job, v, "failed") /\ UNCHANGED <<thread, current>>
        /\ version' = [version EXCEPT ![v].status = status]
    BY <1>5 DEF IngestFails, uploading
  <2>2. /\ version'[v].status # "absent"
        /\ \A x \in Versions \ {v} : version'[x] = version[x]
    BY <1>1, <2>1 DEF Version
  <2>. QED  BY <2>1, <2>2, NewestEnds
<1>. QED  BY <1>2, <1>3, <1>4, <1>5 DEF IngestStep

\* Rebuilds and requests for them touch no row that uploads or ingestion do.
LEMMA NewestRebuild ==
    ASSUME IInv, IInv', NewestInv, NEW w \in Indexers, RebuildStep(w)
    PROVE  NewestInv'
<1>1. UNCHANGED <<version, job, current, thread>>
  BY DEF RebuildStep, RebuildClaim, RebuildDelete, RebuildCommit, RebuildFails, rows, uploading
<1>2. PICK q : worker' = [worker EXCEPT ![w] = q]
  BY DEF RebuildStep, RebuildClaim, Takes, RebuildDelete, RebuildCommit, RebuildFails, Proceeds
<1>3. \A o \in Ingesters : worker'[o] = worker[o]
  BY <1>2, SourcesAssumption DEF IInv, TypeOK, Workers
<1>. QED  BY <1>1, <1>3, NewestWorkers

LEMMA NewestRequests ==
    ASSUME IInv, IInv', NewestInv, NEW v \in Versions, Requeue(v) \/ RequestRebuild(v)
    PROVE  NewestInv'
<1>1. CASE Requeue(v)
  <2>1. /\ job[v].status = "completed" /\ UNCHANGED <<current, thread, worker>>
        /\ job' = [job EXCEPT ![v].status = "queued", ![v].lease = "none"]
        /\ version' = [version EXCEPT ![v].status = "uploaded"]
        /\ job \in [Versions -> Job] /\ version \in [Versions -> Version]
    BY <1>1 DEF Requeue, uploading, IInv, TypeOK
  <2>2. Present(v)
    BY <2>1 DEF NewestInv, NoJob
  <2>3. /\ job'[v].status = "queued" /\ job'[v].attempts = job[v].attempts
        /\ version'[v].status = "uploaded"
        /\ \A x \in Versions \ {v} : version'[x] = version[x] /\ job'[x] = job[x]
    BY <2>1 DEF Job, Version
  <2>4. \A x \in Versions : /\ Present(x) <=> Present(x)'
                            /\ Tried(x) <=> Tried(x)'
                            /\ Touched(x) => Touched(x)'
                            /\ ~Present(x) => job'[x] = job[x]
    BY <2>2, <2>3 DEF Present, Tried, Touched
  <2>5. ASSUME NEW s \in Sources
        PROVE  \/ /\ current'[s] = current[s]
                  /\ \A n \in 1..MaxVersions : version'[<<s, n>>] = version[<<s, n>>]
               \/ \E n \in 1..MaxVersions : Touched(<<s, n>>)'
    <3>1. PICK t \in Sources, k \in 1..MaxVersions : v = <<t, k>>
      BY DEF Versions
    <3>2. CASE s = t
      BY <2>3, <3>1, <3>2 DEF Touched
    <3>3. CASE s # t
      BY <2>1, <2>3, <3>1, <3>3 DEF Versions
    <3>. QED  BY <3>2, <3>3
  <2>. QED  BY <2>1, <2>4, <2>5, NewestKept
<1>2. CASE RequestRebuild(v)
  BY <1>2, NewestUntouched DEF RequestRebuild, rows, uploading
<1>. QED  BY <1>1, <1>2

LEMMA NewestLeases ==
    ASSUME IInv, IInv', NewestInv, NEW v \in Versions, IngestLease(v) \/ RebuildLease(v)
    PROVE  NewestInv'
<1>1. UNCHANGED <<version, current, thread, worker>>
  BY DEF IngestLease, RebuildLease, LeaseEnds, uploading
<1>2. CASE IngestLease(v)
  <2>1. /\ job' = [job EXCEPT ![v].lease = "expired"] /\ job \in [Versions -> Job]
        /\ job[v].status = "running"
    BY <1>2 DEF IngestLease, LeaseEnds, IInv, TypeOK
  <2>2. /\ job'[v].status = job[v].status /\ job'[v].attempts = job[v].attempts
        /\ \A x \in Versions \ {v} : job'[x] = job[x]
    BY <2>1 DEF Job
  <2>3. Present(v)
    BY <2>1 DEF NewestInv, NoJob
  <2>4. \A x \in Versions : /\ Present(x) <=> Present(x)'
                            /\ Tried(x) <=> Tried(x)'
                            /\ Touched(x) <=> Touched(x)'
                            /\ ~Present(x) => job'[x] = job[x]
    BY <1>1, <2>2, <2>3 DEF Present, Tried, Touched
  <2>. QED  BY <1>1, <2>4, NewestKept
<1>3. CASE RebuildLease(v)
  BY <1>1, <1>3, NewestUntouched DEF RebuildLease
<1>. QED  BY <1>2, <1>3

LEMMA NewestDeath ==
    ASSUME IInv, IInv', NewestInv, NEW w \in Workers, WorkerDies(w)
    PROVE  NewestInv'
<1>1. /\ worker' = [worker EXCEPT ![w] = Resting] /\ worker \in [Workers -> Worker]
      /\ UNCHANGED <<version, job, current, thread>>
  BY DEF WorkerDies, rows, uploading, IInv, TypeOK
<1>2. \A o \in Ingesters : worker'[o].batch \subseteq worker[o].batch
  BY <1>1, RestingIsWorker DEF Workers
<1>. QED  BY <1>1, <1>2, NewestWorkers

\* The pointer of a source of which nothing is replayed names a ready version,
\* and no ready version is newer (upload_source).
THEOREM PointerIsNewestReady == Spec => []CurrentIsNewest
<1>1. Init => NewestInv
  <2>. SUFFICES ASSUME Init
                PROVE  NewestInv
    OBVIOUS
  <2>1. \A s \in Sources : \A n \in 1..MaxVersions : <<s, n>> \in Versions
    BY DEF Versions
  <2>2. \A v \in Versions : ~Present(v) /\ job[v] = NoJob
    BY DEF Init, Present
  <2>3. NoGapInv /\ NumberInv
    BY <2>1, <2>2 DEF Init, NoGapInv, NumberInv
  <2>4. BatchInv
    BY RestingIsWorker DEF Init, BatchInv, Workers
  <2>5. \A s \in Sources : Points(s)
    BY <2>1, <2>2 DEF Init, Points
  <2>. QED  BY <2>2, <2>3, <2>4, <2>5 DEF NewestInv
<1>2. IInv /\ IInv' /\ NewestInv /\ [Next]_vars => NewestInv'
  <2>. SUFFICES ASSUME IInv, IInv', NewestInv, [Next]_vars
                PROVE  NewestInv'
    OBVIOUS
  <2>1. CASE Next
    BY <2>1, NewestUpload, NewestIngest, NewestRebuild, NewestRequests, NewestLeases, NewestDeath
    DEF Next, Expiry
  <2>2. CASE UNCHANGED vars
    BY <2>2, NewestUntouched DEF vars, rows, uploading
  <2>. QED  BY <2>1, <2>2
<1>3. NewestInv => CurrentIsNewest
  BY DEF NewestInv, Untouched, Touched, Tried, Points, CurrentIsNewest
<1>. QED  BY <1>1, <1>2, <1>3, Invariance, PTL DEF Spec
=============================================================================
