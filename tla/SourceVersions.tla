--------------------------- MODULE SourceVersions ---------------------------
(***************************************************************************)
(* Sources of one workspace: uploads, the ingestion of their versions, and *)
(* the rebuilding of derived indexes (application/sources.py and           *)
(* integrations/ai/indexing.py).                                           *)
(*                                                                         *)
(* An upload is one request and stands for the bytes it carries.  It stores *)
(* them, then inserts, ingests and commits in one transaction.  Workers    *)
(* claim queued jobs in batches, under leases.  The database is            *)
(* READ COMMITTED: a statement sees what was committed when it started.    *)
(***************************************************************************)
EXTENDS Naturals

CONSTANTS
    Nothing,        \* no version, no bytes, no job
    Sources,        \* identifiers new_id("src") may return
    Uploads,        \* upload requests, each with its own thread and bytes
    MaxVersions,    \* bound: versions of a source
    Batches,        \* embedding batches the chunks of a version fill
    Ingesters,      \* ingestion workers
    Indexers,       \* index workers
    MaxReplays,     \* bound: claims of an ingestion job that may be replayed
    LongJobs,       \* a job may outlast the lease of its worker
    MaxFaults       \* bound: workers that die, leases that expire under a job

VARIABLES
    document,       \* what the bytes of an upload are
    thread,         \* upload -> where its handler is and the version it makes
    store,          \* object store: version -> the bytes under its key
    version,        \* rows of source_versions
    job,            \* rows of ingestion_jobs, one per version
    blocks,         \* version -> the bytes its source_blocks were made from
    chunks,         \* version -> source_chunks: batches and who wrote them
    current,        \* sources.current_version_id, as a number; 0 is NULL
    rebuild,        \* rows of index_rebuild_jobs, at most one per version
    worker,         \* worker -> its batch and what it has read
    faults,         \* dead workers and expired leases of live jobs so far
    overrun         \* versions whose rebuild outlasted a lease

rows == <<version, job, blocks, chunks, current>>
uploading == <<document, thread, store>>
vars == <<uploading, rows, rebuild, worker, faults, overrun>>

Versions == Sources \X (1..MaxVersions)

Workers == Ingesters \union Indexers

ASSUME SourcesAssumption ==
    /\ Nothing \notin Uploads \union (Versions \X Nat)
    /\ MaxVersions \in Nat \ {0}
    /\ Batches \in Nat \ {0}
    /\ Ingesters \cap Indexers = {}
    /\ MaxReplays \in Nat
    /\ LongJobs \in BOOLEAN
    /\ MaxFaults \in Nat

\* Bytes a parser finds text in; a PDF of images only; bytes without any text,
\* broken or too large; and bytes the scanner quarantines.
Document == {"text", "image", "unreadable", "unsafe"}

Thread == [pc : {"idle", "numbered", "stored", "ended"},
           version : Versions \union {Nothing}]

VersionStatus == {"absent", "uploaded", "normalizing", "ready", "quarantined", "failed"}

Version == [status : VersionStatus, hash : Uploads \union {Nothing}]

Job == [status : {"absent", "queued", "running", "completed", "failed"},
        attempts : Nat, lease : {"none", "held", "expired"}]

\* A generation of chunks: 0 for the upload, the attempt for a rebuild.
Chunk == (1..Batches) \X Nat

\* A batch holds versions with the number of the claim.
Worker == [pc : {"idle", "claimed", "loaded"},
           batch : SUBSET (Versions \X Nat),
           item : (Versions \X Nat) \union {Nothing},
           seen : VersionStatus, bytes : Uploads \union {Nothing},
           doomed : SUBSET Chunk]

\* Rows and what processes have read have their types.
TypeOK ==
    /\ document \in [Uploads -> Document]
    /\ thread \in [Uploads -> Thread]
    /\ store \in [Versions -> Uploads \union {Nothing}]
    /\ version \in [Versions -> Version]
    /\ job \in [Versions -> Job]
    /\ blocks \in [Versions -> Uploads \union {Nothing}]
    /\ chunks \in [Versions -> SUBSET Chunk]
    /\ current \in [Sources -> 0..MaxVersions]
    /\ rebuild \in [Versions -> Job]
    /\ worker \in [Workers -> Worker]
    /\ faults \in Nat
    /\ overrun \subseteq Versions

NoJob == [status |-> "absent", attempts |-> 0, lease |-> "none"]

Resting == [pc |-> "idle", batch |-> {}, item |-> Nothing, seen |-> "absent",
            bytes |-> Nothing, doomed |-> {}]

Init ==
    /\ document \in [Uploads -> Document]
    /\ thread = [u \in Uploads |-> [pc |-> "idle", version |-> Nothing]]
    /\ store = [v \in Versions |-> Nothing]
    /\ version = [v \in Versions |-> [status |-> "absent", hash |-> Nothing]]
    /\ job = [v \in Versions |-> NoJob]
    /\ blocks = [v \in Versions |-> Nothing]
    /\ chunks = [v \in Versions |-> {}]
    /\ current = [s \in Sources |-> 0]
    /\ rebuild = [v \in Versions |-> NoJob]
    /\ worker = [w \in Workers |-> Resting]
    /\ faults = 0
    /\ overrun = {}

Present(v) == version[v].status # "absent"

-----------------------------------------------------------------------------
(* What the stages before the index may come to for a document *)

\* A scanner that cannot be reached or answers nonsense fails the version.
Scanned(d) == {"failed", IF d = "unsafe" THEN "quarantined" ELSE "clean"}

\* OCR may be unavailable; it never succeeds without a text.
Recognised(d) == IF d = "image" THEN {"ready", "failed"} ELSE {"failed"}

\* A PDF in which the parser finds no text goes to OCR.
Extracted(d) == IF d = "text" THEN {"ready"} ELSE Recognised(d)

Outcomes(d) ==
    IF "clean" \in Scanned(d) THEN {"failed"} \union Extracted(d) ELSE Scanned(d)

-----------------------------------------------------------------------------
(* Uploads *)

\* The number after the highest one committed for source s.
NextNumber(s, n) ==
    /\ \A m \in n..MaxVersions : ~Present(<<s, m>>)
    /\ n > 1 => Present(<<s, n - 1>>)

\* A source without versions is the new one of the request: nobody else has
\* its identifier.  Otherwise the upload is a revision of the source.
UploadRead(u, s, n) ==
    /\ thread[u].pc = "idle"
    /\ \/ Present(<<s, 1>>)
       \/ \A other \in Uploads, m \in 1..MaxVersions :
            thread[other].version # <<s, m>>
    /\ NextNumber(s, n)
    /\ thread' = [thread EXCEPT ![u] = [pc |-> "numbered", version |-> <<s, n>>]]
    /\ UNCHANGED <<document, store, rows, rebuild, worker, faults, overrun>>

\* The key is made of the source and the number: put_bytes replaces whatever
\* another upload has stored under it.
UploadPut(u) ==
    /\ thread[u].pc = "numbered"
    /\ thread' = [thread EXCEPT ![u].pc = "stored"]
    /\ store' = [store EXCEPT ![thread[u].version] = u]
    /\ UNCHANGED <<document, rows, rebuild, worker, faults, overrun>>

End(u) == thread' = [thread EXCEPT ![u].pc = "ended"]

\* A fault: no unique constraint.
InsertsAnyway(u, v) ==
    /\ thread[u].pc = "stored"
    /\ v = thread[u].version
    /\ End(u)

\* The insert of upload u for version v, unless uq_source_version refuses it.
Inserts(u, v) ==
    /\ thread[u].pc = "stored"
    /\ v = thread[u].version
    /\ ~Present(v)
    /\ End(u)

Row(v, u, status, jobStatus) ==
    /\ version' = [version EXCEPT ![v] = [status |-> status, hash |-> u]]
    /\ job' = [job EXCEPT ![v] = [NoJob EXCEPT !.status = jobStatus]]

\* Chunks of the first n embedding batches, written by generation g.
Embedded(n, g) == (1..n) \X {g}

\* A fault: the bytes are read back from the store when the row is inserted.
NormalizedFromStore(v, bytes, n) ==
    /\ blocks' = [blocks EXCEPT ![v] = store[v]]
    /\ chunks' = [chunks EXCEPT ![v] = @ \union Embedded(n, 0)]

\* The blocks and chunks of a version that has none.
Normalized(v, bytes, n) ==
    /\ blocks' = [blocks EXCEPT ![v] = bytes]
    /\ chunks' = [chunks EXCEPT ![v] = @ \union Embedded(n, 0)]

\* A fault: what is scanned and parsed is read back from the store.
UploadReadyFromStore(u, v) ==
    /\ Inserts(u, v)
    /\ "ready" \in Outcomes(document[store[v]])
    /\ Row(v, u, "ready", "completed")
    /\ Normalized(v, u, Batches)
    /\ current' = [current EXCEPT ![v[1]] = v[2]]
    /\ UNCHANGED <<document, store, rebuild, worker, faults, overrun>>

UploadReady(u, v) ==
    /\ Inserts(u, v)
    /\ "ready" \in Outcomes(document[u])
    /\ Row(v, u, "ready", "completed")
    /\ Normalized(v, u, Batches)
    /\ current' = [current EXCEPT ![v[1]] = v[2]]
    /\ UNCHANGED <<document, store, rebuild, worker, faults, overrun>>

\* The failure is committed and the request answered with an error.
UploadFails(u, v, status) ==
    /\ Inserts(u, v)
    /\ status \in Outcomes(document[u])
    /\ Row(v, u, status, "failed")
    /\ UNCHANGED <<document, store, blocks, chunks, current, rebuild, worker,
                   faults, overrun>>

\* The embedding provider fails after n batches.  upload_source catches the
\* error as it catches a failed stage, and commits: the version stays
\* normalizing and its job running, without a lease.
UploadStalls(u, v, n) ==
    /\ Inserts(u, v)
    /\ "ready" \in Outcomes(document[u])
    /\ Row(v, u, "normalizing", "running")
    /\ Normalized(v, u, n)
    /\ UNCHANGED <<document, store, current, rebuild, worker, faults, overrun>>

\* uq_source_version refuses the insert, the process dies, or the vector
\* index fails: nothing of the transaction stays, but the stored bytes do.
UploadAbandoned(u) ==
    /\ thread[u].pc \in {"numbered", "stored"}
    /\ End(u)
    /\ UNCHANGED <<document, store, rows, rebuild, worker, faults, overrun>>

-----------------------------------------------------------------------------
(* Leased jobs *)

\* A fault: a running job is claimed whatever its lease.
ClaimableAnyway(jobs, v) == jobs[v].status \in {"queued", "running"}

\* What a worker that polls may claim.
Claimable(jobs, v) ==
    \/ jobs[v].status = "queued"
    \/ jobs[v].status = "running" /\ jobs[v].lease = "expired"

\* One statement takes every claimable row under a new lease.
Claimed(jobs, batch) ==
    [v \in Versions |->
        IF v \in batch
        THEN [status |-> "running", attempts |-> jobs[v].attempts + 1, lease |-> "held"]
        ELSE jobs[v]]

Takes(w, jobs, batch) ==
    /\ worker[w].pc = "idle"
    /\ batch = {v \in Versions : Claimable(jobs, v)}
    /\ batch # {}
    /\ worker' = [worker EXCEPT ![w] = [Resting EXCEPT !.pc = "claimed",
                    !.batch = {<<v, jobs[v].attempts + 1>> : v \in batch}]]

\* The worker goes on with the rest of its batch.
Proceeds(w) ==
    LET rest == worker[w].batch \ {worker[w].item} IN
    worker' = [worker EXCEPT ![w] =
        [Resting EXCEPT !.pc = IF rest = {} THEN "idle" ELSE "claimed", !.batch = rest]]

Ends(jobs, v, status) == [jobs EXCEPT ![v].status = status, ![v].lease = "none"]

\* Workers that claimed the job of v and have not come to its end.
Holders(ws, v) == {w \in ws : \E j \in worker[w].batch : j[1] = v}

\* The lease of a job ends: at any time when its worker is gone, and while
\* it works, if jobs may be that long.
LeaseEnds(ws, jobs, v) ==
    /\ jobs[v].status = "running"
    /\ jobs[v].lease = "held"
    /\ \/ Holders(ws, v) = {} /\ UNCHANGED faults
       \/ LongJobs /\ Holders(ws, v) # {} /\ faults < MaxFaults /\ faults' = faults + 1
    /\ UNCHANGED <<uploading, version, blocks, chunks, current, worker>>

\* A worker dies, or an exception that no handler catches ends its process.
WorkerDies(w) ==
    /\ worker[w].pc # "idle"
    /\ faults < MaxFaults
    /\ faults' = faults + 1
    /\ worker' = [worker EXCEPT ![w] = Resting]
    /\ UNCHANGED <<uploading, rows, rebuild, overrun>>

-----------------------------------------------------------------------------
(* Ingestion workers *)

\* The replay of a completed job, as the tests set it up in the database.
Requeue(v) ==
    /\ job[v].status = "completed"
    /\ job[v].attempts < MaxReplays
    /\ job' = [job EXCEPT ![v].status = "queued", ![v].lease = "none"]
    /\ version' = [version EXCEPT ![v].status = "uploaded"]
    /\ UNCHANGED <<uploading, blocks, chunks, current, rebuild, worker, faults, overrun>>

IngestClaim(w, batch) ==
    /\ Takes(w, job, batch)
    /\ job' = Claimed(job, batch)
    /\ UNCHANGED <<uploading, version, blocks, chunks, current, rebuild, faults, overrun>>

IngestLease(v) ==
    /\ LeaseEnds(Ingesters, job, v)
    /\ job' = [job EXCEPT ![v].lease = "expired"]
    /\ UNCHANGED <<rebuild, overrun>>

\* The version row and the bytes of the store are read once.
IngestLoad(w, j) ==
    /\ worker[w].pc = "claimed"
    /\ j \in worker[w].batch
    /\ worker' = [worker EXCEPT ![w].pc = "loaded", ![w].item = j,
                    ![w].seen = version[j[1]].status, ![w].bytes = store[j[1]]]
    /\ UNCHANGED <<uploading, rows, rebuild, faults, overrun>>

\* Blocks that exist are kept.  The status column is written if it is not
\* what the session has read; the pointer is written in any case.
IngestReady(w, v) ==
    /\ worker[w].pc = "loaded"
    /\ v = worker[w].item[1]
    /\ "ready" \in Outcomes(document[worker[w].bytes])
    /\ version' = IF worker[w].seen = "ready" THEN version
                  ELSE [version EXCEPT ![v].status = "ready"]
    /\ IF blocks[v] = Nothing THEN Normalized(v, worker[w].bytes, Batches)
       ELSE UNCHANGED <<blocks, chunks>>
    /\ job' = Ends(job, v, "completed")
    /\ current' = [current EXCEPT ![v[1]] = v[2]]
    /\ Proceeds(w)
    /\ UNCHANGED <<uploading, rebuild, faults, overrun>>

\* After the rollback the failure is written whatever the rows are by then.
IngestFails(w, v, status) ==
    /\ worker[w].pc = "loaded"
    /\ v = worker[w].item[1]
    /\ status \in Outcomes(document[worker[w].bytes])
    /\ version' = [version EXCEPT ![v].status = status]
    /\ job' = Ends(job, v, "failed")
    /\ Proceeds(w)
    /\ UNCHANGED <<uploading, blocks, chunks, current, rebuild, faults, overrun>>

-----------------------------------------------------------------------------
(* Index rebuilds *)

\* request_index_rebuild for a version without a job.  A job that waits or
\* runs is returned, and uq_index_rebuild_version refuses a second job.
RequestRebuild(v) ==
    /\ version[v].status = "ready"
    /\ rebuild[v].status = "absent"
    /\ rebuild' = [rebuild EXCEPT ![v].status = "queued"]
    /\ UNCHANGED <<uploading, rows, worker, faults, overrun>>

RebuildClaim(w, batch) ==
    /\ Takes(w, rebuild, batch)
    /\ rebuild' = Claimed(rebuild, batch)
    /\ UNCHANGED <<uploading, rows, faults, overrun>>

\* Versions whose rebuild is at work when its lease ends.
RebuildLease(v) ==
    /\ LeaseEnds(Indexers, rebuild, v)
    /\ rebuild' = [rebuild EXCEPT ![v].lease = "expired"]
    /\ overrun' = IF Holders(Indexers, v) = {} THEN overrun ELSE overrun \union {v}
    /\ UNCHANGED job

\* The delete statement sees the chunks that are committed when it starts;
\* locks on them order the commits of two rebuilds, and nothing else.
RebuildDelete(w, j) ==
    /\ worker[w].pc = "claimed"
    /\ j \in worker[w].batch
    /\ worker' = [worker EXCEPT ![w].pc = "loaded", ![w].item = j,
                    ![w].doomed = chunks[j[1]]]
    /\ UNCHANGED <<uploading, rows, rebuild, faults, overrun>>

\* A chunk and its vector are deleted and inserted together.
Reindexed(old, doomed, n) == (old \ doomed) \union Embedded(Batches, n)

RebuildCommit(w, v, n) ==
    /\ worker[w].pc = "loaded"
    /\ <<v, n>> = worker[w].item
    /\ chunks' = [chunks EXCEPT ![v] = Reindexed(@, worker[w].doomed, n)]
    /\ rebuild' = Ends(rebuild, v, "completed")
    /\ Proceeds(w)
    /\ UNCHANGED <<uploading, version, job, blocks, current, faults, overrun>>

\* A fault: the deletion is committed when the embedding provider fails.
RebuildFailsHalfway(w, v) ==
    /\ worker[w].pc = "loaded"
    /\ v = worker[w].item[1]
    /\ chunks' = [chunks EXCEPT ![v] = @ \ worker[w].doomed]
    /\ rebuild' = Ends(rebuild, v, "failed")
    /\ Proceeds(w)
    /\ UNCHANGED <<uploading, version, job, blocks, current, faults, overrun>>

\* Any exception: a rollback, then the failure is written whatever the job
\* is by then.
RebuildFails(w, v) ==
    /\ worker[w].pc = "loaded"
    /\ v = worker[w].item[1]
    /\ rebuild' = Ends(rebuild, v, "failed")
    /\ Proceeds(w)
    /\ UNCHANGED <<uploading, rows, faults, overrun>>

-----------------------------------------------------------------------------
UploadNext ==
    \E u \in Uploads :
        \/ \E s \in Sources, n \in 1..MaxVersions : UploadRead(u, s, n)
        \/ UploadPut(u)
        \/ \E v \in Versions :
            \/ UploadReady(u, v)
            \/ \E status \in {"failed", "quarantined"} : UploadFails(u, v, status)
            \/ \E n \in 0..(Batches - 1) : UploadStalls(u, v, n)
        \/ UploadAbandoned(u)

IngestStep(w) ==
    \/ \E batch \in SUBSET Versions : IngestClaim(w, batch)
    \/ \E j \in worker[w].batch : IngestLoad(w, j)
    \/ \E v \in Versions :
        \/ IngestReady(w, v)
        \/ \E status \in {"failed", "quarantined"} : IngestFails(w, v, status)

RebuildStep(w) ==
    \/ \E batch \in SUBSET Versions : RebuildClaim(w, batch)
    \/ \E j \in worker[w].batch :
        \/ RebuildDelete(w, j)
        \/ RebuildCommit(w, j[1], j[2])
        \/ RebuildFails(w, j[1])

Expiry == \E v \in Versions : IngestLease(v) \/ RebuildLease(v)

Next ==
    \/ UploadNext
    \/ \E v \in Versions : Requeue(v) \/ RequestRebuild(v)
    \/ \E w \in Ingesters : IngestStep(w)
    \/ \E w \in Indexers : RebuildStep(w)
    \/ \E w \in Workers : WorkerDies(w)
    \/ Expiry

Spec == Init /\ [][Next]_vars

\* A supervisor starts the workers again and again; time passes.
Fairness ==
    /\ \A w \in Ingesters : WF_vars(IngestStep(w))
    /\ \A w \in Indexers : WF_vars(RebuildStep(w))
    /\ WF_vars(Expiry)

FairSpec == Spec /\ Fairness

-----------------------------------------------------------------------------
\* The passages of a version come from the bytes whose hash the version
\* records, although concurrent uploads replace each other's bytes in the
\* store and a replay reads them from there.
PassagesMatchHash ==
    \A v \in Versions : blocks[v] # Nothing => blocks[v] = version[v].hash

\* A version is ready, or has passages, only if its own bytes were readable
\* and passed the scanner, whatever bytes the store holds under its key.
UnsafeNeverServed ==
    \A v \in Versions :
        version[v].status = "ready" \/ blocks[v] # Nothing =>
            document[version[v].hash] \in {"text", "image"}

\* A ready version has every chunk of its index at any time: a rebuild that
\* fails, dies or races another one never leaves a gap for retrieval.
ReadyIndexed ==
    \A v \in Versions : version[v].status = "ready" =>
        \A b \in 1..Batches : \E c \in chunks[v] : c[1] = b

\* It has each chunk once, unless a rebuild outlasted its lease: two
\* rebuilds at once delete the same chunks and each insert their own.
IndexExact ==
    \A v \in Versions : version[v].status = "ready" /\ v \notin overrun =>
        \A c, d \in chunks[v] : c[1] = d[1] => c = d

\* The version a source points to is its newest ready one, in every order
\* of uploads that race and fail, as long as none of its jobs is replayed.
CurrentIsNewest ==
    \A s \in Sources :
        (\A n \in 1..MaxVersions :
            job[<<s, n>>].attempts = 0 /\ job[<<s, n>>].status # "queued") =>
        /\ current[s] # 0 => version[<<s, current[s]>>].status = "ready"
        /\ \A n \in 1..MaxVersions :
            version[<<s, n>>].status = "ready" => n <= current[s]

\* A rebuild or a replay that was asked for comes to an end, although
\* workers die in the middle of their batch.
JobsEnd ==
    \A v \in Versions :
        /\ rebuild[v].status = "queued" ~> rebuild[v].status \in {"completed", "failed"}
        /\ job[v].status = "queued" ~> job[v].status \in {"completed", "failed"}
=============================================================================
