# Groundloom in TLA+

Groundloom is a workspace for grounded drafting: authors upload sources, start
projects that pin source and skill versions, talk to an agent that proposes
patches to a structured document, review the patches, export the result and
delete the project. The backend (`src/backend/app`) is a FastAPI application
over one SQL database and one object store, with stateless workers that poll the
database. This directory holds TLA+ modules of its core, TLC configurations that
check them on small instances and theorems that TLAPS proves for all instances.

## 1. The system

### 1.1 How the parts interact

There is no shared memory between processes. API threads and workers meet in the
database, and in the object store. Three facts about the database decide what can
go wrong, and every module models them:

- Sessions are built with `autoflush=False, expire_on_commit=False`
  (`db.py:66-72`): a handler works on the rows it has loaded, whatever is committed
  meanwhile, and a commit writes only the columns whose value it changed.
- Transactions run at READ COMMITTED. Every query sees what is committed when it
  runs, so two queries of one handler may see different states. Only claims of
  jobs lock rows (`FOR UPDATE SKIP LOCKED`).
- The only conditions a commit is subject to are unique constraints and, on
  PostgreSQL, foreign keys (`models.py`, `migrations.py`). SQLite, the local
  database, does not enforce foreign keys here.

So a handler is a sequence of reads and one commit. In the modules each read that
another commit can separate from the next is a step, each commit is a step that
checks exactly the constraints the schema declares, and a crash forgets what a
process has read. Workers are claim - work - commit loops with a lease of five
minutes; nothing checks at commit time that the lease is still held.

### 1.2 Components

| Component | State | Operations | What is hard | What makes it correct |
|---|---|---|---|---|
| Content review (`services.py` 1936-2197) | `content_versions`, `patches`, `projects.current_content_version_id` | propose, accept, reject | pointer, expectation and number are read at different times; no lock | pointer on the newest version, history only appended to, a repeated accept finds its version |
| Patch operations (1882-1933, 2083-2152) | blocks of one version | replace, delete, replace citations, insert, move | every operation works on what the earlier ones left; the patch was validated against the base | ids distinct, untouched blocks kept, order kept, moves land where asked |
| Agent runs (378-1265, `main.py` 345-564, `events.py`) | `agent_runs`, `approval_requests`, `public_events` | message, cancel, resume, approve, reject, claim, turn, requeue | inline threads and workers, stale rows, leases, provider failures | gapless events, waiting runs decidable, no unapproved plan carried out, turns end |
| Projects, retention (147-243, 2554-2907) | `projects` with configurations, `source_versions`, `deletion_requests`, policy, objects | create, request, hold, claim, erase objects, erase rows | objects are outside the transaction; another project may share a source | completed means gone; what others use stays; requests are decided |
| Exports (2343-2486) | `export_jobs`, objects | request, claim, render, store, complete, fail | same, while the project is deleted | a completed export has its artifact; jobs are decided |
| Delegated tasks (1268-1456) | `delegated_tasks`, events of the parent run | retry, claim, process, fail, cancel | batches, stale rows, leases, races for an event number | a completed task has told so once; claimed tasks end |
| Source ingestion and index rebuild (`application/sources.py`, `integrations/ai/indexing.py`) | `sources`, `source_versions`, `ingestion_jobs`, `source_blocks`, `source_chunks`, `index_rebuild_jobs`, objects | upload, claim, ingest, fail, replay, rebuild | racing uploads compute one version number and one object key; rebuilds delete what they see | passages come from the recorded bytes; nothing unsafe is served; a ready version is indexed; the pointer follows the newest ready version |
| Outbox (`outbox.py`, `application/events.py`) | `outbox_messages` | insert, poll, deliver, mark | delivery before commit, publishers without locks | at least once, repeated only for a cause |
| Idempotency records (`application/idempotency.py`, `main.py` 311) | `idempotency_records` | look up, store | check before insert, after the effect is committed | one answer per key |
| Event replay (`main.py` 381-452, `frontend/src/api.js`, `main.jsx` 1134-1183) | cursor and list of a browser | replay, frames, reconnection, `load()` | numbers are per run, the stream per thread; an answer of `load()` may be older than the list it replaces | no event missed or repeated by the stream |
| Skills (1487-1843) | `skills`, `skill_versions`, projects that pin them | draft, author, fork, repair, validate, publish, pin | validation of something already published; repairs and publications that race | what is published or pinned is sound |
| Agent harness (`packages/groundloom-agent-harness`) | budgets of a turn | middleware, streaming bridge | counters and cancellation between chunks | budgets bound what a turn does |
| Validation, retrieval, evaluation | - | scoring | - | numerical, no control state |
| Authentication, configuration, telemetry, documents, OCR, renderers | - | decoding, rendering | - | pure input and output |
| Web client (`src/frontend`) | view state | requests | - | it is the environment of the models: it may send any request at any time |

`PROJECT.json` lists every component with its status, and under `hazards` each
line where one of these behaviours bites, with the properties that cover it.

## 2. The modules

### 2.1 CanonicalContent and ContentReview

`CanonicalContent` is what review promises: accepted patches form one linear
history, a patch is decided once and enters the history only on the version it
was written against (`CanonicalSpec`). Reviewers who decide at the same time get
less, and `AppendOnlySpec` says what is left: nothing leaves the history or moves in
it, and a decided patch is never open again, although a decision may be written over
another one and a version may miss a change that was accepted before it.

`ContentReview` is the code. `versions`, `head` and `patch` are the rows;
`request` is what each reviewer's handler has loaded. `AcceptLoad`, `AcceptCheck`,
`AcceptNumber` and `AcceptCommit` are the four database accesses of
`accept_patch` (the patch row, the project row, `max(version_no)`, the commit);
`AcceptConflict` is the commit of `conflicted` for a stale proposal,
`AcceptDuplicate` the commit that `uq_content_version` refuses. `Abandon` is a
process that dies or a request that is torn down.

### 2.2 ContentBlocks

One reviewer at a time, but the contents of versions: a version is a sequence of
blocks, a patch a sequence of operations that `validate_patch_operations` let
pass against the base, and `Apply...` are the branches of the loop of
`accept_patch`, one step per operation on a working copy. Texts, payload types and
citations are members of small sets. `Rollback` is a failed insert.

### 2.3 AgentRuns

The turns of one project. `run`, `approval`, `events` and `proposals` are rows;
`proc` is, for each thread and worker, where its handler is (`pc`), the row its
session holds, what it has come to (`goal`) and the event number it has read
(`base`). `Merged` is what the ORM does on commit: columns the session changed
are written, others are left as another commit made them. `settings` chooses one
of four deployments (local adapter or provider, inline or queued).

`StartRead/StartCommit/StartConflict`, `Cancel...`, `Resume...` and `ResolveRead`
are the handlers; `Claim`, `NoMembership`, `ExceptRead` and `ExceptCommit` the
worker loop; `LocalTurn`, `DeepTurn`, `Provider...` a turn up to its outcome, and
`NumberEvent` followed by one `Commit...` its last transaction, whose acceptance
depends on the three unique constraints (`FreeSeq`, `IndexAllows`,
`ApprovalFree`). A provider fails, answers, or notices a cancellation at its own
discretion; budget stops are an outcome any turn may have. `kind` is what the message
asks for. A message that asks for approval of the plan does so in every turn; with
`NewPreferences` any other draft may need it too, in one turn and not in the next,
because each turn reads the configuration and the workspace's preferences anew.

`uq_agent_runs_one_active_per_project` is part of every commit that can make a run
active (`IndexAllows`). That a project has one active run is what the index says, and
no property repeats it.

### 2.4 ProjectLifecycle and Retention

`ProjectLifecycle` is what clients see of a deletion: a project is live, doomed, gone;
it goes in one step with every export that was ordered before that request and only
for a request that names it, a request says `completed` only when its project is gone,
and an artifact is withdrawn only when the deletion of its project has been requested.
An export that is ordered later (`late`) may go with the project or outlive it.

`Retention` is the code. Projects, exports and deletion requests of one workspace, and the object store.
`project`, `rows`, `export`, `deletion` and `hold` are rows, `objects` the keys in
the store; `referenced` are projects and versions that `approval_requests` and
`index_rebuild_jobs` refer to, which the deletion does not delete. The steps of
`process_deletion_request` are the reads of the policy (`CheckHold`), the project
(`LoadProject`), the selections (`ListVersions`) and the exports (`ListExports`),
one `EraseObject` per object, the second reading of the selections and the bulk deletes
in `_delete_project_records` (`DeleteRecords`) and the commit (`EraseCommit`, or
`EraseRefused` where foreign keys are enforced). Between the two the rows of the exports
that `DeleteRecords` met are locked (`Locked`); one that is inserted in between stays. The export worker is
`ClaimExport`, `RenderExport`, `StoreExport`, `CompleteExport`, `FailExport`; the
inline call of `export_content` is one more worker. `LeaseEnds` says when a lease
runs out: at any time for a job nobody works on, and as a counted fault while
somebody does, if `LongJobs`. `Stage`, `Made` and `Outcome` map rows to the life cycle;
an export whose bytes have been deleted is `withdrawn` while its row still says
`completed`, so the erasing of single objects shows.

### 2.5 SourceVersions

Uploads, ingestion and index rebuilds of one workspace. An upload is one request
and stands for the bytes it carries; what they are (`document`) is chosen at the
start, and `Outcomes` says what the scanner, the parser and OCR may make of them.
`store` is the object store, keyed by source and number, so `UploadPut` replaces what
another upload put there; `version`, `job`, `blocks`, `chunks`, `current` and `rebuild`
are rows. `upload_source` is `UploadRead` (the number), `UploadPut` (the bytes, outside
the transaction) and one of the four ways its transaction ends: `UploadReady`,
`UploadFails`, `UploadStalls` (the embedding provider fails and the handler commits all
the same) and `UploadAbandoned`. The two worker loops share `Takes`, `Proceeds` and
`LeaseEnds`; `IngestLoad/IngestReady/IngestFails` and
`RebuildDelete/RebuildCommit/RebuildFails` are their transactions. A chunk is a pair of
an embedding batch and the generation that wrote it, so that the chunks of two
rebuilds differ; its vector, in one table with it or in an index that is written in the
same transaction, comes and goes with it.

### 2.6 EventLog and ThreadEvents

`EventLog` is what a browser is promised: events form a log that only grows, and the
stream hands over a prefix of it, in the end all of it.

`ThreadEvents` is the code: transactions that read the last number of a run and insert
the next one under a unique constraint (`RequestReads/RequestCommits/RequestFails`),
the delegated tasks whose workers do so (`Retry`, `Claim` and `Task...`), and the
browser, which connects, receives the frames of a replay in order, loses its connection
and connects again with the last event it has (`Connect`, `Frame`, `Drop`). `load()` is
a request for the whole thread whose answer replaces the list the page shows, some time
after it was made (`LoadAnswered`, `LoadApplied`); so `reader` keeps apart what the stream
has handed over (`received`, of which `EventLog` speaks) and what the page shows (`shown`). A worker's
session keeps the rows it has read until it rolls back: `stale`, `seen` and `claimed`
are what it then still believes. What a run does is in `AgentRuns`; here it is active,
then ended or cancelled, and followed by the next.

### 2.7 Outbox

Rows become visible in any order (`Commit`); a publisher takes the oldest ones
(`Polls`), sends one after the other (`Delivers`, `Refused`, `AnsweredLate`) and commits
each mark (`Marks`). It takes no lock and may die anywhere (`Dies`).

### 2.8 Skills

Versions of skills, projects that pin them, and the idempotency record of
`POST /v1/projects`. Each request is a read and a commit on a thread of the API:
`CreateReads`, `ForkReads`, `RepairReads`, `ValidateReads`, `PublishReads` and `Pins` are
what a handler checks, `Creates`, `Repairs`, `Validates`, `Publishes` and
`ProjectCreated` what it then commits, whatever has been committed in between. `Notes`
is the second commit of `author_skill_draft`, which writes to the package of the version
its first commit has made. One skill, the starter, is published from the beginning
without validation, as `seed_local` inserts it.
`CreationReplayed` and `Remembers` are the two halves of the idempotency protocol,
before and after the project is committed. A package is a member of a small set, some
of which pass `validate_skill_version`.

`MC...` modules only add symmetry sets and instances: for `AgentRuns` the deployments,
for `SourceVersions` an initial state in which one version is ready already, a state the
module itself reaches after one upload.
Definitions whose comment starts "A fault:" are plausible mistakes in the
definition that follows them; nothing but `PROJECT.json` uses them: each shows that
a property notices the mistake.

## 3. What the runs check

| Run | Instance | Question and answer | States |
|---|---|---|---|
| `review` | 3 patches, 3 reviewers | `HeadIsNewest`, `LineageRooted`, `ReplayFindsOwnVersion` hold in every interleaving of concurrent decisions: the unique constraint is enough for them; the history is only appended to (`ImplementsAppendOnlyHistory`) | 882 k (with symmetry) |
| `review_overwrite` | 2 patches, 2 reviewers | two accepts of the same base both succeed: `NoSilentOverwrite` fails | violation |
| `blocks` | 3 identifiers, 5 operations, 3 versions | every sequence of operations keeps ids distinct, order, untouched blocks, and moves behind anchors | 827 k (with symmetry) |
| `runs` | 2 runs, 2 keys, 2 threads, 2 workers, 2 attempts, 3 requests, 1 fault, 2 events, 4 deployments | gapless events, decidable approvals, no plan carried out whose message asks for an approval it did not get, also while preferences change | 1.92 M (with symmetry) |
| `runs_progress` | production, 1 run, 2 workers, 3 attempts, 2 crashes | workers take turns, completion is final, turns end | 1 k |
| `retention` | 2 projects, 1 source, 1 export, 2 requests, 1 thread, 1 renderer, 2 erasers, 1 fault | `CompletedMeansGone`, `LiveExportsStored`; overlapping requests, workers and late exports keep the life cycle (`ImplementsLifecycle`) | 1.28 M (with symmetry) |
| `retention_progress` | 1 project, 1 request, 2 threads, 2 erasers, foreign keys, legal holds, 1 crash | requests and jobs are decided; completed ones and blocked requests stay so (`DecidedIsFinal`) | 659 k |
| `sources` | 1 source with 1 ready version, 2 versions, 2 more uploads, 1 ingester, 2 indexers, 2 batches, 1 replay, 1 fault | `PassagesMatchHash`, `UnsafeNeverServed`, `ReadyIndexed`, `IndexExact`, `CurrentIsNewest` hold although uploads overwrite each other's bytes and rebuilds overlap | 1.47 M (with symmetry) |
| `thread_events` | 1 run, 2 tasks, 1 request, 2 workers, 1 retry each, 1 fault | `NumbersWithoutGap`, `CompletedOnce`, also with two workers at one task; claimed tasks end (`TasksEnd`) | 133 k |
| `thread_stream` | 1 run, 1 task, 1 request, 1 worker, 2 lost connections, 2 calls of `load()` | the stream implements `EventLog`; what the page does not show of it is newer than an answer of `load()` (`HiddenByOlderAnswer`) | 76 k |
| `outbox` | 4 rows, 1 of them rejected, batches of 2, 2 publishers, 2 faults | `PublishedWasDelivered`, `RepeatedForCause`; a rejected row does not hold up the others (`MessagesPublished`) | 65 k |
| `skills` | 1 skill beside the starter, 2 versions, 2 packages, 2 projects, 1 key, 3 threads | `ServedIsSound`, `AnswersAgree` hold for every three requests that race | 1.71 M (with symmetry) |

Every run says `CHECK_DEADLOCK FALSE` because the systems really stop: identifiers
are used up once every patch is decided, every request is sent, every row published,
or every project is gone. Liveness is checked by leads-to properties instead. The type
invariants of all modules but `ContentBlocks` and `AgentRuns` are left to the proofs
(section 4), and no run repeats them.

Configurations beside these runs, to be checked by hand with the `MC` module of the
same name:

| Configuration | Question and answer |
|---|---|
| `ContentReviewSequential` | one decision at a time refines `CanonicalContent` (`ImplementsCanonicalContent`): holds, 1,189 states |
| `ContentReview_ReplayAnswersOwn` | a repeated accept is answered with another patch's version: violated |
| `ContentBlocks_ProposedCitationsKept` | the citations an insertion was validated with are not the ones stored: violated |
| `AgentRuns_CancelledUntilResumed` | a worker commits `completed` over `cancelled`: violated |
| `AgentRuns_RunningIsReclaimable` | a requeue clears the lease of another worker: violated |
| `Retention_SelectedBytesKept` | a project created during the deletion of another loses the bytes it selected: violated |
| `Retention_GoneWithExports` | an export inserted between the bulk delete and the commit survives its project: violated |
| `Retention_DecidedIsFinal` | a renderer that lost its lease writes over a completed export: violated |
| `ThreadEvents_ReceivedIsShown` | an answer of `load()` takes away an event the stream has brought: violated |
| `Skills_PublishedBytesKept` | the author's second commit changes a published package: violated |
| `ThreadEvents_LaterEventsReplayed` | a browser that has events of a thread's first run is never sent the first ones of the second: violated |
| `SourceVersionsProgress` | replayed and rebuilt jobs end although two workers die (`JobsEnd`): holds, 8,787 states |

**Why the bounds are enough.** A race here needs two actors and, where a third
version, request or worker could see the result, one more: hence three reviewers,
and two workers plus two threads for runs. Three block identifiers are the least
for which an element can move over another one behind a third. Two attempts allow a
first claim and a reclaim, three allow a reclaim of a reclaim. Two keys allow a
message that is refused while another turn is active. One fault is the least that
makes a lease run out under a worker or lets a process die; `runs_progress` allows
two, one for each of two successive workers. Two requests on two projects that may
share one source cover the ways in which a source is shared: with the other project
or with none. `retention_progress` has two threads so that a deletion can end
between the reading and the commit of another request (`DeletionConflict`).

In `sources` two uploads race for the number and the key of the second version while
the first one is rebuilt by two workers; two embedding batches are the least for which
a rebuild or an upload can stop halfway. `thread_events` has two tasks so that a
worker's batch has a second task when the first one fails and its session forgets its
rows, and one other transaction to lose the race for a number against. `thread_stream`
has one run, because the stream of several does not implement a log, and two calls of
`load()`, so that the older answer may be applied last. `outbox` has more rows than a
batch and fewer rejected rows than a batch, the case in which progress is possible.
`skills` needs a second version for a repair and a publication that pass each other, and
a third thread for a draft whose author's second commit comes after both.

**Fairness.** `AgentRuns`, `Retention`, `SourceVersions` and `ThreadEvents` assume
weak fairness of each worker's claims, of each worker's next step, and of leases
running out; `Outbox` of each publisher; `ThreadEvents` of the browser, which reconnects
when its stream ends or fails. The workers are the polling loops and schedules around
the scripts (`agent_worker.py`, `ingestion_worker.py`, `index_worker.py`,
`outbox_worker.py` and the others), which a supervisor starts again, and a process that
does not die goes on; leases are the clock. No fairness is assumed of API threads and
clients, of any particular outcome of a turn or a job, or that faults ever happen.

### 3.1 Disagreements between documents and code

The first is the run `review_overwrite`, and `PROJECT.json` quotes the documents; the
others have a configuration beside the runs.

- Two concurrent accepts against one base both commit; the later version lacks the
  earlier change (`services.py:2041`).
- A repeated accept is answered with the newest version whose parent is the base of the
  patch (`services.py:2006-2014`). After two racing accepts of one base that is the later
  patch's version for both (`ContentReview_ReplayAnswersOwn`). The version of the patch
  itself is always among the candidates (`ReplayFindsOwnVersion`), and with decisions in
  turn it is the only one.
- Citations of an insertion are validated on the operation and stored from its
  payload (`services.py:2115`; `ContentBlocks_ProposedCitationsKept`).
- A turn that has looked at the cancellation flag for the last time commits over
  the cancellation (`services.py:899`; `AgentRuns_CancelledUntilResumed`).
- A worker's requeue clears whatever lease is in the row, another worker's too
  (`services.py:588`); the run is then `running` without a lease and never claimed
  (`AgentRuns_RunningIsReclaimable`).
- The bytes of a source version are deleted although a project that selects it was
  created since the deletion counted it as unshared (`services.py:2830`;
  `Retention_SelectedBytesKept`).
- `docs/operations/data-retention-and-deletion.md:12` says that the deletion "removes
  content/run/export records". An export request that has read the project before it
  was marked may insert its job between the bulk delete of `export_jobs` and the commit
  (`services.py:2748`, `2875`); the job has no foreign key, survives the project, and a
  renderer that has found the project in time completes it (`Retention_GoneWithExports`).
  `ProjectLifecycle` promises no more than the code keeps: only exports ordered after
  the project was doomed survive it.
- Line 17 of the same document says that "failed object or database steps remain
  retryable". A failed request is not claimed again, and a repetition with its key is
  answered with the failed request; only a new request, under another key, starts over.
  A failed export is returned for its default key for ever (`services.py:2349`). So
  `failed` is an end of one request and not of the project's deletion; `DecidedIsFinal`
  is about `completed` and `blocked` only.
- A renderer whose lease ran out and then fails writes `failed` over the row that the
  renderer after it has completed, and one that succeeds writes `completed` over `failed`
  (`services.py:2464`; `Retention_DecidedIsFinal`).
- `docs/contracts/versioning-contract.md:5` says "Published skill/content/source bytes
  never change under the same version ID". `author_skill_draft` commits a draft and then
  rewrites its package in a second transaction; the draft may have been validated and
  published in between (`services.py:1671`; `Skills_PublishedBytesKept`). No other
  statement of the code writes to the package of an existing version.
- `load()` replaces the events the page shows by an answer that may be older than what the
  stream has brought meanwhile (`main.jsx:1146`; `ThreadEvents_ReceivedIsShown`). The
  stream goes on behind the last event it has, so what is lost comes back only with a
  later `load()`, and of two that overlap the older answer may be applied last. What is
  missing is always newer than an answer that was applied (`HiddenByOlderAnswer`).
- `docs/contracts/sse-event-catalog.md` says that a reconnection "replays later
  persisted events". The replay compares the number of the last event with the numbers
  of all runs of the thread, and those of a second run start again at 1
  (`main.py:381`; `ThreadEvents_LaterEventsReplayed`). For one run the stream does
  what the document says: that is `ImplementsEventLog`.

Exploring the models also showed the following, for which no run is kept:

- A failed provider call commits `failed` and leaves the lease in the row
  (`services.py:847`; `docs/operations/model-provider-failure-runbook.md:5` says it
  is released). `resume` queues the run again, so nothing is stuck.
- Two messages with one key that race may each find no run; when the first run
  has ended before the second commit, there are two runs for one key
  (`services.py:381-396`; no unique constraint).
- A plan that waits because a preference required approval may be resumed when none is
  required any more and then completes, with its request still pending; approving that
  runs the completed run again (`services.py:1092`, `683`).
- Approve and reject that race both commit; the later write of the row wins while
  both events are recorded. Accept and reject of a patch likewise: a patch may be
  `rejected` although its version is canonical.
- Two turns of one run, after a lease ran out under a worker or after cancel and
  resume, may each insert a patch; a completed run may be run again.
- A run, or a deletion, whose worker dies at the last attempt stays `running` for
  ever. `TurnsEnd` and `DeletionsEnd` exclude it: they promise an end only while
  attempts are left.
- An operation on a block that the same patch deleted earlier does nothing.
- An export stored after its project's deletion listed the artifacts leaves an
  object that no row names; two overlapping deletions can leave a version row
  without bytes, which no project selects.
- An embedding provider that fails during an upload leaves the version `normalizing`
  and its job `running` without a lease, which no worker claims
  (`application/sources.py:104`).
- The bytes under the key of a version may be those of an upload that lost the race for
  its number (`docs/components/sources-and-ingestion.md:3` says they are stored once
  per version). Passages are not affected, because they are made from the bytes in
  memory (`PassagesMatchHash`); a replay keeps blocks that exist.
- An index can be rebuilt once: a request for a version whose rebuild has ended is
  refused by the unique constraint.
- Replaying the job of an older version moves its source's pointer back to it, so
  `CurrentIsNewest` is about sources of which no job is replayed.
- A retried task whose worker writes back the attempts it has read at its claim may be
  retried more often than three times.
- As many rejected outbox rows as a batch holds keep every later row from being sent:
  `MessagesPublished` supposes fewer.
- Validating a published version again takes it out of publication until it is
  published again; two requests that race may create two skills with one slug.

## 4. What is proved

TLAPS checks the following for every value of the constants that satisfies the
named assumptions (`PatchesAssumption`, `BlockIdsAssumption`, `PinnedAssumption`,
`ConstantsAssumption`, `RetentionAssumption`, `SourcesAssumption`,
`EventsAssumption`, `NothingIsNoEvent`, `OutboxAssumption`, `SkillsAssumption`:
identifiers of different kinds differ, bounds are natural numbers, and there are
finitely many publishers).

| Module | Theorems | Inductive invariant and why it is needed |
|---|---|---|
| `ContentReviewProofs` | `TypeCorrect`, `PointerIsNewest`, `LineageIsRooted`, `ReplayIsAnswered`, `InTurnNothingOverwritten`, `InTurnReplayAnswersOwn`, `DecisionsInTurnAreCanonical`, `HistoryIsAppendOnly` | `IInv` adds `LoadedInv` to the properties: bases are versions that exist, and a number a handler has read is at most one above the pointer and above the base of its patch, so a free one is exactly the next. `DecisionsInTurnAreCanonical` is the step simulation of `CanonicalContent` when one thread takes all decisions (`OneReviewer`): `OneInv` says that what the thread has read is still so when it commits. Under the same condition nothing is overwritten and a repeated accept is answered with its own version, the two claims that fail without it. `HistoryIsAppendOnly` is the step simulation for any number of reviewers; `CountInv` adds that there are as many versions as the pointer says, so the history the refinement reads off the rows has no gap |
| `ContentBlocksProofs` | `BlocksTypeCorrect`, `BlockIdsDistinct`, `UntouchedBlocksSurvive`, `StayingBlocksInOrder`, `MovedBlocksBehindAnchor` | adds `WorkingCopyKeepsBase` (the working copy keeps, at every operation, the blocks no operation so far has named) and `IdleIsEmpty`; lemmas about removing from and inserting into sequences carry the argument. For order, `PlacesInv`: the working copy keeps the order of the blocks that no operation so far displaces, and a block whose last displacement was a move stands behind its anchor; moves name blocks of the base only, so a block that is being inserted is never one of them |
| `AgentRunsProofs` | `RunsTypeCorrect`, `EventNumbersGapless`, `WaitingRunsDecidable`, `PlansAreApproved`, `TurnsAreTaken`, `OnlyCancelsUndo` | adds `ProcInv`: what each process may hold at each `pc`: a row whose kind is its run's and whose `outline` is set only if the run's is, an event number not above the last, a `completed` local plan only with `outline`, and for a decision that the run waits only if the row it loaded did; `AbsentInv` says that runs that do not exist have no events, and `FiniteEvents` that `Cardinality` counts. The last two theorems suppose `~LongTurns`, `~NewPreferences` and `OneAtATime` (a client that resumes or decides a run is the only one to handle it, but for those that cancel it) and rest on `TurnInv`: a process that turns finds its run running under a lease, or cancelled, or failed, and no other process turns with it; what decides has a pending approval. `OnlyCancelsUndo` says which one step writes over a completed run |
| `RetentionProofs` | `RetentionTypeCorrect`, `CompletedRequestsMeanGone`, `LiveExportsAreStored`, `DecidedJobsAreFinal`, `DeletionKeepsLifecycle` | adds `DeletionInv` and `ExportInv` (jobs are about projects that were created; projects with a request are pending or gone, and never go back), `GoneInv`, and `ProcInv`: what an eraser holds are artifacts of its own project, and a renderer about to complete has its artifact in the store unless its project is doomed. `Evolves` is what every step does to rows, from which everything an uninvolved process has read stays sound. `DecidedJobsAreFinal` supposes `~LongJobs`; `OwnInv` says that a worker at work holds the lease of its job, alone, until the row is gone. `DeletionKeepsLifecycle` is the step simulation of `ProjectLifecycle` and supposes nothing; `EmptiedInv` says that a worker that has done the bulk deletes holds every export of the project but those ordered after it was doomed, which is why the commit takes all others |
| `SourceVersionsProofs` | `SourcesTypeCorrect`, `PassagesAreTheirOwn`, `ServedIsSafe`, `ReadyMeansIndexed`, `IndexesExact`, `PointerIsNewestReady` | `BlocksInv` and `ReadyInv` say of blocks and chunks what the properties say of ready versions; `AbsentInv` that a version without a row has nothing, so that an insert starts from nothing; `JobInv` that only jobs of versions that were ready once can be claimed; `WorkerInv` that what a worker has loaded belongs to such a version, which is why bytes of another upload in the store do no harm; `ExactInv` that, of a version whose rebuilds kept their leases, one worker holds the job, and the chunks it is about to delete are all there are; `NewestInv` that the numbers of a source have no gap, that all numbers below one that an upload has read are taken, and that a job in an ingester's batch has been claimed |
| `ThreadEventsProofs` | `EventsTypeCorrect`, `EventNumbersWithoutGap`, `TasksTellOnce`, `StreamIsTheLog`, `OlderAnswersHide` | `Numbered` closes the numbers of a run downwards; `RequestInv` and `WorkerInv` say that a number somebody has read follows one that is used, so a free one is the next; `SharedInv` counts, for each task, the workers at it that do not hold its lease any more: with the completions told so far there are no more of them than leases were outlasted, and one more once it is completed, so `CompletedOnce` speaks of any number of workers at one task; `PairInv` that completions are told in pairs with starts. `StreamIsTheLog` is the step simulation of `EventLog` for a thread of one run (`OneRun`): `ReaderInv` says that what the browser has received, and that together with the frames on their way, are the first events of the run, so the next frame is the next event of the log. `OlderAnswersHide` adds `AnswerInv`: an answer of `load()` holds the first events of the run too |
| `OutboxProofs` | `OutboxTypeCorrect`, `PublishedMeansDelivered`, `RepetitionsHaveACause` | `SentInv`: who is about to mark has delivered; `Counted` bounds deliveries by the marks to come (`Sent`) before the first mark, and by the publishers that do not hold the row any more (`Holding`) after it |
| `SkillsProofs` | `SkillsTypeCorrect`, `ServedVersionsSound`, `OneAnswerPerKey` | what a thread is about to publish, pin or answer was sound, published or recorded when it was read, and stays so; the author's second commit changes neither the text of a version nor its status, so it keeps what is sound |

Each proof has the form `Init => IInv`, one lemma per action or group of similar
actions for `IInv /\ Next => IInv'`, and PTL at the end.

What the hypotheses exclude is excluded because the claim fails without it. With two
reviewers `CanonicalSpec` is not implemented (`review_overwrite`); with a second run
the stream is no log (`ThreadEvents_LaterEventsReplayed`); with new preferences a
completed run may still be approved; when a lease runs out under
a worker, two workers execute one run or job, and the later one writes over the
decision of the other; a client that cancels a run and resumes it while a worker is
still at it has a second worker execute it.

Only model-checked: liveness (`TurnsEnd`, `DeletionsEnd`, `ExportsEnd`, `TasksEnd`,
`MessagesPublished`, `JobsEnd`, and of `ImplementsEventLog` the half that says that the
browser receives everything in the end), because fairness and ENABLED are out of the
prover's reach, and `CompletedIsFinal`, which the theorem `OnlyCancelsUndo` covers but
for clients about to cancel. Every other invariant and action property that a passing run
checks, and the safety part of every refinement, is a theorem.

## 5. What the modules leave out

- Contents: texts, prompts, events' payloads, formats, timestamps other than leases.
- A worker claims up to 25 jobs at once; the modules claim one at a time, which
  leaves more to the scheduler: a batch is a sequence of claims of which none runs
  in between, except that its later leases run while the earlier jobs are worked on
  (counted as a lease that runs out under a worker).
- `AgentRuns`: the plan of a run whose message does not ask for approval is approved or
  not as the preferences of each turn have it (`NewPreferences`); without
  `NewPreferences`, a run whose plan the preferences want approved has the kind `plan`
  too. Left out are the arithmetic of budgets, todos and checkpoints; events that
  delegated tasks append to the parent run; the cancellation flag that a deletion
  request sets on active runs without changing their status (`services.py:2651-2653`);
  other projects, which share nothing with the one modelled.
- `Retention`: `DeleteRecords` reads the configurations and deletes the export rows in
  one step, and `DeletionRead` the project and its open requests. Commits are modelled
  as PostgreSQL has them; SQLite, whose first bulk delete takes the write lock of the
  database, closes the window between `DeleteRecords` and `EraseCommit`. Legal holds
  are set and lifted in `retention_progress` only (`LegalHolds`), to keep `retention`
  small. Left out are idempotency keys, `sources.current_version_id`, uploads (every
  version exists and is ready at the start), checkpoint directories (one more object
  that may fail to be deleted). A project has one configuration because
  nothing in the code adds a second one.
- `SourceVersions`: a worker that rolled back an earlier job of its batch rereads the
  next one and leaves it alone if another worker has completed it (`sources.py:142-143`);
  the module has it go through the job once more, which keeps blocks and chunks. Left out
  are downloads, deletion of sources (no code deletes one outside
  `Retention`), what chunks contain, retrieval. A rebuild is requested at most once per
  version, as the schema has it.
- `ThreadEvents`: the payloads of events, the visibility filter, keep-alive frames, and
  the tasks a turn makes already completed, whose events are the turn's own
  (`RequestCommits`).
- `Outbox`: the count of attempts, which nothing reads, and signatures.
- `Skills`: what the author's second commit writes (`noted`: the provider and the model
  beside the text); the idempotency records of forks and repairs, which work as that of
  projects; the record's request hash.
- Content review: `accept_outline`, which approves headings and makes no version, and
  `validate_content`, which scores one. Exports: keys of requests, downloads.
- Memory, preferences, lists, retrieval, evaluation: reads, single inserts, and
  settings of which the last update wins.
- Authorisation and tenancy: every handler is called by someone allowed to.

## 6. Plan

Done: `CanonicalContent`, `ContentReview`, `ContentBlocks`, `AgentRuns`,
`ProjectLifecycle`, `Retention`, `SourceVersions`, `EventLog`, `ThreadEvents`, `Outbox` and `Skills`, each
system module with its proofs.

Next, in this order:

1. Abstract specifications that are still missing: the life of one run as a client
   sees it, for `AgentRuns`, and a channel that delivers at least once, for `Outbox`;
   then their step simulations.
2. Composition: `AgentRuns` with the requests of `Retention`, which flag the runs of a
   project and later delete them under their workers; and `SourceVersions` with
   `Retention` (uploads and ingestion during a deletion).
3. `accept_outline` and `validate_content` as further handlers of `ContentReview`, and
   the key of an export request in `Retention`.
4. The budget of the harness: pure operators checked against reference definitions.
