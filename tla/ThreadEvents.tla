---------------------------- MODULE ThreadEvents ----------------------------
(***************************************************************************)
(* The public events of a thread: transactions that append them with a     *)
(* number per run (application/events.py), the delegated tasks whose       *)
(* worker does so (services.py), and the browser that replays the thread   *)
(* over SSE from the last event it has (main.py, frontend/src/api.js).     *)
(*                                                                         *)
(* The database is READ COMMITTED and a session keeps the rows it has read *)
(* until it rolls back.  What a run does is in AgentRuns; here it is       *)
(* active, then ended or cancelled, and followed by the next run.          *)
(***************************************************************************)
EXTENDS Naturals, FiniteSets

CONSTANTS
    Nothing,        \* no event, no run that was read
    Runs,           \* bound: runs of the thread, 1 to a number, in their order
    Tasks,          \* delegated tasks, numbers in the order of created_at
    Parent,         \* task -> its parent run
    Requests,       \* transactions that append one event to a run
    Workers,        \* delegated-task workers
    Loads,          \* bound: calls of load() in the browser
    RetryLimit,     \* retries a task may be granted; 3 in the code
    MaxFaults,      \* bound: workers that die, leases that expire under a task
    MaxDrops        \* bound: connections of the browser that are lost

VARIABLES
    run,            \* agent_runs.status, with cancel_requested
    event,          \* rows of public_events
    task,           \* rows of delegated_tasks
    request,        \* request -> its run and the number it has read
    worker,         \* worker -> its batch and what its session has read
    reader,         \* the browser: its cursor, the frames to come, the events
                    \* that were handed over, and the list it shows
    load,           \* call of load() -> its answer of GET /events
    faults,         \* dead workers and expired leases of live tasks so far
    drops,          \* lost connections so far
    overrun         \* task -> its leases that ended under a worker

rows == <<run, event, task>>
bounds == <<faults, drops, overrun>>
browser == <<reader, load>>
vars == <<rows, request, worker, browser, bounds>>

ASSUME EventsAssumption ==
    /\ Nothing \notin Runs
    /\ Runs \subseteq Nat /\ Tasks \subseteq Nat
    /\ Parent \in [Tasks -> Runs]
    /\ RetryLimit \in Nat
    /\ MaxFaults \in Nat
    /\ MaxDrops \in Nat

RunStatus == {"none", "active", "cancelled", "ended"}

Event == [run : Runs, seq : Nat \ {0},
          about : Tasks \union Requests \union Runs,
          type : {"started", "completed", "other"}]

ASSUME NothingIsNoEvent == Nothing \notin Event

\* queued only by a retry: the turn that makes a task makes it completed.
TaskStatus == {"queued", "running", "completed", "failed", "cancelled"}

Task == [status : TaskStatus, attempts : Nat, lease : {"none", "held", "expired"}]

Request == [pc : {"idle", "numbered", "ended"}, run : Runs \union {Nothing}, seq : Nat]

\* seen: the parent run, once the session has read it; stale: the session
\* has not rolled back since the claim and still has the claimed rows.
Worker == [pc : {"idle", "claimed", "started"}, batch : SUBSET Tasks,
           seen : [Runs -> RunStatus \union {Nothing}], stale : BOOLEAN,
           claimed : [Tasks -> Nat], seq : Nat]

Reader == [cursor : Event \union {Nothing}, frames : SUBSET Event,
           received : SUBSET Event, shown : SUBSET Event]

Load == [pc : {"called", "answered", "applied"}, answer : SUBSET Event]

\* Rows, and what processes have read, have their types.
TypeOK ==
    /\ run \in [Runs -> RunStatus]
    /\ event \subseteq Event
    /\ task \in [Tasks -> Task]
    /\ request \in [Requests -> Request]
    /\ worker \in [Workers -> Worker]
    /\ reader \in Reader
    /\ load \in [Loads -> Load]
    /\ faults \in Nat /\ drops \in Nat
    /\ overrun \in [Tasks -> Nat]

Resting == [pc |-> "idle", batch |-> {}, seen |-> [r \in Runs |-> Nothing],
            stale |-> TRUE, claimed |-> [t \in Tasks |-> 0], seq |-> 0]

\* No run yet.  The tasks a run will have are failed, as the recovery test
\* sets them up: no code of the repository makes one fail before it is retried.
Init ==
    /\ run = [r \in Runs |-> "none"]
    /\ event = {}
    /\ task = [t \in Tasks |-> [status |-> "failed", attempts |-> 0, lease |-> "none"]]
    /\ request = [q \in Requests |-> [pc |-> "idle", run |-> Nothing, seq |-> 0]]
    /\ worker = [w \in Workers |-> Resting]
    /\ reader = [cursor |-> Nothing, frames |-> {}, received |-> {}, shown |-> {}]
    /\ load = [l \in Loads |-> [pc |-> "called", answer |-> {}]]
    /\ faults = 0 /\ drops = 0
    /\ overrun = [t \in Tasks |-> 0]

-----------------------------------------------------------------------------
(* Appending events *)

Of(r) == {e \in event : e.run = r}

\* max(seq) of the committed events of run r, or 0.
LastSeq(r) ==
    CHOOSE n \in {0} \union {e.seq : e \in Of(r)} : \A e \in Of(r) : e.seq <= n

\* A fault: no unique constraint.
FreeAnyway(r, n) == TRUE

\* uq_public_event_run_seq lets number n in.
Free(r, n) == \A e \in Of(r) : e.seq # n

\* A turn starts: no other run of the project is active.
RunStarts(r) ==
    /\ run[r] = "none"
    /\ \A s \in Runs : s < r => run[s] \in {"cancelled", "ended"}
    /\ run' = [run EXCEPT ![r] = "active"]
    /\ event' = event \union {[run |-> r, seq |-> 1, about |-> r, type |-> "other"]}
    /\ UNCHANGED <<task, request, worker, browser, bounds>>

\* run_cancel appends no event.
RunCancelled(r) ==
    /\ run[r] = "active"
    /\ run' = [run EXCEPT ![r] = "cancelled"]
    /\ UNCHANGED <<event, task, request, worker, browser, bounds>>

\* A transaction reads the last number: a turn, or a reconciliation of the
\* tasks of any run.
RequestReads(q, r) ==
    /\ request[q].pc = "idle"
    /\ run[r] # "none"
    /\ request' = [request EXCEPT ![q] =
                    [pc |-> "numbered", run |-> r, seq |-> LastSeq(r) + 1]]
    /\ UNCHANGED <<rows, worker, browser, bounds>>

\* It commits, and may be the one that ends the turn.
RequestCommits(q, r) ==
    /\ request[q].pc = "numbered"
    /\ r = request[q].run
    /\ Free(r, request[q].seq)
    /\ event' = event \union
        {[run |-> r, seq |-> request[q].seq, about |-> q, type |-> "other"]}
    /\ request' = [request EXCEPT ![q].pc = "ended"]
    /\ \/ run[r] = "active" /\ run' = [run EXCEPT ![r] = "ended"]
       \/ UNCHANGED run
    /\ UNCHANGED <<task, worker, browser, bounds>>

\* The constraint refuses the number, or the transaction fails otherwise.
RequestFails(q) ==
    /\ request[q].pc = "numbered"
    /\ request' = [request EXCEPT ![q].pc = "ended"]
    /\ UNCHANGED <<rows, worker, browser, bounds>>

-----------------------------------------------------------------------------
(* Delegated tasks *)

\* retry_delegated_task; a task that waits, runs or is completed is returned.
Retry(t) ==
    /\ run[Parent[t]] # "none"
    /\ task[t].status \notin {"queued", "running", "completed"}
    /\ task[t].attempts < RetryLimit
    /\ task' = [task EXCEPT ![t] = [status |-> "queued",
                    attempts |-> task[t].attempts + 1, lease |-> "none"]]
    /\ UNCHANGED <<run, event, request, worker, browser, bounds>>

\* A fault: a running task is left to the worker that has it.
ClaimableOnce(t) == task[t].status = "queued"

Claimable(t) ==
    \/ task[t].status = "queued"
    \/ task[t].status = "running" /\ task[t].lease = "expired"

Claim(w, batch) ==
    /\ worker[w].pc = "idle"
    /\ batch = {t \in Tasks : Claimable(t)}
    /\ batch # {}
    /\ task' = [t \in Tasks |-> IF t \in batch
                    THEN [task[t] EXCEPT !.status = "running", !.lease = "held"]
                    ELSE task[t]]
    /\ worker' = [worker EXCEPT ![w] = [Resting EXCEPT !.pc = "claimed",
                    !.batch = batch, !.claimed = [t \in Tasks |-> task[t].attempts]]]
    /\ UNCHANGED <<run, event, request, browser, bounds>>

\* The task worker w comes to: the oldest of those that are left.
At(w, t) == t \in worker[w].batch /\ \A o \in worker[w].batch : t <= o

\* w goes on with the rest of its batch, with session what it has read.
Proceeds(w, t, session) ==
    LET rest == worker[w].batch \ {t} IN
    worker' = [worker EXCEPT ![w] =
        IF rest = {} THEN Resting ELSE [session EXCEPT !.pc = "claimed", !.batch = rest]]

\* What the session of w takes the status of run r for.
SeenRun(w, r) == IF worker[w].seen[r] = Nothing THEN run[r] ELSE worker[w].seen[r]

\* Only changed columns are written: the attempts stay.
Ends(t, status) == task' = [task EXCEPT ![t].status = status, ![t].lease = "none"]

\* The parent run is cancelled.
TaskCancelled(w, t) ==
    /\ worker[w].pc = "claimed" /\ At(w, t)
    /\ SeenRun(w, Parent[t]) = "cancelled"
    /\ Ends(t, "cancelled")
    /\ Proceeds(w, t, [worker[w] EXCEPT !.seen[Parent[t]] = "cancelled"])
    /\ UNCHANGED <<run, event, request, browser, bounds>>

\* A session that rolled back reads that another worker completed the task.
TaskIsCompleted(w, t) ==
    /\ worker[w].pc = "claimed" /\ At(w, t)
    /\ SeenRun(w, Parent[t]) # "cancelled"
    /\ ~worker[w].stale /\ task[t].status = "completed"
    /\ Proceeds(w, t, [worker[w] EXCEPT !.seen[Parent[t]] = SeenRun(w, Parent[t])])
    /\ UNCHANGED <<rows, request, browser, bounds>>

\* The number of subagent.started is read.
TaskStarts(w, t) ==
    /\ worker[w].pc = "claimed" /\ At(w, t)
    /\ SeenRun(w, Parent[t]) # "cancelled"
    /\ ~worker[w].stale => task[t].status # "completed"
    /\ worker' = [worker EXCEPT
            ![w].pc = "started",
            ![w].seen[Parent[t]] = SeenRun(w, Parent[t]),
            ![w].claimed[t] = IF worker[w].stale THEN @ ELSE task[t].attempts,
            ![w].seq = LastSeq(Parent[t]) + 1]
    /\ UNCHANGED <<rows, request, browser, bounds>>

TaskEvents(w, t) ==
    {[run |-> Parent[t], seq |-> worker[w].seq, about |-> t, type |-> "started"],
     [run |-> Parent[t], seq |-> LastSeq(Parent[t]) + 2, about |-> t, type |-> "completed"]}

\* The second number is read with the first one pending; both are inserted
\* with the status.  The attempts are written back as the session knows them.
TaskCompletes(w, t) ==
    /\ worker[w].pc = "started" /\ At(w, t)
    /\ Free(Parent[t], worker[w].seq)
    /\ event' = event \union TaskEvents(w, t)
    /\ task' = [task EXCEPT ![t] = [status |-> "completed",
                    attempts |-> worker[w].claimed[t], lease |-> "none"]]
    /\ Proceeds(w, t, worker[w])
    /\ UNCHANGED <<run, request, browser, bounds>>

\* A fault: the events of the task are committed with its failure.
TaskFailsHalfway(w, t) ==
    /\ worker[w].pc # "idle" /\ At(w, t)
    /\ Ends(t, "failed")
    /\ event' = IF worker[w].pc = "started" /\ Free(Parent[t], worker[w].seq)
                THEN event \union TaskEvents(w, t) ELSE event
    /\ Proceeds(w, t, [worker[w] EXCEPT !.stale = FALSE,
                        !.seen = [r \in Runs |-> Nothing]])
    /\ UNCHANGED <<run, request, browser, bounds>>

\* Any exception, the constraint's among them: a rollback, which makes the
\* session forget its rows, then the failure is written whatever the task
\* is by then.
TaskFails(w, t) ==
    /\ worker[w].pc # "idle" /\ At(w, t)
    /\ Ends(t, "failed")
    /\ Proceeds(w, t, [worker[w] EXCEPT !.stale = FALSE,
                        !.seen = [r \in Runs |-> Nothing]])
    /\ UNCHANGED <<run, event, request, browser, bounds>>

WorkerDies(w) ==
    /\ worker[w].pc # "idle"
    /\ faults < MaxFaults
    /\ faults' = faults + 1
    /\ worker' = [worker EXCEPT ![w] = Resting]
    /\ UNCHANGED <<rows, request, browser, drops, overrun>>

\* The lease of a task ends: at any time when its worker is gone, and while
\* it works, if it is slow.
LeaseEnds(t) ==
    /\ task[t].status = "running" /\ task[t].lease = "held"
    /\ task' = [task EXCEPT ![t].lease = "expired"]
    /\ \/ /\ \A w \in Workers : t \notin worker[w].batch
          /\ UNCHANGED <<faults, overrun>>
       \/ /\ \E w \in Workers : t \in worker[w].batch
          /\ faults < MaxFaults
          /\ faults' = faults + 1
          /\ overrun' = [overrun EXCEPT ![t] = @ + 1]
    /\ UNCHANGED <<run, event, request, worker, browser, drops>>

-----------------------------------------------------------------------------
(* The browser *)

\* The endpoint replays the thread from the event Last-Event-ID names: its
\* number is compared with those of all runs.
Replay(cursor) ==
    IF cursor = Nothing THEN event ELSE {e \in event : e.seq > cursor.seq}

\* The replay is finite; the browser connects again when it has ended.
Connect ==
    /\ reader.frames = {}
    /\ reader' = [reader EXCEPT !.frames = Replay(reader.cursor)]
    /\ UNCHANGED <<rows, request, worker, load, bounds>>

\* A fault: the frames come in no order.
InAnyOrder(e, frames) == TRUE

\* The frames come in the order of their numbers.
InOrder(e, frames) == \A f \in frames : e.seq <= f.seq

\* A frame moves the cursor and is handed over, to be shown unless it is
\* shown already.
Frame(e) ==
    /\ e \in reader.frames
    /\ InOrder(e, reader.frames)
    /\ reader' = [cursor |-> e, frames |-> reader.frames \ {e},
                  received |-> reader.received \union {e},
                  shown |-> reader.shown \union {e}]
    /\ UNCHANGED <<rows, request, worker, load, bounds>>

\* The connection is lost; a frame that has not arrived whole is dropped.
Drop ==
    /\ reader.frames # {}
    /\ drops < MaxDrops
    /\ drops' = drops + 1
    /\ reader' = [reader EXCEPT !.frames = {}]
    /\ UNCHANGED <<rows, request, worker, load, faults, overrun>>

\* A fault: load() asks for what follows the cursor, as the stream does.
AskedFromCursor == Replay(reader.cursor)

\* load() asks for the whole thread.
Asked == event

\* load() is called when the page is opened, after user actions and on
\* events that tell of a decision or an end; GET /events is answered.
LoadAnswered(l) ==
    /\ load[l].pc = "called"
    /\ load' = [load EXCEPT ![l] = [pc |-> "answered", answer |-> Asked]]
    /\ UNCHANGED <<rows, request, worker, reader, bounds>>

\* When its other requests are answered too, the list is replaced by the
\* answer, whatever has been shown since.  If one fails, it is not.
LoadApplied(l) ==
    /\ load[l].pc = "answered"
    /\ reader' = [reader EXCEPT !.shown = load[l].answer]
    /\ load' = [load EXCEPT ![l].pc = "applied"]
    /\ UNCHANGED <<rows, request, worker, bounds>>

-----------------------------------------------------------------------------
RequestStep(q) ==
    \/ \E r \in Runs : RequestReads(q, r) \/ RequestCommits(q, r)
    \/ RequestFails(q)

TaskStep(w) ==
    \/ \E batch \in SUBSET Tasks : Claim(w, batch)
    \/ \E t \in Tasks :
        \/ TaskCancelled(w, t)
        \/ TaskIsCompleted(w, t)
        \/ TaskStarts(w, t)
        \/ TaskCompletes(w, t)
        \/ TaskFails(w, t)

Expiry == \E t \in Tasks : LeaseEnds(t)

Browse == Connect \/ \E e \in reader.frames : Frame(e)

Next ==
    \/ \E r \in Runs : RunStarts(r) \/ RunCancelled(r)
    \/ \E q \in Requests : RequestStep(q)
    \/ \E t \in Tasks : Retry(t)
    \/ \E w \in Workers : TaskStep(w) \/ WorkerDies(w)
    \/ Expiry
    \/ Browse
    \/ Drop
    \/ \E l \in Loads : LoadAnswered(l) \/ LoadApplied(l)

Spec == Init /\ [][Next]_vars

\* Workers are started again and again, time passes, and the browser stays.
Fairness ==
    /\ \A w \in Workers : WF_vars(TaskStep(w))
    /\ WF_vars(Expiry)
    /\ WF_vars(Browse)

FairSpec == Spec /\ Fairness

-----------------------------------------------------------------------------
\* The numbers of a run's events are 1, 2, 3 and so on, each used once,
\* although transactions read the last number long before they commit.
NumbersWithoutGap ==
    /\ \A e \in event : e.seq > 1 => \E d \in Of(e.run) : d.seq + 1 = e.seq
    /\ \A d, e \in event : d.run = e.run /\ d.seq = e.seq => d = e

\* The events of one type that task t has told.
Told(t, type) == {e \in Of(Parent[t]) : e.about = t /\ e.type = type}

\* A completed task has told so in a pair of events and any other task has
\* told nothing: a retry, a lost race for a number or a dead worker neither
\* repeats nor loses it.  Each lease that ended under a worker, which lets a
\* second one have the task at once, may add one more pair, and no half of it.
CompletedOnce ==
    \A t \in Tasks, type \in {"started", "completed"} :
        LET once == IF task[t].status = "completed" THEN 1 ELSE 0 IN
        /\ Cardinality(Told(t, type)) \in once..(once + overrun[t])
        /\ Cardinality(Told(t, type)) = Cardinality(Told(t, "started"))

\* A claimed or queued task comes to an end, although workers die or are slow.
TasksEnd ==
    \A t \in Tasks : task[t].status = "queued"
        ~> task[t].status \in {"completed", "failed", "cancelled"}

\* Events E in the order of their numbers.
InSequence(E) ==
    [n \in 1..Cardinality(E) |->
        CHOOSE e \in E : Cardinality({d \in E : d.seq <= e.seq}) = n]

Log == INSTANCE EventLog WITH
    log <- InSequence(event), received <- InSequence(reader.received)

\* The stream of a thread with one run implements the log of its events: it
\* hands over each, although the browser asks only for what follows its cursor.
ImplementsEventLog == Log!LogSpec

\* In a thread with one run, an event that was handed over is missing from the
\* list only if it is newer than a whole answer of load() that was applied: the
\* stream and the answers leave no other gap, in whatever order they come.
HiddenByOlderAnswer ==
    \A e \in reader.received \ reader.shown :
        \E l \in Loads : /\ load[l].pc = "applied"
                         /\ \A d \in load[l].answer : d.seq < e.seq

\* An event that was handed over is shown.  Fails: an answer of load() that is
\* applied late takes away events the cursor has passed.
ReceivedIsShown == reader.received \subseteq reader.shown

\* Reconnect supplies last event ID; replays later persisted events
\* (docs/contracts/sse-event-catalog.md).  Fails for a thread with two runs:
\* the numbers of the second start again at 1, below the browser's cursor.
LaterEventsReplayed ==
    \A r \in Runs : (\E e \in event : e.run = r /\ e.seq = 1)
                        ~> (\E e \in reader.received : e.run = r /\ e.seq = 1)
=============================================================================
