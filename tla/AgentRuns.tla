------------------------------ MODULE AgentRuns ------------------------------
(***************************************************************************)
(* The life of the agent runs of one project: services.py start_run,       *)
(* claim_agent_runs, run_agent_worker_once, resolve_approval and           *)
(* execute_agent_turn, the cancel and resume handlers of main.py, and      *)
(* append_event of application/events.py.                                  *)
(*                                                                         *)
(* API threads and workers work on the rows their own sessions loaded.     *)
(* Sessions neither autoflush nor expire rows on commit, so a turn keeps   *)
(* the row it was started with; a commit writes only the columns whose     *)
(* value differs from the one loaded, and is refused only by a unique      *)
(* constraint.  Every query of its own and every commit is a step.         *)
(***************************************************************************)
EXTENDS Naturals, FiniteSets, FiniteSetsExt

CONSTANTS
    Runs,           \* identifiers new_id("run") may return
    Keys,           \* idempotency keys of messages
    Kinds,          \* what messages ask for: "answer", "draft", "plan"
    Threads,        \* API request threads
    Workers,        \* agent workers
    MaxAttempts,    \* settings.agent_max_attempts
    Deployments,    \* the settings a deployment may have: see Deployment
    MaxRequests,    \* bound: API requests
    NewPreferences, \* what requires approval of plans may change between turns
    LongTurns,      \* a turn may outlast the lease of its worker
    MaxFaults,      \* bound: processes that die, leases that expire under a turn
    MaxEvents       \* bound: events of a run before the provider must finish

VARIABLES
    run,            \* rows of agent_runs
    approval,       \* run -> status of its plan row in approval_requests
    events,         \* run -> its rows of public_events, one per commit
    proposals,      \* run -> number of rows its turns inserted into patches
    proc,           \* thread or worker -> its handler and what it has loaded
    settings,       \* the deployment; it never changes
    requests,       \* API requests so far
    faults          \* crashes and expired leases of live turns so far

given == <<settings, requests, faults>>
vars == <<run, approval, events, proposals, proc, given>>

\* deep: a model provider runs the turns, not the local adapter;
\* queued: runs wait for a worker, they are not executed by the API thread.
Deployment == [deep : BOOLEAN, queued : BOOLEAN]

NoRun == "no run"
NoGoal == "nothing"
NoKey == "no key"

Goals == {"progress", "approved", "rejected", "completed", "cancelled",
          "failed", "waiting_for_user", "waiting_for_approval"}

ASSUME ConstantsAssumption ==
    /\ NoRun \notin Runs
    /\ Keys \cap (Goals \union {NoGoal, NoKey}) = {}
    /\ Kinds \subseteq {"answer", "draft", "plan"}
    /\ Threads \cap Workers = {}
    /\ MaxAttempts \in Nat \ {0}
    /\ Deployments \subseteq Deployment
    /\ {NewPreferences, LongTurns} \subseteq BOOLEAN
    /\ {MaxRequests, MaxFaults, MaxEvents} \subseteq Nat

Active == {"queued", "running", "waiting_for_user", "waiting_for_approval"}

Resumable == {"failed", "cancelled", "waiting_for_user", "waiting_for_approval"}

Row == [status   : Active \union Resumable \union {"absent", "completed"},
        cancel   : BOOLEAN,
        attempts : Nat,
        lease    : {"none", "held", "expired"},
        outline  : BOOLEAN,
        key      : Keys \union {NoKey},
        kind     : Kinds \union {NoGoal}]

Event == [seq : Nat \ {0}, type : Goals \union {"started"}]

Pc == {"idle", "creating", "cancelling", "resuming", "turn", "streaming",
       "appending", "ending", "raised", "requeueing"}

Process == [pc : Pc, run : Runs \union {NoRun}, row : Row,
            goal : Goals \union Keys \union {NoGoal}, base : Nat]

Agents == Threads \union Workers

NoRow == [status |-> "absent", cancel |-> FALSE, attempts |-> 0,
          lease |-> "none", outline |-> FALSE, key |-> NoKey, kind |-> NoGoal]

Idle == [pc |-> "idle", run |-> NoRun, row |-> NoRow, goal |-> NoGoal, base |-> 0]

\* Rows and loaded values have their types; a process at work on a run holds
\* the run it works on.
TypeOK ==
    /\ run \in [Runs -> Row]
    /\ approval \in [Runs -> {"none", "pending", "approved", "rejected"}]
    /\ events \in [Runs -> SUBSET Event]
    /\ proposals \in [Runs -> Nat]
    /\ proc \in [Agents -> Process]
    /\ \A p \in Agents :
          /\ proc[p].pc \notin {"idle", "creating"} => proc[p].run \in Runs
          /\ proc[p].pc \in {"appending", "ending"} => proc[p].goal \in Goals
          /\ proc[p].pc = "creating" => proc[p].goal \in Keys
    /\ settings \in Deployments
    /\ requests \in Nat /\ faults \in Nat

Init ==
    /\ run = [r \in Runs |-> NoRow]
    /\ approval = [r \in Runs |-> "none"]
    /\ events = [r \in Runs |-> {}]
    /\ proposals = [r \in Runs |-> 0]
    /\ proc = [p \in Agents |-> Idle]
    /\ settings \in Deployments
    /\ requests = 0 /\ faults = 0

-----------------------------------------------------------------------------
(* Rows, sessions and commits *)

\* queue_for_worker: the state in which a run is handed to its turn.
StartStatus == IF settings.queued THEN "queued" ELSE "running"

\* Process p is at pc with run r; row is the state of it in p's session.
At(p, pc, r, row, goal, base) ==
    proc' = [proc EXCEPT ![p] = [pc |-> pc, run |-> r, row |-> row,
                                 goal |-> goal, base |-> base]]

Done(p) == proc' = [proc EXCEPT ![p] = Idle]

\* The exception reaches the caller: HTTP 500, or the worker's except clause.
Raise(p) ==
    IF p \in Workers
    THEN At(p, "raised", proc[p].run, NoRow, NoGoal, 0)
    ELSE Done(p)

\* A request begins: the handler loads the row of run r.
Open(t, pc, r, goal) ==
    /\ proc[t].pc = "idle"
    /\ requests < MaxRequests
    /\ requests' = requests + 1
    /\ At(t, pc, r, run[r], goal, 0)
    /\ UNCHANGED <<settings, faults>>

\* A column is written when the session changed the value it had loaded.
Column(now, loaded, new) == IF new = loaded THEN now ELSE new

Merged(now, loaded, new) ==
    [status   |-> Column(now.status, loaded.status, new.status),
     cancel   |-> Column(now.cancel, loaded.cancel, new.cancel),
     attempts |-> now.attempts,
     lease    |-> Column(now.lease, loaded.lease, new.lease),
     outline  |-> Column(now.outline, loaded.outline, new.outline),
     key      |-> now.key,
     kind     |-> now.kind]

\* What p's session makes of the stored row when it holds new.
Stored(p, new) == Merged(run[proc[p].run], proc[p].row, new)

Save(p, new) == run' = [run EXCEPT ![proc[p].run] = Stored(p, new)]

\* uq_agent_runs_one_active_per_project
IndexAllows(r, row) ==
    row.status \in Active => \A s \in Runs \ {r} : run[s].status \notin Active

LastSeq(r) == Max({e.seq : e \in events[r]} \union {0})

\* A fault: public_events has no unique constraint.
FreeSeqUnchecked(r, seq) == TRUE

\* uq_public_event_run_seq
FreeSeq(r, seq) == \A e \in events[r] : e.seq # seq

\* append_event's rows; the events of one commit count as one.
Append(r, seq, type) ==
    events' = [events EXCEPT ![r] = @ \union {[seq |-> seq, type |-> type]}]

-----------------------------------------------------------------------------
(* Handlers of the API *)

\* start_run: a message whose key is known is answered with its run and one
\* sent while another turn is active is refused; neither changes anything.
StartRead(t, k) ==
    /\ proc[t].pc = "idle"
    /\ requests < MaxRequests
    /\ \A r \in Runs : run[r].key # k /\ run[r].status \notin Active
    /\ requests' = requests + 1
    /\ At(t, "creating", NoRun, NoRow, k, 0)
    /\ UNCHANGED <<run, approval, events, proposals, settings, faults>>

NewRun(k, kind) ==
    [NoRow EXCEPT !.status = StartStatus, !.key = k, !.kind = kind]

\* What is asked for matters to the local adapter only.
StartCommit(t, r, kind) ==
    /\ proc[t].pc = "creating"
    /\ run[r].status = "absent"
    /\ IndexAllows(r, NewRun(proc[t].goal, kind))
    /\ run' = [run EXCEPT ![r] = NewRun(proc[t].goal, kind)]
    /\ Append(r, 1, "started")
    /\ IF settings.queued THEN Done(t) ELSE At(t, "turn", r, run'[r], NoGoal, 0)
    /\ UNCHANGED <<approval, proposals, given>>

\* The index refuses the row: the session is rolled back and answers 409.
StartConflict(t) ==
    /\ proc[t].pc = "creating"
    /\ \E r \in Runs : run[r].status \in Active
    /\ Done(t)
    /\ UNCHANGED <<run, approval, events, proposals, given>>

CancelRead(t, r) ==
    /\ run[r].status \in Active
    /\ Open(t, "cancelling", r, NoGoal)
    /\ UNCHANGED <<run, approval, events, proposals>>

CancelCommit(t) ==
    /\ proc[t].pc = "cancelling"
    /\ Save(t, [proc[t].row EXCEPT !.status = "cancelled", !.cancel = TRUE])
    /\ Done(t)
    /\ UNCHANGED <<approval, events, proposals, given>>

ResumeRead(t, r) ==
    /\ run[r].status \in Resumable
    /\ Open(t, "resuming", r, NoGoal)
    /\ UNCHANGED <<run, approval, events, proposals>>

ResumeCommit(t) ==
    LET new == [proc[t].row EXCEPT !.status = StartStatus, !.cancel = FALSE] IN
    /\ proc[t].pc = "resuming"
    /\ IndexAllows(proc[t].run, Stored(t, new))
    /\ Save(t, new)
    /\ IF settings.queued THEN Done(t) ELSE At(t, "turn", proc[t].run, new, NoGoal, 0)
    /\ UNCHANGED <<approval, events, proposals, given>>

ResumeConflict(t) ==
    /\ proc[t].pc = "resuming"
    /\ \E s \in Runs \ {proc[t].run} : run[s].status \in Active
    /\ Done(t)
    /\ UNCHANGED <<run, approval, events, proposals, given>>

\* resolve_approval loads a pending approval and then its run; a decided one
\* is answered as it is.
ResolveRead(t, r, decision) ==
    /\ approval[r] = "pending"
    /\ decision \in {"approved", "rejected"}
    /\ Open(t, "appending", r, decision)
    /\ UNCHANGED <<run, approval, events, proposals>>

-----------------------------------------------------------------------------
(* Workers *)

\* A fault: a running run is claimed whether or not its lease has expired.
ClaimableWhileHeld(r) ==
    /\ run[r].status \in {"queued", "running"}
    /\ run[r].attempts < MaxAttempts

Claimable(r) ==
    /\ \/ run[r].status = "queued"
       \/ run[r].status = "running" /\ run[r].lease = "expired"
    /\ run[r].attempts < MaxAttempts

\* claim_agent_runs locks, re-reads and updates the row in one transaction.
Claim(w, r) ==
    /\ proc[w].pc = "idle"
    /\ Claimable(r)
    /\ run' = [run EXCEPT ![r] = [run[r] EXCEPT !.status = "running",
                    !.attempts = @ + 1, !.lease = "held"]]
    /\ At(w, "turn", r, run'[r], NoGoal, 0)
    /\ UNCHANGED <<approval, events, proposals, given>>

\* The actor of the run is no longer a member of the workspace.
NoMembership(w) ==
    /\ w \in Workers
    /\ proc[w].pc = "turn"
    /\ Save(w, [proc[w].row EXCEPT !.status = "failed", !.lease = "none"])
    /\ Done(w)
    /\ UNCHANGED <<approval, events, proposals, given>>

\* The except clause rolls back and loads the row afresh.
ExceptRead(w) ==
    /\ proc[w].pc = "raised"
    /\ IF run[proc[w].run].status \in {"failed", "completed", "cancelled"}
       THEN Done(w)
       ELSE At(w, "requeueing", proc[w].run, run[proc[w].run], NoGoal, 0)
    /\ UNCHANGED <<run, approval, events, proposals, given>>

\* A fault: the run goes back to a state the schema does not know.
RequeuedAsRetrying(row) == [row EXCEPT !.status = "retrying", !.lease = "none"]

\* A fault: the lease is given back and the state left as it is.
RequeuedRunning(row) == [row EXCEPT !.lease = "none"]

Requeued(row) ==
    [row EXCEPT !.status = IF row.attempts < MaxAttempts THEN "queued" ELSE "failed",
                !.lease = "none"]

\* A commit the index refuses ends the worker process with its work undone.
ExceptCommit(w) ==
    /\ proc[w].pc = "requeueing"
    /\ \/ /\ IndexAllows(proc[w].run, Stored(w, Requeued(proc[w].row)))
          /\ Save(w, Requeued(proc[w].row))
       \/ /\ ~IndexAllows(proc[w].run, Stored(w, Requeued(proc[w].row)))
          /\ UNCHANGED run
    /\ Done(w)
    /\ UNCHANGED <<approval, events, proposals, given>>

-----------------------------------------------------------------------------
(* Turns *)

\* Process p goes on to append events and commit what it has come to.
Conclude(p, goal) ==
    /\ At(p, "appending", proc[p].run, proc[p].row, goal, 0)
    /\ UNCHANGED <<run, approval, events, proposals, given>>

\* A fault: no plan needs to be approved.
LocalGoalsUnapproved(row) ==
    {"waiting_for_user", IF row.cancel THEN "cancelled" ELSE "completed"}

\* What the local adapter comes to, by the row its session holds.  An approved
\* plan is completed without a further check; any other turn may meet a budget
\* first and then looks at the cancellation flag.  Each turn reads anew whether
\* the project or the workspace requires approval; a message may ask for it too.
LocalGoals(row) ==
    IF row.outline THEN {"completed"}
    ELSE IF row.cancel THEN {"waiting_for_user", "cancelled"}
    ELSE IF row.kind = "plan" THEN {"waiting_for_user", "waiting_for_approval"}
    ELSE {"waiting_for_user", "completed"} \union
         {goal \in {"waiting_for_approval"} : NewPreferences /\ row.kind = "draft"}

LocalTurn(p) ==
    /\ ~settings.deep
    /\ proc[p].pc = "turn"
    /\ \E goal \in LocalGoals(proc[p].row) : Conclude(p, goal)

\* The runtime builds the agent and opens the stream of the provider.
Invoke(p) ==
    /\ At(p, "streaming", proc[p].run, proc[p].row, NoGoal, 0)
    /\ UNCHANGED <<run, approval, events, proposals, given>>

\* execute_deep_agent_turn before it calls the provider
DeepTurn(p) ==
    /\ settings.deep
    /\ proc[p].pc = "turn"
    /\ \/ Conclude(p, "waiting_for_user")
       \/ proc[p].row.cancel /\ Conclude(p, "cancelled")
       \/ ~proc[p].row.cancel /\ Invoke(p)

\* Any other exception inside a turn: retrieval or the database is down.
TurnRaises(p) ==
    /\ proc[p].pc = "turn"
    /\ Raise(p)
    /\ UNCHANGED <<run, approval, events, proposals, given>>

ProviderProgress(p) ==
    /\ proc[p].pc = "streaming"
    /\ Cardinality(events[proc[p].run]) < MaxEvents
    /\ Conclude(p, "progress")

\* provider_cancel_requested reads the flag afresh, between the provider's
\* chunks and once more before the answer is recorded.
ProviderCancelled(p) ==
    /\ proc[p].pc = "streaming"
    /\ run[proc[p].run].cancel
    /\ Conclude(p, "cancelled")

ProviderAnswers(p) ==
    /\ proc[p].pc = "streaming"
    /\ ~run[proc[p].run].cancel
    /\ Conclude(p, "completed")

\* Every attempt failed, or the provider is not configured.
ProviderFails(p) ==
    /\ proc[p].pc = "streaming"
    /\ Conclude(p, "failed")

-----------------------------------------------------------------------------
(* Commits that append events *)

\* append_event queries max(seq) of the run.
NumberEvent(p) ==
    /\ proc[p].pc = "appending"
    /\ At(p, "ending", proc[p].run, proc[p].row, proc[p].goal, LastSeq(proc[p].run))
    /\ UNCHANGED <<run, approval, events, proposals, given>>

\* A fault: the decision on a plan leaves the run waiting.
ConcludedStillWaiting(p) ==
    LET row == proc[p].row  goal == proc[p].goal IN
    CASE goal \in {"progress", "rejected"} -> row
      [] goal = "approved" -> [row EXCEPT !.outline = TRUE]
      [] OTHER             -> [row EXCEPT !.status = goal]

\* The row in p's session once it has recorded its goal.
Concluded(p) ==
    LET row == proc[p].row  goal == proc[p].goal IN
    CASE goal = "progress" -> row
      [] goal = "approved" -> [row EXCEPT !.status = StartStatus, !.outline = TRUE]
      [] goal = "rejected" -> [row EXCEPT !.status = "cancelled"]
      [] OTHER             -> [row EXCEPT !.status = goal]

\* uq_approval_request_run_kind
ApprovalFree(p) ==
    proc[p].goal = "waiting_for_approval" => approval[proc[p].run] = "none"

Acceptable(p) ==
    /\ FreeSeq(proc[p].run, proc[p].base + 1)
    /\ IndexAllows(proc[p].run, Stored(p, Concluded(p)))
    /\ ApprovalFree(p)

\* The commit of p's goal, with the constraints the database checks.
Commit(p, goal) ==
    /\ proc[p].pc = "ending"
    /\ proc[p].goal = goal
    /\ Acceptable(p)
    /\ Save(p, Concluded(p))
    /\ Append(proc[p].run, proc[p].base + 1, goal)
    /\ UNCHANGED given

CommitProgress(p) ==
    /\ Commit(p, "progress")
    /\ At(p, "streaming", proc[p].run, proc[p].row, NoGoal, 0)
    /\ UNCHANGED <<approval, proposals>>

CommitApproved(t) ==
    /\ Commit(t, "approved")
    /\ approval' = [approval EXCEPT ![proc[t].run] = "approved"]
    /\ IF settings.queued THEN Done(t)
       ELSE At(t, "turn", proc[t].run, Concluded(t), NoGoal, 0)
    /\ UNCHANGED proposals

CommitRejected(t) ==
    /\ Commit(t, "rejected")
    /\ approval' = [approval EXCEPT ![proc[t].run] = "rejected"]
    /\ Done(t)
    /\ UNCHANGED proposals

CommitWaitingForApproval(p) ==
    /\ Commit(p, "waiting_for_approval")
    /\ approval' = [approval EXCEPT ![proc[p].run] = "pending"]
    /\ Done(p)
    /\ UNCHANGED proposals

\* A local turn that drafts or carries out a plan inserts a presented patch.
CommitCompleted(p) ==
    /\ Commit(p, "completed")
    /\ proposals' = IF settings.deep \/ proc[p].row.kind = "answer" THEN proposals
                    ELSE [proposals EXCEPT ![proc[p].run] = @ + 1]
    /\ Done(p)
    /\ UNCHANGED approval

CommitStopped(p) ==
    /\ Commit(p, "cancelled") \/ Commit(p, "waiting_for_user")
    /\ Done(p)
    /\ UNCHANGED <<approval, proposals>>

\* The failure is committed before the exception leaves the turn.
CommitFailed(p) ==
    /\ Commit(p, "failed")
    /\ Raise(p)
    /\ UNCHANGED <<approval, proposals>>

CommitRefused(p) ==
    /\ proc[p].pc = "ending"
    /\ ~Acceptable(p)
    /\ Raise(p)
    /\ UNCHANGED <<run, approval, events, proposals, given>>

-----------------------------------------------------------------------------
(* Environment *)

AtWork(r) == \E w \in Workers : proc[w].run = r

\* Five minutes pass since the claim, normally after the end of the turn.
Expire(r) ==
    /\ run[r].lease = "held"
    /\ \/ ~AtWork(r) /\ UNCHANGED faults
       \/ AtWork(r) /\ LongTurns /\ faults < MaxFaults /\ faults' = faults + 1
    /\ run' = [run EXCEPT ![r] = [run[r] EXCEPT !.lease = "expired"]]
    /\ UNCHANGED <<approval, events, proposals, proc, settings, requests>>

\* A process dies; nothing of it survives but what it has committed.
Crash(p) ==
    /\ proc[p].pc # "idle"
    /\ faults < MaxFaults
    /\ faults' = faults + 1
    /\ Done(p)
    /\ UNCHANGED <<run, approval, events, proposals, settings, requests>>

-----------------------------------------------------------------------------
Message(t) == \E k \in Keys : StartRead(t, k)

Decision(t) == \E r \in Runs, d \in {"approved", "rejected"} : ResolveRead(t, r, d)

Request(t) ==
    \/ Message(t) \/ Decision(t)
    \/ \E r \in Runs : CancelRead(t, r) \/ ResumeRead(t, r)

Answer(t) ==
    \/ \E r \in Runs, kind \in IF settings.deep THEN {NoGoal} ELSE Kinds :
          StartCommit(t, r, kind)
    \/ StartConflict(t) \/ CancelCommit(t)
    \/ ResumeCommit(t) \/ ResumeConflict(t)

\* One step of the turn that p executes, or of its commit.
TurnStep(p) ==
    \/ LocalTurn(p) \/ DeepTurn(p) \/ TurnRaises(p)
    \/ ProviderProgress(p) \/ ProviderCancelled(p)
    \/ ProviderAnswers(p) \/ ProviderFails(p)
    \/ NumberEvent(p) \/ CommitProgress(p) \/ CommitApproved(p)
    \/ CommitRejected(p) \/ CommitWaitingForApproval(p) \/ CommitCompleted(p)
    \/ CommitStopped(p) \/ CommitFailed(p) \/ CommitRefused(p)

WorkerStep(w) ==
    TurnStep(w) \/ NoMembership(w) \/ ExceptRead(w) \/ ExceptCommit(w)

Next ==
    \/ \E t \in Threads : Request(t) \/ Answer(t) \/ TurnStep(t)
    \/ \E w \in Workers : WorkerStep(w) \/ \E r \in Runs : Claim(w, r)
    \/ \E r \in Runs : Expire(r)
    \/ \E p \in Agents : Crash(p)

Spec == Init /\ [][Next]_vars

\* Workers poll for runs and finish their turns, and time passes.
Fairness ==
    /\ \A w \in Workers : WF_vars(\E r \in Runs : Claim(w, r))
    /\ \A w \in Workers : WF_vars(WorkerStep(w))
    /\ \A r \in Runs : WF_vars(Expire(r))

FairSpec == Spec /\ Fairness

-----------------------------------------------------------------------------
(* Safety under every interleaving of threads and workers *)

\* A client that replays a run by sequence number misses nothing and sees
\* nothing twice: the numbers are 1..n and name one event each.
EventsGapless ==
    \A r \in Runs : {e.seq : e \in events[r]} = 1 .. Cardinality(events[r])

\* A run that waits for approval can be decided: its request is still open.
WaitingIsDecidable ==
    \A r \in Runs :
        run[r].status = "waiting_for_approval" => approval[r] = "pending"

\* Nothing is proposed for a plan nobody has approved.
PlanNeedsApproval ==
    \A r \in Runs : run[r].kind = "plan" /\ proposals[r] > 0 => run[r].outline

-----------------------------------------------------------------------------
(* While leases last and no client interferes *)

\* Two workers never execute the same run: a crashed or failed turn is over
\* before the next worker claims the run.
WorkersTakeTurns ==
    \A v, w \in Workers :
        v # w /\ proc[v].run = proc[w].run => proc[v].run = NoRun

\* A completed run stays completed, whatever worker held a row of it before.
CompletedIsFinal ==
    [][\A r \in Runs :
          run[r].status = "completed" => run'[r].status = "completed"]_vars

InHand(r) == run[r].status \in {"queued", "running"}

\* No run stays in hand for ever while it has attempts left, although workers
\* crash and providers fail.
TurnsEnd ==
    \A r \in Runs : InHand(r) ~> ~InHand(r) \/ run[r].attempts >= MaxAttempts

-----------------------------------------------------------------------------
(* What the documents promise and the code does not keep *)

\* "Cancellation is durable": a run leaves the cancelled state only when a
\* client resumes it.
CancelledUntilResumed ==
    [][\A r \in Runs :
          run[r].status = "cancelled" /\ run'[r].status # "cancelled" =>
              \E t \in Threads : /\ proc[t].pc = "resuming" /\ proc[t].run = r
                                 /\ proc'[t].pc # "resuming"]_vars

\* "Worker leases expire safely": a running run that was queued for workers
\* has a lease, without which it is never claimed again.
RunningIsReclaimable ==
    \A r \in Runs : run[r].status = "running" => run[r].lease # "none"
=============================================================================
