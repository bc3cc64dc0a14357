--------------------------- MODULE AgentRunsProofs ---------------------------
(***************************************************************************)
(* Proofs about AgentRuns for any number of runs, threads and workers, any *)
(* deployment and any bounds.                                              *)
(***************************************************************************)
EXTENDS AgentRuns, FiniteSetTheorems, TLAPS

HasRow == {"cancelling", "resuming", "turn", "streaming", "appending",
           "ending", "requeueing"}

\* What holds of the record of a process at any time: its row was once the
\* row of an existing run, so what can only grow has not shrunk since.
Sound(q) ==
    /\ q.pc \notin {"idle", "creating"} => run[q.run].status # "absent"
    /\ q.pc \in HasRow =>
          /\ q.row.status # "absent"
          /\ q.row.kind = run[q.run].kind
          /\ q.row.outline => run[q.run].outline
    /\ q.pc = "streaming" => settings.deep
    /\ q.pc \in {"appending", "ending"} /\ q.goal = "progress" => settings.deep
    /\ q.pc = "ending" => q.base <= Cardinality(events[q.run])
    /\ q.pc \in {"appending", "ending"} /\ q.goal \in {"approved", "rejected"} =>
          /\ approval[q.run] # "none"
          /\ q.row.status # "waiting_for_approval" =>
                run[q.run].status # "waiting_for_approval"
    /\ /\ q.pc \in {"appending", "ending"}
       /\ q.goal = "completed"
       /\ ~settings.deep
       /\ q.row.kind = "plan"
       => q.row.outline

ProcInv == \A p \in Agents : Sound(proc[p])

\* A run that does not exist yet has left no trace.
AbsentInv ==
    \A r \in Runs : run[r].status = "absent" =>
        approval[r] = "none" /\ events[r] = {} /\ proposals[r] = 0

FiniteEvents == \A r \in Runs : IsFiniteSet(events[r])

IInv ==
    /\ TypeOK
    /\ EventsGapless
    /\ WaitingIsDecidable
    /\ PlanNeedsApproval
    /\ AbsentInv
    /\ FiniteEvents
    /\ ProcInv

-----------------------------------------------------------------------------
(* Rows *)

LEMMA NoRowIsRow == NoRow \in Row
BY DEF NoRow, Row

\* A commit writes a column or leaves it as it is.
LEMMA MergedRow ==
    ASSUME NEW now \in Row, NEW loaded \in Row, NEW new \in Row
    PROVE  LET m == Merged(now, loaded, new) IN
           /\ m \in Row
           /\ m.status = IF new.status = loaded.status THEN now.status ELSE new.status
           /\ m.outline = IF new.outline = loaded.outline THEN now.outline ELSE new.outline
           /\ m.kind = now.kind
BY DEF Merged, Column, Row

-----------------------------------------------------------------------------
(* Steps *)

LEMMA InitInv == Init => IInv
<1>. SUFFICES ASSUME Init PROVE IInv
  OBVIOUS
<1>1. TypeOK
  BY NoRowIsRow DEF Init, TypeOK, Process, Pc, Idle
<1>2. \A r \in Runs : {e.seq : e \in events[r]} = {} /\ Cardinality(events[r]) = 0
  BY FS_EmptySet DEF Init
<1>3. EventsGapless /\ FiniteEvents
  BY <1>2, FS_EmptySet DEF Init, EventsGapless, FiniteEvents
<1>4. WaitingIsDecidable /\ PlanNeedsApproval /\ AbsentInv
  BY DEF Init, NoRow, WaitingIsDecidable, PlanNeedsApproval, AbsentInv
<1>5. ProcInv
  BY DEF Init, ProcInv, Sound, Idle, HasRow
<1>. QED  BY <1>1, <1>3, <1>4, <1>5 DEF IInv

\* What a step may do to the rows of run r.
Evolves(r) ==
    /\ run[r].status # "absent" =>
          /\ run'[r].status # "absent"
          /\ run'[r].kind = run[r].kind
          /\ run[r].outline => run'[r].outline
          /\ run'[r].status = "waiting_for_approval" =>
                run[r].status = "waiting_for_approval" \/ approval[r] = "none"
    /\ approval[r] # "none" => approval'[r] # "none"
    /\ Cardinality(events[r]) <= Cardinality(events'[r])

LEMMA CardinalityIsNat ==
    ASSUME FiniteEvents, NEW r \in Runs
    PROVE  Cardinality(events[r]) \in Nat
BY FS_CardinalityType DEF FiniteEvents

\* A process that takes no part in a step remains sound.
LEMMA OthersSound ==
    ASSUME IInv, TypeOK', FiniteEvents', \A r \in Runs : Evolves(r),
           settings' = settings,
           NEW p \in Agents, proc'[p] = proc[p]
    PROVE  Sound(proc[p])'
<1>. DEFINE q == proc[p]
<1>1. CASE q.pc \in {"idle", "creating"}
  BY <1>1 DEF Sound, HasRow
<1>2. CASE q.pc \notin {"idle", "creating"}
  <2>1. q \in Process /\ q.run \in Runs /\ Sound(q) /\ q.base \in Nat
    BY <1>2 DEF IInv, TypeOK, ProcInv, Process
  <2>2. Evolves(q.run)
    BY <2>1
  <2>3. /\ Cardinality(events[q.run]) \in Nat
        /\ Cardinality(events'[q.run]) \in Nat
    BY <2>1, CardinalityIsNat, FS_CardinalityType DEF IInv, FiniteEvents
  <2>4. run[q.run].status # "absent"
    BY <1>2, <2>1 DEF Sound
  <2>. QED  BY <1>2, <2>1, <2>2, <2>3, <2>4 DEF Sound, Evolves
<1>. QED  BY <1>1, <1>2

\* The general step: rows evolve and every process that moves is left sound.
LEMMA GeneralStep ==
    ASSUME IInv, TypeOK', EventsGapless', WaitingIsDecidable',
           PlanNeedsApproval', AbsentInv', FiniteEvents',
           \A r \in Runs : Evolves(r), settings' = settings,
           \A p \in Agents : proc'[p] = proc[p] \/ Sound(proc[p])'
    PROVE  IInv'
<1>1. ProcInv'
  BY OthersSound DEF ProcInv
<1>. QED  BY <1>1 DEF IInv

Shaped(q) ==
    /\ q.pc \notin {"idle", "creating"} => q.run \in Runs
    /\ q.pc \in {"appending", "ending"} => q.goal \in Goals
    /\ q.pc = "creating" => q.goal \in Keys

\* A step of one process that writes no row.
LEMMA ProcStep ==
    ASSUME IInv, NEW p \in Agents, NEW q \in Process, Shaped(q), Sound(q),
           proc' = [proc EXCEPT ![p] = q],
           UNCHANGED <<run, approval, events, proposals, settings>>,
           requests' \in Nat, faults' \in Nat
    PROVE  IInv'
<1>1. TypeOK'
  BY DEF IInv, TypeOK, Shaped
<1>2. /\ EventsGapless' /\ WaitingIsDecidable'
      /\ PlanNeedsApproval' /\ AbsentInv' /\ FiniteEvents'
  BY DEF IInv, EventsGapless, WaitingIsDecidable,
         PlanNeedsApproval, AbsentInv, FiniteEvents
<1>3. \A r \in Runs : Evolves(r)
  BY CardinalityIsNat DEF IInv, Evolves
<1>4. \A a \in Agents : proc'[a] = proc[a] \/ proc'[a] = q
  BY DEF IInv, TypeOK
<1>5. ASSUME NEW a \in Agents PROVE proc'[a] = proc[a] \/ Sound(proc[a])'
  BY <1>4 DEF Sound
<1>. QED  BY <1>1, <1>2, <1>3, <1>5, GeneralStep

\* A step of one process, if any, that writes the row of one run.
LEMMA RowStep ==
    ASSUME IInv, NEW r \in Runs, NEW new \in Row,
           run' = [run EXCEPT ![r] = new],
           run[r].status # "absent", new.status # "absent",
           new.kind = run[r].kind, run[r].outline => new.outline,
           new.status = "waiting_for_approval" =>
               run[r].status = "waiting_for_approval",
           UNCHANGED <<approval, events, proposals, settings>>,
           requests' \in Nat, faults' \in Nat,
           proc' \in [Agents -> Process],
           \A a \in Agents : \/ proc'[a] = proc[a]
                             \/ Shaped(proc'[a]) /\ Sound(proc[a])'
    PROVE  IInv'
<1>1. run' \in [Runs -> Row] /\ \A s \in Runs : run'[s] = IF s = r THEN new ELSE run[s]
  BY DEF IInv, TypeOK
<1>2. TypeOK'
  BY <1>1 DEF IInv, TypeOK, Shaped
<1>4. WaitingIsDecidable' /\ AbsentInv'
  BY <1>1 DEF IInv, WaitingIsDecidable, AbsentInv
<1>5. PlanNeedsApproval'
  BY <1>1 DEF IInv, PlanNeedsApproval
<1>6. EventsGapless' /\ FiniteEvents'
  BY DEF IInv, EventsGapless, FiniteEvents
<1>7. ASSUME NEW s \in Runs PROVE Evolves(s)
  BY <1>1, CardinalityIsNat DEF IInv, Evolves
<1>. QED  BY <1>2, <1>4, <1>5, <1>6, <1>7, GeneralStep

-----------------------------------------------------------------------------
(* Steps that write nothing *)

LEMMA IdleProcess == Idle \in Process /\ Shaped(Idle) /\ Sound(Idle)
BY NoRowIsRow DEF Idle, Process, Pc, Shaped, Sound, HasRow

LEMMA DoneStep ==
    ASSUME IInv, NEW p \in Agents, Done(p),
           UNCHANGED <<run, approval, events, proposals, settings>>,
           requests' \in Nat, faults' \in Nat
    PROVE  IInv'
BY IdleProcess, ProcStep DEF Done

\* A process at work holds a run that exists and, as long as it has not
\* raised, a row of it.
LEMMA AtWorkOnRun ==
    ASSUME IInv, NEW p \in Agents, proc[p].pc \notin {"idle", "creating"}
    PROVE  /\ proc[p] \in Process /\ proc[p].run \in Runs
           /\ proc[p].row \in Row /\ proc[p].base \in Nat
           /\ Sound(proc[p])
           /\ run[proc[p].run] \in Row
           /\ run[proc[p].run].status # "absent"
BY DEF IInv, TypeOK, ProcInv, Process, Sound

\* Process p moves to pc with run r and a row of it, and appends no event.
LEMMA AtStep ==
    ASSUME IInv, NEW p \in Agents, NEW pc \in Pc, NEW r \in Runs,
           NEW row \in Row, NEW goal \in Goals \union {NoGoal}, NEW base \in Nat,
           At(p, pc, r, row, goal, base),
           pc \notin {"idle", "creating"},
           run[r].status # "absent",
           pc \in HasRow => /\ row.status # "absent"
                            /\ row.kind = run[r].kind
                            /\ row.outline => run[r].outline,
           pc = "streaming" => settings.deep,
           pc = "ending" => base <= Cardinality(events[r]),
           pc \in {"appending", "ending"} =>
              /\ goal \in Goals
              /\ goal \in {"approved", "rejected"} =>
                    /\ approval[r] # "none"
                    /\ row.status # "waiting_for_approval" =>
                          run[r].status # "waiting_for_approval"
              /\ goal = "progress" => settings.deep
              /\ goal = "completed" /\ ~settings.deep /\ row.kind = "plan" =>
                    row.outline,
           UNCHANGED <<run, approval, events, proposals, settings>>,
           requests' \in Nat, faults' \in Nat
    PROVE  IInv'
<1>. DEFINE q == [pc |-> pc, run |-> r, row |-> row, goal |-> goal, base |-> base]
<1>1. q \in Process /\ Shaped(q) /\ Sound(q)
  BY DEF Process, Shaped, Sound
<1>2. proc' = [proc EXCEPT ![p] = q]
  BY DEF At
<1>. HIDE DEF q
<1>. QED  BY <1>1, <1>2, ProcStep

LEMMA Bounds == IInv => requests \in Nat /\ faults \in Nat /\ requests + 1 \in Nat
                        /\ faults + 1 \in Nat
BY DEF IInv, TypeOK

LEMMA RaiseStep ==
    ASSUME IInv, NEW p \in Agents, Raise(p),
           proc[p].pc \notin {"idle", "creating"},
           UNCHANGED <<run, approval, events, proposals, given>>
    PROVE  IInv'
<1>1. CASE p \in Workers
  BY <1>1, AtStep, AtWorkOnRun, NoRowIsRow, Bounds DEF Raise, HasRow, Pc, given
<1>2. CASE p \notin Workers
  BY <1>2, DoneStep, Bounds DEF Raise, given
<1>. QED  BY <1>1, <1>2

LEMMA RequestStep ==
    ASSUME IInv, NEW t \in Threads, Request(t)
    PROVE  IInv'
<1>. t \in Agents
  BY DEF Agents
<1>1. ASSUME NEW k \in Keys, StartRead(t, k)
      PROVE  IInv'
  <2>. DEFINE q == [pc |-> "creating", run |-> NoRun, row |-> NoRow,
                    goal |-> k, base |-> 0]
  <2>1. q \in Process /\ Shaped(q) /\ Sound(q)
    BY NoRowIsRow, ConstantsAssumption
       DEF Process, Pc, Shaped, Sound, HasRow, Goals
  <2>2. proc' = [proc EXCEPT ![t] = q]
    BY <1>1 DEF StartRead, At
  <2>. HIDE DEF q
  <2>. QED  BY <1>1, <2>1, <2>2, ProcStep, Bounds DEF StartRead
<1>2. ASSUME NEW r \in Runs, NEW pc \in {"cancelling", "resuming", "appending"},
             NEW goal \in {NoGoal, "approved", "rejected"},
             Open(t, pc, r, goal), run[r].status # "absent",
             pc = "appending" => goal # NoGoal /\ approval[r] # "none",
             UNCHANGED <<run, approval, events, proposals>>
      PROVE  IInv'
  <2>1. run[r] \in Row /\ UNCHANGED settings /\ requests' \in Nat /\ faults' \in Nat
    BY <1>2, Bounds DEF IInv, TypeOK, Open
  <2>2. At(t, pc, r, run[r], goal, 0) /\ pc \in Pc /\ 0 \in Nat
        /\ goal \in Goals \union {NoGoal}
    BY <1>2 DEF Open, Pc, Goals
  <2>. QED  BY <1>2, <2>1, <2>2, AtStep DEF Goals, NoGoal
<1>3. ASSUME NEW r \in Runs, CancelRead(t, r)
      PROVE  IInv'
  BY <1>2, <1>3 DEF CancelRead, Active
<1>4. ASSUME NEW r \in Runs, ResumeRead(t, r)
      PROVE  IInv'
  BY <1>2, <1>4 DEF ResumeRead, Resumable
<1>5. ASSUME NEW r \in Runs, NEW d \in {"approved", "rejected"}, ResolveRead(t, r, d)
      PROVE  IInv'
  <2>1. approval[r] # "none" /\ run[r].status # "absent"
    BY <1>5 DEF ResolveRead, IInv, AbsentInv
  <2>2. Open(t, "appending", r, d) /\ UNCHANGED <<run, approval, events, proposals>>
    BY <1>5 DEF ResolveRead
  <2>3. d # NoGoal
    BY DEF NoGoal
  <2>. QED  BY <1>2, <2>1, <2>2, <2>3
<1>. QED  BY <1>1, <1>3, <1>4, <1>5 DEF Request, Message, Decision

LEMMA ConcludeStep ==
    ASSUME IInv, NEW p \in Agents, NEW goal \in Goals \ {"approved", "rejected"},
           proc[p].pc \in {"turn", "streaming"}, Conclude(p, goal),
           goal = "progress" => settings.deep,
           goal = "completed" /\ ~settings.deep /\ proc[p].row.kind = "plan" =>
               proc[p].row.outline
    PROVE  IInv'
<1>1. /\ proc[p].run \in Runs /\ proc[p].row \in Row
      /\ Sound(proc[p]) /\ run[proc[p].run].status # "absent"
  BY AtWorkOnRun
<1>2. /\ proc[p].row.status # "absent"
      /\ proc[p].row.kind = run[proc[p].run].kind
      /\ proc[p].row.outline => run[proc[p].run].outline
  BY <1>1 DEF Sound, HasRow
<1>3. /\ At(p, "appending", proc[p].run, proc[p].row, goal, 0)
      /\ UNCHANGED <<run, approval, events, proposals, settings>>
      /\ requests' \in Nat /\ faults' \in Nat /\ 0 \in Nat /\ "appending" \in Pc
  BY Bounds DEF Conclude, given, Pc
<1>. QED  BY <1>1, <1>2, <1>3, AtStep

\* A turn up to the point where it numbers its events.
LEMMA TurnSteps ==
    ASSUME IInv, NEW p \in Agents,
           \/ LocalTurn(p) \/ DeepTurn(p) \/ TurnRaises(p)
           \/ ProviderProgress(p) \/ ProviderCancelled(p)
           \/ ProviderAnswers(p) \/ ProviderFails(p)
    PROVE  IInv'
<1>1. CASE LocalTurn(p)
  <2>1. PICK goal \in LocalGoals(proc[p].row) : Conclude(p, goal)
    BY <1>1 DEF LocalTurn
  <2>2. /\ goal \in Goals \ {"approved", "rejected", "progress"}
        /\ goal = "completed" /\ proc[p].row.kind = "plan" => proc[p].row.outline
    BY DEF LocalGoals, Goals
  <2>. QED  BY <1>1, <2>1, <2>2, ConcludeStep DEF LocalTurn
<1>2. CASE DeepTurn(p)
  <2>1. CASE Conclude(p, "waiting_for_user") \/ Conclude(p, "cancelled")
    BY <1>2, <2>1, ConcludeStep DEF DeepTurn, Goals
  <2>2. CASE Invoke(p)
    <3>1. /\ proc[p].run \in Runs /\ proc[p].row \in Row
          /\ Sound(proc[p]) /\ run[proc[p].run].status # "absent"
      BY <1>2, AtWorkOnRun DEF DeepTurn
    <3>2. /\ proc[p].row.status # "absent"
          /\ proc[p].row.kind = run[proc[p].run].kind
          /\ proc[p].row.outline => run[proc[p].run].outline
          /\ settings.deep
      BY <1>2, <3>1 DEF Sound, HasRow, DeepTurn
    <3>3. /\ UNCHANGED <<run, approval, events, proposals, settings>>
          /\ requests' \in Nat /\ faults' \in Nat /\ 0 \in Nat /\ "streaming" \in Pc
      BY <2>2, Bounds DEF Invoke, given, Pc
    <3>4. At(p, "streaming", proc[p].run, proc[p].row, NoGoal, 0)
      BY <2>2 DEF Invoke
    <3>. QED  BY <3>1, <3>2, <3>3, <3>4, AtStep
  <2>. QED  BY <1>2, <2>1, <2>2 DEF DeepTurn
<1>3. CASE TurnRaises(p)
  BY <1>3, RaiseStep DEF TurnRaises
<1>4. ASSUME NEW goal \in {"progress", "cancelled", "completed", "failed"},
             proc[p].pc = "streaming", Conclude(p, goal)
      PROVE  IInv'
  <2>1. settings.deep
    BY <1>4, AtWorkOnRun DEF Sound
  <2>. QED  BY <1>4, <2>1, ConcludeStep DEF Goals
<1>. QED  BY <1>1, <1>2, <1>3, <1>4
          DEF ProviderProgress, ProviderCancelled, ProviderAnswers, ProviderFails

\* With gapless numbers, the last one is the number of events.
LEMMA LastSeqCounts ==
    ASSUME IInv, NEW r \in Runs
    PROVE  LastSeq(r) = Cardinality(events[r])
<1>. DEFINE n == Cardinality(events[r])
            S == {e.seq : e \in events[r]} \union {0}
<1>1. n \in Nat /\ S = 0 .. n
  BY CardinalityIsNat DEF IInv, EventsGapless
<1>2. n \in S /\ \A m \in S : n >= m
  BY <1>1
<1>3. \A x \in S : (\A y \in S : x >= y) => x = n
  BY <1>1, <1>2
<1>. HIDE DEF n, S
<1>4. Max(S) = n
  BY <1>2, <1>3 DEF Max
<1>. QED  BY <1>4 DEF LastSeq, S, n

LEMMA NumberEventStep ==
    ASSUME IInv, NEW p \in Agents, NumberEvent(p)
    PROVE  IInv'
<1>1. /\ proc[p].run \in Runs /\ proc[p].row \in Row
      /\ Sound(proc[p]) /\ run[proc[p].run].status # "absent"
      /\ proc[p].goal \in Goals
  BY AtWorkOnRun DEF NumberEvent, IInv, TypeOK
<1>2. /\ LastSeq(proc[p].run) = Cardinality(events[proc[p].run])
      /\ LastSeq(proc[p].run) \in Nat
  BY <1>1, LastSeqCounts, CardinalityIsNat DEF IInv
<1>3. /\ UNCHANGED <<run, approval, events, proposals, settings>>
      /\ requests' \in Nat /\ faults' \in Nat /\ "ending" \in Pc
  BY Bounds DEF given, Pc, NumberEvent
<1>4. At(p, "ending", proc[p].run, proc[p].row, proc[p].goal, LastSeq(proc[p].run))
  BY DEF NumberEvent
<1>5. LastSeq(proc[p].run) <= Cardinality(events[proc[p].run])
  BY <1>2
<1>6. /\ proc[p].row.status # "absent"
      /\ proc[p].row.kind = run[proc[p].run].kind
      /\ proc[p].row.outline => run[proc[p].run].outline
      /\ proc[p].goal \in {"approved", "rejected"} =>
            /\ approval[proc[p].run] # "none"
            /\ proc[p].row.status # "waiting_for_approval" =>
                  run[proc[p].run].status # "waiting_for_approval"
      /\ proc[p].goal = "progress" => settings.deep
      /\ proc[p].goal = "completed" /\ ~settings.deep /\ proc[p].row.kind = "plan" =>
            proc[p].row.outline
  BY <1>1 DEF Sound, HasRow, NumberEvent
<1>. QED  BY <1>1, <1>2, <1>3, <1>4, <1>5, <1>6, AtStep

-----------------------------------------------------------------------------
(* Commits *)

\* What a turn has recorded in its session, and what that makes of the row.
LEMMA StoredRow ==
    ASSUME IInv, NEW p \in Agents, proc[p].pc = "ending"
    PROVE  LET r == proc[p].run  row == proc[p].row
               c == Concluded(p)  new == Stored(p, c) IN
           /\ r \in Runs /\ row \in Row /\ c \in Row /\ new \in Row
           /\ run[r].status # "absent" /\ row.status # "absent"
           /\ c.status # "absent" /\ new.status # "absent"
           /\ c.kind = row.kind /\ new.kind = run[r].kind /\ row.kind = run[r].kind
           /\ run[r].outline \/ c.outline => new.outline
           /\ row.outline => c.outline
           /\ new.status = "waiting_for_approval" =>
                 /\ proc[p].goal \notin {"approved", "rejected"}
                 /\ \/ run[r].status = "waiting_for_approval"
                    \/ proc[p].goal = "waiting_for_approval"
<1>. DEFINE r == proc[p].run
            row == proc[p].row
            goal == proc[p].goal
            c == Concluded(p)
            new == Stored(p, c)
<1>1. /\ r \in Runs /\ row \in Row /\ run[r] \in Row /\ goal \in Goals
      /\ Sound(proc[p]) /\ run[r].status # "absent"
  BY AtWorkOnRun DEF IInv, TypeOK
<1>2. /\ row.status # "absent" /\ row.kind = run[r].kind
      /\ row.outline => run[r].outline
      /\ goal \in {"approved", "rejected"} /\ row.status # "waiting_for_approval" =>
            run[r].status # "waiting_for_approval"
  BY <1>1 DEF Sound, HasRow
<1>3. StartStatus \in {"queued", "running"}
  BY DEF StartStatus
<1>4. /\ c \in Row /\ c.kind = row.kind /\ c.status # "absent"
      /\ c.outline = (row.outline \/ goal = "approved")
      /\ goal \in {"approved", "rejected"} => c.status # "waiting_for_approval"
      /\ c.status = "waiting_for_approval" =>
            goal = "waiting_for_approval" \/ c.status = row.status
  <2>1. CASE goal = "progress"
    BY <1>1, <1>2, <2>1 DEF Concluded, Row
  <2>2. CASE goal = "approved"
    BY <1>1, <1>2, <1>3, <2>2 DEF Concluded, Row, Active
  <2>3. CASE goal = "rejected"
    BY <1>1, <1>2, <2>3 DEF Concluded, Row, Active, Resumable
  <2>4. CASE goal \notin {"progress", "approved", "rejected"}
    <3>1. goal \in Active \union Resumable \union {"completed"}
      BY <1>1, <2>4 DEF Goals, Active, Resumable
    <3>2. c = [row EXCEPT !.status = goal]
      BY <2>4 DEF Concluded
    <3>. HIDE DEF c
    <3>. QED  BY <1>1, <2>4, <3>1, <3>2 DEF Row, Goals
  <2>. QED  BY <2>1, <2>2, <2>3, <2>4
<1>. HIDE DEF c
<1>5. /\ new \in Row /\ new.kind = run[r].kind
      /\ new.status = IF c.status = row.status THEN run[r].status ELSE c.status
      /\ new.outline = IF c.outline = row.outline THEN run[r].outline ELSE c.outline
  BY <1>1, <1>4, MergedRow DEF Stored
<1>. HIDE DEF new
<1>6. run[r].outline \/ c.outline => new.outline
  BY <1>1, <1>2, <1>4, <1>5 DEF Row
<1>. QED  BY <1>1, <1>2, <1>4, <1>5, <1>6 DEF c, new

\* The next number is free only if nobody has appended since it was read, so
\* it continues the numbers without a gap.
LEMMA AppendContinues ==
    ASSUME IInv, NEW r \in Runs, NEW base \in Nat, NEW type,
           base <= Cardinality(events[r]), FreeSeq(r, base + 1),
           Append(r, base + 1, type)
    PROVE  LET e == [seq |-> base + 1, type |-> type] IN
           /\ \A s \in Runs : events'[s] =
                    IF s = r THEN events[s] \union {e} ELSE events[s]
           /\ IsFiniteSet(events'[r])
           /\ Cardinality(events'[r]) = Cardinality(events[r]) + 1
           /\ {x.seq : x \in events'[r]} = 1 .. Cardinality(events'[r])
<1>. DEFINE e == [seq |-> base + 1, type |-> type]
            n == Cardinality(events[r])
            S == {x.seq : x \in events[r]}
<1>1. n \in Nat /\ IsFiniteSet(events[r]) /\ S = 1 .. n /\ base <= n
  BY CardinalityIsNat DEF IInv, EventsGapless, FiniteEvents
<1>2. base + 1 \notin S
  BY DEF FreeSeq
<1>3. \A s \in Runs : events'[s] = IF s = r THEN events[s] \union {e} ELSE events[s]
  BY DEF Append, IInv, TypeOK
<1>4. e \notin events[r]
  BY DEF FreeSeq
<1>5. {x.seq : x \in events[r] \union {e}} = S \union {base + 1}
  <2>1. e.seq = base + 1
    OBVIOUS
  <2>. HIDE DEF e
  <2>. QED  BY <2>1
<1>6. \A E : IsFiniteSet(E) /\ e \notin E =>
         IsFiniteSet(E \union {e}) /\ Cardinality(E \union {e}) = Cardinality(E) + 1
  BY FS_AddElement
<1>7. IsFiniteSet(events[r] \union {e}) /\ Cardinality(events[r] \union {e}) = n + 1
  BY <1>1, <1>4, <1>6
<1>8. S \union {base + 1} = 1 .. (n + 1)
  <2>. HIDE DEF S, n
  <2>1. base = n
    BY <1>1, <1>2
  <2>. QED  BY <1>1, <2>1
<1>. QED  BY <1>3, <1>5, <1>7, <1>8

\* Where a process is after a commit: it is done, or goes on with its run.
GoesOn(p) ==
    \/ Done(p)
    \/ \E pc \in {"turn", "streaming", "raised"}, row \in Row :
          /\ At(p, pc, proc[p].run, row, NoGoal, 0)
          /\ pc # "raised" => /\ row.status # "absent"
                              /\ row.kind = run'[proc[p].run].kind
                              /\ row.outline => run'[proc[p].run].outline
          /\ pc = "streaming" => settings.deep

LEMMA GoesOnSound ==
    ASSUME IInv, NEW p \in Agents, proc[p].pc = "ending", GoesOn(p),
           UNCHANGED settings, run'[proc[p].run].status # "absent"
    PROVE  /\ proc' \in [Agents -> Process]
           /\ \A a \in Agents : \/ proc'[a] = proc[a]
                                \/ Shaped(proc'[a]) /\ Sound(proc[a])'
<1>1. proc[p].run \in Runs /\ proc \in [Agents -> Process]
  BY AtWorkOnRun DEF IInv, TypeOK
<1>2. ASSUME NEW q \in Process, proc' = [proc EXCEPT ![p] = q]
      PROVE  proc' \in [Agents -> Process]
             /\ \A a \in Agents : proc'[a] = IF a = p THEN q ELSE proc[a]
  BY <1>1, <1>2
<1>3. CASE Done(p)
  <2>1. /\ proc' \in [Agents -> Process]
        /\ \A a \in Agents : proc'[a] = IF a = p THEN Idle ELSE proc[a]
    BY <1>2, <1>3, IdleProcess DEF Done
  <2>2. Shaped(proc'[p]) /\ Sound(proc[p])'
    BY <2>1 DEF Shaped, Sound, Idle, HasRow
  <2>. QED  BY <2>1, <2>2
<1>4. CASE ~Done(p)
  <2>1. PICK pc \in {"turn", "streaming", "raised"}, row \in Row :
            /\ At(p, pc, proc[p].run, row, NoGoal, 0)
            /\ pc # "raised" => /\ row.status # "absent"
                                /\ row.kind = run'[proc[p].run].kind
                                /\ row.outline => run'[proc[p].run].outline
            /\ pc = "streaming" => settings.deep
    BY <1>4 DEF GoesOn
  <2>. DEFINE q == [pc |-> pc, run |-> proc[p].run, row |-> row,
                    goal |-> NoGoal, base |-> 0]
  <2>2. q \in Process /\ Shaped(q)
    BY <1>1 DEF Process, Pc, Shaped
  <2>3. /\ proc' \in [Agents -> Process]
        /\ \A a \in Agents : proc'[a] = IF a = p THEN q ELSE proc[a]
    BY <1>2, <2>1, <2>2 DEF At
  <2>4. /\ proc'[p].pc = pc /\ proc'[p].run = proc[p].run /\ proc'[p].row = row
    BY <2>3
  <2>5. Sound(proc[p])'
    BY <2>1, <2>4 DEF Sound, HasRow
  <2>. QED  BY <2>2, <2>3, <2>5
<1>. QED  BY <1>3, <1>4

\* A commit keeps the invariant if the request for approval follows the goal
\* and what is proposed is allowed by the row.
LEMMA CommitStep ==
    ASSUME IInv, NEW p \in Agents, NEW goal \in Goals, Commit(p, goal), GoesOn(p),
           NEW decision \in {"pending", "approved", "rejected"},
           \/ UNCHANGED approval
           \/ /\ approval' = [approval EXCEPT ![proc[p].run] = decision]
              /\ \/ goal = "waiting_for_approval" /\ decision = "pending"
                 \/ goal \in {"approved", "rejected"},
           goal = "waiting_for_approval" => approval' # approval,
           \/ UNCHANGED proposals
           \/ /\ proposals' = [proposals EXCEPT ![proc[p].run] = @ + 1]
              /\ proc[p].row.kind = "plan" => proc[p].row.outline
    PROVE  IInv'
<1>. DEFINE r == proc[p].run
            row == proc[p].row
            new == Stored(p, Concluded(p))
<1>1. proc[p].pc = "ending" /\ proc[p].goal = goal /\ UNCHANGED given /\ UNCHANGED settings
  BY DEF Commit, given
<1>2. /\ r \in Runs /\ row \in Row /\ new \in Row
      /\ run[r].status # "absent" /\ new.status # "absent"
      /\ new.kind = run[r].kind /\ row.kind = run[r].kind
      /\ run[r].outline \/ row.outline => new.outline
      /\ new.status = "waiting_for_approval" =>
            /\ goal \notin {"approved", "rejected"}
            /\ run[r].status = "waiting_for_approval" \/ goal = "waiting_for_approval"
  BY <1>1, StoredRow
<1>. HIDE DEF new
<1>3. run' \in [Runs -> Row] /\ \A s \in Runs : run'[s] = IF s = r THEN new ELSE run[s]
  BY <1>2 DEF Commit, Save, IInv, TypeOK, new
<1>4. proc[p].base \in Nat /\ proc[p].base <= Cardinality(events[r])
  BY <1>1, AtWorkOnRun DEF Sound
<1>5. /\ \A s \in Runs : events'[s] =
            IF s = r THEN events[s] \union {[seq |-> proc[p].base + 1, type |-> goal]}
                     ELSE events[s]
      /\ IsFiniteSet(events'[r])
      /\ Cardinality(events'[r]) = Cardinality(events[r]) + 1
      /\ {x.seq : x \in events'[r]} = 1 .. Cardinality(events'[r])
  <2>1. PICK base \in Nat : base = proc[p].base
    BY <1>4
  <2>2. FreeSeq(r, base + 1) /\ Append(r, base + 1, goal)
    BY <2>1 DEF Commit, Acceptable
  <2>3. r \in Runs /\ base <= Cardinality(events[r])
    BY <1>2, <1>4, <2>1
  <2>. HIDE DEF r
  <2>. QED  BY <2>1, <2>2, <2>3, AppendContinues
<1>6. /\ proc' \in [Agents -> Process]
      /\ \A a \in Agents : \/ proc'[a] = proc[a]
                           \/ Shaped(proc'[a]) /\ Sound(proc[a])'
  <2>1. run'[r].status # "absent"
    BY <1>2, <1>3
  <2>. QED  BY <1>1, <2>1, GoesOnSound
<1>7. /\ approval' \in [Runs -> {"none", "pending", "approved", "rejected"}]
      /\ \A s \in Runs : s # r => approval'[s] = approval[s]
      /\ approval[r] # "none" => approval'[r] # "none"
      /\ goal = "waiting_for_approval" => approval'[r] = "pending" /\ approval[r] = "none"
      /\ goal \notin {"approved", "rejected", "waiting_for_approval"} =>
            approval'[r] = approval[r]
  <2>1. approval \in [Runs -> {"none", "pending", "approved", "rejected"}]
    BY DEF IInv, TypeOK
  <2>2. goal = "waiting_for_approval" => approval[r] = "none"
    BY <1>1 DEF Commit, Acceptable, ApprovalFree
  <2>. QED  BY <1>2, <2>1, <2>2
<1>8. /\ proposals' \in [Runs -> Nat]
      /\ \A s \in Runs : s # r => proposals'[s] = proposals[s]
      /\ proposals'[r] = proposals[r] \/ (row.kind = "plan" => row.outline)
  BY <1>2 DEF IInv, TypeOK
<1>9. TypeOK'
  <2>1. events' \in [Runs -> SUBSET Event]
    <3>1. [seq |-> proc[p].base + 1, type |-> goal] \in Event
      BY <1>4 DEF Event
    <3>2. events \in [Runs -> SUBSET Event]
      BY DEF IInv, TypeOK
    <3>. QED  BY <1>2, <3>1, <3>2 DEF Commit, Append
  <2>2. settings' \in Deployments /\ requests' \in Nat /\ faults' \in Nat
    BY <1>1 DEF IInv, TypeOK, given
  <2>. QED  BY <1>3, <1>6, <1>7, <1>8, <2>1, <2>2 DEF IInv, TypeOK, Shaped
<1>11. EventsGapless' /\ FiniteEvents'
  BY <1>5 DEF IInv, EventsGapless, FiniteEvents
<1>12. WaitingIsDecidable'
  <2>1. ASSUME NEW s \in Runs, run'[s].status = "waiting_for_approval"
        PROVE  approval'[s] = "pending"
    <3>1. CASE s # r
      BY <1>3, <1>7, <2>1, <3>1 DEF IInv, WaitingIsDecidable
    <3>2. CASE s = r
      BY <1>2, <1>3, <1>7, <2>1, <3>2 DEF IInv, WaitingIsDecidable
    <3>. QED  BY <3>1, <3>2
  <2>. QED  BY <2>1 DEF WaitingIsDecidable
<1>13. PlanNeedsApproval'
  BY <1>2, <1>3, <1>8 DEF IInv, PlanNeedsApproval
<1>14. AbsentInv'
  <2>1. ASSUME NEW s \in Runs, run'[s].status = "absent"
        PROVE  approval'[s] = "none" /\ events'[s] = {} /\ proposals'[s] = 0
    <3>1. s # r /\ run[s].status = "absent"
      BY <1>2, <1>3, <2>1
    <3>. QED  BY <1>5, <1>7, <1>8, <3>1 DEF IInv, AbsentInv
  <2>. QED  BY <2>1 DEF AbsentInv
<1>15. ASSUME NEW s \in Runs PROVE Evolves(s)
  <2>1. Cardinality(events[s]) <= Cardinality(events'[s])
    <3>1. Cardinality(events[s]) \in Nat
      BY CardinalityIsNat DEF IInv
    <3>2. \/ events'[s] = events[s]
          \/ Cardinality(events'[s]) = Cardinality(events[s]) + 1
      BY <1>5
    <3>. QED  BY <3>1, <3>2
  <2>2. CASE s # r
    BY <1>3, <1>7, <2>1, <2>2 DEF Evolves
  <2>3. CASE s = r
    BY <1>2, <1>3, <1>7, <2>1, <2>3 DEF Evolves
  <2>. QED  BY <2>2, <2>3
<1>. QED  BY <1>1, <1>6, <1>9, <1>11, <1>12, <1>13, <1>14, <1>15, GeneralStep

\* After Raise or Done a process is where GoesOn says.
LEMMA RaiseGoesOn ==
    ASSUME IInv, NEW p \in Agents, Raise(p)
    PROVE  GoesOn(p)
<1>1. CASE p \in Workers
  BY <1>1, NoRowIsRow DEF Raise, GoesOn
<1>2. CASE p \notin Workers
  BY <1>2 DEF Raise, GoesOn
<1>. QED  BY <1>1, <1>2

\* A process that goes on with the run keeps a row the stored one agrees with.
LEMMA RowAfterCommit ==
    ASSUME IInv, NEW p \in Agents, NEW goal \in Goals, Commit(p, goal)
    PROVE  LET r == proc[p].run  row == proc[p].row  c == Concluded(p) IN
           /\ row \in Row /\ row.status # "absent" /\ row.kind = run'[r].kind
           /\ row.outline => run'[r].outline
           /\ c \in Row /\ c.status # "absent" /\ c.kind = run'[r].kind
           /\ c.outline => run'[r].outline
<1>. DEFINE r == proc[p].run
            row == proc[p].row
            c == Concluded(p)
            new == Stored(p, c)
<1>1. /\ r \in Runs /\ row \in Row /\ c \in Row /\ new \in Row
      /\ row.status # "absent" /\ c.status # "absent"
      /\ c.kind = row.kind /\ new.kind = run[r].kind /\ row.kind = run[r].kind
      /\ c.outline => new.outline
      /\ row.outline => c.outline
  BY StoredRow DEF Commit
<1>2. run'[r] = new
  BY <1>1 DEF Commit, Save, IInv, TypeOK
<1>. HIDE DEF c, new, row
<1>3. /\ row \in Row /\ row.status # "absent" /\ row.kind = run'[r].kind
      /\ row.outline => run'[r].outline
      /\ c \in Row /\ c.status # "absent" /\ c.kind = run'[r].kind
      /\ c.outline => run'[r].outline
  BY <1>1, <1>2
<1>. QED  BY <1>3 DEF row, c

LEMMA CommitSteps ==
    ASSUME IInv, NEW p \in Agents,
           \/ CommitProgress(p) \/ CommitApproved(p) \/ CommitRejected(p)
           \/ CommitWaitingForApproval(p) \/ CommitCompleted(p)
           \/ CommitStopped(p) \/ CommitFailed(p)
    PROVE  IInv'
<1>. DEFINE r == proc[p].run
<1>1. CASE CommitProgress(p)
  <2>1. settings.deep /\ proc[p].row \in Row
    BY <1>1, AtWorkOnRun DEF CommitProgress, Commit, Sound
  <2>2. GoesOn(p)
    BY <1>1, <2>1, RowAfterCommit DEF CommitProgress, GoesOn, Goals
  <2>. QED  BY <1>1, <2>2, CommitStep DEF CommitProgress, Goals
<1>2. CASE CommitApproved(p)
  <2>1. GoesOn(p)
    BY <1>2, RowAfterCommit DEF CommitApproved, GoesOn, Goals
  <2>. QED  BY <1>2, <2>1, CommitStep DEF CommitApproved, Goals
<1>3. CASE CommitRejected(p)
  BY <1>3, CommitStep DEF CommitRejected, GoesOn, Goals
<1>4. CASE CommitWaitingForApproval(p)
  <2>1. approval[r] = "none" /\ r \in Runs
    BY <1>4, AtWorkOnRun
       DEF CommitWaitingForApproval, Commit, Acceptable, ApprovalFree
  <2>2. approval' # approval
    BY <1>4, <2>1 DEF CommitWaitingForApproval, IInv, TypeOK
  <2>. QED  BY <1>4, <2>2, CommitStep DEF CommitWaitingForApproval, GoesOn, Goals
<1>5. CASE CommitCompleted(p)
  <2>1. /\ proc[p].pc = "ending" /\ proc[p].goal = "completed"
        /\ proc[p].row \in Row /\ Sound(proc[p])
    BY <1>5, AtWorkOnRun DEF CommitCompleted, Commit
  <2>2. ~settings.deep /\ proc[p].row.kind = "plan" => proc[p].row.outline
    BY <2>1 DEF Sound
  <2>3. GoesOn(p) /\ Commit(p, "completed") /\ UNCHANGED approval
    BY <1>5 DEF CommitCompleted, GoesOn
  <2>4. \/ UNCHANGED proposals
        \/ /\ proposals' = [proposals EXCEPT ![proc[p].run] = @ + 1]
           /\ proc[p].row.kind = "plan" => proc[p].row.outline
    BY <1>5, <2>2 DEF CommitCompleted
  <2>. QED  BY <2>3, <2>4, CommitStep DEF Goals
<1>6. CASE CommitStopped(p)
  BY <1>6, CommitStep DEF CommitStopped, GoesOn, Goals
<1>7. CASE CommitFailed(p)
  BY <1>7, RaiseGoesOn, CommitStep DEF CommitFailed, Goals
<1>. QED  BY <1>1, <1>2, <1>3, <1>4, <1>5, <1>6, <1>7

LEMMA TurnStepInv ==
    ASSUME IInv, NEW p \in Agents, TurnStep(p)
    PROVE  IInv'
<1>1. CASE CommitRefused(p)
  BY <1>1, RaiseStep DEF CommitRefused
<1>. QED  BY <1>1, TurnSteps, NumberEventStep, CommitSteps DEF TurnStep

-----------------------------------------------------------------------------
(* API threads *)

\* Where process p may be after it has written the row of run r.
LEMMA WroteRow ==
    ASSUME IInv, NEW p \in Agents, NEW r \in Runs, NEW row \in Row,
           Done(p) \/ At(p, "turn", r, row, NoGoal, 0),
           UNCHANGED settings,
           row.status # "absent", run'[r].status # "absent",
           row.kind = run'[r].kind, row.outline => run'[r].outline
    PROVE  /\ proc' \in [Agents -> Process]
           /\ \A a \in Agents : \/ proc'[a] = proc[a]
                                \/ Shaped(proc'[a]) /\ Sound(proc[a])'
<1>1. proc \in [Agents -> Process]
  BY DEF IInv, TypeOK
<1>2. CASE Done(p)
  <2>1. /\ proc' \in [Agents -> Process]
        /\ \A a \in Agents : proc'[a] = IF a = p THEN Idle ELSE proc[a]
    BY <1>1, <1>2, IdleProcess DEF Done
  <2>2. Shaped(proc'[p]) /\ Sound(proc[p])'
    BY <2>1 DEF Shaped, Sound, Idle, HasRow
  <2>. QED  BY <2>1, <2>2
<1>3. CASE At(p, "turn", r, row, NoGoal, 0)
  <2>. DEFINE q == [pc |-> "turn", run |-> r, row |-> row, goal |-> NoGoal, base |-> 0]
  <2>1. q \in Process /\ Shaped(q)
    BY DEF Process, Pc, Shaped
  <2>2. /\ proc' \in [Agents -> Process]
        /\ \A a \in Agents : proc'[a] = IF a = p THEN q ELSE proc[a]
    BY <1>1, <1>3, <2>1 DEF At
  <2>3. proc'[p].pc = "turn" /\ proc'[p].run = r /\ proc'[p].row = row
    BY <2>2
  <2>4. Sound(proc[p])'
    BY <2>3 DEF Sound, HasRow
  <2>. QED  BY <2>1, <2>2, <2>4
<1>. QED  BY <1>2, <1>3

\* A new run becomes active only if the index allows it, with its first event.
LEMMA StartStep ==
    ASSUME IInv, NEW t \in Threads, NEW r \in Runs, NEW kind \in Kinds \union {NoGoal},
           StartCommit(t, r, kind)
    PROVE  IInv'
<1>. DEFINE key == proc[t].goal
            new == NewRun(key, kind)
<1>1. t \in Agents /\ key \in Keys /\ UNCHANGED settings
  BY DEF StartCommit, IInv, TypeOK, Agents, given
<1>2. /\ new \in Row /\ new.status = StartStatus /\ new.status \in {"queued", "running"}
      /\ new.outline = FALSE
  BY <1>1, NoRowIsRow DEF NewRun, Row, NoRow, StartStatus, Active
<1>. HIDE DEF new
<1>3. run' \in [Runs -> Row] /\ \A s \in Runs : run'[s] = IF s = r THEN new ELSE run[s]
  BY <1>2 DEF StartCommit, IInv, TypeOK, new
<1>4. approval[r] = "none" /\ events[r] = {} /\ proposals[r] = 0
  BY DEF StartCommit, IInv, AbsentInv
<1>5. 0 \in Nat /\ 0 <= Cardinality(events[r]) /\ FreeSeq(r, 0 + 1)
      /\ Append(r, 0 + 1, "started")
  BY <1>4, FS_EmptySet DEF FreeSeq, StartCommit
<1>6. /\ \A s \in Runs : events'[s] =
            IF s = r THEN events[s] \union {[seq |-> 0 + 1, type |-> "started"]}
                     ELSE events[s]
      /\ IsFiniteSet(events'[r])
      /\ Cardinality(events'[r]) = Cardinality(events[r]) + 1
      /\ {x.seq : x \in events'[r]} = 1 .. Cardinality(events'[r])
  BY <1>5, AppendContinues
<1>7. /\ proc' \in [Agents -> Process]
      /\ \A a \in Agents : \/ proc'[a] = proc[a]
                           \/ Shaped(proc'[a]) /\ Sound(proc[a])'
  <2>1. /\ Done(t) \/ At(t, "turn", r, new, NoGoal, 0)
        /\ run'[r] = new /\ new.status # "absent"
    BY <1>2, <1>3 DEF StartCommit
  <2>. QED  BY <1>1, <1>2, <2>1, WroteRow
<1>8. TypeOK'
  <2>1. events' \in [Runs -> SUBSET Event]
    <3>1. [seq |-> 1, type |-> "started"] \in Event
      BY DEF Event
    <3>2. events \in [Runs -> SUBSET Event]
      BY DEF IInv, TypeOK
    <3>. QED  BY <3>1, <3>2 DEF StartCommit, Append
  <2>2. settings' \in Deployments /\ requests' \in Nat /\ faults' \in Nat
        /\ approval' \in [Runs -> {"none", "pending", "approved", "rejected"}]
        /\ proposals' \in [Runs -> Nat]
    BY <1>1 DEF IInv, TypeOK, given, StartCommit
  <2>. QED  BY <1>3, <1>7, <2>1, <2>2 DEF IInv, TypeOK, Shaped
<1>10. EventsGapless' /\ FiniteEvents'
  BY <1>6 DEF IInv, EventsGapless, FiniteEvents
<1>11. WaitingIsDecidable' /\ PlanNeedsApproval'
  BY <1>2, <1>3, <1>4 DEF StartCommit, IInv, WaitingIsDecidable, PlanNeedsApproval
<1>12. AbsentInv'
  <2>1. ASSUME NEW s \in Runs, run'[s].status = "absent"
        PROVE  approval'[s] = "none" /\ events'[s] = {} /\ proposals'[s] = 0
    <3>1. s # r /\ run[s].status = "absent"
      BY <1>2, <1>3, <2>1
    <3>. QED  BY <1>6, <3>1 DEF StartCommit, IInv, AbsentInv
  <2>. QED  BY <2>1 DEF AbsentInv
<1>13. ASSUME NEW s \in Runs PROVE Evolves(s)
  <2>1. Cardinality(events[s]) <= Cardinality(events'[s])
    <3>1. Cardinality(events[s]) \in Nat
      BY CardinalityIsNat DEF IInv
    <3>2. \/ events'[s] = events[s]
          \/ Cardinality(events'[s]) = Cardinality(events[s]) + 1
      BY <1>6
    <3>. QED  BY <3>1, <3>2
  <2>. QED  BY <1>3, <2>1 DEF Evolves, StartCommit
<1>. QED  BY <1>1, <1>7, <1>8, <1>10, <1>11, <1>12, <1>13, GeneralStep

\* A handler or worker p writes what it has made of the row it loaded.
LEMMA SaveStep ==
    ASSUME IInv, NEW p \in Agents, proc[p].pc \in {"cancelling", "resuming", "turn", "requeueing"},
           NEW new \in Row, Save(p, new),
           new.status \notin {"absent", "waiting_for_approval"},
           new.kind = proc[p].row.kind, new.outline = proc[p].row.outline,
           Done(p) \/ At(p, "turn", proc[p].run, new, NoGoal, 0),
           UNCHANGED <<approval, events, proposals, given>>
    PROVE  IInv'
<1>. DEFINE r == proc[p].run
            row == proc[p].row
            stored == Stored(p, new)
<1>1. /\ r \in Runs /\ row \in Row /\ run[r] \in Row /\ Sound(proc[p])
      /\ run[r].status # "absent"
  BY AtWorkOnRun
<1>2. row.kind = run[r].kind /\ (row.outline => run[r].outline)
  BY <1>1 DEF Sound, HasRow
<1>3. /\ stored \in Row /\ stored.kind = run[r].kind
      /\ stored.outline = run[r].outline
      /\ stored.status \in {new.status, run[r].status}
  BY <1>1, MergedRow DEF Stored
<1>4. run' = [run EXCEPT ![r] = stored]
  BY DEF Save
<1>. HIDE DEF stored
<1>5. run'[r] = stored
  BY <1>1, <1>4 DEF IInv, TypeOK
<1>6. UNCHANGED settings /\ requests' \in Nat /\ faults' \in Nat
  BY Bounds DEF given
<1>7. /\ proc' \in [Agents -> Process]
      /\ \A a \in Agents : \/ proc'[a] = proc[a]
                           \/ Shaped(proc'[a]) /\ Sound(proc[a])'
  BY <1>1, <1>2, <1>3, <1>5, <1>6, WroteRow
<1>. QED  BY <1>1, <1>2, <1>3, <1>4, <1>6, <1>7, RowStep

LEMMA AnswerStep ==
    ASSUME IInv, NEW t \in Threads, Answer(t)
    PROVE  IInv'
<1>. t \in Agents
  BY DEF Agents
<1>. DEFINE row == proc[t].row
<1>1. ASSUME NEW r \in Runs, NEW kind \in IF settings.deep THEN {NoGoal} ELSE Kinds,
             StartCommit(t, r, kind)
      PROVE  IInv'
  BY <1>1, StartStep
<1>2. CASE StartConflict(t) \/ ResumeConflict(t)
  BY <1>2, DoneStep, Bounds DEF StartConflict, ResumeConflict, given
<1>3. CASE CancelCommit(t)
  <2>. DEFINE new == [row EXCEPT !.status = "cancelled", !.cancel = TRUE]
  <2>1. row \in Row /\ run[proc[t].run] \in Row
    BY <1>3, AtWorkOnRun DEF CancelCommit
  <2>2. new \in Row /\ new.status = "cancelled" /\ new.kind = row.kind
        /\ new.outline = row.outline
    BY <2>1 DEF Row, Resumable
  <2>3. Save(t, new) /\ Done(t) /\ proc[t].pc = "cancelling"
        /\ UNCHANGED <<approval, events, proposals, given>>
    BY <1>3 DEF CancelCommit
  <2>. HIDE DEF new
  <2>4. Stored(t, new).status \in {run[proc[t].run].status, "cancelled"}
    BY <2>1, <2>2, MergedRow DEF Stored
  <2>5. "cancelled" \notin Active
    BY DEF Active
  <2>. QED  BY <2>2, <2>3, <2>4, <2>5, SaveStep
<1>4. CASE ResumeCommit(t)
  <2>. DEFINE new == [row EXCEPT !.status = StartStatus, !.cancel = FALSE]
  <2>1. row \in Row /\ StartStatus \in {"queued", "running"}
    BY <1>4, AtWorkOnRun DEF ResumeCommit, StartStatus
  <2>2. /\ new \in Row /\ new.status \in {"queued", "running"}
        /\ new.kind = row.kind /\ new.outline = row.outline
    BY <2>1 DEF Row, Active
  <2>3. /\ Save(t, new) /\ proc[t].pc = "resuming"
        /\ Done(t) \/ At(t, "turn", proc[t].run, new, NoGoal, 0)
        /\ UNCHANGED <<approval, events, proposals, given>>
    BY <1>4 DEF ResumeCommit
  <2>. HIDE DEF new
  <2>. QED  BY <2>2, <2>3, SaveStep
<1>. QED  BY <1>1, <1>2, <1>3, <1>4 DEF Answer

-----------------------------------------------------------------------------
(* Workers and their environment *)

LEMMA ClaimStep ==
    ASSUME IInv, NEW w \in Workers, NEW r \in Runs, Claim(w, r)
    PROVE  IInv'
<1>. w \in Agents
  BY DEF Agents
<1>. DEFINE new == [run[r] EXCEPT !.status = "running", !.attempts = @ + 1,
                                  !.lease = "held"]
<1>1. run[r] \in Row /\ run[r].status \in {"queued", "running"}
  BY DEF Claim, Claimable, IInv, TypeOK
<1>2. /\ new \in Row /\ new.status = "running" /\ new.kind = run[r].kind
      /\ new.outline = run[r].outline
  <2>1. run[r].attempts + 1 \in Nat
    BY <1>1 DEF Row
  <2>. QED  BY <1>1, <2>1 DEF Row, Active
<1>3. run' = [run EXCEPT ![r] = new]
  BY DEF Claim
<1>. HIDE DEF new
<1>4. run'[r] = new
  BY <1>3 DEF IInv, TypeOK
<1>5. /\ UNCHANGED <<approval, events, proposals, settings>>
      /\ requests' \in Nat /\ faults' \in Nat
      /\ At(w, "turn", r, new, NoGoal, 0)
  BY <1>4, Bounds DEF Claim, given
<1>6. /\ proc' \in [Agents -> Process]
      /\ \A a \in Agents : \/ proc'[a] = proc[a]
                           \/ Shaped(proc'[a]) /\ Sound(proc[a])'
  BY <1>2, <1>4, <1>5, WroteRow
<1>7. run[r].status \in Active
  BY <1>1 DEF Active
<1>. QED  BY <1>1, <1>2, <1>3, <1>5, <1>6, <1>7, RowStep

LEMMA WorkerStepInv ==
    ASSUME IInv, NEW w \in Workers, WorkerStep(w)
    PROVE  IInv'
<1>. w \in Agents
  BY DEF Agents
<1>. DEFINE row == proc[w].row
<1>1. CASE TurnStep(w)
  BY <1>1, TurnStepInv
<1>2. CASE NoMembership(w)
  <2>. DEFINE new == [row EXCEPT !.status = "failed", !.lease = "none"]
  <2>1. row \in Row /\ run[proc[w].run] \in Row
    BY <1>2, AtWorkOnRun DEF NoMembership
  <2>2. new \in Row /\ new.status = "failed" /\ new.kind = row.kind
        /\ new.outline = row.outline
    BY <2>1 DEF Row, Resumable
  <2>3. Save(w, new) /\ Done(w) /\ proc[w].pc = "turn"
        /\ UNCHANGED <<approval, events, proposals, given>>
    BY <1>2 DEF NoMembership
  <2>. HIDE DEF new
  <2>4. Stored(w, new).status \in {run[proc[w].run].status, "failed"}
    BY <2>1, <2>2, MergedRow DEF Stored
  <2>5. "failed" \notin Active
    BY DEF Active
  <2>. QED  BY <2>2, <2>3, <2>4, <2>5, SaveStep
<1>3. CASE ExceptRead(w)
  <2>. DEFINE r == proc[w].run
  <2>1. r \in Runs /\ run[r] \in Row /\ run[r].status # "absent"
    BY <1>3, AtWorkOnRun DEF ExceptRead
  <2>2. CASE Done(w)
    BY <1>3, <2>2, DoneStep, Bounds DEF ExceptRead, given
  <2>3. CASE At(w, "requeueing", r, run[r], NoGoal, 0)
    <3>1. /\ UNCHANGED <<run, approval, events, proposals, settings>>
          /\ requests' \in Nat /\ faults' \in Nat /\ "requeueing" \in Pc /\ 0 \in Nat
      BY <1>3, Bounds DEF ExceptRead, given, Pc
    <3>. QED  BY <2>1, <2>3, <3>1, AtStep
  <2>. QED  BY <1>3, <2>2, <2>3 DEF ExceptRead
<1>4. CASE ExceptCommit(w)
  <2>. DEFINE new == Requeued(row)
  <2>1. row \in Row /\ proc[w].pc = "requeueing"
    BY <1>4, AtWorkOnRun DEF ExceptCommit
  <2>2. /\ new \in Row /\ new.status \in {"queued", "failed"}
        /\ new.kind = row.kind /\ new.outline = row.outline
    <3>1. PICK st \in {"queued", "failed"} :
              new = [row EXCEPT !.status = st, !.lease = "none"]
      BY DEF Requeued
    <3>. HIDE DEF new
    <3>. QED  BY <2>1, <3>1 DEF Row, Active, Resumable
  <2>. HIDE DEF new
  <2>3. CASE Save(w, new)
    BY <1>4, <2>1, <2>2, <2>3, SaveStep DEF ExceptCommit
  <2>4. CASE UNCHANGED run
    BY <1>4, <2>4, DoneStep, Bounds DEF ExceptCommit, given
  <2>. QED  BY <1>4, <2>3, <2>4 DEF ExceptCommit, new
<1>. QED  BY <1>1, <1>2, <1>3, <1>4 DEF WorkerStep

LEMMA ExpireStep ==
    ASSUME IInv, NEW r \in Runs, Expire(r)
    PROVE  IInv'
<1>. DEFINE new == [run[r] EXCEPT !.lease = "expired"]
<1>1. run[r] \in Row /\ run[r].lease = "held"
  BY DEF Expire, IInv, TypeOK
<1>2. /\ new \in Row /\ new.status = run[r].status /\ new.kind = run[r].kind
      /\ new.outline = run[r].outline
  BY <1>1 DEF Row
<1>3. run' = [run EXCEPT ![r] = new]
  BY DEF Expire
<1>4. /\ UNCHANGED <<approval, events, proposals, settings, proc>>
      /\ requests' \in Nat /\ faults' \in Nat /\ proc \in [Agents -> Process]
  BY Bounds DEF Expire, IInv, TypeOK
<1>. HIDE DEF new
<1>5. CASE run[r].status = "absent"
  <2>1. /\ run' \in [Runs -> Row]
        /\ \A s \in Runs : /\ run'[s].status = run[s].status
                           /\ run'[s].kind = run[s].kind
                           /\ run'[s].outline = run[s].outline
    BY <1>2, <1>3 DEF IInv, TypeOK
  <2>2. TypeOK'
    BY <1>4, <2>1 DEF IInv, TypeOK
  <2>3. /\ EventsGapless' /\ WaitingIsDecidable'
        /\ PlanNeedsApproval' /\ AbsentInv' /\ FiniteEvents'
    BY <1>4, <2>1 DEF IInv, EventsGapless, WaitingIsDecidable,
                      PlanNeedsApproval, AbsentInv, FiniteEvents
  <2>4. \A s \in Runs : Evolves(s)
    BY <1>4, <2>1, CardinalityIsNat DEF IInv, Evolves
  <2>. QED  BY <1>4, <2>2, <2>3, <2>4, GeneralStep
<1>6. CASE run[r].status # "absent"
  BY <1>2, <1>3, <1>4, <1>6, RowStep
<1>. QED  BY <1>5, <1>6

-----------------------------------------------------------------------------
(* Theorems *)

LEMMA Induction ==
    ASSUME IInv, [Next]_vars
    PROVE  IInv'
<1>1. ASSUME NEW t \in Threads, Request(t) \/ Answer(t) \/ TurnStep(t)
      PROVE  IInv'
  BY <1>1, RequestStep, AnswerStep, TurnStepInv DEF Agents
<1>2. ASSUME NEW w \in Workers, WorkerStep(w) \/ \E r \in Runs : Claim(w, r)
      PROVE  IInv'
  BY <1>2, WorkerStepInv, ClaimStep
<1>3. ASSUME NEW p \in Agents, Crash(p)
      PROVE  IInv'
  BY <1>3, DoneStep, Bounds DEF Crash
<1>4. CASE UNCHANGED vars
  <2>1. UNCHANGED <<run, approval, events, proposals, proc, settings, requests, faults>>
    BY <1>4 DEF vars, given
  <2>2. TypeOK'
    BY <2>1 DEF IInv, TypeOK
  <2>3. /\ EventsGapless' /\ WaitingIsDecidable'
        /\ PlanNeedsApproval' /\ AbsentInv' /\ FiniteEvents'
    BY <2>1 DEF IInv, EventsGapless, WaitingIsDecidable,
                PlanNeedsApproval, AbsentInv, FiniteEvents
  <2>4. \A s \in Runs : Evolves(s)
    BY <2>1, CardinalityIsNat DEF IInv, Evolves
  <2>. QED  BY <2>1, <2>2, <2>3, <2>4, GeneralStep
<1>. QED  BY <1>1, <1>2, <1>3, <1>4, ExpireStep DEF Next

THEOREM RunsInvariance == Spec => []IInv
BY InitInv, Induction, PTL DEF Spec

\* Rows, sessions and events keep their types whatever threads, workers and
\* faults do.
THEOREM RunsTypeCorrect == Spec => []TypeOK
<1>1. IInv => TypeOK
  BY DEF IInv
<1>. QED  BY <1>1, RunsInvariance, PTL

\* append_event numbers the events of a run 1..n although it reads the last
\* number before it commits the next.
THEOREM EventNumbersGapless == Spec => []EventsGapless
<1>1. IInv => EventsGapless
  BY DEF IInv
<1>. QED  BY <1>1, RunsInvariance, PTL

\* A run waits for approval only while its request can still be decided.
THEOREM WaitingRunsDecidable == Spec => []WaitingIsDecidable
<1>1. IInv => WaitingIsDecidable
  BY DEF IInv
<1>. QED  BY <1>1, RunsInvariance, PTL

\* Turns insert no patch for a plan that has not been approved.
THEOREM PlansAreApproved == Spec => []PlanNeedsApproval
<1>1. IInv => PlanNeedsApproval
  BY DEF IInv
<1>. QED  BY <1>1, RunsInvariance, PTL

-----------------------------------------------------------------------------
(* While leases last and clients handle a run one at a time *)

Decides(q) == q.pc \in {"appending", "ending"} /\ q.goal \in {"approved", "rejected"}

Turning(q) ==
    \/ q.pc \in {"turn", "streaming", "raised", "requeueing"}
    \/ q.pc \in {"appending", "ending"} /\ q.goal \notin {"approved", "rejected"}

\* A client that resumes or decides on a run is the only one to handle it, but
\* for those that cancel it.
OneAtATime ==
    \A t \in Threads : Decides(proc[t]) \/ proc[t].pc = "resuming" =>
        \A p \in Agents \ {t} : proc[p].run = proc[t].run => proc[p].pc = "cancelling"

\* What a process that turns may find in the row of its run: it is running, with
\* a lease if it was claimed, unless it has been cancelled, or has failed already.
InTurn(q, row) ==
    \/ row.status = "running" /\ (settings.queued => row.lease = "held")
    \/ row.status = "cancelled"
    \/ q.pc = "raised" /\ row.status = "failed"

\* What process p in state q relies on.
Holds(p, q, rows, approvals) ==
    /\ p \in Workers => q.pc \notin {"creating", "cancelling", "resuming"} /\ ~Decides(q)
    /\ q.run = NoRun <=> q.pc \in {"idle", "creating"}
    /\ Turning(q) =>
        /\ p \in Workers <=> settings.queued
        /\ q.pc # "raised" => q.row.status = "running"
        /\ InTurn(q, rows[q.run])
        /\ q.goal = "waiting_for_approval" => ~settings.deep /\ q.row.kind = "plan"
    /\ Decides(q) => approvals[q.run] = "pending"
    /\ Decides(q) \/ q.pc = "resuming" => rows[q.run].status \in {q.row.status, "cancelled"}
    /\ q.pc = "resuming" => q.row.status \in Resumable

\* A deployment without workers leases nothing; only the plan of a local turn
\* waits for a decision, and none that has been carried out does.
RowOk(row, decision) ==
    /\ ~settings.queued => row.status # "queued" /\ row.lease = "none"
    /\ decision \in {"none", "pending"} => ~row.outline
    /\ decision = "pending" => /\ ~settings.deep /\ row.kind = "plan"
                               /\ row.status # "completed"

TurnInv ==
    /\ \A p \in Agents : Holds(p, proc[p], run, approval)
    /\ \A p, o \in Agents :
        Turning(proc[p]) /\ Turning(proc[o]) /\ proc[p].run = proc[o].run => p = o
    /\ \A r \in Runs : RowOk(run[r], approval[r])

Undone(r) == run[r].status = "completed" /\ run'[r].status # "completed"

CancelPending(r) == \E t \in Threads : proc[t].pc = "cancelling" /\ proc[t].run = r

KeepsCompleted == \A r \in Runs : Undone(r) => CancelPending(r)

LEMMA IdleHolds ==
    ASSUME NEW p, NEW rows, NEW approvals
    PROVE  Holds(p, Idle, rows, approvals) /\ ~Turning(Idle)
BY DEF Holds, Idle, Turning, Decides

LEMMA ProcessFacts ==
    ASSUME IInv, TurnInv, NEW p \in Agents
    PROVE  /\ proc \in [Agents -> Process] /\ proc[p].row \in Row
           /\ proc[p].pc \in Pc /\ proc[p].run \in Runs \union {NoRun}
           /\ Turning(proc[p]) \/ Decides(proc[p]) \/ proc[p].pc \in {"resuming", "cancelling"} =>
                proc[p].run \in Runs
           /\ Holds(p, proc[p], run, approval)
           /\ Sound(proc[p])
BY DEF IInv, TypeOK, Process, TurnInv, Turning, Decides, ProcInv

\* Process p gets to q, and no other run than r changes.
LEMMA Moves ==
    ASSUME IInv, TurnInv, UNCHANGED settings, NEW p \in Agents, NEW q, NEW r,
           proc' = [proc EXCEPT ![p] = q], Holds(p, q, run', approval'),
           \A s \in Runs \ {r} : run'[s] = run[s] /\ approval'[s] = approval[s],
           r \in Runs => RowOk(run'[r], approval'[r]),
           \A o \in Agents \ {p} : proc[o].run = r => Holds(o, proc[o], run', approval'),
           Turning(q) => \A o \in Agents \ {p} : Turning(proc[o]) => proc[o].run # q.run
    PROVE  TurnInv'
<1>1. proc'[p] = q /\ \A o \in Agents \ {p} : proc'[o] = proc[o]
  BY DEF IInv, TypeOK
<1>2. ASSUME NEW o \in Agents \ {p}
      PROVE  Holds(o, proc[o], run', approval')
  <2>1. CASE proc[o].run = r
    BY <2>1
  <2>2. CASE proc[o].run # r
    <3>1. /\ proc[o].run \in Runs \/ (~Turning(proc[o]) /\ ~Decides(proc[o])
                                       /\ proc[o].pc # "resuming")
          /\ Holds(o, proc[o], run, approval)
      BY ProcessFacts
    <3>2. proc[o].run \in Runs => /\ run'[proc[o].run] = run[proc[o].run]
                                  /\ approval'[proc[o].run] = approval[proc[o].run]
      BY <2>2
    <3>. QED  BY <3>1, <3>2 DEF Holds
  <2>. QED  BY <2>1, <2>2
<1>3. \A o \in Agents : Holds(o, proc'[o], run', approval')
  BY <1>1, <1>2
<1>4. \A o \in Agents : Holds(o, proc[o], run, approval)'
  BY <1>3 DEF Holds, InTurn
<1>5. \A o, m \in Agents : Turning(proc'[o]) /\ Turning(proc'[m]) /\ proc'[o].run = proc'[m].run => o = m
  BY <1>1 DEF TurnInv
<1>6. \A s \in Runs : RowOk(run'[s], approval'[s])
  BY DEF TurnInv
<1>7. \A s \in Runs : RowOk(run[s], approval[s])'
  BY <1>6 DEF RowOk
<1>8. \A o, m \in Agents : (Turning(proc[o]) /\ Turning(proc[m]) /\ proc[o].run = proc[m].run => o = m)'
  BY <1>5 DEF Turning
<1>. QED  BY <1>4, <1>7, <1>8 DEF TurnInv

\* A process that turns, decides or resumes is the only one to handle its run.
LEMMA Alone ==
    ASSUME IInv, TurnInv, OneAtATime, NEW p \in Agents,
           Turning(proc[p]) \/ Decides(proc[p]) \/ proc[p].pc = "resuming",
           NEW o \in Agents \ {p}, proc[o].run = proc[p].run
    PROVE  proc[o].pc = "cancelling"
<1>1. /\ Holds(p, proc[p], run, approval) /\ Holds(o, proc[o], run, approval)
      /\ proc[o].pc \in Pc /\ proc[p].run \in Runs
  BY ProcessFacts
<1>2. proc[o].pc \notin {"idle", "creating"}
  BY <1>1, ConstantsAssumption DEF Holds
<1>3. CASE Decides(proc[p]) \/ proc[p].pc = "resuming"
  <2>1. p \in Threads
    BY <1>1, <1>3 DEF Holds, Agents
  <2>. QED  BY <1>3, <2>1 DEF OneAtATime
<1>4. CASE Decides(proc[o]) \/ proc[o].pc = "resuming"
  <2>1. o \in Threads
    BY <1>1, <1>4 DEF Holds, Agents
  <2>2. proc[p].pc = "cancelling"
    BY <1>4, <2>1 DEF OneAtATime
  <2>. QED  BY <2>2 DEF Turning, Decides
<1>5. CASE Turning(proc[p]) /\ Turning(proc[o])
  BY <1>5 DEF TurnInv
<1>6. Turning(proc[o]) \/ Decides(proc[o]) \/ proc[o].pc \in {"resuming", "cancelling"}
  BY <1>1, <1>2 DEF Turning, Decides, Pc
<1>. QED  BY <1>3, <1>4, <1>5, <1>6

LEMMA CancellingHolds ==
    ASSUME NEW o, NEW q, NEW rows, NEW approvals, q.pc = "cancelling",
           o \notin Workers, q.run # NoRun
    PROVE  Holds(o, q, rows, approvals)
BY DEF Holds, Turning, Decides

\* A process that is alone with its run may write it.
LEMMA AloneMoves ==
    ASSUME IInv, TurnInv, OneAtATime, UNCHANGED settings, NEW p \in Agents,
           Turning(proc[p]) \/ Decides(proc[p]) \/ proc[p].pc = "resuming",
           NEW q, proc' = [proc EXCEPT ![p] = q], q.run \in {NoRun, proc[p].run},
           Holds(p, q, run', approval'),
           \A s \in Runs \ {proc[p].run} : run'[s] = run[s] /\ approval'[s] = approval[s],
           RowOk(run'[proc[p].run], approval'[proc[p].run])
    PROVE  TurnInv' /\ KeepsCompleted
<1>1. proc[p].run \in Runs /\ Holds(p, proc[p], run, approval)
  BY ProcessFacts
<1>2. ASSUME NEW o \in Agents \ {p}, proc[o].run = proc[p].run
      PROVE  Holds(o, proc[o], run', approval') /\ ~Turning(proc[o])
  <2>1. proc[o].pc = "cancelling"
    BY <1>2, Alone
  <2>2. o \notin Workers /\ proc[o].run # NoRun
    BY <1>1, <1>2, <2>1, ProcessFacts, ConstantsAssumption DEF Holds
  <2>. QED  BY <2>1, <2>2, CancellingHolds DEF Turning
<1>3. Turning(q) => \A o \in Agents \ {p} : Turning(proc[o]) => proc[o].run # q.run
  <2>1. Turning(q) => q.run # NoRun
    BY DEF Holds, Turning
  <2>. QED  BY <1>2, <2>1
<1>4. TurnInv'
  <2>. DEFINE r == proc[p].run
  <2>1. \A o \in Agents \ {p} : proc[o].run = r => Holds(o, proc[o], run', approval')
    BY <1>2
  <2>2. \A s \in Runs \ {r} : run'[s] = run[s] /\ approval'[s] = approval[s]
    OBVIOUS
  <2>3. RowOk(run'[r], approval'[r])
    OBVIOUS
  <2>. HIDE DEF r
  <2>. QED  BY <1>3, <2>1, <2>2, <2>3, Moves
<1>5. run[proc[p].run].status # "completed"
  <2>1. RowOk(run[proc[p].run], approval[proc[p].run])
    BY <1>1 DEF TurnInv
  <2>. QED  BY <1>1, <2>1 DEF Holds, InTurn, RowOk, Resumable
<1>6. KeepsCompleted
  BY <1>5 DEF KeepsCompleted, Undone
<1>. QED  BY <1>4, <1>6

\* Nothing is written, and p does not begin a turn.
LEMMA Leaves ==
    ASSUME IInv, TurnInv, UNCHANGED <<run, approval, settings>>, NEW p \in Agents, NEW q,
           proc' = [proc EXCEPT ![p] = q], ~Turning(q), Holds(p, q, run, approval)
    PROVE  TurnInv' /\ KeepsCompleted
<1>1. \A o \in Agents \ {p} : Holds(o, proc[o], run', approval')
  BY ProcessFacts
<1>2. Holds(p, q, run', approval')
  OBVIOUS
<1>3. TurnInv'
  BY <1>1, <1>2, ConstantsAssumption, Moves
<1>. QED  BY <1>3 DEF KeepsCompleted, Undone

LEMMA SavesOwnRow ==
    ASSUME IInv, NEW p \in Agents, NEW new, Save(p, new)
    PROVE  /\ \A s \in Runs \ {proc[p].run} : run'[s] = run[s]
           /\ proc[p].run \in Runs => run'[proc[p].run] = Stored(p, new)
BY DEF Save, IInv, TypeOK

\* A turn is over, with its row written or as it was.
LEMMA TurnOver ==
    ASSUME IInv, TurnInv, OneAtATime, UNCHANGED settings, NEW p \in Agents,
           Turning(proc[p]) \/ Decides(proc[p]) \/ proc[p].pc = "resuming",
           Done(p),
           \A s \in Runs \ {proc[p].run} : run'[s] = run[s] /\ approval'[s] = approval[s],
           RowOk(run'[proc[p].run], approval'[proc[p].run])
    PROVE  TurnInv' /\ KeepsCompleted
<1>1. PICK q : q = Idle
  OBVIOUS
<1>2. Holds(p, q, run', approval') /\ q.run = NoRun
  BY <1>1, IdleHolds DEF Idle
<1>3. proc' = [proc EXCEPT ![p] = q]
  BY <1>1 DEF Done
<1>. QED  BY <1>2, <1>3, AloneMoves

\* p keeps its row and gets to another point of its turn.
LEMMA TurnGoesOn ==
    ASSUME IInv, TurnInv, OneAtATime, UNCHANGED <<run, approval, settings>>,
           NEW p \in Agents, Turning(proc[p]), proc[p].pc # "raised",
           NEW pc \in {"turn", "streaming", "appending", "ending"},
           NEW goal, goal \notin {"approved", "rejected"}, NEW base,
           goal = "waiting_for_approval" => ~settings.deep /\ proc[p].row.kind = "plan",
           At(p, pc, proc[p].run, proc[p].row, goal, base)
    PROVE  TurnInv' /\ KeepsCompleted
<1>. DEFINE n == [pc |-> pc, run |-> proc[p].run, row |-> proc[p].row,
                  goal |-> goal, base |-> base]
<1>1. PICK q : q = n
  OBVIOUS
<1>2. /\ Holds(p, proc[p], run, approval) /\ proc[p].run \in Runs
      /\ RowOk(run[proc[p].run], approval[proc[p].run])
  BY ProcessFacts DEF TurnInv
<1>3. /\ q.pc = pc /\ q.run = proc[p].run /\ q.row = proc[p].row /\ q.goal = goal
  BY <1>1
<1>4. Holds(p, q, run, approval)
  BY <1>2, <1>3, ConstantsAssumption DEF Holds, InTurn, Turning, Decides
<1>5. proc' = [proc EXCEPT ![p] = q]
  BY <1>1 DEF At
<1>. QED  BY <1>2, <1>3, <1>4, <1>5, AloneMoves

\* An exception ends the turn of p, with the failure committed or nothing.
LEMMA TurnRaised ==
    ASSUME IInv, TurnInv, OneAtATime, UNCHANGED <<approval, settings>>, NEW p \in Agents,
           Turning(proc[p]) \/ Decides(proc[p]), proc[p].pc # "raised", Raise(p),
           \A s \in Runs \ {proc[p].run} : run'[s] = run[s],
           \/ run'[proc[p].run] = run[proc[p].run]
           \/ /\ run'[proc[p].run].status = "failed"
              /\ RowOk(run'[proc[p].run], approval[proc[p].run])
    PROVE  TurnInv' /\ KeepsCompleted
<1>. DEFINE n == [pc |-> "raised", run |-> proc[p].run, row |-> NoRow,
                  goal |-> NoGoal, base |-> 0]
<1>1. PICK q : q = n
  OBVIOUS
<1>2. /\ Holds(p, proc[p], run, approval) /\ proc[p].run \in Runs
      /\ RowOk(run[proc[p].run], approval[proc[p].run])
  BY ProcessFacts DEF TurnInv
<1>3. RowOk(run'[proc[p].run], approval'[proc[p].run])
  BY <1>2
<1>4. CASE p \in Workers
  <2>1. q.pc = "raised" /\ q.run = proc[p].run /\ q.goal = NoGoal
    BY <1>1
  <2>2. Turning(proc[p])
    BY <1>2, <1>4 DEF Holds
  <2>3. InTurn(q, run'[q.run])
    BY <1>2, <2>1, <2>2 DEF Holds, InTurn
  <2>4. Holds(p, q, run', approval')
    BY <1>2, <1>4, <2>1, <2>2, <2>3, ConstantsAssumption
       DEF Holds, Turning, Decides, NoGoal
  <2>5. proc' = [proc EXCEPT ![p] = q]
    BY <1>1, <1>4 DEF Raise, At
  <2>. QED  BY <1>3, <2>1, <2>4, <2>5, AloneMoves
<1>5. CASE p \notin Workers
  BY <1>3, <1>5, TurnOver DEF Raise
<1>. QED  BY <1>4, <1>5

\* What a commit of p stores in the row of its run.
LEMMA SavedRow ==
    ASSUME IInv, TurnInv, NEW p \in Agents, proc[p].run \in Runs,
           NEW new, Save(p, new), settings.queued \/ new.status # "queued",
           new.lease \in {proc[p].row.lease, "none"}
    PROVE  LET r == proc[p].run  now == run[r]  row == proc[p].row  m == run'[r] IN
           /\ \A s \in Runs \ {r} : run'[s] = run[s]
           /\ m.status = IF new.status = row.status THEN now.status ELSE new.status
           /\ new.outline = row.outline => m.outline = now.outline
           /\ new.lease = row.lease => m.lease = now.lease
           /\ m.kind = now.kind
           /\ ~settings.queued => m.status # "queued" /\ m.lease = "none"
<1>. DEFINE r == proc[p].run  now == run[r]  row == proc[p].row  m == run'[r]
<1>1. /\ \A s \in Runs \ {r} : run'[s] = run[s]
      /\ m = Merged(now, row, new)
  BY SavesOwnRow DEF Stored
<1>2. RowOk(now, approval[r])
  BY DEF TurnInv
<1>. HIDE DEF now, row, m
<1>3. /\ m.status = Column(now.status, row.status, new.status)
      /\ m.outline = Column(now.outline, row.outline, new.outline)
      /\ m.lease = Column(now.lease, row.lease, new.lease)
      /\ m.kind = now.kind
  BY <1>1 DEF Merged
<1>4. new.lease \in {row.lease, "none"}
  BY DEF row
<1>5. /\ m.status = IF new.status = row.status THEN now.status ELSE new.status
      /\ new.outline = row.outline => m.outline = now.outline
      /\ new.lease = row.lease => m.lease = now.lease
      /\ ~settings.queued => m.status # "queued" /\ m.lease = "none"
  BY <1>2, <1>3, <1>4 DEF Column, RowOk
<1>. QED  BY <1>1, <1>3, <1>5 DEF now, row, m

\* The row of a run whose decision and outline stay.
LEMMA StaysOk ==
    ASSUME NEW now, NEW m, NEW a, RowOk(now, a), m.outline = now.outline, m.kind = now.kind,
           m.status # "completed" \/ a # "pending",
           ~settings.queued => m.status # "queued" /\ m.lease = "none"
    PROVE  RowOk(m, a)
BY DEF RowOk

LEMMA ConcludedRow ==
    ASSUME NEW p \in Agents, proc[p].row \in Row, proc[p].goal \in Goals
    PROVE  LET c == Concluded(p)  row == proc[p].row  goal == proc[p].goal IN
           /\ c.lease = row.lease
           /\ goal # "approved" => c.outline = row.outline
           /\ goal = "progress" => c.status = row.status
           /\ goal = "approved" => c.status = StartStatus
           /\ goal = "rejected" => c.status = "cancelled"
           /\ goal \notin {"progress", "approved", "rejected"} => c.status = goal
<1>1. CASE proc[p].goal = "progress"
  BY <1>1 DEF Concluded
<1>2. CASE proc[p].goal = "approved"
  BY <1>2 DEF Concluded, Row
<1>3. CASE proc[p].goal = "rejected"
  BY <1>3 DEF Concluded, Row
<1>4. CASE proc[p].goal \notin {"progress", "approved", "rejected"}
  <2>1. Concluded(p) = [proc[p].row EXCEPT !.status = proc[p].goal]
    BY <1>4 DEF Concluded
  <2>. QED  BY <1>4, <2>1 DEF Row
<1>. QED  BY <1>1, <1>2, <1>3, <1>4

\* The commit of p, which turns or decides, as its goal has it.
LEMMA CommitsItsRow ==
    ASSUME IInv, TurnInv, NEW p \in Agents, NEW goal, Commit(p, goal)
    PROVE  LET r == proc[p].run  now == run[r]  row == proc[p].row  m == run'[r] IN
           /\ proc[p].pc = "ending" /\ proc[p].goal = goal /\ goal \in Goals
           /\ r \in Runs /\ UNCHANGED settings /\ ApprovalFree(p)
           /\ \A s \in Runs \ {r} : run'[s] = run[s]
           /\ Concluded(p).lease = row.lease
           /\ m.lease = now.lease /\ m.kind = now.kind
           /\ goal # "approved" => m.outline = now.outline
           /\ ~settings.queued => m.status # "queued" /\ m.lease = "none"
           /\ m.status = IF Concluded(p).status = row.status THEN now.status
                         ELSE Concluded(p).status
<1>1. /\ proc[p].pc = "ending" /\ proc[p].goal = goal /\ Save(p, Concluded(p))
      /\ UNCHANGED settings /\ ApprovalFree(p)
  BY DEF Commit, Acceptable, given
<1>2. proc[p].goal \in Goals /\ proc[p].run \in Runs /\ proc[p].row \in Row
  BY <1>1 DEF IInv, TypeOK, Process
<1>3. /\ Concluded(p).lease = proc[p].row.lease
      /\ goal # "approved" => Concluded(p).outline = proc[p].row.outline
  BY <1>1, <1>2, ConcludedRow
<1>4. settings.queued \/ Concluded(p).status # "queued"
  <2>1. CASE goal = "progress"
    <3>1. Concluded(p).status = proc[p].row.status
      BY <1>1, <1>2, <2>1, ConcludedRow
    <3>2. proc[p].row.status = "running"
      BY <1>1, <2>1, ProcessFacts DEF Holds, Turning
    <3>. QED  BY <3>1, <3>2
  <2>2. CASE goal # "progress"
    BY <1>1, <1>2, <2>2, ConcludedRow DEF StartStatus, Goals
  <2>. QED  BY <2>1, <2>2
<1>5. Concluded(p).lease \in {proc[p].row.lease, "none"}
  BY <1>3
<1>6. PICK new : new = Concluded(p)
  OBVIOUS
<1>7. Save(p, new) /\ new.lease \in {proc[p].row.lease, "none"}
      /\ (settings.queued \/ new.status # "queued")
  BY <1>1, <1>4, <1>5, <1>6
<1>. QED  BY <1>1, <1>2, <1>3, <1>6, <1>7, SavedRow

LEMMA ProgressCommits ==
    ASSUME IInv, TurnInv, OneAtATime, NEW p \in Agents, CommitProgress(p)
    PROVE  TurnInv' /\ KeepsCompleted
<1>1. Commit(p, "progress") /\ At(p, "streaming", proc[p].run, proc[p].row, NoGoal, 0)
      /\ UNCHANGED approval
  BY DEF CommitProgress
<1>. DEFINE r == proc[p].run
            n == [pc |-> "streaming", run |-> r, row |-> proc[p].row, goal |-> NoGoal, base |-> 0]
<1>2. /\ proc[p].pc = "ending" /\ proc[p].goal = "progress" /\ r \in Runs
      /\ UNCHANGED settings
      /\ \A s \in Runs \ {r} : run'[s] = run[s]
      /\ run'[r].lease = run[r].lease /\ run'[r].kind = run[r].kind
      /\ run'[r].outline = run[r].outline
      /\ ~settings.queued => run'[r].status # "queued" /\ run'[r].lease = "none"
      /\ run'[r].status = IF Concluded(p).status = proc[p].row.status THEN run[r].status
                          ELSE Concluded(p).status
  BY <1>1, CommitsItsRow
<1>3. run'[r].status = run[r].status
  BY <1>2, ProcessFacts, ConcludedRow DEF Goals
<1>4. /\ Turning(proc[p]) /\ Holds(p, proc[p], run, approval)
      /\ RowOk(run[r], approval[r])
  BY <1>2, ProcessFacts DEF Turning, TurnInv
<1>5. RowOk(run'[r], approval'[r])
  <2>1. run[r].status # "completed" \/ approval[r] # "pending"
    BY <1>4 DEF RowOk
  <2>. QED  BY <1>1, <1>2, <1>3, <1>4, <2>1, StaysOk
<1>6. PICK q : q = n
  OBVIOUS
<1>7. q.pc = "streaming" /\ q.run = r /\ q.row = proc[p].row /\ q.goal = NoGoal
  BY <1>6
<1>8. InTurn(q, run'[q.run])
  BY <1>2, <1>3, <1>4, <1>7 DEF Holds, InTurn
<1>9. Holds(p, q, run', approval')
  BY <1>2, <1>4, <1>7, <1>8 DEF Holds, Turning, Decides, NoGoal
<1>10. proc' = [proc EXCEPT ![p] = q]
  BY <1>1, <1>6 DEF At
<1>. HIDE DEF n
<1>. QED  BY <1>1, <1>2, <1>4, <1>5, <1>7, <1>9, <1>10, AloneMoves

LEMMA DecisionCommits ==
    ASSUME IInv, TurnInv, OneAtATime, NEW p \in Agents, CommitApproved(p) \/ CommitRejected(p)
    PROVE  TurnInv' /\ KeepsCompleted
<1>. DEFINE r == proc[p].run
<1>1. CASE CommitRejected(p)
  <2>1. Commit(p, "rejected") /\ approval' = [approval EXCEPT ![r] = "rejected"] /\ Done(p)
    BY <1>1 DEF CommitRejected
  <2>2. /\ proc[p].pc = "ending" /\ proc[p].goal = "rejected" /\ r \in Runs
        /\ UNCHANGED settings
        /\ \A s \in Runs \ {r} : run'[s] = run[s]
        /\ ~settings.queued => run'[r].status # "queued" /\ run'[r].lease = "none"
    BY <2>1, CommitsItsRow
  <2>3. approval'[r] = "rejected" /\ \A s \in Runs \ {r} : approval'[s] = approval[s]
    BY <2>1, <2>2 DEF IInv, TypeOK
  <2>4. RowOk(run'[r], approval'[r])
    BY <2>2, <2>3 DEF RowOk
  <2>5. Decides(proc[p])
    BY <2>2 DEF Decides
  <2>. QED  BY <2>1, <2>2, <2>3, <2>4, <2>5, TurnOver
<1>2. CASE CommitApproved(p)
  <2>1. /\ Commit(p, "approved") /\ approval' = [approval EXCEPT ![r] = "approved"]
        /\ IF settings.queued THEN Done(p) ELSE At(p, "turn", r, Concluded(p), NoGoal, 0)
    BY <1>2 DEF CommitApproved
  <2>2. /\ proc[p].pc = "ending" /\ proc[p].goal = "approved" /\ r \in Runs
        /\ UNCHANGED settings
        /\ \A s \in Runs \ {r} : run'[s] = run[s]
        /\ ~settings.queued => run'[r].status # "queued" /\ run'[r].lease = "none"
        /\ run'[r].status = IF Concluded(p).status = proc[p].row.status THEN run[r].status
                            ELSE Concluded(p).status
    BY <2>1, CommitsItsRow
  <2>3. approval'[r] = "approved" /\ \A s \in Runs \ {r} : approval'[s] = approval[s]
    BY <2>1, <2>2 DEF IInv, TypeOK
  <2>4. RowOk(run'[r], approval'[r])
    BY <2>2, <2>3 DEF RowOk
  <2>5. Decides(proc[p])
    BY <2>2 DEF Decides
  <2>6. CASE settings.queued
    BY <2>1, <2>2, <2>3, <2>4, <2>5, <2>6, TurnOver
  <2>7. CASE ~settings.queued
    <3>. DEFINE n == [pc |-> "turn", run |-> r, row |-> Concluded(p), goal |-> NoGoal, base |-> 0]
    <3>1. Concluded(p).status = "running"
      BY <2>2, <2>7, ProcessFacts, ConcludedRow DEF Goals, StartStatus
    <3>2. p \notin Workers /\ run[r].status \in {proc[p].row.status, "cancelled"}
      BY <2>5, ProcessFacts DEF Holds
    <3>3. PICK q : q = n
      OBVIOUS
    <3>4. q.pc = "turn" /\ q.run = r /\ q.row.status = "running" /\ q.goal = NoGoal
      BY <3>1, <3>3
    <3>5. run'[r].status \in {"running", "cancelled"}
      BY <2>2, <3>1, <3>2
    <3>6. Holds(p, q, run', approval')
      BY <2>2, <2>7, <3>2, <3>4, <3>5, ConstantsAssumption
         DEF Holds, Turning, Decides, InTurn, NoGoal
    <3>7. proc' = [proc EXCEPT ![p] = q]
      BY <2>1, <2>7, <3>3 DEF At
    <3>. HIDE DEF n
    <3>. QED  BY <2>2, <2>3, <2>4, <2>5, <3>4, <3>6, <3>7, AloneMoves
  <2>. QED  BY <2>6, <2>7
<1>. QED  BY <1>1, <1>2

\* The end of a turn that has come to goal.
LEMMA EndCommits ==
    ASSUME IInv, TurnInv, OneAtATime, NEW p \in Agents,
           NEW goal \in {"waiting_for_approval", "completed", "cancelled",
                         "waiting_for_user", "failed"},
           Commit(p, goal)
    PROVE  LET r == proc[p].run IN
           /\ Turning(proc[p]) /\ proc[p].pc = "ending" /\ r \in Runs
           /\ UNCHANGED settings
           /\ \A s \in Runs \ {r} : run'[s] = run[s]
           /\ run'[r].status = goal
           /\ goal # "waiting_for_approval" => RowOk(run'[r], approval[r])
           /\ goal = "waiting_for_approval" => RowOk(run'[r], "pending")
<1>. DEFINE r == proc[p].run
<1>1. /\ proc[p].pc = "ending" /\ proc[p].goal = goal /\ r \in Runs /\ goal \in Goals
      /\ UNCHANGED settings /\ ApprovalFree(p)
      /\ \A s \in Runs \ {r} : run'[s] = run[s]
      /\ run'[r].kind = run[r].kind /\ run'[r].outline = run[r].outline
      /\ ~settings.queued => run'[r].status # "queued" /\ run'[r].lease = "none"
      /\ run'[r].status = IF Concluded(p).status = proc[p].row.status THEN run[r].status
                          ELSE Concluded(p).status
  BY CommitsItsRow
<1>2. /\ Turning(proc[p]) /\ Holds(p, proc[p], run, approval) /\ Sound(proc[p])
      /\ RowOk(run[r], approval[r]) /\ proc[p].row \in Row
  BY <1>1, ProcessFacts DEF Turning, TurnInv
<1>3. Concluded(p).status = goal
  BY <1>1, <1>2, ConcludedRow
<1>4. run'[r].status = goal
  BY <1>1, <1>2, <1>3 DEF Holds
<1>5. CASE goal = "completed"
  <2>1. approval[r] # "pending"
    <3>. SUFFICES ASSUME approval[r] = "pending"
                  PROVE  FALSE
      OBVIOUS
    <3>1. ~settings.deep /\ run[r].kind = "plan" /\ ~run[r].outline
      BY <1>2 DEF RowOk
    <3>. QED  BY <1>1, <1>2, <1>5, <3>1 DEF Sound, HasRow
  <2>2. RowOk(run'[r], approval[r])
    BY <1>1, <1>2, <2>1, StaysOk
  <2>. QED  BY <1>1, <1>2, <1>4, <1>5, <2>2
<1>6. CASE goal = "waiting_for_approval"
  <2>1. approval[r] = "none" /\ ~settings.deep /\ proc[p].row.kind = "plan"
    BY <1>1, <1>2, <1>6 DEF ApprovalFree, Holds
  <2>2. run[r].kind = "plan" /\ ~run[r].outline
    BY <1>1, <1>2, <2>1 DEF Sound, HasRow, RowOk
  <2>3. RowOk(run'[r], "pending")
    BY <1>1, <1>4, <1>6, <2>1, <2>2 DEF RowOk
  <2>. QED  BY <1>1, <1>2, <1>4, <1>6, <2>3
<1>7. CASE goal \notin {"completed", "waiting_for_approval"}
  <2>1. RowOk(run'[r], approval[r])
    BY <1>1, <1>2, <1>4, <1>7, StaysOk
  <2>. QED  BY <1>1, <1>2, <1>4, <1>7, <2>1
<1>. QED  BY <1>5, <1>6, <1>7

LEMMA TurnCommits ==
    ASSUME IInv, TurnInv, OneAtATime, NEW p \in Agents,
           \/ CommitWaitingForApproval(p) \/ CommitCompleted(p)
           \/ CommitStopped(p) \/ CommitFailed(p) \/ CommitRefused(p)
    PROVE  TurnInv' /\ KeepsCompleted
<1>. DEFINE r == proc[p].run
<1>1. CASE CommitWaitingForApproval(p)
  <2>1. /\ Commit(p, "waiting_for_approval") /\ Done(p)
        /\ approval' = [approval EXCEPT ![r] = "pending"]
    BY <1>1 DEF CommitWaitingForApproval
  <2>2. /\ Turning(proc[p]) /\ r \in Runs /\ UNCHANGED settings
        /\ \A s \in Runs \ {r} : run'[s] = run[s]
        /\ RowOk(run'[r], "pending")
    BY <2>1, EndCommits
  <2>3. approval'[r] = "pending" /\ \A s \in Runs \ {r} : approval'[s] = approval[s]
    BY <2>1, <2>2 DEF IInv, TypeOK
  <2>. QED  BY <2>1, <2>2, <2>3, TurnOver
<1>2. CASE CommitCompleted(p) \/ CommitStopped(p)
  <2>1. PICK goal \in {"completed", "cancelled", "waiting_for_user"} : Commit(p, goal)
    BY <1>2 DEF CommitCompleted, CommitStopped
  <2>2. Done(p) /\ UNCHANGED approval
    BY <1>2 DEF CommitCompleted, CommitStopped
  <2>3. /\ Turning(proc[p]) /\ r \in Runs /\ UNCHANGED settings
        /\ \A s \in Runs \ {r} : run'[s] = run[s]
        /\ RowOk(run'[r], approval[r])
    BY <2>1, EndCommits
  <2>. QED  BY <2>2, <2>3, TurnOver
<1>3. CASE CommitFailed(p)
  <2>1. Commit(p, "failed") /\ Raise(p) /\ UNCHANGED approval
    BY <1>3 DEF CommitFailed
  <2>2. /\ Turning(proc[p]) /\ proc[p].pc = "ending" /\ UNCHANGED settings
        /\ \A s \in Runs \ {r} : run'[s] = run[s]
        /\ run'[r].status = "failed" /\ RowOk(run'[r], approval[r])
    BY <2>1, EndCommits
  <2>. QED  BY <2>1, <2>2, TurnRaised
<1>4. CASE CommitRefused(p)
  <2>1. Turning(proc[p]) \/ Decides(proc[p])
    BY <1>4 DEF CommitRefused, Turning, Decides
  <2>2. UNCHANGED <<run, approval, settings>> /\ Raise(p) /\ proc[p].pc = "ending"
    BY <1>4 DEF CommitRefused, given
  <2>. QED  BY <2>1, <2>2, TurnRaised
<1>. QED  BY <1>1, <1>2, <1>3, <1>4

\* p numbers its event; it turns or decides.
LEMMA NumberGoesOn ==
    ASSUME IInv, TurnInv, OneAtATime, NEW p \in Agents, NumberEvent(p)
    PROVE  TurnInv' /\ KeepsCompleted
<1>1. /\ proc[p].pc = "appending" /\ UNCHANGED <<run, approval, settings>>
      /\ At(p, "ending", proc[p].run, proc[p].row, proc[p].goal, LastSeq(proc[p].run))
  BY DEF NumberEvent, given
<1>. DEFINE n == [pc |-> "ending", run |-> proc[p].run, row |-> proc[p].row,
                  goal |-> proc[p].goal, base |-> LastSeq(proc[p].run)]
<1>2. PICK q : q = n
  OBVIOUS
<1>3. q.pc = "ending" /\ q.run = proc[p].run /\ q.row = proc[p].row /\ q.goal = proc[p].goal
  BY <1>2
<1>4. /\ Holds(p, proc[p], run, approval) /\ proc[p].run \in Runs
      /\ RowOk(run[proc[p].run], approval[proc[p].run])
  BY <1>1, ProcessFacts DEF Turning, Decides, TurnInv
<1>5. Holds(p, q, run, approval)
  BY <1>1, <1>3, <1>4 DEF Holds, InTurn, Turning, Decides
<1>6. proc' = [proc EXCEPT ![p] = q]
  BY <1>1, <1>2 DEF At
<1>7. Turning(proc[p]) \/ Decides(proc[p])
  BY <1>1 DEF Turning, Decides
<1>8. RowOk(run'[proc[p].run], approval'[proc[p].run]) /\ Holds(p, q, run', approval')
  BY <1>1, <1>4, <1>5
<1>9. \A s \in Runs \ {proc[p].run} : run'[s] = run[s] /\ approval'[s] = approval[s]
  BY <1>1
<1>. HIDE DEF n
<1>. QED  BY <1>1, <1>3, <1>6, <1>7, <1>8, <1>9, AloneMoves

LEMMA TurnWorks ==
    ASSUME ~NewPreferences, IInv, TurnInv, OneAtATime, NEW p \in Agents, TurnStep(p)
    PROVE  TurnInv' /\ KeepsCompleted
<1>0. ~NewPreferences
  OBVIOUS
<1>1. ASSUME NEW goal, goal \notin {"approved", "rejected"}, proc[p].pc \in {"turn", "streaming"},
             Conclude(p, goal),
             goal = "waiting_for_approval" => ~settings.deep /\ proc[p].row.kind = "plan"
      PROVE  TurnInv' /\ KeepsCompleted
  <2>1. /\ UNCHANGED <<run, approval, settings>> /\ Turning(proc[p]) /\ proc[p].pc # "raised"
        /\ At(p, "appending", proc[p].run, proc[p].row, goal, 0)
    BY <1>1 DEF Conclude, given, Turning
  <2>. QED  BY <1>1, <2>1, TurnGoesOn
<1>2. CASE LocalTurn(p)
  <2>1. PICK goal \in LocalGoals(proc[p].row) : Conclude(p, goal)
    BY <1>2 DEF LocalTurn
  <2>2. /\ goal \notin {"approved", "rejected"}
        /\ goal = "waiting_for_approval" => proc[p].row.kind = "plan"
    BY <1>0 DEF LocalGoals
  <2>. QED  BY <1>1, <1>2, <2>1, <2>2 DEF LocalTurn
<1>3. CASE DeepTurn(p)
  <2>1. CASE Conclude(p, "waiting_for_user") \/ Conclude(p, "cancelled")
    BY <1>1, <1>3, <2>1 DEF DeepTurn
  <2>2. CASE Invoke(p)
    <3>1. /\ UNCHANGED <<run, approval, settings>> /\ Turning(proc[p]) /\ proc[p].pc # "raised"
          /\ At(p, "streaming", proc[p].run, proc[p].row, NoGoal, 0)
      BY <1>3, <2>2 DEF DeepTurn, Invoke, given, Turning
    <3>. QED  BY <3>1, TurnGoesOn DEF NoGoal
  <2>. QED  BY <1>3, <2>1, <2>2 DEF DeepTurn
<1>4. CASE TurnRaises(p)
  <2>1. /\ UNCHANGED <<run, approval, settings>> /\ Turning(proc[p]) /\ proc[p].pc # "raised"
        /\ Raise(p)
    BY <1>4 DEF TurnRaises, given, Turning
  <2>. QED  BY <2>1, TurnRaised
<1>5. CASE ProviderProgress(p) \/ ProviderCancelled(p) \/ ProviderAnswers(p) \/ ProviderFails(p)
  BY <1>1, <1>5 DEF ProviderProgress, ProviderCancelled, ProviderAnswers, ProviderFails
<1>. QED  BY <1>2, <1>3, <1>4, <1>5, NumberGoesOn, ProgressCommits, DecisionCommits,
             TurnCommits DEF TurnStep

\* What a worker does besides.
LEMMA WorkerWorks ==
    ASSUME IInv, TurnInv, OneAtATime, NEW w \in Workers,
           NoMembership(w) \/ ExceptRead(w) \/ ExceptCommit(w)
    PROVE  TurnInv' /\ KeepsCompleted
<1>. DEFINE r == proc[w].run
<1>0. /\ w \in Agents /\ UNCHANGED <<approval, settings>> /\ Turning(proc[w]) /\ r \in Runs
      /\ Holds(w, proc[w], run, approval) /\ settings.queued
      /\ RowOk(run[r], approval[r]) /\ proc[w].row \in Row
  <2>1. w \in Agents
    BY DEF Agents
  <2>2. UNCHANGED <<approval, settings>> /\ Turning(proc[w])
    BY DEF NoMembership, ExceptRead, ExceptCommit, given, Turning
  <2>. QED  BY <2>1, <2>2, ProcessFacts DEF TurnInv, Holds
<1>1. ASSUME NEW new, Save(w, new), Done(w), new.lease = "none", new.outline = proc[w].row.outline,
             new.status \in {"failed", "queued"}, proc[w].row.status = "running"
      PROVE  TurnInv' /\ KeepsCompleted
  <2>1. new.lease \in {proc[w].row.lease, "none"}
    BY <1>1
  <2>2. /\ \A s \in Runs \ {r} : run'[s] = run[s]
        /\ run'[r].status = new.status
        /\ run'[r].outline = run[r].outline /\ run'[r].kind = run[r].kind
    BY <1>0, <1>1, <2>1, SavedRow
  <2>3. RowOk(run'[r], approval'[r])
    BY <1>0, <1>1, <2>2, StaysOk
  <2>. QED  BY <1>0, <1>1, <2>2, <2>3, TurnOver
<1>2. CASE NoMembership(w)
  <2>. DEFINE new == [proc[w].row EXCEPT !.status = "failed", !.lease = "none"]
  <2>1. Save(w, new) /\ Done(w) /\ proc[w].pc = "turn"
    BY <1>2 DEF NoMembership
  <2>2. /\ new.lease = "none" /\ new.outline = proc[w].row.outline
        /\ new.status = "failed"
    BY <1>0 DEF Row
  <2>3. proc[w].row.status = "running"
    BY <1>0, <2>1 DEF Holds
  <2>. HIDE DEF new
  <2>. QED  BY <1>1, <2>1, <2>2, <2>3
<1>3. CASE ExceptRead(w)
  <2>1. proc[w].pc = "raised" /\ UNCHANGED run
    BY <1>3 DEF ExceptRead
  <2>2. CASE Done(w)
    BY <1>0, <2>1, <2>2, TurnOver
  <2>3. CASE /\ run[r].status \notin {"failed", "completed", "cancelled"}
             /\ At(w, "requeueing", r, run[r], NoGoal, 0)
    <3>. DEFINE n == [pc |-> "requeueing", run |-> r, row |-> run[r], goal |-> NoGoal, base |-> 0]
    <3>1. PICK q : q = n
      OBVIOUS
    <3>2. q.pc = "requeueing" /\ q.run = r /\ q.row = run[r] /\ q.goal = NoGoal
      BY <3>1
    <3>3. Holds(w, q, run, approval)
      BY <1>0, <2>1, <2>3, <3>2, ConstantsAssumption DEF Holds, InTurn, Turning, Decides, NoGoal
    <3>4. proc' = [proc EXCEPT ![w] = q]
      BY <2>3, <3>1 DEF At
    <3>. HIDE DEF n
    <3>. QED  BY <1>0, <2>1, <3>2, <3>3, <3>4, AloneMoves
  <2>. QED  BY <1>3, <2>2, <2>3 DEF ExceptRead
<1>4. CASE ExceptCommit(w)
  <2>1. proc[w].pc = "requeueing" /\ Done(w)
    BY <1>4 DEF ExceptCommit
  <2>2. CASE UNCHANGED run
    BY <1>0, <2>1, <2>2, TurnOver
  <2>3. CASE Save(w, Requeued(proc[w].row))
    <3>1. PICK new : new = Requeued(proc[w].row)
      OBVIOUS
    <3>2. /\ new.lease = "none" /\ new.outline = proc[w].row.outline
          /\ new.status \in {"failed", "queued"}
      BY <1>0, <3>1 DEF Requeued, Row
    <3>3. proc[w].row.status = "running"
      BY <1>0, <2>1 DEF Holds
    <3>. QED  BY <1>1, <2>1, <2>3, <3>1, <3>2, <3>3
  <2>. QED  BY <1>4, <2>2, <2>3 DEF ExceptCommit
<1>. QED  BY <1>2, <1>3, <1>4

\* A run that is claimed is in nobody's hands.
LEMMA TurnClaimed ==
    ASSUME IInv, TurnInv, OneAtATime', NEW w \in Workers, NEW r \in Runs, Claim(w, r)
    PROVE  TurnInv' /\ KeepsCompleted
<1>. DEFINE n == [pc |-> "turn", run |-> r, row |-> run'[r], goal |-> NoGoal, base |-> 0]
<1>0. w \in Agents /\ UNCHANGED <<approval, settings>>
  BY DEF Agents, Claim, given
<1>1. /\ proc' = [proc EXCEPT ![w] = n] /\ proc[w].pc = "idle"
      /\ \A s \in Runs \ {r} : run'[s] = run[s]
      /\ run'[r].status = "running" /\ run'[r].lease = "held"
      /\ run'[r].outline = run[r].outline /\ run'[r].kind = run[r].kind
      /\ run[r].status \in {"queued", "running"}
      /\ run[r].status = "running" => run[r].lease = "expired"
  BY DEF Claim, At, Claimable, IInv, TypeOK, Row
<1>2. RowOk(run[r], approval[r])
  BY DEF TurnInv
<1>3. settings.queued
  BY <1>1, <1>2 DEF RowOk
<1>4. RowOk(run'[r], approval'[r])
  BY <1>0, <1>1, <1>2, <1>3, StaysOk
<1>5. PICK q : q = n
  OBVIOUS
<1>6. q.pc = "turn" /\ q.run = r /\ q.row = run'[r] /\ q.goal = NoGoal
  BY <1>5
<1>7. Holds(w, q, run', approval')
  BY <1>1, <1>3, <1>6, ConstantsAssumption DEF Holds, Turning, Decides, InTurn, NoGoal
<1>8. proc' = [proc EXCEPT ![w] = q]
  BY <1>1, <1>5
<1>. HIDE DEF n
<1>9. proc'[w] = q /\ \A o \in Agents \ {w} : proc'[o] = proc[o]
  BY <1>0, <1>8 DEF IInv, TypeOK
<1>10. ASSUME NEW o \in Agents \ {w}, proc[o].run = r
       PROVE  Holds(o, proc[o], run', approval') /\ ~Turning(proc[o])
  <2>1. Holds(o, proc[o], run, approval) /\ proc[o].pc \in Pc
    BY ProcessFacts
  <2>2. ~Turning(proc[o])
    BY <1>1, <1>3, <1>10, <2>1 DEF Holds, InTurn
  <2>3. ~Decides(proc[o]) /\ proc[o].pc # "resuming"
    <3>. SUFFICES ASSUME Decides(proc[o]) \/ proc[o].pc = "resuming"
                  PROVE  FALSE
      OBVIOUS
    <3>1. o \in Threads
      BY <2>1 DEF Holds, Agents
    <3>2. Decides(proc'[o]) \/ proc'[o].pc = "resuming"
      BY <1>9
    <3>3. \A p \in Agents \ {o} : proc'[p].run = proc'[o].run => proc'[p].pc = "cancelling"
      BY <3>1, <3>2 DEF OneAtATime, Decides
    <3>. QED  BY <1>0, <1>6, <1>9, <1>10, <3>3
  <2>. QED  BY <2>1, <2>2, <2>3 DEF Holds
<1>11. TurnInv'
  <2>1. \A s \in Runs \ {r} : run'[s] = run[s] /\ approval'[s] = approval[s]
    BY <1>0, <1>1
  <2>2. \A o \in Agents \ {w} : Turning(proc[o]) => proc[o].run # q.run
    BY <1>6, <1>10
  <2>. QED  BY <1>0, <1>4, <1>7, <1>8, <1>10, <2>1, <2>2, Moves
<1>12. KeepsCompleted
  BY <1>1 DEF KeepsCompleted, Undone
<1>. QED  BY <1>11, <1>12

\* A request begins.
LEMMA RequestBegins ==
    ASSUME IInv, TurnInv, NEW t \in Threads, Request(t)
    PROVE  TurnInv' /\ KeepsCompleted
<1>0. t \in Agents /\ t \notin Workers
  BY ConstantsAssumption DEF Agents
<1>1. ASSUME NEW pc, NEW r \in Runs, NEW goal, Open(t, pc, r, goal), UNCHANGED <<run, approval>>,
             \/ pc = "cancelling"
             \/ pc = "resuming" /\ run[r].status \in Resumable
             \/ pc = "appending" /\ goal \in {"approved", "rejected"} /\ approval[r] = "pending"
      PROVE  TurnInv' /\ KeepsCompleted
  <2>. DEFINE n == [pc |-> pc, run |-> r, row |-> run[r], goal |-> goal, base |-> 0]
  <2>1. PICK q : q = n
    OBVIOUS
  <2>2. q.pc = pc /\ q.run = r /\ q.row = run[r] /\ q.goal = goal
    BY <2>1
  <2>3. Holds(t, q, run, approval) /\ ~Turning(q)
    BY <1>0, <1>1, <2>2, ConstantsAssumption DEF Holds, Turning, Decides
  <2>4. proc' = [proc EXCEPT ![t] = q] /\ UNCHANGED settings
    BY <1>1, <2>1 DEF Open, At
  <2>. HIDE DEF n
  <2>. QED  BY <1>0, <1>1, <2>3, <2>4, Leaves
<1>2. CASE Message(t)
  <2>1. PICK k \in Keys : StartRead(t, k)
    BY <1>2 DEF Message
  <2>. DEFINE n == [pc |-> "creating", run |-> NoRun, row |-> NoRow, goal |-> k, base |-> 0]
  <2>2. PICK q : q = n
    OBVIOUS
  <2>3. q.pc = "creating" /\ q.run = NoRun
    BY <2>2
  <2>4. Holds(t, q, run, approval) /\ ~Turning(q)
    BY <1>0, <2>3 DEF Holds, Turning, Decides
  <2>5. proc' = [proc EXCEPT ![t] = q] /\ UNCHANGED <<run, approval, settings>>
    BY <2>1, <2>2 DEF StartRead, At
  <2>. HIDE DEF n
  <2>. QED  BY <1>0, <2>4, <2>5, Leaves
<1>3. CASE Decision(t)
  BY <1>1, <1>3 DEF Decision, ResolveRead
<1>4. CASE \E r \in Runs : CancelRead(t, r) \/ ResumeRead(t, r)
  BY <1>1, <1>4 DEF CancelRead, ResumeRead
<1>. QED  BY <1>2, <1>3, <1>4 DEF Request

\* A process leaves everything as it is.
LEMMA GivesUp ==
    ASSUME IInv, TurnInv, UNCHANGED <<run, approval, settings>>, NEW p \in Agents, Done(p)
    PROVE  TurnInv' /\ KeepsCompleted
<1>1. PICK q : q = Idle
  OBVIOUS
<1>2. Holds(p, q, run, approval) /\ ~Turning(q) /\ proc' = [proc EXCEPT ![p] = q]
  BY <1>1, IdleHolds DEF Done
<1>. QED  BY <1>2, Leaves

\* A thread makes a run, which nobody knows yet.
LEMMA RunMade ==
    ASSUME IInv, TurnInv, NEW t \in Threads, NEW r \in Runs, NEW kind \in Kinds \union {NoGoal},
           StartCommit(t, r, kind)
    PROVE  TurnInv' /\ KeepsCompleted
<1>0. t \in Agents /\ t \notin Workers /\ UNCHANGED <<approval, settings>>
  BY ConstantsAssumption DEF Agents, StartCommit, given
<1>1. /\ run[r].status = "absent" /\ run' = [run EXCEPT ![r] = NewRun(proc[t].goal, kind)]
      /\ IF settings.queued THEN Done(t) ELSE At(t, "turn", r, run'[r], NoGoal, 0)
  BY DEF StartCommit
<1>2. /\ run'[r] = NewRun(proc[t].goal, kind)
      /\ \A s \in Runs \ {r} : run'[s] = run[s] /\ approval'[s] = approval[s]
  BY <1>0, <1>1 DEF IInv, TypeOK
<1>3. /\ run'[r].status = StartStatus /\ run'[r].lease = "none" /\ run'[r].outline = FALSE
  BY <1>2 DEF NewRun, NoRow
<1>4. approval'[r] = "none"
  BY <1>0, <1>1 DEF IInv, AbsentInv
<1>5. RowOk(run'[r], approval'[r])
  BY <1>3, <1>4 DEF RowOk, StartStatus
<1>6. \A o \in Agents : proc[o].run # r
  <2>. SUFFICES ASSUME NEW o \in Agents, proc[o].run = r
                PROVE  FALSE
    OBVIOUS
  <2>1. Sound(proc[o]) /\ Holds(o, proc[o], run, approval)
    BY ProcessFacts
  <2>2. proc[o].pc \in {"idle", "creating"}
    BY <1>1, <2>1 DEF Sound
  <2>. QED  BY <2>1, <2>2, ConstantsAssumption DEF Holds
<1>7. KeepsCompleted
  BY <1>1, <1>2 DEF KeepsCompleted, Undone
<1>8. CASE settings.queued
  <2>1. PICK q : q = Idle
    OBVIOUS
  <2>2. Holds(t, q, run', approval') /\ ~Turning(q) /\ proc' = [proc EXCEPT ![t] = q]
    BY <1>1, <1>8, <2>1, IdleHolds DEF Done
  <2>3. TurnInv'
    BY <1>0, <1>2, <1>5, <1>6, <2>2, Moves
  <2>. QED  BY <1>7, <2>3
<1>9. CASE ~settings.queued
  <2>. DEFINE n == [pc |-> "turn", run |-> r, row |-> run'[r], goal |-> NoGoal, base |-> 0]
  <2>1. PICK q : q = n
    OBVIOUS
  <2>2. q.pc = "turn" /\ q.run = r /\ q.row = run'[r] /\ q.goal = NoGoal
    BY <2>1
  <2>3. run'[r].status = "running"
    BY <1>3, <1>9 DEF StartStatus
  <2>4. Holds(t, q, run', approval')
    BY <1>0, <1>9, <2>2, <2>3, ConstantsAssumption DEF Holds, InTurn, Turning, Decides, NoGoal
  <2>5. proc' = [proc EXCEPT ![t] = q]
    BY <1>1, <1>9, <2>1 DEF At
  <2>. HIDE DEF n
  <2>6. TurnInv'
    BY <1>0, <1>2, <1>5, <1>6, <2>2, <2>4, <2>5, Moves
  <2>. QED  BY <1>7, <2>6
<1>. QED  BY <1>8, <1>9

\* A cancellation is the one write that may meet a turn.
LEMMA Cancels ==
    ASSUME IInv, TurnInv, NEW t \in Threads, CancelCommit(t)
    PROVE  TurnInv' /\ KeepsCompleted
<1>. DEFINE r == proc[t].run
            new == [proc[t].row EXCEPT !.status = "cancelled", !.cancel = TRUE]
<1>0. /\ t \in Agents /\ UNCHANGED <<approval, settings>> /\ Save(t, new) /\ Done(t)
      /\ proc[t].pc = "cancelling"
  BY DEF Agents, CancelCommit, given
<1>1. r \in Runs /\ proc[t].row \in Row /\ RowOk(run[r], approval[r])
  BY <1>0, ProcessFacts DEF TurnInv
<1>2. /\ new.status = "cancelled" /\ new.lease = proc[t].row.lease
      /\ new.outline = proc[t].row.outline
  BY <1>1 DEF Row
<1>. HIDE DEF new
<1>3. /\ \A s \in Runs \ {r} : run'[s] = run[s]
      /\ run'[r].status \in {run[r].status, "cancelled"}
      /\ run'[r].lease = run[r].lease /\ run'[r].outline = run[r].outline
      /\ run'[r].kind = run[r].kind
      /\ ~settings.queued => run'[r].status # "queued" /\ run'[r].lease = "none"
  <2>1. new.lease \in {proc[t].row.lease, "none"} /\ new.status # "queued"
    BY <1>2
  <2>. QED  BY <1>0, <1>1, <1>2, <2>1, SavedRow
<1>4. RowOk(run'[r], approval'[r])
  <2>1. run'[r].status # "completed" \/ approval[r] # "pending"
    BY <1>1, <1>3 DEF RowOk
  <2>. QED  BY <1>0, <1>1, <1>3, <2>1, StaysOk
<1>5. ASSUME NEW o \in Agents, proc[o].run = r
      PROVE  Holds(o, proc[o], run', approval')
  <2>1. Holds(o, proc[o], run, approval)
    BY ProcessFacts
  <2>2. InTurn(proc[o], run[r]) => InTurn(proc[o], run'[r])
    BY <1>3 DEF InTurn
  <2>. QED  BY <1>0, <1>3, <1>5, <2>1, <2>2 DEF Holds
<1>6. PICK q : q = Idle
  OBVIOUS
<1>7. Holds(t, q, run', approval') /\ ~Turning(q) /\ proc' = [proc EXCEPT ![t] = q]
  BY <1>0, <1>6, IdleHolds DEF Done
<1>8. TurnInv'
  <2>1. \A s \in Runs \ {r} : run'[s] = run[s] /\ approval'[s] = approval[s]
    BY <1>0, <1>3
  <2>. HIDE DEF r
  <2>. QED  BY <1>0, <1>4, <1>5, <1>7, <2>1, Moves
<1>9. KeepsCompleted
  BY <1>0, <1>3 DEF KeepsCompleted, Undone, CancelPending
<1>. QED  BY <1>8, <1>9

\* A client resumes a run that nobody handles.
LEMMA Resumes ==
    ASSUME IInv, TurnInv, OneAtATime, NEW t \in Threads, ResumeCommit(t)
    PROVE  TurnInv' /\ KeepsCompleted
<1>. DEFINE r == proc[t].run
            new == [proc[t].row EXCEPT !.status = StartStatus, !.cancel = FALSE]
            n == [pc |-> "turn", run |-> r, row |-> new, goal |-> NoGoal, base |-> 0]
<1>0. /\ t \in Agents /\ t \notin Workers /\ UNCHANGED <<approval, settings>> /\ Save(t, new)
      /\ proc[t].pc = "resuming"
      /\ IF settings.queued THEN Done(t) ELSE At(t, "turn", r, new, NoGoal, 0)
  BY ConstantsAssumption DEF Agents, ResumeCommit, given
<1>1. /\ r \in Runs /\ proc[t].row \in Row /\ RowOk(run[r], approval[r])
      /\ proc[t].row.status \in Resumable
  BY <1>0, ProcessFacts DEF TurnInv, Holds
<1>2. /\ new.status = StartStatus /\ new.lease = proc[t].row.lease
      /\ new.outline = proc[t].row.outline
  BY <1>1 DEF Row
<1>. HIDE DEF new
<1>3. StartStatus \in {"queued", "running"} /\ (settings.queued <=> StartStatus = "queued")
  BY DEF StartStatus
<1>4. /\ \A s \in Runs \ {r} : run'[s] = run[s]
      /\ run'[r].status = StartStatus
      /\ run'[r].outline = run[r].outline /\ run'[r].kind = run[r].kind
      /\ ~settings.queued => run'[r].status # "queued" /\ run'[r].lease = "none"
  <2>1. new.lease \in {proc[t].row.lease, "none"} /\ (settings.queued \/ new.status # "queued")
    BY <1>2, <1>3
  <2>2. new.status # proc[t].row.status
    BY <1>1, <1>2, <1>3 DEF Resumable
  <2>. QED  BY <1>0, <1>1, <1>2, <2>1, <2>2, SavedRow
<1>5. RowOk(run'[r], approval'[r])
  BY <1>0, <1>1, <1>3, <1>4, StaysOk
<1>6. CASE settings.queued
  BY <1>0, <1>4, <1>5, <1>6, TurnOver
<1>7. CASE ~settings.queued
  <2>1. PICK q : q = n
    OBVIOUS
  <2>2. q.pc = "turn" /\ q.run = r /\ q.row.status = "running" /\ q.goal = NoGoal
    BY <1>2, <1>3, <1>7, <2>1
  <2>3. Holds(t, q, run', approval')
    BY <1>0, <1>1, <1>3, <1>4, <1>7, <2>2, ConstantsAssumption
       DEF Holds, InTurn, Turning, Decides, NoGoal
  <2>4. proc' = [proc EXCEPT ![t] = q]
    BY <1>0, <1>7, <2>1 DEF At
  <2>. HIDE DEF n
  <2>. QED  BY <1>0, <1>4, <1>5, <2>2, <2>3, <2>4, AloneMoves
<1>. QED  BY <1>6, <1>7

\* A lease ends: nobody executes the run.
LEMMA LeaseExpires ==
    ASSUME ~LongTurns, IInv, TurnInv, NEW r \in Runs, Expire(r)
    PROVE  TurnInv' /\ KeepsCompleted
<1>1. /\ ~AtWork(r) /\ UNCHANGED <<proc, approval, settings>> /\ run[r].lease = "held"
      /\ run' = [run EXCEPT ![r] = [run[r] EXCEPT !.lease = "expired"]]
      /\ run \in [Runs -> Row]
  BY DEF Expire, IInv, TypeOK
<1>2. /\ \A s \in Runs \ {r} : run'[s] = run[s]
      /\ run'[r].status = run[r].status /\ run'[r].kind = run[r].kind
      /\ run'[r].outline = run[r].outline
  BY <1>1 DEF Row
<1>3. RowOk(run[r], approval[r])
  BY DEF TurnInv
<1>4. settings.queued
  BY <1>1, <1>3 DEF RowOk
<1>5. RowOk(run'[r], approval[r])
  BY <1>2, <1>3, <1>4 DEF RowOk
<1>6. ASSUME NEW o \in Agents
      PROVE  Holds(o, proc[o], run', approval)
  <2>1. Holds(o, proc[o], run, approval)
    BY ProcessFacts
  <2>2. CASE proc[o].run = r
    <3>1. ~Turning(proc[o])
      BY <1>1, <1>4, <2>1, <2>2 DEF Holds, AtWork
    <3>. QED  BY <1>2, <2>1, <2>2, <3>1 DEF Holds
  <2>3. CASE proc[o].run # r
    <3>1. proc[o].run \in Runs \/ (~Turning(proc[o]) /\ ~Decides(proc[o])
                                    /\ proc[o].pc # "resuming")
      BY ProcessFacts
    <3>. QED  BY <1>2, <2>1, <2>3, <3>1 DEF Holds
  <2>. QED  BY <2>2, <2>3
<1>7. \A o \in Agents : Holds(o, proc[o], run, approval)'
  BY <1>1, <1>6 DEF Holds, InTurn
<1>8. \A s \in Runs : RowOk(run[s], approval[s])'
  BY <1>1, <1>2, <1>5 DEF TurnInv, RowOk
<1>9. \A p, o \in Agents :
        (Turning(proc[p]) /\ Turning(proc[o]) /\ proc[p].run = proc[o].run => p = o)'
  BY <1>1 DEF TurnInv, Turning
<1>10. KeepsCompleted
  BY <1>2 DEF KeepsCompleted, Undone
<1>. QED  BY <1>7, <1>8, <1>9, <1>10 DEF TurnInv

LEMMA TurnsInduction ==
    ASSUME ~LongTurns, ~NewPreferences, IInv, TurnInv, OneAtATime, OneAtATime', [Next]_vars
    PROVE  TurnInv' /\ KeepsCompleted
<1>1. ASSUME NEW t \in Threads, Request(t) \/ Answer(t) \/ TurnStep(t)
      PROVE  TurnInv' /\ KeepsCompleted
  <2>0. t \in Agents
    BY DEF Agents
  <2>1. CASE Request(t)
    BY <2>1, RequestBegins
  <2>2. CASE TurnStep(t)
    BY <2>0, <2>2, TurnWorks
  <2>3. CASE \E r \in Runs, kind \in IF settings.deep THEN {NoGoal} ELSE Kinds :
                StartCommit(t, r, kind)
    BY <2>3, RunMade
  <2>4. CASE StartConflict(t) \/ ResumeConflict(t)
    <3>1. UNCHANGED <<run, approval, settings>> /\ Done(t)
      BY <2>4 DEF StartConflict, ResumeConflict, given
    <3>. QED  BY <2>0, <3>1, GivesUp
  <2>. QED  BY <1>1, <2>1, <2>2, <2>3, <2>4, Cancels, Resumes DEF Answer
<1>2. ASSUME NEW w \in Workers, WorkerStep(w) \/ \E r \in Runs : Claim(w, r)
      PROVE  TurnInv' /\ KeepsCompleted
  BY <1>2, TurnWorks, WorkerWorks, TurnClaimed DEF WorkerStep, Agents
<1>3. ASSUME NEW p \in Agents, Crash(p)
      PROVE  TurnInv' /\ KeepsCompleted
  BY <1>3, GivesUp DEF Crash
<1>4. CASE UNCHANGED vars
  <2>1. UNCHANGED <<run, approval, proc, settings>>
    BY <1>4 DEF vars, given
  <2>2. \A o \in Agents : Holds(o, proc[o], run, approval)'
    BY <2>1 DEF TurnInv, Holds, InTurn
  <2>3. \A s \in Runs : RowOk(run[s], approval[s])'
    BY <2>1 DEF TurnInv, RowOk
  <2>4. \A p, o \in Agents :
          (Turning(proc[p]) /\ Turning(proc[o]) /\ proc[p].run = proc[o].run => p = o)'
    BY <2>1 DEF TurnInv, Turning
  <2>. QED  BY <2>1, <2>2, <2>3, <2>4 DEF TurnInv, KeepsCompleted, Undone
<1>. QED  BY <1>1, <1>2, <1>3, <1>4, LeaseExpires DEF Next

LEMMA TurnsInitially == Init => TurnInv
<1>. SUFFICES ASSUME Init
              PROVE  TurnInv
  OBVIOUS
<1>1. \A p \in Agents : proc[p] = Idle
  BY DEF Init, Agents
<1>2. \A p \in Agents : Holds(p, proc[p], run, approval) /\ ~Turning(proc[p])
  BY <1>1, IdleHolds
<1>3. \A r \in Runs : run[r] = NoRow /\ approval[r] = "none"
  BY DEF Init
<1>4. RowOk(NoRow, "none")
  BY DEF RowOk, NoRow
<1>. QED  BY <1>2, <1>3, <1>4 DEF TurnInv

LEMMA TurnsOneByOne == TurnInv /\ IInv => WorkersTakeTurns
<1>. SUFFICES ASSUME TurnInv, IInv, NEW v \in Workers, NEW w \in Workers, v # w,
                     proc[v].run = proc[w].run, proc[v].run # NoRun
              PROVE  FALSE
  BY DEF WorkersTakeTurns
<1>1. v \in Agents /\ w \in Agents
  BY DEF Agents
<1>2. /\ Holds(v, proc[v], run, approval) /\ proc[v].pc \in Pc
      /\ Holds(w, proc[w], run, approval) /\ proc[w].pc \in Pc
  BY <1>1, ProcessFacts
<1>3. Turning(proc[v]) /\ Turning(proc[w])
  BY <1>2 DEF Holds, Turning, Decides, Pc
<1>. QED  BY <1>1, <1>3 DEF TurnInv

\* While leases outlast turns, what requires approval stays as it is, and clients
\* resume a run or decide on it only when nobody else handles it, no two workers
\* execute one run, however many die and whenever clients cancel
\* (claim_agent_runs, run_agent_worker_once).
THEOREM TurnsAreTaken ==
    ~LongTurns /\ ~NewPreferences /\ Spec /\ []OneAtATime => []WorkersTakeTurns
<1>. SUFFICES ASSUME ~LongTurns, ~NewPreferences
              PROVE  Spec /\ []OneAtATime => []WorkersTakeTurns
  OBVIOUS
<1>1. IInv /\ TurnInv /\ OneAtATime /\ OneAtATime' /\ [Next]_vars => TurnInv'
  BY TurnsInduction
<1>. QED  BY <1>1, RunsInvariance, TurnsInitially, TurnsOneByOne, PTL DEF Spec

\* Under the same conditions a client that cancels is the only one who can undo
\* a completed run: main.py cancel_run writes over whatever the run has become.
\* With new preferences there is another way: a plan that waits, is resumed when
\* no approval is required and completes, is run again when it is approved.
THEOREM OnlyCancelsUndo ==
    ~LongTurns /\ ~NewPreferences /\ Spec /\ []OneAtATime
        => [][\A r \in Runs : Undone(r) => CancelPending(r)]_vars
<1>. SUFFICES ASSUME ~LongTurns, ~NewPreferences
              PROVE  Spec /\ []OneAtATime
                        => [][\A r \in Runs : Undone(r) => CancelPending(r)]_vars
  OBVIOUS
<1>1. IInv /\ TurnInv /\ OneAtATime /\ OneAtATime' /\ [Next]_vars
         => TurnInv' /\ [\A r \in Runs : Undone(r) => CancelPending(r)]_vars
  BY TurnsInduction DEF KeepsCompleted
<1>. QED  BY <1>1, RunsInvariance, TurnsInitially, PTL DEF Spec
=============================================================================
