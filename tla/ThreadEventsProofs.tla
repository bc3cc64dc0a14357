------------------------- MODULE ThreadEventsProofs -------------------------
(***************************************************************************)
(* Proofs about ThreadEvents for any number of runs, tasks, requests and   *)
(* workers and any bounds.                                                 *)
(***************************************************************************)
EXTENDS ThreadEvents, FiniteSetTheorems, SequenceTheorems, TLAPS

\* Number n of run r is the first one, or comes after one that is used in E.
Follows(E, r, n) == n > 1 => \E d \in E : d.run = r /\ d.seq + 1 = n

\* The numbers that E uses for a run: without gap, each once, with a last one.
Numbered(E) ==
    /\ \A e \in E, n \in Nat \ {0} :
        n <= e.seq => \E d \in E : d.run = e.run /\ d.seq = n
    /\ \A d, e \in E : d.run = e.run /\ d.seq = e.seq => d = e
    /\ \A r \in Runs :
        \/ \A e \in E : e.run # r
        \/ \E l \in E : l.run = r /\ \A e \in E : e.run = r => e.seq <= l.seq

Types == {"started", "completed"}

\* How often task t has told that it is started.
Starts(t) == Cardinality(Told(t, "started"))

Once(t) == IF task[t].status = "completed" THEN 1 ELSE 0

\* S holds the workers that are at task t without its lease.  At most one more
\* is at it, which has the lease.  Each of S was let in by a lease that ended
\* under a worker, and has not told yet.
Shared(t, S) ==
    /\ IsFiniteSet(S)
    /\ \A w \in Workers \ S : t \in worker[w].batch =>
        /\ task[t].status = "running" /\ task[t].lease = "held"
        /\ \A o \in Workers \ S : t \in worker[o].batch => o = w
    /\ Starts(t) + Cardinality(S) <= overrun[t] + Once(t)

\* Task t tells in pairs, and at least once when it is completed.
Paired(t) ==
    /\ \A type \in Types : IsFiniteSet(Told(t, type))
    /\ Cardinality(Told(t, "completed")) = Starts(t)
    /\ Once(t) <= Starts(t)

RunInv == \A r \in Runs : run[r] = "none" => \A e \in event : e.run # r

RequestOk(x, E, R) ==
    x.pc = "numbered" =>
        x.run \in Runs /\ R[x.run] # "none" /\ x.seq > 0 /\ Follows(E, x.run, x.seq)

RequestInv == \A q \in Requests : RequestOk(request[q], event, run)

TaskInv == \A t \in Tasks : task[t].status \in {"queued", "running"} => run[Parent[t]] # "none"

WorkerOk(x, E, R) ==
    /\ \A t \in x.batch : R[Parent[t]] # "none"
    /\ x.pc = "started" =>
        \A t \in x.batch : (\A o \in x.batch : t <= o) =>
            x.seq > 0 /\ Follows(E, Parent[t], x.seq)

WorkerInv == \A w \in Workers : WorkerOk(worker[w], event, run)

SharedInv == \A t \in Tasks : \E S \in SUBSET Workers : Shared(t, S)

PairInv == \A t \in Tasks : Paired(t)

IInv ==
    /\ TypeOK
    /\ Numbered(event)
    /\ RunInv
    /\ RequestInv
    /\ TaskInv
    /\ WorkerInv
    /\ SharedInv
    /\ PairInv

\* Events stay, and runs that exist.
Evolves ==
    /\ event \subseteq event'
    /\ \A r \in Runs : run[r] # "none" => run'[r] # "none"

\* No task tells anything.
Silent == \A t \in Tasks, type \in Types : Told(t, type)' = Told(t, type)

-----------------------------------------------------------------------------
(* Numbers *)

LEMMA LastSeqIs ==
    ASSUME IInv, NEW r \in Runs
    PROVE  /\ LastSeq(r) \in Nat
           /\ \A e \in event : e.run = r => e.seq <= LastSeq(r)
           /\ LastSeq(r) = 0 \/ \E e \in event : e.run = r /\ e.seq = LastSeq(r)
<1>. DEFINE S == {0} \union {e.seq : e \in Of(r)}
            P(n) == \A e \in Of(r) : e.seq <= n
<1>1. event \subseteq Event /\ \A e \in event : e.seq \in Nat
  BY DEF IInv, TypeOK, Event
<1>2. \E n \in S : P(n)
  <2>1. CASE \A e \in event : e.run # r
    <3>1. 0 \in S /\ P(0)
      BY <2>1 DEF Of
    <3>. QED  BY <3>1
  <2>2. CASE \E l \in event : l.run = r /\ \A e \in event : e.run = r => e.seq <= l.seq
    <3>1. PICK l \in event : l.run = r /\ \A e \in event : e.run = r => e.seq <= l.seq
      BY <2>2
    <3>2. l.seq \in S /\ P(l.seq)
      BY <3>1 DEF Of
    <3>. QED  BY <3>2
  <2>. QED  BY <2>1, <2>2 DEF IInv, Numbered
<1>3. LastSeq(r) = CHOOSE n \in S : P(n)
  BY DEF LastSeq
<1>4. LastSeq(r) \in S /\ P(LastSeq(r))
  <2>. HIDE DEF S, P
  <2>. QED  BY <1>2, <1>3
<1>. QED  BY <1>1, <1>4 DEF Of

\* The number after the last follows.
LEMMA NextFollows ==
    ASSUME IInv, NEW r \in Runs
    PROVE  LastSeq(r) + 1 \in Nat \ {0} /\ Follows(event, r, LastSeq(r) + 1)
BY LastSeqIs DEF Follows

\* A free number that follows is the next one.
LEMMA FreeIsNext ==
    ASSUME IInv, NEW r \in Runs, NEW n \in Nat \ {0}, Free(r, n), Follows(event, r, n)
    PROVE  n = LastSeq(r) + 1
<1>1. /\ LastSeq(r) \in Nat
      /\ \A e \in event : e.run = r => e.seq <= LastSeq(r)
      /\ LastSeq(r) = 0 \/ \E e \in event : e.run = r /\ e.seq = LastSeq(r)
  BY LastSeqIs
<1>2. ~(n <= LastSeq(r))
  <2>. SUFFICES ASSUME n <= LastSeq(r)
                PROVE  FALSE
    OBVIOUS
  <2>1. PICK e \in event : e.run = r /\ e.seq = LastSeq(r)
    BY <1>1
  <2>2. \E d \in event : d.run = r /\ d.seq = n
    BY <2>1 DEF IInv, Numbered
  <2>. QED  BY <2>2 DEF Free, Of
<1>3. n <= LastSeq(r) + 1
  <2>1. CASE n = 1
    BY <1>1, <2>1
  <2>2. CASE n > 1
    <3>1. PICK d \in event : d.run = r /\ d.seq + 1 = n
      BY <2>2 DEF Follows
    <3>2. d.seq \in Nat
      BY DEF IInv, TypeOK, Event
    <3>. QED  BY <1>1, <3>1, <3>2
  <2>. QED  BY <2>1, <2>2
<1>. QED  BY <1>1, <1>2, <1>3

\* An event with a number that follows and is free.
LEMMA Appended ==
    ASSUME NEW E \in SUBSET Event, Numbered(E), NEW x \in Event,
           Follows(E, x.run, x.seq), \A e \in E : e.run = x.run => e.seq # x.seq
    PROVE  Numbered(E \union {x})
<1>. DEFINE F == E \union {x}
<1>1. x.seq \in Nat \ {0} /\ x.run \in Runs /\ \A e \in E : e.seq \in Nat \ {0}
  BY DEF Event
<1>2. ASSUME NEW e \in F, NEW n \in Nat \ {0}, n <= e.seq
      PROVE  \E d \in F : d.run = e.run /\ d.seq = n
  <2>1. CASE e \in E
    BY <1>2, <2>1 DEF Numbered
  <2>2. CASE e = x /\ n = x.seq
    BY <2>2
  <2>3. CASE e = x /\ n # x.seq
    <3>1. n < x.seq /\ x.seq > 1
      BY <1>1, <1>2, <2>3
    <3>2. PICK d \in E : d.run = x.run /\ d.seq + 1 = x.seq
      BY <3>1 DEF Follows
    <3>3. n <= d.seq
      BY <1>1, <3>1, <3>2
    <3>. QED  BY <2>3, <3>2, <3>3 DEF Numbered
  <2>. QED  BY <2>1, <2>2, <2>3
<1>3. \A d, e \in F : d.run = e.run /\ d.seq = e.seq => d = e
  BY DEF Numbered
<1>4. ASSUME NEW r \in Runs
      PROVE  \/ \A e \in F : e.run # r
             \/ \E l \in F : l.run = r /\ \A e \in F : e.run = r => e.seq <= l.seq
  <2>1. CASE r # x.run
    BY <2>1 DEF Numbered
  <2>2. CASE r = x.run /\ \A e \in E : e.run # r
    BY <1>1, <2>2
  <2>3. CASE r = x.run /\ \E l \in E : l.run = r /\ \A e \in E : e.run = r => e.seq <= l.seq
    <3>1. PICK l \in E : l.run = r /\ \A e \in E : e.run = r => e.seq <= l.seq
      BY <2>3
    <3>2. CASE x.seq <= l.seq
      BY <2>3, <3>1, <3>2
    <3>3. CASE l.seq <= x.seq
      <4>1. \A e \in F : e.run = r => e.seq <= x.seq
        BY <1>1, <3>1, <3>3
      <4>. QED  BY <2>3, <4>1
    <3>. QED  BY <1>1, <3>2, <3>3
  <2>. QED  BY <2>1, <2>2, <2>3 DEF Numbered
<1>. QED  BY <1>2, <1>3, <1>4 DEF Numbered

-----------------------------------------------------------------------------
(* What stays *)

LEMMA FollowsOn ==
    ASSUME NEW E, NEW F, E \subseteq F, NEW r, NEW n, Follows(E, r, n)
    PROVE  Follows(F, r, n)
BY DEF Follows

LEMMA RequestsKept ==
    ASSUME IInv, Evolves, NEW q \in Requests, UNCHANGED request[q]
    PROVE  RequestOk(request[q], event, run)'
<1>1. RequestOk(request[q], event, run)
  BY DEF IInv, RequestInv
<1>2. CASE request[q].pc = "numbered"
  <2>1. Follows(event', request[q].run, request[q].seq)
    BY <1>1, <1>2, FollowsOn DEF RequestOk, Evolves
  <2>. QED  BY <1>1, <1>2, <2>1 DEF RequestOk, Evolves, Follows
<1>. QED  BY <1>2 DEF RequestOk

LEMMA WorkersKept ==
    ASSUME IInv, Evolves, NEW w \in Workers, UNCHANGED worker[w]
    PROVE  WorkerOk(worker[w], event, run)'
<1>1. WorkerOk(worker[w], event, run) /\ worker[w].batch \subseteq Tasks
  BY DEF IInv, WorkerInv, TypeOK, Worker
<1>2. \A t \in Tasks : Parent[t] \in Runs
  BY EventsAssumption
<1>3. \A t \in worker[w].batch : run'[Parent[t]] # "none"
  BY <1>1, <1>2 DEF WorkerOk, Evolves
<1>4. \A t \in worker[w].batch : Follows(event, Parent[t], worker[w].seq)
            => Follows(event', Parent[t], worker[w].seq)
  BY FollowsOn DEF Evolves
<1>. QED  BY <1>1, <1>3, <1>4 DEF WorkerOk, Follows

LEMMA Kept ==
    ASSUME IInv, Evolves
    PROVE  /\ UNCHANGED request => RequestInv'
           /\ UNCHANGED worker => WorkerInv'
           /\ UNCHANGED task => TaskInv'
<1>1. UNCHANGED request => RequestInv'
  BY RequestsKept DEF RequestInv
<1>2. UNCHANGED worker => WorkerInv'
  BY WorkersKept DEF WorkerInv
<1>3. UNCHANGED task => TaskInv'
  BY EventsAssumption DEF IInv, TaskInv, Evolves
<1>. QED  BY <1>1, <1>2, <1>3

\* An event of another type tells nothing of a task.
LEMMA NothingTold ==
    ASSUME NEW x, x.type = "other", event' = event \union {x}
    PROVE  Silent
BY DEF Silent, Told, Of, Types

LEMMA Unheard == UNCHANGED event => Silent
BY DEF Silent, Told, Of

\* Task t stays as it is, and no worker comes to it.
LEMMA TaskKept ==
    ASSUME IInv, NEW t \in Tasks, UNCHANGED <<task[t], overrun[t]>>,
           \A w \in Workers : t \in worker'[w].batch => t \in worker[w].batch,
           \A type \in Types : Told(t, type)' = Told(t, type)
    PROVE  (\E S \in SUBSET Workers : Shared(t, S)') /\ Paired(t)'
<1>1. Starts(t)' = Starts(t) /\ Once(t)' = Once(t)
  BY DEF Starts, Once, Types
<1>2. PICK S \in SUBSET Workers : Shared(t, S)
  BY DEF IInv, SharedInv
<1>3. Shared(t, S)'
  BY <1>1, <1>2 DEF Shared
<1>4. Paired(t)'
  BY <1>1 DEF IInv, PairInv, Paired, Types
<1>. QED  BY <1>3, <1>4

LEMMA TasksKept ==
    ASSUME IInv, UNCHANGED <<task, overrun>>, Silent,
           \A t \in Tasks, w \in Workers : t \in worker'[w].batch => t \in worker[w].batch
    PROVE  SharedInv' /\ PairInv'
BY TaskKept DEF SharedInv, PairInv, Silent

\* Worker w ends its work at task t: it tells, and the task is completed, or
\* it does not, and the task is not.
LEMMA WorkEnds ==
    ASSUME IInv, NEW w \in Workers, NEW t \in Tasks, t \in worker[w].batch,
           UNCHANGED overrun[t], t \notin worker'[w].batch,
           \A o \in Workers : t \in worker'[o].batch => t \in worker[o].batch,
           Starts(t)' = Starts(t) + Once(t)'
    PROVE  \E S \in SUBSET Workers : Shared(t, S)'
<1>1. PICK S \in SUBSET Workers : Shared(t, S)
  BY DEF IInv, SharedInv
<1>2. /\ Starts(t) \in Nat /\ Cardinality(S) \in Nat /\ overrun[t] \in Nat
      /\ Once(t) \in {0, 1} /\ Once(t)' \in {0, 1}
      /\ Starts(t) + Cardinality(S) <= overrun[t] + Once(t)
  BY <1>1, FS_CardinalityType DEF IInv, PairInv, Paired, Starts, Types, Shared, TypeOK, Once
<1>3. CASE w \notin S
  <2>1. Once(t) = 0 /\ \A o \in Workers \ S : t \in worker[o].batch => o = w
    BY <1>1, <1>3 DEF Shared, Once
  <2>2. \A o \in Workers \ S : t \notin worker'[o].batch
    BY <2>1
  <2>3. Starts(t)' + Cardinality(S) <= overrun[t] + Once(t)'
    BY <1>2, <2>1
  <2>. QED  BY <1>1, <2>2, <2>3 DEF Shared
<1>4. CASE w \in S /\ \A o \in Workers \ S : t \notin worker[o].batch
  <2>. DEFINE R == S \ {w}
  <2>1. IsFiniteSet(R) /\ Cardinality(R) = Cardinality(S) - 1
    BY <1>1, <1>4, FS_RemoveElement DEF Shared
  <2>2. \A o \in Workers \ R : t \notin worker'[o].batch
    BY <1>4
  <2>3. Starts(t)' + Cardinality(R) <= overrun[t] + Once(t)'
    BY <1>2, <2>1
  <2>4. R \in SUBSET Workers
    OBVIOUS
  <2>. HIDE DEF R
  <2>. QED  BY <2>1, <2>2, <2>3, <2>4 DEF Shared
<1>5. CASE w \in S /\ \E o \in Workers \ S : t \in worker[o].batch
  <2>1. PICK o \in Workers \ S : t \in worker[o].batch
    BY <1>5
  <2>2. /\ Once(t) = 0
        /\ \A p \in Workers \ S : t \in worker[p].batch => p = o
    BY <1>1, <2>1 DEF Shared, Once
  <2>. DEFINE Q == S \ {w}
              R == Q \union {o}
  <2>3. IsFiniteSet(Q) /\ Cardinality(Q) = Cardinality(S) - 1
    BY <1>1, <1>5, FS_RemoveElement DEF Shared
  <2>4. o \notin Q /\ R \in SUBSET Workers
    BY <2>1
  <2>5. \A p \in Workers \ R : t \notin worker'[p].batch
    BY <2>2
  <2>. HIDE DEF Q
  <2>6. IsFiniteSet(R) /\ Cardinality(R) = Cardinality(Q) + 1
    BY <2>3, <2>4, FS_AddElement
  <2>. HIDE DEF R
  <2>7. Starts(t)' + Cardinality(R) <= overrun[t] + Once(t)'
    BY <1>2, <2>2, <2>3, <2>6
  <2>. QED  BY <2>4, <2>5, <2>6, <2>7 DEF Shared
<1>. QED  BY <1>3, <1>4, <1>5

-----------------------------------------------------------------------------
(* Runs and requests *)

LEMMA RunStartsStep ==
    ASSUME IInv, NEW r \in Runs, RunStarts(r)
    PROVE  IInv'
<1>. DEFINE x == [run |-> r, seq |-> 1, about |-> r, type |-> "other"]
<1>1. x \in Event /\ x.run = r /\ x.seq = 1 /\ x.type = "other"
  BY DEF Event
<1>2. /\ run[r] = "none" /\ run' = [run EXCEPT ![r] = "active"]
      /\ event' = event \union {x}
      /\ UNCHANGED <<task, request, worker, reader, load, faults, drops, overrun>>
  BY DEF RunStarts, bounds, browser
<1>. HIDE DEF x
<1>3. \A e \in event : e.run # r
  BY <1>2 DEF IInv, RunInv
<1>4. Numbered(event')
  BY <1>1, <1>2, <1>3, Appended DEF IInv, TypeOK, Follows
<1>5. Evolves
  BY <1>2 DEF Evolves, IInv, TypeOK
<1>6. RunInv'
  BY <1>1, <1>2 DEF IInv, RunInv, TypeOK
<1>7. TypeOK'
  BY <1>1, <1>2 DEF IInv, TypeOK, RunStatus
<1>8. SharedInv' /\ PairInv'
  BY <1>1, <1>2, NothingTold, TasksKept
<1>. QED  BY <1>2, <1>4, <1>5, <1>6, <1>7, <1>8, Kept DEF IInv

LEMMA RunCancelledStep ==
    ASSUME IInv, NEW r \in Runs, RunCancelled(r)
    PROVE  IInv'
<1>1. /\ run[r] = "active" /\ run' = [run EXCEPT ![r] = "cancelled"]
      /\ UNCHANGED <<event, task, request, worker, reader, load, faults, drops, overrun>>
  BY DEF RunCancelled, bounds, browser
<1>2. Evolves
  BY <1>1 DEF Evolves, IInv, TypeOK
<1>3. RunInv' /\ Numbered(event')
  BY <1>1 DEF IInv, RunInv, TypeOK
<1>4. TypeOK'
  BY <1>1 DEF IInv, TypeOK, RunStatus
<1>5. SharedInv' /\ PairInv'
  BY <1>1, Unheard, TasksKept
<1>. QED  BY <1>1, <1>2, <1>3, <1>4, <1>5, Kept DEF IInv

\* Request q has become x.
LEMMA RequestMoves ==
    ASSUME IInv, Evolves, NEW q \in Requests, NEW x \in Request,
           request' = [request EXCEPT ![q] = x], RequestOk(x, event', run')
    PROVE  request' \in [Requests -> Request] /\ RequestInv'
<1>1. request \in [Requests -> Request]
  BY DEF IInv, TypeOK
<1>2. ASSUME NEW p \in Requests
      PROVE  RequestOk(request[p], event, run)'
  <2>1. CASE p = q
    BY <1>1, <2>1 DEF RequestOk, Follows
  <2>2. CASE p # q
    BY <1>1, <2>2, RequestsKept
  <2>. QED  BY <2>1, <2>2
<1>. QED  BY <1>1, <1>2 DEF RequestInv

LEMMA RequestReadsStep ==
    ASSUME IInv, NEW q \in Requests, NEW r \in Runs, RequestReads(q, r)
    PROVE  IInv'
<1>1. /\ run[r] # "none"
      /\ request' = [request EXCEPT ![q] =
                        [pc |-> "numbered", run |-> r, seq |-> LastSeq(r) + 1]]
      /\ UNCHANGED <<run, event, task, worker, reader, load, faults, drops, overrun>>
  BY DEF RequestReads, rows, bounds, browser
<1>2. LastSeq(r) + 1 \in Nat \ {0} /\ Follows(event, r, LastSeq(r) + 1)
  BY NextFollows
<1>3. PICK n \in Nat \ {0} : n = LastSeq(r) + 1
  BY <1>2
<1>4. PICK x \in Request : x = [pc |-> "numbered", run |-> r, seq |-> n]
  BY DEF Request
<1>5. request' = [request EXCEPT ![q] = x]
  BY <1>1, <1>3, <1>4
<1>6. RequestOk(x, event', run')
  BY <1>1, <1>2, <1>3, <1>4 DEF RequestOk
<1>7. Evolves
  BY <1>1 DEF Evolves
<1>8. request' \in [Requests -> Request] /\ RequestInv'
  BY <1>5, <1>6, <1>7, RequestMoves
<1>9. TypeOK' /\ Numbered(event') /\ RunInv'
  BY <1>1, <1>8 DEF IInv, TypeOK, RunInv
<1>10. SharedInv' /\ PairInv'
  BY <1>1, Unheard, TasksKept
<1>. QED  BY <1>1, <1>7, <1>8, <1>9, <1>10, Kept DEF IInv

LEMMA EndedRequest ==
    ASSUME IInv, NEW q \in Requests, request' = [request EXCEPT ![q].pc = "ended"], Evolves
    PROVE  request' \in [Requests -> Request] /\ RequestInv'
<1>1. PICK x \in Request : x = [request[q] EXCEPT !.pc = "ended"]
  BY DEF IInv, TypeOK, Request
<1>2. x.pc = "ended" /\ request' = [request EXCEPT ![q] = x]
  BY <1>1 DEF IInv, TypeOK, Request
<1>. QED  BY <1>2, RequestMoves DEF RequestOk

LEMMA RequestFailsStep ==
    ASSUME IInv, NEW q \in Requests, RequestFails(q)
    PROVE  IInv'
<1>1. /\ request' = [request EXCEPT ![q].pc = "ended"]
      /\ UNCHANGED <<run, event, task, worker, reader, load, faults, drops, overrun>>
  BY DEF RequestFails, rows, bounds, browser
<1>2. Evolves
  BY <1>1 DEF Evolves
<1>3. request' \in [Requests -> Request] /\ RequestInv'
  BY <1>1, <1>2, EndedRequest
<1>4. TypeOK' /\ Numbered(event') /\ RunInv'
  BY <1>1, <1>3 DEF IInv, TypeOK, RunInv
<1>5. SharedInv' /\ PairInv'
  BY <1>1, Unheard, TasksKept
<1>. QED  BY <1>1, <1>2, <1>3, <1>4, <1>5, Kept DEF IInv

LEMMA RequestCommitsStep ==
    ASSUME IInv, NEW q \in Requests, NEW r \in Runs, RequestCommits(q, r)
    PROVE  IInv'
<1>1. request[q] \in Request /\ request[q].pc = "numbered" /\ r = request[q].run
  BY DEF RequestCommits, IInv, TypeOK
<1>2. PICK n \in Nat : n = request[q].seq
  BY <1>1 DEF Request
<1>3. n \in Nat \ {0} /\ Follows(event, r, n) /\ run[r] # "none" /\ Free(r, n)
  BY <1>1, <1>2 DEF IInv, RequestInv, RequestOk, RequestCommits
<1>. DEFINE x == [run |-> r, seq |-> n, about |-> q, type |-> "other"]
<1>4. x \in Event /\ x.run = r /\ x.seq = n /\ x.type = "other"
  BY <1>3 DEF Event
<1>5. /\ event' = event \union {x}
      /\ request' = [request EXCEPT ![q].pc = "ended"]
      /\ run' = run \/ run' = [run EXCEPT ![r] = "ended"]
      /\ UNCHANGED <<task, worker, reader, load, faults, drops, overrun>>
  BY <1>2 DEF RequestCommits, bounds, browser
<1>. HIDE DEF x
<1>6. Numbered(event')
  BY <1>3, <1>4, <1>5, Appended DEF IInv, TypeOK, Free, Of
<1>7. Evolves
  BY <1>5 DEF Evolves, IInv, TypeOK
<1>8. request' \in [Requests -> Request] /\ RequestInv'
  BY <1>5, <1>7, EndedRequest
<1>9. RunInv'
  BY <1>3, <1>4, <1>5, <1>7 DEF IInv, RunInv, Evolves
<1>10. run' \in [Runs -> RunStatus]
  BY <1>5 DEF IInv, TypeOK, RunStatus
<1>11. TypeOK'
  BY <1>4, <1>5, <1>8, <1>10 DEF IInv, TypeOK
<1>12. SharedInv' /\ PairInv'
  BY <1>4, <1>5, NothingTold, TasksKept
<1>. QED  BY <1>5, <1>6, <1>7, <1>8, <1>9, <1>11, <1>12, Kept DEF IInv

-----------------------------------------------------------------------------
(* Delegated tasks *)

LEMMA RetryStep ==
    ASSUME IInv, NEW t \in Tasks, Retry(t)
    PROVE  IInv'
<1>1. /\ run[Parent[t]] # "none"
      /\ task[t].status \notin {"queued", "running", "completed"}
      /\ UNCHANGED <<run, event, request, worker, reader, load, faults, drops, overrun>>
  BY DEF Retry, bounds, browser
<1>2. PICK x \in Task : x.status = "queued" /\ task' = [task EXCEPT ![t] = x]
  <2>. DEFINE next == [status |-> "queued", attempts |-> task[t].attempts + 1, lease |-> "none"]
  <2>1. next \in Task /\ next.status = "queued"
    BY DEF IInv, TypeOK, Task, TaskStatus
  <2>2. task' = [task EXCEPT ![t] = next]
    BY DEF Retry
  <2>. QED  BY <2>1, <2>2
<1>3. Evolves
  BY <1>1 DEF Evolves
<1>4. TypeOK' /\ TaskInv'
  BY <1>1, <1>2 DEF IInv, TypeOK, TaskInv
<1>5. Silent
  BY <1>1, Unheard
<1>6. SharedInv' /\ PairInv'
  <2>. SUFFICES ASSUME NEW o \in Tasks
                PROVE  (\E S \in SUBSET Workers : Shared(o, S)') /\ Paired(o)'
    BY DEF SharedInv, PairInv
  <2>1. CASE o # t
    <3>1. task'[o] = task[o]
      BY <1>2, <2>1 DEF IInv, TypeOK
    <3>. QED  BY <1>1, <1>5, <3>1, TaskKept DEF Silent
  <2>2. CASE o = t
    <3>1. Starts(t)' = Starts(t) /\ Once(t)' = Once(t)
      BY <1>1, <1>2, <1>5 DEF Starts, Once, Silent, Types, IInv, TypeOK
    <3>2. PICK S \in SUBSET Workers : Shared(t, S)
      BY DEF IInv, SharedInv
    <3>3. \A w \in Workers \ S : t \notin worker[w].batch
      BY <1>1, <3>2 DEF Shared
    <3>4. Shared(t, S)'
      BY <1>1, <3>1, <3>2, <3>3 DEF Shared
    <3>5. Paired(t)'
      BY <1>5, <3>1 DEF IInv, PairInv, Paired, Silent, Types
    <3>. QED  BY <2>2, <3>4, <3>5
  <2>. QED  BY <2>1, <2>2
<1>7. Numbered(event') /\ RunInv'
  BY <1>1 DEF IInv, RunInv
<1>. QED  BY <1>1, <1>3, <1>4, <1>5, <1>6, <1>7, Kept DEF IInv

\* Worker w has become x.
LEMMA WorkerMoves ==
    ASSUME IInv, Evolves, NEW w \in Workers, NEW x \in Worker,
           worker' = [worker EXCEPT ![w] = x], WorkerOk(x, event', run')
    PROVE  worker' \in [Workers -> Worker] /\ WorkerInv'
<1>1. worker \in [Workers -> Worker]
  BY DEF IInv, TypeOK
<1>2. ASSUME NEW o \in Workers
      PROVE  WorkerOk(worker[o], event, run)'
  <2>1. CASE o = w
    <3>1. worker'[o] = x
      BY <1>1, <2>1
    <3>. QED  BY <3>1 DEF WorkerOk, Follows
  <2>2. CASE o # w
    BY <1>1, <2>2, WorkersKept
  <2>. QED  BY <2>1, <2>2
<1>. QED  BY <1>1, <1>2 DEF WorkerInv

\* Worker w comes to no other task.
LEMMA BatchShrinks ==
    ASSUME IInv, NEW w \in Workers, NEW x \in Worker,
           worker' = [worker EXCEPT ![w] = x], x.batch \subseteq worker[w].batch
    PROVE  \A t \in Tasks, o \in Workers : t \in worker'[o].batch => t \in worker[o].batch
BY DEF IInv, TypeOK

LEMMA RestingIsWorker == Resting \in Worker /\ Resting.batch = {} /\ Resting.pc = "idle"
BY DEF Resting, Worker

\* The batch of worker w without task t.
LEMMA ProceedsMoves ==
    ASSUME IInv, Evolves, NEW w \in Workers, NEW t \in Tasks, NEW session \in Worker,
           session.batch = worker[w].batch, Proceeds(w, t, session)
    PROVE  \E x \in Worker :
            /\ worker' = [worker EXCEPT ![w] = x]
            /\ x.batch = worker[w].batch \ {t}
            /\ WorkerOk(x, event', run')
<1>. DEFINE rest == worker[w].batch \ {t}
            going == [session EXCEPT !.pc = "claimed", !.batch = rest]
            next == IF rest = {} THEN Resting ELSE going
<1>1. worker' = [worker EXCEPT ![w] = next]
  BY DEF Proceeds
<1>2. rest \in SUBSET Tasks /\ rest \subseteq worker[w].batch
  BY DEF IInv, TypeOK, Worker
<1>. HIDE DEF rest
<1>3. going \in Worker /\ going.batch = rest /\ going.pc = "claimed"
  BY <1>2 DEF Worker
<1>. HIDE DEF going
<1>4. next \in Worker /\ next.batch = rest /\ next.pc # "started"
  BY <1>3, RestingIsWorker
<1>. HIDE DEF next
<1>5. \A o \in worker[w].batch : run[Parent[o]] # "none" /\ Parent[o] \in Runs
  BY EventsAssumption DEF IInv, WorkerInv, WorkerOk, TypeOK, Worker
<1>6. WorkerOk(next, event', run')
  BY <1>2, <1>4, <1>5 DEF WorkerOk, Evolves
<1>. QED  BY <1>1, <1>4, <1>6 DEF rest

\* A task that comes to an end as x, with no event.
LEMMA QuietEnd ==
    ASSUME IInv, NEW w \in Workers, NEW t \in Tasks, At(w, t), NEW session \in Worker,
           session.batch = worker[w].batch, Proceeds(w, t, session),
           NEW status \in {"cancelled", "failed"}, Ends(t, status),
           UNCHANGED <<run, event, request, reader, load, bounds>>
    PROVE  IInv'
<1>1. UNCHANGED <<faults, drops, overrun>> /\ Evolves
  BY DEF bounds, browser, Evolves
<1>2. PICK x \in Task : x.status = status /\ task' = [task EXCEPT ![t] = x]
  <2>. DEFINE next == [task[t] EXCEPT !.status = status, !.lease = "none"]
  <2>1. next \in Task /\ next.status = status
    BY DEF IInv, TypeOK, Task, TaskStatus
  <2>2. task' = [task EXCEPT ![t] = next]
    BY DEF Ends, IInv, TypeOK
  <2>. QED  BY <2>1, <2>2
<1>3. PICK y \in Worker : /\ worker' = [worker EXCEPT ![w] = y]
                          /\ y.batch = worker[w].batch \ {t}
                          /\ WorkerOk(y, event', run')
  BY <1>1, ProceedsMoves
<1>4. worker' \in [Workers -> Worker] /\ WorkerInv'
  BY <1>1, <1>3, WorkerMoves
<1>5. \A o \in Tasks : o # t => task'[o] = task[o]
  BY <1>2 DEF IInv, TypeOK
<1>6. \A o \in Tasks, p \in Workers : o \in worker'[p].batch => o \in worker[p].batch
  BY <1>3, BatchShrinks
<1>7. TypeOK' /\ TaskInv'
  BY <1>1, <1>2, <1>4 DEF IInv, TypeOK, TaskInv
<1>8. SharedInv' /\ PairInv'
  <2>. SUFFICES ASSUME NEW o \in Tasks
                PROVE  (\E S \in SUBSET Workers : Shared(o, S)') /\ Paired(o)'
    BY DEF SharedInv, PairInv
  <2>1. Silent
    BY Unheard
  <2>2. CASE o # t
    BY <1>1, <1>5, <1>6, <2>1, <2>2, TaskKept DEF Silent
  <2>3. CASE o = t
    <3>1. Starts(t)' = Starts(t) /\ Once(t)' = 0 /\ Once(t) \in {0, 1}
      BY <1>2, <2>1 DEF Starts, Once, Silent, Types, IInv, TypeOK
    <3>2. Starts(t) \in Nat
      BY FS_CardinalityType DEF IInv, PairInv, Paired, Starts, Types
    <3>3. t \in worker[w].batch /\ t \notin worker'[w].batch
      BY <1>3 DEF At, IInv, TypeOK
    <3>4. Starts(t)' = Starts(t) + Once(t)'
      BY <3>1, <3>2
    <3>5. \E S \in SUBSET Workers : Shared(t, S)'
      BY <1>1, <1>6, <3>3, <3>4, WorkEnds
    <3>6. Paired(t)'
      <4>1. /\ \A type \in Types : IsFiniteSet(Told(t, type)')
            /\ Cardinality(Told(t, "completed")') = Starts(t)'
        BY <2>1, <3>1 DEF IInv, PairInv, Paired, Silent, Types
      <4>2. Once(t)' <= Starts(t)'
        BY <3>1, <3>2
      <4>. QED  BY <4>1, <4>2 DEF Paired
    <3>. QED  BY <2>3, <3>5, <3>6
  <2>. QED  BY <2>2, <2>3
<1>9. Numbered(event') /\ RunInv'
  BY DEF IInv, RunInv
<1>. QED  BY <1>1, <1>4, <1>6, <1>7, <1>8, <1>9, Kept DEF IInv

LEMMA TaskCancelledStep ==
    ASSUME IInv, NEW w \in Workers, NEW t \in Tasks, TaskCancelled(w, t)
    PROVE  IInv'
<1>1. ASSUME NEW x \in Worker, NEW r \in Runs
      PROVE  LET y == [x EXCEPT !.seen[r] = "cancelled"] IN y \in Worker /\ y.batch = x.batch
  BY DEF Worker, RunStatus
<1>2. worker[w] \in Worker /\ Parent[t] \in Runs
  BY EventsAssumption DEF IInv, TypeOK
<1>3. PICK session \in Worker : /\ session = [worker[w] EXCEPT !.seen[Parent[t]] = "cancelled"]
                                /\ session.batch = worker[w].batch
  BY <1>1, <1>2
<1>4. At(w, t) /\ Proceeds(w, t, session) /\ Ends(t, "cancelled")
      /\ UNCHANGED <<run, event, request, reader, load, bounds>>
  BY <1>3 DEF TaskCancelled, browser
<1>. QED  BY <1>3, <1>4, QuietEnd

LEMMA TaskFailsStep ==
    ASSUME IInv, NEW w \in Workers, NEW t \in Tasks, TaskFails(w, t)
    PROVE  IInv'
<1>1. ASSUME NEW x \in Worker
      PROVE  LET y == [x EXCEPT !.stale = FALSE, !.seen = [r \in Runs |-> Nothing]]
             IN  y \in Worker /\ y.batch = x.batch
  BY DEF Worker
<1>2. worker[w] \in Worker
  BY DEF IInv, TypeOK
<1>3. PICK session \in Worker :
        /\ session = [worker[w] EXCEPT !.stale = FALSE, !.seen = [r \in Runs |-> Nothing]]
        /\ session.batch = worker[w].batch
  BY <1>1, <1>2
<1>4. At(w, t) /\ Proceeds(w, t, session) /\ Ends(t, "failed")
      /\ UNCHANGED <<run, event, request, reader, load, bounds>>
  BY <1>3 DEF TaskFails, browser
<1>. QED  BY <1>3, <1>4, QuietEnd

\* What the session of a worker takes a run for is a status.
LEMMA SeenTyped ==
    ASSUME IInv, NEW w \in Workers, NEW r \in Runs
    PROVE  SeenRun(w, r) \in RunStatus \union {Nothing}
BY DEF IInv, TypeOK, SeenRun, Worker

\* A worker that changes no row and lets no task go on keeps everything.
LEMMA WorkerReads ==
    ASSUME IInv, NEW w \in Workers, NEW x \in Worker,
           worker' = [worker EXCEPT ![w] = x], x.batch \subseteq worker[w].batch,
           WorkerOk(x, event, run), faults' \in Nat,
           UNCHANGED <<rows, request, reader, load, drops, overrun>>
    PROVE  IInv'
<1>1. UNCHANGED <<run, event, task>> /\ Evolves
  BY DEF rows, browser, Evolves
<1>2. worker' \in [Workers -> Worker] /\ WorkerInv'
  BY <1>1, WorkerMoves
<1>3. SharedInv' /\ PairInv'
  BY <1>1, BatchShrinks, Unheard, TasksKept
<1>4. TypeOK' /\ Numbered(event') /\ RunInv'
  BY <1>1, <1>2 DEF IInv, TypeOK, RunInv
<1>. QED  BY <1>1, <1>2, <1>3, <1>4, Kept DEF IInv

LEMMA TaskIsCompletedStep ==
    ASSUME IInv, NEW w \in Workers, NEW t \in Tasks, TaskIsCompleted(w, t)
    PROVE  IInv'
<1>1. Parent[t] \in Runs /\ worker[w] \in Worker
  BY EventsAssumption DEF IInv, TypeOK
<1>2. PICK seen \in RunStatus \union {Nothing} : seen = SeenRun(w, Parent[t])
  BY <1>1, SeenTyped
<1>3. ASSUME NEW x \in Worker
      PROVE  LET y == [x EXCEPT !.seen[Parent[t]] = seen] IN y \in Worker /\ y.batch = x.batch
  BY <1>1 DEF Worker
<1>4. PICK session \in Worker : /\ session = [worker[w] EXCEPT !.seen[Parent[t]] = seen]
                                /\ session.batch = worker[w].batch
  BY <1>1, <1>3
<1>5. Proceeds(w, t, session) /\ UNCHANGED <<rows, request, reader, load, bounds>>
  BY <1>2, <1>4 DEF TaskIsCompleted, browser
<1>6. UNCHANGED <<run, event, faults, drops, overrun>> /\ Evolves
  BY <1>5 DEF rows, bounds, browser, Evolves
<1>7. PICK y \in Worker : /\ worker' = [worker EXCEPT ![w] = y]
                          /\ y.batch = worker[w].batch \ {t}
                          /\ WorkerOk(y, event', run')
  BY <1>4, <1>5, <1>6, ProceedsMoves
<1>8. faults' \in Nat
  BY <1>6 DEF IInv, TypeOK
<1>. QED  BY <1>5, <1>6, <1>7, <1>8, WorkerReads

LEMMA TaskStartsStep ==
    ASSUME IInv, NEW w \in Workers, NEW t \in Tasks, TaskStarts(w, t)
    PROVE  IInv'
<1>1. Parent[t] \in Runs /\ worker[w] \in Worker /\ worker \in [Workers -> Worker]
      /\ task[t] \in Task
  BY EventsAssumption DEF IInv, TypeOK
<1>2. PICK seen \in RunStatus \union {Nothing} : seen = SeenRun(w, Parent[t])
  BY <1>1, SeenTyped
<1>3. LastSeq(Parent[t]) + 1 \in Nat \ {0} /\ Follows(event, Parent[t], LastSeq(Parent[t]) + 1)
  BY <1>1, NextFollows
<1>4. PICK n \in Nat \ {0} : n = LastSeq(Parent[t]) + 1
  BY <1>3
<1>5. PICK k \in Nat : k = IF worker[w].stale THEN worker[w].claimed[t] ELSE task[t].attempts
  BY <1>1 DEF Worker, Task
<1>6. ASSUME NEW x \in Worker
      PROVE  LET y == [x EXCEPT !.pc = "started", !.seen[Parent[t]] = seen,
                                !.claimed[t] = k, !.seq = n]
             IN  y \in Worker /\ y.batch = x.batch /\ y.seq = n
  <2>1. x.seen \in [Runs -> RunStatus \union {Nothing}] /\ x.claimed \in [Tasks -> Nat]
    BY DEF Worker
  <2>2. [x.seen EXCEPT ![Parent[t]] = seen] \in [Runs -> RunStatus \union {Nothing}]
    BY <1>1, <2>1
  <2>3. [x.claimed EXCEPT ![t] = k] \in [Tasks -> Nat]
    BY <2>1
  <2>4. [x EXCEPT !.pc = "started", !.seen[Parent[t]] = seen, !.claimed[t] = k, !.seq = n]
        = [x EXCEPT !.pc = "started", !.seen = [x.seen EXCEPT ![Parent[t]] = seen],
                    !.claimed = [x.claimed EXCEPT ![t] = k], !.seq = n]
    BY DEF Worker
  <2>. QED  BY <2>2, <2>3, <2>4 DEF Worker
<1>7. PICK x \in Worker :
        /\ x = [worker[w] EXCEPT !.pc = "started", !.seen[Parent[t]] = seen,
                                 !.claimed[t] = k, !.seq = n]
        /\ x.batch = worker[w].batch /\ x.seq = n
  BY <1>1, <1>6
<1>8. /\ worker' = [worker EXCEPT ![w] = x]
      /\ At(w, t)
      /\ UNCHANGED <<rows, request, reader, load, bounds>>
  <2>1. worker' = [worker EXCEPT ![w].pc = "started", ![w].seen[Parent[t]] = seen,
                                 ![w].claimed[t] = k, ![w].seq = n]
    BY <1>2, <1>4, <1>5 DEF TaskStarts
  <2>2. worker' = [worker EXCEPT ![w] = [worker[w] EXCEPT !.pc = "started",
                        !.seen[Parent[t]] = seen, !.claimed[t] = k, !.seq = n]]
    BY <1>1, <2>1 DEF Worker
  <2>3. At(w, t) /\ UNCHANGED <<rows, request, reader, load, bounds>>
    BY DEF TaskStarts, browser
  <2>. QED  BY <1>7, <2>2, <2>3
<1>9. \A o \in x.batch : (\A p \in x.batch : o <= p) => o = t
  <2>. SUFFICES ASSUME NEW o \in x.batch, \A p \in x.batch : o <= p
                PROVE  o = t
    OBVIOUS
  <2>1. t \in x.batch /\ t <= o /\ o <= t /\ o \in Tasks
    BY <1>1, <1>7, <1>8 DEF At, Worker
  <2>. QED  BY <2>1, EventsAssumption
<1>10. \A o \in x.batch : run[Parent[o]] # "none"
  BY <1>7 DEF IInv, WorkerInv, WorkerOk
<1>11. WorkerOk(x, event, run)
  BY <1>3, <1>4, <1>7, <1>9, <1>10 DEF WorkerOk
<1>12. UNCHANGED <<faults, drops, overrun>> /\ faults \in Nat
  BY <1>8 DEF bounds, browser, IInv, TypeOK
<1>. QED  BY <1>7, <1>8, <1>11, <1>12, WorkerReads

LEMMA WorkerDiesStep ==
    ASSUME IInv, NEW w \in Workers, WorkerDies(w)
    PROVE  IInv'
<1>1. /\ worker' = [worker EXCEPT ![w] = Resting] /\ faults' = faults + 1
      /\ UNCHANGED <<rows, request, reader, load, drops, overrun>>
  BY DEF WorkerDies, browser
<1>2. WorkerOk(Resting, event, run)
  BY RestingIsWorker DEF WorkerOk
<1>3. faults' \in Nat
  BY <1>1 DEF IInv, TypeOK
<1>. QED  BY <1>1, <1>2, <1>3, RestingIsWorker, WorkerReads

LEMMA ClaimStep ==
    ASSUME IInv, NEW w \in Workers, NEW batch \in SUBSET Tasks, Claim(w, batch)
    PROVE  IInv'
<1>1. /\ worker[w].pc = "idle" /\ batch = {t \in Tasks : Claimable(t)}
      /\ UNCHANGED <<run, event, request, reader, load, faults, drops, overrun>>
  BY DEF Claim, bounds, browser
<1>2. Evolves
  BY <1>1 DEF Evolves
<1>3. /\ task' \in [Tasks -> Task]
      /\ \A t \in batch : task'[t].status = "running" /\ task'[t].lease = "held"
      /\ \A t \in Tasks \ batch : task'[t] = task[t]
  <2>1. ASSUME NEW x \in Task
        PROVE  LET y == [x EXCEPT !.status = "running", !.lease = "held"]
               IN  y \in Task /\ y.status = "running" /\ y.lease = "held"
    BY DEF Task, TaskStatus
  <2>2. task' = [t \in Tasks |-> IF t \in batch
                    THEN [task[t] EXCEPT !.status = "running", !.lease = "held"] ELSE task[t]]
    BY DEF Claim
  <2>. QED  BY <2>1, <2>2 DEF IInv, TypeOK
<1>4. PICK x \in Worker : /\ worker' = [worker EXCEPT ![w] = x]
                          /\ x.batch = batch /\ x.pc = "claimed"
  <2>. DEFINE attempts == [t \in Tasks |-> task[t].attempts]
              next == [Resting EXCEPT !.pc = "claimed", !.batch = batch, !.claimed = attempts]
  <2>1. attempts \in [Tasks -> Nat]
    BY DEF IInv, TypeOK, Task
  <2>2. worker' = [worker EXCEPT ![w] = next]
    BY DEF Claim
  <2>. HIDE DEF attempts
  <2>3. next \in Worker /\ next.batch = batch /\ next.pc = "claimed"
    BY <2>1 DEF Resting, Worker
  <2>. QED  BY <2>2, <2>3
<1>5. \A t \in batch : run[Parent[t]] # "none"
  BY <1>1 DEF IInv, TaskInv, Claimable
<1>6. worker' \in [Workers -> Worker] /\ WorkerInv'
  BY <1>1, <1>2, <1>4, <1>5, WorkerMoves DEF WorkerOk
<1>7. TaskInv'
  BY <1>1, <1>3, <1>5 DEF IInv, TaskInv
<1>8. Silent
  BY <1>1, Unheard
<1>9. \A o \in Workers : o # w => worker'[o] = worker[o]
  BY <1>4 DEF IInv, TypeOK
<1>10. SharedInv' /\ PairInv'
  <2>. SUFFICES ASSUME NEW t \in Tasks
                PROVE  (\E S \in SUBSET Workers : Shared(t, S)') /\ Paired(t)'
    BY DEF SharedInv, PairInv
  <2>1. worker'[w].batch = batch
    BY <1>4 DEF IInv, TypeOK
  <2>2. CASE t \notin batch
    BY <1>1, <1>3, <1>8, <1>9, <2>1, <2>2, TaskKept DEF Silent
  <2>3. CASE t \in batch
    <3>1. Claimable(t) /\ task'[t].status = "running" /\ task'[t].lease = "held"
      BY <1>1, <1>3, <2>3
    <3>2. Starts(t)' = Starts(t) /\ Once(t)' = Once(t)
      BY <1>8, <3>1 DEF Starts, Once, Silent, Types, Claimable
    <3>3. PICK S \in SUBSET Workers : Shared(t, S)
      BY DEF IInv, SharedInv
    <3>4. \A o \in Workers \ S : t \notin worker[o].batch
      BY <3>1, <3>3 DEF Shared, Claimable
    <3>5. \A o \in Workers \ S : t \in worker'[o].batch => o = w
      BY <1>9, <3>4
    <3>6. Shared(t, S)'
      BY <1>1, <3>1, <3>2, <3>3, <3>5 DEF Shared
    <3>7. Paired(t)'
      BY <1>8, <3>2 DEF IInv, PairInv, Paired, Silent, Types
    <3>. QED  BY <3>6, <3>7
  <2>. QED  BY <2>2, <2>3
<1>11. TypeOK' /\ Numbered(event') /\ RunInv'
  BY <1>1, <1>3, <1>6 DEF IInv, TypeOK, RunInv
<1>. QED  BY <1>1, <1>2, <1>6, <1>7, <1>10, <1>11, Kept DEF IInv

LEMMA LeaseEndsStep ==
    ASSUME IInv, NEW t \in Tasks, LeaseEnds(t)
    PROVE  IInv'
<1>1. /\ task[t].status = "running"
      /\ UNCHANGED <<run, event, request, worker, reader, load, drops>>
  BY DEF LeaseEnds, browser
<1>2. PICK x \in Task : x.status = "running" /\ task' = [task EXCEPT ![t] = x]
  <2>. DEFINE next == [task[t] EXCEPT !.lease = "expired"]
  <2>1. next \in Task /\ next.status = "running"
    BY <1>1 DEF IInv, TypeOK, Task
  <2>2. task' = [task EXCEPT ![t] = next]
    BY DEF LeaseEnds, IInv, TypeOK
  <2>. QED  BY <2>1, <2>2
<1>3. /\ faults' \in Nat /\ overrun' \in [Tasks -> Nat]
      /\ \A o \in Tasks : o # t => overrun'[o] = overrun[o]
      /\ \/ overrun'[t] = overrun[t] /\ \A w \in Workers : t \notin worker[w].batch
         \/ overrun'[t] = overrun[t] + 1
  BY DEF LeaseEnds, IInv, TypeOK
<1>4. Evolves
  BY <1>1 DEF Evolves
<1>5. \A o \in Tasks : task'[o].status = task[o].status /\ (o # t => task'[o] = task[o])
  BY <1>1, <1>2 DEF IInv, TypeOK
<1>6. Silent
  BY <1>1, Unheard
<1>7. SharedInv' /\ PairInv' /\ TaskInv'
  <2>1. TaskInv'
    BY <1>1, <1>5 DEF IInv, TaskInv
  <2>. SUFFICES ASSUME NEW o \in Tasks
                PROVE  (\E S \in SUBSET Workers : Shared(o, S)') /\ Paired(o)'
    BY <2>1 DEF SharedInv, PairInv
  <2>2. Starts(o)' = Starts(o) /\ Once(o)' = Once(o)
    BY <1>5, <1>6 DEF Starts, Once, Silent, Types
  <2>3. Paired(o)'
    BY <1>6, <2>2 DEF IInv, PairInv, Paired, Silent, Types
  <2>4. CASE o # t
    BY <1>1, <1>3, <1>5, <1>6, <2>4, TaskKept DEF Silent
  <2>5. CASE o = t
    <3>1. PICK S \in SUBSET Workers : Shared(t, S)
      BY DEF IInv, SharedInv
    <3>2. /\ Starts(t) \in Nat /\ Cardinality(S) \in Nat /\ overrun[t] \in Nat
          /\ Once(t) \in {0, 1}
          /\ Starts(t) + Cardinality(S) <= overrun[t] + Once(t)
      BY <3>1, FS_CardinalityType
         DEF IInv, PairInv, Paired, Starts, Types, Shared, TypeOK, Once
    <3>3. CASE \A w \in Workers \ S : t \notin worker[w].batch
      <4>1. Starts(t) + Cardinality(S) <= overrun'[t] + Once(t)
        BY <1>3, <3>2
      <4>2. Shared(t, S)'
        BY <1>1, <2>2, <2>5, <3>1, <3>3, <4>1 DEF Shared
      <4>. QED  BY <2>3, <2>5, <4>2
    <3>4. CASE \E w \in Workers \ S : t \in worker[w].batch
      <4>1. PICK w \in Workers \ S : t \in worker[w].batch
        BY <3>4
      <4>2. \A p \in Workers \ S : t \in worker[p].batch => p = w
        BY <3>1, <4>1 DEF Shared
      <4>3. overrun'[t] = overrun[t] + 1
        BY <1>3, <4>1
      <4>. DEFINE R == S \union {w}
      <4>4. IsFiniteSet(R) /\ Cardinality(R) = Cardinality(S) + 1 /\ R \in SUBSET Workers
        BY <3>1, <4>1, FS_AddElement DEF Shared
      <4>5. \A p \in Workers \ R : t \notin worker[p].batch
        BY <4>2
      <4>. HIDE DEF R
      <4>6. Starts(t) + Cardinality(R) <= overrun'[t] + Once(t)
        BY <3>2, <4>3, <4>4
      <4>7. Shared(t, R)'
        BY <1>1, <2>2, <2>5, <4>4, <4>5, <4>6 DEF Shared
      <4>. QED  BY <2>3, <2>5, <4>4, <4>7
    <3>. QED  BY <3>3, <3>4
  <2>. QED  BY <2>4, <2>5
<1>8. TypeOK' /\ Numbered(event') /\ RunInv'
  BY <1>1, <1>2, <1>3 DEF IInv, TypeOK, RunInv
<1>. QED  BY <1>1, <1>4, <1>7, <1>8, Kept DEF IInv

LEMMA TaskCompletesStep ==
    ASSUME IInv, NEW w \in Workers, NEW t \in Tasks, TaskCompletes(w, t)
    PROVE  IInv'
<1>1. /\ worker[w] \in Worker /\ worker[w].pc = "started" /\ At(w, t)
      /\ Parent[t] \in Runs
      /\ UNCHANGED <<run, request, reader, load, faults, drops, overrun>>
  BY EventsAssumption DEF TaskCompletes, IInv, TypeOK, bounds, browser
<1>2. PICK n \in Nat : n = worker[w].seq
  BY <1>1 DEF Worker
<1>3. PICK r \in Runs : r = Parent[t]
  BY <1>1
<1>4. /\ n \in Nat \ {0} /\ Follows(event, r, n) /\ Free(r, n) /\ run[r] # "none"
  BY <1>1, <1>2, <1>3 DEF IInv, WorkerInv, WorkerOk, At, TaskCompletes
<1>5. n = LastSeq(r) + 1
  BY <1>4, FreeIsNext
<1>. DEFINE x == [run |-> r, seq |-> n, about |-> t, type |-> "started"]
            y == [run |-> r, seq |-> n + 1, about |-> t, type |-> "completed"]
            E == event \union {x}
<1>6. x \in Event /\ y \in Event
  BY <1>4 DEF Event
<1>7. event' = E \union {y}
  <2>1. LastSeq(r) + 2 = n + 1
    BY <1>5, LastSeqIs
  <2>2. TaskEvents(w, t) = {x, y}
    BY <1>2, <1>3, <2>1 DEF TaskEvents
  <2>. QED  BY <2>2 DEF TaskCompletes
<1>8. Numbered(E) /\ E \subseteq Event
  <2>1. \A e \in event : e.run = x.run => e.seq # x.seq
    BY <1>4 DEF Free, Of
  <2>. QED  BY <1>4, <1>6, <2>1, Appended DEF IInv, TypeOK
<1>9. Numbered(event')
  <2>1. \A e \in E : e.run = y.run => e.seq # y.seq
    <3>1. \A e \in event : e.run = r => e.seq <= LastSeq(r) /\ e.seq \in Nat
      BY LastSeqIs DEF IInv, TypeOK, Event
    <3>2. LastSeq(r) \in Nat
      BY LastSeqIs
    <3>. QED  BY <1>5, <3>1, <3>2
  <2>2. Follows(E, y.run, y.seq)
    <3>1. x \in E /\ x.run = y.run /\ x.seq + 1 = y.seq
      OBVIOUS
    <3>. HIDE DEF x, y, E
    <3>. QED  BY <3>1 DEF Follows
  <2>. QED  BY <1>6, <1>7, <1>8, <2>1, <2>2, Appended
<1>10. Evolves
  BY <1>1, <1>7 DEF Evolves
<1>11. PICK z \in Task : z.status = "completed" /\ task' = [task EXCEPT ![t] = z]
  <2>. DEFINE next == [status |-> "completed", attempts |-> worker[w].claimed[t],
                       lease |-> "none"]
  <2>1. next \in Task /\ next.status = "completed"
    BY <1>1 DEF Worker, Task, TaskStatus
  <2>2. task' = [task EXCEPT ![t] = next]
    BY DEF TaskCompletes
  <2>. QED  BY <2>1, <2>2
<1>12. PICK q \in Worker : /\ worker' = [worker EXCEPT ![w] = q]
                           /\ q.batch = worker[w].batch \ {t}
                           /\ WorkerOk(q, event', run')
  <2>1. Proceeds(w, t, worker[w])
    BY DEF TaskCompletes
  <2>. QED  BY <1>1, <1>10, <2>1, ProceedsMoves
<1>13. worker' \in [Workers -> Worker] /\ WorkerInv'
  BY <1>10, <1>12, WorkerMoves
<1>14. \A o \in Tasks : o # t => task'[o] = task[o]
  BY <1>11 DEF IInv, TypeOK
<1>15. \A o \in Tasks, p \in Workers : o \in worker'[p].batch => o \in worker[p].batch
  BY <1>12, BatchShrinks
<1>16. SharedInv' /\ PairInv'
  <2>. SUFFICES ASSUME NEW o \in Tasks
                PROVE  (\E S \in SUBSET Workers : Shared(o, S)') /\ Paired(o)'
    BY DEF SharedInv, PairInv
  <2>1. CASE o # t
    <3>1. \A type \in Types : Told(o, type)' = Told(o, type)
      <4>1. x.about = t /\ y.about = t
        OBVIOUS
      <4>. HIDE DEF x, y
      <4>. QED  BY <1>7, <2>1, <4>1 DEF Told, Of
    <3>. QED  BY <1>1, <1>14, <1>15, <2>1, <3>1, TaskKept
  <2>2. CASE o = t
    <3>1. x \notin event /\ y \notin event
      <4>1. \A e \in event : e.run = r => e.seq <= LastSeq(r) /\ e.seq \in Nat
        BY LastSeqIs DEF IInv, TypeOK, Event
      <4>2. LastSeq(r) \in Nat
        BY LastSeqIs
      <4>. QED  BY <1>5, <4>1, <4>2
    <3>2. /\ Told(t, "started")' = Told(t, "started") \union {x} /\ x \notin Told(t, "started")
          /\ Told(t, "completed")' = Told(t, "completed") \union {y} /\ y \notin Told(t, "completed")
      <4>1. /\ x.about = t /\ x.type = "started" /\ x.run = Parent[t]
            /\ y.about = t /\ y.type = "completed" /\ y.run = Parent[t]
        BY <1>3
      <4>. HIDE DEF x, y
      <4>. QED  BY <1>7, <3>1, <4>1 DEF Told, Of
    <3>3. Paired(t)
      BY DEF IInv, PairInv
    <3>. HIDE DEF x, y
    <3>4. /\ IsFiniteSet(Told(t, "started")') /\ IsFiniteSet(Told(t, "completed")')
          /\ Starts(t)' = Starts(t) + 1
          /\ Cardinality(Told(t, "completed")') = Cardinality(Told(t, "completed")) + 1
      BY <3>2, <3>3, FS_AddElement DEF Paired, Types, Starts
    <3>5. Once(t)' = 1 /\ Starts(t) \in Nat
      BY <1>11, <3>3, FS_CardinalityType DEF Once, IInv, TypeOK, Paired, Types, Starts
    <3>6. t \in worker[w].batch /\ t \notin worker'[w].batch
      BY <1>1, <1>12 DEF At, IInv, TypeOK
    <3>7. Starts(t)' = Starts(t) + Once(t)'
      BY <3>4, <3>5
    <3>8. \E S \in SUBSET Workers : Shared(t, S)'
      BY <1>1, <1>15, <3>6, <3>7, WorkEnds
    <3>9. Paired(t)'
      <4>1. Once(t)' <= Starts(t)'
        BY <3>4, <3>5
      <4>2. Cardinality(Told(t, "completed")') = Starts(t)'
        BY <3>3, <3>4 DEF Paired
      <4>. QED  BY <3>4, <4>1, <4>2 DEF Paired, Types
    <3>. QED  BY <2>2, <3>8, <3>9
  <2>. QED  BY <2>1, <2>2
<1>17. RunInv'
  BY <1>1, <1>4, <1>7 DEF IInv, RunInv
<1>18. TaskInv'
  BY <1>1, <1>11, <1>14 DEF IInv, TaskInv, TypeOK
<1>19. TypeOK'
  BY <1>1, <1>6, <1>7, <1>8, <1>11, <1>13 DEF IInv, TypeOK
<1>. QED  BY <1>1, <1>9, <1>10, <1>13, <1>16, <1>17, <1>18, <1>19, Kept DEF IInv

-----------------------------------------------------------------------------
(* The browser and the specification *)

LEMMA BrowserStep ==
    ASSUME IInv, Browse \/ Drop \/ \E l \in Loads : LoadAnswered(l) \/ LoadApplied(l)
    PROVE  IInv'
<1>1. UNCHANGED <<run, event, task, request, worker, faults, overrun>>
  BY DEF Browse, Connect, Frame, Drop, LoadAnswered, LoadApplied, rows, bounds, browser
<1>2. reader \in Reader /\ load \in [Loads -> Load] /\ event \in SUBSET Event /\ drops \in Nat
  BY DEF IInv, TypeOK
<1>3. reader' \in Reader /\ load' \in [Loads -> Load] /\ drops' \in Nat
  <2>1. ASSUME NEW frames \in SUBSET Event
        PROVE  [reader EXCEPT !.frames = frames] \in Reader
    BY <1>2 DEF Reader
  <2>2. CASE Connect
    <3>1. Replay(reader.cursor) \in SUBSET Event
      BY <1>2 DEF Replay
    <3>. QED  BY <1>2, <2>1, <2>2, <3>1 DEF Connect, bounds, browser
  <2>3. CASE \E e \in reader.frames : Frame(e)
    BY <1>2, <2>3 DEF Frame, bounds, browser, Reader
  <2>4. CASE Drop
    BY <1>2, <2>1, <2>4 DEF Drop
  <2>5. CASE \E l \in Loads : LoadAnswered(l)
    BY <1>2, <2>5 DEF LoadAnswered, Asked, Load, bounds, browser
  <2>6. CASE \E l \in Loads : LoadApplied(l)
    <3>1. PICK l \in Loads : LoadApplied(l)
      BY <2>6
    <3>2. load[l].answer \in SUBSET Event
      BY <1>2 DEF Load
    <3>3. reader' \in Reader
      BY <1>2, <3>1, <3>2 DEF LoadApplied, Reader
    <3>4. load' \in [Loads -> Load]
      BY <1>2, <3>1 DEF LoadApplied, Load
    <3>. QED  BY <1>2, <3>1, <3>3, <3>4 DEF LoadApplied, bounds, browser
  <2>. QED  BY <2>2, <2>3, <2>4, <2>5, <2>6 DEF Browse
<1>4. Evolves
  BY <1>1 DEF Evolves
<1>5. SharedInv' /\ PairInv'
  BY <1>1, Unheard, TasksKept
<1>6. TypeOK' /\ Numbered(event') /\ RunInv'
  BY <1>1, <1>3 DEF IInv, TypeOK, RunInv
<1>. QED  BY <1>1, <1>4, <1>5, <1>6, Kept DEF IInv

LEMMA Initially == Init => IInv
<1>. SUFFICES ASSUME Init
              PROVE  IInv
  OBVIOUS
<1>1. TypeOK
  BY RestingIsWorker DEF Init, TypeOK, RunStatus, Task, TaskStatus, Request, Reader, Load
<1>2. Numbered(event) /\ RunInv
  BY DEF Init, Numbered, RunInv
<1>3. RequestInv /\ TaskInv
  BY DEF Init, RequestInv, RequestOk, TaskInv
<1>4. WorkerInv
  BY RestingIsWorker DEF Init, WorkerInv, WorkerOk
<1>5. SharedInv /\ PairInv
  <2>. SUFFICES ASSUME NEW t \in Tasks
                PROVE  Shared(t, {}) /\ Paired(t)
    BY DEF SharedInv, PairInv
  <2>1. \A type \in Types : Told(t, type) = {}
    BY DEF Init, Told, Of
  <2>2. Starts(t) = 0 /\ Once(t) = 0 /\ IsFiniteSet({}) /\ Cardinality({}) = 0 /\ overrun[t] = 0
    BY <2>1, FS_EmptySet DEF Starts, Once, Types, Init
  <2>3. \A w \in Workers : t \notin worker[w].batch
    BY RestingIsWorker DEF Init
  <2>4. Shared(t, {})
    BY <2>2, <2>3 DEF Shared
  <2>5. Paired(t)
    BY <2>1, <2>2 DEF Paired, Types
  <2>. QED  BY <2>4, <2>5
<1>. QED  BY <1>1, <1>2, <1>3, <1>4, <1>5 DEF IInv

LEMMA Step == IInv /\ Next => IInv'
<1>. SUFFICES ASSUME IInv, Next
              PROVE  IInv'
  OBVIOUS
<1>1. CASE \E r \in Runs : RunStarts(r) \/ RunCancelled(r)
  BY <1>1, RunStartsStep, RunCancelledStep
<1>2. CASE \E q \in Requests : RequestStep(q)
  BY <1>2, RequestReadsStep, RequestCommitsStep, RequestFailsStep DEF RequestStep
<1>3. CASE \E t \in Tasks : Retry(t)
  BY <1>3, RetryStep
<1>4. CASE \E w \in Workers : TaskStep(w)
  BY <1>4, ClaimStep, TaskCancelledStep, TaskIsCompletedStep, TaskStartsStep,
     TaskCompletesStep, TaskFailsStep DEF TaskStep
<1>5. CASE \E w \in Workers : WorkerDies(w)
  BY <1>5, WorkerDiesStep
<1>6. CASE Expiry
  BY <1>6, LeaseEndsStep DEF Expiry
<1>7. CASE Browse \/ Drop \/ \E l \in Loads : LoadAnswered(l) \/ LoadApplied(l)
  BY <1>7, BrowserStep
<1>. QED  BY <1>1, <1>2, <1>3, <1>4, <1>5, <1>6, <1>7 DEF Next

LEMMA Invariance == Spec => []IInv
<1>1. IInv /\ UNCHANGED vars => IInv'
  <2>. SUFFICES ASSUME IInv, UNCHANGED vars
                PROVE  IInv'
    OBVIOUS
  <2>1. UNCHANGED <<run, event, task, request, worker, reader, load, faults, drops, overrun>>
    BY DEF vars, rows, bounds, browser
  <2>2. Evolves
    BY <2>1 DEF Evolves
  <2>3. TypeOK' /\ Numbered(event') /\ RunInv'
    BY <2>1 DEF IInv, TypeOK, RunInv
  <2>4. SharedInv' /\ PairInv'
    BY <2>1, Unheard, TasksKept
  <2>. QED  BY <2>1, <2>2, <2>3, <2>4, Kept DEF IInv
<1>. QED  BY <1>1, Initially, Step, PTL DEF Spec

\* Rows and what processes have read keep their types (process_delegated_task,
\* append_event and thread_events).
THEOREM EventsTypeCorrect == Spec => []TypeOK
<1>1. IInv => TypeOK
  BY DEF IInv
<1>. QED  BY <1>1, Invariance, PTL

\* The numbers of a run's events have no gap and no duplicate (append_event),
\* for any number of transactions and workers.
THEOREM EventNumbersWithoutGap == Spec => []NumbersWithoutGap
<1>1. IInv => NumbersWithoutGap
  <2>. SUFFICES ASSUME IInv, NEW e \in event, e.seq > 1
                PROVE  \E d \in Of(e.run) : d.seq + 1 = e.seq
    BY DEF IInv, Numbered, NumbersWithoutGap
  <2>1. e.seq \in Nat
    BY DEF IInv, TypeOK, Event
  <2>2. PICK n \in Nat \ {0} : n + 1 = e.seq
    <3>1. e.seq - 1 \in Nat \ {0} /\ (e.seq - 1) + 1 = e.seq
      BY <2>1
    <3>. QED  BY <3>1
  <2>3. \E d \in event : d.run = e.run /\ d.seq = n
    BY <2>1, <2>2 DEF IInv, Numbered
  <2>. QED  BY <2>2, <2>3 DEF Of
<1>. QED  BY <1>1, Invariance, PTL

\* A task tells its completion in pairs of events: once, and at most once more
\* for each lease that ended under a worker (process_delegated_task and
\* run_delegated_worker_once), however many workers are at it at once.
THEOREM TasksTellOnce == Spec => []CompletedOnce
<1>1. IInv => CompletedOnce
  <2>. SUFFICES ASSUME IInv, NEW t \in Tasks, NEW type \in Types
                PROVE  /\ Cardinality(Told(t, type)) \in Once(t)..(Once(t) + overrun[t])
                       /\ Cardinality(Told(t, type)) = Cardinality(Told(t, "started"))
    BY DEF CompletedOnce, Once, Types
  <2>1. Paired(t)
    BY DEF IInv, PairInv
  <2>2. PICK S \in SUBSET Workers : Shared(t, S)
    BY DEF IInv, SharedInv
  <2>3. /\ Starts(t) \in Nat /\ Cardinality(S) \in Nat /\ overrun[t] \in Nat
        /\ Once(t) \in {0, 1}
        /\ Starts(t) + Cardinality(S) <= overrun[t] + Once(t)
        /\ Once(t) <= Starts(t)
    BY <2>1, <2>2, FS_CardinalityType DEF IInv, Paired, Starts, Types, Shared, TypeOK, Once
  <2>4. Cardinality(Told(t, type)) = Starts(t)
    BY <2>1 DEF Paired, Types, Starts
  <2>5. Starts(t) \in Once(t)..(Once(t) + overrun[t])
    BY <2>3
  <2>. QED  BY <2>4, <2>5 DEF Starts
<1>. QED  BY <1>1, Invariance, PTL

-----------------------------------------------------------------------------
(* Logs: events with the numbers 1 to N, in their order *)

IsLog(E, N) ==
    /\ E \subseteq Event
    /\ \A e \in E : e.seq \in 1..N
    /\ \A n \in 1..N : \E e \in E : e.seq = n
    /\ \A d, e \in E : d.seq = e.seq => d = e

LEMMA LogCardinality ==
    ASSUME NEW E, NEW N \in Nat, IsLog(E, N)
    PROVE  Cardinality(E) = N
<1>. DEFINE At_(n) == CHOOSE e \in E : e.seq = n
            f == [n \in 1..N |-> At_(n)]
<1>1. \A n \in 1..N : At_(n) \in E /\ At_(n).seq = n
  BY DEF IsLog
<1>2. \A e \in E : e.seq \in 1..N /\ At_(e.seq) = e
  BY <1>1 DEF IsLog
<1>. HIDE DEF At_
<1>3. f \in [1..N -> E] /\ \A n \in 1..N : f[n] = At_(n)
  BY <1>1
<1>4. f \in Bijection(1..N, E)
  <2>. HIDE DEF f
  <2>1. \A m, n \in 1..N : f[m] = f[n] => m = n
    BY <1>1, <1>3
  <2>2. \A e \in E : \E n \in 1..N : f[n] = e
    BY <1>2, <1>3
  <2>. QED  BY <1>3, <2>1, <2>2 DEF Bijection, Injection, Surjection, IsInjective
<1>5. IsFiniteSet(1..N) /\ Cardinality(1..N) = N
  BY FS_Interval
<1>6. ExistsBijection(1..N, E)
  BY <1>4 DEF ExistsBijection
<1>. QED  BY <1>5, <1>6, FS_Bijection

LEMMA LogUpTo ==
    ASSUME NEW E, NEW N \in Nat, IsLog(E, N), NEW m \in 0..N
    PROVE  IsLog({d \in E : d.seq <= m}, m)
<1>. DEFINE F == {d \in E : d.seq <= m}
<1>1. F \subseteq Event /\ \A d, e \in F : d.seq = e.seq => d = e
  BY DEF IsLog
<1>2. \A e \in F : e.seq \in 1..m
  BY DEF IsLog
<1>3. \A n \in 1..m : \E e \in F : e.seq = n
  BY DEF IsLog
<1>. QED  BY <1>1, <1>2, <1>3 DEF IsLog

\* What InSequence makes of a log.
LEMMA InSequenceIs ==
    ASSUME NEW E, NEW N \in Nat, IsLog(E, N)
    PROVE  /\ InSequence(E) \in Seq(Event)
           /\ Len(InSequence(E)) = N
           /\ \A n \in 1..N : InSequence(E)[n] \in E /\ InSequence(E)[n].seq = n
<1>. DEFINE C(m) == Cardinality({d \in E : d.seq <= m})
            At_(n) == CHOOSE e \in E : C(e.seq) = n
<1>1. \A m \in 0..N : C(m) = m
  BY LogUpTo, LogCardinality
<1>2. Cardinality(E) = N
  BY LogCardinality
<1>. HIDE DEF C
<1>3. ASSUME NEW n \in 1..N
      PROVE  At_(n) \in E /\ At_(n).seq = n
  <2>1. PICK e \in E : e.seq = n
    BY DEF IsLog
  <2>2. C(e.seq) = n
    BY <1>1, <2>1
  <2>3. At_(n) \in E /\ C(At_(n).seq) = n
    BY <2>2
  <2>4. At_(n).seq \in 0..N
    BY <2>3 DEF IsLog
  <2>. QED  BY <1>1, <2>3, <2>4
<1>. HIDE DEF At_
<1>4. InSequence(E) = [n \in 1..N |-> At_(n)]
  BY <1>2 DEF InSequence, At_, C
<1>5. \A n \in 1..N : At_(n) \in Event
  BY <1>3 DEF IsLog
<1>. QED  BY <1>3, <1>4, <1>5

\* A log within a log is a prefix of it.
LEMMA LogPrefix ==
    ASSUME NEW E, NEW F, NEW N \in Nat, NEW M \in Nat, IsLog(E, N), IsLog(F, M), E \subseteq F
    PROVE  /\ N <= M
           /\ N = M => E = F
           /\ InSequence(E) = SubSeq(InSequence(F), 1, N)
           /\ \A n \in 1..N : InSequence(E)[n] = InSequence(F)[n]
<1>1. N <= M
  <2>1. CASE N = 0
    BY <2>1
  <2>2. CASE N # 0
    <3>1. PICK e \in E : e.seq = N
      BY <2>2 DEF IsLog
    <3>2. e.seq \in 1..M
      BY DEF IsLog
    <3>. QED  BY <3>1, <3>2
  <2>. QED  BY <2>1, <2>2
<1>2. N = M => E = F
  <2>. SUFFICES ASSUME N = M, NEW f \in F
                PROVE  f \in E
    OBVIOUS
  <2>1. PICK e \in E : e.seq = f.seq
    BY DEF IsLog
  <2>. QED  BY <2>1 DEF IsLog
<1>. DEFINE s == InSequence(E)
            t == InSequence(F)
<1>3. s \in Seq(Event) /\ Len(s) = N /\ \A n \in 1..N : s[n] \in E /\ s[n].seq = n
  BY InSequenceIs
<1>4. t \in Seq(Event) /\ Len(t) = M /\ \A n \in 1..M : t[n] \in F /\ t[n].seq = n
  BY InSequenceIs
<1>. HIDE DEF s, t
<1>5. \A n \in 1..N : n \in 1..M
  BY <1>1
<1>6. \A n \in 1..N : s[n] = t[n]
  BY <1>3, <1>4, <1>5 DEF IsLog
<1>. DEFINE u == SubSeq(t, 1, N)
<1>7. u \in Seq(Event) /\ Len(u) = N /\ \A n \in 1..N : u[n] = t[n]
  <2>1. \A n \in 1..N : t[n] \in Event
    BY <1>4, <1>5 DEF IsLog
  <2>. QED  BY <2>1, SubSeqProperties
<1>. HIDE DEF u
<1>8. s = u
  BY <1>3, <1>6, <1>7, SeqEqual
<1>. QED  BY <1>1, <1>2, <1>6, <1>8 DEF s, t, u

\* The next event makes the next log.
LEMMA LogNext ==
    ASSUME NEW E, NEW N \in Nat, IsLog(E, N), NEW x \in Event, x.seq = N + 1
    PROVE  /\ IsLog(E \union {x}, N + 1)
           /\ InSequence(E \union {x}) = Append(InSequence(E), x)
<1>. DEFINE F == E \union {x}
            s == InSequence(E)
            t == InSequence(F)
            u == Append(s, x)
<1>1. IsLog(F, N + 1)
  <2>1. F \subseteq Event
    BY DEF IsLog
  <2>2. \A e \in F : e.seq \in 1..(N + 1)
    BY DEF IsLog
  <2>3. ASSUME NEW n \in 1..(N + 1)
        PROVE  \E e \in F : e.seq = n
    <3>1. n = N + 1 \/ n \in 1..N
      OBVIOUS
    <3>. QED  BY <3>1 DEF IsLog
  <2>4. \A e \in E : e.seq # x.seq
    BY DEF IsLog
  <2>5. \A d, e \in F : d.seq = e.seq => d = e
    BY <2>4 DEF IsLog
  <2>. QED  BY <2>1, <2>2, <2>3, <2>5 DEF IsLog
<1>0. N + 1 \in Nat /\ N + 1 \in 1..(N + 1)
  OBVIOUS
<1>2. s \in Seq(Event) /\ Len(s) = N
  BY InSequenceIs
<1>3. t \in Seq(Event) /\ Len(t) = N + 1 /\ \A n \in 1..(N + 1) : t[n] \in F /\ t[n].seq = n
  BY <1>0, <1>1, InSequenceIs
<1>4. \A n \in 1..N : s[n] = t[n]
  BY <1>0, <1>1, LogPrefix
<1>5. t[N + 1] = x
  <2>1. t[N + 1] \in F /\ t[N + 1].seq = x.seq
    BY <1>0, <1>3
  <2>. HIDE DEF t
  <2>. QED  BY <1>1, <2>1 DEF IsLog
<1>. HIDE DEF s, t
<1>6. u \in Seq(Event) /\ Len(u) = N + 1 /\ u[N + 1] = x /\ \A n \in 1..N : u[n] = s[n]
  BY <1>2, AppendProperties
<1>. HIDE DEF u
<1>7. \A n \in 1..(N + 1) : t[n] = u[n]
  <2>1. \A n \in 1..(N + 1) : n = N + 1 \/ n \in 1..N
    OBVIOUS
  <2>. QED  BY <1>4, <1>5, <1>6, <2>1
<1>8. t = u
  BY <1>3, <1>6, <1>7, SeqEqual
<1>. QED  BY <1>1, <1>8 DEF s, t, u

-----------------------------------------------------------------------------
(* The thread of one run and its browser *)

OneRun == \A r, s \in Runs : r = s

\* The events of A are the first ones of E.
First(A, E) ==
    /\ A \subseteq E
    /\ \A a \in A, e \in E : e.seq <= a.seq => e \in A

\* The browser was handed the first events, up to its cursor, and the frames that
\* are on their way are the next ones.
ReaderInv ==
    /\ First(reader.received, event)
    /\ First(reader.received \union reader.frames, event)
    /\ reader.received \cap reader.frames = {}
    /\ IF reader.cursor = Nothing THEN reader.received = {}
       ELSE /\ reader.cursor \in reader.received
            /\ \A e \in reader.received : e.seq <= reader.cursor.seq

\* The events of a thread of one run are a log.
LEMMA EventsAreALog ==
    ASSUME OneRun, NEW E \in SUBSET Event, Numbered(E)
    PROVE  \E N \in Nat : IsLog(E, N)
<1>1. \A e \in E : e.run \in Runs /\ e.seq \in Nat \ {0}
  BY DEF Event
<1>2. CASE E = {}
  BY <1>2 DEF IsLog
<1>3. CASE E # {}
  <2>1. PICK r \in Runs : \E e \in E : e.run = r
    BY <1>1, <1>3
  <2>2. PICK l \in E : l.run = r /\ \A e \in E : e.run = r => e.seq <= l.seq
    BY <2>1 DEF Numbered
  <2>3. \A e \in E : e.run = r
    BY <1>1 DEF OneRun
  <2>4. PICK N \in Nat : N = l.seq
    BY <1>1
  <2>5. \A e \in E : e.seq \in 1..N
    BY <1>1, <2>2, <2>3, <2>4
  <2>6. \A n \in 1..N : \E e \in E : e.seq = n
    BY <2>2, <2>4 DEF Numbered
  <2>7. \A d, e \in E : d.seq = e.seq => d = e
    BY <2>3 DEF Numbered
  <2>. QED  BY <2>5, <2>6, <2>7 DEF IsLog
<1>. QED  BY <1>2, <1>3

\* The first events up to one of them are a log.
LEMMA FirstIsALog ==
    ASSUME NEW E, NEW N \in Nat, IsLog(E, N), NEW A, First(A, E),
           NEW c \in A, \A a \in A : a.seq <= c.seq
    PROVE  c.seq \in 1..N /\ IsLog(A, c.seq)
<1>1. c.seq \in 1..N
  BY DEF First, IsLog
<1>2. A = {d \in E : d.seq <= c.seq}
  BY DEF First
<1>. QED  BY <1>1, <1>2, LogUpTo

\* What the browser was handed is a log, with its cursor last.
LEMMA ReceivedIsALog ==
    ASSUME NEW N \in Nat, IsLog(event, N), ReaderInv
    PROVE  \E n \in 0..N : /\ IsLog(reader.received, n)
                           /\ Replay(reader.cursor) = {e \in event : e.seq > n}
<1>1. CASE reader.cursor = Nothing
  <2>1. IsLog(reader.received, 0)
    BY <1>1 DEF ReaderInv, IsLog
  <2>2. Replay(reader.cursor) = {e \in event : e.seq > 0}
    BY <1>1 DEF Replay, IsLog
  <2>. QED  BY <2>1, <2>2
<1>2. CASE reader.cursor # Nothing
  <2>1. PICK c \in reader.received : c = reader.cursor /\ \A e \in reader.received : e.seq <= c.seq
    BY <1>2 DEF ReaderInv
  <2>2. c.seq \in 1..N /\ IsLog(reader.received, c.seq)
    BY <2>1, FirstIsALog DEF ReaderInv
  <2>3. Replay(reader.cursor) = {e \in event : e.seq > c.seq}
    BY <1>2, <2>1 DEF Replay
  <2>4. c.seq \in 0..N
    BY <2>2
  <2>. QED  BY <2>2, <2>3, <2>4
<1>. QED  BY <1>1, <1>2

\* The frame that comes is the event after those that have come.
LEMMA FrameIsNext ==
    ASSUME NEW N \in Nat, IsLog(event, N), NEW n \in 0..N, IsLog(reader.received, n), ReaderInv,
           NEW e \in reader.frames, InOrder(e, reader.frames)
    PROVE  e \in event /\ e.seq = n + 1 /\ n + 1 \in 1..N
<1>1. e \in event /\ e.seq \in 1..N /\ e \notin reader.received
  BY DEF ReaderInv, First, IsLog
<1>2. ~(e.seq <= n)
  <2>. SUFFICES ASSUME e.seq <= n
                PROVE  FALSE
    OBVIOUS
  <2>1. PICK d \in reader.received : d.seq = e.seq
    BY <1>1 DEF IsLog
  <2>2. d \in event
    BY DEF ReaderInv, First
  <2>. QED  BY <1>1, <2>1, <2>2 DEF IsLog
<1>3. n + 1 \in 1..N /\ n + 1 <= e.seq
  BY <1>1, <1>2
<1>4. PICK d \in event : d.seq = n + 1
  BY <1>3 DEF IsLog
<1>5. d \in reader.received \union reader.frames
  BY <1>3, <1>4 DEF ReaderInv, First
<1>6. d \notin reader.received
  BY <1>4 DEF IsLog
<1>7. e.seq <= d.seq
  BY <1>5, <1>6 DEF InOrder
<1>. QED  BY <1>1, <1>3, <1>4, <1>7

LEMMA FirstAmongMore ==
    ASSUME NEW E, NEW F, NEW N \in Nat, NEW M \in Nat, IsLog(E, N), IsLog(F, M), E \subseteq F,
           NEW A, First(A, E)
    PROVE  First(A, F)
<1>. SUFFICES ASSUME NEW a \in A, NEW f \in F, f.seq <= a.seq
              PROVE  f \in A
  BY DEF First
<1>1. a.seq \in 1..N /\ f.seq \in 1..M
  BY DEF First, IsLog
<1>2. PICK e \in E : e.seq = f.seq
  BY <1>1 DEF IsLog
<1>3. e = f
  BY <1>2 DEF IsLog
<1>. QED  BY <1>2, <1>3 DEF First

\* A step commits events, or is one of the browser's.
LEMMA StepShape ==
    ASSUME Next
    PROVE  \/ event \subseteq event' /\ UNCHANGED browser
           \/ UNCHANGED event /\ (Browse \/ Drop)
           \/ UNCHANGED event /\ \E l \in Loads : LoadAnswered(l) \/ LoadApplied(l)
<1>1. CASE \E r \in Runs : RunStarts(r) \/ RunCancelled(r)
  BY <1>1 DEF RunStarts, RunCancelled
<1>2. CASE \E q \in Requests : RequestStep(q)
  BY <1>2 DEF RequestStep, RequestReads, RequestCommits, RequestFails, rows
<1>3. CASE \E t \in Tasks : Retry(t)
  BY <1>3 DEF Retry
<1>4. CASE \E w \in Workers : TaskStep(w)
  <2>1. PICK w \in Workers : TaskStep(w)
    BY <1>4
  <2>2. CASE \E batch \in SUBSET Tasks : Claim(w, batch)
    BY <2>2 DEF Claim
  <2>3. CASE \E t \in Tasks : TaskCancelled(w, t) \/ TaskIsCompleted(w, t) \/ TaskStarts(w, t)
    BY <2>3 DEF TaskCancelled, TaskIsCompleted, TaskStarts, rows
  <2>4. CASE \E t \in Tasks : TaskCompletes(w, t) \/ TaskFails(w, t)
    BY <2>4 DEF TaskCompletes, TaskFails
  <2>. QED  BY <2>1, <2>2, <2>3, <2>4 DEF TaskStep
<1>5. CASE \E w \in Workers : WorkerDies(w)
  BY <1>5 DEF WorkerDies, rows
<1>6. CASE Expiry
  BY <1>6 DEF Expiry, LeaseEnds
<1>7. CASE Browse \/ Drop
  BY <1>7 DEF Browse, Connect, Frame, Drop, rows
<1>8. CASE \E l \in Loads : LoadAnswered(l) \/ LoadApplied(l)
  BY <1>8 DEF LoadAnswered, LoadApplied, rows
<1>. QED  BY <1>1, <1>2, <1>3, <1>4, <1>5, <1>6, <1>7, <1>8 DEF Next

\* Events are committed; the browser keeps what it has.
LEMMA LogExtends ==
    ASSUME OneRun, IInv, IInv', ReaderInv, event \subseteq event', UNCHANGED reader
    PROVE  ReaderInv' /\ (Log!Extend \/ UNCHANGED Log!logVars)
<1>1. PICK N \in Nat : IsLog(event, N)
  BY EventsAreALog DEF IInv, TypeOK
<1>2. PICK M \in Nat : IsLog(event', M)
  BY EventsAreALog DEF IInv, TypeOK
<1>3. ReaderInv'
  BY <1>1, <1>2, FirstAmongMore DEF ReaderInv
<1>4. /\ N <= M
      /\ N = M => event = event'
      /\ InSequence(event) = SubSeq(InSequence(event'), 1, N)
  BY <1>1, <1>2, LogPrefix
<1>5. Len(InSequence(event)) = N /\ Len(InSequence(event')) = M
  BY <1>1, <1>2, InSequenceIs
<1>6. CASE event = event'
  BY <1>3, <1>6 DEF Log!logVars
<1>7. CASE event # event'
  <2>1. N < M
    BY <1>4, <1>7
  <2>. QED  BY <1>3, <1>4, <1>5, <2>1 DEF Log!Extend
<1>. QED  BY <1>6, <1>7

\* The browser connects, and is sent the events after those it has.
LEMMA LogReplayed ==
    ASSUME OneRun, IInv, ReaderInv, Connect
    PROVE  ReaderInv' /\ UNCHANGED Log!logVars
<1>1. PICK N \in Nat : IsLog(event, N)
  BY EventsAreALog DEF IInv, TypeOK
<1>2. PICK n \in 0..N : /\ IsLog(reader.received, n)
                        /\ Replay(reader.cursor) = {e \in event : e.seq > n}
  BY <1>1, ReceivedIsALog
<1>3. /\ reader' = [reader EXCEPT !.frames = Replay(reader.cursor)]
      /\ UNCHANGED event
  BY DEF Connect, rows
<1>4. /\ reader'.received = reader.received /\ reader'.cursor = reader.cursor
      /\ reader'.frames = {e \in event : e.seq > n}
  BY <1>2, <1>3 DEF IInv, TypeOK, Reader
<1>5. \A e \in reader.received : e.seq \in 1..n
  BY <1>2 DEF IsLog
<1>6. reader'.received \cap reader'.frames = {}
  BY <1>4, <1>5
<1>7. reader'.received \union reader'.frames = event
  <2>. SUFFICES ASSUME NEW e \in event, ~(e.seq > n)
                PROVE  e \in reader.received
    BY <1>4 DEF ReaderInv, First
  <2>1. e.seq \in 1..n
    BY <1>1 DEF IsLog
  <2>2. PICK d \in reader.received : d.seq = e.seq
    BY <1>2, <2>1 DEF IsLog
  <2>3. d \in event
    BY DEF ReaderInv, First
  <2>. QED  BY <1>1, <2>2, <2>3 DEF IsLog
<1>. QED  BY <1>3, <1>4, <1>6, <1>7 DEF ReaderInv, First, Log!logVars

\* A frame comes: the browser is handed the next event.
LEMMA LogReceived ==
    ASSUME OneRun, IInv, ReaderInv, NEW e \in reader.frames, Frame(e)
    PROVE  ReaderInv' /\ Log!Receive
<1>1. PICK N \in Nat : IsLog(event, N)
  BY EventsAreALog DEF IInv, TypeOK
<1>2. PICK n \in 0..N : IsLog(reader.received, n)
  BY <1>1, ReceivedIsALog
<1>3. /\ InOrder(e, reader.frames)
      /\ reader' = [cursor |-> e, frames |-> reader.frames \ {e},
                    received |-> reader.received \union {e},
                    shown |-> reader.shown \union {e}]
      /\ UNCHANGED event
  BY DEF Frame, rows
<1>4. e \in event /\ e.seq = n + 1 /\ n + 1 \in 1..N
  BY <1>1, <1>2, <1>3, FrameIsNext
<1>5. /\ reader'.cursor = e /\ reader'.frames = reader.frames \ {e}
      /\ reader'.received = reader.received \union {e}
  BY <1>3
<1>6. e \in Event /\ e # Nothing
  BY <1>4, NothingIsNoEvent DEF IInv, TypeOK
<1>7. \A a \in reader.received : a.seq \in 1..n
  BY <1>2 DEF IsLog
<1>8. First(reader'.received, event)
  <2>1. reader'.received \subseteq event
    BY <1>4, <1>5 DEF ReaderInv, First
  <2>. SUFFICES ASSUME NEW x \in event, x.seq <= e.seq
                PROVE  x \in reader.received \union {e}
    BY <1>5, <2>1 DEF ReaderInv, First
  <2>2. x \in reader.received \union reader.frames
    BY DEF ReaderInv, First
  <2>3. CASE x \in reader.frames
    <3>1. e.seq <= x.seq
      BY <1>3, <2>3 DEF InOrder
    <3>2. e.seq \in Nat /\ x.seq \in Nat
      BY <1>1, <1>4 DEF IsLog
    <3>3. x.seq = e.seq
      BY <3>1, <3>2
    <3>. QED  BY <1>1, <1>4, <3>3 DEF IsLog
  <2>. QED  BY <2>2, <2>3
<1>9. reader'.received \union reader'.frames = reader.received \union reader.frames
  BY <1>5
<1>10. reader'.received \cap reader'.frames = {}
  BY <1>5 DEF ReaderInv
<1>11. \A a \in reader'.received : a.seq <= e.seq
  BY <1>4, <1>5, <1>7
<1>12. ReaderInv'
  BY <1>3, <1>5, <1>6, <1>8, <1>9, <1>10, <1>11 DEF ReaderInv
<1>13. InSequence(reader'.received) = Append(InSequence(reader.received), e)
  BY <1>2, <1>4, <1>5, <1>6, LogNext
<1>14. Len(InSequence(reader.received)) = n
  BY <1>2, InSequenceIs
<1>15. Len(InSequence(event)) = N /\ InSequence(event)[n + 1] = e
  <2>1. /\ Len(InSequence(event)) = N
        /\ \A k \in 1..N : InSequence(event)[k] \in event /\ InSequence(event)[k].seq = k
    BY <1>1, InSequenceIs
  <2>2. InSequence(event)[n + 1] \in event /\ InSequence(event)[n + 1].seq = n + 1
    BY <1>4, <2>1
  <2>. QED  BY <1>1, <1>4, <2>1, <2>2 DEF IsLog
<1>16. n < N
  BY <1>4
<1>. QED  BY <1>3, <1>12, <1>13, <1>14, <1>15, <1>16 DEF Log!Receive

\* The connection is lost with the frames that had not come.
LEMMA LogInterrupted ==
    ASSUME IInv, ReaderInv, Drop
    PROVE  ReaderInv' /\ UNCHANGED Log!logVars
<1>1. reader' = [reader EXCEPT !.frames = {}] /\ UNCHANGED event
  BY DEF Drop, rows
<1>2. reader'.received = reader.received /\ reader'.cursor = reader.cursor /\ reader'.frames = {}
  BY <1>1 DEF IInv, TypeOK, Reader
<1>. QED  BY <1>1, <1>2 DEF ReaderInv, First, Log!logVars

\* An answer of load() is no part of the stream.
LEMMA LogLoaded ==
    ASSUME IInv, ReaderInv, UNCHANGED event, \E l \in Loads : LoadAnswered(l) \/ LoadApplied(l)
    PROVE  ReaderInv' /\ UNCHANGED Log!logVars
<1>1. /\ reader'.received = reader.received /\ reader'.cursor = reader.cursor
      /\ reader'.frames = reader.frames
  BY DEF LoadAnswered, LoadApplied, IInv, TypeOK, Reader
<1>. QED  BY <1>1 DEF ReaderInv, First, Log!logVars

LEMMA LogStep ==
    ASSUME OneRun, IInv, IInv', ReaderInv, [Next]_vars
    PROVE  ReaderInv' /\ [Log!Extend \/ Log!Receive]_(Log!logVars)
<1>1. CASE event \subseteq event' /\ UNCHANGED browser
  BY <1>1, LogExtends DEF browser
<1>2. CASE Browse \/ Drop
  BY <1>2, LogReplayed, LogReceived, LogInterrupted DEF Browse
<1>3. CASE UNCHANGED event /\ \E l \in Loads : LoadAnswered(l) \/ LoadApplied(l)
  BY <1>3, LogLoaded
<1>4. CASE UNCHANGED vars
  <2>1. UNCHANGED <<event, reader>>
    BY <1>4 DEF vars, rows, browser
  <2>. QED  BY <2>1 DEF ReaderInv, Log!logVars
<1>. QED  BY <1>1, <1>2, <1>3, <1>4, StepShape

LEMMA LogInitially ==
    ASSUME Init
    PROVE  ReaderInv /\ Log!LogInit
<1>1. event = {} /\ reader.received = {} /\ reader.frames = {} /\ reader.cursor = Nothing
  BY DEF Init
<1>2. ReaderInv
  BY <1>1 DEF ReaderInv, First
<1>3. InSequence({}) = <<>>
  <2>1. IsLog({}, 0)
    BY DEF IsLog
  <2>2. InSequence({}) \in Seq(Event) /\ Len(InSequence({})) = 0
    BY <2>1, InSequenceIs
  <2>. QED  BY <2>2, EmptySeq
<1>. QED  BY <1>1, <1>2, <1>3 DEF Log!LogInit

\* The browser is handed the first events of a thread of one run, in their order
\* and each once, although its connection is lost (thread_events_stream and
\* subscribeToEvents), for
\* any number of transactions, workers and lost connections.
THEOREM StreamIsTheLog == OneRun => (Spec => Log!LogSafe)
<1>. SUFFICES ASSUME OneRun
              PROVE  Spec => Log!LogSafe
  OBVIOUS
<1>1. Init => ReaderInv /\ Log!LogInit
  BY LogInitially
<1>2. IInv /\ IInv' /\ ReaderInv /\ [Next]_vars
        => ReaderInv' /\ [Log!Extend \/ Log!Receive]_(Log!logVars)
  BY LogStep
<1>. QED  BY <1>1, <1>2, Invariance, PTL DEF Spec, Log!LogSafe

-----------------------------------------------------------------------------
(* The list the browser shows *)

\* An answer of load() holds the first events.
AnswerInv == \A l \in Loads : load[l].pc # "called" => First(load[l].answer, event)

LEMMA ShownStep ==
    ASSUME OneRun, IInv, IInv', ReaderInv, AnswerInv, HiddenByOlderAnswer, [Next]_vars
    PROVE  AnswerInv' /\ HiddenByOlderAnswer'
<1>1. PICK N \in Nat : IsLog(event, N)
  BY EventsAreALog DEF IInv, TypeOK
<1>2. load \in [Loads -> Load] /\ reader \in Reader
  BY DEF IInv, TypeOK
<1>3. CASE event \subseteq event' /\ UNCHANGED browser
  <2>1. PICK M \in Nat : IsLog(event', M)
    BY EventsAreALog DEF IInv, TypeOK
  <2>2. AnswerInv'
    BY <1>1, <1>3, <2>1, FirstAmongMore DEF AnswerInv, browser
  <2>. QED  BY <1>3, <2>2 DEF HiddenByOlderAnswer, browser
<1>4. CASE Browse \/ Drop
  <2>1. UNCHANGED <<event, load>>
    BY <1>4 DEF Browse, Connect, Frame, Drop, rows
  <2>2. reader'.received \ reader'.shown \subseteq reader.received \ reader.shown
    BY <1>2, <1>4 DEF Browse, Connect, Frame, Drop, Reader
  <2>. QED  BY <2>1, <2>2 DEF AnswerInv, HiddenByOlderAnswer
<1>5. CASE \E l \in Loads : LoadAnswered(l)
  <2>1. PICK l \in Loads : LoadAnswered(l)
    BY <1>5
  <2>2. /\ UNCHANGED <<event, reader>> /\ load[l].pc = "called"
        /\ load'[l].answer = event
        /\ \A k \in Loads : k # l => load'[k] = load[k]
    BY <1>2, <2>1 DEF LoadAnswered, Asked, rows
  <2>3. First(event, event)
    BY DEF First
  <2>4. AnswerInv'
    BY <2>2, <2>3 DEF AnswerInv
  <2>5. \A k \in Loads : load[k].pc = "applied" => k # l
    BY <2>2
  <2>. QED  BY <2>2, <2>4, <2>5 DEF HiddenByOlderAnswer
<1>6. CASE \E l \in Loads : LoadApplied(l)
  <2>1. PICK l \in Loads : LoadApplied(l)
    BY <1>6
  <2>2. /\ UNCHANGED event /\ load[l].pc = "answered"
        /\ load'[l].pc = "applied"
        /\ \A k \in Loads : load'[k].answer = load[k].answer /\ (k # l => load'[k] = load[k])
        /\ reader'.received = reader.received /\ reader'.shown = load[l].answer
    BY <1>2, <2>1 DEF LoadApplied, rows, Load, Reader
  <2>3. First(load[l].answer, event)
    BY <2>2 DEF AnswerInv
  <2>4. AnswerInv'
    BY <2>2, <2>3 DEF AnswerInv
  <2>5. ASSUME NEW e \in reader.received \ load[l].answer, NEW d \in load[l].answer
        PROVE  d.seq < e.seq
    <3>1. e \in event /\ d \in event /\ ~(e.seq <= d.seq)
      BY <2>3 DEF ReaderInv, First
    <3>2. e.seq \in Nat /\ d.seq \in Nat
      BY <1>1, <3>1 DEF IsLog
    <3>. QED  BY <3>1, <3>2
  <2>6. HiddenByOlderAnswer'
    BY <2>2, <2>5 DEF HiddenByOlderAnswer
  <2>. QED  BY <2>4, <2>6
<1>7. CASE UNCHANGED vars
  <2>1. UNCHANGED <<event, reader, load>>
    BY <1>7 DEF vars, rows, browser
  <2>. QED  BY <2>1 DEF AnswerInv, HiddenByOlderAnswer
<1>. QED  BY <1>3, <1>4, <1>5, <1>6, <1>7, StepShape

\* In a thread of one run, an event that was handed over is missing from the list
\* only if an older answer of load() has replaced the list (main.jsx), in whatever
\* order any number of answers and frames arrive.
THEOREM OlderAnswersHide == OneRun => (Spec => []HiddenByOlderAnswer)
<1>. SUFFICES ASSUME OneRun
              PROVE  Spec => []HiddenByOlderAnswer
  OBVIOUS
<1>1. Init => AnswerInv /\ HiddenByOlderAnswer
  BY DEF Init, AnswerInv, HiddenByOlderAnswer
<1>2. Init => ReaderInv
  BY LogInitially
<1>3. IInv /\ IInv' /\ ReaderInv /\ [Next]_vars => ReaderInv'
  BY LogStep
<1>4. IInv /\ IInv' /\ ReaderInv /\ AnswerInv /\ HiddenByOlderAnswer /\ [Next]_vars
        => AnswerInv' /\ HiddenByOlderAnswer'
  BY ShownStep
<1>. QED  BY <1>1, <1>2, <1>3, <1>4, Invariance, PTL DEF Spec
=============================================================================
