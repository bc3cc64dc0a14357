---------------------------- MODULE SkillsProofs ----------------------------
(***************************************************************************)
(* Proofs about Skills for any number of skills, versions, projects, keys  *)
(* and threads, any packages and any bounds.                               *)
(***************************************************************************)
EXTENDS Skills, FiniteSetTheorems, TLAPS

\* Validated once, and sound: what may be published or pinned.
Served(v) ==
    /\ version[v].status \in {"valid", "published"}
    /\ version[v].package \in Sound

\* What holds of the request q at any time.
Holds(q) ==
    /\ q.pc = "repair" => skill[q.at[1]] # Nothing
    /\ q.pc = "validate" => Present(q.at)
    /\ q.pc = "publish" => Served(q.at)
    /\ q.pc = "pin" => \A v \in q.pins : Served(v)

VersionInv ==
    /\ \A v \in Versions : version[v].status \in {"valid", "published"} => Served(v)
    /\ \A v \in Own : Present(v) => skill[v[1]] # Nothing

PinInv == \A j \in Projects : \A v \in project[j].pins : Served(v)

\* Clients have been answered with the recorded project and no other.
AnswerInv ==
    \A i \in Keys :
        answers[i] \subseteq IF record[i] = Nothing THEN {} ELSE {record[i]}

ThreadInv == \A t \in Threads : Holds(thread[t])

IInv ==
    /\ TypeOK
    /\ VersionInv
    /\ PinInv
    /\ AnswerInv
    /\ ThreadInv

\* What no step undoes: skills keep their slugs, versions their bytes, and
\* what may be served may be served from then on.
Evolves ==
    /\ \A k \in Ids : skill[k] # Nothing => skill'[k] # Nothing
    /\ \A v \in Versions :
        Present(v) => Present(v)' /\ version'[v].package = version[v].package
    /\ \A v \in Versions : Served(v) => Served(v)'

-----------------------------------------------------------------------------
(* Steps in general *)

\* A request that holds goes on holding.
LEMMA HoldsOn ==
    ASSUME TypeOK, Evolves, NEW q \in Thread, Holds(q)
    PROVE  Holds(q)'
<1>1. CASE q.pc = "repair"
  <2>1. q.at[1] \in Ids
    BY <1>1 DEF Thread, Own
  <2>. QED  BY <1>1, <2>1 DEF Holds, Evolves
<1>2. CASE q.pc = "validate"
  <2>1. q.at \in Versions
    BY <1>2 DEF Thread, Versions
  <2>. QED  BY <1>2, <2>1 DEF Holds, Evolves
<1>3. CASE q.pc = "publish"
  <2>1. q.at \in Versions
    BY <1>3 DEF Thread, Versions
  <2>. QED  BY <1>3, <2>1 DEF Holds, Evolves
<1>4. CASE q.pc = "pin"
  <2>1. q.pins \subseteq Versions
    BY <1>4 DEF Thread
  <2>. QED  BY <1>4, <2>1 DEF Holds, Evolves
<1>. QED  BY <1>1, <1>2, <1>3, <1>4 DEF Holds

\* The requests, when thread t has gone on with q.
LEMMA GoesStep ==
    ASSUME TypeOK, ThreadInv, Evolves, NEW t \in Threads, NEW pc, NEW q \in Thread,
           Goes(t, pc, q), Holds(q)'
    PROVE  thread' \in [Threads -> Thread] /\ ThreadInv'
<1>1. thread' = [thread EXCEPT ![t] = q] /\ thread \in [Threads -> Thread]
  BY DEF Goes, TypeOK
<1>2. thread' \in [Threads -> Thread]
  BY <1>1
<1>3. ASSUME NEW s \in Threads
      PROVE  Holds(thread[s])'
  <2>1. CASE s = t
    <3>1. thread'[s] = q
      BY <1>1, <2>1
    <3>. QED  BY <3>1 DEF Holds, Present, Served
  <2>2. CASE s # t
    <3>1. thread'[s] = thread[s] /\ thread[s] \in Thread /\ Holds(thread[s])
      BY <1>1, <2>2 DEF ThreadInv
    <3>2. PICK x \in Thread : x = thread[s]
      BY <3>1
    <3>3. Holds(x) /\ thread'[s] = x
      BY <3>1, <3>2
    <3>4. Holds(x)'
      BY <3>3, HoldsOn
    <3>. QED  BY <3>3, <3>4 DEF Holds, Present, Served
  <2>. QED  BY <2>1, <2>2
<1>. QED  BY <1>2, <1>3 DEF ThreadInv

\* The pins hold what Evolves keeps, if no project is made.
LEMMA PinsKept ==
    ASSUME TypeOK, PinInv, Evolves, UNCHANGED project
    PROVE  PinInv'
<1>1. ASSUME NEW j \in Projects
      PROVE  project[j].pins \subseteq Versions
  BY DEF TypeOK
<1>. QED  BY <1>1 DEF PinInv, Evolves

LEMMA IdleHolds == Idle \in Thread /\ Holds(Idle) /\ Holds(Idle)'
BY DEF Idle, Thread, Holds

\* A step that leaves the rows alone and goes on with a request that holds.
LEMMA ReadStep ==
    ASSUME IInv, NEW t \in Threads, NEW pc, NEW q \in Thread,
           Goes(t, pc, q), Holds(q), UNCHANGED <<catalogue, creation>>
    PROVE  IInv' /\ Evolves
<1>1. UNCHANGED <<skill, version, project, record, answers>>
  BY DEF catalogue, creation
<1>2. Evolves
  BY <1>1 DEF Evolves, Present, Served
<1>3. Holds(q)'
  BY <1>1 DEF Holds, Present, Served
<1>4. thread' \in [Threads -> Thread] /\ ThreadInv'
  BY <1>2, <1>3, GoesStep DEF IInv
<1>. QED
  BY <1>1, <1>2, <1>4 DEF IInv, TypeOK, VersionInv, PinInv, AnswerInv, Present, Served

-----------------------------------------------------------------------------
(* Drafts *)

LEMMA CreateStep ==
    ASSUME IInv, NEW t \in Threads, NEW slug \in Slugs, NEW package \in Packages,
           NEW authored \in BOOLEAN, CreateReads(t, slug, package, authored)
    PROVE  IInv' /\ Evolves
<1>. DEFINE q == [pc |-> "create", slug |-> slug, package |-> package, authored |-> authored]
<1>1. q \in Thread /\ Holds(q)
  BY DEF Thread, Holds
<1>2. Goes(t, "idle", q) /\ UNCHANGED <<catalogue, creation>>
  BY DEF CreateReads
<1>. HIDE DEF q
<1>. QED  BY <1>1, <1>2, ReadStep

LEMMA ForkStep ==
    ASSUME IInv, NEW t \in Threads, NEW v \in Versions, NEW slug \in Slugs,
           ForkReads(t, v, slug)
    PROVE  IInv' /\ Evolves
<1>. DEFINE q == [pc |-> "create", slug |-> slug, package |-> version[v].package,
                  authored |-> FALSE]
<1>1. version[v].package \in Packages
  BY SkillsAssumption DEF IInv, VersionInv, Served, ForkReads
<1>2. q \in Thread /\ Holds(q)
  BY <1>1 DEF Thread, Holds
<1>3. Goes(t, "idle", q) /\ UNCHANGED <<catalogue, creation>>
  BY DEF ForkReads
<1>. HIDE DEF q
<1>. QED  BY <1>2, <1>3, ReadStep

\* A new draft under an identifier that had none, or under a free number.
LEMMA DraftStep ==
    ASSUME IInv, NEW t \in Threads, NEW pc, NEW v \in Own, NEW package \in Packages,
           NEW q \in Thread, Goes(t, pc, q), Holds(q)', ~Present(v), UNCHANGED creation,
           version' = [version EXCEPT ![v] = Draft(package)],
           skill' \in [Ids -> Slugs \union {Nothing}],
           skill'[v[1]] # Nothing,
           \A k \in Ids : skill[k] # Nothing => skill'[k] # Nothing
    PROVE  IInv' /\ Evolves
<1>1. Draft(package) \in Version /\ Draft(package).status = "draft" /\ v \in Versions
  BY DEF Draft, Version, Status, Versions
<1>2. version \in [Versions -> Version]
  BY DEF IInv, TypeOK
<1>3. version' \in [Versions -> Version]
  BY <1>1, <1>2
<1>4. version'[v].status = "draft"
  BY <1>1, <1>2
<1>5. \A w \in Versions \ {v} : version'[w] = version[w]
  BY <1>2
<1>6. Evolves
  BY <1>4, <1>5 DEF Evolves, Present, Served
<1>7. thread' \in [Threads -> Thread] /\ ThreadInv'
  BY <1>6, GoesStep DEF IInv
<1>8. VersionInv'
  <2>1. \A w \in Own : w[1] \in Ids /\ w \in Versions
    BY DEF Own, Versions
  <2>. QED  BY <1>4, <1>5, <2>1 DEF IInv, VersionInv, Present, Served
<1>9. UNCHANGED <<project, record, answers>>
  BY DEF creation
<1>10. PinInv' /\ AnswerInv'
  BY <1>6, <1>9, PinsKept DEF IInv, AnswerInv
<1>. QED  BY <1>3, <1>6, <1>7, <1>8, <1>9, <1>10 DEF IInv, TypeOK

LEMMA CreatesStep ==
    ASSUME IInv, NEW t \in Threads, NEW k \in Ids, Creates(t, k)
    PROVE  IInv' /\ Evolves
<1>. DEFINE v == <<k, 1>>
<1>1. v \in Own /\ v[1] = k
  BY SkillsAssumption DEF Own
<1>2. thread[t].slug \in Slugs /\ thread[t].package \in Packages
  BY DEF IInv, TypeOK, Creates, Goes, Thread
<1>3. ~Present(v)
  BY <1>1 DEF IInv, VersionInv, Creates
<1>4. /\ skill' \in [Ids -> Slugs \union {Nothing}]
      /\ skill'[k] # Nothing
      /\ \A l \in Ids : skill[l] # Nothing => skill'[l] # Nothing
  BY <1>2, SkillsAssumption DEF IInv, TypeOK, Creates
<1>5. PICK q \in Thread : Goes(t, "create", q) /\ Holds(q)'
  <2>. DEFINE note == [pc |-> "note", at |-> v]
  <2>1. note \in Thread /\ Holds(note)'
    BY <1>1 DEF Thread, Holds
  <2>2. Goes(t, "create", note) \/ Goes(t, "create", Idle)
    BY DEF Creates
  <2>. HIDE DEF note
  <2>. QED  BY <2>1, <2>2, IdleHolds
<1>6. version' = [version EXCEPT ![v] = Draft(thread[t].package)] /\ UNCHANGED creation
  BY DEF Creates
<1>. HIDE DEF v
<1>. QED  BY <1>1, <1>2, <1>3, <1>4, <1>5, <1>6, DraftStep

LEMMA RepairReadsStep ==
    ASSUME IInv, NEW t \in Threads, NEW v \in Own, NEW n \in 1..MaxVersions,
           NEW package \in Packages, RepairReads(t, v, n, package)
    PROVE  IInv' /\ Evolves
<1>. DEFINE q == [pc |-> "repair", at |-> <<v[1], n>>, package |-> package, from |-> v[2]]
<1>1. v[1] \in Ids /\ v[2] \in 1..MaxVersions /\ <<v[1], n>> \in Own
  BY DEF Own
<1>2. skill[v[1]] # Nothing
  BY DEF IInv, VersionInv, RepairReads, Present
<1>3. q \in Thread /\ Holds(q)
  BY <1>1, <1>2 DEF Thread, Holds
<1>4. Goes(t, "idle", q) /\ UNCHANGED <<catalogue, creation>>
  BY DEF RepairReads
<1>. HIDE DEF q
<1>. QED  BY <1>3, <1>4, ReadStep

LEMMA RepairsStep ==
    ASSUME IInv, NEW t \in Threads, Repairs(t)
    PROVE  IInv' /\ Evolves
<1>1. thread[t] \in Thread /\ thread[t].pc = "repair" /\ Holds(thread[t])
  BY DEF IInv, TypeOK, ThreadInv, Repairs, Goes
<1>2. thread[t].at \in Own /\ thread[t].package \in Packages
  BY <1>1 DEF Thread
<1>3. skill[thread[t].at[1]] # Nothing
  BY <1>1 DEF Holds
<1>4. /\ Goes(t, "repair", Idle) /\ ~Present(thread[t].at)
      /\ version' = [version EXCEPT ![thread[t].at] = Draft(thread[t].package)]
      /\ UNCHANGED creation /\ UNCHANGED skill
  BY DEF Repairs
<1>5. skill' \in [Ids -> Slugs \union {Nothing}]
  BY <1>4 DEF IInv, TypeOK
<1>. QED  BY <1>2, <1>3, <1>4, <1>5, IdleHolds, DraftStep

\* The note of the author changes neither status nor content.
LEMMA NotesStep ==
    ASSUME IInv, NEW t \in Threads, Notes(t)
    PROVE  IInv' /\ Evolves
<1>1. version \in [Versions -> Version] /\ thread[t].at \in Versions
  BY DEF IInv, TypeOK, Notes, Goes, Thread, Versions
<1>2. /\ Goes(t, "note", Idle)
      /\ version' = [version EXCEPT ![thread[t].at].noted = TRUE]
      /\ UNCHANGED <<skill, project, record, answers>>
  BY DEF Notes, creation
<1>3. version' \in [Versions -> Version]
  BY <1>1, <1>2 DEF Version
<1>4. \A v \in Versions : version'[v].status = version[v].status
                          /\ version'[v].package = version[v].package
  BY <1>1, <1>2 DEF Version
<1>5. Evolves
  BY <1>2, <1>4 DEF Evolves, Present, Served
<1>6. thread' \in [Threads -> Thread] /\ ThreadInv'
  BY <1>2, <1>5, GoesStep, IdleHolds DEF IInv
<1>7. VersionInv'
  BY <1>2, <1>4 DEF IInv, VersionInv, Present, Served, Versions
<1>8. PinInv' /\ AnswerInv'
  BY <1>2, <1>5, PinsKept DEF IInv, AnswerInv
<1>. QED  BY <1>2, <1>3, <1>5, <1>6, <1>7, <1>8 DEF IInv, TypeOK

-----------------------------------------------------------------------------
(* Publication *)

\* A version keeps its bytes and gets a status that fits them.
LEMMA StatusStep ==
    ASSUME IInv, NEW t \in Threads, NEW pc, NEW v \in Own, NEW status \in Status,
           Goes(t, pc, Idle), Present(v), UNCHANGED <<skill, creation>>,
           version' = [version EXCEPT ![v].status = status],
           status # "absent",
           status \in {"valid", "published"} <=> version[v].package \in Sound
    PROVE  IInv' /\ Evolves
<1>1. version \in [Versions -> Version] /\ v \in Versions
  BY DEF IInv, TypeOK, Versions
<1>2. version' \in [Versions -> Version]
  BY <1>1 DEF Version
<1>3. version'[v].status = status /\ version'[v].package = version[v].package
  BY <1>1 DEF Version
<1>4. \A w \in Versions \ {v} : version'[w] = version[w]
  BY <1>1
<1>5. Evolves
  BY <1>3, <1>4 DEF Evolves, Present, Served
<1>6. thread' \in [Threads -> Thread] /\ ThreadInv'
  BY <1>5, GoesStep, IdleHolds DEF IInv
<1>7. VersionInv'
  BY <1>3, <1>4 DEF IInv, VersionInv, Present, Served, Versions
<1>8. UNCHANGED <<project, record, answers>>
  BY DEF creation
<1>9. PinInv' /\ AnswerInv'
  BY <1>5, <1>8, PinsKept DEF IInv, AnswerInv
<1>. QED  BY <1>2, <1>5, <1>6, <1>7, <1>8, <1>9 DEF IInv, TypeOK

LEMMA ValidationStep ==
    ASSUME IInv, NEW t \in Threads, Validation(t)
    PROVE  IInv' /\ Evolves
<1>1. ASSUME NEW v \in Own, ValidateReads(t, v)
      PROVE  IInv' /\ Evolves
  <2>. DEFINE q == [pc |-> "validate", at |-> v, seen |-> version[v].status]
  <2>1. q \in Thread /\ Holds(q)
    BY <1>1 DEF Thread, Holds, ValidateReads, IInv, TypeOK, Version, Versions
  <2>2. Goes(t, "idle", q) /\ UNCHANGED <<catalogue, creation>>
    BY <1>1 DEF ValidateReads
  <2>. HIDE DEF q
  <2>. QED  BY <2>1, <2>2, ReadStep
<1>2. ASSUME NEW v \in Own, Validates(t, v)
      PROVE  IInv' /\ Evolves
  <2>1. /\ Goes(t, "validate", Idle) /\ UNCHANGED <<skill, creation>>
        /\ v = thread[t].at
    BY <1>2 DEF Validates
  <2>2. Present(v)
    BY <2>1 DEF IInv, ThreadInv, Holds, Goes
  <2>3. CASE UNCHANGED version
    BY <2>1, <2>3, IdleHolds, ReadStep DEF catalogue
  <2>4. CASE version' = [version EXCEPT ![v].status = Verdict(v)]
    <3>1. /\ Verdict(v) \in Status /\ Verdict(v) # "absent"
          /\ Verdict(v) \in {"valid", "published"} <=> version[v].package \in Sound
      BY DEF Verdict, Status
    <3>. QED  BY <2>1, <2>2, <2>4, <3>1, StatusStep
  <2>. QED  BY <1>2, <2>3, <2>4 DEF Validates
<1>. QED  BY <1>1, <1>2 DEF Validation

LEMMA PublicationStep ==
    ASSUME IInv, NEW t \in Threads, Publication(t)
    PROVE  IInv' /\ Evolves
<1>1. ASSUME NEW v \in Own, PublishReads(t, v)
      PROVE  IInv' /\ Evolves
  <2>. DEFINE q == [pc |-> "publish", at |-> v]
  <2>1. Served(v)
    BY <1>1 DEF PublishReads, IInv, VersionInv, Versions
  <2>2. q \in Thread /\ Holds(q)
    BY <2>1 DEF Thread, Holds
  <2>3. Goes(t, "idle", q) /\ UNCHANGED <<catalogue, creation>>
    BY <1>1 DEF PublishReads
  <2>. HIDE DEF q
  <2>. QED  BY <2>2, <2>3, ReadStep
<1>2. ASSUME Publishes(t)
      PROVE  IInv' /\ Evolves
  <2>1. thread[t] \in Thread /\ thread[t].pc = "publish" /\ Holds(thread[t])
    BY <1>2 DEF Publishes, Goes, IInv, TypeOK, ThreadInv
  <2>2. thread[t].at \in Own
    BY <2>1 DEF Thread
  <2>3. Present(thread[t].at) /\ version[thread[t].at].package \in Sound
    BY <2>1 DEF Holds, Served, Present
  <2>4. /\ Goes(t, "publish", Idle) /\ UNCHANGED <<skill, creation>>
        /\ version' = [version EXCEPT ![thread[t].at].status = "published"]
    BY <1>2 DEF Publishes
  <2>5. "published" \in Status
    BY DEF Status
  <2>. QED  BY <2>2, <2>3, <2>4, <2>5, StatusStep
<1>. QED  BY <1>1, <1>2 DEF Publication

-----------------------------------------------------------------------------
(* Projects *)

LEMMA ReplayedStep ==
    ASSUME IInv, NEW t \in Threads, NEW i \in Keys, CreationReplayed(t, i)
    PROVE  IInv' /\ Evolves
<1>1. UNCHANGED <<skill, version, project, record, thread>>
  BY DEF CreationReplayed, catalogue
<1>2. Evolves
  BY <1>1 DEF Evolves, Present, Served
<1>3. answers' = [answers EXCEPT ![i] = answers[i] \union {record[i]}]
      /\ record[i] \in Projects /\ record[i] # Nothing
  BY DEF CreationReplayed, IInv, TypeOK
<1>4. answers' \in [Keys -> SUBSET Projects] /\ AnswerInv'
  BY <1>1, <1>3 DEF IInv, TypeOK, AnswerInv
<1>5. ThreadInv' /\ PinInv' /\ VersionInv'
  BY <1>1 DEF IInv, ThreadInv, PinInv, VersionInv, Holds, Present, Served
<1>. QED  BY <1>1, <1>2, <1>4, <1>5 DEF IInv, TypeOK

LEMMA PinsStep ==
    ASSUME IInv, NEW t \in Threads, NEW i \in Keys, NEW pins \in SUBSET Versions,
           Pins(t, i, pins)
    PROVE  IInv' /\ Evolves
<1>. DEFINE q == [pc |-> "pin", key |-> i, pins |-> pins]
<1>1. \A v \in pins : Served(v)
  BY DEF Pins, IInv, VersionInv
<1>2. q \in Thread /\ Holds(q)
  BY <1>1 DEF Thread, Holds
<1>3. Goes(t, "idle", q) /\ UNCHANGED <<catalogue, creation>>
  BY DEF Pins
<1>. HIDE DEF q
<1>. QED  BY <1>2, <1>3, ReadStep

LEMMA ProjectCreatedStep ==
    ASSUME IInv, NEW t \in Threads, NEW j \in Projects, ProjectCreated(t, j)
    PROVE  IInv' /\ Evolves
<1>1. thread[t] \in Thread /\ thread[t].pc = "pin" /\ Holds(thread[t])
  BY DEF ProjectCreated, Goes, IInv, TypeOK, ThreadInv
<1>2. thread[t].key \in Keys /\ thread[t].pins \in SUBSET Versions
  BY <1>1 DEF Thread
<1>3. PICK q \in Thread : q = [pc |-> "answer", key |-> thread[t].key, project |-> j]
  BY <1>2 DEF Thread
<1>4. Goes(t, "pin", q) /\ Holds(q)'
  BY <1>3 DEF ProjectCreated, Holds
<1>5. UNCHANGED <<skill, version, record, answers>>
  BY DEF ProjectCreated, catalogue
<1>6. Evolves
  BY <1>5 DEF Evolves, Present, Served
<1>7. thread' \in [Threads -> Thread] /\ ThreadInv'
  BY <1>3, <1>4, <1>6, GoesStep DEF IInv
<1>8. project' = [project EXCEPT ![j] = [made |-> TRUE, pins |-> thread[t].pins]]
  BY DEF ProjectCreated
<1>9. project' \in [Projects -> [made : BOOLEAN, pins : SUBSET Versions]]
  BY <1>2, <1>8 DEF IInv, TypeOK
<1>10. ASSUME NEW p \in Projects, NEW v \in project'[p].pins
       PROVE  Served(v)
  <2>1. CASE p = j
    <3>1. v \in thread[t].pins
      BY <1>8, <2>1 DEF IInv, TypeOK
    <3>. QED  BY <1>1, <3>1 DEF Holds
  <2>2. CASE p # j
    <3>1. v \in project[p].pins
      BY <1>8, <2>2 DEF IInv, TypeOK
    <3>. QED  BY <3>1 DEF IInv, PinInv
  <2>. QED  BY <2>1, <2>2
<1>11. PinInv'
  BY <1>5, <1>10 DEF PinInv, Served
<1>12. VersionInv' /\ AnswerInv'
  BY <1>5 DEF IInv, VersionInv, AnswerInv, Present, Served
<1>. QED  BY <1>5, <1>6, <1>7, <1>9, <1>11, <1>12 DEF IInv, TypeOK

LEMMA RemembersStep ==
    ASSUME IInv, NEW t \in Threads, NEW i \in Keys, Remembers(t, i)
    PROVE  IInv' /\ Evolves
<1>. DEFINE j == IF record[i] = Nothing THEN thread[t].project ELSE record[i]
<1>1. thread[t] \in Thread /\ thread[t].pc = "answer"
  BY DEF Remembers, Goes, IInv, TypeOK
<1>2. thread[t].project \in Projects
  BY <1>1 DEF Thread
<1>3. record \in [Keys -> Projects \union {Nothing}] /\ answers \in [Keys -> SUBSET Projects]
  BY DEF IInv, TypeOK
<1>4. j \in Projects /\ (record[i] # Nothing => j = record[i])
  BY <1>2, <1>3
<1>5. /\ record' = [record EXCEPT ![i] = j]
      /\ answers' = [answers EXCEPT ![i] = answers[i] \union {j}]
  BY DEF Remembers, Answers
<1>. HIDE DEF j
<1>6. UNCHANGED <<skill, version, project>>
  BY DEF Remembers, catalogue
<1>7. Evolves
  BY <1>6 DEF Evolves, Present, Served
<1>8. thread' \in [Threads -> Thread] /\ ThreadInv'
  BY <1>7, GoesStep, IdleHolds DEF IInv, Remembers
<1>9. record' \in [Keys -> Projects \union {Nothing}] /\ answers' \in [Keys -> SUBSET Projects]
  BY <1>3, <1>4, <1>5
<1>10. AnswerInv'
  <2>. SUFFICES ASSUME NEW k \in Keys
                PROVE  answers'[k] \subseteq
                            IF record'[k] = Nothing THEN {} ELSE {record'[k]}
    BY DEF AnswerInv
  <2>1. answers[k] \subseteq IF record[k] = Nothing THEN {} ELSE {record[k]}
    BY DEF IInv, AnswerInv
  <2>2. CASE k = i
    <3>1. record'[k] = j /\ answers'[k] = answers[k] \union {j} /\ j # Nothing
      BY <1>3, <1>4, <1>5, <2>2, SkillsAssumption
    <3>2. answers[k] \subseteq {j}
      BY <1>4, <2>1, <2>2
    <3>. QED  BY <3>1, <3>2
  <2>3. CASE k # i
    BY <1>3, <1>5, <2>1, <2>3
  <2>. QED  BY <2>2, <2>3
<1>11. VersionInv' /\ PinInv'
  BY <1>6 DEF IInv, VersionInv, PinInv, Present, Served
<1>. QED  BY <1>6, <1>7, <1>8, <1>9, <1>10, <1>11 DEF IInv, TypeOK

-----------------------------------------------------------------------------
(* The specification *)

LEMMA Initially == Init => IInv
<1>. SUFFICES ASSUME Init
              PROVE  IInv
  OBVIOUS
<1>1. /\ NoVersion \in Version
      /\ [status |-> "published", package |-> Seeded, noted |-> FALSE] \in Version
  BY SkillsAssumption DEF NoVersion, Version, Status
<1>2. TypeOK
  BY <1>1, IdleHolds DEF Init, TypeOK
<1>3. VersionInv /\ PinInv /\ AnswerInv
  BY SkillsAssumption DEF Init, VersionInv, PinInv, AnswerInv, Present, NoVersion, Served, Versions
<1>4. ThreadInv
  BY IdleHolds DEF Init, ThreadInv
<1>. QED  BY <1>2, <1>3, <1>4 DEF IInv

LEMMA Step == IInv /\ Next => IInv' /\ Evolves
<1>. SUFFICES ASSUME IInv, NEW t \in Threads,
                     DraftNext(t) \/ Validation(t) \/ Publication(t)
                        \/ ProjectNext(t) \/ Abandoned(t)
              PROVE  IInv' /\ Evolves
  BY DEF Next
<1>1. CASE DraftNext(t)
  BY <1>1, CreateStep, ForkStep, CreatesStep, NotesStep, RepairReadsStep, RepairsStep
     DEF DraftNext, Writing, Forking, Repairing
<1>2. CASE Validation(t)
  BY <1>2, ValidationStep
<1>3. CASE Publication(t)
  BY <1>3, PublicationStep
<1>4. CASE ProjectNext(t)
  BY <1>4, ReplayedStep, PinsStep, ProjectCreatedStep, RemembersStep DEF ProjectNext
<1>5. CASE Abandoned(t)
  <2>1. Goes(t, thread[t].pc, Idle) /\ UNCHANGED <<catalogue, creation>>
    BY <1>5 DEF Abandoned, Goes
  <2>. QED  BY <2>1, IdleHolds, ReadStep
<1>. QED  BY <1>1, <1>2, <1>3, <1>4, <1>5

LEMMA Invariance == Spec => []IInv
<1>1. IInv /\ UNCHANGED vars => IInv'
  BY DEF vars, catalogue, creation, IInv, TypeOK, VersionInv, PinInv, AnswerInv,
         ThreadInv, Holds, Present, Served
<1>. QED  BY <1>1, Initially, Step, PTL DEF Spec

\* Rows and requests keep their types (create_skill, repair_skill_draft,
\* validate_skill, publish_skill and create_project).
THEOREM SkillsTypeCorrect == Spec => []TypeOK
<1>1. IInv => TypeOK
  BY DEF IInv
<1>. QED  BY <1>1, Invariance, PTL

\* What is published or pinned has passed validation (publish_skill and
\* create_project), for any number of requests at once.
THEOREM ServedVersionsSound == Spec => []ServedIsSound
<1>1. IInv => ServedIsSound
  BY DEF IInv, VersionInv, PinInv, ServedIsSound, Served
<1>. QED  BY <1>1, Invariance, PTL

\* One key, one project in the answers (remember_idempotency).
THEOREM OneAnswerPerKey == Spec => []AnswersAgree
<1>1. ASSUME IInv, NEW i \in Keys
      PROVE  Cardinality(answers[i]) <= 1
  <2>1. CASE record[i] = Nothing
    <3>1. answers[i] = {}
      BY <1>1, <2>1 DEF IInv, AnswerInv
    <3>2. Cardinality({}) = 0
      BY FS_EmptySet
    <3>. QED  BY <3>1, <3>2
  <2>2. CASE record[i] # Nothing
    <3>1. answers[i] \subseteq {record[i]}
      BY <1>1, <2>2 DEF IInv, AnswerInv
    <3>2. answers[i] = {} \/ answers[i] = {record[i]}
      BY <3>1
    <3>3. Cardinality({}) = 0 /\ Cardinality({record[i]}) = 1
      BY FS_EmptySet, FS_Singleton
    <3>. QED  BY <3>2, <3>3
  <2>. QED  BY <2>1, <2>2
<1>2. IInv => AnswersAgree
  BY <1>1 DEF AnswersAgree
<1>. QED  BY <1>2, Invariance, PTL
=============================================================================
