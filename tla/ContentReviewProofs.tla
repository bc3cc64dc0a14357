------------------------ MODULE ContentReviewProofs ------------------------
(***************************************************************************)
(* Proofs about ContentReview for any set of patches and any number of     *)
(* reviewer threads.                                                       *)
(***************************************************************************)
EXTENDS ContentReview, FiniteSetTheorems, SequenceTheorems, TLAPS

\* Every patch row names an existing base, no version comes from a row that
\* does not exist, and a thread that has computed a
\* version number computed one that was the next at that time.
LoadedInv ==
    /\ \A p \in Patches :
          patch[p].status # "absent" => patch[p].base \in 1 .. head
    /\ \A v \in versions : v # Root => patch[v.patch].status # "absent"
    /\ \A q \in Reviewers : request[q].step = "numbered" =>
          /\ request[q].next \in 2 .. (head + 1)
          /\ patch[request[q].patch].base < request[q].next

\* No two versions of the project share a number (uq_content_version).
UniqueVersionNo ==
    \A v, w \in versions : v.no = w.no => v = w

IInv ==
    /\ TypeOK
    /\ UniqueVersionNo
    /\ HeadIsNewest
    /\ LineageRooted
    /\ LoadedInv

\* The greatest of the numbers 1 .. n is n.
LEMMA MaxOfPrefix ==
    ASSUME NEW n \in Nat \ {0}
    PROVE  Max(1 .. n) = n
<1>1. /\ n \in 1 .. n
      /\ \A y \in 1 .. n : n >= y
  OBVIOUS
<1>2. \A x \in 1 .. n : (\A y \in 1 .. n : x >= y) => x = n
  OBVIOUS
<1>. QED  BY <1>1, <1>2 DEF Max

\* The number the next accepted version gets is one above the pointer.
LEMMA NextNumber ==
    TypeOK /\ HeadIsNewest => MaxVersionNo = head
BY MaxOfPrefix DEF TypeOK, HeadIsNewest, MaxVersionNo

LEMMA InitInv == Init => IInv
<1>. SUFFICES ASSUME Init PROVE IInv
  OBVIOUS
<1>. USE PatchesAssumption DEF Init, Root, Idle
<1>1. TypeOK
  BY DEF TypeOK, Version, PatchStatus, Step
<1>2. UniqueVersionNo
  BY DEF UniqueVersionNo
<1>3. HeadIsNewest
  BY DEF HeadIsNewest, VersionNos
<1>4. LineageRooted
  BY DEF LineageRooted
<1>5. LoadedInv
  BY DEF LoadedInv
<1>. QED  BY <1>1, <1>2, <1>3, <1>4, <1>5 DEF IInv


\* The invariant survives a step that keeps the versions and the pointer, keeps
\* every existing patch row in existence with its base, brings in only rows
\* with an existing base, and loads nothing but well-typed values.
LEMMA RowsKept ==
    ASSUME IInv, TypeOK',
           UNCHANGED <<versions, head>>,
           \A p \in Patches : patch[p].status # "absent" =>
               patch'[p].status # "absent" /\ patch'[p].base = patch[p].base,
           \A p \in Patches : patch'[p].status # "absent" =>
               patch'[p].base \in 1 .. head,
           \A q \in Reviewers : request'[q].step = "numbered" =>
               request'[q] = request[q] \/ request'[q].next = head + 1
    PROVE  IInv'
<1>1. UniqueVersionNo' /\ HeadIsNewest'
  BY DEF IInv, UniqueVersionNo, HeadIsNewest, VersionNos
<1>2. LineageRooted'
  BY DEF IInv, LineageRooted, LoadedInv
<1>3. ASSUME NEW q \in Reviewers, request'[q].step = "numbered"
      PROVE  /\ request'[q].next \in 2 .. (head' + 1)
             /\ patch'[request'[q].patch].base < request'[q].next
  <2>0. /\ head \in Nat \ {0}
        /\ request'[q].patch \in Patches
        /\ patch'[request'[q].patch].status # "absent"
    BY <1>3 DEF TypeOK
  <2>1. CASE request'[q] = request[q]
    <3>1. /\ request[q].step = "numbered"
          /\ request[q].patch \in Patches
          /\ patch[request[q].patch].status # "absent"
      BY <1>3, <2>1 DEF IInv, TypeOK
    <3>. QED  BY <2>1, <3>1 DEF IInv, LoadedInv
  <2>2. CASE request'[q].next = head + 1
    BY <2>0, <2>2
  <2>. QED  BY <1>3, <2>1, <2>2
<1>4. LoadedInv'
  BY <1>3 DEF IInv, LoadedInv, LineageRooted
<1>. QED  BY <1>1, <1>2, <1>4 DEF IInv

LEMMA CreateStep ==
    ASSUME IInv, NEW p \in Patches, CreatePatch(p)
    PROVE  IInv'
<1>1. PICK b \in VersionNos :
         patch' = [patch EXCEPT ![p] = [status |-> "presented", base |-> b]]
  BY DEF CreatePatch
<1>2. b \in 1 .. head
  BY DEF IInv, HeadIsNewest
<1>3. TypeOK'
  BY <1>1, <1>2 DEF IInv, TypeOK, CreatePatch, PatchStatus
<1>. QED
  BY <1>1, <1>2, <1>3, RowsKept DEF IInv, TypeOK, CreatePatch, LoadedInv

\* A thread loads values of the right types and nothing is written.
LEMMA HoldStep ==
    ASSUME IInv, NEW q \in Reviewers, NEW st \in Step, NEW p \in Patches,
           NEW x \in Nat, NEW n \in Nat, Hold(q, st, p, x, n),
           patch[p].status # "absent",
           st = "numbered" => n = head + 1,
           UNCHANGED <<versions, head, patch>>
    PROVE  IInv'
<1>. DEFINE new == [step |-> st, patch |-> p, expected |-> x, next |-> n]
<1>1. request' = [request EXCEPT ![q] = new]
  BY DEF Hold
<1>2. TypeOK'
  BY <1>1 DEF IInv, TypeOK
<1>3. \A r \in Reviewers : request'[r].step = "numbered" =>
         request'[r] = request[r] \/ request'[r].next = head + 1
  BY <1>1 DEF IInv, TypeOK
<1>. QED  BY <1>2, <1>3, RowsKept DEF IInv, LoadedInv

LEMMA LoadStep ==
    ASSUME IInv, NEW q \in Reviewers,
           \/ \E p \in Patches : AcceptLoad(q, p) \/ RejectLoad(q, p)
           \/ AcceptCheck(q) \/ AcceptNumber(q)
    PROVE  IInv'
<1>1. VersionNos \subseteq Nat /\ MaxVersionNo = head /\ head + 1 \in Nat
  BY NextNumber DEF IInv, HeadIsNewest, TypeOK
<1>2. ASSUME NEW p \in Patches, AcceptLoad(q, p)
      PROVE  IInv'
  <2>1. \A x \in VersionNos \union {0} : x \in Nat
    BY <1>1
  <2>. QED  BY <1>2, <2>1, HoldStep DEF AcceptLoad, Step
<1>3. ASSUME NEW p \in Patches, RejectLoad(q, p)
      PROVE  IInv'
  BY <1>3, HoldStep DEF RejectLoad, Step
<1>4. request[q].step # "idle" =>
         /\ request[q].patch \in Patches
         /\ request[q].expected \in Nat
         /\ patch[request[q].patch].status # "absent"
  BY DEF IInv, TypeOK
<1>5. CASE AcceptCheck(q)
  BY <1>4, <1>5, HoldStep DEF AcceptCheck, Step
<1>6. CASE AcceptNumber(q)
  BY <1>1, <1>4, <1>6, HoldStep DEF AcceptNumber, Step
<1>. QED  BY <1>2, <1>3, <1>5, <1>6

\* A request ends without writing anything.
LEMMA EndStep ==
    ASSUME IInv, NEW q \in Reviewers, AcceptDuplicate(q) \/ Abandon(q)
    PROVE  IInv'
<1>1. UNCHANGED <<versions, head, patch>> /\ Done(q)
  BY DEF AcceptDuplicate, Abandon
<1>2. TypeOK'
  BY <1>1 DEF IInv, TypeOK, Step, Done, Idle
<1>3. \A r \in Reviewers : request'[r].step = "numbered" =>
         request'[r] = request[r]
  BY <1>1 DEF IInv, TypeOK, Done, Idle
<1>. QED  BY <1>1, <1>2, <1>3, RowsKept DEF IInv, LoadedInv

\* A patch is declined: its status changes, its base does not.
LEMMA DeclineStep ==
    ASSUME IInv, NEW q \in Reviewers, AcceptConflict(q) \/ RejectCommit(q)
    PROVE  IInv'
<1>1. PICK st \in {"conflicted", "rejected"} :
         patch' = [patch EXCEPT ![request[q].patch].status = st]
  BY DEF AcceptConflict, RejectCommit
<1>2. /\ request' = [request EXCEPT ![q] = Idle]
      /\ UNCHANGED <<versions, head>>
      /\ request[q].step # "idle"
  BY DEF AcceptConflict, RejectCommit, Done
<1>3. request[q].patch \in Patches /\ patch[request[q].patch].status # "absent"
  BY <1>2 DEF IInv, TypeOK
<1>4. \A p \in Patches : /\ patch'[p].base = patch[p].base
                         /\ patch'[p].status = "absent"
                              <=> patch[p].status = "absent"
  BY <1>1, <1>3 DEF IInv, TypeOK
<1>5. TypeOK'
  <2>1. patch' \in [Patches -> [status : PatchStatus, base : Nat]]
    BY <1>1 DEF IInv, TypeOK, PatchStatus
  <2>2. request' \in [Reviewers -> [step : Step,
                                    patch : Patches \union {NoPatch},
                                    expected : Nat, next : Nat]]
    BY <1>2 DEF IInv, TypeOK, Step, Idle
  <2>3. ASSUME NEW r \in Reviewers, request'[r].step # "idle"
        PROVE  /\ request'[r].patch \in Patches
               /\ patch'[request'[r].patch].status # "absent"
    BY <1>2, <1>4, <2>3 DEF IInv, TypeOK, Idle
  <2>. QED  BY <1>2, <2>1, <2>2, <2>3 DEF IInv, TypeOK
<1>6. \A r \in Reviewers : request'[r].step = "numbered" =>
         request'[r] = request[r]
  BY <1>2 DEF IInv, TypeOK, Idle
<1>. QED  BY <1>2, <1>4, <1>5, <1>6, RowsKept DEF IInv, LoadedInv

\* The accepting commit: the number it was computed from is either free, and
\* then it is the next one, or taken, and then the constraint refuses it.
LEMMA CommitStep ==
    ASSUME IInv, NEW q \in Reviewers, AcceptCommit(q)
    PROVE  IInv'
<1>. DEFINE p == request[q].patch
            n == request[q].next
            row == [no |-> n, parent |-> patch[p].base, patch |-> p]
<1>. USE DEF AcceptCommit, Done, Idle, NewVersion
<1>1. /\ p \in Patches /\ patch[p].status # "absent"
      /\ patch[p].base \in 1 .. head /\ patch[p].base < n
      /\ head \in Nat \ {0}
  BY DEF IInv, TypeOK, LoadedInv
<1>2. n = head + 1
  BY <1>1 DEF IInv, LoadedInv, HeadIsNewest, FreeVersionNo
<1>3. versions' = versions \union {row} /\ head' = n
  OBVIOUS
<1>4. \A r \in Patches : /\ patch'[r].base = patch[r].base
                         /\ patch'[r].status = "absent"
                              <=> patch[r].status = "absent"
  BY <1>1 DEF IInv, TypeOK
<1>5. TypeOK'
  <2>1. row \in Version
    BY <1>1, <1>2 DEF Version
  <2>. HIDE DEF row
  <2>2. versions' \subseteq Version /\ head' \in Nat \ {0}
    BY <1>1, <1>2, <1>3, <2>1 DEF IInv, TypeOK
  <2>3. patch' \in [Patches -> [status : PatchStatus, base : Nat]]
    BY DEF IInv, TypeOK, PatchStatus
  <2>4. request' \in [Reviewers -> [step : Step,
                                    patch : Patches \union {NoPatch},
                                    expected : Nat, next : Nat]]
    BY DEF IInv, TypeOK, Step
  <2>5. ASSUME NEW r \in Reviewers, request'[r].step # "idle"
        PROVE  /\ request'[r].patch \in Patches
               /\ patch'[request'[r].patch].status # "absent"
    BY <1>4, <2>5 DEF IInv, TypeOK
  <2>. QED  BY <2>2, <2>3, <2>4, <2>5 DEF TypeOK
<1>6. UniqueVersionNo'
  BY <1>3 DEF IInv, UniqueVersionNo, FreeVersionNo, VersionNos
<1>7. HeadIsNewest'
  <2>1. VersionNos' = VersionNos \union {n}
    <3>1. row.no = n
      OBVIOUS
    <3>. HIDE DEF row
    <3>. QED  BY <1>3, <3>1 DEF VersionNos
  <2>. QED  BY <1>1, <1>2, <1>3, <2>1 DEF IInv, HeadIsNewest
<1>8. LineageRooted'
  <2>. SUFFICES ASSUME NEW v \in versions', v # Root
                PROVE  /\ v.parent \in 1 .. (v.no - 1)
                       /\ v.patch \in Patches
                       /\ patch'[v.patch].base = v.parent
    BY DEF LineageRooted, Root
  <2>1. CASE v \in versions
    BY <1>4, <2>1 DEF IInv, LineageRooted
  <2>2. CASE v = row
    BY <1>1, <1>2, <1>4, <2>2
  <2>. QED  BY <1>3, <2>1, <2>2
<1>9. LoadedInv'
  <2>1. \A r \in Patches :
           patch'[r].status # "absent" => patch'[r].base \in 1 .. head'
    BY <1>1, <1>2, <1>3, <1>4 DEF IInv, LoadedInv
  <2>2. \A v \in versions' : v # Root => patch'[v.patch].status # "absent"
    BY <1>1, <1>3, <1>4 DEF IInv, LoadedInv, LineageRooted
  <2>3. ASSUME NEW r \in Reviewers, request'[r].step = "numbered"
        PROVE  /\ request'[r].next \in 2 .. (head' + 1)
               /\ patch'[request'[r].patch].base < request'[r].next
    <3>1. request'[r] = request[r]
      BY <2>3 DEF IInv, TypeOK
    <3>2. request[r].patch \in Patches
      BY <2>3, <3>1 DEF IInv, TypeOK
    <3>. QED  BY <1>1, <1>2, <1>3, <1>4, <2>3, <3>1, <3>2 DEF IInv, LoadedInv
  <2>. QED  BY <2>1, <2>2, <2>3 DEF LoadedInv, Root
<1>. QED  BY <1>5, <1>6, <1>7, <1>8, <1>9 DEF IInv

LEMMA StutterStep == IInv /\ UNCHANGED vars => IInv'
BY DEF vars, IInv, TypeOK, UniqueVersionNo, HeadIsNewest, VersionNos,
       LineageRooted, LoadedInv

LEMMA Induction == IInv /\ [Next]_vars => IInv'
<1>1. CASE Next
  BY <1>1, CreateStep, LoadStep, EndStep, DeclineStep, CommitStep DEF Next
<1>2. CASE UNCHANGED vars
  BY <1>2, StutterStep
<1>. QED  BY <1>1, <1>2

\* The invariant of the proofs: everything below is one of its conjuncts.
THEOREM Invariance == Spec => []IInv
BY InitInv, Induction, PTL DEF Spec

\* Rows and loaded values keep their types in every interleaving.
THEOREM TypeCorrect == Spec => []TypeOK
<1>1. IInv => TypeOK
  BY DEF IInv
<1>. QED  BY <1>1, Invariance, PTL

\* The canonical pointer is always the newest version and no number below it
\* is missing, however many accepts overlap.
THEOREM PointerIsNewest == Spec => []HeadIsNewest
<1>1. IInv => HeadIsNewest
  BY DEF IInv
<1>. QED  BY <1>1, Invariance, PTL

\* Every version descends from version 1 through the bases of accepted patches.
THEOREM LineageIsRooted == Spec => []LineageRooted
<1>1. IInv => LineageRooted
  BY DEF IInv
<1>. QED  BY <1>1, Invariance, PTL
-----------------------------------------------------------------------------
(* Every accepted patch has a version *)

\* Versions stay, and a patch that is accepted was accepted before, with the
\* same base, or has just got its version.
LEMMA ReplayKept ==
    ASSUME ReplayFindsOwnVersion, versions \subseteq versions',
           \A p \in Patches : patch'[p].status = "accepted" =>
              \/ patch[p].status = "accepted" /\ patch'[p].base = patch[p].base
              \/ \E v \in versions' : v.parent = patch'[p].base /\ v.patch = p
    PROVE  ReplayFindsOwnVersion'
BY DEF ReplayFindsOwnVersion, ReplayCandidates

LEMMA ReplayStep ==
    ASSUME IInv, ReplayFindsOwnVersion, [Next]_vars
    PROVE  ReplayFindsOwnVersion'
<1>1. patch \in [Patches -> [status : PatchStatus, base : Nat]]
  BY DEF IInv, TypeOK
<1>2. ASSUME UNCHANGED <<versions, patch>>
      PROVE  ReplayFindsOwnVersion'
  BY <1>2 DEF ReplayFindsOwnVersion, ReplayCandidates
<1>3. ASSUME NEW p \in Patches, CreatePatch(p)
      PROVE  ReplayFindsOwnVersion'
  <2>1. PICK b \in VersionNos :
           patch' = [patch EXCEPT ![p] = [status |-> "presented", base |-> b]]
    BY <1>3 DEF CreatePatch
  <2>2. versions' = versions
    BY <1>3 DEF CreatePatch
  <2>. QED  BY <1>1, <2>1, <2>2, ReplayKept
<1>4. ASSUME NEW q \in Reviewers, AcceptConflict(q) \/ RejectCommit(q)
      PROVE  ReplayFindsOwnVersion'
  <2>1. PICK st \in {"conflicted", "rejected"} :
           patch' = [patch EXCEPT ![request[q].patch].status = st]
    BY <1>4 DEF AcceptConflict, RejectCommit
  <2>2. versions' = versions
    BY <1>4 DEF AcceptConflict, RejectCommit
  <2>3. request[q].patch \in Patches
    BY <1>4 DEF IInv, TypeOK, AcceptConflict, RejectCommit
  <2>4. \A p \in Patches : patch'[p].status = "accepted" =>
           patch[p].status = "accepted" /\ patch'[p].base = patch[p].base
    BY <1>1, <2>1, <2>3
  <2>. QED  BY <2>2, <2>4, ReplayKept
<1>5. ASSUME NEW q \in Reviewers, AcceptCommit(q)
      PROVE  ReplayFindsOwnVersion'
  <2>1. PICK p \in Patches : p = request[q].patch
    BY <1>5 DEF IInv, TypeOK, AcceptCommit
  <2>2. patch' = [patch EXCEPT ![p].status = "accepted"]
    BY <1>5, <2>1 DEF AcceptCommit
  <2>3. PICK row : /\ versions' = versions \union {row}
                   /\ row.parent = patch[p].base /\ row.patch = p
    <3>1. /\ NewVersion(q, request[q].next).parent = patch[p].base
          /\ NewVersion(q, request[q].next).patch = p
      BY <2>1 DEF NewVersion
    <3>2. versions' = versions \union {NewVersion(q, request[q].next)}
      BY <1>5 DEF AcceptCommit
    <3>. QED  BY <3>1, <3>2
  <2>4. \A r \in Patches : /\ patch'[r].base = patch[r].base
                           /\ r # p => patch'[r].status = patch[r].status
    BY <1>1, <2>2
  <2>. QED  BY <2>3, <2>4, ReplayKept
<1>. QED
  BY <1>2, <1>3, <1>4, <1>5
  DEF Next, vars, AcceptLoad, RejectLoad, AcceptCheck, AcceptNumber, AcceptDuplicate, Abandon

\* However many reviewers decide at once, the version that accepting a patch
\* has made is among those its replay selects, for good: the INTERNAL_ERROR
\* branch of accept_patch is never taken.
THEOREM ReplayIsAnswered == Spec => []ReplayFindsOwnVersion
<1>1. Init => ReplayFindsOwnVersion
  BY DEF Init, ReplayFindsOwnVersion
<1>. QED  BY <1>1, ReplayStep, Invariance, PTL DEF Spec

-----------------------------------------------------------------------------
(* The rows of the versions are a history that only grows *)

CountInv == IsFiniteSet(versions) /\ Cardinality(versions) = head

HistoryInv == IInv /\ CountInv

\* What an accepting commit writes, whatever other threads have committed since
\* its reads: the constraint lets nothing but the next number through.
LEMMA CommitWrites ==
    ASSUME IInv, NEW q \in Reviewers, AcceptCommit(q)
    PROVE  \E p \in Patches :
              /\ p = request[q].patch
              /\ patch[p].status # "absent" /\ patch[p].base \in 1 .. head
              /\ patch' = [patch EXCEPT ![p].status = "accepted"]
              /\ head' = head + 1
              /\ \E row : /\ row.no = head + 1 /\ row.patch = p
                          /\ versions' = versions \union {row}
<1>1. /\ request[q].step = "numbered" /\ FreeVersionNo(request[q].next)
      /\ versions' = versions \union {NewVersion(q, request[q].next)}
      /\ head' = request[q].next
      /\ patch' = [patch EXCEPT ![request[q].patch].status = "accepted"]
  BY DEF AcceptCommit
<1>2. PICK p \in Patches : p = request[q].patch
  BY <1>1 DEF IInv, TypeOK
<1>3. patch[p].status # "absent" /\ patch[p].base \in 1 .. head
  BY <1>1, <1>2 DEF IInv, TypeOK, LoadedInv
<1>4. request[q].next = head + 1
  BY <1>1 DEF IInv, TypeOK, LoadedInv, HeadIsNewest, FreeVersionNo
<1>5. PICK row : row = NewVersion(q, request[q].next)
  OBVIOUS
<1>6. row.no = head + 1 /\ row.patch = p
  BY <1>2, <1>4, <1>5 DEF NewVersion
<1>. QED  BY <1>1, <1>2, <1>3, <1>4, <1>5, <1>6

LEMMA CountStep ==
    ASSUME HistoryInv, [Next]_vars
    PROVE  CountInv'
<1>1. CASE \E q \in Reviewers : AcceptCommit(q)
  <2>1. PICK row : /\ row.no = head + 1 /\ head' = head + 1
                   /\ versions' = versions \union {row}
    BY <1>1, CommitWrites DEF HistoryInv
  <2>2. row \notin versions
    <3>1. head + 1 \notin VersionNos
      BY DEF HistoryInv, IInv, TypeOK, HeadIsNewest
    <3>2. \A v \in versions : v.no \in VersionNos
      BY DEF VersionNos
    <3>. QED  BY <2>1, <3>1, <3>2
  <2>3. IsFiniteSet(versions') /\ Cardinality(versions') = Cardinality(versions) + 1
    BY <2>1, <2>2, FS_AddElement DEF HistoryInv, CountInv
  <2>. QED  BY <2>1, <2>3 DEF HistoryInv, CountInv
<1>2. CASE ~(\E q \in Reviewers : AcceptCommit(q))
  <2>1. UNCHANGED <<versions, head>>
    BY <1>2 DEF Next, vars, CreatePatch, AcceptLoad, RejectLoad, AcceptCheck, AcceptConflict,
           AcceptNumber, AcceptDuplicate, RejectCommit, Abandon
  <2>. QED  BY <2>1 DEF HistoryInv, CountInv
<1>. QED  BY <1>1, <1>2

LEMMA HistoryInvariance == Spec => []HistoryInv
<1>1. Init => CountInv
  <2>1. Cardinality({Root}) = 1 /\ IsFiniteSet({Root})
    BY FS_Singleton
  <2>. QED  BY <2>1 DEF Init, CountInv
<1>2. IInv /\ CountInv /\ [Next]_vars => CountInv'
  BY CountStep DEF HistoryInv
<1>3. IInv /\ CountInv => HistoryInv
  BY DEF HistoryInv
<1>. QED  BY <1>1, <1>2, <1>3, Invariance, PTL DEF Spec

History == [n \in 1 .. Cardinality(versions) - 1 |-> VersionNumbered(n + 1).patch]

\* The version with a number.
LEMMA TheVersion ==
    ASSUME IInv, NEW v \in versions
    PROVE  VersionNumbered(v.no) = v
BY DEF VersionNumbered, IInv, UniqueVersionNo

LEMMA HistoryIs ==
    ASSUME HistoryInv
    PROVE  /\ History \in Seq(Patches)
           /\ Len(History) = head - 1
           /\ head \in Nat \ {0}
           /\ \A n \in 1 .. head - 1 : History[n] = VersionNumbered(n + 1).patch
<1>1. Cardinality(versions) = head /\ head \in Nat \ {0}
  BY DEF HistoryInv, CountInv, IInv, TypeOK
<1>2. ASSUME NEW n \in 1 .. head - 1
      PROVE  VersionNumbered(n + 1).patch \in Patches
  <2>1. n + 1 \in VersionNos /\ n + 1 # 1
    BY <1>1 DEF HistoryInv, IInv, HeadIsNewest
  <2>2. PICK v \in versions : v.no = n + 1
    BY <2>1 DEF VersionNos
  <2>3. v # Root
    BY <2>1, <2>2 DEF Root
  <2>. QED  BY <2>2, <2>3, TheVersion DEF HistoryInv, IInv, LineageRooted
<1>3. History = [n \in 1 .. head - 1 |-> VersionNumbered(n + 1).patch]
  BY <1>1 DEF History
<1>4. History \in [1 .. head - 1 -> Patches]
  BY <1>2, <1>3
<1>5. head - 1 \in Nat
  BY <1>1
<1>6. History \in Seq(Patches) /\ Len(History) = head - 1
  BY <1>4, <1>5
<1>. QED  BY <1>1, <1>3, <1>6

\* The accepting commit appends its patch.
LEMMA HistoryGrows ==
    ASSUME HistoryInv, HistoryInv', NEW p \in Patches, head' = head + 1, NEW row,
           row.no = head + 1, row.patch = p, versions' = versions \union {row}
    PROVE  History' = Append(History, p)
<1>1. /\ History \in Seq(Patches) /\ Len(History) = head - 1 /\ head \in Nat \ {0}
      /\ \A n \in 1 .. head - 1 : History[n] = VersionNumbered(n + 1).patch
  BY HistoryIs
<1>2. \A v \in versions' : VersionNumbered(v.no)' = v
  BY DEF VersionNumbered, HistoryInv, IInv, UniqueVersionNo
<1>3. History' = [n \in 1 .. head |-> VersionNumbered(n + 1)'.patch]
  <2>1. Cardinality(versions') = head'
    BY DEF HistoryInv, CountInv
  <2>2. Cardinality(versions') - 1 = head
    BY <1>1, <2>1
  <2>. QED  BY <2>2 DEF History
<1>4. ASSUME NEW n, n = head
      PROVE  VersionNumbered(n + 1)' = row
  <2>1. row \in versions' /\ row.no = n + 1
    BY <1>4
  <2>. QED  BY <1>2, <2>1
<1>5. ASSUME NEW n \in 1 .. head - 1
      PROVE  VersionNumbered(n + 1)' = VersionNumbered(n + 1)
  <2>1. n + 1 \in VersionNos
    BY <1>1 DEF HistoryInv, IInv, HeadIsNewest
  <2>2. PICK v \in versions : v.no = n + 1
    BY <2>1 DEF VersionNos
  <2>3. VersionNumbered(n + 1) = v
    BY <2>2, TheVersion DEF HistoryInv
  <2>4. VersionNumbered(n + 1)' = v
    BY <1>2, <2>2
  <2>. QED  BY <2>3, <2>4
<1>6. \A n \in 1 .. head :
         VersionNumbered(n + 1)'.patch = IF n = head THEN p ELSE History[n]
  <2>. SUFFICES ASSUME NEW n \in 1 .. head
                PROVE  VersionNumbered(n + 1)'.patch = IF n = head THEN p ELSE History[n]
    OBVIOUS
  <2>1. CASE n = head
    BY <1>4, <2>1
  <2>2. CASE n # head
    <3>1. n \in 1 .. head - 1
      BY <1>1, <2>2
    <3>. QED  BY <1>1, <1>5, <2>2, <3>1
  <2>. QED  BY <2>1, <2>2
<1>7. Append(History, p) =
         [n \in 1 .. head |-> IF n = head THEN p ELSE History[n]]
  <2>. DEFINE grown == Append(History, p)
  <2>1. Len(History) + 1 = head
    BY <1>1
  <2>2. /\ grown \in Seq(Patches) /\ Len(grown) = head
        /\ \A n \in 1 .. head - 1 : grown[n] = History[n]
        /\ grown[head] = p
    BY <1>1, <2>1, AppendProperties
  <2>. HIDE DEF grown
  <2>3. grown = [n \in 1 .. head |-> grown[n]]
    BY <2>2
  <2>4. \A n \in 1 .. head : n # head => n \in 1 .. head - 1
    BY <1>1
  <2>5. \A n \in 1 .. head : grown[n] = IF n = head THEN p ELSE History[n]
    BY <2>2, <2>4
  <2>6. grown = [n \in 1 .. head |-> IF n = head THEN p ELSE History[n]]
    BY <2>3, <2>5
  <2>. QED  BY <2>6 DEF grown
<1>. QED  BY <1>3, <1>6, <1>7

\* What the rows say of every patch.
Verdict == [p \in Patches |->
                CASE patch[p].status = "absent"    -> "unknown"
                  [] patch[p].status = "presented" -> "open"
                  [] OTHER                         -> patch[p].status]

BasedOn == [p \in Patches |->
                IF patch[p].status = "absent" THEN 0 ELSE patch[p].base - 1]

LEMMA AbstractInit ==
    ASSUME Init, HistoryInv
    PROVE  Canonical!CanonicalInit
<1>1. patch = [p \in Patches |-> [status |-> "absent", base |-> 0]] /\ head = 1
  BY DEF Init
<1>2. History \in Seq(Patches) /\ Len(History) = 0
  BY <1>1, HistoryIs
<1>3. History = <<>>
  BY <1>2, EmptySeq
<1>4. Verdict = [p \in Patches |-> "unknown"]
  BY <1>1 DEF Verdict
<1>5. BasedOn = [p \in Patches |-> 0]
  BY <1>1 DEF BasedOn
<1>. QED  BY <1>3, <1>4, <1>5 DEF Canonical!CanonicalInit, History, Verdict, BasedOn

\* A step that writes neither versions nor patches is a stutter.
LEMMA AbstractStutter ==
    ASSUME UNCHANGED <<versions, patch>>
    PROVE  UNCHANGED Canonical!canonicalVars
<1>1. History' = History
  BY DEF History, VersionNumbered
<1>2. Verdict' = Verdict /\ BasedOn' = BasedOn
  BY DEF Verdict, BasedOn
<1>. QED  BY <1>1, <1>2 DEF Canonical!canonicalVars, History, Verdict, BasedOn

LEMMA AbstractPropose ==
    ASSUME HistoryInv, NEW p \in Patches, CreatePatch(p)
    PROVE  Canonical!Propose(p)
<1>1. PICK b \in VersionNos :
         patch' = [patch EXCEPT ![p] = [status |-> "presented", base |-> b]]
  BY DEF CreatePatch
<1>2. /\ patch \in [Patches -> [status : PatchStatus, base : Nat]]
      /\ patch[p].status = "absent" /\ versions' = versions
  BY DEF HistoryInv, IInv, TypeOK, CreatePatch
<1>3. b \in 1 .. head /\ head \in Nat \ {0} /\ Len(History) = head - 1
  BY HistoryIs DEF HistoryInv, IInv, HeadIsNewest
<1>4. b - 1 \in 0 .. Len(History)
  BY <1>3
<1>5. Verdict[p] = "unknown" /\ Verdict' = [Verdict EXCEPT ![p] = "open"]
  BY <1>1, <1>2 DEF Verdict
<1>6. BasedOn' = [BasedOn EXCEPT ![p] = b - 1]
  BY <1>1, <1>2 DEF BasedOn
<1>7. History' = History
  BY <1>2 DEF History, VersionNumbered
<1>. QED  BY <1>4, <1>5, <1>6, <1>7 DEF Canonical!Propose, History, Verdict, BasedOn

\* The patch of a declining request was written once, whatever its status.
LEMMA Declines ==
    ASSUME IInv, NEW q \in Reviewers, AcceptConflict(q) \/ RejectCommit(q)
    PROVE  \E p \in Patches, st \in {"conflicted", "rejected"} :
              /\ p = request[q].patch /\ patch[p].status # "absent"
              /\ Verdict' = [Verdict EXCEPT ![p] = st]
              /\ BasedOn' = BasedOn /\ History' = History
<1>1. PICK st \in {"conflicted", "rejected"} :
         patch' = [patch EXCEPT ![request[q].patch].status = st]
  BY DEF AcceptConflict, RejectCommit
<1>2. versions' = versions /\ request[q].step # "idle"
  BY DEF AcceptConflict, RejectCommit
<1>3. PICK p \in Patches : p = request[q].patch
  BY <1>2 DEF IInv, TypeOK
<1>4. /\ patch \in [Patches -> [status : PatchStatus, base : Nat]]
      /\ patch[p].status # "absent"
      /\ patch' = [patch EXCEPT ![p].status = st]
  BY <1>1, <1>2, <1>3 DEF IInv, TypeOK
<1>5. Verdict' = [Verdict EXCEPT ![p] = st]
  BY <1>4 DEF Verdict
<1>6. BasedOn' = BasedOn
  BY <1>4 DEF BasedOn
<1>7. History' = History
  BY <1>2 DEF History, VersionNumbered
<1>. QED  BY <1>3, <1>4, <1>5, <1>6, <1>7

\* What an accepting commit does to the abstract history.
LEMMA Accepts ==
    ASSUME HistoryInv, HistoryInv', NEW q \in Reviewers, AcceptCommit(q)
    PROVE  \E p \in Patches :
              /\ p = request[q].patch /\ patch[p].status # "absent"
              /\ History' = Append(History, p)
              /\ Verdict' = [Verdict EXCEPT ![p] = "accepted"]
              /\ BasedOn' = BasedOn /\ BasedOn[p] <= Len(History)
<1>1. PICK p \in Patches :
         /\ p = request[q].patch
         /\ patch[p].status # "absent" /\ patch[p].base \in 1 .. head
         /\ patch' = [patch EXCEPT ![p].status = "accepted"]
         /\ head' = head + 1
         /\ \E row : /\ row.no = head + 1 /\ row.patch = p
                     /\ versions' = versions \union {row}
  BY CommitWrites DEF HistoryInv
<1>2. patch \in [Patches -> [status : PatchStatus, base : Nat]]
  BY DEF HistoryInv, IInv, TypeOK
<1>3. Len(History) = head - 1 /\ head \in Nat \ {0}
  BY HistoryIs
<1>4. History' = Append(History, p)
  BY <1>1, HistoryGrows
<1>5. Verdict' = [Verdict EXCEPT ![p] = "accepted"]
  BY <1>1, <1>2 DEF Verdict
<1>6. BasedOn' = BasedOn
  BY <1>1, <1>2 DEF BasedOn
<1>7. BasedOn[p] <= Len(History)
  <2>1. BasedOn[p] = patch[p].base - 1
    BY <1>1 DEF BasedOn
  <2>2. patch[p].base - 1 <= head - 1
    BY <1>1, <1>3
  <2>. QED  BY <1>3, <2>1, <2>2
<1>. QED  BY <1>1, <1>4, <1>5, <1>6, <1>7

-----------------------------------------------------------------------------
(* Overlapping decisions implement the append-only history *)

\* A row that exists has a verdict other than unknown.
LEMMA Known ==
    ASSUME IInv, NEW p \in Patches, patch[p].status # "absent"
    PROVE  Verdict[p] # "unknown"
BY DEF Verdict, IInv, TypeOK, PatchStatus

LEMMA LateStep ==
    ASSUME HistoryInv, HistoryInv', [Next]_vars
    PROVE  Canonical!AppendOnlyNext \/ UNCHANGED Canonical!canonicalVars
<1>1. CASE \E p \in Patches : CreatePatch(p)
  BY <1>1, AbstractPropose DEF Canonical!AppendOnlyNext
<1>2. ASSUME NEW q \in Reviewers, AcceptConflict(q) \/ RejectCommit(q)
      PROVE  Canonical!AppendOnlyNext
  <2>1. PICK p \in Patches, st \in {"conflicted", "rejected"} :
           /\ p = request[q].patch /\ patch[p].status # "absent"
           /\ Verdict' = [Verdict EXCEPT ![p] = st]
           /\ BasedOn' = BasedOn /\ History' = History
    BY <1>2, Declines DEF HistoryInv
  <2>2. Verdict[p] # "unknown"
    BY <2>1, Known DEF HistoryInv
  <2>3. Canonical!DeclineLate(p)
    BY <2>1, <2>2 DEF Canonical!DeclineLate, History, Verdict, BasedOn
  <2>. QED  BY <2>3 DEF Canonical!AppendOnlyNext
<1>3. ASSUME NEW q \in Reviewers, AcceptCommit(q)
      PROVE  Canonical!AppendOnlyNext
  <2>1. PICK p \in Patches :
           /\ p = request[q].patch /\ patch[p].status # "absent"
           /\ History' = Append(History, p)
           /\ Verdict' = [Verdict EXCEPT ![p] = "accepted"]
           /\ BasedOn' = BasedOn /\ BasedOn[p] <= Len(History)
    BY <1>3, Accepts
  <2>2. Verdict[p] # "unknown"
    BY <2>1, Known DEF HistoryInv
  <2>3. Canonical!CommitLate(p)
    BY <2>1, <2>2 DEF Canonical!CommitLate, History, Verdict, BasedOn
  <2>. QED  BY <2>3 DEF Canonical!AppendOnlyNext
<1>4. CASE UNCHANGED <<versions, patch>>
  BY <1>4, AbstractStutter
<1>. QED
  BY <1>1, <1>2, <1>3, <1>4
  DEF Next, vars, AcceptLoad, RejectLoad, AcceptCheck, AcceptNumber, AcceptDuplicate, Abandon

\* Whatever the interleaving of create_patch, accept_patch and reject_patch, no
\* accepted version is lost or renumbered: the content is an append-only
\* history and no decided patch is open again.
THEOREM HistoryIsAppendOnly == Spec => ImplementsAppendOnlyHistory
<1>1. Init /\ HistoryInv => Canonical!CanonicalInit
  BY AbstractInit
<1>2. HistoryInv /\ HistoryInv' /\ [Next]_vars
         => [Canonical!AppendOnlyNext]_(Canonical!canonicalVars)
  BY LateStep
<1>. QED
  BY <1>1, <1>2, HistoryInvariance, PTL
  DEF Spec, ImplementsAppendOnlyHistory, Canonical!AppendOnlySpec

-----------------------------------------------------------------------------
(* One reviewer at a time implements the canonical history *)

OneReviewer == \A q, r \in Reviewers : q = r

\* A thread alone finds everything as it has read it.
AloneInv ==
    \A q \in Reviewers : request[q].step # "idle" =>
        /\ patch[request[q].patch].status = "presented"
        /\ request[q].step \in {"checked", "numbered"} =>
              patch[request[q].patch].base = head

OneInv == HistoryInv /\ AloneInv

\* The patch of a busy thread, and what ends a request.
LEMMA AloneStep ==
    ASSUME OneReviewer, OneInv, IInv', [Next]_vars
    PROVE  AloneInv'
<1>1. /\ patch \in [Patches -> [status : PatchStatus, base : Nat]]
      /\ request \in [Reviewers -> [step : Step, patch : Patches \union {NoPatch},
                                    expected : Nat, next : Nat]]
      /\ \A q \in Reviewers : request[q].step # "idle" => request[q].patch \in Patches
  BY DEF OneInv, HistoryInv, IInv, TypeOK
<1>2. ASSUME NEW q \in Reviewers, request' = [request EXCEPT ![q] = Idle]
      PROVE  AloneInv'
  <2>1. \A r \in Reviewers : request'[r].step = "idle"
    BY <1>1, <1>2 DEF OneReviewer, Idle
  <2>. QED  BY <2>1 DEF AloneInv
<1>3. ASSUME NEW q \in Reviewers, NEW st, NEW p, NEW x, NEW n,
             Hold(q, st, p, x, n), UNCHANGED <<head, patch>>,
             patch[p].status = "presented",
             st \in {"checked", "numbered"} => patch[p].base = head
      PROVE  AloneInv'
  <2>1. \A r \in Reviewers : request'[r].step = st /\ request'[r].patch = p
    BY <1>1, <1>3 DEF OneReviewer, Hold
  <2>. QED  BY <1>3, <2>1 DEF AloneInv
<1>4. ASSUME NEW p \in Patches, CreatePatch(p)
      PROVE  AloneInv'
  <2>1. /\ patch[p].status = "absent" /\ UNCHANGED <<head, request>>
        /\ \A r \in Patches : r # p => patch'[r] = patch[r]
    BY <1>1, <1>4 DEF CreatePatch
  <2>. QED  BY <1>1, <2>1 DEF OneInv, AloneInv
<1>5. ASSUME NEW q \in Reviewers, NEW p \in Patches, AcceptLoad(q, p)
      PROVE  AloneInv'
  BY <1>3, <1>5 DEF AcceptLoad
<1>6. ASSUME NEW q \in Reviewers, NEW p \in Patches, RejectLoad(q, p)
      PROVE  AloneInv'
  BY <1>3, <1>6 DEF RejectLoad
<1>7. ASSUME NEW q \in Reviewers, AcceptCheck(q)
      PROVE  AloneInv'
  <2>1. patch[request[q].patch].status = "presented" /\ UNCHANGED <<head, patch>>
    BY <1>7 DEF AcceptCheck, OneInv, AloneInv
  <2>2. CASE UpToDate(q)
    <3>1. Hold(q, "checked", request[q].patch, request[q].expected, 0)
      BY <1>7, <2>2 DEF AcceptCheck
    <3>. QED  BY <1>3, <2>1, <2>2, <3>1 DEF UpToDate
  <2>3. CASE ~UpToDate(q)
    <3>1. Hold(q, "stale", request[q].patch, 0, 0)
      BY <1>7, <2>3 DEF AcceptCheck
    <3>. QED  BY <1>3, <2>1, <3>1
  <2>. QED  BY <2>2, <2>3
<1>8. ASSUME NEW q \in Reviewers, AcceptNumber(q)
      PROVE  AloneInv'
  <2>1. /\ patch[request[q].patch].status = "presented"
        /\ patch[request[q].patch].base = head /\ UNCHANGED <<head, patch>>
    BY <1>8 DEF AcceptNumber, OneInv, AloneInv
  <2>. QED  BY <1>3, <1>8, <2>1 DEF AcceptNumber
<1>9. ASSUME NEW q \in Reviewers,
             \/ AcceptConflict(q) \/ AcceptCommit(q) \/ AcceptDuplicate(q)
             \/ RejectCommit(q) \/ Abandon(q)
      PROVE  AloneInv'
  BY <1>2, <1>9
  DEF AcceptConflict, AcceptCommit, AcceptDuplicate, RejectCommit, Abandon, Done
<1>10. CASE UNCHANGED vars
  BY <1>10 DEF vars, OneInv, AloneInv
<1>. QED  BY <1>4, <1>5, <1>6, <1>7, <1>8, <1>9, <1>10 DEF Next

LEMMA AloneInvariance == OneReviewer /\ Spec => []OneInv
<1>1. Init => AloneInv
  BY DEF Init, AloneInv, Idle
<1>2. HistoryInv /\ AloneInv => OneInv
  BY DEF OneInv
<1>3. HistoryInv => IInv
  BY DEF HistoryInv
<1>4. CASE OneReviewer
  <2>1. OneInv /\ IInv' /\ [Next]_vars => AloneInv'
    BY <1>4, AloneStep
  <2>. QED  BY <1>1, <1>2, <1>3, <2>1, HistoryInvariance, PTL DEF Spec
<1>. QED  BY <1>4

\* A lone thread gives every version a parent that no other version has.
LEMMA AloneParents ==
    ASSUME OneInv, NoSilentOverwrite, [Next]_vars
    PROVE  NoSilentOverwrite'
<1>1. ASSUME NEW q \in Reviewers, AcceptCommit(q)
      PROVE  NoSilentOverwrite'
  <2>1. PICK row : /\ versions' = versions \union {row}
                   /\ row.parent = patch[request[q].patch].base
    <3>1. NewVersion(q, request[q].next).parent = patch[request[q].patch].base
      BY DEF NewVersion
    <3>2. versions' = versions \union {NewVersion(q, request[q].next)}
      BY <1>1 DEF AcceptCommit
    <3>. QED  BY <3>1, <3>2
  <2>2. row.parent = head /\ head \in Nat \ {0}
    BY <1>1, <2>1 DEF AcceptCommit, OneInv, AloneInv, HistoryInv, IInv, TypeOK
  <2>3. ASSUME NEW v \in versions
        PROVE  v.parent # head
    <3>1. v.no \in 1 .. head
      BY DEF OneInv, HistoryInv, IInv, HeadIsNewest, VersionNos
    <3>2. CASE v = Root
      BY <2>2, <3>2 DEF Root
    <3>3. CASE v # Root
      <4>1. v.parent \in 1 .. (v.no - 1)
        BY <3>3 DEF OneInv, HistoryInv, IInv, LineageRooted
      <4>. QED  BY <2>2, <3>1, <4>1
    <3>. QED  BY <3>2, <3>3
  <2>. QED  BY <2>1, <2>2, <2>3 DEF NoSilentOverwrite
<1>2. ASSUME UNCHANGED versions
      PROVE  NoSilentOverwrite'
  BY <1>2 DEF NoSilentOverwrite
<1>. QED
  BY <1>1, <1>2
  DEF Next, vars, CreatePatch, AcceptLoad, RejectLoad, AcceptCheck, AcceptConflict, AcceptNumber,
      AcceptDuplicate, RejectCommit, Abandon

\* What is lost between racing accepts is lost to the race alone: when requests
\* are decided one at a time no version is superseded twice.
THEOREM InTurnNothingOverwritten == OneReviewer /\ Spec => []NoSilentOverwrite
<1>1. Init => NoSilentOverwrite
  BY DEF Init, NoSilentOverwrite
<1>2. OneInv /\ NoSilentOverwrite /\ [Next]_vars => NoSilentOverwrite'
  BY AloneParents
<1>. QED  BY <1>1, <1>2, AloneInvariance, PTL DEF Spec

\* When requests are decided one at a time, accepting a patch again answers
\* with the version the first accept made, and no other could be selected.
THEOREM InTurnReplayAnswersOwn == OneReviewer /\ Spec => []ReplayAnswersOwn
<1>1. NoSilentOverwrite /\ ReplayFindsOwnVersion => ReplayAnswersOwn
  BY DEF NoSilentOverwrite, ReplayFindsOwnVersion, ReplayAnswersOwn, ReplayCandidates
<1>. QED  BY <1>1, InTurnNothingOverwritten, ReplayIsAnswered, PTL

LEMMA AloneDeclines ==
    ASSUME OneInv, NEW q \in Reviewers, AcceptConflict(q) \/ RejectCommit(q)
    PROVE  \E p \in Patches : Canonical!Decline(p)
<1>1. PICK p \in Patches, st \in {"conflicted", "rejected"} :
         /\ p = request[q].patch
         /\ Verdict' = [Verdict EXCEPT ![p] = st]
         /\ BasedOn' = BasedOn /\ History' = History
  BY Declines DEF OneInv, HistoryInv
<1>2. patch[p].status = "presented"
  BY <1>1 DEF OneInv, AloneInv, AcceptConflict, RejectCommit
<1>3. Verdict[p] = "open"
  BY <1>2 DEF Verdict
<1>4. Canonical!Decline(p)
  BY <1>1, <1>3 DEF Canonical!Decline, History, Verdict, BasedOn
<1>. QED  BY <1>4

LEMMA AloneCommits ==
    ASSUME OneInv, HistoryInv', NEW q \in Reviewers, AcceptCommit(q)
    PROVE  \E p \in Patches : Canonical!Commit(p)
<1>1. PICK p \in Patches :
         /\ p = request[q].patch
         /\ History' = Append(History, p)
         /\ Verdict' = [Verdict EXCEPT ![p] = "accepted"]
         /\ BasedOn' = BasedOn
  BY Accepts DEF OneInv
<1>2. patch[p].status = "presented" /\ patch[p].base = head
  BY <1>1 DEF OneInv, AloneInv, AcceptCommit
<1>3. Len(History) = head - 1
  BY HistoryIs DEF OneInv
<1>4. Verdict[p] = "open" /\ BasedOn[p] = Len(History)
  BY <1>2, <1>3 DEF Verdict, BasedOn
<1>5. Canonical!Commit(p)
  BY <1>1, <1>4 DEF Canonical!Commit, History, Verdict, BasedOn
<1>. QED  BY <1>5

LEMMA AbstractStep ==
    ASSUME OneInv, HistoryInv', [Next]_vars
    PROVE  Canonical!CanonicalNext \/ UNCHANGED Canonical!canonicalVars
<1>1. CASE \E p \in Patches : CreatePatch(p)
  BY <1>1, AbstractPropose DEF OneInv, Canonical!CanonicalNext
<1>2. CASE \E q \in Reviewers : AcceptConflict(q) \/ RejectCommit(q)
  BY <1>2, AloneDeclines DEF Canonical!CanonicalNext
<1>3. CASE \E q \in Reviewers : AcceptCommit(q)
  BY <1>3, AloneCommits DEF Canonical!CanonicalNext
<1>4. CASE UNCHANGED <<versions, patch>>
  BY <1>4, AbstractStutter
<1>. QED
  BY <1>1, <1>2, <1>3, <1>4
  DEF Next, vars, AcceptLoad, RejectLoad, AcceptCheck, AcceptNumber, AcceptDuplicate, Abandon

\* Decisions one at a time (create_patch, accept_patch, reject_patch) make one
\* linear history, in which a patch comes after the version it was written for.
THEOREM DecisionsInTurnAreCanonical == OneReviewer /\ Spec => ImplementsCanonicalContent
<1>1. Init /\ OneInv => Canonical!CanonicalInit
  BY AbstractInit DEF OneInv
<1>2. OneInv /\ OneInv' /\ [Next]_vars => [Canonical!CanonicalNext]_(Canonical!canonicalVars)
  BY AbstractStep DEF OneInv
<1>. QED
  BY <1>1, <1>2, AloneInvariance, PTL
  DEF Spec, ImplementsCanonicalContent, Canonical!CanonicalSpec
=============================================================================
