------------------------- MODULE ContentBlocksProofs -------------------------
(***************************************************************************)
(* Proofs about ContentBlocks for any blocks, texts and sources, and for   *)
(* patches and histories of any length.                                    *)
(***************************************************************************)
EXTENDS ContentBlocks, SequenceTheorems, TLAPS

Distinct(blocks) ==
    \A i, j \in DOMAIN blocks : blocks[i].id = blocks[j].id => i = j

\* Inserting an element moves those from its place on one place up.
LEMMA InsertAtPlaces ==
    ASSUME NEW S, NEW s \in Seq(S), NEW e \in S, NEW i \in 1 .. Len(s) + 1
    PROVE  /\ InsertAt(s, i, e) \in Seq(S)
           /\ Len(InsertAt(s, i, e)) = Len(s) + 1
           /\ \A j \in 1 .. Len(s) + 1 : InsertAt(s, i, e)[j] =
                 IF j < i THEN s[j] ELSE IF j = i THEN e ELSE s[j - 1]
<1>1. /\ SubSeq(s, 1, i - 1) \in Seq(S)
      /\ Len(SubSeq(s, 1, i - 1)) = i - 1
      /\ \A j \in 1 .. i - 1 : SubSeq(s, 1, i - 1)[j] = s[j]
  OBVIOUS
<1>2. /\ SubSeq(s, i, Len(s)) \in Seq(S)
      /\ Len(SubSeq(s, i, Len(s))) = Len(s) + 1 - i
      /\ \A j \in 1 .. Len(s) + 1 - i : SubSeq(s, i, Len(s))[j] = s[i + j - 1]
  OBVIOUS
<1>. DEFINE a == SubSeq(s, 1, i - 1)
            b == SubSeq(s, i, Len(s))
<1>3. InsertAt(s, i, e) = (a \o <<e>>) \o b
  BY DEF InsertAt
<1>. HIDE DEF a, b
<1>4. /\ a \in Seq(S) /\ Len(a) = i - 1 /\ \A j \in 1 .. i - 1 : a[j] = s[j]
      /\ b \in Seq(S) /\ Len(b) = Len(s) + 1 - i
      /\ \A j \in 1 .. Len(s) + 1 - i : b[j] = s[i + j - 1]
  BY <1>1, <1>2 DEF a, b
<1>. DEFINE c == Append(a, e)
<1>5. c \in Seq(S) /\ Len(c) = i /\ c[i] = e /\ \A j \in 1 .. i - 1 : c[j] = s[j]
  <2>1. /\ c \in Seq(S) /\ Len(c) = Len(a) + 1 /\ c[Len(a) + 1] = e
        /\ \A j \in 1 .. Len(a) : c[j] = a[j]
    BY <1>4, AppendProperties
  <2>. HIDE DEF c
  <2>2. Len(a) = i - 1 /\ Len(a) + 1 = i
    BY <1>4
  <2>. QED  BY <1>4, <2>1, <2>2
<1>. HIDE DEF c
<1>6. /\ c \o b \in Seq(S)
      /\ Len(c \o b) = Len(c) + Len(b)
      /\ \A j \in 1 .. Len(c) + Len(b) :
            (c \o b)[j] = IF j <= Len(c) THEN c[j] ELSE b[j - Len(c)]
  <2>1. c \in Seq(S) /\ b \in Seq(S)
    BY <1>4, <1>5
  <2>. QED  BY <2>1, ConcatProperties
<1>7. ASSUME NEW j \in 1 .. Len(s) + 1
      PROVE  (c \o b)[j] =
                IF j < i THEN s[j] ELSE IF j = i THEN e ELSE s[j - 1]
  <2>1. CASE j <= i
    <3>1. j <= Len(c) /\ j \in 1 .. Len(c) + Len(b)
      BY <2>1, <1>4, <1>5
    <3>2. (c \o b)[j] = c[j]
      BY <3>1, <1>6
    <3>3. CASE j < i
      <4>1. j \in 1 .. i - 1
        BY <3>3
      <4>. QED  BY <3>2, <3>3, <4>1, <1>5
    <3>4. CASE j = i
      BY <3>2, <3>4, <1>5
    <3>5. i \in Int /\ j \in Int
      OBVIOUS
    <3>6. j < i \/ j = i
      BY <2>1, <3>5
    <3>. QED  BY <3>3, <3>4, <3>6
  <2>2. CASE j > i
    <3>1. j - i \in 1 .. Len(s) + 1 - i
      BY <2>2
    <3>2. (c \o b)[j] = b[j - i]
      BY <2>2, <1>4, <1>5, <1>6
    <3>3. b[j - i] = s[i + (j - i) - 1]
      BY <3>1, <1>4
    <3>. QED  BY <2>2, <3>2, <3>3
  <2>3. j <= i \/ j > i
    OBVIOUS
  <2>. QED  BY <2>1, <2>2, <2>3
<1>8. Len(c \o b) = Len(s) + 1
  <2>1. Len(c) = i /\ Len(b) = Len(s) + 1 - i
    BY <1>4, <1>5
  <2>. QED  BY <2>1, <1>6
<1>9. InsertAt(s, i, e) = c \o b
  <2>1. c = a \o <<e>>
    BY <1>4, AppendIsConcat DEF c
  <2>. QED  BY <1>3, <2>1
<1>. QED  BY <1>6, <1>7, <1>8, <1>9

\* Removing an element moves those behind it one place down.
LEMMA RemoveAtPlaces ==
    ASSUME NEW S, NEW s \in Seq(S), NEW i \in 1 .. Len(s)
    PROVE  /\ RemoveAt(s, i) \in Seq(S)
           /\ Len(RemoveAt(s, i)) = Len(s) - 1
           /\ \A j \in 1 .. Len(s) - 1 : RemoveAt(s, i)[j] =
                 IF j < i THEN s[j] ELSE s[j + 1]
<1>. DEFINE a == SubSeq(s, 1, i - 1)
            b == SubSeq(s, i + 1, Len(s))
<1>1. /\ a \in Seq(S) /\ Len(a) = i - 1 /\ \A j \in 1 .. i - 1 : a[j] = s[j]
  OBVIOUS
<1>2. /\ b \in Seq(S) /\ Len(b) = Len(s) - i
      /\ \A j \in 1 .. Len(s) - i : b[j] = s[i + j]
  OBVIOUS
<1>3. RemoveAt(s, i) = a \o b
  BY DEF RemoveAt
<1>. HIDE DEF a, b
<1>4. /\ a \o b \in Seq(S)
      /\ Len(a \o b) = Len(a) + Len(b)
      /\ \A j \in 1 .. Len(a) + Len(b) :
            (a \o b)[j] = IF j <= Len(a) THEN a[j] ELSE b[j - Len(a)]
  BY <1>1, <1>2, ConcatProperties
<1>5. ASSUME NEW j \in 1 .. Len(s) - 1
      PROVE  (a \o b)[j] = IF j < i THEN s[j] ELSE s[j + 1]
  <2>1. CASE j < i
    BY <2>1, <1>1, <1>2, <1>4
  <2>2. CASE ~(j < i)
    <3>1. (a \o b)[j] = b[j - (i - 1)]
      BY <2>2, <1>1, <1>2, <1>4
    <3>2. j - (i - 1) \in 1 .. Len(s) - i
      BY <2>2
    <3>3. b[j - (i - 1)] = s[i + (j - (i - 1))]
      BY <3>2, <1>2
    <3>. QED  BY <2>2, <3>1, <3>3
  <2>. QED  BY <2>1, <2>2
<1>6. Len(a \o b) = Len(s) - 1
  BY <1>1, <1>2, <1>4
<1>. QED  BY <1>3, <1>4, <1>5, <1>6

\* Position finds a block the list has.
LEMMA PositionFinds ==
    ASSUME NEW blocks, NEW b \in Ids(blocks)
    PROVE  /\ Position(blocks, b) \in DOMAIN blocks
           /\ blocks[Position(blocks, b)].id = b
BY DEF Ids, Position

\* The place of an insertion is one of the list or the one after its last.
LEMMA InsertionPointInRange ==
    ASSUME NEW blocks \in Seq(Block), NEW a
    PROVE  InsertionPoint(blocks, a) \in 1 .. Len(blocks) + 1
BY PositionFinds DEF InsertionPoint
-----------------------------------------------------------------------------
(* What each operation does to a list of distinct blocks *)

\* Kept(old, new, b): the blocks of old other than b are blocks of new.
Kept(old, new, b) ==
    \A i \in DOMAIN old : old[i].id # b => \E j \in DOMAIN new : new[j] = old[i]

LEMMA ReplaceBlockKeeps ==
    ASSUME NEW blocks \in Seq(Block), Distinct(blocks), NEW b, NEW p \in Payload
    PROVE  LET made == ReplaceBlock(blocks, b, p)
           IN  made \in Seq(Block) /\ Distinct(made) /\ Kept(blocks, made, b)
<1>. DEFINE made == ReplaceBlock(blocks, b, p)
<1>. HIDE DEF made
<1>1. DOMAIN blocks = 1 .. Len(blocks) /\ Len(blocks) \in Nat
  OBVIOUS
<1>2. \A i \in DOMAIN blocks : blocks[i] \in Block
  OBVIOUS
<1>3. \A i \in DOMAIN blocks : /\ made[i] \in Block
                              /\ made[i].id = blocks[i].id
                              /\ (blocks[i].id # b => made[i] = blocks[i])
  BY <1>2 DEF made, ReplaceBlock, Block
<1>4. DOMAIN made = DOMAIN blocks /\ made = [i \in DOMAIN blocks |-> made[i]]
  BY DEF made, ReplaceBlock
<1>5. made \in [1 .. Len(blocks) -> Block]
  BY <1>1, <1>3, <1>4
<1>6. made \in Seq(Block)
  BY <1>1, <1>5
<1>7. Distinct(made)
  <2>. SUFFICES ASSUME NEW i \in DOMAIN blocks, NEW j \in DOMAIN blocks,
                       made[i].id = made[j].id
                PROVE  i = j
    BY <1>4 DEF Distinct
  <2>. QED  BY <1>3 DEF Distinct
<1>8. Kept(blocks, made, b)
  <2>. SUFFICES ASSUME NEW i \in DOMAIN blocks, blocks[i].id # b
                PROVE  \E j \in DOMAIN made : made[j] = blocks[i]
    BY DEF Kept
  <2>. QED  BY <1>3, <1>4
<1>. QED  BY <1>6, <1>7, <1>8 DEF made

LEMMA ReplaceCitationsKeeps ==
    ASSUME NEW blocks \in Seq(Block), Distinct(blocks), NEW b,
           NEW c \in SUBSET Sources
    PROVE  LET made == ReplaceCitations(blocks, b, c)
           IN  made \in Seq(Block) /\ Distinct(made) /\ Kept(blocks, made, b)
<1>. DEFINE made == ReplaceCitations(blocks, b, c)
<1>. HIDE DEF made
<1>1. DOMAIN blocks = 1 .. Len(blocks) /\ Len(blocks) \in Nat
  OBVIOUS
<1>2. \A i \in DOMAIN blocks : blocks[i] \in Block
  OBVIOUS
<1>3. \A i \in DOMAIN blocks : /\ made[i] \in Block
                              /\ made[i].id = blocks[i].id
                              /\ (blocks[i].id # b => made[i] = blocks[i])
  BY <1>2 DEF made, ReplaceCitations, Block
<1>4. DOMAIN made = DOMAIN blocks /\ made = [i \in DOMAIN blocks |-> made[i]]
  BY DEF made, ReplaceCitations
<1>5. made \in [1 .. Len(blocks) -> Block]
  BY <1>1, <1>3, <1>4
<1>6. made \in Seq(Block)
  BY <1>1, <1>5
<1>7. Distinct(made)
  <2>. SUFFICES ASSUME NEW i \in DOMAIN blocks, NEW j \in DOMAIN blocks,
                       made[i].id = made[j].id
                PROVE  i = j
    BY <1>4 DEF Distinct
  <2>. QED  BY <1>3 DEF Distinct
<1>8. Kept(blocks, made, b)
  <2>. SUFFICES ASSUME NEW i \in DOMAIN blocks, blocks[i].id # b
                PROVE  \E j \in DOMAIN made : made[j] = blocks[i]
    BY DEF Kept
  <2>. QED  BY <1>3, <1>4
<1>. QED  BY <1>6, <1>7, <1>8 DEF made

LEMMA WithoutKeeps ==
    ASSUME NEW blocks \in Seq(Block), Distinct(blocks), NEW b
    PROVE  LET made == Without(blocks, b)
           IN  /\ made \in Seq(Block) /\ Distinct(made) /\ Kept(blocks, made, b)
               /\ Ids(made) = Ids(blocks) \ {b}
<1>1. CASE b \notin Ids(blocks)
  BY <1>1 DEF Without, Kept, Ids
<1>2. CASE b \in Ids(blocks)
  <2>. DEFINE n == Position(blocks, b)
              made == RemoveAt(blocks, n)
  <2>1. n \in 1 .. Len(blocks) /\ blocks[n].id = b
    BY <1>2, PositionFinds
  <2>2. Without(blocks, b) = made
    BY <1>2 DEF Without
  <2>3. /\ made \in Seq(Block)
        /\ Len(made) = Len(blocks) - 1
        /\ \A j \in 1 .. Len(blocks) - 1 :
              made[j] = IF j < n THEN blocks[j] ELSE blocks[j + 1]
    <3>. HIDE DEF n
    <3>. QED  BY <2>1, RemoveAtPlaces
  <2>. HIDE DEF n, made
  <2>4. DOMAIN made = 1 .. Len(blocks) - 1 /\ DOMAIN blocks = 1 .. Len(blocks)
    BY <2>3
  <2>5. Distinct(made)
    <3>. SUFFICES ASSUME NEW i \in DOMAIN made, NEW j \in DOMAIN made,
                         made[i].id = made[j].id
                  PROVE  i = j
      BY DEF Distinct
    <3>. DEFINE at(k) == IF k < n THEN k ELSE k + 1
    <3>1. /\ at(i) \in DOMAIN blocks /\ made[i] = blocks[at(i)]
          /\ at(j) \in DOMAIN blocks /\ made[j] = blocks[at(j)]
      BY <2>1, <2>3, <2>4
    <3>2. at(i) = at(j)
      <4>. HIDE DEF at
      <4>. QED  BY <3>1 DEF Distinct
    <3>. QED  BY <3>2, <2>1, <2>4
  <2>6. ASSUME NEW i \in DOMAIN blocks, blocks[i].id # b
        PROVE  \E j \in DOMAIN made : made[j] = blocks[i]
    <3>1. i # n
      BY <2>1, <2>6
    <3>2. CASE i < n
      BY <3>2, <2>1, <2>3, <2>4
    <3>3. CASE i > n
      <4>1. i - 1 \in DOMAIN made /\ ~(i - 1 < n)
        BY <3>3, <2>1, <2>4
      <4>2. made[i - 1] = blocks[i]
        BY <4>1, <2>3, <2>4
      <4>. QED  BY <4>1, <4>2
    <3>. QED  BY <3>1, <3>2, <3>3, <2>1, <2>4
  <2>7. ASSUME NEW j \in DOMAIN made
        PROVE  made[j].id \in Ids(blocks) \ {b}
    <3>. DEFINE k == IF j < n THEN j ELSE j + 1
    <3>1. k \in DOMAIN blocks /\ k # n /\ made[j] = blocks[k]
      BY <2>1, <2>3, <2>4
    <3>2. blocks[k].id # b
      <4>. HIDE DEF k
      <4>. QED  BY <3>1, <2>1, <2>4 DEF Distinct
    <3>. HIDE DEF k
    <3>. QED  BY <3>1, <3>2 DEF Ids
  <2>8. Ids(made) = Ids(blocks) \ {b}
    BY <2>6, <2>7 DEF Ids
  <2>. QED  BY <2>2, <2>3, <2>5, <2>6, <2>8 DEF Kept
<1>. QED  BY <1>1, <1>2

\* All blocks of old are blocks of new.
AllKept(old, new) ==
    \A i \in DOMAIN old : \E j \in DOMAIN new : new[j] = old[i]

\* Inserting a block the list has not keeps all the others.
LEMMA InsertBehindKeeps ==
    ASSUME NEW blocks \in Seq(Block), Distinct(blocks), NEW a,
           NEW block \in Block, block.id \notin Ids(blocks)
    PROVE  LET made == InsertBehind(blocks, a, block)
           IN  made \in Seq(Block) /\ Distinct(made) /\ AllKept(blocks, made)
<1>. DEFINE n == InsertionPoint(blocks, a)
            made == InsertAt(blocks, n, block)
<1>1. n \in 1 .. Len(blocks) + 1
  BY InsertionPointInRange
<1>2. /\ made \in Seq(Block)
      /\ Len(made) = Len(blocks) + 1
      /\ \A j \in 1 .. Len(blocks) + 1 : made[j] =
            IF j < n THEN blocks[j] ELSE IF j = n THEN block ELSE blocks[j - 1]
  <2>. HIDE DEF n
  <2>. QED  BY <1>1, InsertAtPlaces
<1>3. InsertBehind(blocks, a, block) = made
  BY DEF InsertBehind
<1>. HIDE DEF n, made
<1>4. DOMAIN made = 1 .. Len(blocks) + 1 /\ DOMAIN blocks = 1 .. Len(blocks)
  BY <1>2
<1>5. Distinct(made)
  <2>. SUFFICES ASSUME NEW i \in DOMAIN made, NEW j \in DOMAIN made,
                       made[i].id = made[j].id
                PROVE  i = j
    BY DEF Distinct
  <2>. DEFINE at(k) == IF k < n THEN k ELSE k - 1
  <2>1. /\ (i # n => at(i) \in DOMAIN blocks /\ made[i] = blocks[at(i)])
        /\ (j # n => at(j) \in DOMAIN blocks /\ made[j] = blocks[at(j)])
        /\ (i = n => made[i] = block)
        /\ (j = n => made[j] = block)
    BY <1>1, <1>2, <1>4
  <2>2. i = n <=> j = n
    <3>. HIDE DEF at
    <3>. QED  BY <2>1 DEF Ids
  <2>3. i # n => at(i) = at(j)
    <3>. HIDE DEF at
    <3>. QED  BY <2>1, <2>2 DEF Distinct
  <2>. QED  BY <2>2, <2>3, <1>1, <1>4
<1>6. ASSUME NEW i \in DOMAIN blocks
      PROVE  \E j \in DOMAIN made : made[j] = blocks[i]
  <2>1. CASE i < n
    BY <2>1, <1>1, <1>2, <1>4
  <2>2. CASE ~(i < n)
    <3>1. i + 1 \in DOMAIN made /\ ~(i + 1 < n) /\ i + 1 # n
      BY <2>2, <1>1, <1>4
    <3>2. made[i + 1] = blocks[i]
      BY <3>1, <1>2, <1>4
    <3>. QED  BY <3>1, <3>2
  <2>. QED  BY <2>1, <2>2
<1>7. AllKept(blocks, made)
  BY <1>6 DEF AllKept
<1>. QED  BY <1>2, <1>3, <1>5, <1>7

LEMMA MoveBlockKeeps ==
    ASSUME NEW blocks \in Seq(Block), Distinct(blocks), NEW b, NEW a
    PROVE  LET made == MoveBlock(blocks, b, a)
           IN  made \in Seq(Block) /\ Distinct(made) /\ Kept(blocks, made, b)
<1>1. CASE b \notin Ids(blocks)
  BY <1>1 DEF MoveBlock, Kept
<1>2. CASE b \in Ids(blocks)
  <2>. DEFINE rest == Without(blocks, b)
              block == blocks[Position(blocks, b)]
              made == InsertBehind(rest, a, block)
  <2>1. block \in Block /\ block.id = b
    BY <1>2, PositionFinds
  <2>2. /\ rest \in Seq(Block) /\ Distinct(rest) /\ Kept(blocks, rest, b)
        /\ Ids(rest) = Ids(blocks) \ {b}
    BY WithoutKeeps
  <2>3. MoveBlock(blocks, b, a) = made
    BY <1>2 DEF MoveBlock
  <2>. HIDE DEF rest, block
  <2>4. made \in Seq(Block) /\ Distinct(made) /\ AllKept(rest, made)
    BY <2>1, <2>2, InsertBehindKeeps
  <2>. HIDE DEF made
  <2>5. Kept(blocks, made, b)
    BY <2>2, <2>4 DEF Kept, AllKept
  <2>. QED  BY <2>3, <2>4, <2>5
<1>. QED  BY <1>1, <1>2

-----------------------------------------------------------------------------
(* The inductive invariant *)

\* What UntouchedBlocksKept says of the versions, of the accept in progress.
WorkingCopyKeepsBase ==
    job.base # 0 =>
        \A i \in DOMAIN versions[job.base].blocks :
            About(job.operations, versions[job.base].blocks[i].id) = {} =>
                \E j \in DOMAIN job.blocks :
                    job.blocks[j] = versions[job.base].blocks[i]

IdleIsEmpty == job.base = 0 => job.operations = <<>>

IInv ==
    /\ TypeOK
    /\ DistinctBlockIds
    /\ UntouchedBlocksKept
    /\ WorkingCopyKeepsBase
    /\ IdleIsEmpty

\* The set of lists DistinctBlockIds speaks about, one by one.
LEMMA DistinctEverywhere ==
    DistinctBlockIds <=> /\ Distinct(job.blocks)
                         /\ \A v \in DOMAIN versions : Distinct(versions[v].blocks)
BY DEF DistinctBlockIds, Distinct

\* An operation that is appended is not about a block no operation is about.
LEMMA AboutAppend ==
    ASSUME NEW ops \in Seq(Operation), NEW op \in Operation, NEW b,
           About(Append(ops, op), b) = {}
    PROVE  /\ About(ops, b) = {}
           /\ op.op # "insert_after" => op.block_id # b
<1>. DEFINE more == Append(ops, op)
<1>1. /\ DOMAIN more = 1 .. Len(ops) + 1
      /\ DOMAIN ops = 1 .. Len(ops)
      /\ \A k \in 1 .. Len(ops) : more[k] = ops[k]
      /\ more[Len(ops) + 1] = op
  OBVIOUS
<1>. HIDE DEF more
<1>2. About(more, b) = {}
  BY DEF more
<1>3. About(ops, b) = {}
  BY <1>1, <1>2 DEF About
<1>4. op.op # "insert_after" => op.block_id # b
  <2>1. Len(ops) + 1 \in DOMAIN more
    BY <1>1
  <2>. QED  BY <1>1, <1>2, <2>1 DEF About
<1>. QED  BY <1>3, <1>4

LEMMA InitEstablishes == Init => IInv
<1>. SUFFICES ASSUME Init PROVE IInv
  OBVIOUS
<1>1. /\ versions = <<Root>> /\ job = Idle
      /\ DOMAIN versions = {1} /\ versions[1] = Root /\ Len(versions) = 1
  BY DEF Init
<1>2. <<>> \in Seq(Operation) /\ <<>> \in Seq(Block)
  OBVIOUS
<1>3. Root \in Version
  BY <1>2 DEF Root, Version
<1>4. TypeOK
  BY <1>1, <1>2, <1>3 DEF TypeOK, Idle, Root
<1>5. DistinctBlockIds
  BY <1>1 DEF DistinctBlockIds, Idle, Root
<1>6. UntouchedBlocksKept
  BY <1>1 DEF UntouchedBlocksKept, Accepted
<1>7. WorkingCopyKeepsBase /\ IdleIsEmpty
  BY <1>1 DEF WorkingCopyKeepsBase, IdleIsEmpty, Idle
<1>. QED  BY <1>4, <1>5, <1>6, <1>7 DEF IInv

\* One pass of the loop keeps the invariant if it makes a list of distinct
\* blocks that has every block the operation is not about.
LEMMA ApplyPreserves ==
    ASSUME IInv, NEW op \in Operation, NEW blocks \in Seq(Block),
           Distinct(blocks), Apply(op, blocks),
           \A i \in DOMAIN job.blocks :
               (op.op # "insert_after" => op.block_id # job.blocks[i].id) =>
                   \E j \in DOMAIN blocks : blocks[j] = job.blocks[i]
    PROVE  IInv'
<1>1. /\ job' = [job EXCEPT !.operations = Append(job.operations, op),
                           !.blocks = blocks]
      /\ versions' = versions
      /\ job.base # 0
  BY DEF Apply
<1>2. /\ job \in [base : Nat, operations : Seq(Operation), blocks : Seq(Block)]
      /\ job.operations \in Seq(Operation)
  BY DEF IInv, TypeOK
<1>3. /\ job'.base = job.base
      /\ job'.operations = Append(job.operations, op)
      /\ job'.blocks = blocks
      /\ job' \in [base : Nat, operations : Seq(Operation), blocks : Seq(Block)]
  <2>1. Append(job.operations, op) \in Seq(Operation)
    BY <1>2, AppendProperties
  <2>. QED  BY <1>1, <1>2, <2>1
<1>4. TypeOK'
  BY <1>1, <1>3 DEF IInv, TypeOK
<1>5. DistinctBlockIds'
  <2>1. \A v \in DOMAIN versions : Distinct(versions[v].blocks)
    BY DistinctEverywhere DEF IInv
  <2>. QED  BY <1>1, <1>3, <2>1 DEF DistinctBlockIds, Distinct
<1>6. UntouchedBlocksKept'
  BY <1>1 DEF IInv, UntouchedBlocksKept, Accepted
<1>7. WorkingCopyKeepsBase'
  <2>. DEFINE base == versions[job.base].blocks
  <2>. SUFFICES ASSUME NEW i \in DOMAIN base,
                       About(Append(job.operations, op), base[i].id) = {}
                PROVE  \E j \in DOMAIN blocks : blocks[j] = base[i]
    BY <1>1, <1>3 DEF WorkingCopyKeepsBase
  <2>1. /\ About(job.operations, base[i].id) = {}
        /\ op.op # "insert_after" => op.block_id # base[i].id
    BY <1>2, AboutAppend
  <2>2. PICK k \in DOMAIN job.blocks : job.blocks[k] = base[i]
    BY <1>1, <2>1 DEF IInv, WorkingCopyKeepsBase
  <2>. HIDE DEF base
  <2>. QED  BY <2>1, <2>2
<1>8. IdleIsEmpty'
  BY <1>1, <1>3 DEF IdleIsEmpty
<1>. QED  BY <1>4, <1>5, <1>6, <1>7, <1>8 DEF IInv

LEMMA BeginPreserves ==
    ASSUME IInv, NEW v \in DOMAIN versions, Begin(v)
    PROVE  IInv'
<1>1. /\ versions' = versions
      /\ job' = [base |-> v, operations |-> <<>>, blocks |-> versions[v].blocks]
  BY DEF Begin, Idle
<1>2. /\ v \in 1 .. Len(versions)
      /\ versions[v] \in Version
  BY DEF IInv, TypeOK
<1>3. versions[v].blocks \in Seq(Block) /\ <<>> \in Seq(Operation)
  BY <1>2 DEF Version
<1>4. TypeOK'
  BY <1>1, <1>2, <1>3 DEF IInv, TypeOK
<1>5. DistinctBlockIds'
  <2>1. \A w \in DOMAIN versions : Distinct(versions[w].blocks)
    BY DistinctEverywhere DEF IInv
  <2>. QED  BY <1>1, <2>1 DEF DistinctBlockIds, Distinct
<1>6. UntouchedBlocksKept'
  BY <1>1 DEF IInv, UntouchedBlocksKept, Accepted
<1>7. WorkingCopyKeepsBase'
  BY <1>1 DEF WorkingCopyKeepsBase
<1>8. IdleIsEmpty'
  BY <1>1 DEF IdleIsEmpty
<1>. QED  BY <1>4, <1>5, <1>6, <1>7, <1>8 DEF IInv

LEMMA CommitPreserves ==
    ASSUME IInv, Commit
    PROVE  IInv'
<1>. DEFINE n == Len(versions) + 1
<1>1. /\ versions' = Append(versions, NewVersion)
      /\ job' = [base |-> 0, operations |-> <<>>, blocks |-> <<>>]
      /\ job.base \in 1 .. Len(versions)
  BY DEF Commit, Idle, IInv, IdleIsEmpty, TypeOK
<1>2. versions \in Seq(Version) /\ NewVersion \in Version
  BY DEF IInv, TypeOK, NewVersion, Version
<1>3. /\ versions' \in Seq(Version)
      /\ Len(versions') = n
      /\ DOMAIN versions' = 1 .. n /\ DOMAIN versions = 1 .. Len(versions)
      /\ \A v \in 1 .. Len(versions) : versions'[v] = versions[v]
      /\ versions'[n] = NewVersion
  BY <1>1, <1>2
<1>4. TypeOK'
  <2>1. \A v \in DOMAIN versions' \ {1} : versions'[v].parent \in 1 .. (v - 1)
    BY <1>1, <1>3 DEF IInv, TypeOK, NewVersion
  <2>2. <<>> \in Seq(Operation) /\ <<>> \in Seq(Block)
    OBVIOUS
  <2>. QED  BY <1>1, <1>3, <2>1, <2>2 DEF TypeOK
<1>5. DistinctBlockIds'
  <2>1. /\ Distinct(job.blocks)
        /\ \A w \in DOMAIN versions : Distinct(versions[w].blocks)
    BY DistinctEverywhere DEF IInv
  <2>2. \A w \in DOMAIN versions' : Distinct(versions'[w].blocks)
    BY <1>3, <2>1 DEF NewVersion
  <2>3. Distinct(job'.blocks)
    BY <1>1 DEF Distinct
  <2>. QED  BY <2>2, <2>3 DEF DistinctBlockIds, Distinct
<1>6. UntouchedBlocksKept'
  <2>. SUFFICES ASSUME NEW v \in DOMAIN versions' \ {1},
                       NEW i \in DOMAIN versions'[versions'[v].parent].blocks,
                       About(versions'[v].operations,
                             versions'[versions'[v].parent].blocks[i].id) = {}
                PROVE  \E j \in DOMAIN versions'[v].blocks :
                          versions'[v].blocks[j]
                            = versions'[versions'[v].parent].blocks[i]
    BY DEF UntouchedBlocksKept, Accepted
  <2>1. CASE v = n
    <3>1. versions'[v] = NewVersion /\ versions'[job.base] = versions[job.base]
      BY <2>1, <1>1, <1>3
    <3>. QED  BY <3>1, <1>1 DEF NewVersion, IInv, WorkingCopyKeepsBase
  <2>2. CASE v # n
    <3>1. v \in DOMAIN versions /\ versions'[v] = versions[v]
      BY <2>2, <1>3
    <3>2. versions[v].parent \in 1 .. Len(versions)
      BY <3>1, <1>3 DEF IInv, TypeOK
    <3>3. versions'[versions[v].parent] = versions[versions[v].parent]
      BY <3>2, <1>3
    <3>. QED  BY <3>1, <3>3 DEF IInv, UntouchedBlocksKept, Accepted
  <2>. QED  BY <2>1, <2>2
<1>7. WorkingCopyKeepsBase' /\ IdleIsEmpty'
  BY <1>1 DEF WorkingCopyKeepsBase, IdleIsEmpty
<1>. QED  BY <1>4, <1>5, <1>6, <1>7 DEF IInv

LEMMA RollbackPreserves ==
    ASSUME IInv, Rollback
    PROVE  IInv'
<1>1. versions' = versions /\ job' = [base |-> 0, operations |-> <<>>, blocks |-> <<>>]
  BY DEF Rollback, Idle
<1>2. <<>> \in Seq(Operation) /\ <<>> \in Seq(Block)
  OBVIOUS
<1>3. TypeOK'
  BY <1>1, <1>2 DEF IInv, TypeOK
<1>4. DistinctBlockIds'
  <2>1. \A w \in DOMAIN versions : Distinct(versions[w].blocks)
    BY DistinctEverywhere DEF IInv
  <2>. QED  BY <1>1, <2>1 DEF DistinctBlockIds, Distinct
<1>5. UntouchedBlocksKept'
  BY <1>1 DEF IInv, UntouchedBlocksKept, Accepted
<1>6. WorkingCopyKeepsBase' /\ IdleIsEmpty'
  BY <1>1 DEF WorkingCopyKeepsBase, IdleIsEmpty
<1>. QED  BY <1>3, <1>4, <1>5, <1>6 DEF IInv

LEMMA OperationsPreserve ==
    ASSUME IInv
    PROVE  /\ \A op \in Replacement : ApplyReplace(op) => IInv'
           /\ \A op \in Deletion : ApplyDelete(op) => IInv'
           /\ \A op \in Citing : ApplyCitations(op) => IInv'
           /\ \A op \in Insertion, id \in BlockIds : ApplyInsert(op, id) => IInv'
           /\ \A op \in Move : ApplyMove(op) => IInv'
<1>1. job.blocks \in Seq(Block) /\ Distinct(job.blocks)
  BY DistinctEverywhere DEF IInv, TypeOK
<1>2. ASSUME NEW op \in Replacement, ApplyReplace(op)
      PROVE  IInv'
  <2>. DEFINE made == ReplaceBlock(job.blocks, op.block_id, op.payload)
  <2>1. op \in Operation /\ op.payload \in Payload
    BY DEF Operation, Replacement
  <2>2. made \in Seq(Block) /\ Distinct(made) /\ Kept(job.blocks, made, op.block_id)
    BY <1>1, <2>1, ReplaceBlockKeeps
  <2>3. Apply(op, made) /\ op.op # "insert_after"
    BY <1>2 DEF ApplyReplace, Replacement
  <2>. HIDE DEF made
  <2>. QED  BY <2>1, <2>2, <2>3, ApplyPreserves DEF Kept
<1>3. ASSUME NEW op \in Deletion, ApplyDelete(op)
      PROVE  IInv'
  <2>. DEFINE made == Without(job.blocks, op.block_id)
  <2>1. op \in Operation
    BY DEF Operation
  <2>2. made \in Seq(Block) /\ Distinct(made) /\ Kept(job.blocks, made, op.block_id)
    BY <1>1, WithoutKeeps
  <2>3. Apply(op, made) /\ op.op # "insert_after"
    BY <1>3 DEF ApplyDelete, Deletion
  <2>. HIDE DEF made
  <2>. QED  BY <2>1, <2>2, <2>3, ApplyPreserves DEF Kept
<1>4. ASSUME NEW op \in Citing, ApplyCitations(op)
      PROVE  IInv'
  <2>. DEFINE made == ReplaceCitations(job.blocks, op.block_id, op.citations)
  <2>1. op \in Operation /\ op.citations \in SUBSET Sources
    BY DEF Operation, Citing
  <2>2. made \in Seq(Block) /\ Distinct(made) /\ Kept(job.blocks, made, op.block_id)
    BY <1>1, <2>1, ReplaceCitationsKeeps
  <2>3. Apply(op, made) /\ op.op # "insert_after"
    BY <1>4 DEF ApplyCitations, Citing
  <2>. HIDE DEF made
  <2>. QED  BY <2>1, <2>2, <2>3, ApplyPreserves DEF Kept
<1>5. ASSUME NEW op \in Insertion, NEW id \in BlockIds, ApplyInsert(op, id)
      PROVE  IInv'
  <2>. DEFINE block == [id |-> id, payload |-> op.payload,
                        citations |-> op.payload.citations]
              made == InsertBehind(job.blocks, op.after_block_id, block)
  <2>. HIDE DEF block
  <2>1. op \in Operation /\ block \in Block
    BY DEF block, Operation, Insertion, Payload, Block
  <2>2. block.id \notin Ids(job.blocks)
    BY <1>5 DEF block, ApplyInsert
  <2>3. Apply(op, made)
    BY <1>5 DEF block, ApplyInsert
  <2>4. made \in Seq(Block) /\ Distinct(made) /\ AllKept(job.blocks, made)
    BY <1>1, <2>1, <2>2, InsertBehindKeeps
  <2>. HIDE DEF made
  <2>. QED  BY <2>1, <2>3, <2>4, ApplyPreserves DEF AllKept
<1>6. ASSUME NEW op \in Move, ApplyMove(op)
      PROVE  IInv'
  <2>. DEFINE made == MoveBlock(job.blocks, op.block_id, op.after_block_id)
  <2>1. op \in Operation
    BY DEF Operation
  <2>2. made \in Seq(Block) /\ Distinct(made) /\ Kept(job.blocks, made, op.block_id)
    BY <1>1, MoveBlockKeeps
  <2>3. Apply(op, made) /\ op.op # "insert_after"
    BY <1>6 DEF ApplyMove, Move
  <2>. HIDE DEF made
  <2>. QED  BY <2>1, <2>2, <2>3, ApplyPreserves DEF Kept
<1>. QED  BY <1>2, <1>3, <1>4, <1>5, <1>6

LEMMA StepPreserves == IInv /\ [Next]_vars => IInv'
<1>. SUFFICES ASSUME IInv, [Next]_vars PROVE IInv'
  OBVIOUS
<1>1. CASE \E v \in DOMAIN versions : Begin(v)
  BY <1>1, BeginPreserves
<1>2. CASE \E op \in Replacement : ApplyReplace(op)
  BY <1>2, OperationsPreserve
<1>3. CASE \E op \in Deletion : ApplyDelete(op)
  BY <1>3, OperationsPreserve
<1>4. CASE \E op \in Citing : ApplyCitations(op)
  BY <1>4, OperationsPreserve
<1>5. CASE \E op \in Insertion, id \in BlockIds : ApplyInsert(op, id)
  BY <1>5, OperationsPreserve
<1>6. CASE \E op \in Move : ApplyMove(op)
  BY <1>6, OperationsPreserve
<1>7. CASE Commit
  BY <1>7, CommitPreserves
<1>8. CASE Rollback
  BY <1>8, RollbackPreserves
<1>9. CASE UNCHANGED vars
  <2>1. versions' = versions /\ job' = job
    BY <1>9 DEF vars
  <2>2. TypeOK' /\ IdleIsEmpty'
    BY <2>1 DEF IInv, TypeOK, IdleIsEmpty
  <2>3. DistinctBlockIds'
    BY <2>1 DEF IInv, DistinctBlockIds
  <2>4. UntouchedBlocksKept'
    BY <2>1 DEF IInv, UntouchedBlocksKept, Accepted
  <2>5. WorkingCopyKeepsBase'
    BY <2>1 DEF IInv, WorkingCopyKeepsBase
  <2>. QED  BY <2>2, <2>3, <2>4, <2>5 DEF IInv
<1>. QED
  BY <1>1, <1>2, <1>3, <1>4, <1>5, <1>6, <1>7, <1>8, <1>9 DEF Next

-----------------------------------------------------------------------------
LEMMA Invariance == Spec => []IInv
BY InitEstablishes, StepPreserves, PTL DEF Spec

\* Versions, operations and the working copy keep their types, and every
\* version but the first has an earlier version as its parent.
THEOREM BlocksTypeCorrect == Spec => []TypeOK
<1>1. IInv => TypeOK
  BY DEF IInv
<1>. QED  BY <1>1, Invariance, PTL

\* No sequence of operations puts a block into a version twice: the key
\* (content_version_id, id) is never violated.
THEOREM BlockIdsDistinct == Spec => []DistinctBlockIds
<1>1. IInv => DistinctBlockIds
  BY DEF IInv
<1>. QED  BY <1>1, Invariance, PTL

\* No patch changes or loses a block that none of its operations names.
THEOREM UntouchedBlocksSurvive == Spec => []UntouchedBlocksKept
<1>1. IInv => UntouchedBlocksKept
  BY DEF IInv
<1>. QED  BY <1>1, Invariance, PTL

-----------------------------------------------------------------------------
(* What the operations do to the order of blocks *)

Before(blocks, x, y) ==
    \E i, j \in DOMAIN blocks : i < j /\ blocks[i].id = x /\ blocks[j].id = y

\* Blocks other than b are in the order they were in.
InOrder(old, new, b) ==
    \A x, y : x # b /\ y # b /\ Before(old, x, y) => Before(new, x, y)

\* In a list of distinct blocks, what stands before has the lower place.
LEMMA BeforeIsPosition ==
    ASSUME NEW blocks \in Seq(Block), Distinct(blocks), NEW x, NEW y, Before(blocks, x, y)
    PROVE  Position(blocks, x) < Position(blocks, y)
<1>1. PICK i \in DOMAIN blocks, j \in DOMAIN blocks :
          i < j /\ blocks[i].id = x /\ blocks[j].id = y
  BY DEF Before
<1>2. x \in Ids(blocks) /\ y \in Ids(blocks)
  BY <1>1 DEF Ids
<1>3. Position(blocks, x) = i /\ Position(blocks, y) = j
  BY <1>1, <1>2, PositionFinds DEF Distinct
<1>. QED  BY <1>1, <1>3

\* Operations that change a block where it stands.
LEMMA SameIdsInOrder ==
    ASSUME NEW old, NEW new, DOMAIN new = DOMAIN old,
           \A i \in DOMAIN old : new[i].id = old[i].id
    PROVE  Ids(new) = Ids(old) /\ \A x, y : Before(old, x, y) => Before(new, x, y)
BY DEF Ids, Before

LEMMA ReplaceBlockInOrder ==
    ASSUME NEW blocks \in Seq(Block), NEW b, NEW p
    PROVE  LET made == ReplaceBlock(blocks, b, p)
           IN  Ids(made) = Ids(blocks) /\ \A x, y : Before(blocks, x, y) => Before(made, x, y)
<1>1. \A i \in DOMAIN blocks : blocks[i] \in Block
  OBVIOUS
<1>2. /\ DOMAIN ReplaceBlock(blocks, b, p) = DOMAIN blocks
      /\ \A i \in DOMAIN blocks : ReplaceBlock(blocks, b, p)[i].id = blocks[i].id
  BY <1>1 DEF ReplaceBlock, Block
<1>. QED  BY <1>2, SameIdsInOrder

LEMMA ReplaceCitationsInOrder ==
    ASSUME NEW blocks \in Seq(Block), NEW b, NEW c
    PROVE  LET made == ReplaceCitations(blocks, b, c)
           IN  Ids(made) = Ids(blocks) /\ \A x, y : Before(blocks, x, y) => Before(made, x, y)
<1>1. \A i \in DOMAIN blocks : blocks[i] \in Block
  OBVIOUS
<1>2. /\ DOMAIN ReplaceCitations(blocks, b, c) = DOMAIN blocks
      /\ \A i \in DOMAIN blocks : ReplaceCitations(blocks, b, c)[i].id = blocks[i].id
  BY <1>1 DEF ReplaceCitations, Block
<1>. QED  BY <1>2, SameIdsInOrder

LEMMA WithoutInOrder ==
    ASSUME NEW blocks \in Seq(Block), NEW b
    PROVE  InOrder(blocks, Without(blocks, b), b)
<1>1. CASE b \notin Ids(blocks)
  BY <1>1 DEF Without, InOrder
<1>2. CASE b \in Ids(blocks)
  <2>. DEFINE n == Position(blocks, b)
              made == RemoveAt(blocks, n)
  <2>1. n \in 1 .. Len(blocks) /\ blocks[n].id = b
    BY <1>2, PositionFinds
  <2>2. Without(blocks, b) = made
    BY <1>2 DEF Without
  <2>3. /\ made \in Seq(Block)
        /\ Len(made) = Len(blocks) - 1
        /\ \A j \in 1 .. Len(blocks) - 1 :
              made[j] = IF j < n THEN blocks[j] ELSE blocks[j + 1]
    <3>. HIDE DEF n
    <3>. QED  BY <2>1, RemoveAtPlaces
  <2>. HIDE DEF n, made
  <2>4. DOMAIN made = 1 .. Len(blocks) - 1 /\ DOMAIN blocks = 1 .. Len(blocks)
        /\ Len(blocks) \in Nat
    BY <2>3
  <2>5. ASSUME NEW i \in DOMAIN blocks, blocks[i].id # b
        PROVE  LET to == IF i < n THEN i ELSE i - 1
               IN  to \in DOMAIN made /\ made[to] = blocks[i] /\ i # n
    <3>1. i # n
      BY <2>1, <2>5
    <3>2. CASE i < n
      BY <3>2, <2>1, <2>3, <2>4
    <3>3. CASE i > n
      <4>1. i - 1 \in 1 .. Len(blocks) - 1 /\ ~(i - 1 < n) /\ (i - 1) + 1 = i
        BY <3>3, <2>1, <2>4
      <4>2. made[i - 1] = blocks[i]
        BY <4>1, <2>3
      <4>. QED  BY <3>3, <4>1, <4>2, <2>1, <2>4
    <3>. QED  BY <3>1, <3>2, <3>3, <2>1, <2>4
  <2>6. ASSUME NEW x, NEW y, x # b, y # b, Before(blocks, x, y)
        PROVE  Before(made, x, y)
    <3>1. PICK i \in DOMAIN blocks, j \in DOMAIN blocks :
              i < j /\ blocks[i].id = x /\ blocks[j].id = y
      BY <2>6 DEF Before
    <3>. DEFINE f == IF i < n THEN i ELSE i - 1
                g == IF j < n THEN j ELSE j - 1
    <3>2. f \in DOMAIN made /\ made[f] = blocks[i] /\ i # n
      BY <2>5, <2>6, <3>1
    <3>3. g \in DOMAIN made /\ made[g] = blocks[j] /\ j # n
      BY <2>5, <2>6, <3>1
    <3>4. f < g
      BY <3>1, <3>2, <3>3, <2>1, <2>4
    <3>. HIDE DEF f, g
    <3>. QED  BY <3>1, <3>2, <3>3, <3>4 DEF Before
  <2>. QED  BY <2>2, <2>6 DEF InOrder
<1>. QED  BY <1>1, <1>2

\* The block that is inserted stands behind its anchor.
LEMMA InsertBehindInOrder ==
    ASSUME NEW blocks \in Seq(Block), NEW a, NEW block \in Block
    PROVE  LET made == InsertBehind(blocks, a, block)
           IN  /\ Ids(made) = Ids(blocks) \union {block.id}
               /\ \A x, y : Before(blocks, x, y) => Before(made, x, y)
               /\ a \in Ids(blocks) => Before(made, a, block.id)
<1>. DEFINE n == InsertionPoint(blocks, a)
            made == InsertAt(blocks, n, block)
<1>1. n \in 1 .. Len(blocks) + 1
  BY InsertionPointInRange
<1>2. /\ made \in Seq(Block)
      /\ Len(made) = Len(blocks) + 1
      /\ \A j \in 1 .. Len(blocks) + 1 : made[j] =
            IF j < n THEN blocks[j] ELSE IF j = n THEN block ELSE blocks[j - 1]
  <2>. HIDE DEF n, made
  <2>1. made = InsertAt(blocks, n, block)
    BY DEF made
  <2>2. PICK m \in 1 .. Len(blocks) + 1 : m = n
    BY <1>1
  <2>3. /\ InsertAt(blocks, m, block) \in Seq(Block)
        /\ Len(InsertAt(blocks, m, block)) = Len(blocks) + 1
        /\ \A j \in 1 .. Len(blocks) + 1 : InsertAt(blocks, m, block)[j] =
              IF j < m THEN blocks[j] ELSE IF j = m THEN block ELSE blocks[j - 1]
    BY InsertAtPlaces, SMTT(20)
  <2>. QED  BY <2>1, <2>2, <2>3
<1>3. InsertBehind(blocks, a, block) = made
  BY DEF InsertBehind
<1>4. a \in Ids(blocks) =>
        /\ Position(blocks, a) \in DOMAIN blocks /\ blocks[Position(blocks, a)].id = a
        /\ n = Position(blocks, a) + 1
  BY PositionFinds DEF InsertionPoint
<1>. HIDE DEF n, made
<1>5. DOMAIN made = 1 .. Len(blocks) + 1 /\ DOMAIN blocks = 1 .. Len(blocks)
      /\ Len(blocks) \in Nat
  BY <1>2
<1>6. ASSUME NEW i \in DOMAIN blocks
      PROVE  LET to == IF i < n THEN i ELSE i + 1
             IN  to \in DOMAIN made /\ made[to] = blocks[i]
  <2>1. CASE i < n
    BY <2>1, <1>1, <1>2, <1>5
  <2>2. CASE ~(i < n)
    <3>1. i + 1 \in 1 .. Len(blocks) + 1 /\ ~(i + 1 < n) /\ i + 1 # n /\ (i + 1) - 1 = i
      BY <2>2, <1>1, <1>5
    <3>2. made[i + 1] = blocks[i]
      BY <3>1, <1>2
    <3>. QED  BY <2>2, <3>1, <3>2, <1>5
  <2>. QED  BY <2>1, <2>2
<1>7. n \in DOMAIN made /\ made[n] = block
  BY <1>1, <1>2, <1>5
<1>8. ASSUME NEW j \in DOMAIN made
      PROVE  made[j] = block \/ \E i \in DOMAIN blocks : made[j] = blocks[i]
  <2>1. CASE j < n
    BY <2>1, <1>1, <1>2, <1>5
  <2>2. CASE j = n
    BY <2>2, <1>7
  <2>3. CASE j > n
    <3>1. j - 1 \in DOMAIN blocks /\ ~(j < n) /\ j # n
      BY <2>3, <1>1, <1>5
    <3>. QED  BY <3>1, <1>2, <1>5
  <2>. QED  BY <2>1, <2>2, <2>3, <1>1, <1>5
<1>9. Ids(made) = Ids(blocks) \union {block.id}
  BY <1>6, <1>7, <1>8 DEF Ids
<1>10. ASSUME NEW x, NEW y, Before(blocks, x, y)
       PROVE  Before(made, x, y)
  <2>1. PICK i \in DOMAIN blocks, j \in DOMAIN blocks :
            i < j /\ blocks[i].id = x /\ blocks[j].id = y
    BY <1>10 DEF Before
  <2>. DEFINE f == IF i < n THEN i ELSE i + 1
              g == IF j < n THEN j ELSE j + 1
  <2>2. f \in DOMAIN made /\ made[f] = blocks[i]
    BY <1>6
  <2>3. g \in DOMAIN made /\ made[g] = blocks[j]
    BY <1>6
  <2>4. f < g
    BY <2>1, <1>1, <1>5
  <2>. HIDE DEF f, g
  <2>. QED  BY <2>1, <2>2, <2>3, <2>4 DEF Before
<1>11. ASSUME a \in Ids(blocks)
       PROVE  Before(made, a, block.id)
  <2>1. PICK i \in DOMAIN blocks : blocks[i].id = a /\ n = i + 1
    BY <1>4, <1>11
  <2>2. i \in DOMAIN made /\ made[i] = blocks[i] /\ i < n
    BY <2>1, <1>1, <1>2, <1>5
  <2>. QED  BY <1>7, <2>1, <2>2 DEF Before
<1>. QED  BY <1>3, <1>9, <1>10, <1>11

LEMMA MoveBlockInOrder ==
    ASSUME NEW blocks \in Seq(Block), Distinct(blocks), NEW b, NEW a
    PROVE  LET made == MoveBlock(blocks, b, a)
           IN  /\ Ids(made) = Ids(blocks)
               /\ InOrder(blocks, made, b)
               /\ b \in Ids(blocks) /\ a \in Ids(blocks) \ {b} => Before(made, a, b)
<1>1. CASE b \notin Ids(blocks)
  BY <1>1 DEF MoveBlock, InOrder
<1>2. CASE b \in Ids(blocks)
  <2>. DEFINE rest == Without(blocks, b)
              block == blocks[Position(blocks, b)]
              made == InsertBehind(rest, a, block)
  <2>1. block \in Block /\ block.id = b
    BY <1>2, PositionFinds
  <2>2. rest \in Seq(Block) /\ Ids(rest) = Ids(blocks) \ {b} /\ InOrder(blocks, rest, b)
    BY WithoutKeeps, WithoutInOrder
  <2>3. MoveBlock(blocks, b, a) = made
    BY <1>2 DEF MoveBlock
  <2>. HIDE DEF rest, block
  <2>4. /\ Ids(made) = Ids(rest) \union {b}
        /\ \A x, y : Before(rest, x, y) => Before(made, x, y)
        /\ a \in Ids(rest) => Before(made, a, b)
    BY <2>1, <2>2, InsertBehindInOrder
  <2>. HIDE DEF made
  <2>5. InOrder(blocks, made, b)
    BY <2>2, <2>4 DEF InOrder
  <2>. QED  BY <1>2, <2>2, <2>3, <2>4, <2>5
<1>. QED  BY <1>1, <1>2

-----------------------------------------------------------------------------
(* The order of blocks from a version to the next *)

Stays(ops, b) ==
    \A k \in About(ops, b) : ops[k].op \in {"replace_block", "replace_citations"}

\* Operation k is the last about the block it moves and the place it names,
\* and both are among ids.
MovesLast(ops, ids, k) ==
    /\ ops[k].op = "move_block"
    /\ ops[k].after_block_id \in ids \ {ops[k].block_id}
    /\ \A l \in About(ops, ops[k].block_id) : l <= k
    /\ \A l \in About(ops, ops[k].after_block_id) : l <= k
    /\ ops[k].block_id \in ids

Moved(ops, blocks) ==
    \A k \in DOMAIN ops : MovesLast(ops, Ids(blocks), k) =>
        Before(blocks, ops[k].after_block_id, ops[k].block_id)

Ordered(base, ops, blocks) ==
    \A x, y : Before(base, x, y) /\ Stays(ops, x) /\ Stays(ops, y) => Before(blocks, x, y)

\* Moves name blocks that have been committed, or none: never one inserted
\* later.
MovesAreNamed ==
    \A k \in DOMAIN job.operations : job.operations[k].op = "move_block" =>
        {job.operations[k].block_id, job.operations[k].after_block_id}
            \subseteq CommittedIds \union {NoBlock}

PlacesInv ==
    /\ job.base # 0 => Ordered(versions[job.base].blocks, job.operations, job.blocks)
    /\ Moved(job.operations, job.blocks)
    /\ MovesAreNamed
    /\ \A v \in Accepted :
          /\ Ordered(versions[versions[v].parent].blocks, versions[v].operations,
                     versions[v].blocks)
          /\ Moved(versions[v].operations, versions[v].blocks)

\* Operation op takes block b from its place.
Displaces(op, b) == op.op \in {"delete_block", "move_block"} /\ op.block_id = b

LEMMA AppendedOperation ==
    ASSUME NEW ops \in Seq(Operation), NEW op \in Operation, NEW b
    PROVE  LET more == Append(ops, op) IN
           /\ DOMAIN more = 1 .. Len(ops) + 1 /\ DOMAIN ops = 1 .. Len(ops)
           /\ \A k \in 1 .. Len(ops) : more[k] = ops[k]
           /\ more[Len(ops) + 1] = op
           /\ About(ops, b) \subseteq About(more, b)
           /\ op.op # "insert_after" /\ op.block_id = b => Len(ops) + 1 \in About(more, b)
<1>. DEFINE more == Append(ops, op)
<1>1. /\ DOMAIN more = 1 .. Len(ops) + 1
      /\ DOMAIN ops = 1 .. Len(ops)
      /\ \A k \in 1 .. Len(ops) : more[k] = ops[k]
      /\ more[Len(ops) + 1] = op
      /\ Len(ops) \in Nat
  OBVIOUS
<1>. HIDE DEF more
<1>2. About(ops, b) \subseteq About(more, b)
  BY <1>1 DEF About
<1>3. op.op # "insert_after" /\ op.block_id = b => Len(ops) + 1 \in About(more, b)
  BY <1>1 DEF About
<1>. QED  BY <1>1, <1>2, <1>3 DEF more

LEMMA StaysAppend ==
    ASSUME NEW ops \in Seq(Operation), NEW op \in Operation, NEW b,
           Stays(Append(ops, op), b)
    PROVE  Stays(ops, b) /\ ~Displaces(op, b)
<1>. DEFINE more == Append(ops, op)
<1>1. /\ DOMAIN ops = 1 .. Len(ops)
      /\ \A k \in 1 .. Len(ops) : more[k] = ops[k]
      /\ more[Len(ops) + 1] = op
      /\ About(ops, b) \subseteq About(more, b)
      /\ op.op # "insert_after" /\ op.block_id = b => Len(ops) + 1 \in About(more, b)
  BY AppendedOperation
<1>. HIDE DEF more
<1>2. Stays(more, b)
  BY DEF more
<1>3. Stays(ops, b)
  BY <1>1, <1>2 DEF Stays, About
<1>4. ~Displaces(op, b)
  BY <1>1, <1>2 DEF Stays, Displaces
<1>. QED  BY <1>3, <1>4

\* One pass of the loop: the list keeps the order of blocks that op does not
\* displace, and op stands as the last move if it is one.
LEMMA PlacesApply ==
    ASSUME IInv, PlacesInv, NEW op \in Operation, NEW blocks, Apply(op, blocks),
           \A x, y : Before(job.blocks, x, y) /\ ~Displaces(op, x) /\ ~Displaces(op, y)
                        => Before(blocks, x, y),
           \A x \in Ids(blocks) \ Ids(job.blocks) : x \notin CommittedIds \union {NoBlock},
           op.op = "move_block" =>
              /\ {op.block_id, op.after_block_id} \subseteq CommittedIds \union {NoBlock}
              /\ op.block_id \in Ids(blocks) /\ op.after_block_id \in Ids(blocks) \ {op.block_id}
                    => Before(blocks, op.after_block_id, op.block_id)
    PROVE  PlacesInv'
<1>. DEFINE ops == job.operations
            more == Append(ops, op)
<1>1. /\ versions' = versions /\ job.base # 0
      /\ job'.base = job.base /\ job'.operations = more /\ job'.blocks = blocks
      /\ ops \in Seq(Operation)
  BY DEF Apply, IInv, TypeOK
<1>2. /\ DOMAIN more = 1 .. Len(ops) + 1 /\ DOMAIN ops = 1 .. Len(ops)
      /\ \A k \in 1 .. Len(ops) : more[k] = ops[k]
      /\ more[Len(ops) + 1] = op
      /\ Len(ops) \in Nat
  BY <1>1, AppendedOperation
<1>3. \A b : /\ About(ops, b) \subseteq About(more, b)
             /\ op.op # "insert_after" /\ op.block_id = b => Len(ops) + 1 \in About(more, b)
  BY <1>1, AppendedOperation
<1>4. \A b : Stays(more, b) => Stays(ops, b) /\ ~Displaces(op, b)
  BY <1>1, StaysAppend
<1>. HIDE DEF more
<1>5. Ordered(versions[job.base].blocks, more, blocks)
  BY <1>1, <1>4 DEF PlacesInv, Ordered
<1>6. ASSUME NEW k \in 1 .. Len(ops) + 1, MovesLast(more, Ids(blocks), k)
      PROVE  Before(blocks, more[k].after_block_id, more[k].block_id)
  <2>1. CASE k = Len(ops) + 1
    BY <1>2, <1>6, <2>1 DEF MovesLast
  <2>2. CASE k \in 1 .. Len(ops)
    <3>. DEFINE a == ops[k].after_block_id
                b == ops[k].block_id
    <3>1. /\ more[k] = ops[k] /\ ops[k].op = "move_block"
          /\ a \in Ids(blocks) /\ b \in Ids(blocks) /\ a # b
          /\ \A l \in About(more, a) \union About(more, b) : l <= k
      BY <1>2, <1>6, <2>2 DEF MovesLast
    <3>2. {a, b} \subseteq CommittedIds \union {NoBlock}
      BY <1>2, <2>2, <3>1 DEF PlacesInv, MovesAreNamed
    <3>3. a \in Ids(job.blocks) /\ b \in Ids(job.blocks)
      BY <3>1, <3>2
    <3>4. MovesLast(ops, Ids(job.blocks), k)
      BY <1>3, <3>1, <3>3 DEF MovesLast
    <3>5. Before(job.blocks, a, b)
      BY <1>2, <2>2, <3>4 DEF PlacesInv, Moved
    <3>6. ~Displaces(op, a) /\ ~Displaces(op, b)
      <4>1. ~(Len(ops) + 1 <= k)
        BY <1>2, <2>2
      <4>2. Len(ops) + 1 \notin About(more, a) /\ Len(ops) + 1 \notin About(more, b)
        BY <3>1, <4>1
      <4>. QED  BY <1>3, <4>2 DEF Displaces
    <3>. HIDE DEF a, b
    <3>7. Before(blocks, a, b)
      BY <3>5, <3>6
    <3>. QED  BY <3>1, <3>7 DEF a, b
  <2>. QED  BY <1>2, <2>1, <2>2
<1>7. Moved(more, blocks)
  BY <1>2, <1>6 DEF Moved
<1>8. MovesAreNamed'
  <2>1. CommittedIds' = CommittedIds
    BY <1>1 DEF CommittedIds
  <2>2. \A k \in 1 .. Len(ops) + 1 : more[k].op = "move_block" =>
            {more[k].block_id, more[k].after_block_id} \subseteq CommittedIds \union {NoBlock}
    BY <1>2 DEF PlacesInv, MovesAreNamed
  <2>. QED  BY <1>1, <1>2, <2>1, <2>2 DEF MovesAreNamed
<1>. QED  BY <1>1, <1>5, <1>7, <1>8 DEF PlacesInv, Accepted

\* Nothing is in progress, or only just begun.
LEMMA PlacesAtRest ==
    ASSUME PlacesInv, versions' = versions, job'.operations = <<>>,
           job'.base # 0 => job'.blocks = versions[job'.base].blocks
    PROVE  PlacesInv'
BY DEF PlacesInv, Ordered, Moved, MovesAreNamed, Accepted

LEMMA PlacesCommit ==
    ASSUME IInv, PlacesInv, Commit
    PROVE  PlacesInv'
<1>. DEFINE n == Len(versions) + 1
<1>1. /\ versions' = Append(versions, NewVersion) /\ versions \in Seq(Version)
      /\ job'.base = 0 /\ job'.operations = <<>> /\ job.base \in 1 .. Len(versions)
  BY DEF Commit, Idle, IInv, IdleIsEmpty, TypeOK
<1>2. /\ DOMAIN versions' = 1 .. n /\ DOMAIN versions = 1 .. Len(versions)
      /\ \A v \in 1 .. Len(versions) : versions'[v] = versions[v]
      /\ versions'[n] = NewVersion
  BY <1>1
<1>3. ASSUME NEW v \in DOMAIN versions' \ {1}
      PROVE  /\ Ordered(versions'[versions'[v].parent].blocks, versions'[v].operations,
                        versions'[v].blocks)
             /\ Moved(versions'[v].operations, versions'[v].blocks)
  <2>1. CASE v = n
    <3>1. versions'[v] = NewVersion /\ versions'[job.base] = versions[job.base]
      BY <1>1, <1>2, <2>1
    <3>. QED  BY <1>1, <3>1 DEF NewVersion, PlacesInv
  <2>2. CASE v # n
    <3>1. v \in Accepted /\ versions'[v] = versions[v]
      BY <1>2, <2>2 DEF Accepted
    <3>2. versions[v].parent \in 1 .. Len(versions)
      BY <1>2, <3>1 DEF IInv, TypeOK, Accepted
    <3>3. versions'[versions[v].parent] = versions[versions[v].parent]
      BY <1>2, <3>2
    <3>. QED  BY <3>1, <3>3 DEF PlacesInv
  <2>. QED  BY <2>1, <2>2
<1>4. Moved(job'.operations, job'.blocks) /\ MovesAreNamed'
  BY <1>1 DEF Moved, MovesAreNamed
<1>. QED  BY <1>1, <1>3, <1>4 DEF PlacesInv, Accepted

LEMMA PlacesOperations ==
    ASSUME IInv, PlacesInv
    PROVE  /\ \A op \in Replacement : ApplyReplace(op) => PlacesInv'
           /\ \A op \in Deletion : ApplyDelete(op) => PlacesInv'
           /\ \A op \in Citing : ApplyCitations(op) => PlacesInv'
           /\ \A op \in Insertion, id \in BlockIds : ApplyInsert(op, id) => PlacesInv'
           /\ \A op \in Move : ApplyMove(op) => PlacesInv'
<1>1. job.blocks \in Seq(Block) /\ Distinct(job.blocks)
  BY DistinctEverywhere DEF IInv, TypeOK
<1>2. ASSUME NEW op \in Replacement, ApplyReplace(op)
      PROVE  PlacesInv'
  <2>. DEFINE made == ReplaceBlock(job.blocks, op.block_id, op.payload)
  <2>1. op \in Operation /\ op.op = "replace_block"
    BY DEF Operation, Replacement
  <2>2. Ids(made) = Ids(job.blocks) /\ \A x, y : Before(job.blocks, x, y) => Before(made, x, y)
    BY <1>1, ReplaceBlockInOrder
  <2>3. Apply(op, made)
    BY <1>2 DEF ApplyReplace
  <2>. HIDE DEF made
  <2>. QED  BY <2>1, <2>2, <2>3, PlacesApply
<1>3. ASSUME NEW op \in Deletion, ApplyDelete(op)
      PROVE  PlacesInv'
  <2>. DEFINE made == Without(job.blocks, op.block_id)
  <2>1. op \in Operation /\ op.op = "delete_block"
    BY DEF Operation, Deletion
  <2>2. Ids(made) \subseteq Ids(job.blocks) /\ InOrder(job.blocks, made, op.block_id)
    BY <1>1, WithoutKeeps, WithoutInOrder
  <2>3. Apply(op, made)
    BY <1>3 DEF ApplyDelete
  <2>. HIDE DEF made
  <2>. QED  BY <2>1, <2>2, <2>3, PlacesApply DEF InOrder, Displaces
<1>4. ASSUME NEW op \in Citing, ApplyCitations(op)
      PROVE  PlacesInv'
  <2>. DEFINE made == ReplaceCitations(job.blocks, op.block_id, op.citations)
  <2>1. op \in Operation /\ op.op = "replace_citations"
    BY DEF Operation, Citing
  <2>2. Ids(made) = Ids(job.blocks) /\ \A x, y : Before(job.blocks, x, y) => Before(made, x, y)
    BY <1>1, ReplaceCitationsInOrder
  <2>3. Apply(op, made)
    BY <1>4 DEF ApplyCitations
  <2>. HIDE DEF made
  <2>. QED  BY <2>1, <2>2, <2>3, PlacesApply
<1>5. ASSUME NEW op \in Insertion, NEW id \in BlockIds, ApplyInsert(op, id)
      PROVE  PlacesInv'
  <2>. DEFINE block == [id |-> id, payload |-> op.payload,
                        citations |-> op.payload.citations]
              made == InsertBehind(job.blocks, op.after_block_id, block)
  <2>1. op \in Operation /\ op.op = "insert_after" /\ block \in Block /\ block.id = id
    BY DEF Operation, Insertion, Payload, Block
  <2>2. Apply(op, made) /\ id \notin CommittedIds \union {NoBlock}
    BY <1>5, BlockIdsAssumption DEF ApplyInsert
  <2>. HIDE DEF block
  <2>3. Ids(made) = Ids(job.blocks) \union {id}
        /\ \A x, y : Before(job.blocks, x, y) => Before(made, x, y)
    BY <1>1, <2>1, InsertBehindInOrder
  <2>. HIDE DEF made
  <2>. QED  BY <2>1, <2>2, <2>3, PlacesApply
<1>6. ASSUME NEW op \in Move, ApplyMove(op)
      PROVE  PlacesInv'
  <2>. DEFINE made == MoveBlock(job.blocks, op.block_id, op.after_block_id)
  <2>1. op \in Operation /\ op.op = "move_block"
    BY DEF Operation, Move
  <2>2. /\ Ids(made) = Ids(job.blocks) /\ InOrder(job.blocks, made, op.block_id)
        /\ op.block_id \in Ids(job.blocks)
              /\ op.after_block_id \in Ids(job.blocks) \ {op.block_id}
           => Before(made, op.after_block_id, op.block_id)
    BY <1>1, MoveBlockInOrder
  <2>3. Apply(op, made) /\ op.after_block_id \in CommittedIds \union {NoBlock}
    BY <1>6 DEF ApplyMove
  <2>4. op.block_id \in CommittedIds
    <3>1. job.base \in DOMAIN versions /\ op.block_id \in Ids(versions[job.base].blocks)
      BY <1>6 DEF ApplyMove, KnownBlock, IInv, TypeOK
    <3>. QED  BY <3>1 DEF CommittedIds
  <2>. HIDE DEF made
  <2>. QED  BY <2>1, <2>2, <2>3, <2>4, PlacesApply DEF InOrder, Displaces
<1>. QED  BY <1>2, <1>3, <1>4, <1>5, <1>6

LEMMA PlacesInvariance == Spec => []PlacesInv
<1>1. Init => PlacesInv
  <2>. SUFFICES ASSUME Init
                PROVE  PlacesInv
    OBVIOUS
  <2>1. job.base = 0 /\ job.operations = <<>> /\ Accepted = {}
    BY DEF Init, Idle, Accepted
  <2>. QED  BY <2>1 DEF PlacesInv, Moved, MovesAreNamed
<1>2. IInv /\ PlacesInv /\ [Next]_vars => PlacesInv'
  <2>. SUFFICES ASSUME IInv, PlacesInv, [Next]_vars
                PROVE  PlacesInv'
    OBVIOUS
  <2>1. ASSUME NEW v \in DOMAIN versions, Begin(v)
        PROVE  PlacesInv'
    BY <2>1, PlacesAtRest DEF Begin, Idle
  <2>2. CASE Rollback
    BY <2>2, PlacesAtRest DEF Rollback, Idle
  <2>3. CASE UNCHANGED vars
    <3>1. versions' = versions /\ job' = job
      BY <2>3 DEF vars
    <3>. QED  BY <3>1 DEF PlacesInv, MovesAreNamed, CommittedIds, Accepted
  <2>. QED  BY <2>1, <2>2, <2>3, PlacesOperations, PlacesCommit DEF Next
<1>. QED  BY <1>1, <1>2, Invariance, PTL DEF Spec

LEMMA VersionsAreLists ==
    ASSUME IInv, NEW v \in Accepted
    PROVE  versions[v].blocks \in Seq(Block) /\ Distinct(versions[v].blocks)
<1>1. v \in DOMAIN versions
  BY DEF Accepted
<1>2. versions[v] \in Version
  BY <1>1 DEF IInv, TypeOK
<1>3. Distinct(versions[v].blocks)
  BY <1>1, DistinctEverywhere DEF IInv
<1>. QED  BY <1>2, <1>3 DEF Version

\* Blocks that a patch neither moves nor deletes stay in the order they had
\* (the loop of accept_patch).
THEOREM StayingBlocksInOrder == Spec => []OrderKept
<1>1. IInv /\ PlacesInv => OrderKept
  <2>. SUFFICES ASSUME IInv, PlacesInv, NEW v \in Accepted,
                       NEW i \in DOMAIN versions[versions[v].parent].blocks,
                       NEW j \in DOMAIN versions[versions[v].parent].blocks,
                       i < j,
                       Stays(versions[v].operations, versions[versions[v].parent].blocks[i].id),
                       Stays(versions[v].operations, versions[versions[v].parent].blocks[j].id)
                PROVE  Position(versions[v].blocks, versions[versions[v].parent].blocks[i].id)
                         < Position(versions[v].blocks, versions[versions[v].parent].blocks[j].id)
    BY DEF OrderKept, Stays
  <2>. DEFINE base == versions[versions[v].parent].blocks
              x == base[i].id
              y == base[j].id
  <2>1. Before(base, x, y)
    BY DEF Before
  <2>2. versions[v].blocks \in Seq(Block) /\ Distinct(versions[v].blocks)
    BY VersionsAreLists
  <2>3. Before(versions[v].blocks, x, y)
    BY <2>1 DEF PlacesInv, Ordered
  <2>. HIDE DEF x, y
  <2>4. Position(versions[v].blocks, x) < Position(versions[v].blocks, y)
    BY <2>2, <2>3, BeforeIsPosition
  <2>. QED  BY <2>4 DEF x, y
<1>. QED  BY <1>1, Invariance, PlacesInvariance, PTL

\* A block that was moved behind another stands behind it, unless a later
\* operation of the patch is about one of the two (move_block).
THEOREM MovedBlocksBehindAnchor == Spec => []MovedBehindAnchor
<1>1. IInv /\ PlacesInv => MovedBehindAnchor
  <2>. SUFFICES ASSUME IInv, PlacesInv, NEW v \in Accepted,
                       NEW k \in DOMAIN versions[v].operations,
                       MovesLast(versions[v].operations, Ids(versions[v].blocks), k)
                PROVE  Position(versions[v].blocks, versions[v].operations[k].after_block_id)
                         < Position(versions[v].blocks, versions[v].operations[k].block_id)
    BY DEF MovedBehindAnchor, MovesLast
  <2>. DEFINE x == versions[v].operations[k].after_block_id
              y == versions[v].operations[k].block_id
  <2>1. versions[v].blocks \in Seq(Block) /\ Distinct(versions[v].blocks)
    BY VersionsAreLists
  <2>2. Before(versions[v].blocks, x, y)
    BY DEF PlacesInv, Moved
  <2>. HIDE DEF x, y
  <2>3. Position(versions[v].blocks, x) < Position(versions[v].blocks, y)
    BY <2>1, <2>2, BeforeIsPosition
  <2>. QED  BY <2>3 DEF x, y
<1>. QED  BY <1>1, Invariance, PlacesInvariance, PTL
=============================================================================
