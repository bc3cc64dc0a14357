---------------------------- MODULE ContentBlocks ---------------------------
(***************************************************************************)
(* What the operations of a patch do to the blocks of a version            *)
(* (services.py: validate_patch_operations and the loop of accept_patch).  *)
(*                                                                         *)
(* ContentReview says which patches are decided, and in which order; here  *)
(* a version is a list of blocks and an accept a list of operations, one   *)
(* step each, so that what an operation leaves behind for the next one can *)
(* be stated.  Operations are validated against the base version alone, so *)
(* choosing each when it is applied gives the patches a client can store.  *)
(***************************************************************************)
EXTENDS Naturals, Sequences, SequencesExt

CONSTANTS
    BlockIds,           \* identifiers new_id("blk") may return
    Texts,              \* what a payload may say
    Sources,            \* source versions of the workspace
    Pinned,             \* those the project's configuration selects
    MaxVersions,        \* bound: versions of the project
    MaxOperations       \* bound: operations of all patches together

VARIABLES
    versions,           \* committed versions, each with the patch that made it
    job                 \* the accept in progress and its working copy

vars == <<versions, job>>

NoBlock == "none"       \* after_block_id or block_id is absent
ASSUME BlockIdsAssumption == NoBlock \notin BlockIds
ASSUME PinnedAssumption == Pinned \subseteq Sources

Payload == [text : Texts, citations : SUBSET Sources]

Block == [id : BlockIds, payload : Payload, citations : SUBSET Sources]

\* The operations of each kind, with the fields that kind uses.
Replacement == [op : {"replace_block"}, block_id : BlockIds, payload : Payload]
Deletion == [op : {"delete_block"}, block_id : BlockIds]
Citing == [op : {"replace_citations"}, block_id : BlockIds,
           citations : SUBSET Sources]
Insertion == [op : {"insert_after"}, after_block_id : BlockIds \union {NoBlock},
              payload : Payload, citations : SUBSET Sources]
Move == [op : {"move_block"}, block_id : BlockIds,
         after_block_id : BlockIds \union {NoBlock}]

Operation == Replacement \union Deletion \union Citing \union Insertion \union Move

Version == [parent : Nat, operations : Seq(Operation), blocks : Seq(Block)]

\* create_project commits a version without blocks.
Root == [parent |-> 0, operations |-> <<>>, blocks |-> <<>>]

\* base 0: no accept is in progress.
Idle == [base |-> 0, operations |-> <<>>, blocks |-> <<>>]

Ids(blocks) == {blocks[i].id : i \in DOMAIN blocks}

\* Where a block stands, in a list that has it.
Position(blocks, b) == CHOOSE i \in DOMAIN blocks : blocks[i].id = b

CommittedIds == UNION {Ids(versions[v].blocks) : v \in DOMAIN versions}

\* Rows have their types; every version but the first has an earlier one
\* as parent, and an accept in progress a version as base.
TypeOK ==
    /\ versions \in Seq(Version)
    /\ job \in [base : Nat, operations : Seq(Operation), blocks : Seq(Block)]
    /\ \A v \in DOMAIN versions \ {1} : versions[v].parent \in 1 .. (v - 1)
    /\ job.base \in 0 .. Len(versions)

Init ==
    /\ versions = <<Root>>
    /\ job = Idle

-----------------------------------------------------------------------------
\* Identifiers are looked up in the base version only: what earlier operations
\* removed is not considered, nor the place a block is moved to, nor the
\* citations inside a payload.
KnownBlock(b) == job.base # 0 /\ b \in Ids(versions[job.base].blocks)

CitationsAllowed(c) == c \subseteq Pinned

\* A fault: the block that stands where the named one stood in the base.
ReplaceBlockByOrder(blocks, b, p) ==
    [i \in DOMAIN blocks |->
        IF i = Position(versions[job.base].blocks, b)
        THEN [blocks[i] EXCEPT !.payload = p] ELSE blocks[i]]

ReplaceBlock(blocks, b, p) ==
    [i \in DOMAIN blocks |->
        IF blocks[i].id = b THEN [blocks[i] EXCEPT !.payload = p] ELSE blocks[i]]

ReplaceCitations(blocks, b, c) ==
    [i \in DOMAIN blocks |->
        IF blocks[i].id = b THEN [blocks[i] EXCEPT !.citations = c] ELSE blocks[i]]

\* Identifiers are distinct, so the filter drops one block at most.
Without(blocks, b) ==
    IF b \in Ids(blocks) THEN RemoveAt(blocks, Position(blocks, b)) ELSE blocks

\* A fault: the place of the anchor, not the one behind it.
InsertionPointBefore(blocks, a) ==
    IF a \in Ids(blocks) THEN Position(blocks, a) ELSE Len(blocks) + 1

\* Behind the anchor; at the end if there is none or it is gone.
InsertionPoint(blocks, a) ==
    IF a \in Ids(blocks) THEN Position(blocks, a) + 1 ELSE Len(blocks) + 1

InsertBehind(blocks, a, block) == InsertAt(blocks, InsertionPoint(blocks, a), block)

\* A fault: the block is inserted and not removed.
MoveByCopy(blocks, b, a) ==
    IF b \in Ids(blocks)
    THEN InsertBehind(blocks, a, blocks[Position(blocks, b)])
    ELSE blocks

\* A fault: the block and its anchor change places.
MoveBySwap(blocks, b, a) ==
    IF {a, b} \subseteq Ids(blocks)
    THEN [blocks EXCEPT ![Position(blocks, a)] = blocks[Position(blocks, b)],
                        ![Position(blocks, b)] = blocks[Position(blocks, a)]]
    ELSE blocks

\* The block leaves the list before its anchor is looked up.
MoveBlock(blocks, b, a) ==
    IF b \in Ids(blocks)
    THEN InsertBehind(Without(blocks, b), a, blocks[Position(blocks, b)])
    ELSE blocks

-----------------------------------------------------------------------------
\* accept_patch copies the blocks of the patch's base, which reviewers that
\* read the pointer at different times may have at any version.
Begin(v) ==
    /\ job.base = 0
    /\ Len(versions) < MaxVersions
    /\ job' = [Idle EXCEPT !.base = v, !.blocks = versions[v].blocks]
    /\ UNCHANGED versions

Applied ==
    Len(job.operations)
        + FoldLeft(LAMBDA n, v : n + Len(v.operations), 0, versions)

\* One pass of the loop: op leaves the list blocks.
Apply(op, blocks) ==
    /\ job.base # 0
    /\ Applied < MaxOperations
    /\ job' = [job EXCEPT !.operations = Append(job.operations, op),
                         !.blocks = blocks]
    /\ UNCHANGED versions

ApplyReplace(op) ==
    /\ KnownBlock(op.block_id)
    /\ Apply(op, ReplaceBlock(job.blocks, op.block_id, op.payload))

ApplyDelete(op) ==
    /\ KnownBlock(op.block_id)
    /\ Apply(op, Without(job.blocks, op.block_id))

ApplyCitations(op) ==
    /\ KnownBlock(op.block_id)
    /\ CitationsAllowed(op.citations)
    /\ Apply(op, ReplaceCitations(job.blocks, op.block_id, op.citations))

\* The new block has the citations of the payload, not of the operation.
ApplyInsert(op, id) ==
    /\ op.after_block_id = NoBlock \/ KnownBlock(op.after_block_id)
    /\ CitationsAllowed(op.citations)
    /\ id \notin CommittedIds \union Ids(job.blocks)
    /\ Apply(op, InsertBehind(job.blocks, op.after_block_id,
             [id |-> id, payload |-> op.payload,
              citations |-> op.payload.citations]))

\* The place is not validated; a client can name a block of any version, and
\* a name that was never given to a block is like none.
ApplyMove(op) ==
    /\ KnownBlock(op.block_id)
    /\ op.after_block_id \in CommittedIds \union {NoBlock}
    /\ Apply(op, MoveBlock(job.blocks, op.block_id, op.after_block_id))

\* A fault: the version is linked to the pointer it has just become.
NewVersionOfItself ==
    [parent |-> Len(versions) + 1, operations |-> job.operations,
     blocks |-> job.blocks]

NewVersion ==
    [parent |-> job.base, operations |-> job.operations, blocks |-> job.blocks]

\* The copy is stored, with order_no the place in the list.
Commit ==
    /\ job.operations # <<>>
    /\ versions' = Append(versions, NewVersion)
    /\ job' = Idle

\* The transaction is rolled back: the number was taken or the process died.
Rollback ==
    /\ job.base # 0
    /\ job' = Idle
    /\ UNCHANGED versions

Next ==
    \/ \E v \in DOMAIN versions : Begin(v)
    \/ \E op \in Replacement : ApplyReplace(op)
    \/ \E op \in Deletion : ApplyDelete(op)
    \/ \E op \in Citing : ApplyCitations(op)
    \/ \E op \in Insertion, id \in BlockIds : ApplyInsert(op, id)
    \/ \E op \in Move : ApplyMove(op)
    \/ Commit
    \/ Rollback

Spec == Init /\ [][Next]_vars

-----------------------------------------------------------------------------
(* What every version keeps of the version it was made from *)

\* No list has a block twice, so that (content_version_id, id) is a key:
\* the working copy is inserted row by row without a look.
DistinctBlockIds ==
    \A blocks \in {job.blocks} \union {versions[v].blocks : v \in DOMAIN versions} :
        \A i, j \in DOMAIN blocks : blocks[i].id = blocks[j].id => i = j

\* The operations of a patch that are about block b.
About(operations, b) ==
    {k \in DOMAIN operations :
        operations[k].op # "insert_after" /\ operations[k].block_id = b}

\* Versions other than the first.
Accepted == DOMAIN versions \ {1}

\* A block no operation of the patch names is taken over as it is, whatever
\* the operations around it do to the list.
UntouchedBlocksKept ==
    \A v \in Accepted :
        LET base == versions[versions[v].parent].blocks
        IN  \A i \in DOMAIN base : About(versions[v].operations, base[i].id) = {} =>
                \E j \in DOMAIN versions[v].blocks : versions[v].blocks[j] = base[i]

\* Blocks that are neither moved nor deleted stay in the order they had.
OrderKept ==
    \A v \in Accepted :
        LET base == versions[versions[v].parent].blocks
            made == versions[v]
            Stays(b) == \A k \in About(made.operations, b) :
                made.operations[k].op \in {"replace_block", "replace_citations"}
        IN  \A i, j \in DOMAIN base :
                i < j /\ Stays(base[i].id) /\ Stays(base[j].id) =>
                    Position(made.blocks, base[i].id) < Position(made.blocks, base[j].id)

\* A block that was moved behind another stands behind it in the version,
\* unless a later operation of the patch is about one of the two.
MovedBehindAnchor ==
    \A v \in Accepted :
        LET made == versions[v]
            LastAbout(k, b) == \A l \in About(made.operations, b) : l <= k
        IN  \A k \in DOMAIN made.operations :
                LET op == made.operations[k]
                IN  /\ op.op = "move_block"
                    /\ op.after_block_id \in Ids(made.blocks) \ {op.block_id}
                    /\ LastAbout(k, op.block_id)
                    /\ LastAbout(k, op.after_block_id)
                    /\ op.block_id \in Ids(made.blocks)
                    => Position(made.blocks, op.after_block_id)
                         < Position(made.blocks, op.block_id)

-----------------------------------------------------------------------------
(* What the proposal tool relies on and accept_patch does not do *)

\* The citations an insertion was validated with are on the block it becomes:
\* stated for patches of insertions only, where nothing can replace them.
ProposedCitationsKept ==
    \A v \in Accepted :
        LET made == versions[v]
        IN  (\A k \in DOMAIN made.operations : made.operations[k].op = "insert_after")
            => \A k \in DOMAIN made.operations : \E j \in DOMAIN made.blocks :
                  /\ made.blocks[j].payload = made.operations[k].payload
                  /\ made.operations[k].citations \subseteq made.blocks[j].citations
=============================================================================
