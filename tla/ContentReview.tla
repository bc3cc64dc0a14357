--------------------------- MODULE ContentReview ----------------------------
(***************************************************************************)
(* Proposal and decision of content patches for one project                *)
(* (services.py: create_patch, accept_patch, reject_patch).                *)
(*                                                                         *)
(* The database rows are shared; every request thread works on what its    *)
(* own session has loaded.  Sessions neither autoflush nor expire their    *)
(* rows (db.py build_session_factory) and the database runs READ           *)
(* COMMITTED, so a handler is a sequence of reads, each of the state       *)
(* committed at that time, and one commit that checks unique constraints   *)
(* only.  The reads that a concurrent commit can separate are the steps.   *)
(***************************************************************************)
EXTENDS Naturals, FiniteSets, FiniteSetsExt

CONSTANTS
    Patches,            \* identifiers new_id("pat") may return
    Reviewers           \* request threads that decide patches

VARIABLES
    versions,           \* rows of content_versions
    head,               \* projects.current_content_version_id, as version_no
    patch,              \* patch identifier -> row of patches
    request             \* reviewer thread -> its handler and loaded values

vars == <<versions, head, patch, request>>

NoPatch == "none"       \* accepted_patch_id of the version nobody accepted
ASSUME PatchesAssumption == NoPatch \notin Patches

Root == [no |-> 1, parent |-> 0, patch |-> NoPatch]

PatchStatus == {"absent", "presented", "accepted", "rejected", "conflicted"}

Step == {"idle", "loaded", "stale", "checked", "numbered", "rejecting"}

Version == [no : Nat \ {0}, parent : Nat, patch : Patches \union {NoPatch}]

Idle == [step |-> "idle", patch |-> NoPatch, expected |-> 0, next |-> 0]

\* Rows and loaded values have their types; a busy thread holds a known patch.
TypeOK ==
    /\ versions \subseteq Version
    /\ head \in Nat \ {0}
    /\ patch \in [Patches -> [status : PatchStatus, base : Nat]]
    /\ request \in [Reviewers -> [step : Step, patch : Patches \union {NoPatch},
                                  expected : Nat, next : Nat]]
    /\ \A q \in Reviewers : request[q].step # "idle" =>
          /\ request[q].patch \in Patches
          /\ patch[request[q].patch].status # "absent"

-----------------------------------------------------------------------------
\* create_project commits version 1, empty and already accepted.
Init ==
    /\ versions = {Root}
    /\ head = 1
    /\ patch = [p \in Patches |-> [status |-> "absent", base |-> 0]]
    /\ request = [q \in Reviewers |-> Idle]

VersionNos == {v.no : v \in versions}

MaxVersionNo == Max(VersionNos)

\* A fault: the constraint of the schema is missing.
FreeVersionNoUnchecked(n) == TRUE

\* uq_content_version: no other row of the project has this version_no.
FreeVersionNo(n) == n \notin VersionNos

\* What thread q's handler has loaded: patch p, expected version x, number n.
Hold(q, step, p, x, n) ==
    request' = [request EXCEPT ![q] =
        [step |-> step, patch |-> p, expected |-> x, next |-> n]]

Done(q) == request' = [request EXCEPT ![q] = Idle]

\* create_patch validates the operations against the base the client names,
\* which may be any version of the project, and commits a presented row.
CreatePatch(p) ==
    /\ patch[p].status = "absent"
    /\ \E b \in VersionNos :
          patch' = [patch EXCEPT ![p] = [status |-> "presented", base |-> b]]
    /\ UNCHANGED <<versions, head, request>>

\* accept_patch loads the patch row.  An accepted one is answered without a
\* write and any other that is not presented is refused: neither is a step.
\* The client may expect a version the project does not have (number 0).
AcceptLoad(q, p) ==
    /\ request[q].step = "idle"
    /\ patch[p].status = "presented"
    /\ \E x \in VersionNos \union {0} : Hold(q, "loaded", p, x, 0)
    /\ UNCHANGED <<versions, head, patch>>

\* A fault: only the reviewer's expectation is compared with the pointer.
UpToDateByExpectation(q) == head = request[q].expected

\* The three-way comparison of the project's pointer, the version the
\* reviewer expects and the patch's base.
UpToDate(q) ==
    /\ head = request[q].expected
    /\ request[q].expected = patch[request[q].patch].base

\* The project row is read; the comparison decides which way the handler goes.
AcceptCheck(q) ==
    /\ request[q].step = "loaded"
    /\ \/ /\ UpToDate(q)
          /\ Hold(q, "checked", request[q].patch, request[q].expected, 0)
       \/ /\ ~UpToDate(q)
          /\ Hold(q, "stale", request[q].patch, 0, 0)
    /\ UNCHANGED <<versions, head, patch>>

\* A stale proposal is committed as conflicted and answered with 409.
AcceptConflict(q) ==
    /\ request[q].step = "stale"
    /\ patch' = [patch EXCEPT ![request[q].patch].status = "conflicted"]
    /\ Done(q)
    /\ UNCHANGED <<versions, head>>

\* max(version_no) is a query of its own and sees what was committed since
\* the project row was read.
AcceptNumber(q) ==
    /\ request[q].step = "checked"
    /\ Hold(q, "numbered", request[q].patch, request[q].expected,
            MaxVersionNo + 1)
    /\ UNCHANGED <<versions, head, patch>>

\* A fault: the new version is linked to the pointer, not to the base.
NewVersionOnHead(q, n) ==
    [no |-> n, parent |-> head, patch |-> request[q].patch]

\* A fault: the new version is committed without its parent.
NewVersionOrphan(q, n) ==
    [no |-> n, parent |-> 0, patch |-> request[q].patch]

\* The row accept_patch inserts as version n for the patch of thread q.
NewVersion(q, n) ==
    [no |-> n, parent |-> patch[request[q].patch].base,
     patch |-> request[q].patch]

\* One transaction inserts the version, moves the pointer and decides the
\* patch; the unique constraint is the only condition it is subject to.
AcceptCommit(q) ==
    /\ request[q].step = "numbered"
    /\ FreeVersionNo(request[q].next)
    /\ versions' = versions \union {NewVersion(q, request[q].next)}
    /\ head' = request[q].next
    /\ patch' = [patch EXCEPT ![request[q].patch].status = "accepted"]
    /\ Done(q)

\* A fault: the patch whose insert was refused is offered for review again.
AcceptDuplicateReopens(q) ==
    /\ request[q].step = "numbered"
    /\ ~FreeVersionNo(request[q].next)
    /\ patch' = [patch EXCEPT ![request[q].patch].status = "presented"]
    /\ Done(q)
    /\ UNCHANGED <<versions, head>>

\* The insert violates the constraint: the transaction is rolled back.
AcceptDuplicate(q) ==
    /\ request[q].step = "numbered"
    /\ ~FreeVersionNo(request[q].next)
    /\ Done(q)
    /\ UNCHANGED <<versions, head, patch>>

RejectLoad(q, p) ==
    /\ request[q].step = "idle"
    /\ patch[p].status = "presented"
    /\ Hold(q, "rejecting", p, 0, 0)
    /\ UNCHANGED <<versions, head, patch>>

RejectCommit(q) ==
    /\ request[q].step = "rejecting"
    /\ patch' = [patch EXCEPT ![request[q].patch].status = "rejected"]
    /\ Done(q)
    /\ UNCHANGED <<versions, head>>

\* The process dies or the client's request is torn down before its commit.
Abandon(q) ==
    /\ request[q].step # "idle"
    /\ Done(q)
    /\ UNCHANGED <<versions, head, patch>>

Next ==
    \/ \E p \in Patches : CreatePatch(p)
    \/ \E q \in Reviewers, p \in Patches : AcceptLoad(q, p) \/ RejectLoad(q, p)
    \/ \E q \in Reviewers :
          \/ AcceptCheck(q) \/ AcceptConflict(q) \/ AcceptNumber(q)
          \/ AcceptCommit(q) \/ AcceptDuplicate(q)
          \/ RejectCommit(q) \/ Abandon(q)

Spec == Init /\ [][Next]_vars

-----------------------------------------------------------------------------
(* Safety under every interleaving of reviewers *)

\* The canonical pointer is the newest version and the numbers below it have
\* no gap: a slow accept can never move the pointer back.
HeadIsNewest == VersionNos = 1 .. head

\* Every version descends from version 1 along smaller numbers and was made
\* by accepting a patch that was written against its parent.
LineageRooted ==
    \A v \in versions : v # Root =>
        /\ v.parent \in 1 .. (v.no - 1)
        /\ v.patch \in Patches
        /\ patch[v.patch].base = v.parent

\* The versions the replay branch of accept_patch selects for a patch: those
\* made on the patch's base, by whatever patch; it answers with the newest.
ReplayCandidates(p) == {v \in versions : v.parent = patch[p].base}

\* Accepting an accepted patch again finds the version its own acceptance has
\* made: the INTERNAL_ERROR branch of accept_patch is unreachable, and nothing
\* that other threads decide afterwards takes the answer away.
ReplayFindsOwnVersion ==
    \A p \in Patches : patch[p].status = "accepted" =>
        \E v \in ReplayCandidates(p) : v.patch = p

-----------------------------------------------------------------------------
(* What the documents promise and concurrent reviewers break *)

\* "stale concurrent accept conflicts": no version is superseded twice, so no
\* accepted change is missing from the content that follows it.
NoSilentOverwrite ==
    \A v, w \in versions : v.parent = w.parent => v = w

\* The replay answers what the first accept answered: the newest version made
\* on the base is the patch's own.  Two accepts that raced on one base break it.
ReplayAnswersOwn ==
    \A p \in Patches : patch[p].status = "accepted" =>
        \A v \in ReplayCandidates(p) :
            v.no = Max({w.no : w \in ReplayCandidates(p)}) => v.patch = p

-----------------------------------------------------------------------------
(* The abstract content history the rows implement *)

VersionNumbered(n) == CHOOSE v \in versions : v.no = n

Canonical == INSTANCE CanonicalContent WITH
    history <- [n \in 1 .. Cardinality(versions) - 1 |->
                    VersionNumbered(n + 1).patch],
    verdict <- [p \in Patches |->
                    CASE patch[p].status = "absent"    -> "unknown"
                      [] patch[p].status = "presented" -> "open"
                      [] OTHER                         -> patch[p].status],
    basedOn <- [p \in Patches |->
                    IF patch[p].status = "absent" THEN 0 ELSE patch[p].base - 1]

\* With a single reviewer thread every behaviour is one of CanonicalContent:
\* a patch enters the history only on the version it was written for.
ImplementsCanonicalContent == Canonical!CanonicalSpec

\* However many threads decide, the content is an append-only history: a late
\* accept_patch adds to what another has committed and never replaces it.
ImplementsAppendOnlyHistory == Canonical!AppendOnlySpec
=============================================================================
