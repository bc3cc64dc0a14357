-------------------------- MODULE CanonicalContent --------------------------
(***************************************************************************)
(* What the review component promises about one project's canonical        *)
(* content, independently of how it is stored: the accepted patches form   *)
(* one linear history, every patch is decided at most once, and a patch    *)
(* enters the history only on top of the version it was written against.  *)
(*                                                                         *)
(* Version 0 of the history is the empty version that create_project       *)
(* commits; accepting the n-th patch makes version n.                      *)
(***************************************************************************)
EXTENDS Naturals, Sequences

CONSTANT Patches        \* patch identifiers

VARIABLES
    history,            \* the accepted patches, oldest first
    verdict,            \* patch -> what has been decided about it
    basedOn             \* patch -> length of the history it was written for

canonicalVars == <<history, verdict, basedOn>>

Verdicts == {"unknown", "open", "accepted", "rejected", "conflicted"}

CanonicalInit ==
    /\ history = <<>>
    /\ verdict = [p \in Patches |-> "unknown"]
    /\ basedOn = [p \in Patches |-> 0]

\* A patch is written against some version of the history, old ones included.
Propose(p) ==
    /\ verdict[p] = "unknown"
    /\ verdict' = [verdict EXCEPT ![p] = "open"]
    /\ \E n \in 0 .. Len(history) : basedOn' = [basedOn EXCEPT ![p] = n]
    /\ UNCHANGED history

\* An open patch written against the newest version becomes the next one.
Commit(p) ==
    /\ verdict[p] = "open"
    /\ basedOn[p] = Len(history)
    /\ history' = Append(history, p)
    /\ verdict' = [verdict EXCEPT ![p] = "accepted"]
    /\ UNCHANGED basedOn

\* Any other decision leaves the history alone.
Decline(p) ==
    /\ verdict[p] = "open"
    /\ \E v \in {"rejected", "conflicted"} :
          verdict' = [verdict EXCEPT ![p] = v]
    /\ UNCHANGED <<history, basedOn>>

CanonicalNext ==
    \E p \in Patches : Propose(p) \/ Commit(p) \/ Decline(p)

CanonicalSpec == CanonicalInit /\ [][CanonicalNext]_canonicalVars

-----------------------------------------------------------------------------
(* What is left of it while decisions overlap *)

\* A decision that was started earlier: the patch may have been decided since,
\* and the history may be longer than the one the patch was written for.
CommitLate(p) ==
    /\ verdict[p] # "unknown"
    /\ basedOn[p] <= Len(history)
    /\ history' = Append(history, p)
    /\ verdict' = [verdict EXCEPT ![p] = "accepted"]
    /\ UNCHANGED basedOn

DeclineLate(p) ==
    /\ verdict[p] # "unknown"
    /\ \E v \in {"rejected", "conflicted"} :
          verdict' = [verdict EXCEPT ![p] = v]
    /\ UNCHANGED <<history, basedOn>>

AppendOnlyNext ==
    \E p \in Patches : Propose(p) \/ CommitLate(p) \/ DeclineLate(p)

\* Nothing leaves the history or moves in it, a proposal keeps the version it
\* was written for, and a patch that was decided is never open again.
AppendOnlySpec == CanonicalInit /\ [][AppendOnlyNext]_canonicalVars
=============================================================================
