------------------------------- MODULE Outbox -------------------------------
(***************************************************************************)
(* The transactional outbox: transactions insert rows with what they       *)
(* commit (application/events.py), publishers deliver them to a webhook in *)
(* batches, oldest first, and mark them (outbox.py and                     *)
(* scripts/outbox_worker.py).                                              *)
(*                                                                         *)
(* A publisher takes no lock, so two of them may have the same row.  The   *)
(* count of attempts, which nothing reads, is left out.                    *)
(***************************************************************************)
EXTENDS Naturals, FiniteSets

CONSTANTS
    Messages,       \* rows of outbox_messages, numbers in the order of created_at
    Rejected,       \* those the sink answers with 4xx, whenever it gets them
    Publishers,     \* outbox workers
    Limit,          \* rows a publisher takes at once; 100 in the code
    MaxFaults       \* bound: outages, late answers and dead publishers

VARIABLES
    message,        \* absent, pending (published_at is NULL) or published
    publisher,      \* publisher -> the rows it has read and what it does
    delivered,      \* message -> how often the sink has taken it
    faults          \* outages, late answers and dead publishers so far

vars == <<message, publisher, delivered, faults>>

ASSUME OutboxAssumption ==
    /\ Messages \subseteq Nat
    /\ Rejected \subseteq Messages
    /\ IsFiniteSet(Publishers)
    /\ Limit \in Nat \ {0}
    /\ MaxFaults \in Nat

Publisher == [pc : {"idle", "working", "sent"}, batch : SUBSET Messages]

\* Rows and batches have their types.
TypeOK ==
    /\ message \in [Messages -> {"absent", "pending", "published"}]
    /\ publisher \in [Publishers -> Publisher]
    /\ delivered \in [Messages -> Nat]
    /\ faults \in Nat

Idle == [pc |-> "idle", batch |-> {}]

Init ==
    /\ message = [m \in Messages |-> "absent"]
    /\ publisher = [p \in Publishers |-> Idle]
    /\ delivered = [m \in Messages |-> 0]
    /\ faults = 0

\* A transaction commits a row.  Rows get created_at before they are
\* committed, so an older row may be committed after a newer one.
Commit(m) ==
    /\ message[m] = "absent"
    /\ message' = [message EXCEPT ![m] = "pending"]
    /\ UNCHANGED <<publisher, delivered, faults>>

Pending == {m \in Messages : message[m] = "pending"}

\* A fault: a publisher does not ask whether a row is published.
PollsAll(p, batch) ==
    /\ publisher[p].pc = "idle"
    /\ batch # {}
    /\ batch \subseteq {m \in Messages : message[m] # "absent"}
    /\ Cardinality(batch) <= Limit
    /\ publisher' = [publisher EXCEPT ![p] = [pc |-> "working", batch |-> batch]]
    /\ UNCHANGED <<message, delivered, faults>>

\* A fault: one row is taken, whichever the database returns first.
PollsAny(p, batch) ==
    /\ publisher[p].pc = "idle"
    /\ \E m \in Pending : batch = {m}
    /\ publisher' = [publisher EXCEPT ![p] = [pc |-> "working", batch |-> batch]]
    /\ UNCHANGED <<message, delivered, faults>>

\* A publisher reads the oldest Limit rows that are not published.
Polls(p, batch) ==
    /\ publisher[p].pc = "idle"
    /\ batch # {}
    /\ batch \subseteq Pending
    /\ Cardinality(batch) <= Limit
    /\ Cardinality(batch) < Limit => batch = Pending
    /\ \A m \in batch, n \in Pending \ batch : m < n
    /\ publisher' = [publisher EXCEPT ![p] = [pc |-> "working", batch |-> batch]]
    /\ UNCHANGED <<message, delivered, faults>>

\* The row publisher p comes to.
At(p, m) == m \in publisher[p].batch /\ \A n \in publisher[p].batch : m <= n

Proceeds(p, m) ==
    LET rest == publisher[p].batch \ {m} IN
    publisher' = [publisher EXCEPT ![p] =
        IF rest = {} THEN Idle ELSE [pc |-> "working", batch |-> rest]]

Taken(m) == delivered' = [delivered EXCEPT ![m] = @ + 1]

Fault == faults < MaxFaults /\ faults' = faults + 1

\* The sink answers 2xx.
Delivers(p, m) ==
    /\ publisher[p].pc = "working" /\ At(p, m)
    /\ m \notin Rejected
    /\ Taken(m)
    /\ publisher' = [publisher EXCEPT ![p].pc = "sent"]
    /\ UNCHANGED <<message, faults>>

\* The mark is committed, row by row.
Marks(p, m) ==
    /\ publisher[p].pc = "sent" /\ At(p, m)
    /\ message' = [message EXCEPT ![m] = "published"]
    /\ Proceeds(p, m)
    /\ UNCHANGED <<delivered, faults>>

\* A fault: the commit of a failed attempt takes the mark with it.
RefusedMarked(p, m) ==
    /\ publisher[p].pc = "working" /\ At(p, m)
    /\ \/ m \in Rejected /\ UNCHANGED faults
       \/ m \notin Rejected /\ Fault
    /\ message' = [message EXCEPT ![m] = "published"]
    /\ Proceeds(p, m)
    /\ UNCHANGED delivered

\* The sink rejects the row or is not available: the row stays pending and
\* the publisher goes on with the next one.
Refused(p, m) ==
    /\ publisher[p].pc = "working" /\ At(p, m)
    /\ \/ m \in Rejected /\ UNCHANGED faults
       \/ m \notin Rejected /\ Fault
    /\ Proceeds(p, m)
    /\ UNCHANGED <<message, delivered>>

\* The sink takes the row, but the answer comes after the timeout.
AnsweredLate(p, m) ==
    /\ publisher[p].pc = "working" /\ At(p, m)
    /\ m \notin Rejected
    /\ Fault
    /\ Taken(m)
    /\ Proceeds(p, m)
    /\ UNCHANGED message

\* A publisher dies, between a delivery and its mark too.
Dies(p) ==
    /\ publisher[p].pc # "idle"
    /\ Fault
    /\ publisher' = [publisher EXCEPT ![p] = Idle]
    /\ UNCHANGED <<message, delivered>>

Publish(p) ==
    \/ \E batch \in SUBSET Messages : Polls(p, batch)
    \/ \E m \in Messages :
        Delivers(p, m) \/ Marks(p, m) \/ Refused(p, m) \/ AnsweredLate(p, m)

Next ==
    \/ \E m \in Messages : Commit(m)
    \/ \E p \in Publishers : Publish(p) \/ Dies(p)

Spec == Init /\ [][Next]_vars

\* Workers poll at an interval and are started again when they die.
FairSpec == Spec /\ \A p \in Publishers : WF_vars(Publish(p))

-----------------------------------------------------------------------------
\* A row is marked only when the sink has taken it: no crash, outage or
\* second publisher loses a message.
PublishedWasDelivered ==
    \A m \in Messages : message[m] = "published" => delivered[m] > 0

\* A message is repeated only for a cause: another publisher has the row, or
\* a publisher died or was answered late.  One publisher without faults
\* delivers each message once.
RepeatedForCause ==
    \A m \in Messages : delivered[m] <= Cardinality(Publishers) + faults

\* Every message the sink does not reject is published in the end, although
\* rejected ones stay at the head of the queue: as long as they do not fill
\* a batch.
MessagesPublished ==
    Cardinality(Rejected) < Limit =>
        \A m \in Messages \ Rejected : message[m] = "pending" ~> message[m] = "published"
=============================================================================
