---------------------------- MODULE OutboxProofs ----------------------------
(***************************************************************************)
(* Proofs about Outbox for any number of messages and publishers and any   *)
(* bounds.                                                                 *)
(***************************************************************************)
EXTENDS Outbox, FiniteSetTheorems, TLAPS

\* A publisher that is about to mark a row has had it taken by the sink.
SentInv ==
    \A p \in Publishers, m \in Messages :
        publisher[p].pc = "sent" /\ At(p, m) => delivered[m] > 0

IInv ==
    /\ TypeOK
    /\ SentInv
    /\ PublishedWasDelivered

-----------------------------------------------------------------------------
\* What p does next is not the mark of a row, and nothing becomes published
\* or less delivered.
LEMMA PublisherMoves ==
    ASSUME IInv, NEW p \in Publishers, NEW q \in Publisher, q.pc # "sent",
           publisher' = [publisher EXCEPT ![p] = q],
           delivered' \in [Messages -> Nat],
           \A m \in Messages : delivered[m] > 0 => delivered'[m] > 0
    PROVE  publisher' \in [Publishers -> Publisher] /\ SentInv'
<1>1. publisher \in [Publishers -> Publisher]
  BY DEF IInv, TypeOK
<1>2. publisher' \in [Publishers -> Publisher]
  BY <1>1
<1>3. ASSUME NEW o \in Publishers, NEW m \in Messages, publisher'[o].pc = "sent", At(o, m)'
      PROVE  delivered'[m] > 0
  <2>1. o # p /\ publisher'[o] = publisher[o]
    BY <1>1, <1>3
  <2>2. At(o, m) /\ publisher[o].pc = "sent"
    BY <1>3, <2>1 DEF At
  <2>. QED  BY <2>2 DEF IInv, SentInv
<1>. QED  BY <1>2, <1>3 DEF SentInv

LEMMA ProceedsMoves ==
    ASSUME IInv, NEW p \in Publishers, NEW m \in Messages, Proceeds(p, m),
           delivered' \in [Messages -> Nat],
           \A n \in Messages : delivered[n] > 0 => delivered'[n] > 0
    PROVE  publisher' \in [Publishers -> Publisher] /\ SentInv'
<1>1. publisher[p].batch \subseteq Messages
  BY DEF IInv, TypeOK, Publisher
<1>2. PICK q \in Publisher :
        q.pc # "sent" /\ publisher' = [publisher EXCEPT ![p] = q]
  <2>. DEFINE rest == publisher[p].batch \ {m}
              next == IF rest = {} THEN Idle ELSE [pc |-> "working", batch |-> rest]
  <2>1. next \in Publisher /\ next.pc # "sent"
    BY <1>1 DEF Publisher, Idle
  <2>2. publisher' = [publisher EXCEPT ![p] = next]
    BY DEF Proceeds
  <2>. QED  BY <2>1, <2>2
<1>. QED  BY <1>2, PublisherMoves

\* The sink takes m: what was delivered stays delivered.
LEMMA TakenCounts ==
    ASSUME IInv, NEW m \in Messages, Taken(m)
    PROVE  /\ delivered' \in [Messages -> Nat]
           /\ delivered'[m] > 0
           /\ \A n \in Messages : delivered[n] > 0 => delivered'[n] > 0
<1>1. delivered \in [Messages -> Nat] /\ delivered' = [delivered EXCEPT ![m] = delivered[m] + 1]
  BY DEF IInv, TypeOK, Taken
<1>. QED  BY <1>1

LEMMA CommitStep ==
    ASSUME IInv, NEW m \in Messages, Commit(m)
    PROVE  IInv'
<1>1. /\ message' = [message EXCEPT ![m] = "pending"]
      /\ UNCHANGED <<publisher, delivered, faults>>
  BY DEF Commit
<1>2. TypeOK' /\ PublishedWasDelivered'
  BY <1>1 DEF IInv, TypeOK, PublishedWasDelivered
<1>3. SentInv'
  BY <1>1 DEF IInv, SentInv, At
<1>. QED  BY <1>2, <1>3 DEF IInv

LEMMA PollsStep ==
    ASSUME IInv, NEW p \in Publishers, NEW batch \in SUBSET Messages, Polls(p, batch)
    PROVE  IInv'
<1>1. PICK q \in Publisher : q = [pc |-> "working", batch |-> batch]
  BY DEF Publisher
<1>2. publisher' = [publisher EXCEPT ![p] = q] /\ q.pc # "sent"
      /\ UNCHANGED <<message, delivered, faults>>
  BY <1>1 DEF Polls
<1>3. publisher' \in [Publishers -> Publisher] /\ SentInv'
  BY <1>2, PublisherMoves DEF IInv, TypeOK
<1>. QED  BY <1>2, <1>3 DEF IInv, TypeOK, PublishedWasDelivered

LEMMA DeliversStep ==
    ASSUME IInv, NEW p \in Publishers, NEW m \in Messages, Delivers(p, m)
    PROVE  IInv'
<1>1. /\ delivered' \in [Messages -> Nat] /\ delivered'[m] > 0
      /\ \A n \in Messages : delivered[n] > 0 => delivered'[n] > 0
  BY TakenCounts DEF Delivers
<1>2. /\ publisher \in [Publishers -> Publisher] /\ At(p, m)
      /\ publisher' = [publisher EXCEPT ![p] = [publisher[p] EXCEPT !.pc = "sent"]]
      /\ UNCHANGED <<message, faults>>
  BY DEF Delivers, IInv, TypeOK
<1>3. ASSUME NEW q \in Publisher
      PROVE  LET sent == [q EXCEPT !.pc = "sent"]
             IN  sent \in Publisher /\ sent.batch = q.batch
  BY DEF Publisher
<1>4. publisher' \in [Publishers -> Publisher]
  BY <1>2, <1>3
<1>5. ASSUME NEW o \in Publishers, NEW n \in Messages, publisher'[o].pc = "sent", At(o, n)'
      PROVE  delivered'[n] > 0
  <2>1. publisher'[o].batch = publisher[o].batch
    BY <1>2, <1>3
  <2>2. At(o, n)
    BY <1>5, <2>1 DEF At
  <2>3. CASE o = p
    <3>1. n \in publisher[p].batch /\ m \in publisher[p].batch /\ m <= n /\ n <= m
      BY <1>2, <2>2, <2>3 DEF At
    <3>2. n = m
      BY <3>1, OutboxAssumption
    <3>. QED  BY <1>1, <3>2
  <2>4. CASE o # p
    <3>1. publisher[o].pc = "sent"
      BY <1>2, <1>5, <2>4
    <3>. QED  BY <1>1, <2>2, <3>1 DEF IInv, SentInv
  <2>. QED  BY <2>3, <2>4
<1>6. SentInv'
  BY <1>5 DEF SentInv
<1>7. PublishedWasDelivered'
  BY <1>1, <1>2 DEF IInv, PublishedWasDelivered
<1>. QED  BY <1>1, <1>2, <1>4, <1>6, <1>7 DEF IInv, TypeOK

LEMMA MarksStep ==
    ASSUME IInv, NEW p \in Publishers, NEW m \in Messages, Marks(p, m)
    PROVE  IInv'
<1>1. /\ publisher[p].pc = "sent" /\ At(p, m)
      /\ message' = [message EXCEPT ![m] = "published"]
      /\ UNCHANGED <<delivered, faults>>
  BY DEF Marks
<1>2. publisher' \in [Publishers -> Publisher] /\ SentInv'
  BY <1>1, ProceedsMoves DEF Marks, IInv, TypeOK
<1>3. delivered[m] > 0
  BY <1>1 DEF IInv, SentInv
<1>4. PublishedWasDelivered'
  BY <1>1, <1>3 DEF IInv, TypeOK, PublishedWasDelivered
<1>. QED  BY <1>1, <1>2, <1>4 DEF IInv, TypeOK

LEMMA FaultCounts ==
    ASSUME IInv, UNCHANGED faults \/ Fault
    PROVE  faults' \in Nat
BY DEF IInv, TypeOK, Fault

LEMMA RefusedStep ==
    ASSUME IInv, NEW p \in Publishers, NEW m \in Messages, Refused(p, m)
    PROVE  IInv'
<1>1. UNCHANGED <<message, delivered>> /\ faults' \in Nat
  BY FaultCounts DEF Refused
<1>2. publisher' \in [Publishers -> Publisher] /\ SentInv'
  BY <1>1, ProceedsMoves DEF Refused, IInv, TypeOK
<1>. QED  BY <1>1, <1>2 DEF IInv, TypeOK, PublishedWasDelivered

LEMMA AnsweredLateStep ==
    ASSUME IInv, NEW p \in Publishers, NEW m \in Messages, AnsweredLate(p, m)
    PROVE  IInv'
<1>1. UNCHANGED message /\ faults' \in Nat
  BY FaultCounts DEF AnsweredLate
<1>2. /\ delivered' \in [Messages -> Nat]
      /\ \A n \in Messages : delivered[n] > 0 => delivered'[n] > 0
  BY TakenCounts DEF AnsweredLate
<1>3. publisher' \in [Publishers -> Publisher] /\ SentInv'
  BY <1>2, ProceedsMoves DEF AnsweredLate
<1>. QED  BY <1>1, <1>2, <1>3 DEF IInv, TypeOK, PublishedWasDelivered

LEMMA DiesStep ==
    ASSUME IInv, NEW p \in Publishers, Dies(p)
    PROVE  IInv'
<1>1. UNCHANGED <<message, delivered>> /\ faults' \in Nat
  BY FaultCounts DEF Dies
<1>2. Idle \in Publisher /\ Idle.pc # "sent" /\ publisher' = [publisher EXCEPT ![p] = Idle]
  BY DEF Dies, Idle, Publisher
<1>3. publisher' \in [Publishers -> Publisher] /\ SentInv'
  BY <1>1, <1>2, PublisherMoves DEF IInv, TypeOK
<1>. QED  BY <1>1, <1>3 DEF IInv, TypeOK, PublishedWasDelivered

-----------------------------------------------------------------------------
LEMMA Initially == Init => IInv
BY OutboxAssumption
   DEF Init, IInv, TypeOK, Publisher, Idle, SentInv, PublishedWasDelivered

LEMMA Invariance == Spec => []IInv
<1>1. IInv /\ Next => IInv'
  <2>. SUFFICES ASSUME IInv, Next
                PROVE  IInv'
    OBVIOUS
  <2>1. CASE \E m \in Messages : Commit(m)
    BY <2>1, CommitStep
  <2>2. CASE \E p \in Publishers : Publish(p)
    BY <2>2, PollsStep, DeliversStep, MarksStep, RefusedStep, AnsweredLateStep DEF Publish
  <2>3. CASE \E p \in Publishers : Dies(p)
    BY <2>3, DiesStep
  <2>. QED  BY <2>1, <2>2, <2>3 DEF Next
<1>2. IInv /\ UNCHANGED vars => IInv'
  BY DEF vars, IInv, TypeOK, SentInv, At, PublishedWasDelivered
<1>. QED  BY <1>1, <1>2, Initially, PTL DEF Spec

\* Rows and batches keep their types (publish_pending).
THEOREM OutboxTypeCorrect == Spec => []TypeOK
<1>1. IInv => TypeOK
  BY DEF IInv
<1>. QED  BY <1>1, Invariance, PTL

\* Nothing is marked that the sink has not taken (publish_pending), for any
\* number of publishers and any order of rows.
THEOREM PublishedMeansDelivered == Spec => []PublishedWasDelivered
<1>1. IInv => PublishedWasDelivered
  BY DEF IInv
<1>. QED  BY <1>1, Invariance, PTL
-----------------------------------------------------------------------------
\* The publishers whose delivery of m is not marked yet, and those that have
\* m in their batch and may still deliver it.
Sent(m) == {p \in Publishers : publisher[p].pc = "sent" /\ At(p, m)}
Holding(m) == {p \in Publishers : m \in publisher[p].batch} \ Sent(m)

\* Before the first mark every delivery without a fault is one whose mark is
\* to come; after it nobody takes m again, and who holds it may deliver once.
Counted(m) ==
    /\ message[m] = "published" =>
        delivered[m] + Cardinality(Holding(m)) <= Cardinality(Publishers) + faults
    /\ message[m] # "published" =>
        delivered[m] <= Cardinality(Sent(m)) + faults

CountInv == IInv /\ \A m \in Messages : Counted(m)

LEMMA SomePublishers ==
    ASSUME NEW S \in SUBSET Publishers
    PROVE  /\ IsFiniteSet(S)
           /\ Cardinality(S) \in Nat
           /\ Cardinality(S) <= Cardinality(Publishers)
           /\ Cardinality(Publishers) \in Nat
BY OutboxAssumption, FS_Subset, FS_CardinalityType

LEMMA FewerPublishers ==
    ASSUME NEW S \in SUBSET Publishers, NEW T \in SUBSET S
    PROVE  Cardinality(T) <= Cardinality(S)
BY SomePublishers, FS_Subset

LEMMA TwoParts ==
    ASSUME NEW S \in SUBSET Publishers, NEW T \in SUBSET Publishers, S \cap T = {}
    PROVE  Cardinality(S) + Cardinality(T) <= Cardinality(Publishers)
<1>1. IsFiniteSet(S) /\ IsFiniteSet(T)
  BY SomePublishers
<1>2. Cardinality(S \cup T) = Cardinality(S) + Cardinality(T) - Cardinality(S \cap T)
  BY <1>1, FS_Union
<1>3. Cardinality(S \cap T) = 0
  BY FS_EmptySet
<1>. QED  BY <1>2, <1>3, SomePublishers

\* A step after which the same publishers wait to mark m and no other holds
\* it, and that delivers m at most as often as it counts faults.
LEMMA CountKept ==
    ASSUME CountInv, NEW m \in Messages, IInv',
           message'[m] = message[m],
           delivered'[m] + faults <= delivered[m] + faults',
           Sent(m)' = Sent(m),
           message[m] = "published" => Holding(m)' \subseteq Holding(m)
    PROVE  Counted(m)'
<1>1. Counted(m) /\ delivered[m] \in Nat /\ delivered'[m] \in Nat
      /\ faults \in Nat /\ faults' \in Nat
  BY DEF CountInv, IInv, TypeOK
<1>2. PICK S \in SUBSET Publishers : S = Sent(m)
  BY DEF Sent
<1>3. PICK H \in SUBSET Publishers : H = Holding(m)
  BY DEF Holding
<1>4. PICK G \in SUBSET Publishers : G = Holding(m)'
  BY DEF Holding
<1>5. Cardinality(S) \in Nat /\ Cardinality(H) \in Nat /\ Cardinality(G) \in Nat
      /\ Cardinality(Publishers) \in Nat
  BY SomePublishers
<1>6. message[m] = "published" => Cardinality(G) <= Cardinality(H)
  BY <1>3, <1>4, FewerPublishers
<1>7. Sent(m)' = S
  BY <1>2
<1>. QED  BY <1>1, <1>2, <1>3, <1>4, <1>5, <1>6, <1>7 DEF Counted

\* Publisher p goes on to q without waiting to mark m before or after.
LEMMA CountMoves ==
    ASSUME CountInv, NEW m \in Messages, IInv', NEW p \in Publishers, NEW q,
           publisher' = [publisher EXCEPT ![p] = q],
           p \notin Sent(m), q.pc # "sent",
           m \in q.batch => m \in publisher[p].batch \/ message[m] # "published",
           message'[m] = message[m],
           delivered'[m] + faults <= delivered[m] + faults'
    PROVE  Counted(m)'
<1>1. publisher'[p] = q /\ \A o \in Publishers : o # p => publisher'[o] = publisher[o]
  BY DEF CountInv, IInv, TypeOK
<1>2. p \notin Sent(m)'
  BY <1>1 DEF Sent
<1>3. \A o \in Publishers \ {p} : o \in Sent(m)' <=> o \in Sent(m)
  BY <1>1 DEF Sent, At
<1>4. Sent(m)' \subseteq Publishers /\ Sent(m) \subseteq Publishers
  BY DEF Sent
<1>5. Sent(m)' = Sent(m)
  BY <1>2, <1>3, <1>4
<1>6. message[m] = "published" => Holding(m)' \subseteq Holding(m)
  BY <1>1, <1>5 DEF Holding
<1>. QED  BY <1>5, <1>6, CountKept

LEMMA CountProceeds ==
    ASSUME CountInv, NEW m \in Messages, IInv', NEW p \in Publishers,
           NEW n \in Messages, Proceeds(p, n), p \notin Sent(m),
           message'[m] = message[m],
           delivered'[m] + faults <= delivered[m] + faults'
    PROVE  Counted(m)'
<1>1. PICK q : /\ q.pc # "sent"
               /\ m \in q.batch => m \in publisher[p].batch
               /\ publisher' = [publisher EXCEPT ![p] = q]
  <2>. DEFINE rest == publisher[p].batch \ {n}
              next == IF rest = {} THEN Idle ELSE [pc |-> "working", batch |-> rest]
  <2>1. next.pc # "sent" /\ (m \in next.batch => m \in publisher[p].batch)
    BY DEF Idle
  <2>2. publisher' = [publisher EXCEPT ![p] = next]
    BY DEF Proceeds
  <2>. QED  BY <2>1, <2>2
<1>. QED  BY <1>1, CountMoves

LEMMA CountPolls ==
    ASSUME CountInv, IInv', NEW m \in Messages, NEW p \in Publishers,
           NEW batch \in SUBSET Messages, Polls(p, batch)
    PROVE  Counted(m)'
<1>1. PICK q : q = [pc |-> "working", batch |-> batch]
  OBVIOUS
<1>2. /\ publisher' = [publisher EXCEPT ![p] = q] /\ q.pc # "sent"
      /\ UNCHANGED <<message, delivered, faults>>
      /\ m \in q.batch => message[m] # "published"
      /\ publisher[p].pc = "idle"
  BY <1>1 DEF Polls, Pending
<1>3. p \notin Sent(m) /\ delivered'[m] + faults <= delivered[m] + faults'
  BY <1>2 DEF Sent, CountInv, IInv, TypeOK
<1>. QED  BY <1>2, <1>3, CountMoves

\* A publisher is at one row only.
LEMMA AtOne ==
    ASSUME IInv, NEW p \in Publishers, NEW m \in Messages, NEW n \in Messages,
           At(p, m), At(p, n)
    PROVE  m = n
<1>1. m <= n /\ n <= m /\ m \in Nat /\ n \in Nat
  BY OutboxAssumption DEF At
<1>. QED  BY <1>1

LEMMA CountDelivers ==
    ASSUME CountInv, IInv', NEW m \in Messages, NEW p \in Publishers,
           NEW n \in Messages, Delivers(p, n)
    PROVE  Counted(m)'
<1>1. /\ publisher[p].pc = "working" /\ At(p, n)
      /\ publisher' = [publisher EXCEPT ![p] = [publisher[p] EXCEPT !.pc = "sent"]]
      /\ delivered' = [delivered EXCEPT ![n] = delivered[n] + 1]
      /\ UNCHANGED <<message, faults>>
  BY DEF Delivers, Taken
<1>2. publisher \in [Publishers -> Publisher] /\ delivered \in [Messages -> Nat]
      /\ faults \in Nat /\ IInv /\ Counted(m)
  BY DEF CountInv, IInv, TypeOK
<1>3. ASSUME NEW q \in Publisher
      PROVE  LET sent == [q EXCEPT !.pc = "sent"]
             IN  sent.pc = "sent" /\ sent.batch = q.batch
  BY DEF Publisher
<1>4. /\ publisher'[p].pc = "sent"
      /\ \A o \in Publishers : publisher'[o].batch = publisher[o].batch
      /\ \A o \in Publishers : o # p => publisher'[o].pc = publisher[o].pc
  BY <1>1, <1>2, <1>3
<1>5. \A o \in Publishers : At(o, m)' <=> At(o, m)
  BY <1>4 DEF At
<1>6. p \notin Sent(m) /\ \A o \in Publishers : o # p => (o \in Sent(m)' <=> o \in Sent(m))
  BY <1>1, <1>4, <1>5 DEF Sent
<1>7. Sent(m) \subseteq Publishers /\ Sent(m)' \subseteq Publishers
  BY DEF Sent
<1>8. CASE m # n
  <2>1. ~ At(p, m)
    BY <1>1, <1>2, <1>8, AtOne
  <2>2. Sent(m)' = Sent(m)
    BY <1>5, <1>6, <1>7, <2>1 DEF Sent
  <2>3. Holding(m)' \subseteq Holding(m)
    BY <1>4, <2>2 DEF Holding
  <2>. QED  BY <1>1, <1>2, <1>8, <2>2, <2>3, CountKept
<1>9. CASE m = n
  <2>1. p \in Sent(m)'
    BY <1>1, <1>4, <1>5, <1>9 DEF Sent
  <2>2. Sent(m)' = Sent(m) \cup {p}
    BY <1>6, <1>7, <2>1
  <2>3. p \in Holding(m)
    BY <1>1, <1>6, <1>9 DEF Holding, At
  <2>4. Holding(m)' = Holding(m) \ {p}
    BY <1>4, <2>2 DEF Holding
  <2>5. PICK S \in SUBSET Publishers : S = Sent(m)
    BY <1>7
  <2>6. PICK H \in SUBSET Publishers : H = Holding(m)
    BY DEF Holding
  <2>7. /\ IsFiniteSet(S) /\ IsFiniteSet(H)
        /\ Cardinality(S) \in Nat /\ Cardinality(H) \in Nat
        /\ Cardinality(Publishers) \in Nat
    BY SomePublishers
  <2>8. Cardinality(S \cup {p}) = Cardinality(S) + 1
    BY <1>6, <2>5, <2>7, FS_AddElement
  <2>9. Cardinality(H \ {p}) = Cardinality(H) - 1
    BY <2>3, <2>6, <2>7, FS_RemoveElement
  <2>10. Sent(m)' = S \cup {p} /\ Holding(m)' = H \ {p}
    BY <2>2, <2>4, <2>5, <2>6
  <2>11. delivered'[m] = delivered[m] + 1 /\ delivered[m] \in Nat
    BY <1>1, <1>2, <1>9
  <2>. QED  BY <1>1, <1>2, <2>5, <2>6, <2>7, <2>8, <2>9, <2>10, <2>11 DEF Counted
<1>. QED  BY <1>8, <1>9

LEMMA CountMarks ==
    ASSUME CountInv, IInv', NEW m \in Messages, NEW p \in Publishers,
           NEW n \in Messages, Marks(p, n)
    PROVE  Counted(m)'
<1>1. /\ publisher[p].pc = "sent" /\ At(p, n)
      /\ message' = [message EXCEPT ![n] = "published"]
      /\ Proceeds(p, n)
      /\ UNCHANGED <<delivered, faults>>
  BY DEF Marks
<1>2. /\ publisher \in [Publishers -> Publisher] /\ delivered \in [Messages -> Nat]
      /\ message \in [Messages -> {"absent", "pending", "published"}]
      /\ faults \in Nat /\ IInv /\ Counted(m)
  BY DEF CountInv, IInv, TypeOK
<1>3. CASE m # n
  <2>1. p \notin Sent(m)
    BY <1>1, <1>2, <1>3, AtOne DEF Sent
  <2>2. message'[m] = message[m] /\ delivered'[m] + faults <= delivered[m] + faults'
    BY <1>1, <1>2, <1>3
  <2>. QED  BY <1>1, <2>1, <2>2, CountProceeds
<1>4. CASE m = n
  <2>1. message'[m] = "published" /\ delivered'[m] = delivered[m] /\ faults' = faults
    BY <1>1, <1>2, <1>4
  <2>2. \A o \in Publishers : o # p => publisher'[o] = publisher[o]
    BY <1>1, <1>2 DEF Proceeds
  <2>3. m \notin publisher'[p].batch
    BY <1>1, <1>2, <1>4 DEF Proceeds, Idle
  <2>4. Holding(m)' \subseteq Holding(m)
    BY <2>2, <2>3 DEF Holding, Sent, At
  <2>5. PICK S \in SUBSET Publishers : S = Sent(m)
    BY DEF Sent
  <2>6. PICK H \in SUBSET Publishers : H = Holding(m)
    BY DEF Holding
  <2>7. PICK G \in SUBSET Publishers : G = Holding(m)'
    BY DEF Holding
  <2>8. /\ Cardinality(S) \in Nat /\ Cardinality(H) \in Nat /\ Cardinality(G) \in Nat
        /\ Cardinality(Publishers) \in Nat
    BY SomePublishers
  <2>9. Cardinality(G) <= Cardinality(H)
    BY <2>4, <2>6, <2>7, FewerPublishers
  <2>10. Cardinality(S) + Cardinality(H) <= Cardinality(Publishers)
    BY <2>5, <2>6, TwoParts DEF Holding
  <2>11. delivered[m] + Cardinality(H) <= Cardinality(Publishers) + faults
    BY <1>2, <2>5, <2>6, <2>8, <2>10 DEF Counted
  <2>. QED  BY <1>2, <2>1, <2>7, <2>8, <2>9, <2>11 DEF Counted
<1>. QED  BY <1>3, <1>4

LEMMA CountRefused ==
    ASSUME CountInv, IInv', NEW m \in Messages, NEW p \in Publishers,
           NEW n \in Messages, Refused(p, n)
    PROVE  Counted(m)'
<1>1. /\ publisher[p].pc = "working" /\ Proceeds(p, n)
      /\ UNCHANGED <<message, delivered>>
      /\ faults' = faults \/ faults' = faults + 1
  BY DEF Refused, Fault
<1>2. p \notin Sent(m) /\ delivered'[m] + faults <= delivered[m] + faults'
  BY <1>1 DEF Sent, CountInv, IInv, TypeOK
<1>. QED  BY <1>1, <1>2, CountProceeds

LEMMA CountAnsweredLate ==
    ASSUME CountInv, IInv', NEW m \in Messages, NEW p \in Publishers,
           NEW n \in Messages, AnsweredLate(p, n)
    PROVE  Counted(m)'
<1>1. /\ publisher[p].pc = "working" /\ Proceeds(p, n)
      /\ UNCHANGED message
      /\ faults' = faults + 1
      /\ delivered' = [delivered EXCEPT ![n] = delivered[n] + 1]
  BY DEF AnsweredLate, Fault, Taken
<1>2. p \notin Sent(m) /\ delivered'[m] + faults <= delivered[m] + faults'
  BY <1>1 DEF Sent, CountInv, IInv, TypeOK
<1>. QED  BY <1>1, <1>2, CountProceeds

\* A publisher that dies before its mark turns its delivery into a fault.
LEMMA CountDies ==
    ASSUME CountInv, IInv', NEW m \in Messages, NEW p \in Publishers, Dies(p)
    PROVE  Counted(m)'
<1>1. /\ publisher' = [publisher EXCEPT ![p] = Idle]
      /\ UNCHANGED <<message, delivered>>
      /\ faults' = faults + 1
  BY DEF Dies, Fault
<1>2. /\ publisher \in [Publishers -> Publisher] /\ delivered \in [Messages -> Nat]
      /\ faults \in Nat /\ Counted(m)
  BY DEF CountInv, IInv, TypeOK
<1>3. publisher'[p] = Idle /\ \A o \in Publishers : o # p => publisher'[o] = publisher[o]
  BY <1>1, <1>2
<1>4. Sent(m)' = Sent(m) \ {p}
  BY <1>3 DEF Sent, At, Idle
<1>5. Holding(m)' \subseteq Holding(m)
  BY <1>3 DEF Holding, Sent, At, Idle
<1>6. PICK S \in SUBSET Publishers : S = Sent(m)
  BY DEF Sent
<1>7. PICK H \in SUBSET Publishers : H = Holding(m)
  BY DEF Holding
<1>8. PICK G \in SUBSET Publishers : G = Holding(m)'
  BY DEF Holding
<1>9. /\ IsFiniteSet(S)
      /\ Cardinality(S) \in Nat /\ Cardinality(H) \in Nat /\ Cardinality(G) \in Nat
      /\ Cardinality(Publishers) \in Nat
  BY SomePublishers
<1>10. Cardinality(S \ {p}) = IF p \in S THEN Cardinality(S) - 1 ELSE Cardinality(S)
  BY <1>9, FS_RemoveElement
<1>11. Cardinality(G) <= Cardinality(H)
  BY <1>5, <1>7, <1>8, FewerPublishers
<1>12. Sent(m)' = S \ {p}
  BY <1>4, <1>6
<1>. QED  BY <1>1, <1>2, <1>6, <1>7, <1>8, <1>9, <1>10, <1>11, <1>12 DEF Counted

LEMMA CountCommit ==
    ASSUME CountInv, IInv', NEW m \in Messages, NEW n \in Messages, Commit(n)
    PROVE  Counted(m)'
<1>1. /\ message[n] = "absent" /\ message' = [message EXCEPT ![n] = "pending"]
      /\ UNCHANGED <<publisher, delivered, faults>>
  BY DEF Commit
<1>2. /\ message \in [Messages -> {"absent", "pending", "published"}] /\ Counted(m)
  BY DEF CountInv, IInv, TypeOK
<1>3. Sent(m)' = Sent(m) /\ Holding(m)' = Holding(m)
  BY <1>1 DEF Sent, Holding, At
<1>4. message'[m] = "published" <=> message[m] = "published"
  BY <1>1, <1>2
<1>. QED  BY <1>1, <1>2, <1>3, <1>4 DEF Counted

LEMMA CountInvariance == Spec => []CountInv
<1>1. Init => CountInv
  <2>1. Init => \A m \in Messages : Counted(m)
    <3>. SUFFICES ASSUME Init, NEW m \in Messages
                  PROVE  Counted(m)
      OBVIOUS
    <3>1. message[m] = "absent" /\ delivered[m] = 0 /\ faults = 0
      BY DEF Init
    <3>2. PICK S \in SUBSET Publishers : S = Sent(m)
      BY DEF Sent
    <3>. QED  BY <3>1, <3>2, SomePublishers DEF Counted
  <2>. QED  BY <2>1, Initially DEF CountInv
<1>2. CountInv /\ IInv' /\ Next => CountInv'
  <2>. SUFFICES ASSUME CountInv, IInv', Next, NEW m \in Messages
                PROVE  Counted(m)'
    BY DEF CountInv
  <2>1. CASE \E n \in Messages : Commit(n)
    BY <2>1, CountCommit
  <2>2. CASE \E p \in Publishers : Publish(p)
    BY <2>2, CountPolls, CountDelivers, CountMarks, CountRefused, CountAnsweredLate DEF Publish
  <2>3. CASE \E p \in Publishers : Dies(p)
    BY <2>3, CountDies
  <2>. QED  BY <2>1, <2>2, <2>3 DEF Next
<1>3. CountInv /\ IInv' /\ UNCHANGED vars => CountInv'
  <2>. SUFFICES ASSUME CountInv, IInv', UNCHANGED vars, NEW m \in Messages
                PROVE  Counted(m)'
    BY DEF CountInv
  <2>1. Sent(m)' = Sent(m) /\ Holding(m)' = Holding(m)
    BY DEF vars, Sent, Holding, At
  <2>. QED  BY <2>1 DEF vars, Counted, CountInv
<1>. QED  BY <1>1, <1>2, <1>3, Invariance, PTL DEF Spec

\* A message is delivered once, and once more for every other publisher and
\* every fault (publish_pending, which marks row by row and takes no lock).
THEOREM RepetitionsHaveACause == Spec => []RepeatedForCause
<1>1. CountInv => RepeatedForCause
  <2>. SUFFICES ASSUME CountInv, NEW m \in Messages
                PROVE  delivered[m] <= Cardinality(Publishers) + faults
    BY DEF RepeatedForCause
  <2>1. /\ delivered[m] \in Nat /\ faults \in Nat /\ Counted(m)
    BY DEF CountInv, IInv, TypeOK
  <2>2. PICK S \in SUBSET Publishers : S = Sent(m)
    BY DEF Sent
  <2>3. PICK H \in SUBSET Publishers : H = Holding(m)
    BY DEF Holding
  <2>. QED  BY <2>1, <2>2, <2>3, SomePublishers DEF Counted
<1>. QED  BY <1>1, CountInvariance, PTL
=============================================================================
