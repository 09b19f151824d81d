------------------------- MODULE MessageQueueProofs -------------------------
(***************************************************************************)
(* Proofs about MessageQueue, for any number of producers and consumers    *)
(* and any capacity.                                                       *)
(***************************************************************************)
EXTENDS MessageQueue, CountingProofs

\* Inductive.  The bounds on the counters hold because they are exact.
IInv ==
    /\ TypeOK /\ SlotsAccounted /\ StatsExact /\ LockExact
    /\ sent = chan + dequeued + Uncounted
    /\ sent + Reserving <= MaxMessages

LEMMA CountTypes ==
    ASSUME TypeOK
    PROVE  /\ IsFiniteSet(DOMAIN prod) /\ IsFiniteSet(DOMAIN cons)
           /\ Reserving \in Nat /\ Sending \in Nat
           /\ Uncounted \in Nat /\ Releasing \in Nat
<1>1. IsFiniteSet(DOMAIN prod) /\ IsFiniteSet(DOMAIN cons)
    BY PartiesAssumption DEF TypeOK
<1> QED  BY <1>1, WhereFinite DEF Reserving, Sending, Uncounted, Releasing

\* The counts of producers after p has moved to v.
LEMMA ProducerMove ==
    ASSUME TypeOK, NEW p \in Producers, NEW v \in ProducerPoints,
           prod' = [prod EXCEPT ![p] = v]
    PROVE  /\ prod' \in [Producers -> ProducerPoints]
           /\ Reserving' \in Nat /\ Sending' \in Nat
           /\ prod[p] # "permit" /\ v = "permit" => Reserving' = Reserving + 1
           /\ prod[p] = "permit" /\ v # "permit" => Reserving' = Reserving - 1
           /\ prod[p] # "permit" /\ v # "permit" => Reserving' = Reserving
           /\ prod[p] # "sent" /\ v = "sent" => Sending' = Sending + 1
           /\ prod[p] = "sent" /\ v # "sent" => Sending' = Sending - 1
           /\ prod[p] # "sent" /\ v # "sent" => Sending' = Sending
<1>1. IsFiniteSet(DOMAIN prod) /\ p \in DOMAIN prod
    BY CountTypes DEF TypeOK
<1>2. prod' \in [Producers -> ProducerPoints]
    BY DEF TypeOK
<1>3. IsFiniteSet(DOMAIN prod')
    BY <1>2, PartiesAssumption
<1>4. Reserving' \in Nat /\ Sending' \in Nat
    BY <1>3, WhereFinite DEF Reserving, Sending
<1>5. ASSUME NEW S
      PROVE  /\ prod[p] \notin S /\ v \in S => Cardinality(Where(prod', S))
                                          = Cardinality(Where(prod, S)) + 1
             /\ prod[p] \in S /\ v \notin S => Cardinality(Where(prod', S))
                                          = Cardinality(Where(prod, S)) - 1
             /\ ((prod[p] \in S) <=> (v \in S)) => Cardinality(Where(prod', S))
                                          = Cardinality(Where(prod, S))
    <2>1. CASE prod[p] \notin S /\ v \in S
        BY <1>1, <2>1, WhereEnter
    <2>2. CASE prod[p] \in S /\ v \notin S
        BY <1>1, <2>2, WhereLeave
    <2>3. CASE (prod[p] \in S) <=> (v \in S)
        BY <1>1, <2>3, WhereStay
    <2> QED  BY <2>1, <2>2, <2>3
<1>6. \A s : \A x : x \in {s} <=> x = s
    OBVIOUS
<1>7. /\ prod[p] # "permit" /\ v = "permit" => Reserving' = Reserving + 1
      /\ prod[p] = "permit" /\ v # "permit" => Reserving' = Reserving - 1
      /\ prod[p] # "permit" /\ v # "permit" => Reserving' = Reserving
    BY <1>5, <1>6 DEF Reserving
<1>8. /\ prod[p] # "sent" /\ v = "sent" => Sending' = Sending + 1
      /\ prod[p] = "sent" /\ v # "sent" => Sending' = Sending - 1
      /\ prod[p] # "sent" /\ v # "sent" => Sending' = Sending
    BY <1>5, <1>6 DEF Sending
<1> QED  BY <1>2, <1>4, <1>7, <1>8

\* The counts of consumers after c has moved to v.
LEMMA ConsumerMove ==
    ASSUME TypeOK, NEW c \in Consumers, NEW v \in ConsumerPoints,
           cons' = [cons EXCEPT ![c] = v]
    PROVE  /\ cons' \in [Consumers -> ConsumerPoints]
           /\ Uncounted' \in Nat /\ Releasing' \in Nat
           /\ cons[c] \in {"locked", "trying"} /\ v = "received" =>
                Uncounted' = Uncounted + 1 /\ Releasing' = Releasing + 1
           /\ cons[c] = "received" /\ v = "counted" =>
                Uncounted' = Uncounted - 1 /\ Releasing' = Releasing
           /\ cons[c] = "counted" /\ v = "idle" =>
                Uncounted' = Uncounted /\ Releasing' = Releasing - 1
           /\ {cons[c], v} \subseteq {"idle", "locked", "trying"} =>
                Uncounted' = Uncounted /\ Releasing' = Releasing
<1>1. IsFiniteSet(DOMAIN cons) /\ c \in DOMAIN cons
    BY CountTypes DEF TypeOK
<1>2. cons' \in [Consumers -> ConsumerPoints]
    BY DEF TypeOK
<1>3. IsFiniteSet(DOMAIN cons')
    BY <1>2, PartiesAssumption
<1>4. Uncounted' \in Nat /\ Releasing' \in Nat
    BY <1>3, WhereFinite DEF Uncounted, Releasing
<1>5. ASSUME NEW S
      PROVE  /\ cons[c] \notin S /\ v \in S => Cardinality(Where(cons', S))
                                          = Cardinality(Where(cons, S)) + 1
             /\ cons[c] \in S /\ v \notin S => Cardinality(Where(cons', S))
                                          = Cardinality(Where(cons, S)) - 1
             /\ ((cons[c] \in S) <=> (v \in S)) => Cardinality(Where(cons', S))
                                          = Cardinality(Where(cons, S))
    <2>1. CASE cons[c] \notin S /\ v \in S
        BY <1>1, <2>1, WhereEnter
    <2>2. CASE cons[c] \in S /\ v \notin S
        BY <1>1, <2>2, WhereLeave
    <2>3. CASE (cons[c] \in S) <=> (v \in S)
        BY <1>1, <2>3, WhereStay
    <2> QED  BY <2>1, <2>2, <2>3
<1>6. /\ cons[c] # "received" /\ v = "received" => Uncounted' = Uncounted + 1
      /\ cons[c] = "received" /\ v # "received" => Uncounted' = Uncounted - 1
      /\ cons[c] # "received" /\ v # "received" => Uncounted' = Uncounted
    <2>1. \A x : x \in {"received"} <=> x = "received"
        OBVIOUS
    <2> QED  BY <1>5, <2>1 DEF Uncounted
<1>7. LET S == {"received", "counted"} IN
      /\ cons[c] \notin S /\ v \in S => Releasing' = Releasing + 1
      /\ cons[c] \in S /\ v \notin S => Releasing' = Releasing - 1
      /\ ((cons[c] \in S) <=> (v \in S)) => Releasing' = Releasing
    BY <1>5 DEF Releasing
<1> QED  BY <1>2, <1>4, <1>6, <1>7

-----------------------------------------------------------------------------

LEMMA InitInv == Init => IInv
<1> SUFFICES ASSUME Init PROVE IInv
    OBVIOUS
<1>1. TypeOK /\ LockExact
    BY BoundsAssumption, PartiesAssumption
       DEF Init, TypeOK, LockExact, ProducerPoints, ConsumerPoints
<1>2. Reserving = 0 /\ Sending = 0 /\ Uncounted = 0 /\ Releasing = 0
    BY WhereNone DEF Init, Reserving, Sending, Uncounted, Releasing
<1> QED  BY <1>1, <1>2, BoundsAssumption
         DEF Init, IInv, SlotsAccounted, StatsExact

LEMMA NumberTypes ==
    ASSUME TypeOK
    PROVE  /\ permits \in Nat /\ chan \in Nat /\ enqueued \in Nat
           /\ dequeued \in Nat /\ dropped \in Nat /\ sent \in Nat
           /\ MaxSize \in Nat /\ MaxMessages \in Nat /\ MaxDrops \in Nat
BY BoundsAssumption DEF TypeOK

LEMMA ProducerStep ==
    ASSUME IInv, NEW p \in Producers, ProducerNext(p)
    PROVE  IInv'
<1> USE DEF IInv
<1>1. {"idle", "waiting", "permit", "sent"} = ProducerPoints
    BY DEF ProducerPoints
<1>2. UNCHANGED cons => UNCHANGED <<Uncounted, Releasing>>
    BY DEF Uncounted, Releasing
<1>3. CASE Enqueue(p) \/ EnqueueTimeout(p)
    <2>1. /\ prod' \in [Producers -> ProducerPoints]
          /\ UNCHANGED <<Reserving, Sending, Uncounted, Releasing>>
        BY <1>1, <1>2, <1>3, ProducerMove DEF Enqueue, EnqueueTimeout
    <2> QED  BY <1>3, <2>1
             DEF Enqueue, EnqueueTimeout, TypeOK, SlotsAccounted, StatsExact,
                 LockExact
<1>4. CASE Acquire(p) \/ TryAcquire(p)
    <2>1. /\ prod' \in [Producers -> ProducerPoints]
          /\ Reserving' = Reserving + 1
          /\ UNCHANGED <<Sending, Uncounted, Releasing>>
        BY <1>1, <1>2, <1>4, ProducerMove DEF Acquire, TryAcquire
    <2>2. /\ SlotsAccounted' /\ StatsExact' /\ permits' \in 0 .. MaxSize
          /\ sent' + Reserving' <= MaxMessages
          /\ sent' = chan' + dequeued' + Uncounted'
        BY <1>4, <2>1, CountTypes, NumberTypes
           DEF Acquire, TryAcquire, TypeOK, SlotsAccounted, StatsExact
    <2> QED  BY <1>4, <2>1, <2>2 DEF Acquire, TryAcquire, TypeOK, LockExact
<1>5. CASE Refuse(p)
    <2>1. UNCHANGED <<Reserving, Sending, Uncounted, Releasing>>
        BY <1>2, <1>5 DEF Refuse, Reserving, Sending
    <2>2. dropped' \in 0 .. MaxDrops
        BY <1>5, NumberTypes DEF Refuse
    <2> QED  BY <1>5, <2>1, <2>2
             DEF Refuse, TypeOK, SlotsAccounted, StatsExact, LockExact
<1>6. CASE Send(p)
    <2>1. /\ prod' \in [Producers -> ProducerPoints]
          /\ Reserving' = Reserving - 1 /\ Reserving' \in Nat
          /\ Sending' = Sending + 1
          /\ UNCHANGED <<Uncounted, Releasing>>
        BY <1>1, <1>2, <1>6, ProducerMove DEF Send
    <2>2. /\ SlotsAccounted' /\ StatsExact'
          /\ chan' \in 0 .. MaxSize /\ sent' \in 0 .. MaxMessages
          /\ sent' + Reserving' <= MaxMessages
          /\ sent' = chan' + dequeued' + Uncounted'
        BY <1>6, <2>1, CountTypes, NumberTypes
           DEF Send, SlotsAccounted, StatsExact
    <2> QED  BY <1>6, <2>1, <2>2 DEF Send, TypeOK, LockExact
<1>7. CASE SendCancelled(p)
    <2>1. /\ prod' \in [Producers -> ProducerPoints]
          /\ Reserving' = Reserving - 1 /\ Reserving' \in Nat
          /\ UNCHANGED <<Sending, Uncounted, Releasing>>
        BY <1>1, <1>2, <1>7, ProducerMove DEF SendCancelled
    <2>2. /\ SlotsAccounted' /\ StatsExact' /\ permits' \in 0 .. MaxSize
          /\ sent' + Reserving' <= MaxMessages
          /\ sent' = chan' + dequeued' + Uncounted'
        BY <1>7, <2>1, CountTypes, NumberTypes
           DEF SendCancelled, SlotsAccounted, StatsExact
    <2> QED  BY <1>7, <2>1, <2>2 DEF SendCancelled, TypeOK, LockExact
<1>8. CASE CountEnqueued(p)
    <2>1. /\ prod' \in [Producers -> ProducerPoints]
          /\ Sending' = Sending - 1 /\ Sending' \in Nat
          /\ UNCHANGED <<Reserving, Uncounted, Releasing>>
        BY <1>1, <1>2, <1>8, ProducerMove DEF CountEnqueued
    <2>2. /\ SlotsAccounted' /\ StatsExact' /\ enqueued' \in 0 .. MaxMessages
          /\ sent' + Reserving' <= MaxMessages
          /\ sent' = chan' + dequeued' + Uncounted'
        BY <1>8, <2>1, CountTypes, NumberTypes
           DEF CountEnqueued, PermitForgotten, SlotsAccounted, StatsExact
    <2> QED  BY <1>8, <2>1, <2>2
             DEF CountEnqueued, PermitForgotten, TypeOK, LockExact
<1> QED  BY <1>3, <1>4, <1>5, <1>6, <1>7, <1>8 DEF ProducerNext

LEMMA ConsumerStep ==
    ASSUME IInv, NEW c \in Consumers, ConsumerNext(c)
    PROVE  IInv'
<1> USE DEF IInv
<1>1. {"idle", "locked", "trying", "received", "counted"} = ConsumerPoints
    BY DEF ConsumerPoints
<1>2. UNCHANGED prod => UNCHANGED <<Reserving, Sending>>
    BY DEF Reserving, Sending
<1>3. CASE Lock(c) \/ TryLock(c) \/ GiveUp(c)
    <2>1. /\ cons' \in [Consumers -> ConsumerPoints]
          /\ UNCHANGED <<Reserving, Sending, Uncounted, Releasing>>
        BY <1>1, <1>2, <1>3, ConsumerMove DEF Lock, TryLock, GiveUp
    <2>2. LockExact'
        BY <1>3, PartiesAssumption
           DEF Lock, TryLock, GiveUp, LockReleased, LockExact, TypeOK
    <2> QED  BY <1>3, <2>1, <2>2
             DEF Lock, TryLock, GiveUp, LockReleased, TypeOK, SlotsAccounted,
                 StatsExact
<1>4. CASE Receive(c)
    <2>1. /\ cons' \in [Consumers -> ConsumerPoints]
          /\ Uncounted' = Uncounted + 1 /\ Releasing' = Releasing + 1
          /\ UNCHANGED <<Reserving, Sending>>
        BY <1>1, <1>2, <1>4, ConsumerMove DEF Receive
    <2>2. LockExact'
        BY <1>4 DEF Receive, LockExact, TypeOK
    <2>3. /\ SlotsAccounted' /\ StatsExact' /\ chan' \in 0 .. MaxSize
          /\ sent' + Reserving' <= MaxMessages
          /\ sent' = chan' + dequeued' + Uncounted'
        BY <1>4, <2>1, CountTypes, NumberTypes
           DEF Receive, SlotsAccounted, StatsExact, TypeOK
    <2> QED  BY <1>4, <2>1, <2>2, <2>3 DEF Receive, TypeOK
<1>5. CASE CountDequeued(c)
    <2>1. /\ cons' \in [Consumers -> ConsumerPoints]
          /\ Uncounted' = Uncounted - 1 /\ Uncounted' \in Nat
          /\ UNCHANGED <<Reserving, Sending, Releasing>>
        BY <1>1, <1>2, <1>5, ConsumerMove DEF CountDequeued
    <2>2. LockExact'
        BY <1>5 DEF CountDequeued, LockExact, TypeOK
    <2>3. /\ SlotsAccounted' /\ StatsExact' /\ dequeued' \in 0 .. MaxMessages
          /\ sent' + Reserving' <= MaxMessages
          /\ sent' = chan' + dequeued' + Uncounted'
        BY <1>5, <2>1, CountTypes, NumberTypes
           DEF CountDequeued, DequeuedUp, SlotsAccounted, StatsExact
    <2> QED  BY <1>5, <2>1, <2>2, <2>3 DEF CountDequeued, TypeOK
<1>6. CASE AddPermit(c)
    <2>1. /\ cons' \in [Consumers -> ConsumerPoints]
          /\ Releasing' = Releasing - 1 /\ Releasing' \in Nat
          /\ UNCHANGED <<Reserving, Sending, Uncounted>>
        BY <1>1, <1>2, <1>6, ConsumerMove DEF AddPermit
    <2>2. LockExact'
        BY <1>6, PartiesAssumption DEF AddPermit, LockReleased, LockExact, TypeOK
    <2>3. /\ SlotsAccounted' /\ StatsExact' /\ permits' \in 0 .. MaxSize
          /\ sent' + Reserving' <= MaxMessages
          /\ sent' = chan' + dequeued' + Uncounted'
        BY <1>6, <2>1, CountTypes, NumberTypes
           DEF AddPermit, PermitAdded, SlotsAccounted, StatsExact
    <2> QED  BY <1>6, <2>1, <2>2, <2>3 DEF AddPermit, LockReleased, TypeOK
<1> QED  BY <1>3, <1>4, <1>5, <1>6 DEF ConsumerNext

LEMMA StutterStep ==
    ASSUME IInv, UNCHANGED vars
    PROVE  IInv'
BY DEF IInv, vars, TypeOK, SlotsAccounted, StatsExact, LockExact, Reserving,
       Sending, Uncounted, Releasing

\* A producer with a permit is one of the slots.
LEMMA PermitMeansRoom == IInv => SendNeverWaits
<1> SUFFICES ASSUME IInv, NEW p \in Producers, prod[p] = "permit"
             PROVE  chan < MaxSize
    BY DEF SendNeverWaits
<1>1. Where(prod, {"permit"}) # {}
    BY DEF Where, IInv, TypeOK
<1>2. IsFiniteSet(Where(prod, {"permit"}))
    BY CountTypes, WhereFinite DEF IInv
<1>3. Reserving # 0
    BY <1>1, <1>2, FS_EmptySet DEF Reserving
<1> QED  BY <1>3, CountTypes, NumberTypes DEF IInv, SlotsAccounted

LEMMA QueueInvariant == Spec => []IInv
<1>1. IInv /\ [Next]_vars => IInv'
    BY ProducerStep, ConsumerStep, StutterStep DEF Next
<1> QED  BY InitInv, <1>1, PTL DEF Spec

\* The capacity of the queue is conserved, whatever the interleaving of calls
\* and cancellations (message_queue.rs:147-249).
THEOREM QueueTheorem == Spec => [](TypeOK /\ SlotsAccounted /\ LockExact)
BY QueueInvariant, PTL DEF IInv

\* The statistics are exact up to the operations in progress
\* (message_queue.rs:169, 223, 243).
THEOREM StatsTheorem == Spec => []StatsExact
BY QueueInvariant, PTL DEF IInv

\* A producer that holds a permit finds room in the channel: its send never
\* waits (message_queue.rs:194-213).
THEOREM RoomTheorem == Spec => []SendNeverWaits
BY QueueInvariant, PermitMeansRoom, PTL

\* A refusal happens only at full occupancy.
THEOREM DropTheorem == Spec => DropOnlyWhenFull
<1>1. IInv /\ [Next]_vars
        => [dropped' # dropped => chan + Reserving + Releasing = MaxSize]_vars
    <2> SUFFICES ASSUME IInv, Next, dropped' # dropped
                 PROVE  chan + Reserving + Releasing = MaxSize
        BY DEF vars
    <2>1. permits = 0
        BY DEF Next, ProducerNext, ConsumerNext, Enqueue, Acquire,
               EnqueueTimeout, TryAcquire, Refuse, Send, SendCancelled,
               CountEnqueued, Lock, TryLock, Receive, GiveUp, CountDequeued,
               AddPermit
    <2> QED  BY <2>1, CountTypes, NumberTypes DEF IInv, SlotsAccounted
<1> QED  BY QueueInvariant, <1>1, PTL DEF Spec, DropOnlyWhenFull

=============================================================================
