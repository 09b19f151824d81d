---------------------------- MODULE MessageQueue ----------------------------
(***************************************************************************)
(* The outbound message queue of core/message_queue.rs: a tokio channel    *)
(* of max_size, a semaphore of max_size permits that says whether there is *)
(* room, and three counters for stats().  Producers call enqueue or        *)
(* try_enqueue, consumers dequeue or try_dequeue, all concurrently; a step *)
(* is one access to the semaphore, the channel, the receiver's lock or a   *)
(* counter.  Messages are counted, not told apart: the channel is FIFO.    *)
(***************************************************************************)
EXTENDS Integers, FiniteSets, Counting

CONSTANTS
    Producers, Consumers,
    MaxSize,     \* config.max_size
    DropOnFull,  \* config.drop_on_full
    MaxMessages, \* bound: messages sent in a behaviour
    MaxDrops,    \* bound: messages refused in a behaviour
    None         \* not a consumer

ASSUME PartiesAssumption ==
    IsFiniteSet(Producers) /\ IsFiniteSet(Consumers) /\ None \notin Consumers
ASSUME BoundsAssumption ==
    /\ MaxSize \in Nat \ {0}   \* mpsc::channel panics on 0
    /\ DropOnFull \in BOOLEAN
    /\ MaxMessages \in Nat /\ MaxDrops \in Nat

VARIABLES
    permits,   \* permits left in the semaphore
    chan,      \* messages in the channel
    rxLock,    \* the consumer that holds the receiver's mutex, or None
    enqueued, dequeued, dropped,  \* the counters of the same names
    sent,      \* messages that ever entered the channel
    prod,      \* where each producer is
    cons       \* where each consumer is

vars == <<permits, chan, rxLock, enqueued, dropped, dequeued, sent, prod, cons>>

-----------------------------------------------------------------------------

\* "waiting" for a permit in enqueue; "permit", about to send; "sent", the
\* message is in the channel but not yet counted.
ProducerPoints == {"idle", "waiting", "permit", "sent"}

\* "locked", in recv; "trying", in try_recv; "received", has a message that is
\* not yet counted; "counted", its permit is not yet given back.
ConsumerPoints == {"idle", "locked", "trying", "received", "counted"}

Reserving == Cardinality(Where(prod, {"permit"}))
Sending   == Cardinality(Where(prod, {"sent"}))
Uncounted == Cardinality(Where(cons, {"received"}))
Releasing == Cardinality(Where(cons, {"received", "counted"}))

TypeOK ==
    /\ permits \in 0 .. MaxSize
    /\ chan \in 0 .. MaxSize
    /\ rxLock \in Consumers \union {None}
    /\ enqueued \in 0 .. MaxMessages
    /\ dequeued \in 0 .. MaxMessages
    /\ dropped \in 0 .. MaxDrops
    /\ sent \in 0 .. MaxMessages
    /\ prod \in [Producers -> ProducerPoints]
    /\ cons \in [Consumers -> ConsumerPoints]

\* MessageQueue::new.
Init ==
    /\ permits = MaxSize
    /\ chan = 0
    /\ rxLock = None
    /\ enqueued = 0 /\ dequeued = 0 /\ dropped = 0 /\ sent = 0
    /\ prod = [p \in Producers |-> "idle"]
    /\ cons = [c \in Consumers |-> "idle"]

-----------------------------------------------------------------------------
(* The decisions of the code, each with the form a slip would give it. *)

\* permit.forget() after a send: the permit stays taken until the dequeue.
PermitDropped == permits + 1
PermitForgotten == permits

\* add_permits(1) after a message was received.
PermitKept == permits
PermitAdded == permits + 1

\* dequeued_count.fetch_add(1).
DequeuedMissed == dequeued
DequeuedUp == dequeued + 1

\* The guard of the receiver's mutex is dropped where its scope ends.
LockLeaked == rxLock
LockReleased == None

-----------------------------------------------------------------------------
(* enqueue and try_enqueue. *)

\* enqueue with drop_on_full = false queues up at the semaphore.
Enqueue(p) ==
    /\ ~DropOnFull
    /\ prod[p] = "idle"
    /\ sent + Reserving < MaxMessages
    /\ prod' = [prod EXCEPT ![p] = "waiting"]
    /\ UNCHANGED <<permits, chan, rxLock, enqueued, dequeued, dropped, sent,
                   cons>>

\* The semaphore grants the permit.
Acquire(p) ==
    /\ prod[p] = "waiting"
    /\ permits > 0
    /\ sent + Reserving < MaxMessages
    /\ permits' = permits - 1
    /\ prod' = [prod EXCEPT ![p] = "permit"]
    /\ UNCHANGED <<chan, rxLock, enqueued, dequeued, dropped, sent, cons>>

\* enqueue_timeout expires, or the caller drops the future.
EnqueueTimeout(p) ==
    /\ prod[p] = "waiting"
    /\ prod' = [prod EXCEPT ![p] = "idle"]
    /\ UNCHANGED <<permits, chan, rxLock, enqueued, dequeued, dropped, sent,
                   cons>>

\* try_enqueue, or enqueue with drop_on_full: try_acquire succeeds.
TryAcquire(p) ==
    /\ prod[p] = "idle"
    /\ permits > 0
    /\ sent + Reserving < MaxMessages
    /\ permits' = permits - 1
    /\ prod' = [prod EXCEPT ![p] = "permit"]
    /\ UNCHANGED <<chan, rxLock, enqueued, dequeued, dropped, sent, cons>>

\* try_acquire fails: the message is counted as dropped.
Refuse(p) ==
    /\ prod[p] = "idle"
    /\ permits = 0
    /\ dropped < MaxDrops
    /\ dropped' = dropped + 1
    /\ UNCHANGED <<permits, chan, rxLock, enqueued, dequeued, sent, prod, cons>>

\* tx.send: waits while the channel is at its capacity.
Send(p) ==
    /\ prod[p] = "permit"
    /\ chan < MaxSize
    /\ chan' = chan + 1
    /\ sent' = sent + 1
    /\ prod' = [prod EXCEPT ![p] = "sent"]
    /\ UNCHANGED <<permits, rxLock, enqueued, dequeued, dropped, cons>>

\* The caller drops the future at the send: the permit goes back.
SendCancelled(p) ==
    /\ prod[p] = "permit"
    /\ permits' = permits + 1
    /\ prod' = [prod EXCEPT ![p] = "idle"]
    /\ UNCHANGED <<chan, rxLock, enqueued, dequeued, dropped, sent, cons>>

\* enqueued_count.fetch_add(1), and the permit is forgotten.
CountEnqueued(p) ==
    /\ prod[p] = "sent"
    /\ enqueued' = enqueued + 1
    /\ permits' = PermitForgotten
    /\ prod' = [prod EXCEPT ![p] = "idle"]
    /\ UNCHANGED <<chan, rxLock, dequeued, dropped, sent, cons>>

-----------------------------------------------------------------------------
(* dequeue and try_dequeue. *)

\* The receiver's mutex is taken: dequeue waits for it, try_dequeue gives up
\* at once (a stuttering step) when it is held.
Lock(c) ==
    /\ cons[c] = "idle"
    /\ rxLock = None
    /\ rxLock' = c
    /\ cons' = [cons EXCEPT ![c] = "locked"]
    /\ UNCHANGED <<permits, chan, enqueued, dequeued, dropped, sent, prod>>

TryLock(c) ==
    /\ cons[c] = "idle"
    /\ rxLock = None
    /\ rxLock' = c
    /\ cons' = [cons EXCEPT ![c] = "trying"]
    /\ UNCHANGED <<permits, chan, enqueued, dequeued, dropped, sent, prod>>

\* recv or try_recv yields a message.
Receive(c) ==
    /\ cons[c] \in {"locked", "trying"}
    /\ chan > 0
    /\ chan' = chan - 1
    /\ cons' = [cons EXCEPT ![c] = "received"]
    /\ UNCHANGED <<permits, rxLock, enqueued, dequeued, dropped, sent, prod>>

\* try_recv finds the channel empty, or the caller drops a dequeue future that
\* waits in recv: the lock is released.
GiveUp(c) ==
    /\ cons[c] = "locked" \/ (cons[c] = "trying" /\ chan = 0)
    /\ rxLock' = LockReleased
    /\ cons' = [cons EXCEPT ![c] = "idle"]
    /\ UNCHANGED <<permits, chan, enqueued, dequeued, dropped, sent, prod>>

CountDequeued(c) ==
    /\ cons[c] = "received"
    /\ dequeued' = DequeuedUp
    /\ cons' = [cons EXCEPT ![c] = "counted"]
    /\ UNCHANGED <<permits, chan, rxLock, enqueued, dropped, sent, prod>>

\* add_permits(1); the lock guard is dropped on return.
AddPermit(c) ==
    /\ cons[c] = "counted"
    /\ permits' = PermitAdded
    /\ rxLock' = LockReleased
    /\ cons' = [cons EXCEPT ![c] = "idle"]
    /\ UNCHANGED <<chan, enqueued, dequeued, dropped, sent, prod>>

-----------------------------------------------------------------------------

ProducerNext(p) ==
    \/ Enqueue(p) \/ Acquire(p) \/ EnqueueTimeout(p) \/ TryAcquire(p)
    \/ Refuse(p) \/ Send(p) \/ SendCancelled(p) \/ CountEnqueued(p)

ConsumerNext(c) ==
    \/ Lock(c) \/ TryLock(c) \/ Receive(c) \/ GiveUp(c)
    \/ CountDequeued(c) \/ AddPermit(c)

Next ==
    \/ \E p \in Producers : ProducerNext(p)
    \/ \E c \in Consumers : ConsumerNext(c)

Spec == Init /\ [][Next]_vars

\* A call that has begun goes on, and the application keeps calling dequeue.
\* recv wakes up when the channel holds a message (strongly fair: the wait may
\* be cancelled and begun again).  Producers owe nothing.
Fairness ==
    /\ WF_vars(\E c \in Consumers : Lock(c))
    /\ \A c \in Consumers :
          /\ SF_vars(Receive(c))
          /\ WF_vars(cons[c] = "trying" /\ GiveUp(c))
          /\ WF_vars(CountDequeued(c)) /\ WF_vars(AddPermit(c))

FairSpec == Spec /\ Fairness

-----------------------------------------------------------------------------
(* Safety. *)

\* Every permit is free, or reserved by a producer that has not sent yet, or
\* stands for a message in the channel, or is about to be given back for a
\* message received (message_queue.rs:147-249): timeouts, cancelled calls and
\* a consumer that overtakes the producer's forget() never lose or invent
\* capacity.
SlotsAccounted == permits + Reserving + chan + Releasing = MaxSize

\* The counters of stats() agree with the channel up to the operations that
\* are between their effect and their count; so whenever no operation is in
\* progress depth is the number of messages (message_queue.rs:169, 223, 243).
StatsExact == enqueued + Sending = chan + dequeued + Uncounted

\* The receiver's lock is held exactly by the consumer that uses the channel,
\* and is released on every path out of dequeue and try_dequeue.
LockExact ==
    \A c \in Consumers : cons[c] # "idle" <=> rxLock = c

\* A producer that has a permit never waits in tx.send: the channel has room
\* for it, so try_enqueue does not block (message_queue.rs:194-213).
SendNeverWaits == \A p \in Producers : prod[p] = "permit" => chan < MaxSize

\* A message is refused only while every slot is taken, by a message or by an
\* operation in progress.
DropOnlyWhenFull ==
    [][dropped' # dropped => chan + Reserving + Releasing = MaxSize]_vars

-----------------------------------------------------------------------------
(* Liveness. *)

Received == sent - chan

\* A message that entered the channel is received, if consumers keep calling
\* dequeue, even though they cancel calls and compete for the lock.
Delivered == \A k \in 1 .. MaxMessages : sent >= k ~> Received >= k

=============================================================================
