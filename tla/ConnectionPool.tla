--------------------------- MODULE ConnectionPool ---------------------------
(***************************************************************************)
(* The generic connection pool of pooling/connection_pool.rs: clients that *)
(* acquire and drop guards, the maintenance task that prunes and refills,  *)
(* and shutdown.  A step is one critical section of the state mutex, or    *)
(* the outcome of one await (create, is_valid, close).                     *)
(*                                                                         *)
(* The deque of idle connections is a set: which of its entries            *)
(* pop_front yields does not matter to any property.  Time is one fact     *)
(* about an idle connection: `expired`, what is_expired computes from the  *)
(* stamps of its pool entry.                                               *)
(***************************************************************************)
EXTENDS Integers, FiniteSets, Counting

CONSTANTS
    Clients,  \* tasks that use the pool
    Ids,      \* identities of connections; a free one is needed to create
    MinSize,  \* config.min_size
    MaxSize,  \* config.max_size
    MaxLost,  \* bound: connections dropped without being counted out
    None      \* not a connection

ASSUME SetsAssumption ==
    IsFiniteSet(Clients) /\ IsFiniteSet(Ids) /\ None \notin Ids
ASSUME SizesAssumption ==
    MinSize \in Nat /\ MaxSize \in Nat /\ MaxLost \in Nat

VARIABLES
    permits,     \* permits left in the semaphore
    total,       \* PoolState::total_connections
    available,   \* PoolState::available
    expired,     \* idle connections whose entry is_expired
    pc,          \* where each client is
    conn,        \* the connection it has in hand
    maintenance, \* where the maintenance task is
    needed,      \* connections prune_idle has still to create
    closing,     \* how many connections each party has still to close()
    lost         \* connections dropped while total_connections counts them

vars == <<permits, total, available, expired, pc, conn, maintenance, needed,
          closing, lost>>

-----------------------------------------------------------------------------

\* "idle", waiting for or about to ask for a permit; "permit", got it;
\* "validate", closing expired connections and then is_valid on a reused one;
\* "create", the same and then creating a new one; "replace", creating one while
\* the invalid one is still in hand; "held", the guard is with the user;
\* "returning", the guard's drop has pushed the connection and still owns the
\* permit.
PermitPoints == {"permit", "validate", "create", "replace", "held", "returning"}
Points       == {"idle"} \union PermitPoints

\* The client has a connection that total_connections counts.
CountedPoints == {"validate", "replace", "held"}

\* The client has a connection to use or is going to have one.
ConnPoints == {"validate", "create", "replace", "held"}

\* Who closes connections that have left the pool: they are in a vector of its
\* own, open but neither idle nor counted.
Closers == Clients \union {"prune", "shutdown"}

PermitHolders == Cardinality(Where(pc, PermitPoints))
CountedHolders == Cardinality(Where(pc, CountedPoints))
ConnHolders == Cardinality(Where(pc, ConnPoints))

InHand == {conn[c] : c \in Clients} \ {None}
Open   == available \union InHand

TypeOK ==
    /\ permits \in 0 .. MaxSize
    /\ total \in Nat
    /\ available \subseteq Ids
    /\ expired \subseteq Ids
    /\ pc \in [Clients -> Points]
    /\ conn \in [Clients -> Ids \union {None}]
    /\ maintenance \in {"tick", "fill"}
    /\ needed \in 0 .. MinSize
    /\ closing \in [Closers -> Nat]
    /\ lost \in 0 .. MaxLost

\* ConnectionPool::new.
Init ==
    /\ permits = MaxSize
    /\ total = 0
    /\ available = {}
    /\ expired = {}
    /\ pc = [c \in Clients |-> "idle"]
    /\ conn = [c \in Clients |-> None]
    /\ maintenance = "tick"
    /\ needed = 0
    /\ closing = [a \in Closers |-> 0]
    /\ lost = 0

-----------------------------------------------------------------------------
(* The decisions of the code, each with the form a slip would give it. *)

\* create_connection counts the connection it has made.
TotalForgotten == total
TotalUp == total + 1

\* An OwnedSemaphorePermit is dropped.
PermitForgotten == permits
PermitBack == permits + 1

\* remove_expired: the expired entries leave the deque and are counted out.
Unexpired == available \ expired
NumberExpired == Cardinality(available \intersect expired)
TotalUnexpired == total - NumberExpired

\* min_size.saturating_sub(total_connections), after remove_expired.
RefillAlways == MinSize
Refill == IF TotalUnexpired < MinSize THEN MinSize - TotalUnexpired ELSE 0

-----------------------------------------------------------------------------
(* acquire and the guard. *)

\* The semaphore grants a permit before acquire_timeout; a timeout changes
\* nothing.
AcquirePermit(c) ==
    /\ pc[c] = "idle"
    /\ permits > 0
    /\ permits' = permits - 1
    /\ pc' = [pc EXCEPT ![c] = "permit"]
    /\ UNCHANGED <<total, available, expired, conn, maintenance, needed,
                   closing, lost>>

\* Under the lock: remove_expired, then pop an idle connection and touch it.
Reuse(c, i) ==
    /\ pc[c] = "permit"
    /\ i \in Unexpired
    /\ total' = TotalUnexpired
    /\ available' = Unexpired \ {i}
    /\ expired' = {}
    /\ closing' = [closing EXCEPT ![c] = NumberExpired]
    /\ pc' = [pc EXCEPT ![c] = "validate"]
    /\ conn' = [conn EXCEPT ![c] = i]
    /\ UNCHANGED <<permits, maintenance, needed, lost>>

\* Under the lock: remove_expired leaves no idle connection.
FindNone(c) ==
    /\ pc[c] = "permit"
    /\ Unexpired = {}
    /\ total' = TotalUnexpired
    /\ available' = {}
    /\ expired' = {}
    /\ closing' = [closing EXCEPT ![c] = NumberExpired]
    /\ pc' = [pc EXCEPT ![c] = "create"]
    /\ UNCHANGED <<permits, conn, maintenance, needed, lost>>

\* close() of one of the connections in the vector of acquire, of prune_idle or
\* of shutdown returns.
Close(a) ==
    /\ closing[a] > 0
    /\ closing' = [closing EXCEPT ![a] = @ - 1]
    /\ UNCHANGED <<permits, total, available, expired, pc, conn, maintenance,
                   needed, lost>>

\* is_valid is true: the guard is handed out.
Valid(c) ==
    /\ pc[c] = "validate"
    /\ closing[c] = 0
    /\ pc' = [pc EXCEPT ![c] = "held"]
    /\ UNCHANGED <<permits, total, available, expired, conn, maintenance,
                   needed, closing, lost>>

\* is_valid is false: a new one is created, and the invalid one stays open
\* until that has ended.
Invalid(c) ==
    /\ pc[c] = "validate"
    /\ closing[c] = 0
    /\ pc' = [pc EXCEPT ![c] = "replace"]
    /\ UNCHANGED <<permits, total, available, expired, conn, maintenance,
                   needed, closing, lost>>

\* The connection in the hand of c, if there is one, is dropped; no line
\* decrements total_connections for it.
Lose(c) ==
    /\ lost + Cardinality({conn[c]} \ {None}) <= MaxLost
    /\ lost' = lost + Cardinality({conn[c]} \ {None})

\* create_connection: T::create succeeds and is counted under the lock, and the
\* connection it replaces is dropped.
CreateOk(c, i) ==
    /\ pc[c] \in {"create", "replace"}
    /\ closing[c] = 0
    /\ i \in Ids \ Open
    /\ total' = TotalUp
    /\ Lose(c)
    /\ conn' = [conn EXCEPT ![c] = i]
    /\ pc' = [pc EXCEPT ![c] = "held"]
    /\ UNCHANGED <<permits, available, expired, maintenance, needed, closing>>

\* T::create fails: acquire returns the error and drops its permit and the
\* connection it was to replace.
CreateErr(c) ==
    /\ pc[c] \in {"create", "replace"}
    /\ closing[c] = 0
    /\ permits' = PermitBack
    /\ Lose(c)
    /\ conn' = [conn EXCEPT ![c] = None]
    /\ pc' = [pc EXCEPT ![c] = "idle"]
    /\ UNCHANGED <<total, available, expired, maintenance, needed, closing>>

\* The caller drops the acquire future at an await: the permit is released, and
\* the connections it had yet to close and the one it took from the pool are
\* dropped, this one again without being counted out.
CancelAcquire(c) ==
    /\ pc[c] \in {"validate", "create", "replace"}
    /\ Lose(c)
    /\ permits' = PermitBack
    /\ conn' = [conn EXCEPT ![c] = None]
    /\ closing' = [closing EXCEPT ![c] = 0]
    /\ pc' = [pc EXCEPT ![c] = "idle"]
    /\ UNCHANGED <<total, available, expired, maintenance, needed>>

\* PooledGuard::drop pushes the connection with fresh stamps ...
GuardDrop(c) ==
    /\ pc[c] = "held"
    /\ available' = available \union {conn[c]}
    /\ expired' = expired \ {conn[c]}
    /\ conn' = [conn EXCEPT ![c] = None]
    /\ pc' = [pc EXCEPT ![c] = "returning"]
    /\ UNCHANGED <<permits, total, maintenance, needed, closing, lost>>

\* ... and then the guard's field _permit is dropped.
GuardRelease(c) ==
    /\ pc[c] = "returning"
    /\ permits' = PermitBack
    /\ pc' = [pc EXCEPT ![c] = "idle"]
    /\ UNCHANGED <<total, available, expired, conn, maintenance, needed,
                   closing, lost>>

-----------------------------------------------------------------------------
(* prune_idle, shutdown and the passing of time. *)

\* Under the lock: remove_expired, and how many connections are missing.
PruneScan ==
    /\ maintenance = "tick"
    /\ total' = TotalUnexpired
    /\ available' = Unexpired
    /\ expired' = {}
    /\ needed' = Refill
    /\ closing' = [closing EXCEPT !["prune"] = NumberExpired]
    /\ maintenance' = "fill"
    /\ UNCHANGED <<permits, pc, conn, lost>>

PruneCreateOk(i) ==
    /\ maintenance = "fill"
    /\ closing["prune"] = 0
    /\ needed > 0
    /\ i \in Ids \ Open
    /\ available' = available \union {i}
    /\ expired' = expired \ {i}
    /\ total' = TotalUp
    /\ needed' = needed - 1
    /\ UNCHANGED <<permits, pc, conn, maintenance, closing, lost>>

PruneCreateErr ==
    /\ maintenance = "fill"
    /\ closing["prune"] = 0
    /\ needed > 0
    /\ needed' = needed - 1
    /\ UNCHANGED <<permits, total, available, expired, pc, conn, maintenance,
                   closing, lost>>

PruneDone ==
    /\ maintenance = "fill"
    /\ closing["prune"] = 0
    /\ needed = 0
    /\ maintenance' = "tick"
    /\ UNCHANGED <<permits, total, available, expired, pc, conn, needed,
                   closing, lost>>

\* shutdown drains the idle connections, counts each one out and closes them; the
\* pool stays usable.  Calls of shutdown do not overlap here.
Shutdown ==
    /\ available # {}
    /\ closing["shutdown"] = 0
    /\ closing' = [closing EXCEPT !["shutdown"] = Cardinality(available)]
    /\ total' = total - Cardinality(available)
    /\ available' = {}
    /\ expired' = {}
    /\ UNCHANGED <<permits, pc, conn, maintenance, needed, lost>>

\* An idle connection is not used for idle_timeout, or its entry reaches
\* max_lifetime.
Expire(i) ==
    /\ i \in available \ expired
    /\ expired' = expired \union {i}
    /\ UNCHANGED <<permits, total, available, pc, conn, maintenance, needed,
                   closing, lost>>

-----------------------------------------------------------------------------

ClientNext(c) ==
    \/ AcquirePermit(c) \/ FindNone(c) \/ Valid(c) \/ Invalid(c)
    \/ CreateErr(c) \/ CancelAcquire(c) \/ GuardDrop(c) \/ GuardRelease(c)
    \/ \E i \in Ids : Reuse(c, i) \/ CreateOk(c, i)

MaintenanceNext ==
    \/ PruneScan \/ PruneCreateErr \/ PruneDone
    \/ \E i \in Ids : PruneCreateOk(i)

Next ==
    \/ \E c \in Clients : ClientNext(c)
    \/ MaintenanceNext
    \/ Shutdown
    \/ \E a \in Closers : Close(a)
    \/ \E i \in Ids : Expire(i)

Spec == Init /\ [][Next]_vars

-----------------------------------------------------------------------------
(* Safety. *)

\* Every permit is free or owned by one client, through creation errors,
\* cancelled acquires and the two steps of a guard's drop
\* (connection_pool.rs:168-221, 391-398): the pool never runs dry of permits.
PermitsAccounted == permits + PermitHolders = MaxSize

\* total_connections is what is idle or in hand, plus the connections that
\* were dropped without being counted out; so none of the decrements in
\* remove_expired and shutdown wraps the usize (connection_pool.rs:230, 250,
\* 306), in spite of the window between the lock and the validation.
TotalExact == total = Cardinality(available) + CountedHolders + lost

\* However a refill computed from an old count interleaves with acquires, at most
\* max_size + min_size connections are idle, in use or about to be made, as long
\* as the maintenance task is the only caller of prune_idle
\* (connection_pool.rs:259-281).
UsableBounded ==
    Cardinality(available) + ConnHolders + needed <= MaxSize + MinSize

\* No acquire, prune_idle or shutdown ever has more connections to close than
\* that (connection_pool.rs:181-200, 262-272, 300-314).
ClosingBounded == \A a \in Closers : closing[a] <= MaxSize + MinSize

\* What is open is bounded by the configuration and the number of calls under
\* way, though not by max_size + min_size: connections that are being closed, and
\* an invalid one while its replacement is made, come on top.
OpenBounded == UsableBounded /\ ClosingBounded

=============================================================================
