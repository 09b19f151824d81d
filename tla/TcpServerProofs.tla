-------------------------- MODULE TcpServerProofs --------------------------
(***************************************************************************)
(* Proofs about TcpServer, for every set of connections, every limit and   *)
(* every number of restarts.                                               *)
(***************************************************************************)
EXTENDS TcpServer, CountingProofs

-----------------------------------------------------------------------------
(* The connection limit. *)

\* The accept loop works on a connection exactly while it is between accept()
\* and the push of the handle, that connection is where the loop put it, and no
\* other one is being set up.
AcceptingInv ==
    /\ \A c \in Conns : task[c] = "admitted" =>
         serverTask = "spawn" /\ accepting = c
    /\ serverTask = "spawn" =>
         accepting \in Conns /\ task[accepting] = "admitted"
    /\ serverTask = "track" => accepting \in Conns
    /\ serverTask \in {"none", "accept", "exited"} => accepting = None

\* start() and the end of stop() meet no accept loop.
OwnerInv ==
    /\ owner = "idle" /\ ~running => serverTask \in {"none", "exited"}
    /\ owner \in {"closing", "abort"} => serverTask = "exited"

\* Inductive: the counters stay in their types because they are exact.
LimitInv ==
    /\ TypeOK /\ AcceptingInv /\ OwnerInv
    /\ PermitsAccounted /\ LimitNeverBinds /\ CountExact

\* A step of the accept loop or of a session task that moves connection c from
\* one state to another keeps both counters exact, if it changes each of them
\* as the two states demand.
LEMMA MoveKeepsCounts ==
    ASSUME TypeOK, PermitsAccounted, CountExact,
           NEW c \in Conns, NEW v \in TaskStates,
           task' = [task EXCEPT ![c] = v],
           maxConnections' = maxConnections,
           permits' = CASE task[c] \in HoldingStates /\ v \notin HoldingStates
                             -> permits + 1
                        [] task[c] \notin HoldingStates /\ v \in HoldingStates
                             -> permits - 1
                        [] OTHER -> permits,
           task[c] \notin HoldingStates /\ v \in HoldingStates => permits > 0,
           connectionCount' =
                      CASE task[c] \in CountedStates /\ v \notin CountedStates
                             -> connectionCount - 1
                        [] task[c] \notin CountedStates /\ v \in CountedStates
                             -> connectionCount + 1
                        [] OTHER -> connectionCount
    PROVE  /\ PermitsAccounted' /\ CountExact'
           /\ task' \in [Conns -> TaskStates]
           /\ permits' \in 0 .. maxConnections' /\ connectionCount' \in Nat
<1> DEFINE h == Cardinality(Where(task, HoldingStates))
           k == Cardinality(Where(task, CountedStates))
<1>0. /\ task \in [Conns -> TaskStates] /\ task' \in [Conns -> TaskStates]
      /\ permits \in Nat /\ connectionCount \in Nat /\ maxConnections \in Nat
      /\ permits <= maxConnections
      /\ IsFiniteSet(DOMAIN task) /\ c \in DOMAIN task
    BY MaxAssumption, ConnsAssumption DEF TypeOK
<1>1. h \in Nat /\ k \in Nat /\ permits + h = maxConnections
      /\ connectionCount = k
    BY <1>0, WhereFinite DEF PermitsAccounted, Holders, CountExact
<1>2. /\ permits' + Cardinality(Where(task', HoldingStates))
            = maxConnections
      /\ permits' \in 0 .. maxConnections
    <2>1. CASE task[c] \in HoldingStates /\ v \notin HoldingStates
        <3>1. Cardinality(Where(task', HoldingStates)) = h - 1 /\ h > 0
            BY <2>1, <1>0, WhereLeave
        <3>2. permits' = permits + 1
            BY <2>1
        <3> QED  BY <3>1, <3>2, <1>0, <1>1
    <2>2. CASE task[c] \notin HoldingStates /\ v \in HoldingStates
        <3>1. Cardinality(Where(task', HoldingStates)) = h + 1
            BY <2>2, <1>0, WhereEnter
        <3>2. permits' = permits - 1 /\ permits > 0
            BY <2>2
        <3> QED  BY <3>1, <3>2, <1>0, <1>1
    <2>3. CASE (task[c] \in HoldingStates) <=> (v \in HoldingStates)
        <3>1. Where(task', HoldingStates) = Where(task, HoldingStates)
            BY <2>3, <1>0, WhereStay
        <3>2. permits' = permits
            BY <2>3
        <3> QED  BY <3>1, <3>2, <1>0, <1>1
    <2> QED  BY <2>1, <2>2, <2>3
<1>3. /\ connectionCount' = Cardinality(Where(task', CountedStates))
      /\ connectionCount' \in Nat
    <2>1. CASE task[c] \in CountedStates /\ v \notin CountedStates
        <3>1. Cardinality(Where(task', CountedStates)) = k - 1 /\ k > 0
            BY <2>1, <1>0, WhereLeave
        <3>2. connectionCount' = connectionCount - 1
            BY <2>1
        <3> QED  BY <3>1, <3>2, <1>0, <1>1
    <2>2. CASE task[c] \notin CountedStates /\ v \in CountedStates
        <3>1. Cardinality(Where(task', CountedStates)) = k + 1
            BY <2>2, <1>0, WhereEnter
        <3>2. connectionCount' = connectionCount + 1
            BY <2>2
        <3> QED  BY <3>1, <3>2, <1>0, <1>1
    <2>3. CASE (task[c] \in CountedStates) <=> (v \in CountedStates)
        <3>1. Where(task', CountedStates) = Where(task, CountedStates)
            BY <2>3, <1>0, WhereStay
        <3>2. connectionCount' = connectionCount
            BY <2>3
        <3> QED  BY <3>1, <3>2, <1>0, <1>1
    <2> QED  BY <2>1, <2>2, <2>3
<1> QED  BY <1>0, <1>2, <1>3 DEF PermitsAccounted, Holders, CountExact

LEMMA LimitInit == Init => LimitInv
<1> SUFFICES ASSUME Init PROVE LimitInv
    OBVIOUS
<1>1. Where(task, HoldingStates) = {} /\ Where(task, CountedStates) = {}
    BY DEF Init, Where, HoldingStates, CountedStates, AwaitStates,
           TailStates
<1>a. Cardinality({}) = 0
    BY FS_EmptySet
<1>2. PermitsAccounted /\ CountExact
    <2>1. permits = maxConnections /\ connectionCount = 0
        BY DEF Init
    <2>2. maxConnections \in Nat
        BY MaxAssumption DEF Init
    <2> QED  BY <2>1, <2>2, <1>1, <1>a
             DEF PermitsAccounted, CountExact, Holders
<1>3. TypeOK
    <2>1. /\ task \in [Conns -> TaskStates]
          /\ abort \in [Conns -> BOOLEAN]
          /\ state \in [Conns -> {"Active", "Closing", "Closed"}]
        BY DEF Init, TaskStates
    <2>2. /\ active \in [Conns -> BOOLEAN]
          /\ readHalf \in [Conns -> BOOLEAN]
          /\ writeHalf \in [Conns -> BOOLEAN]
          /\ idle \in [Conns -> BOOLEAN]
        BY DEF Init
    <2>3. /\ closeAt \in [Closers -> {"no", "write", "read"}]
          /\ closeOn \in [Closers -> Conns \union {None}]
          /\ todo \in [{"stop", "cleanup"} -> SUBSET Conns]
        BY DEF Init
    <2>4. running \in BOOLEAN /\ shutdownMsg \in BOOLEAN
        BY DEF Init
    <2>5. /\ connectionCount \in Nat /\ permits \in 0 .. maxConnections
          /\ starts \in Nat /\ maxConnections \in Limits
        BY MaxAssumption DEF Init
    <2>6. /\ sessions \subseteq Conns /\ sessionTasks \subseteq Conns
          /\ serverTask \in ServerStates /\ cleanupTask \in CleanupStates
          /\ owner \in OwnerStates /\ accepting \in Conns \union {None}
        BY DEF Init, ServerStates, CleanupStates, OwnerStates
    <2> QED  BY <2>1, <2>2, <2>3, <2>4, <2>5, <2>6 DEF TypeOK
<1>4. AcceptingInv /\ OwnerInv /\ LimitNeverBinds
    BY DEF Init, AcceptingInv, OwnerInv, LimitNeverBinds
<1> QED  BY <1>2, <1>3, <1>4 DEF LimitInv

\* The steps that move one connection.
LEMMA LimitMoves ==
    ASSUME LimitInv, ServerNext \/ \E c \in Conns : TaskNext(c)
    PROVE  LimitInv'
<1> USE DEF LimitInv, HoldingStates, CountedStates, AwaitStates, TailStates,
            TaskStates, CountUp, CountDown, PermitBack
<1> DEFINE CountsOK == /\ PermitsAccounted' /\ CountExact'
                       /\ task' \in [Conns -> TaskStates]
                       /\ permits' \in 0 .. maxConnections'
                       /\ connectionCount' \in Nat
<1>0. /\ serverTask = "spawn" => accepting \in Conns
      /\ serverTask = "spawn" => task[accepting] = "admitted"
    BY DEF AcceptingInv
<1>1. CountsOK
    <2>1. ASSUME NEW c \in Conns, Accept(c) PROVE CountsOK
        BY <2>1, MoveKeepsCounts DEF Accept, limits
    <2>2. ASSUME NEW c \in Conns, Reject(c) PROVE CountsOK
        BY <2>2, MoveKeepsCounts DEF Reject, limits
    <2>4. CASE SetupFailed
        BY <2>4, <1>0, MoveKeepsCounts DEF SetupFailed, limits
    <2>5. CASE Spawn
        BY <2>5, <1>0, MoveKeepsCounts DEF Spawn, limits
    <2>6. CASE Track \/ ServerShutdown \/ ServerCancelled
        BY <2>6
           DEF Track, ServerShutdown, ServerCancelled, TypeOK,
               PermitsAccounted, CountExact, Holders, limits, tasks
    <2>7. ASSUME NEW c \in Conns, TaskStart(c) PROVE CountsOK
        BY <2>7, MoveKeepsCounts DEF TaskStart, limits
    <2>8. ASSUME NEW c \in Conns, Receive(c) PROVE CountsOK
        <3> DEFINE v == IF active[c] /\ ~idle[c] /\ readHalf[c]
                          THEN "reading" ELSE "disconnecting"
        <3>1. v \in {"reading", "disconnecting"}
            OBVIOUS
        <3>2. /\ task[c] = "handling"
              /\ task' = [task EXCEPT ![c] = v]
              /\ UNCHANGED limits
            BY <2>8 DEF Receive
        <3> HIDE DEF v
        <3> QED  BY <3>1, <3>2, MoveKeepsCounts DEF limits
    <2>9. ASSUME NEW c \in Conns, ReceiveOk(c) \/ ReceiveErr(c)
          PROVE  CountsOK
        BY <2>9, MoveKeepsCounts DEF ReceiveOk, ReceiveErr, limits
    <2>10. ASSUME NEW c \in Conns, HandlerClose(c) PROVE CountsOK
        BY <2>10 DEF HandlerClose, TypeOK, PermitsAccounted, CountExact,
                     Holders, limits, tasks
    <2>11. ASSUME NEW c \in Conns, Disconnected(c) \/ Finish(c)
           PROVE  CountsOK
        BY <2>11, MoveKeepsCounts DEF Disconnected, Finish, limits
    <2>12. ASSUME NEW c \in Conns, Cancel(c) \/ HandlerPanics(c) PROVE CountsOK
        BY <2>12, MoveKeepsCounts DEF Cancel, HandlerPanics, Unwind, limits
    <2> QED  BY <2>1, <2>2, <2>4, <2>5, <2>6, <2>7, <2>8, <2>9, <2>10, <2>11,
                <2>12 DEF ServerNext, TaskNext
<1> HIDE DEF CountUp, CountDown, PermitBack
<1>2. TypeOK'
    <2> USE DEF server, limits, lists, drivers, tasks, session, closers
    <2>1. CASE ServerNext
        <3> USE DEF TypeOK, ServerStates
        <3>1. CASE \E c \in Conns : Accept(c) \/ Reject(c)
            BY <3>1, <1>1, ConnsAssumption DEF Accept, Reject
        <3>2. CASE SetupFailed
            BY <3>2, <1>0, <1>1, ConnsAssumption DEF SetupFailed, AcceptingInv
        <3>3. CASE Spawn \/ Track
            BY <3>3, <1>0, <1>1, ConnsAssumption DEF Spawn, Track, AcceptingInv, Unfinished
        <3>4. CASE ServerShutdown \/ ServerCancelled
            BY <3>4, <1>0, <1>1, ConnsAssumption
               DEF ServerShutdown, ServerCancelled, AcceptingInv
        <3> QED  BY <2>1, <3>1, <3>2, <3>3, <3>4 DEF ServerNext
    <2>2. ASSUME NEW c \in Conns, TaskNext(c) PROVE TypeOK'
        <3>1. CASE HandlerClose(c)
            BY <2>2, <3>1, <1>1
               DEF HandlerClose, CloseBegin, TypeOK, Closers
        <3>2. CASE Cancel(c) \/ HandlerPanics(c)
            BY <2>2, <3>2, <1>1 DEF Cancel, HandlerPanics, Unwind, TypeOK, Closers
        <3>3. CASE ReceiveOk(c)
            BY <2>2, <3>3, <1>1 DEF ReceiveOk, TypeOK
        <3>4. CASE TaskStart(c) \/ Finish(c)
            BY <2>2, <3>4, <1>1 DEF TaskStart, Finish, TypeOK, ListWithout
        <3>5. CASE Receive(c) \/ ReceiveErr(c) \/ Disconnected(c)
            BY <2>2, <3>5, <1>1
               DEF Receive, ReceiveErr, Disconnected, TypeOK
        <3> QED  BY <2>2, <3>1, <3>2, <3>3, <3>4, <3>5 DEF TaskNext
    <2> QED  BY <2>1, <2>2
<1>3. AcceptingInv' /\ OwnerInv'
    <2> USE DEF server, drivers, tasks, AcceptingInv, OwnerInv, TypeOK
    <2>1. CASE ServerNext
        BY <2>1, ConnsAssumption
           DEF ServerNext, Accept, Reject, SetupFailed, Spawn, Track,
               ServerShutdown, ServerCancelled, ServerStates, DropStates
    <2>2. ASSUME NEW c \in Conns, TaskNext(c)
          PROVE  AcceptingInv' /\ OwnerInv'
        BY <2>2, <1>1
           DEF TaskNext, TaskStart, Receive, ReceiveOk, ReceiveErr,
               HandlerClose, Disconnected, Finish, Cancel, HandlerPanics,
               Unwind
    <2> QED  BY <2>1, <2>2
<1>4. LimitNeverBinds'
    <2> USE DEF limits, tasks, LimitNeverBinds, TypeOK
    <2>1. ASSUME NEW c \in Conns, Reject(c) PROVE LimitNeverBinds'
        <3>1. Holders = {}
            BY <2>1 DEF Reject, AcceptingInv, Holders, Where
        <3>2. permits = maxConnections
            BY <3>1, FS_EmptySet, MaxAssumption DEF PermitsAccounted
        <3> QED  BY <2>1, <3>2 DEF Reject
    <2>2. CASE \/ \E c \in Conns : Accept(c)
               \/ SetupFailed \/ Spawn \/ Track
               \/ ServerShutdown \/ ServerCancelled
        BY <2>2, <1>0 DEF Accept, SetupFailed, Spawn, Track, ServerShutdown,
                          ServerCancelled
    <2>3. ASSUME NEW c \in Conns, TaskNext(c) PROVE LimitNeverBinds'
        BY <2>3 DEF TaskNext, TaskStart, Receive, ReceiveOk, ReceiveErr,
                    HandlerClose, Disconnected, Finish, Cancel, HandlerPanics,
                    Unwind
    <2> QED  BY <2>1, <2>2, <2>3 DEF ServerNext
<1> QED  BY <1>1, <1>2, <1>3, <1>4

\* The other steps move no connection and leave both counters alone.
Others ==
    \/ Start \/ StopBegin \/ StopNext \/ DropNext \/ CleanupNext
    \/ \E c \in Conns : BecomeIdle(c) \/ Sent(c)
    \/ \E a \in Closers : CloseWrite(a) \/ CloseRead(a)
    \/ UNCHANGED vars

LEMMA LimitOthers ==
    ASSUME LimitInv, Others
    PROVE  LimitInv'
<1> USE DEF LimitInv, server, limits, lists, drivers, tasks, session, closers
<1>0. ASSUME UNCHANGED <<limits, task>>
      PROVE  PermitsAccounted' /\ LimitNeverBinds' /\ CountExact'
    BY <1>0 DEF PermitsAccounted, LimitNeverBinds, CountExact, Holders
<1>1. CASE Start
    <2>1. starts' \in Nat
        BY <1>1 DEF Start, TypeOK
    <2>2. running' \in BOOLEAN /\ shutdownMsg' \in BOOLEAN
        BY <1>1 DEF Start
    <2>3. TypeOK'
        BY <1>1, <2>1, <2>2
           DEF Start, TypeOK, ServerStates, CleanupStates
    <2>4. AcceptingInv' /\ OwnerInv'
        BY <1>1 DEF Start, AcceptingInv, OwnerInv
    <2> QED  BY <1>0, <1>1, <2>3, <2>4 DEF Start
<1>2. CASE StopBegin \/ StopNext
    <2>1. TypeOK'
        <3>1. CASE StopAbort
            BY <3>1 DEF StopAbort, TypeOK, OwnerStates, TasksAborted
        <3>2. ASSUME NEW c \in Conns, StopClose(c) PROVE TypeOK'
            BY <3>2 DEF StopClose, CloseBegin, TypeOK, Closers
        <3>3. CASE StopBegin
            BY <3>3 DEF StopBegin, TypeOK, OwnerStates
        <3>4. CASE StopClear
            BY <3>4 DEF StopClear, TypeOK, OwnerStates
        <3>5. CASE StopSnapshot
            BY <3>5 DEF StopSnapshot, TypeOK, OwnerStates
        <3> QED  BY <1>2, <3>1, <3>2, <3>3, <3>4, <3>5 DEF StopNext
    <2>2. AcceptingInv' /\ OwnerInv' /\ UNCHANGED <<limits, task>>
        BY <1>2 DEF StopBegin, StopNext, StopSnapshot, StopClear, StopAbort,
                    StopClose, ServerJoined, AcceptingInv, OwnerInv
    <2> QED  BY <1>0, <2>1, <2>2
<1>3. CASE DropNext
    <2>1. TypeOK'
        BY <1>3 DEF DropNext, DropBegin, DropAbort, DropMark, DropClear,
                    TypeOK, OwnerStates, DropStates, TasksAborted
    <2>2. AcceptingInv' /\ OwnerInv' /\ UNCHANGED <<limits, task>>
        BY <1>3 DEF DropNext, DropBegin, DropAbort, DropMark, DropClear,
                    AcceptingInv, OwnerInv
    <2> QED  BY <1>0, <2>1, <2>2
<1>4. CASE CleanupNext
    <2>1. TypeOK'
        <3>1. ASSUME NEW c \in Conns, CleanupClose(c) PROVE TypeOK'
            BY <3>1 DEF CleanupClose, CloseBegin, TypeOK, Closers
        <3>2. CASE CleanupCancelled
            BY <3>2 DEF CleanupCancelled, TypeOK, CleanupStates, Closers
        <3>3. CASE CleanupCheck \/ CleanupSnapshot
            BY <3>3 DEF CleanupCheck, CleanupSnapshot, IdleSessions, TypeOK,
                        CleanupStates
        <3> QED  BY <1>4, <3>1, <3>2, <3>3 DEF CleanupNext
    <2>2. AcceptingInv' /\ OwnerInv' /\ UNCHANGED <<limits, task>>
        BY <1>4 DEF CleanupNext, CleanupCheck, CleanupSnapshot, CleanupClose,
                    CleanupCancelled, AcceptingInv, OwnerInv
    <2> QED  BY <1>0, <2>1, <2>2
<1>5. ASSUME NEW a \in Closers, CloseWrite(a) PROVE LimitInv'
    <2>1. /\ writeHalf' \in [Conns -> BOOLEAN]
          /\ closeAt' \in [Closers -> {"no", "write", "read"}]
        BY <1>5 DEF CloseWrite, TypeOK
    <2> QED  BY <1>0, <1>5, <2>1 DEF CloseWrite, TypeOK, AcceptingInv, OwnerInv
<1>6. ASSUME NEW a \in Closers, CloseRead(a) PROVE LimitInv'
    <2>1. /\ readHalf' \in [Conns -> BOOLEAN]
          /\ state' \in [Conns -> {"Active", "Closing", "Closed"}]
        BY <1>6 DEF CloseRead, TypeOK
    <2>2. /\ closeAt' \in [Closers -> {"no", "write", "read"}]
          /\ closeOn' \in [Closers -> Conns \union {None}]
        BY <1>6 DEF CloseRead, TypeOK
    <2> QED  BY <1>0, <1>6, <2>1, <2>2
             DEF CloseRead, TypeOK, AcceptingInv, OwnerInv
<1>7. CASE (\E c \in Conns : BecomeIdle(c) \/ Sent(c)) \/ UNCHANGED vars
    <2>1. /\ idle' \in [Conns -> BOOLEAN]
          /\ UNCHANGED <<server, limits, lists, drivers, tasks, state, active,
                         readHalf, writeHalf, closers>>
        BY <1>7 DEF BecomeIdle, Sent, TypeOK, vars
    <2> QED  BY <1>0, <2>1 DEF TypeOK, AcceptingInv, OwnerInv
<1> QED  BY <1>1, <1>2, <1>3, <1>4, <1>5, <1>6, <1>7 DEF Others

LEMMA LimitStep == LimitInv /\ [Next]_vars => LimitInv'
BY LimitMoves, LimitOthers DEF Next, Others

\* The permits of the connection semaphore are conserved, and as each is back
\* when handle_connection returns, no server with a positive max_connections ever
\* refuses a connection, however many sessions are alive: for any number of
\* connections, any limit and any number of restarts (server.rs:131-429).
THEOREM LimitTheorem ==
    Spec => [](TypeOK /\ PermitsAccounted /\ LimitNeverBinds)
BY LimitInit, LimitStep, PTL DEF Spec, LimitInv

\* connection_count is exact up to cancelled tasks, so that it never wraps
\* (server.rs:184, 226, 233, 409, 425).
THEOREM CountTheorem == Spec => []CountExact
BY LimitInit, LimitStep, PTL DEF Spec, LimitInv

-----------------------------------------------------------------------------
(* Supervision: no session task escapes stop(). *)

\* While the owner may still call stop(), the shutdown message is in the
\* channel only between stop's send and the exit of the accept loop.
ShutdownInv ==
    /\ owner \notin DropStates /\ running
         => serverTask \notin {"none", "exited"}
    /\ shutdownMsg => owner \in {"join"} \union DropStates
    /\ owner = "join" /\ shutdownMsg
         => serverTask \notin {"none", "exited"}

\* A task that has not been aborted is tracked, and its session is listed,
\* except between stop's clear() of the list and its abort() of the tasks.
TrackedInv ==
    /\ owner \notin DropStates =>
         \A c \in Conns : task[c] \in AwaitStates /\ ~abort[c] =>
             c \in sessionTasks \/ accepting = c
    /\ owner \notin DropStates \union {"abort"} =>
         \A c \in Conns : task[c] \in SessionStates /\ ~abort[c] =>
             c \in sessions
    /\ owner = "idle" /\ ~running =>
         \A c \in Conns : task[c] \in AwaitStates => abort[c]

SupervisionInv == ShutdownInv /\ TrackedInv

LEMMA SupervisionStep ==
    ASSUME LimitInv, SupervisionInv, [Next]_vars
    PROVE  SupervisionInv'
<1> USE DEF SupervisionInv, LimitInv, server, lists, drivers, tasks, closers,
            ShutdownInv, TrackedInv, OwnerInv, AcceptingInv, TypeOK
<1>1. CASE Start \/ StopBegin
    BY <1>1 DEF Start, StopBegin, DropStates
<1>2. CASE StopNext
    <2>1. CASE StopAbort
        <3>1. accepting = None /\ serverTask = "exited" /\ owner' = "idle"
            BY <2>1 DEF StopAbort
        <3>2. \A c \in Conns : task[c] \in AwaitStates => abort[c] \/ c \in sessionTasks
            BY <2>1, <3>1, ConnsAssumption DEF StopAbort, DropStates
        <3>3. \A c \in Conns : task'[c] \in AwaitStates => abort'[c]
            BY <2>1, <3>2 DEF StopAbort, TasksAborted, Unfinished, AwaitStates
        <3> QED  BY <2>1, <3>1, <3>3
                 DEF StopAbort, AwaitStates, SessionStates, DropStates
    <2>2. CASE StopSnapshot \/ StopClear \/ \E c \in Conns : StopClose(c)
        BY <2>2 DEF StopSnapshot, StopClear, StopClose, ServerJoined, DropStates
    <2> QED  BY <1>2, <2>1, <2>2 DEF StopNext
<1>3. CASE DropNext
    BY <1>3 DEF DropNext, DropBegin, DropAbort, DropMark, DropClear,
                DropStates
<1>4. CASE CleanupNext
    BY <1>4 DEF CleanupNext, CleanupCheck, CleanupSnapshot, CleanupClose,
                CleanupCancelled
<1>5. CASE ServerNext
    <2> USE DEF AwaitStates, SessionStates, DropStates
    <2>1. CASE \E c \in Conns : Accept(c) \/ Reject(c)
        BY <2>1, ConnsAssumption DEF Accept, Reject
    <2>2. CASE SetupFailed \/ Spawn
        BY <2>2, ConnsAssumption DEF SetupFailed, Spawn
    <2>3. CASE Track
        BY <2>3 DEF Track, Unfinished
    <2>4. CASE ServerShutdown \/ ServerCancelled
        BY <2>4 DEF ServerShutdown, ServerCancelled
    <2> QED  BY <1>5, <2>1, <2>2, <2>3, <2>4 DEF ServerNext
<1>6. ASSUME NEW c \in Conns, TaskNext(c) PROVE SupervisionInv'
    BY <1>6 DEF TaskNext, TaskStart, Receive, ReceiveOk, ReceiveErr,
                HandlerClose, Disconnected, Finish, Cancel, HandlerPanics,
                Unwind, ListWithout, AwaitStates, SessionStates
<1>7. CASE \/ \E c \in Conns : BecomeIdle(c) \/ Sent(c)
           \/ \E a \in Closers : CloseWrite(a) \/ CloseRead(a)
           \/ UNCHANGED vars
    BY <1>7 DEF BecomeIdle, Sent, CloseWrite, CloseRead, vars
<1> QED  BY <1>1, <1>2, <1>3, <1>4, <1>5, <1>6, <1>7 DEF Next

LEMMA Supervised == Spec => [](LimitInv /\ SupervisionInv)
<1>1. Init => SupervisionInv
    BY DEF Init, SupervisionInv, ShutdownInv, TrackedInv, DropStates,
           AwaitStates, SessionStates
<1>2. LimitInv /\ SupervisionInv /\ [Next]_vars => SupervisionInv'
    BY SupervisionStep
<1> QED  BY LimitInit, LimitStep, <1>1, <1>2, PTL DEF Spec

\* After stop() returns no session task is left that was not told to end
\* (server.rs:322-367).
THEOREM SupervisionTheorem == Spec => []StopLeavesNoTask
<1>1. LimitInv /\ SupervisionInv => StopLeavesNoTask
    BY DEF LimitInv, SupervisionInv, TrackedInv, AcceptingInv, OwnerInv,
           StopLeavesNoTask, AwaitStates, SessionStates, DropStates
<1> QED  BY <1>1, Supervised, PTL

\* A session that was not aborted is reachable by stop, broadcast and cleanup
\* (server.rs:254, 400).
THEOREM ReachableTheorem == Spec => []LiveSessionsReachable
<1>1. LimitInv /\ SupervisionInv => LiveSessionsReachable
    BY DEF LimitInv, SupervisionInv, TrackedInv, AcceptingInv, OwnerInv,
           LiveSessionsReachable, AwaitStates, SessionStates, DropStates
<1> QED  BY <1>1, Supervised, PTL

-----------------------------------------------------------------------------
(* Concurrent close() calls. *)

\* A caller of close() that has begun has made its session inactive for good,
\* and past the write half it has taken that half.
ClosingInv ==
    \A a \in Closers : closeAt[a] # "no" =>
        /\ closeOn[a] \in Conns
        /\ ~active[closeOn[a]]
        /\ closeAt[a] = "read" => ~writeHalf[closeOn[a]]

\* Closed means closed for any number of connections and any interleaving of
\* close() calls by handlers, stop() and the cleanup task with receive()
\* (session/mod.rs:189-276).
THEOREM ClosedTheorem == Spec => []ClosedIsDead
<1> DEFINE I == ClosedIsDead /\ ClosingInv
<1>1. Init => I
    BY DEF Init, ClosedIsDead, ClosingInv
<1>2. LimitInv /\ I /\ [Next]_vars => I'
    <2> SUFFICES ASSUME LimitInv, I, [Next]_vars PROVE I'
        OBVIOUS
    <2> USE DEF TypeOK, LimitInv, ClosedIsDead, ClosingInv, server, drivers, tasks, session,
                closers
    <2>1. ASSUME NEW a \in Closers, NEW c \in Conns, CloseBegin(a, c),
                 UNCHANGED tasks
          PROVE  I'
        BY <2>1 DEF CloseBegin
    <2>2. ASSUME NEW a \in Closers, CloseWrite(a) PROVE I'
        BY <2>2 DEF CloseWrite
    <2>3. ASSUME NEW a \in Closers, CloseRead(a) PROVE I'
        BY <2>3 DEF CloseRead, ReadLockFree
    <2>4. CASE Start \/ StopBegin \/ StopNext \/ CleanupNext
        <3>1. ASSUME NEW c \in Conns, StopClose(c) \/ CleanupClose(c)
              PROVE  I'
            BY <3>1, <2>1 DEF StopClose, CleanupClose, Closers
        <3>2. CASE CleanupCancelled
            BY <3>2 DEF CleanupCancelled, Closers
        <3>3. CASE Start \/ StopBegin
            BY <3>3 DEF Start, StopBegin
        <3>4. CASE StopSnapshot \/ StopClear \/ StopAbort
            BY <3>4 DEF StopSnapshot, StopClear, StopAbort
        <3>5. CASE CleanupCheck \/ CleanupSnapshot
            BY <3>5 DEF CleanupCheck, CleanupSnapshot
        <3> QED  BY <2>4, <3>1, <3>2, <3>3, <3>4, <3>5
                 DEF StopNext, CleanupNext
    <2>5. CASE DropNext
        BY <2>5 DEF DropNext, DropBegin, DropAbort, DropMark, DropClear
    <2>6. CASE ServerNext
        BY <2>6 DEF ServerNext, Accept, Reject, SetupFailed, Spawn,
             Track, ServerShutdown, ServerCancelled
    <2>7. ASSUME NEW c \in Conns, TaskNext(c) PROVE I'
        <3>1. CASE HandlerClose(c)
            BY <3>1, <2>1 DEF HandlerClose, Closers
        <3>2. CASE Cancel(c) \/ HandlerPanics(c)
            BY <3>2 DEF Cancel, HandlerPanics, Unwind, Closers
        <3>3. CASE \/ TaskStart(c) \/ Receive(c) \/ ReceiveOk(c)
                   \/ ReceiveErr(c) \/ Disconnected(c) \/ Finish(c)
            BY <3>3 DEF TaskStart, Receive, ReceiveOk, ReceiveErr,
                 Disconnected, Finish
        <3> QED  BY <2>7, <3>1, <3>2, <3>3 DEF TaskNext
    <2>8. CASE (\E c \in Conns : BecomeIdle(c) \/ Sent(c)) \/ UNCHANGED vars
        BY <2>8 DEF BecomeIdle, Sent, vars
    <2> QED  BY <2>2, <2>3, <2>4, <2>5, <2>6, <2>7, <2>8 DEF Next
<1>3. I => ClosedIsDead
    OBVIOUS
<1> QED  BY LimitInit, LimitStep, <1>1, <1>2, <1>3, PTL DEF Spec

=============================================================================
