----------------------------- MODULE TcpServer -----------------------------
(***************************************************************************)
(* The TCP server of core/server.rs and the lifecycle of its sessions      *)
(* (session/mod.rs): the accept loop, the idle-session cleanup task, one   *)
(* task per connection, and the owner that calls start, stop and drop.     *)
(*                                                                         *)
(* A step of the model is what a tokio task does between two points at     *)
(* which another thread can observe it.  Times are abstracted: a session   *)
(* is idle or not, and a bounded wait ends sooner or later.  The sessions  *)
(* list and the list of task handles are sets: no step depends on order.   *)
(***************************************************************************)
EXTENDS Integers, FiniteSets, Counting

CONSTANTS
    Conns,          \* connections that peers may open, each at most once
    Limits,         \* what config.max_connections may be
    MaxEvents,      \* bound: starts, connections and the drop, taken together
    None            \* not a connection

ASSUME ConnsAssumption == IsFiniteSet(Conns) /\ None \notin Conns
ASSUME MaxAssumption == Limits \subseteq Nat /\ MaxEvents \in Nat

VARIABLES
    maxConnections,  \* config.max_connections
    running,         \* the AtomicBool `running`
    connectionCount, \* the AtomicU64 `connection_count`
    permits,         \* permits left in `connection_semaphore`
    sessions,        \* the shared session list, by connection
    sessionTasks,    \* connections whose JoinHandle is in `session_tasks`
    shutdownMsg,     \* a message waits in the shutdown channel
    serverTask,      \* where the accept loop is
    accepting,       \* the connection the accept loop is working on
    cleanupTask,     \* where the cleanup task is
    owner,           \* where the owner of the TcpServer is
    starts,          \* how often start has succeeded
    todo,            \* sessions that stop and the cleanup task have yet to close
    task,            \* where the task of each connection is
    abort,           \* abort() was called on the task's JoinHandle
    state,           \* Session::state
    active,          \* Session::active
    readHalf,        \* Session::read_half is Some
    writeHalf,       \* Session::write_half is Some
    idle,            \* last_activity is older than idle_timeout
    closeAt,         \* where each caller of Session::close is
    closeOn          \* the session it closes

server  == <<running, serverTask, accepting, shutdownMsg>>
limits  == <<maxConnections, connectionCount, permits>>
lists   == <<sessions, sessionTasks>>
drivers == <<cleanupTask, owner, starts, todo>>
tasks   == <<task, abort>>
session == <<state, active, readHalf, writeHalf, idle>>
closers == <<closeAt, closeOn>>
vars == <<server, limits, lists, drivers, tasks, session, closers>>

-----------------------------------------------------------------------------
(* Where the parties can be. *)

ServerStates  == {"none", "accept", "spawn", "track", "exited"}
CleanupStates == {"none", "check", "sleep", "closing", "exited"}
DropStates    == {"dropAbort", "dropMark", "dropClear", "dropped"}
OwnerStates   == {"idle", "join", "closing", "abort"} \union DropStates

\* Points at which an aborted task can be cancelled: it is suspended at, or
\* is about to reach, an await.  "handling" is the await of on_connected or of
\* on_message.
AwaitStates == {"spawned", "handling", "reading", "disconnecting"}

\* After on_disconnected the task runs to its end without another await.
TailStates == {"removing"}

\* "refused" for want of a permit; "failed" in the setup of its socket.
TaskStates == {"none", "refused", "failed", "admitted", "finished", "aborted"}
                  \union AwaitStates \union TailStates

\* The connection owns a permit of connection_semaphore: the accept loop has
\* taken one for it and handle_connection has not returned.
HoldingStates == {"admitted"}

\* connection_count includes the connection.  The count of a task that was
\* cancelled at an await, or whose handler panicked, is never taken back.
CountedStates == {"admitted", "aborted"} \union AwaitStates \union TailStates

\* The session exists and its task has not yet left the session list.
SessionStates == {"handling", "reading", "disconnecting"}

\* Every party that may call Session::close: a handler in its own task,
\* stop(), and the cleanup task.
Closers == Conns \union {"stop", "cleanup"}

Holders == Where(task, HoldingStates)

\* What the outside has done so far.
Events == starts + Cardinality({c \in Conns : task[c] # "none"})
              + (IF owner \in DropStates THEN 1 ELSE 0)

TypeOK ==
    /\ maxConnections \in Limits
    /\ running \in BOOLEAN
    /\ connectionCount \in Nat
    /\ permits \in 0 .. maxConnections
    /\ sessions \subseteq Conns
    /\ sessionTasks \subseteq Conns
    /\ shutdownMsg \in BOOLEAN
    /\ serverTask \in ServerStates
    /\ accepting \in Conns \union {None}
    /\ cleanupTask \in CleanupStates
    /\ owner \in OwnerStates
    /\ starts \in Nat
    /\ todo \in [{"stop", "cleanup"} -> SUBSET Conns]
    /\ task \in [Conns -> TaskStates]
    /\ abort \in [Conns -> BOOLEAN]
    /\ state \in [Conns -> {"Active", "Closing", "Closed"}]
    /\ active \in [Conns -> BOOLEAN]
    /\ readHalf \in [Conns -> BOOLEAN]
    /\ writeHalf \in [Conns -> BOOLEAN]
    /\ idle \in [Conns -> BOOLEAN]
    /\ closeAt \in [Closers -> {"no", "write", "read"}]
    /\ closeOn \in [Closers -> Conns \union {None}]

\* TcpServer::with_config; the fields of a session are those Session::new
\* gives it, and nobody reads them before its task has run that far.
Init ==
    /\ maxConnections \in Limits
    /\ running = FALSE
    /\ connectionCount = 0
    /\ permits = maxConnections
    /\ sessions = {}
    /\ sessionTasks = {}
    /\ shutdownMsg = FALSE
    /\ serverTask = "none"
    /\ accepting = None
    /\ cleanupTask = "none"
    /\ owner = "idle"
    /\ starts = 0
    /\ todo = [a \in {"stop", "cleanup"} |-> {}]
    /\ task = [c \in Conns |-> "none"]
    /\ abort = [c \in Conns |-> FALSE]
    /\ state = [c \in Conns |-> "Active"]
    /\ active = [c \in Conns |-> TRUE]
    /\ readHalf = [c \in Conns |-> TRUE]
    /\ writeHalf = [c \in Conns |-> TRUE]
    /\ idle = [c \in Conns |-> FALSE]
    /\ closeAt = [a \in Closers |-> "no"]
    /\ closeOn = [a \in Closers |-> None]

-----------------------------------------------------------------------------
(* The decisions of the code, each with the form a slip would give it. *)

\* Nobody holds the lock of the read half: receive() holds it while it waits
\* for data.
ReadLockIgnored(c) == TRUE
ReadLockFree(c) == task[c] # "reading"

\* fetch_add(1) and fetch_sub(1) on connection_count, and the drop of an
\* OwnedSemaphorePermit.
CountForgotten == connectionCount
CountUp == connectionCount + 1
CountDown == connectionCount - 1
PermitForgotten == permits
PermitBack == permits + 1

\* The handles whose task has not finished.
FinishedOnly(S) == {c \in S : task[c] \in {"finished", "aborted"}}
Unfinished(S) == {c \in S : task[c] \notin {"finished", "aborted"}}

\* abort() is called on every tracked handle whose task has not finished;
\* dropping a handle without it detaches the task.
TasksDetached == abort
TasksAborted == [c \in Conns |-> abort[c] \/ c \in Unfinished(sessionTasks)]

\* The session list without the session of c.
ListWithout(c) == sessions \ {c}

\* `while running` of the cleanup task, and the sessions it finds idle.
SweepForever == TRUE
SweepGoesOn == running
BusySessions == {c \in sessions : ~idle[c]}
IdleSessions == {c \in sessions : idle[c]}

\* The accept loop has ended, which stop() awaits.
ServerNotAwaited == TRUE
ServerJoined == serverTask = "exited"

-----------------------------------------------------------------------------
(* Session::close, one step per lock it takes. *)

\* state = Closing and active = false.
CloseBegin(a, c) ==
    /\ closeAt[a] = "no"
    /\ state' = [state EXCEPT ![c] = "Closing"]
    /\ active' = [active EXCEPT ![c] = FALSE]
    /\ closeAt' = [closeAt EXCEPT ![a] = "write"]
    /\ closeOn' = [closeOn EXCEPT ![a] = c]
    /\ UNCHANGED <<readHalf, writeHalf, idle>>

\* Takes the write half and shuts it down.
CloseWrite(a) ==
    /\ closeAt[a] = "write"
    /\ writeHalf' = [writeHalf EXCEPT ![closeOn[a]] = FALSE]
    /\ closeAt' = [closeAt EXCEPT ![a] = "read"]
    /\ UNCHANGED <<server, limits, lists, drivers, tasks, state, active,
                   readHalf, idle, closeOn>>

\* Waits for the read lock, which receive() holds while it waits for data,
\* takes the read half and sets state = Closed.
CloseRead(a) ==
    /\ closeAt[a] = "read"
    /\ ReadLockFree(closeOn[a])
    /\ readHalf' = [readHalf EXCEPT ![closeOn[a]] = FALSE]
    /\ state' = [state EXCEPT ![closeOn[a]] = "Closed"]
    /\ closeAt' = [closeAt EXCEPT ![a] = "no"]
    /\ closeOn' = [closeOn EXCEPT ![a] = None]
    /\ UNCHANGED <<server, limits, lists, drivers, tasks, active, writeHalf,
                   idle>>

-----------------------------------------------------------------------------
(* start() and the accept loop it spawns. *)

\* start: refused while running.  Binding may fail before anything changes,
\* which is a stuttering step.  The new shutdown channel is empty.
Start ==
    /\ owner = "idle"
    /\ ~running
    /\ Events < MaxEvents
    /\ starts' = starts + 1
    /\ running' = TRUE
    /\ shutdownMsg' = FALSE
    /\ serverTask' = "accept"
    /\ cleanupTask' = "check"
    /\ UNCHANGED <<accepting, limits, lists, owner, todo, tasks, session,
                   closers>>

\* accept() returns a connection, try_acquire_owned a permit, and the connection
\* is counted; nobody else uses the semaphore.  A loop that drop has aborted in
\* the middle of a poll may still take up a connection that is ready.
Accept(c) ==
    /\ serverTask = "accept"
    /\ task[c] = "none"
    /\ Events < MaxEvents
    /\ permits > 0
    /\ permits' = permits - 1
    /\ connectionCount' = CountUp
    /\ task' = [task EXCEPT ![c] = "admitted"]
    /\ accepting' = c
    /\ serverTask' = "spawn"
    /\ UNCHANGED <<running, shutdownMsg, maxConnections, lists, drivers, abort,
                   session, closers>>

\* No permit is left: the stream is dropped.
Reject(c) ==
    /\ serverTask = "accept"
    /\ task[c] = "none"
    /\ Events < MaxEvents
    /\ permits = 0
    /\ task' = [task EXCEPT ![c] = "refused"]
    /\ UNCHANGED <<server, limits, lists, drivers, abort, session, closers>>

\* The conversion to a std stream and back for the keep-alive option fails:
\* the count is taken back, the permit and the stream are dropped.
SetupFailed ==
    /\ serverTask = "spawn"
    /\ connectionCount' = CountDown
    /\ permits' = PermitBack
    /\ task' = [task EXCEPT ![accepting] = "failed"]
    /\ accepting' = None
    /\ serverTask' = "accept"
    /\ UNCHANGED <<running, shutdownMsg, maxConnections, lists, drivers, abort,
                   session, closers>>

\* handle_connection spawns the session task and returns.  The async block does
\* not mention _permit, so the task does not capture it: it is dropped with the
\* other parameters of the call.
Spawn ==
    /\ serverTask = "spawn"
    /\ permits' = PermitBack
    /\ task' = [task EXCEPT ![accepting] = "spawned"]
    /\ serverTask' = "track"
    /\ UNCHANGED <<running, shutdownMsg, accepting, maxConnections,
                   connectionCount, lists, drivers, abort, session, closers>>

\* The handle is pushed to session_tasks and finished ones are dropped.
Track ==
    /\ serverTask = "track"
    /\ sessionTasks' = Unfinished(sessionTasks \union {accepting})
    /\ accepting' = None
    /\ serverTask' = "accept"
    /\ UNCHANGED <<running, shutdownMsg, limits, sessions, drivers, tasks,
                   session, closers>>

\* The shutdown branch of select!: leave the loop and clear `running`.
ServerShutdown ==
    /\ serverTask = "accept"
    /\ shutdownMsg
    /\ shutdownMsg' = FALSE
    /\ serverTask' = "exited"
    /\ running' = FALSE
    /\ UNCHANGED <<accepting, limits, lists, drivers, tasks, session, closers>>

\* The runtime cancels the loop, aborted by drop, at its select!.
ServerCancelled ==
    /\ owner \in DropStates
    /\ serverTask = "accept"
    /\ serverTask' = "exited"
    /\ UNCHANGED <<running, shutdownMsg, accepting, limits, lists, drivers,
                   tasks, session, closers>>

-----------------------------------------------------------------------------
(* The task of a connection (handle_connection). *)

\* Session::new, the session is pushed to the list and on_connected is called.
TaskStart(c) ==
    /\ task[c] = "spawned"
    /\ sessions' = sessions \union {c}
    /\ task' = [task EXCEPT ![c] = "handling"]
    /\ UNCHANGED <<server, limits, sessionTasks, drivers, abort, session,
                   closers>>

\* The handler has returned from on_connected or on_message and receive() is
\* called: it fails unless the session is active, not idle and has its read
\* half; else it holds the read lock.
Receive(c) ==
    /\ task[c] = "handling"
    /\ closeAt[c] = "no"
    /\ task' = [task EXCEPT ![c] =
                  IF active[c] /\ ~idle[c] /\ readHalf[c] THEN "reading"
                                                          ELSE "disconnecting"]
    /\ UNCHANGED <<server, limits, lists, drivers, abort, session, closers>>

\* A complete message was decoded: update_activity, then on_message.
ReceiveOk(c) ==
    /\ task[c] = "reading"
    /\ idle' = [idle EXCEPT ![c] = FALSE]
    /\ task' = [task EXCEPT ![c] = "handling"]
    /\ UNCHANGED <<server, limits, lists, drivers, abort, state, active,
                   readHalf, writeHalf, closers>>

\* End of stream, a read or assembly timeout, or malformed data.
ReceiveErr(c) ==
    /\ task[c] = "reading"
    /\ task' = [task EXCEPT ![c] = "disconnecting"]
    /\ UNCHANGED <<server, limits, lists, drivers, abort, session, closers>>

\* A handler may close its own session.
HandlerClose(c) ==
    /\ task[c] = "handling"
    /\ CloseBegin(c, c)
    /\ UNCHANGED <<server, limits, lists, drivers, tasks>>

\* on_disconnected returns.
Disconnected(c) ==
    /\ task[c] = "disconnecting"
    /\ task' = [task EXCEPT ![c] = "removing"]
    /\ UNCHANGED <<server, limits, lists, drivers, abort, session, closers>>

\* The session leaves the list, connection_count.fetch_sub(1), and the task ends;
\* no code of the server reads the count in between.
Finish(c) ==
    /\ task[c] = "removing"
    /\ sessions' = ListWithout(c)
    /\ connectionCount' = CountDown
    /\ task' = [task EXCEPT ![c] = "finished"]
    /\ UNCHANGED <<server, maxConnections, permits, sessionTasks, drivers,
                   abort, session, closers>>

\* A task ends before its end: its part of a close() in progress goes with it;
\* the rest of the body never runs.
Unwind(c) ==
    /\ task' = [task EXCEPT ![c] = "aborted"]
    /\ closeAt' = [closeAt EXCEPT ![c] = "no"]
    /\ closeOn' = [closeOn EXCEPT ![c] = None]
    /\ UNCHANGED <<server, limits, lists, drivers, abort, session>>

\* The runtime drops an aborted task at an await.
Cancel(c) ==
    /\ abort[c]
    /\ task[c] \in AwaitStates
    /\ Unwind(c)

\* A panic in on_connected, on_message or on_disconnected unwinds the task.
HandlerPanics(c) ==
    /\ task[c] \in {"handling", "disconnecting"}
    /\ Unwind(c)

\* The session of c exists: its task or the session list refers to it.
SessionExists(c) == task[c] \in SessionStates \/ c \in sessions

\* idle_timeout passes without a message on a session that exists.
BecomeIdle(c) ==
    /\ SessionExists(c)
    /\ ~idle[c]
    /\ idle' = [idle EXCEPT ![c] = TRUE]
    /\ UNCHANGED <<server, limits, lists, drivers, tasks, state, active,
                   readHalf, writeHalf, closers>>

\* A send, of the handler or of broadcast, that passed its checks before the
\* session became idle completes its write and updates the activity.  It holds
\* the write lock until then, so the write half is still there; a send that
\* ends before idle_timeout, or fails, changes nothing here.
Sent(c) ==
    /\ SessionExists(c)
    /\ idle[c]
    /\ writeHalf[c]
    /\ idle' = [idle EXCEPT ![c] = FALSE]
    /\ UNCHANGED <<server, limits, lists, drivers, tasks, state, active,
                   readHalf, writeHalf, closers>>

-----------------------------------------------------------------------------
(* The cleanup task. *)

\* The loop condition, evaluated when the task is first polled and after each
\* round; once `running` is false the task ends.
CleanupCheck ==
    /\ \/ cleanupTask = "check"
       \/ /\ cleanupTask = "closing"
          /\ todo["cleanup"] = {}
          /\ closeAt["cleanup"] = "no"
    /\ cleanupTask' = IF SweepGoesOn THEN "sleep" ELSE "exited"
    /\ UNCHANGED <<server, limits, lists, owner, starts, todo, tasks, session,
                   closers>>

\* After the sleep: the sessions that are idle now are the ones to close.
CleanupSnapshot ==
    /\ cleanupTask = "sleep"
    /\ todo' = [todo EXCEPT !["cleanup"] = IdleSessions]
    /\ cleanupTask' = "closing"
    /\ UNCHANGED <<server, limits, lists, owner, starts, tasks, session,
                   closers>>

CleanupClose(c) ==
    /\ cleanupTask = "closing"
    /\ c \in todo["cleanup"]
    /\ CloseBegin("cleanup", c)
    /\ todo' = [todo EXCEPT !["cleanup"] = @ \ {c}]
    /\ UNCHANGED <<server, limits, lists, cleanupTask, owner, starts, tasks>>

\* The runtime cancels the cleanup task, aborted by drop, at an await.
CleanupCancelled ==
    /\ owner \in DropStates
    /\ cleanupTask \in {"check", "sleep", "closing"}
    /\ cleanupTask' = "exited"
    /\ todo' = [todo EXCEPT !["cleanup"] = {}]
    /\ closeAt' = [closeAt EXCEPT !["cleanup"] = "no"]
    /\ closeOn' = [closeOn EXCEPT !["cleanup"] = None]
    /\ UNCHANGED <<server, limits, lists, owner, starts, tasks, session>>

-----------------------------------------------------------------------------
(* stop(): the owner has &mut self, so its calls never overlap. *)

\* stop returns at once unless running; else it clears the flag and sends the
\* shutdown message, for which the channel has room.  Nothing waits for the
\* message not to be there, so the two are one step.
StopBegin ==
    /\ owner = "idle"
    /\ running
    /\ running' = FALSE
    /\ shutdownMsg' = TRUE
    /\ owner' = "join"
    /\ UNCHANGED <<serverTask, accepting, limits, lists, cleanupTask, starts,
                   todo, tasks, session, closers>>

\* The accept loop and then the cleanup task have ended; the session list is
\* copied.
StopSnapshot ==
    /\ owner = "join"
    /\ ServerJoined
    /\ cleanupTask = "exited"
    /\ todo' = [todo EXCEPT !["stop"] = sessions]
    /\ owner' = "closing"
    /\ UNCHANGED <<server, limits, lists, cleanupTask, starts, tasks, session,
                   closers>>

StopClose(c) ==
    /\ owner = "closing"
    /\ c \in todo["stop"]
    /\ CloseBegin("stop", c)
    /\ todo' = [todo EXCEPT !["stop"] = @ \ {c}]
    /\ UNCHANGED <<server, limits, lists, cleanupTask, owner, starts, tasks>>

\* sessions.write().clear(), when every session of the snapshot is closed.
StopClear ==
    /\ owner = "closing"
    /\ todo["stop"] = {}
    /\ closeAt["stop"] = "no"
    /\ sessions' = {}
    /\ owner' = "abort"
    /\ UNCHANGED <<server, limits, sessionTasks, cleanupTask, starts, todo,
                   tasks, session, closers>>

\* Every handle is taken and aborted unless its task has finished; running is
\* cleared and stop returns.
StopAbort ==
    /\ owner = "abort"
    /\ abort' = TasksAborted
    /\ sessionTasks' = {}
    /\ running' = FALSE
    /\ owner' = "idle"
    /\ UNCHANGED <<serverTask, accepting, shutdownMsg, limits, sessions,
                   cleanupTask, starts, todo, task, session, closers>>

-----------------------------------------------------------------------------
(* Drop for TcpServer. *)

\* Nothing to do when the server is not running; else the shutdown message is
\* sent with try_send and server_task and cleanup_task are aborted.
DropBegin ==
    /\ owner = "idle"
    /\ Events < MaxEvents
    /\ owner' = IF running THEN "dropAbort" ELSE "dropped"
    /\ shutdownMsg' = (shutdownMsg \/ running)
    /\ UNCHANGED <<running, serverTask, accepting, limits, lists, cleanupTask,
                   starts, todo, tasks, session, closers>>

\* The handles of the session tasks are taken and aborted.
DropAbort ==
    /\ owner = "dropAbort"
    /\ abort' = TasksAborted
    /\ sessionTasks' = {}
    /\ owner' = "dropMark"
    /\ UNCHANGED <<server, limits, sessions, cleanupTask, starts, todo, task,
                   session, closers>>

\* set_inactive on every session that is in the list now; the Session's state
\* stays Active.
DropMark ==
    /\ owner = "dropMark"
    /\ active' = [c \in Conns |-> active[c] /\ c \notin sessions]
    /\ owner' = "dropClear"
    /\ UNCHANGED <<server, limits, lists, cleanupTask, starts, todo, tasks,
                   state, readHalf, writeHalf, idle, closers>>

\* The list is cleared, then running.
DropClear ==
    /\ owner = "dropClear"
    /\ sessions' = {}
    /\ running' = FALSE
    /\ owner' = "dropped"
    /\ UNCHANGED <<serverTask, accepting, shutdownMsg, limits, sessionTasks,
                   cleanupTask, starts, todo, tasks, session, closers>>

-----------------------------------------------------------------------------

ServerNext ==
    \/ \E c \in Conns : Accept(c) \/ Reject(c)
    \/ SetupFailed \/ Spawn \/ Track
    \/ ServerShutdown \/ ServerCancelled

TaskNext(c) ==
    \/ TaskStart(c) \/ Receive(c) \/ ReceiveOk(c) \/ ReceiveErr(c)
    \/ HandlerClose(c) \/ Disconnected(c)
    \/ Finish(c)
    \/ Cancel(c) \/ HandlerPanics(c)

CleanupNext ==
    \/ CleanupCheck \/ CleanupSnapshot \/ CleanupCancelled
    \/ \E c \in Conns : CleanupClose(c)

StopNext ==
    \/ StopSnapshot \/ StopClear \/ StopAbort
    \/ \E c \in Conns : StopClose(c)

DropNext == DropBegin \/ DropAbort \/ DropMark \/ DropClear

Next ==
    \/ Start \/ StopBegin \/ StopNext \/ DropNext
    \/ ServerNext
    \/ CleanupNext
    \/ \E c \in Conns : TaskNext(c) \/ BecomeIdle(c) \/ Sent(c)
    \/ \E a \in Closers : CloseWrite(a) \/ CloseRead(a)

Spec == Init /\ [][Next]_vars

\* The runtime polls every task that can go on, and every wait of the library
\* is bounded: sleep, read and assembly timeouts, the tail of a task.  Nothing
\* is assumed of peers (a connection need never arrive), of the owner before
\* it calls stop, and of handlers: Receive and Disconnected, the returns from
\* user code, need never happen.
Fairness ==
    /\ WF_vars(Spawn \/ SetupFailed \/ Track \/ ServerShutdown)
    /\ WF_vars(CleanupNext)
    /\ WF_vars(StopNext \/ DropAbort \/ DropMark \/ DropClear)
    /\ \A a \in Closers : WF_vars(CloseWrite(a) \/ CloseRead(a))
    /\ \A c \in Conns :
          /\ WF_vars(TaskStart(c) \/ ReceiveOk(c) \/ ReceiveErr(c) \/ Finish(c))
          /\ WF_vars(Cancel(c))

FairSpec == Spec /\ Fairness

-----------------------------------------------------------------------------
(* Safety. *)

\* Every permit of connection_semaphore is free, or owned by the connection that
\* the accept loop is setting up: no way out of that, the failed conversions of
\* the socket and the abort of the loop included, leaks a permit or returns one
\* twice, restarts included (server.rs:181-251, 385).
PermitsAccounted == permits + Cardinality(Holders) = maxConnections

\* The limit never binds: as a permit is back when handle_connection returns, the
\* loop finds them all free at its next accept, so that the only server which
\* ever refuses a connection for want of a permit is one with max_connections = 0
\* (server.rs:181-198, 385).
LimitNeverBinds == \A c \in Conns : task[c] = "refused" => maxConnections = 0

\* "The semaphore permit is held for the lifetime of the connection and
\* automatically released when the task completes, ensuring accurate connection
\* limiting" (server.rs:373-374): no more than max_connections sessions at once.
LimitEnforced == Cardinality(Where(task, SessionStates)) <= maxConnections

\* connection_count is never decremented more often than incremented, so the
\* u64 does not wrap: it counts every admitted connection that has yet to
\* execute its fetch_sub, and one for each task that was cancelled, or ended by
\* a panic of its handler, before it (server.rs:184, 226, 233, 409, 425).
CountExact == connectionCount = Cardinality(Where(task, CountedStates))

\* When stop() has returned, no session task is left running unsupervised:
\* each one that has not ended yet has been told to abort
\* (server.rs:353-362), and it is not the accept loop's turn to add more.
StopLeavesNoTask ==
    owner = "idle" /\ ~running =>
        /\ accepting = None
        /\ \A c \in Conns : task[c] \in AwaitStates => abort[c]

\* While the server is in use, a session whose task has not been aborted is
\* in the session list, so that stop(), broadcast() and the cleanup task reach
\* it, and its handle is tracked or about to be (server.rs:254, 400).
LiveSessionsReachable ==
    owner = "idle" =>
        \A c \in Conns : task[c] \in SessionStates /\ ~abort[c] =>
            /\ c \in sessions
            /\ c \in sessionTasks \/ accepting = c

\* A session reported Closed is dead whatever the number of concurrent close()
\* calls: no half of the stream is left, receive() refuses to start and none
\* is in progress (session/mod.rs:257-276).
ClosedIsDead ==
    \A c \in Conns : state[c] = "Closed" =>
        /\ ~active[c]
        /\ ~readHalf[c]
        /\ ~writeHalf[c]
        /\ task[c] # "reading"

-----------------------------------------------------------------------------
(* Liveness. *)

\* stop() returns whatever the handlers do: neither the accept loop, nor a
\* cleanup task in mid-close, nor a session that waits for data with the read
\* lock held can block it for ever (server.rs:322-367).
StopTerminates == owner = "join" ~> owner = "idle"

\* A session task that is there when stop() has returned comes to its end, even
\* when its handler never returns: it is cancelled at its next await
\* (server.rs:353-362).
EndsAfterStop(c) ==
    owner = "idle" /\ ~running /\ task[c] \in AwaitStates \union TailStates
        ~> task[c] \in {"finished", "aborted"}

\* A session that stays idle while the server runs is closed by the cleanup
\* task (server.rs:287-313), unless its task removes it first: also one whose
\* handler panicked, which nobody else would close.
SweptWhenIdle(c) ==
    idle[c] /\ c \in sessions /\ running
        ~> \/ ~idle[c] \/ state[c] = "Closed"
           \/ c \notin sessions \/ ~running

=============================================================================
