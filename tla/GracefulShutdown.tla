-------------------------- MODULE GracefulShutdown --------------------------
(***************************************************************************)
(* Graceful shutdown, stability/graceful_shutdown.rs: requests register    *)
(* with enter() and hold a guard, shutdown() makes enter() refuse, and     *)
(* wait_for_completion() waits for the guards to go, with a timeout.  The  *)
(* ShutdownCoordinator triggers one signal per component before it does    *)
(* the same.  Requests, waiters and components are tasks on several        *)
(* threads; a step is one access to an atomic or to the Notify.            *)
(***************************************************************************)
EXTENDS Integers, FiniteSets, Counting

CONSTANTS
    Requests,   \* tasks that call enter() over and over
    Waiters,    \* tasks that shut down and wait, once each
    NumSignals  \* calls of create_signal before the coordinator is shared

ASSUME TasksAssumption == IsFiniteSet(Requests) /\ IsFiniteSet(Waiters)
ASSUME SignalsAssumption == NumSignals \in Nat

Signals == 1 .. NumSignals

VARIABLES
    shutdown,   \* shutdown_requested
    active,     \* active_requests
    request,    \* where each request is
    waiter,     \* where each waiter is
    next,       \* how many signals each waiter's shutdown_all has triggered
    triggered,  \* shutdown_requested of each ShutdownSignal
    component   \* whether each component still polls in ShutdownSignal::wait

vars == <<shutdown, active, request, waiter, next, triggered, component>>

-----------------------------------------------------------------------------

\* "entering": saw no shutdown and has not counted itself yet; "active": holds
\* a guard; "last": its drop took the counter to 0 and has yet to notify.
RequestPoints == {"out", "entering", "active", "last"}

\* "triggering": in the loop of shutdown_all; "stopping": about to store the
\* flag; "checking": about to load the counter; "busy": read a counter that
\* was not 0 and has not registered with the Notify; "parked": registered;
\* "woken": notified; "completed" and "timedout": returned true and false.
WaiterPoints == {"out", "triggering", "stopping", "checking", "busy", "parked",
                 "woken", "completed", "timedout"}

Guards   == Cardinality(Where(request, {"active"}))
Entering == Where(request, {"entering"})

TypeOK ==
    /\ shutdown \in BOOLEAN
    /\ active \in 0 .. Cardinality(Requests)
    /\ request \in [Requests -> RequestPoints]
    /\ waiter \in [Waiters -> WaiterPoints]
    /\ next \in [Waiters -> 0 .. NumSignals]
    /\ triggered \in [Signals -> BOOLEAN]
    /\ component \in [Signals -> {"polling", "stopped"}]

\* ShutdownCoordinator::new, after its create_signal calls (which need &mut).
Init ==
    /\ shutdown = FALSE
    /\ active = 0
    /\ request = [r \in Requests |-> "out"]
    /\ waiter = [w \in Waiters |-> "out"]
    /\ next = [w \in Waiters |-> 0]
    /\ triggered = [s \in Signals |-> FALSE]
    /\ component = [s \in Signals |-> "polling"]

-----------------------------------------------------------------------------
(* The decisions of the code, each with the form a slip would give it. *)

\* enter() refuses once shutdown is requested.
AdmitsAlways == TRUE
Admits == ~shutdown

\* fetch_sub(1) in the guard's drop.
ActiveKept == active
ActiveDown == active - 1

\* The signals left for the loop of shutdown_all.
AllButLast(w) == next[w] + 1 < NumSignals
SignalsLeft(w) == next[w] < NumSignals

\* select! polls its sleep with the wait, before or after it, in every poll.
TimerForgotten(w) == FALSE
TimerPolled(w) == waiter[w] \in {"checking", "parked", "woken"}

-----------------------------------------------------------------------------
(* Requests. *)

\* enter() loads the flag and goes on only if it is not set.
EnterCheck(r) ==
    /\ request[r] = "out"
    /\ Admits
    /\ request' = [request EXCEPT ![r] = "entering"]
    /\ UNCHANGED <<shutdown, active, waiter, next, triggered, component>>

\* ... and counts itself; from here on it holds a ShutdownGuard.
EnterCount(r) ==
    /\ request[r] = "entering"
    /\ active' = active + 1
    /\ request' = [request EXCEPT ![r] = "active"]
    /\ UNCHANGED <<shutdown, waiter, next, triggered, component>>

\* ShutdownGuard::drop.
GuardDrop(r) ==
    /\ request[r] = "active"
    /\ active' = ActiveDown
    /\ request' = [request EXCEPT ![r] = IF active = 1 THEN "last" ELSE "out"]
    /\ UNCHANGED <<shutdown, waiter, next, triggered, component>>

\* notify_waiters(), by the drop that saw prev == 1.
NotifyWaiters(r) ==
    /\ request[r] = "last"
    /\ waiter' = [w \in Waiters |->
                    IF waiter[w] = "parked" THEN "woken" ELSE waiter[w]]
    /\ request' = [request EXCEPT ![r] = "out"]
    /\ UNCHANGED <<shutdown, active, next, triggered, component>>

-----------------------------------------------------------------------------
(* Waiters. *)

\* A call of shutdown_all, of shutdown_and_wait or of wait_for_completion
\* (which other calls of shutdown() may precede).
BeginShutdownAll(w) ==
    /\ waiter[w] = "out"
    /\ waiter' = [waiter EXCEPT ![w] = "triggering"]
    /\ UNCHANGED <<shutdown, active, request, next, triggered, component>>

BeginShutdownAndWait(w) ==
    /\ waiter[w] = "out"
    /\ waiter' = [waiter EXCEPT ![w] = "stopping"]
    /\ UNCHANGED <<shutdown, active, request, next, triggered, component>>

BeginWait(w) ==
    /\ waiter[w] = "out"
    /\ waiter' = [waiter EXCEPT ![w] = "checking"]
    /\ UNCHANGED <<shutdown, active, request, next, triggered, component>>

\* signal.trigger() for the next signal of shutdown_all.
Trigger(w) ==
    /\ waiter[w] = "triggering"
    /\ SignalsLeft(w)
    /\ triggered' = [triggered EXCEPT ![next[w] + 1] = TRUE]
    /\ next' = [next EXCEPT ![w] = @ + 1]
    /\ UNCHANGED <<shutdown, active, request, waiter, component>>

AllTriggered(w) ==
    /\ waiter[w] = "triggering"
    /\ ~SignalsLeft(w)
    /\ waiter' = [waiter EXCEPT ![w] = "stopping"]
    /\ UNCHANGED <<shutdown, active, request, next, triggered, component>>

\* shutdown().
Shutdown(w) ==
    /\ waiter[w] = "stopping"
    /\ shutdown' = TRUE
    /\ waiter' = [waiter EXCEPT ![w] = "checking"]
    /\ UNCHANGED <<active, request, next, triggered, component>>

\* wait_until_idle loads the counter: it is done, or goes on to notified().
CheckIdle(w) ==
    /\ waiter[w] \in {"checking", "woken"}
    /\ waiter' = [waiter EXCEPT ![w] = IF active = 0 THEN "completed" ELSE "busy"]
    /\ UNCHANGED <<shutdown, active, request, next, triggered, component>>

\* notified(): only a notify_waiters() after this call wakes the waiter.
Park(w) ==
    /\ waiter[w] = "busy"
    /\ waiter' = [waiter EXCEPT ![w] = "parked"]
    /\ UNCHANGED <<shutdown, active, request, next, triggered, component>>

\* The sleep of select! ends; it may win over a notification.
Timeout(w) ==
    /\ TimerPolled(w)
    /\ waiter' = [waiter EXCEPT ![w] = "timedout"]
    /\ UNCHANGED <<shutdown, active, request, next, triggered, component>>

-----------------------------------------------------------------------------

\* ShutdownSignal::wait polls every 100 ms and returns once it is triggered.
SignalSeen(s) ==
    /\ component[s] = "polling"
    /\ triggered[s]
    /\ component' = [component EXCEPT ![s] = "stopped"]
    /\ UNCHANGED <<shutdown, active, request, waiter, next, triggered>>

RequestNext(r) ==
    \/ EnterCheck(r) \/ EnterCount(r) \/ GuardDrop(r) \/ NotifyWaiters(r)

WaiterNext(w) ==
    \/ BeginShutdownAll(w) \/ BeginShutdownAndWait(w) \/ BeginWait(w)
    \/ Trigger(w) \/ AllTriggered(w) \/ Shutdown(w)
    \/ CheckIdle(w) \/ Park(w) \/ Timeout(w)

Next ==
    \/ \E r \in Requests : RequestNext(r)
    \/ \E w \in Waiters : WaiterNext(w)
    \/ \E s \in Signals : SignalSeen(s)

Spec == Init /\ [][Next]_vars

\* A call that has begun goes on to its next await, requests end and components
\* poll.  The sleep of a wait runs from the beginning of the call, so a waiter
\* that comes back to its await again and again finds it expired (strongly
\* fair).  Nobody is obliged to begin a call.
Fairness ==
    /\ \A r \in Requests :
          WF_vars(EnterCount(r) \/ GuardDrop(r) \/ NotifyWaiters(r))
    /\ \A w \in Waiters :
          /\ WF_vars(Trigger(w) \/ AllTriggered(w) \/ Shutdown(w))
          /\ WF_vars(CheckIdle(w) \/ Park(w))
          /\ SF_vars(Timeout(w))
    /\ \A s \in Signals : WF_vars(SignalSeen(s))

FairSpec == Spec /\ Fairness

-----------------------------------------------------------------------------
(* Safety. *)

\* active_requests is the number of guards that exist, through every
\* interleaving of enter() and drop() (graceful_shutdown.rs:47-58, 143-156).
ActiveExact == active = Guards

\* Once shutdown is requested and no enter() is between its check and its
\* count, an idle system stays idle: the answer of a wait_for_completion()
\* that found the counter at 0 from then on is final.
DrainedForever ==
    [][shutdown /\ Entering = {} /\ active = 0
         => shutdown' /\ Entering' = {} /\ active' = 0]_vars

\* A shutdown_all that has gone on to the graceful part has triggered the
\* signal of every component first (graceful_shutdown.rs:224-233).
SignalsFirst ==
    \A w \in Waiters :
        next[w] > 0 /\ waiter[w] # "triggering"
            => \A s \in Signals : triggered[s]

-----------------------------------------------------------------------------
(* Liveness. *)

\* A shutdown request drains the system for good, although enter() may still
\* be admitting the requests that passed its check before.
Drains == shutdown ~> [](active = 0)

\* Every wait returns, thanks to its timeout.
WaitReturns ==
    \A w \in Waiters :
        waiter[w] # "out" ~> waiter[w] \in {"completed", "timedout"}

=============================================================================
