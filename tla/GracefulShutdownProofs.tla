----------------------- MODULE GracefulShutdownProofs -----------------------
(***************************************************************************)
(* Proofs about GracefulShutdown, for any number of requests, waiters and  *)
(* signals.                                                                *)
(***************************************************************************)
EXTENDS GracefulShutdown, CountingProofs

\* Inductive.  The third conjunct says what the loop of shutdown_all has done.
IInv ==
    /\ TypeOK
    /\ ActiveExact
    /\ \A w \in Waiters : \A s \in 1 .. next[w] : triggered[s]
    /\ \A w \in Waiters :
          waiter[w] # "triggering" => next[w] \in {0, NumSignals}

LEMMA GuardsType ==
    ASSUME NEW f \in [Requests -> RequestPoints]
    PROVE  /\ IsFiniteSet(DOMAIN f)
           /\ Cardinality(Where(f, {"active"})) \in 0 .. Cardinality(Requests)
<1>1. IsFiniteSet(DOMAIN f) /\ IsFiniteSet(Requests)
    BY TasksAssumption
<1>2. Where(f, {"active"}) \subseteq Requests
    BY DEF Where
<1> DEFINE N == Cardinality(Where(f, {"active"}))
<1>3. /\ N \in Nat /\ Cardinality(Requests) \in Nat
      /\ N <= Cardinality(Requests)
    BY <1>1, <1>2, FS_Subset, FS_CardinalityType
<1> HIDE DEF N
<1>4. N \in 0 .. Cardinality(Requests)
    BY <1>3
<1> QED  BY <1>1, <1>4 DEF N

\* The number of guards after r has moved to v.
LEMMA RequestMove ==
    ASSUME TypeOK, NEW r \in Requests, NEW v \in RequestPoints,
           request' = [request EXCEPT ![r] = v]
    PROVE  /\ request' \in [Requests -> RequestPoints]
           /\ Guards' \in 0 .. Cardinality(Requests)
           /\ request[r] # "active" /\ v = "active" => Guards' = Guards + 1
           /\ request[r] = "active" /\ v # "active" => Guards' = Guards - 1
           /\ request[r] # "active" /\ v # "active" => Guards' = Guards
<1>1. IsFiniteSet(DOMAIN request) /\ r \in DOMAIN request
    BY GuardsType DEF TypeOK
<1>2. request' \in [Requests -> RequestPoints]
    BY DEF TypeOK
<1>3. Guards' \in 0 .. Cardinality(Requests)
    BY <1>2, GuardsType DEF Guards
<1>4. ASSUME NEW S
      PROVE  /\ request[r] \notin S /\ v \in S =>
                  Cardinality(Where(request', S)) = Cardinality(Where(request, S)) + 1
             /\ request[r] \in S /\ v \notin S =>
                  Cardinality(Where(request', S)) = Cardinality(Where(request, S)) - 1
             /\ ((request[r] \in S) <=> (v \in S)) =>
                  Cardinality(Where(request', S)) = Cardinality(Where(request, S))
    <2>1. CASE request[r] \notin S /\ v \in S
        BY <1>1, <2>1, WhereEnter
    <2>2. CASE request[r] \in S /\ v \notin S
        BY <1>1, <2>2, WhereLeave
    <2>3. CASE (request[r] \in S) <=> (v \in S)
        BY <1>1, <2>3, WhereStay
    <2> QED  BY <2>1, <2>2, <2>3
<1>5. \A x : x \in {"active"} <=> x = "active"
    OBVIOUS
<1>6. /\ request[r] # "active" /\ v = "active" => Guards' = Guards + 1
      /\ request[r] = "active" /\ v # "active" => Guards' = Guards - 1
      /\ request[r] # "active" /\ v # "active" => Guards' = Guards
    BY <1>4, <1>5 DEF Guards
<1> QED  BY <1>2, <1>3, <1>6

-----------------------------------------------------------------------------

LEMMA InitInv == Init => IInv
<1> SUFFICES ASSUME Init PROVE IInv
    OBVIOUS
<1>1. Guards = 0
    BY WhereNone DEF Init, Guards
<1>2. Cardinality(Requests) \in Nat
    BY TasksAssumption, FS_CardinalityType
<1>3. TypeOK /\ ActiveExact
    <2>1. ActiveExact /\ active \in 0 .. Cardinality(Requests)
        BY <1>1, <1>2 DEF Init, ActiveExact
    <2>2. next \in [Waiters -> 0 .. NumSignals]
        BY SignalsAssumption DEF Init
    <2> QED  BY <2>1, <2>2 DEF Init, TypeOK, RequestPoints, WaiterPoints
<1>4. \A w \in Waiters : next[w] = 0
    BY DEF Init
<1> QED  BY <1>3, <1>4 DEF IInv

LEMMA RequestStep ==
    ASSUME IInv, NEW r \in Requests, RequestNext(r)
    PROVE  IInv'
<1> USE DEF IInv
<1>1. {"out", "entering", "active", "last"} = RequestPoints
    BY DEF RequestPoints
<1>2. Guards \in 0 .. Cardinality(Requests) /\ Cardinality(Requests) \in Nat
    BY GuardsType, TasksAssumption, FS_CardinalityType DEF TypeOK, Guards
<1>3. CASE EnterCheck(r)
    <2>1. request' \in [Requests -> RequestPoints] /\ Guards' = Guards
        BY <1>1, <1>3, RequestMove DEF EnterCheck
    <2> QED  BY <1>3, <2>1 DEF EnterCheck, TypeOK, ActiveExact
<1>4. CASE EnterCount(r)
    <2>1. /\ request' \in [Requests -> RequestPoints]
          /\ Guards' = Guards + 1 /\ Guards' \in 0 .. Cardinality(Requests)
        BY <1>1, <1>4, RequestMove DEF EnterCount
    <2>2. ActiveExact' /\ active' \in 0 .. Cardinality(Requests)
        BY <1>2, <1>4, <2>1 DEF EnterCount, ActiveExact
    <2> QED  BY <1>4, <2>1, <2>2 DEF EnterCount, TypeOK
<1>5. CASE GuardDrop(r)
    <2>1. /\ request' \in [Requests -> RequestPoints]
          /\ Guards' = Guards - 1 /\ Guards' \in 0 .. Cardinality(Requests)
        BY <1>1, <1>5, RequestMove DEF GuardDrop
    <2>2. ActiveExact' /\ active' \in 0 .. Cardinality(Requests)
        BY <1>2, <1>5, <2>1 DEF GuardDrop, ActiveDown, ActiveExact
    <2> QED  BY <1>5, <2>1, <2>2 DEF GuardDrop, TypeOK
<1>6. CASE NotifyWaiters(r)
    <2>1. request' \in [Requests -> RequestPoints] /\ Guards' = Guards
        BY <1>1, <1>6, RequestMove DEF NotifyWaiters
    <2>2. /\ waiter' \in [Waiters -> WaiterPoints]
          /\ \A w \in Waiters : waiter'[w] = "triggering"
                                   <=> waiter[w] = "triggering"
        BY <1>6 DEF NotifyWaiters, TypeOK, WaiterPoints
    <2> QED  BY <1>6, <2>1, <2>2 DEF NotifyWaiters, TypeOK, ActiveExact
<1> QED  BY <1>3, <1>4, <1>5, <1>6 DEF RequestNext

LEMMA WaiterStep ==
    ASSUME IInv, NEW w \in Waiters, WaiterNext(w)
    PROVE  IInv'
<1> USE DEF IInv
<1>1. Guards' = Guards
    BY DEF WaiterNext, BeginShutdownAll, BeginShutdownAndWait, BeginWait,
           Trigger, AllTriggered, Shutdown, CheckIdle, Park, Timeout, Guards
<1>2. CASE BeginShutdownAll(w) \/ BeginShutdownAndWait(w) \/ BeginWait(w)
    BY <1>1, <1>2
       DEF BeginShutdownAll, BeginShutdownAndWait, BeginWait, TypeOK,
           WaiterPoints, ActiveExact
<1>3. CASE Trigger(w)
    <2>1. next[w] + 1 \in Signals /\ next[w] \in Nat
        BY <1>3, SignalsAssumption DEF Trigger, SignalsLeft, Signals, TypeOK
    <2>2. /\ next' \in [Waiters -> 0 .. NumSignals]
          /\ triggered' \in [Signals -> BOOLEAN]
        BY <1>3, <2>1, SignalsAssumption DEF Trigger, TypeOK, Signals
    <2>3. \A u \in Waiters : \A s \in 1 .. next'[u] : triggered'[s]
        <3> SUFFICES ASSUME NEW u \in Waiters, NEW s \in 1 .. next'[u]
                     PROVE  triggered'[s]
            OBVIOUS
        <3>1. next[u] \in 0 .. NumSignals /\ next[w] \in 0 .. NumSignals
            BY DEF TypeOK
        <3>2. s \in Signals
            BY <2>2, SignalsAssumption DEF Signals
        <3>3. CASE s = next[w] + 1
            BY <1>3, <3>2, <3>3 DEF Trigger, TypeOK
        <3>4. CASE s # next[w] + 1
            <4>1. s \in 1 .. next[u]
                BY <1>3, <3>1, <3>4, SignalsAssumption DEF Trigger, TypeOK
            <4> QED  BY <1>3, <3>2, <3>4, <4>1 DEF Trigger, TypeOK
        <3> QED  BY <3>3, <3>4
    <2> QED  BY <1>1, <1>3, <2>2, <2>3 DEF Trigger, TypeOK, ActiveExact
<1>4. CASE AllTriggered(w)
    <2>1. next[w] = NumSignals
        BY <1>4, SignalsAssumption DEF AllTriggered, SignalsLeft, TypeOK
    <2> QED  BY <1>1, <1>4, <2>1
             DEF AllTriggered, TypeOK, WaiterPoints, ActiveExact
<1>5. CASE Shutdown(w)
    BY <1>1, <1>5 DEF Shutdown, TypeOK, WaiterPoints, ActiveExact
<1>6. CASE CheckIdle(w) \/ Park(w) \/ Timeout(w)
    BY <1>1, <1>6
       DEF CheckIdle, Park, Timeout, TimerPolled, TypeOK, WaiterPoints,
           ActiveExact
<1> QED  BY <1>2, <1>3, <1>4, <1>5, <1>6 DEF WaiterNext

LEMMA NextInv == IInv /\ [Next]_vars => IInv'
<1> SUFFICES ASSUME IInv, [Next]_vars PROVE IInv'
    OBVIOUS
<1>1. CASE \E s \in Signals : SignalSeen(s)
    BY <1>1 DEF SignalSeen, IInv, TypeOK, ActiveExact, Guards
<1>2. CASE UNCHANGED vars
    BY <1>2 DEF vars, IInv, TypeOK, ActiveExact, Guards
<1> QED  BY <1>1, <1>2, RequestStep, WaiterStep DEF Next

LEMMA InvSignalsFirst == IInv => SignalsFirst
<1> SUFFICES ASSUME IInv, NEW w \in Waiters, next[w] > 0,
                    waiter[w] # "triggering", NEW s \in Signals
             PROVE  triggered[s]
    BY DEF SignalsFirst
<1>1. next[w] = NumSignals
    BY DEF IInv
<1> QED  BY <1>1 DEF IInv, Signals

\* The counter of active requests is exact, for any number of tasks
\* (graceful_shutdown.rs:47-58, 143-156).
THEOREM ShutdownTheorem == Spec => [](TypeOK /\ ActiveExact)
BY InitInv, NextInv, PTL DEF Spec, IInv

\* shutdown_all triggers every signal before it goes on, also when calls of it
\* overlap (graceful_shutdown.rs:224-233).
THEOREM SignalsTheorem == Spec => []SignalsFirst
BY InitInv, NextInv, InvSignalsFirst, PTL DEF Spec

\* Once shutdown is requested and no enter() is under way, idle is final.
THEOREM DrainTheorem == Spec => DrainedForever
<1>1. IInv /\ [Next]_vars
        => [shutdown /\ Entering = {} /\ active = 0
              => shutdown' /\ Entering' = {} /\ active' = 0]_vars
    <2> SUFFICES ASSUME IInv, Next, shutdown, Entering = {}, active = 0
                 PROVE  shutdown' /\ Entering' = {} /\ active' = 0
        BY DEF vars
    <2>1. \A r \in Requests : request[r] # "entering"
        BY DEF Entering, Where, IInv, TypeOK
    <2>2. \A r \in Requests : request[r] # "active"
        <3>1. IsFiniteSet(Where(request, {"active"})) /\ Guards = 0
            BY GuardsType, WhereFinite DEF IInv, TypeOK, ActiveExact, Guards
        <3>2. Where(request, {"active"}) = {}
            BY <3>1, FS_EmptySet DEF Guards
        <3> QED  BY <3>2 DEF Where, IInv, TypeOK
    <2>3. CASE \E r \in Requests : RequestNext(r)
        <3>1. PICK r \in Requests : NotifyWaiters(r)
            BY <2>1, <2>2, <2>3
               DEF RequestNext, EnterCheck, Admits, EnterCount, GuardDrop
        <3> QED  BY <3>1, <2>1
                 DEF NotifyWaiters, Entering, Where, IInv, TypeOK
    <2>4. CASE \E w \in Waiters : WaiterNext(w)
        BY <2>4
           DEF WaiterNext, BeginShutdownAll, BeginShutdownAndWait, BeginWait,
               Trigger, AllTriggered, Shutdown, CheckIdle, Park, Timeout,
               Entering
    <2>5. CASE \E s \in Signals : SignalSeen(s)
        BY <2>5 DEF SignalSeen, Entering
    <2> QED  BY <2>3, <2>4, <2>5 DEF Next
<1> QED  BY InitInv, NextInv, <1>1, PTL DEF Spec, DrainedForever

=============================================================================
