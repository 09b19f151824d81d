---------------------------- MODULE LoadBalancer ----------------------------
(***************************************************************************)
(* The load balancer of pooling/load_balancer.rs: callers that select a    *)
(* backend and hold a guard on it, the four strategies, health checks that *)
(* run as tasks of their own, and changes of the list of backends.  select *)
(* holds the read lock of the list but reads the atomics of the backends   *)
(* while others change them: it is three steps, one for the filter, one    *)
(* for the choice and one for the counter.  (The loads within one of the   *)
(* first two are taken together.)  Request statistics are left out.        *)
(***************************************************************************)
EXTENDS Integers, FiniteSets, Sequences, SequencesExt, Counting

CONSTANTS
    States,         \* BackendState objects, one per backend ever added
    Address,        \* the address of each
    Weight,         \* the weight of each
    Initial,        \* the list given to new
    Strategies,     \* the strategies considered
    Callers,        \* tasks that call select
    Checkers,       \* health check tasks
    Crews,          \* the groups of them that are considered
    UnhealthyThreshold, \* config.unhealthy_threshold (healthy_threshold is not
                        \* read by any code)
    MaxFailures,    \* bound: consecutive_failures
    IndexCycle,     \* bound: round_robin_index is kept modulo this multiple of
                    \* every divisor it is used with
    IndexWidth,     \* how many values `round_robin_index as u32` has
    NoBackend       \* Option::None

ASSUME BackendsAssumption ==
    /\ IsFiniteSet(States) /\ NoBackend \notin States
    /\ Initial \in Seq(States)
    /\ \A i, j \in DOMAIN Initial : Initial[i] = Initial[j] => i = j
    /\ \A b \in States : Weight[b] \in Nat
ASSUME BoundsAssumption ==
    /\ UnhealthyThreshold \in Nat /\ MaxFailures \in Nat
    /\ IndexCycle \in Nat \ {0} /\ IndexWidth \in Nat \ {0}
    /\ IndexCycle % IndexWidth = 0
    /\ \A n \in 1 .. Cardinality(States) : IndexCycle % n = 0
ASSUME PartiesAssumption ==
    /\ IsFiniteSet(Callers) /\ IsFiniteSet(Checkers)
    /\ Crews \subseteq SUBSET (Callers \union Checkers)

VARIABLES
    crew,       \* the callers and check tasks there are
    strategy,   \* config.strategy
    backends,   \* the list
    added,      \* the states that are or were in it
    healthy, active, failures,  \* fields of each BackendState
    index,      \* round_robin_index
    client,     \* where each caller is
    snapshot,   \* the healthy backends its select has found
    on,         \* the backend it has chosen or holds, or NoBackend
    checker,    \* where each check task is
    target,     \* the backend it checks, or NoBackend
    picks       \* history: round-robin choices since the list last changed,
                \* less the rounds that are complete

listVars == <<crew, strategy, backends, added>>
stateVars == <<healthy, active, failures>>
clientVars == <<client, snapshot, on>>
checkVars == <<checker, target>>
balancerVars == <<listVars, stateVars, index, clientVars, checkVars, picks>>

-----------------------------------------------------------------------------

\* "filtered" and "chosen" are inside select, with the read lock.
ClientPoints == {"idle", "filtered", "chosen", "holding", "panicked"}

\* "checking" awaits check_fn; "passed" has stored healthy and has yet to clear
\* the failures; "failing" has seen enough failures to mark the backend.
CheckerPoints == {"idle", "checking", "passed", "failing"}

Guards(b) == {c \in Callers : client[c] = "holding" /\ on[c] = b}

Listed == ToSet(backends)
HealthyList == Kept(backends, {i \in DOMAIN backends : healthy[backends[i]]})

BalancerTypeOK ==
    /\ crew \in Crews /\ strategy \in Strategies
    /\ backends \in Seq(States) /\ added \subseteq States
    /\ healthy \in [States -> BOOLEAN]
    /\ active \in [States -> 0 .. Cardinality(Callers)]
    /\ failures \in [States -> 0 .. MaxFailures]
    /\ index \in 0 .. IndexCycle - 1
    /\ client \in [Callers -> ClientPoints]
    /\ snapshot \in [Callers -> Seq(States)]
    /\ on \in [Callers -> States \union {NoBackend}]
    /\ checker \in [Checkers -> CheckerPoints]
    /\ target \in [Checkers -> States \union {NoBackend}]
    /\ picks \in [States -> Nat]

\* LoadBalancer::new; every BackendState starts healthy.
BalancerInit ==
    /\ crew \in Crews /\ strategy \in Strategies
    /\ backends = Initial /\ added = ToSet(Initial)
    /\ healthy = [b \in States |-> TRUE]
    /\ active = [b \in States |-> 0] /\ failures = [b \in States |-> 0]
    /\ index = 0
    /\ client = [c \in Callers |-> "idle"]
    /\ snapshot = [c \in Callers |-> <<>>]
    /\ on = [c \in Callers |-> NoBackend]
    /\ checker = [k \in Checkers |-> "idle"]
    /\ target = [k \in Checkers |-> NoBackend]
    /\ picks = [b \in States |-> 0]

NoPicks == [b \in States |-> 0]

-----------------------------------------------------------------------------
(* The decisions of the code, each with the form a slip would give it. *)

\* add_backend and remove_backend wait for the selects that read the list.
ReadersIgnored == TRUE
NoReaders == Where(client, {"filtered", "chosen"}) = {}

\* round_robin_index.fetch_add(1).
IndexKept == index
IndexUp == (index + 1) % IndexCycle

\* Every listed backend is checked, whatever its health.
OnlyHealthy == ToSet(HealthyList)
Checked == Listed

\* BackendGuard::drop.
ActiveKept(b) == active[b]
ActiveDown(b) == active[b] - 1

-----------------------------------------------------------------------------
(* select. *)

\* The filter; an empty result makes select return None (a stuttering step).
Filter(c) ==
    /\ c \in crew
    /\ client[c] = "idle"
    /\ HealthyList # <<>>
    /\ snapshot' = [snapshot EXCEPT ![c] = HealthyList]
    /\ client' = [client EXCEPT ![c] = "filtered"]
    /\ UNCHANGED <<listVars, stateVars, index, on, checkVars, picks>>

Chooses(c, b) ==
    /\ client' = [client EXCEPT ![c] = "chosen"]
    /\ on' = [on EXCEPT ![c] = b]
    /\ UNCHANGED <<listVars, stateVars, snapshot, checkVars>>

\* One more choice of b: a complete round of the current list is taken off.
Picked(b) ==
    LET p == [picks EXCEPT ![b] = @ + 1]
    IN  IF \A d \in ToSet(HealthyList) : p[d] > 0
        THEN [d \in States |-> IF p[d] > 0 THEN p[d] - 1 ELSE 0] ELSE p

SelectRoundRobin(c) ==
    /\ client[c] = "filtered"
    /\ strategy = "RoundRobin"
    /\ LET b == snapshot[c][(index % Len(snapshot[c])) + 1]
       IN  /\ Chooses(c, b)
           /\ picks' = IF snapshot[c] = HealthyList THEN Picked(b) ELSE NoPicks
    /\ index' = IndexUp

\* min_by_key takes the first of the least loaded.
SelectLeastConnections(c) ==
    /\ client[c] = "filtered"
    /\ strategy = "LeastConnections"
    /\ \E i \in DOMAIN snapshot[c] :
          LET load(j) == active[snapshot[c][j]] IN
          /\ \A j \in DOMAIN snapshot[c] : load(i) <= load(j)
          /\ \A j \in 1 .. i - 1 : load(i) < load(j)
          /\ Chooses(c, snapshot[c][i])
    /\ UNCHANGED <<index, picks>>

\* The total of the first n weights of the snapshot.
WeightUpTo(c, n) == FoldLeft(LAMBDA sum, b : sum + Weight[b], 0,
                             SubSeq(snapshot[c], 1, n))
TotalWeight(c) == WeightUpTo(c, Len(snapshot[c]))

\* (round_robin_index as u32) % total_weight.
WeightTarget(c) == (index % IndexWidth) % TotalWeight(c)

SelectWeighted(c) ==
    /\ client[c] = "filtered"
    /\ strategy = "WeightedRoundRobin"
    /\ TotalWeight(c) > 0
    /\ \E i \in DOMAIN snapshot[c] :
          /\ WeightUpTo(c, i - 1) <= WeightTarget(c)
          /\ WeightTarget(c) < WeightUpTo(c, i)
          /\ Chooses(c, snapshot[c][i])
    /\ index' = IndexUp
    /\ UNCHANGED picks

\* The remainder by a total weight of 0 panics; unwinding frees the lock.
SelectPanics(c) ==
    /\ client[c] = "filtered"
    /\ strategy = "WeightedRoundRobin"
    /\ TotalWeight(c) = 0
    /\ client' = [client EXCEPT ![c] = "panicked"]
    /\ index' = IndexUp
    /\ UNCHANGED <<listVars, stateVars, snapshot, on, checkVars, picks>>

SelectRandom(c) ==
    /\ client[c] = "filtered"
    /\ strategy = "Random"
    /\ \E i \in DOMAIN snapshot[c] : Chooses(c, snapshot[c][i])
    /\ UNCHANGED <<index, picks>>

\* active_connections.fetch_add(1); the guard is returned, the lock released.
TakeGuard(c) ==
    /\ client[c] = "chosen"
    /\ active' = [active EXCEPT ![on[c]] = @ + 1]
    /\ client' = [client EXCEPT ![c] = "holding"]
    /\ snapshot' = [snapshot EXCEPT ![c] = <<>>]
    /\ UNCHANGED <<listVars, healthy, failures, index, on, checkVars, picks>>

-----------------------------------------------------------------------------
(* The guard. *)

RecordSuccess(c) ==
    /\ client[c] = "holding"
    /\ failures' = [failures EXCEPT ![on[c]] = 0]
    /\ UNCHANGED <<listVars, healthy, active, index, clientVars, checkVars,
                   picks>>

RecordFailure(c) ==
    /\ client[c] = "holding"
    /\ failures[on[c]] < MaxFailures
    /\ failures' = [failures EXCEPT ![on[c]] = @ + 1]
    /\ UNCHANGED <<listVars, healthy, active, index, clientVars, checkVars,
                   picks>>

BackendGuardDrop(c) ==
    /\ client[c] = "holding"
    /\ active' = [active EXCEPT ![on[c]] = ActiveDown(on[c])]
    /\ client' = [client EXCEPT ![c] = "idle"]
    /\ on' = [on EXCEPT ![c] = NoBackend]
    /\ UNCHANGED <<listVars, healthy, failures, index, snapshot, checkVars,
                   picks>>

-----------------------------------------------------------------------------
(* Health. *)

\* A tick of start_health_checks spawns a check of every listed backend; those
\* of an earlier tick may still be running.
StartCheck(k, b) ==
    /\ k \in crew
    /\ checker[k] = "idle"
    /\ b \in Checked
    /\ checker' = [checker EXCEPT ![k] = "checking"]
    /\ target' = [target EXCEPT ![k] = b]
    /\ UNCHANGED <<listVars, stateVars, index, clientVars, picks>>

SetHealth(b, value) ==
    /\ healthy' = [healthy EXCEPT ![b] = value]
    /\ picks' = IF healthy[b] = value THEN picks ELSE NoPicks

\* check_fn says healthy: mark_healthy stores healthy ...
CheckPasses(k) ==
    /\ checker[k] = "checking"
    /\ SetHealth(target[k], TRUE)
    /\ checker' = [checker EXCEPT ![k] = "passed"]
    /\ UNCHANGED <<listVars, active, failures, index, clientVars, target>>

\* ... and then consecutive_failures.
ClearFailures(k) ==
    /\ checker[k] = "passed"
    /\ failures' = [failures EXCEPT ![target[k]] = 0]
    /\ checker' = [checker EXCEPT ![k] = "idle"]
    /\ target' = [target EXCEPT ![k] = NoBackend]
    /\ UNCHANGED <<listVars, healthy, active, index, clientVars, picks>>

\* check_fn says unhealthy: the failures counted by requests decide.
CheckFails(k) ==
    /\ checker[k] = "checking"
    /\ IF failures[target[k]] >= UnhealthyThreshold
       THEN checker' = [checker EXCEPT ![k] = "failing"] /\ UNCHANGED target
       ELSE /\ checker' = [checker EXCEPT ![k] = "idle"]
            /\ target' = [target EXCEPT ![k] = NoBackend]
    /\ UNCHANGED <<listVars, stateVars, index, clientVars, picks>>

MarkUnhealthy(k) ==
    /\ checker[k] = "failing"
    /\ SetHealth(target[k], FALSE)
    /\ checker' = [checker EXCEPT ![k] = "idle"]
    /\ target' = [target EXCEPT ![k] = NoBackend]
    /\ UNCHANGED <<listVars, active, failures, index, clientVars>>

\* set_backend_health, on the first backend with the address; the stores of
\* mark_healthy are taken together.
FirstWith(a) == Kept(backends, {i \in DOMAIN backends : Address[backends[i]] = a})

SetBackendHealth(a, value) ==
    /\ FirstWith(a) # <<>>
    /\ LET b == Head(FirstWith(a)) IN
       /\ SetHealth(b, value)
       /\ failures' = IF value THEN [failures EXCEPT ![b] = 0] ELSE failures
    /\ UNCHANGED <<listVars, active, index, clientVars, checkVars>>

-----------------------------------------------------------------------------
(* The list. *)

AddBackend(b) ==
    /\ NoReaders
    /\ b \notin added
    /\ backends' = Append(backends, b)
    /\ added' = added \union {b}
    /\ picks' = NoPicks
    /\ UNCHANGED <<crew, strategy, stateVars, index, clientVars, checkVars>>

RemoveBackend(a) ==
    /\ NoReaders
    /\ backends' = Kept(backends, {i \in DOMAIN backends : Address[backends[i]] # a})
    /\ picks' = NoPicks
    /\ UNCHANGED <<crew, strategy, added, stateVars, index, clientVars,
                   checkVars>>

Addresses == {Address[b] : b \in States}

CallerNext(c) ==
    \/ Filter(c) \/ SelectRoundRobin(c) \/ SelectLeastConnections(c)
    \/ SelectWeighted(c) \/ SelectPanics(c) \/ SelectRandom(c) \/ TakeGuard(c)
    \/ RecordSuccess(c) \/ RecordFailure(c) \/ BackendGuardDrop(c)

CheckerNext(k) ==
    \/ \E b \in States : StartCheck(k, b)
    \/ CheckPasses(k) \/ ClearFailures(k) \/ CheckFails(k) \/ MarkUnhealthy(k)

BalancerNext ==
    \/ \E c \in Callers : CallerNext(c)
    \/ \E k \in Checkers : CheckerNext(k)
    \/ \E a \in Addresses, value \in BOOLEAN : SetBackendHealth(a, value)
    \/ \E b \in States : AddBackend(b)
    \/ \E a \in Addresses : RemoveBackend(a)

BalancerSpec == BalancerInit /\ [][BalancerNext]_balancerVars

\* The interval ticks, a check task that has begun ends, and a backend that is
\* checked again and again passes some of its checks.
Fairness ==
    /\ \A b \in States :
          /\ SF_balancerVars(\E k \in Checkers : StartCheck(k, b))
          /\ SF_balancerVars(\E k \in Checkers : target[k] = b /\ CheckPasses(k))
    /\ \A k \in Checkers :
          WF_balancerVars(CheckPasses(k) \/ CheckFails(k) \/ ClearFailures(k)
                    \/ MarkUnhealthy(k))

BalancerFairSpec == BalancerSpec /\ Fairness

-----------------------------------------------------------------------------
(* Properties. *)

\* active_connections of a backend is the number of its guards, also after it
\* left the list, or came back with the same address, while guards were out
\* (load_balancer.rs:259, 482-488).
ConnectionsExact == \A b \in States : active[b] = Cardinality(Guards(b))

\* What a select is about to return is still in the list: no removal comes
\* between the choice and the guard (load_balancer.rs:240, 324-327).
ChosenIsListed ==
    \A c \in Callers : client[c] = "chosen" => on[c] \in Listed

\* Round-robin spreads the load evenly: as long as the list of healthy backends
\* does not change, no backend is chosen twice more often than another, however
\* many selects run at the same time (load_balancer.rs:268-275).
RoundRobinEven ==
    strategy = "RoundRobin" =>
        \A b, d \in ToSet(HealthyList) : picks[b] <= picks[d] + 1

\* A backend that was marked unhealthy, by checks or by hand, comes back into
\* service if it passes checks and stays in the list (load_balancer.rs:365-400).
ReturnsToService ==
    \A b \in States :
        b \in Listed /\ ~healthy[b] ~> healthy[b] \/ b \notin Listed

=============================================================================
