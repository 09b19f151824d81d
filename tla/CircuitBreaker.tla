--------------------------- MODULE CircuitBreaker ---------------------------
(***************************************************************************)
(* The circuit breaker of stability/circuit_breaker.rs and the calls it    *)
(* guards.  Every method takes the write lock for its whole body and is    *)
(* one step; a call is is_request_allowed, the awaited operation, and then *)
(* record_success or record_failure, so any number of calls overlap.       *)
(* Instants are kept as ages in ticks, up to the largest age that the code *)
(* tells apart.                                                            *)
(***************************************************************************)
EXTENDS Integers

CONSTANTS
    Calls,             \* callers of CircuitBreaker::call
    FailureThreshold, SuccessThreshold,
    Timeout,           \* config.timeout, in ticks
    WindowSize,        \* config.window_size, in ticks
    None               \* Option::None

ASSUME ConfigAssumption ==
    /\ FailureThreshold \in Nat /\ SuccessThreshold \in Nat
    /\ Timeout \in Nat /\ WindowSize \in Nat
ASSUME NoneAssumption == None \notin Nat

VARIABLES
    circuit,       \* state
    failureCount, successCount,
    sinceFailure,  \* age of last_failure_time, up to WindowSize + 1, or None
    sinceOpened,   \* age of opened_at, up to Timeout, or None
    call,          \* whether each caller waits for its operation
    healthy        \* environment: the service has recovered for good

vars == <<circuit, failureCount, successCount, sinceFailure, sinceOpened, call,
          healthy>>

-----------------------------------------------------------------------------

FailureAges == 0 .. WindowSize + 1
OpenAges    == 0 .. Timeout

TypeOK ==
    /\ circuit \in {"Closed", "Open", "HalfOpen"}
    /\ failureCount \in Nat
    /\ successCount \in 0 .. SuccessThreshold
    /\ sinceFailure \in FailureAges \union {None}
    /\ sinceOpened \in OpenAges \union {None}
    /\ call \in [Calls -> {"idle", "running"}]
    /\ healthy \in BOOLEAN

\* with_config.
Init ==
    /\ circuit = "Closed"
    /\ failureCount = 0 /\ successCount = 0
    /\ sinceFailure = None /\ sinceOpened = None
    /\ call = [c \in Calls |-> "idle"]
    /\ healthy = FALSE

-----------------------------------------------------------------------------
(* The decisions of the code, each with the form a slip would give it. *)

\* failure_count >= failure_threshold.
ExceedsThreshold(n) == n > FailureThreshold
ReachesThreshold(n) == n >= FailureThreshold

\* success_count = 0, on entering and on leaving the half-open state.
SuccessesCleared == 0

\* opened_at = Some(now).
OpenedUnset == sinceOpened
OpenedNow == 0

\* opened_at.elapsed() >= timeout.
TimeoutIgnored == sinceOpened # None
TimeoutElapsed == sinceOpened = Timeout

-----------------------------------------------------------------------------
(* is_request_allowed, called by call. *)

\* A closed or half-open circuit lets every call through.
Allow(c) ==
    /\ call[c] = "idle"
    /\ circuit # "Open"
    /\ call' = [call EXCEPT ![c] = "running"]
    /\ UNCHANGED <<circuit, failureCount, successCount, sinceFailure,
                   sinceOpened, healthy>>

\* An open circuit turns half-open at the first call after the timeout; until
\* then, and forever without an opened_at, it refuses (a stuttering step).
AllowProbe(c) ==
    /\ call[c] = "idle"
    /\ circuit = "Open"
    /\ TimeoutElapsed
    /\ circuit' = "HalfOpen"
    /\ successCount' = SuccessesCleared
    /\ failureCount' = 0
    /\ call' = [call EXCEPT ![c] = "running"]
    /\ UNCHANGED <<sinceFailure, sinceOpened, healthy>>

-----------------------------------------------------------------------------
(* record_success, when the operation succeeds. *)

SuccessClosed(c) ==
    /\ call[c] = "running"
    /\ circuit = "Closed"
    /\ failureCount' = 0
    /\ sinceFailure' = None
    /\ call' = [call EXCEPT ![c] = "idle"]
    /\ UNCHANGED <<circuit, successCount, sinceOpened, healthy>>

SuccessHalfOpen(c) ==
    /\ call[c] = "running"
    /\ circuit = "HalfOpen"
    /\ IF successCount + 1 >= SuccessThreshold
       THEN /\ circuit' = "Closed"
            /\ failureCount' = 0
            /\ successCount' = SuccessesCleared
            /\ sinceOpened' = None
       ELSE /\ successCount' = successCount + 1
            /\ UNCHANGED <<circuit, failureCount, sinceOpened>>
    /\ call' = [call EXCEPT ![c] = "idle"]
    /\ UNCHANGED <<sinceFailure, healthy>>

\* A success that arrives when the circuit has opened meanwhile is ignored; a
\* call whose caller drops the future records nothing.
NothingRecorded(c) ==
    /\ call[c] = "running"
    /\ call' = [call EXCEPT ![c] = "idle"]
    /\ UNCHANGED <<circuit, failureCount, successCount, sinceFailure,
                   sinceOpened, healthy>>

SuccessOpen(c) == circuit = "Open" /\ NothingRecorded(c)
Cancel(c) == NothingRecorded(c)

Success(c) == SuccessClosed(c) \/ SuccessHalfOpen(c) \/ SuccessOpen(c)

-----------------------------------------------------------------------------
(* record_failure, when the operation fails. *)

\* failure_count after the check for an expired window.
Carried == IF sinceFailure = WindowSize + 1 THEN 0 ELSE failureCount

Failure(c) ==
    /\ call[c] = "running"
    /\ ~healthy
    /\ sinceFailure' = 0
    /\ failureCount' = IF circuit = "HalfOpen" THEN 1 ELSE Carried + 1
    /\ \/ /\ circuit = "Closed" /\ ~ReachesThreshold(Carried + 1)
          /\ UNCHANGED <<circuit, successCount, sinceOpened>>
       \/ /\ circuit = "Closed" /\ ReachesThreshold(Carried + 1)
          /\ circuit' = "Open"
          /\ sinceOpened' = OpenedNow
          /\ UNCHANGED successCount
       \/ /\ circuit = "HalfOpen"
          /\ circuit' = "Open"
          /\ sinceOpened' = OpenedNow
          /\ successCount' = SuccessesCleared
       \/ /\ circuit = "Open"
          /\ UNCHANGED <<circuit, successCount, sinceOpened>>
    /\ call' = [call EXCEPT ![c] = "idle"]
    /\ UNCHANGED healthy

-----------------------------------------------------------------------------

Reset ==
    /\ circuit' = "Closed"
    /\ failureCount' = 0 /\ successCount' = 0
    /\ sinceFailure' = None /\ sinceOpened' = None
    /\ UNCHANGED <<call, healthy>>

\* Time passes.
Older(age, bound) == IF age = None \/ age = bound THEN age ELSE age + 1

Tick ==
    /\ sinceFailure' = Older(sinceFailure, WindowSize + 1)
    /\ sinceOpened' = Older(sinceOpened, Timeout)
    /\ UNCHANGED <<circuit, failureCount, successCount, call, healthy>>

\* The environment: from here on no operation fails.
ServiceRecovers ==
    /\ ~healthy
    /\ healthy' = TRUE
    /\ UNCHANGED <<circuit, failureCount, successCount, sinceFailure,
                   sinceOpened, call>>

Next ==
    \/ \E c \in Calls : Allow(c) \/ AllowProbe(c) \/ Success(c) \/ Failure(c)
                          \/ Cancel(c)
    \/ Reset
    \/ Tick
    \/ ServiceRecovers

Spec == Init /\ [][Next]_vars

\* Time passes, callers keep calling, and an operation that is not cancelled
\* forever ends (strongly fair: a caller may cancel any number of calls).
Fairness ==
    /\ WF_vars(Tick)
    /\ \A c \in Calls :
          /\ WF_vars(Allow(c) \/ AllowProbe(c))
          /\ SF_vars(Success(c))

FairSpec == Spec /\ Fairness

-----------------------------------------------------------------------------
(* Properties. *)

\* An open circuit has an opened_at, without which is_request_allowed would
\* refuse forever (circuit_breaker.rs:115-127); a closed one has none.
OpenHasInstant ==
    /\ circuit # "Closed" => sinceOpened # None
    /\ circuit = "Closed" => sinceOpened = None

\* No count is ever left at its threshold in the state that it should have
\* ended, and successes are counted only while the circuit is half-open.
ThresholdsRespected ==
    /\ circuit = "Closed" => failureCount = 0 \/ failureCount < FailureThreshold
    /\ circuit = "HalfOpen" => /\ failureCount = 0
                               /\ successCount = 0 \/ successCount < SuccessThreshold
    /\ circuit # "HalfOpen" => successCount = 0

\* The breaker implements what it promises its callers.
Promise == INSTANCE CircuitBreakerSpec
    WITH openFor <- sinceOpened, admitted <- {c \in Calls : call[c] = "running"}

\* Every step of the breaker is one that the promise allows: in particular
\* late results of calls admitted before it opened never shorten the time an
\* open circuit refuses calls, and never close it.
KeepsPromise == Promise!Spec

\* When the service works again the circuit closes for good, as long as callers
\* keep calling: it is never stuck open or half-open.
Recovers == healthy ~> [](circuit = "Closed")

=============================================================================
