------------------------- MODULE CircuitBreakerSpec -------------------------
(***************************************************************************)
(* What a circuit breaker promises its callers, without its counters: an   *)
(* open circuit admits nothing before Timeout has passed, the first call   *)
(* after that is a probe, one failure of a half-open circuit opens it      *)
(* again, and only a success (or an explicit reset) closes it.             *)
(***************************************************************************)
EXTENDS Integers

CONSTANTS Calls, Timeout, None

VARIABLES
    circuit,   \* "Closed", "Open" or "HalfOpen"
    openFor,   \* how long ago it opened, up to Timeout, or None
    admitted   \* the calls that are being executed

vars == <<circuit, openFor, admitted>>

Init ==
    /\ circuit = "Closed"
    /\ openFor = None
    /\ admitted = {}

\* A call is let through.
Admit(c) ==
    /\ c \notin admitted
    /\ circuit # "Open"
    /\ admitted' = admitted \union {c}
    /\ UNCHANGED <<circuit, openFor>>

\* The first call after the timeout makes the circuit half-open.
Probe(c) ==
    /\ c \notin admitted
    /\ circuit = "Open"
    /\ openFor = Timeout
    /\ circuit' = "HalfOpen"
    /\ admitted' = admitted \union {c}
    /\ UNCHANGED openFor

\* A call succeeds: it may close a half-open circuit and does nothing else.
Succeed(c) ==
    /\ c \in admitted
    /\ admitted' = admitted \ {c}
    /\ \/ UNCHANGED <<circuit, openFor>>
       \/ circuit = "HalfOpen" /\ circuit' = "Closed" /\ openFor' = None

\* A call fails: it may open a closed circuit and must open a half-open one.
Fail(c) ==
    /\ c \in admitted
    /\ admitted' = admitted \ {c}
    /\ \/ circuit # "HalfOpen" /\ UNCHANGED <<circuit, openFor>>
       \/ circuit # "Open" /\ circuit' = "Open" /\ openFor' = 0

\* A call is abandoned by its caller.
Abandon(c) ==
    /\ c \in admitted
    /\ admitted' = admitted \ {c}
    /\ UNCHANGED <<circuit, openFor>>

Reset ==
    /\ circuit' = "Closed"
    /\ openFor' = None
    /\ UNCHANGED admitted

Tick ==
    /\ openFor # None
    /\ openFor < Timeout
    /\ openFor' = openFor + 1
    /\ UNCHANGED <<circuit, admitted>>

Next ==
    \/ \E c \in Calls :
          Admit(c) \/ Probe(c) \/ Succeed(c) \/ Fail(c) \/ Abandon(c)
    \/ Reset
    \/ Tick

Spec == Init /\ [][Next]_vars

=============================================================================
