------------------------ MODULE CircuitBreakerProofs ------------------------
(***************************************************************************)
(* Proofs about CircuitBreaker, for every configuration (thresholds of 0   *)
(* included) and any set of callers.                                       *)
(***************************************************************************)
EXTENDS CircuitBreaker, TLAPS

\* The three invariants are inductive together.
IInv == TypeOK /\ OpenHasInstant /\ ThresholdsRespected

LEMMA InitInv == Init => IInv
<1> SUFFICES ASSUME Init PROVE IInv
    OBVIOUS
<1>1. successCount \in 0 .. SuccessThreshold
    BY ConfigAssumption DEF Init
<1>2. OpenHasInstant /\ ThresholdsRespected
    BY DEF Init, OpenHasInstant, ThresholdsRespected
<1>3. call \in [Calls -> {"idle", "running"}]
    BY DEF Init
<1> QED  BY <1>1, <1>2, <1>3 DEF Init, IInv, TypeOK

\* Getting older keeps an age in its range.
LEMMA OlderType ==
    ASSUME NEW b \in Nat, NEW age \in (0 .. b) \union {None}
    PROVE  /\ Older(age, b) \in (0 .. b) \union {None}
           /\ Older(age, b) = None <=> age = None
BY NoneAssumption DEF Older

LEMMA CallStep ==
    ASSUME IInv, NEW c \in Calls,
           Allow(c) \/ AllowProbe(c) \/ Success(c) \/ Failure(c) \/ Cancel(c)
    PROVE  IInv'
<1> USE DEF IInv
<1>1. CASE Allow(c) \/ SuccessOpen(c) \/ Cancel(c)
    BY <1>1
       DEF Allow, SuccessOpen, Cancel, NothingRecorded, TypeOK, OpenHasInstant,
           ThresholdsRespected
<1>2. CASE AllowProbe(c)
    BY <1>2, ConfigAssumption
       DEF AllowProbe, SuccessesCleared, TypeOK, OpenHasInstant,
           ThresholdsRespected
<1>3. CASE SuccessClosed(c)
    BY <1>3
       DEF SuccessClosed, TypeOK, OpenHasInstant, ThresholdsRespected
<1>4. CASE SuccessHalfOpen(c)
    <2>1. CASE successCount + 1 >= SuccessThreshold
        BY <1>4, <2>1, ConfigAssumption
           DEF SuccessHalfOpen, SuccessesCleared, TypeOK, OpenHasInstant,
               ThresholdsRespected
    <2>2. CASE ~(successCount + 1 >= SuccessThreshold)
        BY <1>4, <2>2, ConfigAssumption
           DEF SuccessHalfOpen, TypeOK, OpenHasInstant, ThresholdsRespected
    <2> QED  BY <2>1, <2>2
<1>5. CASE Failure(c)
    <2>1. Carried \in Nat
        BY DEF Carried, TypeOK
    <2>2. /\ failureCount' \in Nat
          /\ sinceFailure' \in FailureAges \union {None}
          /\ call' \in [Calls -> {"idle", "running"}]
          /\ healthy' \in BOOLEAN
        BY <1>5, <2>1, ConfigAssumption DEF Failure, TypeOK, FailureAges
    <2>3. OpenedNow \in OpenAges /\ OpenedNow # None
        BY ConfigAssumption, NoneAssumption DEF OpenedNow, OpenAges
    <2>4. SuccessesCleared = 0 /\ 0 \in 0 .. SuccessThreshold
        BY ConfigAssumption DEF SuccessesCleared
    <2>5. CASE circuit = "Closed" /\ ~ReachesThreshold(Carried + 1)
        <3>1. failureCount' < FailureThreshold
            BY <1>5, <2>1, <2>5, ConfigAssumption DEF Failure, ReachesThreshold
        <3> QED  BY <1>5, <2>2, <2>5, <3>1
                 DEF Failure, TypeOK, OpenHasInstant, ThresholdsRespected
    <2>6. CASE circuit = "Closed" /\ ReachesThreshold(Carried + 1)
        BY <1>5, <2>2, <2>3, <2>6
           DEF Failure, TypeOK, OpenHasInstant, ThresholdsRespected
    <2>7. CASE circuit = "HalfOpen"
        BY <1>5, <2>2, <2>3, <2>4, <2>7
           DEF Failure, TypeOK, OpenHasInstant, ThresholdsRespected
    <2>8. CASE circuit = "Open"
        BY <1>5, <2>2, <2>8
           DEF Failure, TypeOK, OpenHasInstant, ThresholdsRespected
    <2> QED  BY <2>5, <2>6, <2>7, <2>8 DEF TypeOK
<1> QED  BY <1>1, <1>2, <1>3, <1>4, <1>5 DEF Success

LEMMA NextInv == IInv /\ [Next]_vars => IInv'
<1> SUFFICES ASSUME IInv, [Next]_vars PROVE IInv'
    OBVIOUS
<1> USE DEF IInv
<1>1. CASE Reset
    BY <1>1, ConfigAssumption
       DEF Reset, TypeOK, OpenHasInstant, ThresholdsRespected
<1>2. CASE Tick
    <2>1. sinceFailure' \in FailureAges \union {None}
        BY <1>2, OlderType, ConfigAssumption DEF Tick, TypeOK, FailureAges
    <2>2. /\ sinceOpened' \in OpenAges \union {None}
          /\ sinceOpened' = None <=> sinceOpened = None
        BY <1>2, OlderType, ConfigAssumption DEF Tick, TypeOK, OpenAges
    <2> QED  BY <1>2, <2>1, <2>2
             DEF Tick, TypeOK, OpenHasInstant, ThresholdsRespected
<1>3. CASE ServiceRecovers \/ UNCHANGED vars
    BY <1>3 DEF ServiceRecovers, vars, TypeOK, OpenHasInstant,
                ThresholdsRespected
<1> QED  BY <1>1, <1>2, <1>3, CallStep DEF Next

\* An open circuit can always recover and no count outlives its threshold, for
\* every configuration (circuit_breaker.rs:108-221).
THEOREM BreakerTheorem ==
    Spec => [](TypeOK /\ OpenHasInstant /\ ThresholdsRespected)
<1> QED  BY InitInv, NextInv, PTL DEF Spec, IInv

-----------------------------------------------------------------------------

\* Calls come and go one at a time.
LEMMA RunningMove ==
    ASSUME TypeOK, NEW c \in Calls, NEW v \in {"idle", "running"},
           call' = [call EXCEPT ![c] = v]
    PROVE  LET R == {d \in Calls : call[d] = "running"} IN
           /\ call[c] = "running" <=> c \in R
           /\ v = "running" => {d \in Calls : call'[d] = "running"} = R \union {c}
           /\ v = "idle" => {d \in Calls : call'[d] = "running"} = R \ {c}
BY DEF TypeOK

\* A step of a call is a step of the promise.
LEMMA CallRefines ==
    ASSUME IInv, NEW c \in Calls,
           Allow(c) \/ AllowProbe(c) \/ Success(c) \/ Failure(c) \/ Cancel(c)
    PROVE  \/ Promise!Admit(c) \/ Promise!Probe(c) \/ Promise!Succeed(c)
           \/ Promise!Fail(c) \/ Promise!Abandon(c)
<1> DEFINE R == {d \in Calls : call[d] = "running"}
<1>1. TypeOK
    BY DEF IInv
<1>2. CASE Allow(c) \/ AllowProbe(c)
    <2>1. /\ c \notin R
          /\ {d \in Calls : call'[d] = "running"} = R \union {c}
        BY <1>1, <1>2, RunningMove DEF Allow, AllowProbe
    <2> QED  BY <1>2, <2>1
             DEF Allow, AllowProbe, TimeoutElapsed, Promise!Admit, Promise!Probe
<1>3. CASE Success(c) \/ Failure(c) \/ Cancel(c)
    <2>1. /\ c \in R
          /\ {d \in Calls : call'[d] = "running"} = R \ {c}
        BY <1>1, <1>3, RunningMove
           DEF Success, SuccessClosed, SuccessHalfOpen, SuccessOpen, Cancel,
               NothingRecorded, Failure
    <2>2. CASE Cancel(c)
        BY <2>1, <2>2 DEF Cancel, NothingRecorded, Promise!Abandon
    <2>3. CASE Success(c)
        BY <2>1, <2>3
           DEF Success, SuccessClosed, SuccessHalfOpen, SuccessOpen,
               NothingRecorded, Promise!Succeed
    <2>4. CASE Failure(c)
        BY <2>1, <2>4 DEF Failure, OpenedNow, Promise!Fail
    <2> QED  BY <1>3, <2>2, <2>3, <2>4
<1> QED  BY <1>2, <1>3

LEMMA NextRefines == IInv /\ [Next]_vars => [Promise!Next]_(Promise!vars)
<1> SUFFICES ASSUME IInv, [Next]_vars
             PROVE  Promise!Next \/ UNCHANGED Promise!vars
    OBVIOUS
<1>1. CASE \E c \in Calls : \/ Allow(c) \/ AllowProbe(c) \/ Success(c)
                            \/ Failure(c) \/ Cancel(c)
    BY <1>1, CallRefines DEF Promise!Next
<1>2. CASE Reset
    BY <1>2 DEF Reset, Promise!Next, Promise!Reset
<1>3. CASE Tick
    <2>1. CASE sinceOpened \in {None, Timeout}
        BY <1>3, <2>1 DEF Tick, Older, Promise!vars
    <2>2. CASE sinceOpened \notin {None, Timeout}
        <3>1. sinceOpened < Timeout /\ sinceOpened' = sinceOpened + 1
            BY <1>3, <2>2, ConfigAssumption
               DEF Tick, Older, IInv, TypeOK, OpenAges
        <3> QED  BY <1>3, <2>2, <3>1 DEF Tick, Promise!Next, Promise!Tick
    <2> QED  BY <2>1, <2>2
<1>4. CASE ServiceRecovers \/ UNCHANGED vars
    BY <1>4 DEF ServiceRecovers, vars, Promise!vars
<1> QED  BY <1>1, <1>2, <1>3, <1>4 DEF Next

\* The breaker implements its promise: what CircuitBreakerSpec allows is all
\* that any interleaving of calls can make it do (circuit_breaker.rs:108-242).
THEOREM RefinementTheorem == Spec => KeepsPromise
<1>1. Init => Promise!Init
    BY DEF Init, Promise!Init
<1> QED  BY <1>1, InitInv, NextInv, NextRefines, PTL
         DEF Spec, KeepsPromise, Promise!Spec

=============================================================================
