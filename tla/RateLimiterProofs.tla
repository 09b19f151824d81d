-------------------------- MODULE RateLimiterProofs --------------------------
(***************************************************************************)
(* Proofs about RateLimiter and KeyedRateLimiter, for every configuration, *)
(* any limiters, keys and callers and any bound on the observed window.    *)
(***************************************************************************)
EXTENDS KeyedRateLimiter, FiniteSetTheorems, TLAPS

\* RateRespected is not inductive: what a bucket would grant right now counts
\* against the allowance too.
Solvent(l) == granted[l] + Refilled(l) <= allowance[l]
IInv == TypeOK /\ \A l \in Limiters : Solvent(l)

LEMMA ShareTypes == Full \in Nat /\ \A n \in Wants \union {0} : Cost(n) \in Nat
BY ConfigAssumption DEF Full, Cost

LEMMA AnyLimiterType == AnyLimiter \in Limiters
BY ConfigAssumption DEF AnyLimiter

LEMMA BucketTypes ==
    ASSUME TypeOK, NEW l \in Limiters
    PROVE  /\ tokens[l] \in 0 .. Full /\ earned[l] \in 0 .. Full
           /\ granted[l] \in Nat /\ allowance[l] \in Nat
           /\ Refilled(l) \in 0 .. Full
BY ShareTypes DEF TypeOK, Refilled, Lesser

\* What a bucket is worth when its time since the last refill is 0.
LEMMA RefilledNext ==
    ASSUME NEW l, NEW t \in 0 .. Full, tokens'[l] = t, earned'[l] = 0
    PROVE  Refilled(l)' = t
BY ShareTypes DEF Refilled, Lesser

\* A limiter whose bucket and history a step leaves alone stays solvent.
LEMMA SolventKept ==
    ASSUME NEW l, Solvent(l), tokens'[l] = tokens[l], earned'[l] = earned[l],
           granted'[l] = granted[l], allowance'[l] = allowance[l]
    PROVE  Solvent(l)'
BY DEF Solvent, Refilled

LEMMA InitInv == Init => IInv
<1> SUFFICES ASSUME Init PROVE IInv
    OBVIOUS
<1>1. Full \in Nat /\ Full \in 0 .. Full /\ 0 \in 0 .. Full
    BY ShareTypes
<1>2. TypeOK
    BY <1>1, AnyLimiterType DEF Init, TypeOK, CallerPoints
<1>3. ASSUME NEW l \in Limiters PROVE Solvent(l)
    <2>1. Refilled(l) = Full
        BY <1>1 DEF Init, Refilled, Lesser
    <2> QED  BY <1>1, <2>1 DEF Init, Solvent
<1> QED  BY <1>2, <1>3 DEF IInv

-----------------------------------------------------------------------------

\* The types of the buckets and of the history.
BucketsOK ==
    /\ tokens \in [Limiters -> 0 .. Full] /\ earned \in [Limiters -> 0 .. Full]
    /\ granted \in [Limiters -> Nat] /\ allowance \in [Limiters -> Nat]
    /\ \A l \in Limiters : Solvent(l)

\* The types of the callers.
CallsOK ==
    /\ refillAmount \in RefillAmounts
    /\ caller \in [Callers -> CallerPoints]
    /\ using \in [Callers -> Limiters]
    /\ want \in [Callers -> Wants \union {0}]
    /\ left \in [Callers -> Nat] /\ nap \in [Callers -> Nat]

LEMMA Parts == IInv <=> BucketsOK /\ CallsOK
BY DEF IInv, TypeOK, BucketsOK, CallsOK

LEMMA PartsNext == BucketsOK' /\ CallsOK' => IInv'
BY DEF IInv, TypeOK, BucketsOK, CallsOK

LEMMA BucketsKept == BucketsOK /\ UNCHANGED bucketVars => BucketsOK'
BY DEF BucketsOK, bucketVars, Solvent, Refilled

LEMMA CallsKept == CallsOK /\ UNCHANGED <<refillAmount, caller, callVars>> => CallsOK'
BY DEF CallsOK, callVars

\* The buckets after a try_acquire of limiter l.
LEMMA BucketStep ==
    ASSUME IInv, NEW l \in Limiters, NEW n \in Wants \union {0},
           Granted(l, n) \/ Refused(l, n)
    PROVE  BucketsOK'
<1>1. Full \in Nat /\ Cost(n) \in Nat /\ 0 \in 0 .. Full
    BY ShareTypes
<1>2. Refilled(l) \in 0 .. Full /\ granted[l] \in Nat /\ allowance[l] \in Nat
    BY BucketTypes DEF IInv
<1>3. PICK t \in 0 .. Full, g \in Nat :
        /\ tokens' = [tokens EXCEPT ![l] = t]
        /\ earned' = [earned EXCEPT ![l] = 0]
        /\ granted' = [granted EXCEPT ![l] = g]
        /\ allowance' = allowance
        /\ g + t <= allowance[l]
    <2>1. CASE Granted(l, n)
        <3>1. Refilled(l) - Cost(n) \in 0 .. Full /\ granted[l] + Cost(n) \in Nat
            BY <1>1, <1>2, <2>1 DEF Granted
        <3>2. granted[l] + Cost(n) + (Refilled(l) - Cost(n)) <= allowance[l]
            BY <1>1, <1>2 DEF IInv, Solvent
        <3> QED  BY <2>1, <3>1, <3>2 DEF Granted, Holds, RefillTimeReset
    <2>2. CASE Refused(l, n)
        <3>1. granted' = [granted EXCEPT ![l] = granted[l]]
            BY <2>2 DEF Refused, IInv, TypeOK
        <3> QED  BY <1>2, <2>2, <3>1 DEF Refused, Holds, RefillTimeReset, IInv, Solvent
    <2> QED  BY <2>1, <2>2
<1>4. /\ tokens' \in [Limiters -> 0 .. Full] /\ earned' \in [Limiters -> 0 .. Full]
      /\ granted' \in [Limiters -> Nat] /\ allowance' \in [Limiters -> Nat]
    BY <1>1, <1>3 DEF IInv, TypeOK
<1>5. ASSUME NEW m \in Limiters PROVE Solvent(m)'
    <2>1. CASE m = l
        <3>1. tokens'[l] = t /\ earned'[l] = 0 /\ granted'[l] = g
              /\ allowance'[l] = allowance[l]
            BY <1>3 DEF IInv, TypeOK
        <3>2. Refilled(l)' = t
            BY <3>1, RefilledNext
        <3> QED  BY <1>3, <2>1, <3>1, <3>2 DEF Solvent
    <2>2. CASE m # l
        BY <1>3, <2>2, SolventKept DEF IInv, TypeOK
    <2> QED  BY <2>1, <2>2
<1> QED  BY <1>4, <1>5 DEF BucketsOK

LEMMA EndsTyped == ASSUME CallsOK, NEW c \in Callers, Ends(c) PROVE CallsOK'
BY AnyLimiterType DEF CallsOK, Ends, CallerPoints

LEMMA CallerStep ==
    ASSUME IInv, NEW c \in Callers, CallerGoesOn(c)
    PROVE  IInv'
<1> BucketsOK /\ CallsOK
    BY Parts
<1>1. want[c] \in Wants \union {0} /\ left[c] \in Nat /\ using[c] \in Limiters
    BY DEF CallsOK
<1>2. {"idle", "trying", "refused", "sleeping", "panicked"} = CallerPoints
    BY DEF CallerPoints
<1>3. CASE AcquireOk(c)
    BY <1>1, <1>3, BucketStep, EndsTyped, PartsNext DEF AcquireOk
<1>4. CASE AcquireRefused(c)
    <2>1. BucketsOK'
        BY <1>1, <1>4, BucketStep DEF AcquireRefused
    <2>2. CallsOK'
        BY <1>2, <1>4 DEF AcquireRefused, CallsOK, callVars
    <2> QED  BY <2>1, <2>2, PartsNext
<1>5. CASE AcquireTimeout(c) \/ Cancel(c)
    BY <1>5, BucketsKept, EndsTyped, PartsNext DEF AcquireTimeout, Cancel
<1>6. CASE Wake(c)
    <2>1. CallsOK'
        BY <1>2, <1>6 DEF Wake, CallsOK, callVars
    <2> QED  BY <1>6, <2>1, BucketsKept, PartsNext DEF Wake
<1>7. CASE Sleep(c)
    <2>1. ASSUME Divisor # 0
          PROVE  Lesser(RefillInterval \div Divisor, left[c]) \in Nat
        <3>1. Divisor \in Nat \ {0}
            BY <2>1, ConfigAssumption DEF Divisor, CallsOK
        <3>2. RefillInterval \div Divisor \in Nat
            BY <3>1, ConfigAssumption
        <3> QED  BY <1>1, <3>2 DEF Lesser
    <2>2. nap' \in [Callers -> Nat] /\ caller' \in [Callers -> CallerPoints]
        BY <1>2, <1>7, <2>1 DEF Sleep, CallsOK
    <2>3. CallsOK'
        BY <1>7, <2>2 DEF Sleep, CallsOK
    <2> QED  BY <1>7, <2>3, BucketsKept, PartsNext DEF Sleep
<1> QED  BY <1>3, <1>4, <1>5, <1>6, <1>7 DEF CallerGoesOn

LEMMA Shift ==
    \A g, r, s, a, d \in Nat : g + r <= a /\ s <= r + d => g + s <= a + d
OBVIOUS

LEMMA ZeroPlus == \A r, f \in Nat : r <= f => 0 + r <= f
OBVIOUS

\* A tick earns refill_amount, and allows as much.
LEMMA TickStep ==
    ASSUME IInv, Tick
    PROVE  IInv'
<1>1. Full \in Nat /\ refillAmount \in Nat
    BY ShareTypes, ConfigAssumption DEF IInv, TypeOK
<1>2. ASSUME NEW l \in Limiters
      PROVE  /\ earned'[l] \in 0 .. Full
             /\ Refilled(l)' \in 0 .. Full
             /\ Refilled(l)' <= Refilled(l) + refillAmount
    <2>1. /\ tokens[l] \in 0 .. Full /\ earned[l] \in 0 .. Full
          /\ tokens'[l] = tokens[l]
          /\ earned'[l] = Lesser(earned[l] + refillAmount, Full - tokens[l])
        BY BucketTypes DEF IInv, Tick
    <2>2. earned'[l] \in 0 .. Full /\ earned'[l] <= earned[l] + refillAmount
        BY <1>1, <2>1 DEF Lesser
    <2> QED  BY <1>1, <2>1, <2>2 DEF Refilled, Lesser
<1>3. earned' \in [Limiters -> 0 .. Full]
    BY <1>2 DEF Tick
<1>4. /\ granted' \in [Limiters -> Nat] /\ allowance' \in [Limiters -> Nat]
      /\ \A l \in Limiters : Solvent(l)'
    <2>1. CASE /\ allowance' = [l \in Limiters |-> allowance[l] + refillAmount]
               /\ granted' = granted
        <3>1. ASSUME NEW l \in Limiters PROVE Solvent(l)'
            <4>1. /\ granted[l] \in Nat /\ allowance[l] \in Nat
                  /\ Refilled(l) \in Nat /\ Refilled(l)' \in Nat
                  /\ granted[l] + Refilled(l) <= allowance[l]
                BY <1>1, <1>2, BucketTypes DEF IInv, Solvent
            <4>2. granted[l] + Refilled(l)' <= allowance[l] + refillAmount
                BY <1>1, <1>2, <4>1, Shift
            <4> QED  BY <2>1, <4>2 DEF Solvent
        <3> QED  BY <1>1, <2>1, <3>1 DEF IInv, TypeOK
    <2>2. CASE /\ allowance' = [l \in Limiters |-> Full]
               /\ granted' = [l \in Limiters |-> 0]
        <3>1. ASSUME NEW l \in Limiters PROVE Solvent(l)'
            <4>1. Refilled(l)' \in Nat /\ Refilled(l)' <= Full
                BY <1>1, <1>2
            <4> QED  BY <1>1, <2>2, <4>1, ZeroPlus DEF Solvent
        <3> QED  BY <1>1, <2>2, <3>1
    <2> QED  BY <2>1, <2>2 DEF Tick
<1>5. left' \in [Callers -> Nat] /\ nap' \in [Callers -> Nat]
    BY DEF Tick, Sooner, IInv, TypeOK
<1> QED  BY <1>3, <1>4, <1>5 DEF Tick, IInv, TypeOK

LEMMA NextInv == IInv /\ [Next]_rateVars => IInv'
<1> SUFFICES ASSUME IInv, [Next]_rateVars PROVE IInv'
    OBVIOUS
<1> BucketsOK /\ CallsOK
    BY Parts
<1>1. ASSUME NEW l \in Limiters, NEW n \in Wants, TryAcquire(l, n) PROVE IInv'
    BY <1>1, BucketStep, CallsKept, PartsNext DEF TryAcquire
<1>2. ASSUME NEW l \in Limiters, AvailableTokens(l) PROVE IInv'
    <2>1. /\ tokens' = [tokens EXCEPT ![l] = Refilled(l)]
          /\ earned' = [earned EXCEPT ![l] = 0]
          /\ granted' = granted /\ allowance' = allowance
          /\ Refilled(l) \in 0 .. Full /\ 0 \in 0 .. Full
        BY <1>2, BucketTypes, ShareTypes
           DEF AvailableTokens, Holds, RefillTimeReset, IInv
    <2>2. ASSUME NEW m \in Limiters PROVE Solvent(m)'
        <3>1. CASE m = l
            <4>1. tokens'[l] = Refilled(l) /\ earned'[l] = 0
                BY <2>1 DEF BucketsOK
            <4>2. Refilled(l)' = Refilled(l)
                BY <2>1, <4>1, RefilledNext
            <4> QED  BY <2>1, <3>1, <4>2 DEF BucketsOK, Solvent
        <3>2. CASE m # l
            BY <2>1, <3>2, SolventKept DEF BucketsOK
        <3> QED  BY <3>1, <3>2
    <2>3. BucketsOK'
        BY <2>1, <2>2 DEF BucketsOK
    <2> QED  BY <1>2, <2>3, CallsKept, PartsNext DEF AvailableTokens
<1>3. ASSUME NEW l \in Limiters, Reset(l) PROVE IInv'
    <2>1. Full \in Nat /\ Full \in 0 .. Full /\ 0 \in 0 .. Full
        BY ShareTypes
    <2>2. granted[l] \in Nat /\ allowance[l] \in Nat /\ granted[l] <= allowance[l]
        BY <2>1, BucketTypes DEF IInv, Solvent
    <2>3. ASSUME NEW m \in Limiters PROVE Solvent(m)'
        <3>1. CASE m = l
            <4>1. /\ tokens'[l] = Full /\ earned'[l] = 0
                  /\ allowance'[l] = allowance[l] + Full /\ granted'[l] = granted[l]
                BY <1>3 DEF Reset, BucketsOK
            <4>2. Refilled(l)' = Full
                BY <2>1, <4>1, RefilledNext
            <4> QED  BY <2>1, <2>2, <3>1, <4>1, <4>2 DEF Solvent
        <3>2. CASE m # l
            BY <1>3, <3>2, SolventKept DEF BucketsOK, Reset
        <3> QED  BY <3>1, <3>2
    <2>4. BucketsOK'
        BY <1>3, <2>1, <2>2, <2>3 DEF Reset, BucketsOK
    <2> QED  BY <1>3, <2>4, CallsKept, PartsNext DEF Reset
<1>4. ASSUME NEW c \in Callers, NEW l \in Limiters, NEW n \in Wants,
             NEW t \in Timeouts, Acquire(c, l, n, t)
      PROVE  IInv'
    <2>1. CallsOK'
        BY <1>4, ConfigAssumption DEF Acquire, CallsOK, CallerPoints
    <2> QED  BY <1>4, <2>1, BucketsKept, PartsNext DEF Acquire
<1>5. CASE UNCHANGED rateVars
    BY <1>5, BucketsKept, CallsKept, PartsNext DEF rateVars
<1> QED  BY <1>1, <1>2, <1>3, <1>4, <1>5, CallerStep, TickStep DEF Next

\* In any window of time a limiter grants no more than its capacity and what the
\* time is worth, for every configuration (rate_limiter.rs:119-142).
THEOREM RateTheorem == Spec => [](TypeOK /\ RateRespected)
<1>1. IInv => RateRespected
    <2> SUFFICES ASSUME IInv, NEW l \in Limiters PROVE granted[l] <= allowance[l]
        BY DEF RateRespected
    <2>1. Full \in Nat
        BY ShareTypes
    <2> QED  BY <2>1, BucketTypes DEF IInv, Solvent
<1> QED  BY InitInv, NextInv, <1>1, PTL DEF Spec, IInv

-----------------------------------------------------------------------------
(* A keyed limiter does to its limiters nothing that they do not allow. *)

\* The limiter that an entry yields is one.
Mapped == limiterOf \in [Keys -> Limiters \union {None}]

LEMMA EntryMapped ==
    ASSUME Mapped, NEW k \in Keys, NEW l \in Limiters, Entry(k, l)
    PROVE  Mapped'
BY DEF Mapped, Entry, Make

KeyedInv == Mapped /\ seeking \in [Callers -> Keys \union {None}]

LEMMA KeyedStep ==
    ASSUME KeyedInv, [KeyedNext]_vars
    PROVE  KeyedInv' /\ [Next]_rateVars
<1>1. ASSUME NEW c \in Callers, NEW k \in Keys, NEW n \in Wants, TryHit(c, k, n)
      PROVE  KeyedInv' /\ Next
    <2>1. limiterOf[k] \in Limiters
        BY <1>1 DEF TryHit, KeyedInv, Mapped
    <2> QED  BY <1>1, <2>1 DEF TryHit, Next, KeyedInv, Mapped, keyedVars
<1>2. ASSUME NEW c \in Callers, NEW k \in Keys, TryMiss(c, k)
      PROVE  KeyedInv' /\ UNCHANGED rateVars
    BY <1>2 DEF TryMiss, KeyedInv, Mapped
<1>3. ASSUME NEW c \in Callers, NEW n \in Wants, TryInsert(c, n)
      PROVE  KeyedInv' /\ Next
    <2>1. seeking[c] \in Keys
        BY <1>3 DEF TryInsert, KeyedInv
    <2>2. PICK l \in Limiters : Entry(seeking[c], l) /\ TryAcquire(l, n)
        BY <1>3 DEF TryInsert
    <2>3. Mapped'
        BY <2>1, <2>2, EntryMapped DEF KeyedInv
    <2>4. seeking' \in [Callers -> Keys \union {None}]
        BY <1>3 DEF TryInsert, KeyedInv
    <2> QED  BY <2>2, <2>3, <2>4 DEF Next, KeyedInv
<1>4. ASSUME NEW c \in Callers, NEW k \in Keys, NEW n \in Wants, NEW t \in Timeouts,
             AcquireKey(c, k, n, t)
      PROVE  KeyedInv' /\ Next
    <2>1. PICK l \in Limiters : Entry(k, l) /\ Acquire(c, l, n, t)
        BY <1>4 DEF AcquireKey
    <2>2. Mapped'
        BY <2>1, EntryMapped DEF KeyedInv
    <2> QED  BY <1>4, <2>1, <2>2 DEF AcquireKey, Next, KeyedInv
<1>5. ASSUME NEW ks, Remove(ks) PROVE KeyedInv' /\ UNCHANGED rateVars
    BY <1>5 DEF Remove, KeyedInv, Mapped
<1>6. ASSUME UNCHANGED keyedVars PROVE KeyedInv'
    BY <1>6 DEF keyedVars, KeyedInv, Mapped
<1>7. CASE Direct(AnyLimiter) /\ UNCHANGED keyedVars
    BY <1>6, <1>7, AnyLimiterType DEF Direct, Next
<1>8. CASE (\E c \in Callers : CallerGoesOn(c)) /\ UNCHANGED keyedVars
    BY <1>6, <1>8 DEF Next
<1>9. CASE Tick /\ UNCHANGED keyedVars
    BY <1>6, <1>9 DEF Next
<1>10. CASE UNCHANGED vars
    BY <1>6, <1>10 DEF vars
<1> QED  BY <1>1, <1>2, <1>3, <1>4, <1>5, <1>7, <1>8, <1>9, <1>10 DEF KeyedNext

LEMMA KeyedImplements == KeyedSpec => Spec
<1>1. KeyedInit => KeyedInv /\ Init
    BY DEF KeyedInit, KeyedInv, Mapped
<1>2. KeyedInv /\ [KeyedNext]_vars => KeyedInv' /\ [Next]_rateVars
    BY KeyedStep
<1> QED  BY <1>1, <1>2, PTL DEF KeyedSpec, Spec

\* Every limiter of a keyed limiter keeps to its rate, also one that was removed
\* and still has callers waiting on it (rate_limiter.rs:202-275).
THEOREM KeyedRateTheorem == KeyedSpec => []RateRespected
BY KeyedImplements, RateTheorem, PTL

-----------------------------------------------------------------------------
(* A key has had one limiter, and one more for every time it was removed. *)

Live(k) == IF limiterOf[k] = None THEN 0 ELSE 1

KeyOK(k) ==
    /\ limiterOf[k] # None => madeFor[limiterOf[k]] = k
    /\ Cardinality(LimitersOf(k)) = removals[k] + Live(k)

\* The limiters of keys all have the same allowance: only a limiter that is used
\* on its own is ever reset.
SameAllowance ==
    \/ \A l \in Limiters : madeFor[l] = Alone
    \/ /\ \A l \in Limiters : madeFor[l] # Alone
       /\ \A l, m \in Limiters : allowance[l] = allowance[m]

KeyInv ==
    /\ KeyedInv
    /\ madeFor \in [Limiters -> Keys \union {None, Alone}]
    /\ removals \in [Keys -> Nat]
    /\ \A k \in Keys : KeyOK(k)
    /\ SameAllowance

LEMMA KeyInit == ASSUME KeyedInit PROVE KeyInv
<1>1. KeyedInv
    BY DEF KeyedInit, KeyedInv, Mapped
<1>2. /\ madeFor \in [Limiters -> Keys \union {None, Alone}]
      /\ removals \in [Keys -> Nat]
    BY DEF KeyedInit
<1>3. SameAllowance
    BY KeyedAssumption DEF KeyedInit, Init, SameAllowance
<1>4. ASSUME NEW k \in Keys PROVE KeyOK(k)
    <2>1. LimitersOf(k) = {}
        BY KeyedAssumption DEF KeyedInit, LimitersOf
    <2>2. Cardinality({}) = 0
        BY FS_EmptySet
    <2> QED  BY <2>1, <2>2 DEF KeyedInit, KeyOK, Live
<1> QED  BY <1>1, <1>2, <1>3, <1>4 DEF KeyInv

LEMMA LimitersFinite ==
    ASSUME NEW k
    PROVE  IsFiniteSet(LimitersOf(k)) /\ Cardinality(LimitersOf(k)) \in Nat
<1>1. LimitersOf(k) \subseteq Limiters
    BY DEF LimitersOf
<1> QED  BY <1>1, KeyedAssumption, FS_Subset, FS_CardinalityType

\* entry makes a limiter only for a key that has none.
LEMMA EntryCounted ==
    ASSUME KeyInv, NEW k \in Keys, NEW l \in Limiters, Entry(k, l),
           UNCHANGED <<allowance, removals>>
    PROVE  /\ madeFor' \in [Limiters -> Keys \union {None, Alone}]
           /\ SameAllowance'
           /\ \A j \in Keys : KeyOK(j)'
<1>1. CASE UNCHANGED <<limiterOf, madeFor>>
    BY <1>1 DEF KeyInv, SameAllowance, KeyOK, Live, LimitersOf
<1>2. CASE limiterOf[k] = None /\ Make(k, l)
    <2>1. /\ madeFor[l] = None /\ madeFor' = [madeFor EXCEPT ![l] = k]
          /\ limiterOf' = [limiterOf EXCEPT ![k] = l]
        BY <1>2 DEF Make
    <2>2. madeFor' \in [Limiters -> Keys \union {None, Alone}]
        BY <2>1 DEF KeyInv
    <2>3. SameAllowance'
        BY <2>1, KeyedAssumption DEF KeyInv, SameAllowance
    <2>4. ASSUME NEW j \in Keys PROVE KeyOK(j)'
        <3>1. CASE j = k
            <4>1. LimitersOf(k)' = LimitersOf(k) \union {l} /\ l \notin LimitersOf(k)
                BY <2>1, KeyedAssumption DEF KeyInv, LimitersOf
            <4>2. Cardinality(LimitersOf(k)') = Cardinality(LimitersOf(k)) + 1
                BY <4>1, LimitersFinite, FS_AddElement
            <4>3. limiterOf'[k] = l /\ l # None /\ madeFor'[l] = k
                BY <2>1, KeyedAssumption DEF KeyInv, KeyedInv, Mapped
            <4>4. Cardinality(LimitersOf(k)) = removals[k] /\ removals[k] \in Nat
                BY <1>2 DEF KeyInv, KeyOK, Live
            <4> QED  BY <3>1, <4>2, <4>3, <4>4 DEF KeyOK, Live
        <3>2. CASE j # k
            <4>1. LimitersOf(j)' = LimitersOf(j)
                BY <2>1, <3>2, KeyedAssumption DEF KeyInv, LimitersOf
            <4>2. limiterOf'[j] = limiterOf[j]
                BY <2>1, <3>2 DEF KeyInv, KeyedInv, Mapped
            <4>3. limiterOf[j] # None => madeFor'[limiterOf[j]] = j
                BY <2>1, KeyedAssumption DEF KeyInv, KeyOK, KeyedInv, Mapped
            <4> QED  BY <4>1, <4>2, <4>3 DEF KeyInv, KeyOK, Live
        <3> QED  BY <3>1, <3>2
    <2> QED  BY <2>2, <2>3, <2>4
<1> QED  BY <1>1, <1>2 DEF Entry

LEMMA KeyStep ==
    ASSUME KeyInv, [KeyedNext]_vars
    PROVE  KeyInv'
<1>0. KeyedInv'
    BY KeyedStep DEF KeyInv
<1>1. ASSUME NEW k \in Keys, NEW l \in Limiters, Entry(k, l),
             UNCHANGED <<allowance, removals>>
      PROVE  KeyInv'
    BY <1>0, <1>1, EntryCounted DEF KeyInv
<1>2. ASSUME UNCHANGED keyedVars, SameAllowance' PROVE KeyInv'
    BY <1>0, <1>2 DEF KeyInv, keyedVars, KeyOK, Live, LimitersOf
<1>3. ASSUME UNCHANGED <<keyedVars, allowance>> PROVE KeyInv'
    BY <1>2, <1>3 DEF KeyInv, keyedVars, SameAllowance
<1>a. ASSUME NEW l, NEW n, TryAcquire(l, n) PROVE UNCHANGED allowance
    BY <1>a DEF TryAcquire, Granted, Refused
<1>b. ASSUME NEW c, NEW l, NEW n, NEW t, Acquire(c, l, n, t) PROVE UNCHANGED allowance
    BY <1>b DEF Acquire, bucketVars
<1>4. ASSUME NEW c \in Callers, NEW k \in Keys, NEW n \in Wants, TryHit(c, k, n)
      PROVE  KeyInv'
    BY <1>3, <1>4, <1>a DEF TryHit
<1>5. ASSUME NEW c \in Callers, NEW k \in Keys, TryMiss(c, k)
      PROVE  KeyInv'
    BY <1>0, <1>5 DEF TryMiss, rateVars, bucketVars, KeyInv, KeyOK, Live, LimitersOf,
                      SameAllowance
<1>6. ASSUME NEW c \in Callers, NEW n \in Wants, TryInsert(c, n)
      PROVE  KeyInv'
    <2>1. seeking[c] \in Keys
        BY <1>6 DEF TryInsert, KeyInv, KeyedInv
    <2>2. PICK l \in Limiters : Entry(seeking[c], l) /\ TryAcquire(l, n)
        BY <1>6 DEF TryInsert
    <2> QED  BY <1>1, <1>6, <1>a, <2>1, <2>2 DEF TryInsert
<1>7. ASSUME NEW c \in Callers, NEW k \in Keys, NEW n \in Wants, NEW t \in Timeouts,
             AcquireKey(c, k, n, t)
      PROVE  KeyInv'
    <2>1. PICK l \in Limiters : Entry(k, l) /\ Acquire(c, l, n, t)
        BY <1>7 DEF AcquireKey
    <2> QED  BY <1>1, <1>7, <1>b, <2>1 DEF AcquireKey
<1>8. ASSUME NEW ks, Remove(ks) PROVE KeyInv'
    <2>1. /\ limiterOf' = [k \in Keys |-> IF k \in ks THEN None ELSE limiterOf[k]]
          /\ removals' = [k \in Keys |-> IF k \in ks /\ limiterOf[k] # None
                                         THEN removals[k] + 1 ELSE removals[k]]
          /\ UNCHANGED <<allowance, madeFor>>
        BY <1>8 DEF Remove, rateVars, bucketVars
    <2>2. removals' \in [Keys -> Nat] /\ SameAllowance'
        BY <2>1 DEF KeyInv, SameAllowance
    <2>3. ASSUME NEW k \in Keys PROVE KeyOK(k)'
        <3>1. LimitersOf(k)' = LimitersOf(k)
            BY <2>1 DEF LimitersOf
        <3>2. removals[k] \in Nat /\ KeyOK(k)
            BY DEF KeyInv
        <3>3. removals'[k] + Live(k)' = removals[k] + Live(k)
            BY <2>1, <3>2 DEF Live
        <3> QED  BY <2>1, <3>1, <3>2, <3>3 DEF KeyOK
    <2> QED  BY <1>0, <2>1, <2>2, <2>3 DEF KeyInv
<1>9. CASE Direct(AnyLimiter) /\ UNCHANGED keyedVars
    <2>1. \A l \in Limiters : madeFor[l] = Alone
        BY <1>9, AnyLimiterType DEF Direct, KeyInv, SameAllowance
    <2>2. SameAllowance'
        BY <1>9, <2>1 DEF SameAllowance, keyedVars
    <2> QED  BY <1>2, <1>9, <2>2
<1>10. ASSUME NEW c \in Callers, CallerGoesOn(c), UNCHANGED keyedVars
       PROVE  KeyInv'
    <2>1. UNCHANGED allowance
        BY <1>10 DEF CallerGoesOn, AcquireOk, AcquireRefused, AcquireTimeout, Cancel,
                     Sleep, Wake, Granted, Refused, bucketVars
    <2> QED  BY <1>3, <1>10, <2>1
<1>11. CASE Tick /\ UNCHANGED keyedVars
    <2>1. SameAllowance'
        BY <1>11 DEF KeyInv, SameAllowance, Tick, keyedVars
    <2> QED  BY <1>2, <1>11, <2>1
<1>12. CASE UNCHANGED vars
    BY <1>3, <1>12 DEF vars, rateVars, bucketVars
<1> QED  BY <1>4, <1>5, <1>6, <1>7, <1>8, <1>9, <1>10, <1>11, <1>12 DEF KeyedNext

\* So many limiters of one rate grant no more than so many times the rate.
LEMMA RateOfKey == ASSUME TypeOK, RateRespected, KeyInv PROVE KeyRateRespected
<1> SUFFICES ASSUME NEW k \in Keys, NEW m \in Limiters
             PROVE  Cardinality(SharesOf(k)) <= (1 + removals[k]) * allowance[m]
    BY DEF KeyRateRespected
<1> DEFINE L == LimitersOf(k)
           A == allowance[m]
<1>1. A \in Nat /\ removals[k] \in Nat
    BY DEF TypeOK, KeyInv
<1>2. IsFiniteSet(L) /\ Cardinality(L) \in Nat
    BY LimitersFinite
<1>3. Cardinality(L) <= 1 + removals[k]
    BY <1>1 DEF KeyInv, KeyOK, Live
<1>4. IsFiniteSet(1 .. A) /\ Cardinality(1 .. A) = A
    <2> HIDE DEF A
    <2>1. 1 \in Int /\ A \in Int
        BY <1>1
    <2>2. IsFiniteSet(1 .. A) /\ Cardinality(1 .. A) = IF 1 > A THEN 0 ELSE A - 1 + 1
        BY <2>1, FS_Interval
    <2> QED  BY <1>1, <2>2
<1>5. ASSUME NEW l \in L PROVE granted[l] \in Nat /\ granted[l] <= A
    <2>1. l \in Limiters /\ madeFor[l] # Alone
        BY KeyedAssumption DEF LimitersOf
    <2>2. allowance[l] = A
        BY <2>1 DEF KeyInv, SameAllowance
    <2> QED  BY <2>1, <2>2 DEF RateRespected, TypeOK
<1>6. SharesOf(k) \subseteq L \X (1 .. A)
    <2> SUFFICES ASSUME NEW l \in L PROVE {l} \X (1 .. granted[l]) \subseteq L \X (1 .. A)
        BY DEF SharesOf
    <2>1. 1 .. granted[l] \subseteq 1 .. A
        BY <1>1, <1>5
    <2> HIDE DEF A, L
    <2> QED  BY <2>1
<1>7. /\ IsFiniteSet(L \X (1 .. A))
      /\ Cardinality(L \X (1 .. A)) = Cardinality(L) * A
    <2> HIDE DEF A, L
    <2> QED  BY <1>2, <1>4, FS_Product
<1>8. Cardinality(SharesOf(k)) <= Cardinality(L) * A /\ Cardinality(SharesOf(k)) \in Nat
    <2> HIDE DEF A, L
    <2> QED  BY <1>6, <1>7, FS_Subset, FS_CardinalityType
<1>9. \A x, y, z \in Nat : x <= y => x * z <= y * z
    OBVIOUS
<1>10. Cardinality(L) * A <= (1 + removals[k]) * A
    <2> HIDE DEF A, L
    <2>1. 1 + removals[k] \in Nat
        BY <1>1
    <2> QED  BY <1>1, <1>2, <1>3, <1>9, <2>1
<1>11. Cardinality(L) * A \in Int /\ (1 + removals[k]) * A \in Int
    <2> HIDE DEF A, L
    <2> QED  BY <1>1, <1>2
<1> HIDE DEF L
<1> QED  BY <1>8, <1>10, <1>11

\* A key gets the rate of one bucket, once more for every time it was removed:
\* a call that finds no limiter makes one only if nobody else has
\* (rate_limiter.rs:218-275).
THEOREM KeyTheorem == KeyedSpec => []KeyRateRespected
<1>1. KeyInv /\ [KeyedNext]_vars => KeyInv'
    BY KeyStep
<1>2. KeyedInit => KeyInv
    BY KeyInit
<1>3. KeyedSpec => []KeyInv
    BY <1>1, <1>2, PTL DEF KeyedSpec
<1> QED  BY <1>3, KeyedImplements, RateTheorem, RateOfKey, PTL

=============================================================================
