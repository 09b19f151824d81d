-------------------------- MODULE KeyedRateLimiter --------------------------
(***************************************************************************)
(* KeyedRateLimiter of stability/rate_limiter.rs: a limiter for each key,  *)
(* made when the key is first used.  A limiter is an instance that lives   *)
(* as long as somebody uses it, so a caller that waits keeps the one it    *)
(* began with when the key is removed.  An instance that was not handed    *)
(* out yet stands for one yet to be made: its bucket is full.  The         *)
(* limiters may also be used on their own, without keys.                   *)
(***************************************************************************)
EXTENDS RateLimiter, FiniteSets

CONSTANTS Keys, None, Alone

ASSUME KeyedAssumption ==
    /\ None \notin Limiters \union Keys
    /\ Alone \notin Keys \union {None}
    /\ IsFiniteSet(Limiters)

VARIABLES
    limiterOf,   \* limiters: key -> the limiter, or None
    madeFor,     \* the key a limiter was made for, None if not made yet, or
                 \* Alone if it is used on its own
    seeking,     \* per caller: the key it did not find in try_acquire, or None
    removals     \* history: how often each key was removed

keyedVars == <<limiterOf, madeFor, seeking, removals>>
vars == <<rateVars, keyedVars>>

KeyedInit ==
    /\ Init
    /\ limiterOf = [k \in Keys |-> None]
    /\ madeFor \in {[l \in Limiters |-> None], [l \in Limiters |-> Alone]}
    /\ seeking = [c \in Callers |-> None]
    /\ removals = [k \in Keys |-> 0]

-----------------------------------------------------------------------------

\* A new limiter for k.
Make(k, l) ==
    /\ madeFor[l] = None
    /\ madeFor' = [madeFor EXCEPT ![l] = k]
    /\ limiterOf' = [limiterOf EXCEPT ![k] = l]

\* entry(key).or_insert_with(...), under the write lock: l is the key's limiter,
\* a new one if the key has none.  A slip would insert without looking again.
Insert(k, l) == Make(k, l)
Entry(k, l) ==
    \/ l = limiterOf[k] /\ UNCHANGED <<limiterOf, madeFor>>
    \/ limiterOf[k] = None /\ Make(k, l)

Free(c) == caller[c] = "idle" /\ seeking[c] = None

\* try_acquire(key, n) with the read lock: the key's limiter decides ...
TryHit(c, k, n) ==
    /\ Free(c)
    /\ limiterOf[k] # None
    /\ TryAcquire(limiterOf[k], n)
    /\ UNCHANGED keyedVars

\* ... or there is none, and the lock is released ...
TryMiss(c, k) ==
    /\ Free(c)
    /\ limiterOf[k] = None
    /\ seeking' = [seeking EXCEPT ![c] = k]
    /\ UNCHANGED <<rateVars, limiterOf, madeFor, removals>>

\* ... for the write lock: others may have made it, or removed it, meanwhile.
TryInsert(c, n) ==
    /\ seeking[c] # None
    /\ \E l \in Limiters : Entry(seeking[c], l) /\ TryAcquire(l, n)
    /\ seeking' = [seeking EXCEPT ![c] = None]
    /\ UNCHANGED removals

\* acquire(key, n, timeout) looks the limiter up, or makes it, and waits on it.
AcquireKey(c, k, n, timeout) ==
    /\ Free(c)
    /\ \E l \in Limiters : Entry(k, l) /\ Acquire(c, l, n, timeout)
    /\ UNCHANGED <<seeking, removals>>

\* remove_key, and clear, which removes every key.
Remove(keys) ==
    /\ \E k \in keys : limiterOf[k] # None
    /\ limiterOf' = [k \in Keys |-> IF k \in keys THEN None ELSE limiterOf[k]]
    /\ removals' = [k \in Keys |-> IF k \in keys /\ limiterOf[k] # None
                                   THEN removals[k] + 1 ELSE removals[k]]
    /\ UNCHANGED <<rateVars, madeFor, seeking>>

\* The operations of a limiter on its own, without keys.  Such limiters have
\* nothing in common: KeyedNext follows one of them.
Direct(l) ==
    /\ madeFor[l] = Alone
    /\ \/ \E n \in Wants : TryAcquire(l, n)
       \/ AvailableTokens(l)
       \/ Reset(l)
       \/ \E c \in Callers, n \in Wants, t \in Timeouts : Acquire(c, l, n, t)

KeyedNext ==
    \/ \E c \in Callers, k \in Keys :
          \/ \E n \in Wants : TryHit(c, k, n)
          \/ TryMiss(c, k)
          \/ \E n \in Wants, t \in Timeouts : AcquireKey(c, k, n, t)
    \/ \E c \in Callers, n \in Wants : TryInsert(c, n)
    \/ \E k \in Keys : Remove({k})
    \/ Remove(Keys)
    \/ Direct(AnyLimiter) /\ UNCHANGED keyedVars
    \/ (\E c \in Callers : CallerGoesOn(c)) /\ UNCHANGED keyedVars
    \/ Tick /\ UNCHANGED keyedVars

KeyedSpec == KeyedInit /\ [][KeyedNext]_vars

\* Time passes, and a task whose sleep has ended runs.
Fairness ==
    /\ WF_vars(Tick /\ UNCHANGED keyedVars)
    /\ \A c \in Callers :
          /\ WF_vars((AcquireOk(c) \/ AcquireRefused(c)) /\ UNCHANGED keyedVars)
          /\ WF_vars((AcquireTimeout(c) \/ Sleep(c)) /\ UNCHANGED keyedVars)
          /\ WF_vars(Wake(c) /\ UNCHANGED keyedVars)

FairSpec == KeyedSpec /\ Fairness

-----------------------------------------------------------------------------
(* Properties. *)

LimitersOf(k) == {l \in Limiters : madeFor[l] = k}

\* The shares granted to k, each one the i-th of its limiter.
SharesOf(k) == UNION {{l} \X (1 .. granted[l]) : l \in LimitersOf(k)}

\* A key gets the rate of one bucket, once more for every time it was removed,
\* however calls that find no limiter race to make one, and although a caller
\* may still wait on a limiter that was removed (rate_limiter.rs:218-275).
KeyRateRespected ==
    \A k \in Keys, a \in {allowance[l] : l \in Limiters} :
        Cardinality(SharesOf(k)) <= (1 + removals[k]) * a

\* Every acquire ends: it is granted, or times out, or its caller drops it.
\* Only the division by refill_amount as u32, when that is 0, ends it by a
\* panic (rate_limiter.rs:150-172).
AcquireReturns ==
    \A c \in Callers :
        caller[c] = "trying"
            ~> caller[c] = "idle" \/ (caller[c] = "panicked" /\ Divisor = 0)

=============================================================================
