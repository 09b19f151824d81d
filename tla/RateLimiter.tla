----------------------------- MODULE RateLimiter -----------------------------
(***************************************************************************)
(* The token buckets of stability/rate_limiter.rs: any number of limiters  *)
(* of one configuration.  Time is in ticks, and tokens are counted in the  *)
(* share of one that a tick is worth per unit of refill_amount: a whole    *)
(* token is RefillInterval shares, so refilling is exact (the code's       *)
(* floating point rounds it).  A step is one critical section of a         *)
(* bucket's mutex, or one turn of the loop of acquire.                     *)
(***************************************************************************)
EXTENDS Integers

CONSTANTS
    Limiters,         \* instances of RateLimiter
    Callers,          \* tasks in acquire
    Wants,            \* the numbers of tokens asked for
    Timeouts,         \* the timeouts given to acquire, in ticks
    Capacity,
    RefillAmounts,    \* the values of config.refill_amount considered
    RefillInterval,   \* in ticks
    U32,              \* 2^32 in the code: acquire truncates refill_amount to u32
    MaxAllowance      \* bound: what the observed window may allow

ASSUME ConfigAssumption ==
    /\ Wants \subseteq Nat /\ Timeouts \subseteq Nat
    /\ Capacity \in Nat /\ RefillAmounts \subseteq Nat
    /\ Limiters # {}
    /\ RefillInterval \in Nat \ {0} /\ U32 \in Nat \ {0}
    /\ MaxAllowance \in Nat

Full    == Capacity * RefillInterval  \* the bucket's capacity, in shares
Cost(n) == n * RefillInterval         \* n tokens, in shares

VARIABLES
    refillAmount, \* config.refill_amount
    tokens,    \* shares in each bucket, as of last_refill
    earned,    \* shares that the time since last_refill is worth, as far as the
               \* bucket has room for them
    caller,    \* where each caller is
    using,     \* the limiter it uses
    want,      \* the tokens it wants
    left,      \* ticks until its deadline
    nap,       \* ticks until its sleep ends
    granted,   \* history: shares each limiter granted in the observed window
    allowance  \* history: shares that the window may grant

bucketVars == <<tokens, earned, granted, allowance>>
callVars   == <<using, want, left, nap>>
rateVars   == <<refillAmount, bucketVars, caller, callVars>>

-----------------------------------------------------------------------------

AnyLimiter == CHOOSE l \in Limiters : TRUE

CallerPoints == {"idle", "trying", "refused", "sleeping", "panicked"}

Lesser(a, b) == IF a < b THEN a ELSE b

TypeOK ==
    /\ refillAmount \in RefillAmounts
    /\ tokens \in [Limiters -> 0 .. Full]
    /\ earned \in [Limiters -> 0 .. Full]
    /\ caller \in [Callers -> CallerPoints]
    /\ using \in [Callers -> Limiters]
    /\ want \in [Callers -> Wants \union {0}]
    /\ left \in [Callers -> Nat]
    /\ nap \in [Callers -> Nat]
    /\ granted \in [Limiters -> Nat] /\ allowance \in [Limiters -> Nat]

\* with_config: full buckets.
Init ==
    /\ refillAmount \in RefillAmounts
    /\ tokens = [l \in Limiters |-> Full] /\ earned = [l \in Limiters |-> 0]
    /\ caller = [c \in Callers |-> "idle"]
    /\ using = [c \in Callers |-> AnyLimiter]
    /\ want = [c \in Callers |-> 0]
    /\ left = [c \in Callers |-> 0] /\ nap = [c \in Callers |-> 0]
    /\ granted = [l \in Limiters |-> 0] /\ allowance = [l \in Limiters |-> Full]

-----------------------------------------------------------------------------
(* The decisions of the code, each with the form a slip would give it. *)

\* refill_tokens: the tokens of the elapsed time are added, up to capacity.
Refilled(l) == Lesser(tokens[l] + earned[l], Full)

\* last_refill = now, so that no time counts twice.
RefillTimeKept(l) == earned[l]
RefillTimeReset(l) == 0

\* acquire gives up once the deadline has passed.
NeverGivesUp(c) == FALSE
DeadlinePassed(c) == left[c] = 0

-----------------------------------------------------------------------------
(* try_acquire(n) of limiter l, refill included. *)

\* The bucket after a refill, with t shares in it.
Holds(l, t) ==
    /\ tokens' = [tokens EXCEPT ![l] = t]
    /\ earned' = [earned EXCEPT ![l] = RefillTimeReset(l)]

Granted(l, n) ==
    /\ Refilled(l) >= Cost(n)
    /\ Holds(l, Refilled(l) - Cost(n))
    /\ granted' = [granted EXCEPT ![l] = @ + Cost(n)]
    /\ UNCHANGED allowance

Refused(l, n) ==
    /\ Refilled(l) < Cost(n)
    /\ Holds(l, Refilled(l))
    /\ UNCHANGED <<granted, allowance>>

\* A direct call.
TryAcquire(l, n) ==
    /\ Granted(l, n) \/ Refused(l, n)
    /\ UNCHANGED <<refillAmount, caller, callVars>>

\* available_tokens also refills.
AvailableTokens(l) ==
    /\ Holds(l, Refilled(l))
    /\ UNCHANGED <<refillAmount, caller, callVars, granted, allowance>>

\* reset fills the bucket, and so allows a new burst.
Reset(l) ==
    /\ allowance[l] + Full <= MaxAllowance
    /\ tokens' = [tokens EXCEPT ![l] = Full] /\ earned' = [earned EXCEPT ![l] = 0]
    /\ allowance' = [allowance EXCEPT ![l] = @ + Full]
    /\ UNCHANGED <<refillAmount, caller, callVars, granted>>

-----------------------------------------------------------------------------
(* acquire. *)

Acquire(c, l, n, timeout) ==
    /\ caller[c] = "idle"
    /\ caller' = [caller EXCEPT ![c] = "trying"]
    /\ using' = [using EXCEPT ![c] = l]
    /\ want' = [want EXCEPT ![c] = n]
    /\ left' = [left EXCEPT ![c] = timeout]
    /\ UNCHANGED <<refillAmount, bucketVars, nap>>

\* The call is over, with a result or without.
Ends(c) ==
    /\ caller' = [caller EXCEPT ![c] = "idle"]
    /\ using' = [using EXCEPT ![c] = AnyLimiter]
    /\ want' = [want EXCEPT ![c] = 0]
    /\ left' = [left EXCEPT ![c] = 0]
    /\ nap' = [nap EXCEPT ![c] = 0]
    /\ UNCHANGED refillAmount

\* The loop's try_acquire succeeds: Ok(true).
AcquireOk(c) ==
    /\ caller[c] = "trying"
    /\ Granted(using[c], want[c])
    /\ Ends(c)

AcquireRefused(c) ==
    /\ caller[c] = "trying"
    /\ Refused(using[c], want[c])
    /\ caller' = [caller EXCEPT ![c] = "refused"]
    /\ UNCHANGED <<refillAmount, callVars>>

\* Err(Timeout), or the caller drops the future during its sleep.
AcquireTimeout(c) ==
    /\ caller[c] = "refused"
    /\ DeadlinePassed(c)
    /\ Ends(c)
    /\ UNCHANGED bucketVars

Cancel(c) ==
    /\ caller[c] = "sleeping"
    /\ Ends(c)
    /\ UNCHANGED bucketVars

\* refill_interval / (refill_amount as u32), which panics on a divisor of 0;
\* then a sleep of that time, or until the deadline.
Divisor == refillAmount % U32

Sleep(c) ==
    /\ caller[c] = "refused"
    /\ ~DeadlinePassed(c)
    /\ IF Divisor = 0
       THEN caller' = [caller EXCEPT ![c] = "panicked"] /\ UNCHANGED nap
       ELSE /\ caller' = [caller EXCEPT ![c] = "sleeping"]
            /\ nap' = [nap EXCEPT ![c] = Lesser(RefillInterval \div Divisor, left[c])]
    /\ UNCHANGED <<refillAmount, bucketVars, using, want, left>>

Wake(c) ==
    /\ caller[c] = "sleeping"
    /\ nap[c] = 0
    /\ caller' = [caller EXCEPT ![c] = "trying"]
    /\ UNCHANGED <<refillAmount, bucketVars, callVars>>

-----------------------------------------------------------------------------

\* A tick of the clock.  The history follows any window of time: it goes on, or
\* begins anew with a tick.
Sooner(f) == [c \in Callers |-> IF f[c] = 0 THEN 0 ELSE f[c] - 1]

Tick ==
    /\ earned' = [l \in Limiters |->
                    Lesser(earned[l] + refillAmount, Full - tokens[l])]
    /\ left' = Sooner(left) /\ nap' = Sooner(nap)
    /\ \/ /\ \A l \in Limiters : allowance[l] + refillAmount <= MaxAllowance
          /\ allowance' = [l \in Limiters |-> allowance[l] + refillAmount]
          /\ UNCHANGED granted
       \/ /\ allowance' = [l \in Limiters |-> Full]
          /\ granted' = [l \in Limiters |-> 0]
    /\ UNCHANGED <<refillAmount, tokens, caller, using, want>>

\* What a caller does once it has begun.
CallerGoesOn(c) ==
    \/ AcquireOk(c) \/ AcquireRefused(c) \/ AcquireTimeout(c) \/ Cancel(c)
    \/ Sleep(c) \/ Wake(c)

Next ==
    \/ \E l \in Limiters :
          \/ \E n \in Wants : TryAcquire(l, n)
          \/ AvailableTokens(l)
          \/ Reset(l)
          \/ \E c \in Callers, n \in Wants, t \in Timeouts : Acquire(c, l, n, t)
    \/ \E c \in Callers : CallerGoesOn(c)
    \/ Tick

Spec == Init /\ [][Next]_rateVars

-----------------------------------------------------------------------------
(* Properties. *)

\* In any window of time a limiter grants at most its burst capacity, once
\* more for every reset, and what the window's time is worth
\* (rate_limiter.rs:119-142), however calls of several tasks interleave.
RateRespected == \A l \in Limiters : granted[l] <= allowance[l]

=============================================================================
