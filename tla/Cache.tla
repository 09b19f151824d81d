-------------------------------- MODULE Cache --------------------------------
(***************************************************************************)
(* The cache of pooling/cache.rs: a map of entries with a time to live, a  *)
(* queue of keys in the order of their use, and eviction from the front of *)
(* the queue.  get, insert, remove and prune_expired hold the lock of the  *)
(* map throughout and are one step each; clear takes the two locks one     *)
(* after the other and is two, the second of which may fall into an insert *)
(* that evicts.  get_or_insert_with is a get and, later, an insert.  Ages  *)
(* are in ticks, up to the first one past the time to live.                *)
(***************************************************************************)
EXTENDS Integers, FiniteSets, Sequences, SequencesExt, Counting

CONSTANTS
    Keys,
    Capacity,   \* config.capacity
    Ttl,        \* config.ttl in ticks, or Absent
    LruModes,   \* the values of config.enable_lru considered
    MaxOrder,   \* bound: length of lru_order
    MaxClears,  \* bound: calls of clear in progress
    Absent      \* Option::None; not a number

ASSUME ConfigAssumption ==
    /\ IsFiniteSet(Keys)
    /\ Capacity \in Nat /\ Ttl \in Nat \union {Absent}
    /\ LruModes \subseteq BOOLEAN
    /\ MaxOrder \in Nat /\ MaxClears \in Nat
    /\ Absent \notin Nat

VARIABLES
    enableLru,  \* config.enable_lru
    entries,    \* the age of each key's entry, Absent for a key without one
    lru,        \* lru_order, its front first
    clearing,   \* calls of clear between their two locks
    overtaken   \* history: cached keys inserted while a clear was under way

cacheVars == <<enableLru, entries, lru, clearing, overtaken>>

-----------------------------------------------------------------------------

Ages == IF Ttl = Absent THEN {0} ELSE 0 .. Ttl + 1

Cached == {k \in Keys : entries[k] # Absent}

CacheTypeOK ==
    /\ enableLru \in LruModes
    /\ entries \in [Keys -> Ages \union {Absent}]
    /\ lru \in Seq(Keys) /\ Len(lru) <= MaxOrder
    /\ clearing \in 0 .. MaxClears
    /\ overtaken \subseteq Keys

CacheInit ==
    /\ enableLru \in LruModes
    /\ entries = [k \in Keys |-> Absent]
    /\ lru = <<>>
    /\ clearing = 0
    /\ overtaken = {}

\* CacheEntry::is_expired; there is nothing to expire without a ttl.
IsExpired(k) == Ttl # Absent /\ entries[k] = Ttl + 1

-----------------------------------------------------------------------------
(* The decisions of the code, each with the form a slip would give it. *)

\* remove and prune_expired drop the first occurrence of a key.
FirstPlaces(ks) ==
    {i \in DOMAIN lru : lru[i] \in ks /\ \A j \in 1 .. i - 1 : lru[j] # lru[i]}
Unlisted(ks) == Kept(lru, DOMAIN lru \ FirstPlaces(ks))

\* get moves the key to the back of lru_order, if it is there.
TakenOut(k) == Unlisted({k})
MovedToBack(k) == IF Contains(lru, k) THEN Append(Unlisted({k}), k) ELSE lru

\* insert makes room for a new key when the map is full.
OverFull(k) == Cardinality(Cached) > Capacity /\ k \notin Cached
MustEvict(k) == Cardinality(Cached) >= Capacity /\ k \notin Cached

-----------------------------------------------------------------------------

\* get finds an entry that has not expired: touch, and a new place in the order.
GetHit(k) ==
    /\ k \in Cached /\ ~IsExpired(k)
    /\ lru' = IF enableLru THEN MovedToBack(k) ELSE lru
    /\ UNCHANGED <<enableLru, entries, clearing, overtaken>>

\* get finds an expired entry and removes it from the map, not from lru_order.
\* A get that finds nothing changes nothing.
GetExpired(k) ==
    /\ k \in Cached /\ IsExpired(k)
    /\ entries' = [entries EXCEPT ![k] = Absent]
    /\ overtaken' = overtaken \ {k}
    /\ UNCHANGED <<enableLru, lru, clearing>>

\* evict_one: the front of lru_order, which may have no entry or not exist; an
\* arbitrary entry (the map's first) when LRU is disabled.
Victims ==
    IF enableLru THEN IF lru = <<>> THEN {} ELSE {Head(lru)}
                 ELSE Cached

OrderAfterEviction == IF enableLru /\ lru # <<>> THEN Tail(lru) ELSE lru

\* insert, after the eviction of the keys gone (at most one) if it is called for.
InsertWithout(k, gone, order) ==
    /\ entries' = [j \in Keys |-> IF j = k THEN 0
                                  ELSE IF j \in gone THEN Absent ELSE entries[j]]
    /\ lru' = IF enableLru THEN Append(order, k) ELSE lru
    /\ overtaken' = (overtaken \ (gone \union {k}))
                      \union (IF clearing > 0 THEN {k} ELSE {})

Insert(k) ==
    /\ Len(lru) < MaxOrder
    /\ ~MustEvict(k)
    /\ InsertWithout(k, {}, lru)
    /\ UNCHANGED <<enableLru, clearing>>

InsertEvicting(k) ==
    /\ Len(lru) < MaxOrder
    /\ MustEvict(k)
    /\ IF Victims = {}
       THEN InsertWithout(k, {}, OrderAfterEviction)
       ELSE \E v \in Victims : InsertWithout(k, {v}, OrderAfterEviction)
    /\ UNCHANGED <<enableLru, clearing>>

\* The same when the second half of a clear comes between the two times that
\* insert takes the lock of lru_order.
InsertAcrossClear(k) ==
    /\ enableLru /\ lru # <<>>
    /\ MustEvict(k)
    /\ clearing > 0
    /\ InsertWithout(k, Victims, <<>>)
    /\ clearing' = clearing - 1
    /\ UNCHANGED enableLru

\* The removal of the entries of ks, with their first places in lru_order.
Drop(ks) ==
    /\ entries' = [k \in Keys |-> IF k \in ks THEN Absent ELSE entries[k]]
    /\ lru' = IF enableLru THEN Unlisted(ks) ELSE lru
    /\ overtaken' = overtaken \ ks
    /\ UNCHANGED <<enableLru, clearing>>

RemoveKey(k) == k \in Cached /\ Drop({k})

PruneExpired ==
    /\ \E k \in Cached : IsExpired(k)
    /\ Drop({k \in Cached : IsExpired(k)})

\* clear empties the map and lets go of its lock ...
ClearEntries ==
    /\ clearing < MaxClears
    /\ entries' = [k \in Keys |-> Absent]
    /\ overtaken' = {}
    /\ clearing' = IF enableLru THEN clearing + 1 ELSE clearing
    /\ UNCHANGED <<enableLru, lru>>

\* ... and then empties lru_order.
ClearOrder ==
    /\ clearing > 0
    /\ lru' = <<>>
    /\ clearing' = clearing - 1
    /\ UNCHANGED <<enableLru, entries, overtaken>>

\* Time passes: every entry gets older.
Tick ==
    /\ Ttl # Absent
    /\ entries' = [k \in Keys |-> IF k \notin Cached \/ IsExpired(k)
                                  THEN entries[k] ELSE entries[k] + 1]
    /\ UNCHANGED <<enableLru, lru, clearing, overtaken>>

CacheNext ==
    \/ \E k \in Keys : \/ GetHit(k) \/ GetExpired(k) \/ Insert(k)
                       \/ InsertEvicting(k) \/ InsertAcrossClear(k)
                       \/ RemoveKey(k)
    \/ PruneExpired
    \/ ClearEntries
    \/ ClearOrder
    \/ Tick

CacheSpec == CacheInit /\ [][CacheNext]_cacheVars

-----------------------------------------------------------------------------
(* Properties. *)

\* Every entry has a place in lru_order, so that eviction can reach it; only an
\* insert that overtook a clear between its two locks may have lost its place
\* (cache.rs:106-231).
EntriesListed ==
    enableLru => \A k \in Cached \ overtaken : Contains(lru, k)

\* Without LRU the map never exceeds the capacity: eviction always removes an
\* entry.  (A capacity of 0 still holds one entry.)
CapacityWithoutLru ==
    ~enableLru => Cardinality(Cached) <= IF Capacity = 0 THEN 1 ELSE Capacity

-----------------------------------------------------------------------------
(* A statement of the source's comments that does not hold with LRU. *)

\* cache.rs:11, "Maximum number of entries".
CapacityRespected == Cardinality(Cached) <= Capacity

=============================================================================
