---------------------------- MODULE PoolingProofs ----------------------------
(***************************************************************************)
(* Proofs about the components of pooling/, for any configuration:         *)
(* ConnectionPool, for any number of clients and connections,              *)
(* LoadBalancer, for any backends and callers, and Cache, for any keys.    *)
(***************************************************************************)
EXTENDS ConnectionPool, LoadBalancer, Cache, CountingProofs, SequenceTheorems

\* A client has a connection in hand exactly at the points that say so, and it
\* is not in the pool as well.
ConnInv ==
    \A c \in Clients :
        /\ conn[c] \in Ids <=> pc[c] \in CountedPoints
        /\ conn[c] \notin available

\* The same connection is never in two hands.
OwnerInv ==
    \A c, d \in Clients : conn[c] = conn[d] /\ conn[c] # None => c = d

IInv == /\ TypeOK /\ ConnInv /\ OwnerInv
        /\ PermitsAccounted /\ TotalExact /\ UsableBounded /\ ClosingBounded

-----------------------------------------------------------------------------
(* Counting. *)

\* The three counts of clients, and of idle connections, are natural numbers;
\* a client going for a connection owns a permit.
LEMMA CountTypes ==
    ASSUME TypeOK
    PROVE  /\ IsFiniteSet(DOMAIN pc) /\ DOMAIN pc = Clients
           /\ IsFiniteSet(available) /\ Cardinality(available) \in Nat
           /\ NumberExpired \in Nat /\ NumberExpired <= Cardinality(available)
           /\ PermitHolders \in Nat /\ CountedHolders \in Nat
           /\ ConnHolders \in Nat /\ ConnHolders <= PermitHolders
<1>1. IsFiniteSet(DOMAIN pc) /\ DOMAIN pc = Clients
    BY SetsAssumption DEF TypeOK
<1>2. IsFiniteSet(available)
    BY SetsAssumption, FS_Subset DEF TypeOK
<1>3. ConnPoints \subseteq PermitPoints
    BY DEF ConnPoints, PermitPoints
<1>4. NumberExpired \in Nat /\ NumberExpired <= Cardinality(available)
    <2> DEFINE gone == available \intersect expired
    <2>1. gone \subseteq available
        OBVIOUS
    <2> HIDE DEF gone
    <2>2. IsFiniteSet(gone) /\ Cardinality(gone) <= Cardinality(available)
        BY <1>2, <2>1, FS_Subset
    <2>3. Cardinality(gone) \in Nat
        BY <2>2, FS_CardinalityType
    <2> QED  BY <2>2, <2>3 DEF NumberExpired, gone
<1> QED  BY <1>1, <1>2, <1>3, <1>4, FS_CardinalityType, WhereFinite, WhereMonotone
         DEF PermitHolders, CountedHolders, ConnHolders

\* remove_expired never counts out more than there is, and leaves the
\* difference between total_connections and the idle ones as it was.
LEMMA RemoveExpired ==
    ASSUME TypeOK
    PROVE  /\ IsFiniteSet(Unexpired) /\ Cardinality(Unexpired) \in Nat
           /\ Cardinality(Unexpired) <= Cardinality(available)
           /\ total - TotalUnexpired
                = Cardinality(available) - Cardinality(Unexpired)
           /\ TotalUnexpired \in Int
<1> DEFINE gone == available \intersect expired
<1>1. IsFiniteSet(available)
    BY CountTypes
<1>2. /\ IsFiniteSet(Unexpired) /\ Cardinality(Unexpired) \in Nat
      /\ IsFiniteSet(gone) /\ Cardinality(gone) \in Nat
      /\ Cardinality(available) \in Nat
    BY <1>1, FS_Subset, FS_CardinalityType DEF Unexpired
<1>3. Cardinality(Unexpired)
        = Cardinality(available) - Cardinality(gone)
    BY <1>1, FS_Difference DEF Unexpired
<1>4. total \in Nat
    BY DEF TypeOK
<1>5. TotalUnexpired = total - Cardinality(gone)
    BY DEF TotalUnexpired, NumberExpired
<1> HIDE DEF gone
<1> QED  BY <1>2, <1>3, <1>4, <1>5

\* The three counts after client c has moved, for each move the code makes.
LEMMA ClientMove ==
    ASSUME TypeOK, NEW c \in Clients, NEW v \in Points,
           pc' = [pc EXCEPT ![c] = v]
    PROVE  /\ pc' \in [Clients -> Points]
           /\ PermitHolders' \in Nat /\ CountedHolders' \in Nat
           /\ ConnHolders' \in Nat /\ ConnHolders' <= PermitHolders'
           /\ pc[c] = "idle" /\ v = "permit" =>
                /\ PermitHolders' = PermitHolders + 1
                /\ CountedHolders' = CountedHolders
                /\ ConnHolders' = ConnHolders
           /\ pc[c] = "permit" /\ v = "validate" =>
                /\ PermitHolders' = PermitHolders
                /\ CountedHolders' = CountedHolders + 1
                /\ ConnHolders' = ConnHolders + 1
           /\ pc[c] = "permit" /\ v = "create" =>
                /\ PermitHolders' = PermitHolders
                /\ CountedHolders' = CountedHolders
                /\ ConnHolders' = ConnHolders + 1
           /\ pc[c] = "validate" /\ v = "held" =>
                /\ PermitHolders' = PermitHolders
                /\ CountedHolders' = CountedHolders
                /\ ConnHolders' = ConnHolders
           /\ pc[c] = "validate" /\ v = "replace" =>
                /\ PermitHolders' = PermitHolders
                /\ CountedHolders' = CountedHolders
                /\ ConnHolders' = ConnHolders
           /\ pc[c] = "create" /\ v = "held" =>
                /\ PermitHolders' = PermitHolders
                /\ CountedHolders' = CountedHolders + 1
                /\ ConnHolders' = ConnHolders
           /\ pc[c] = "replace" /\ v = "held" =>
                /\ PermitHolders' = PermitHolders
                /\ CountedHolders' = CountedHolders
                /\ ConnHolders' = ConnHolders
           /\ pc[c] = "create" /\ v = "idle" =>
                /\ PermitHolders' = PermitHolders - 1
                /\ CountedHolders' = CountedHolders
                /\ ConnHolders' = ConnHolders - 1
           /\ pc[c] \in {"validate", "replace"} /\ v = "idle" =>
                /\ PermitHolders' = PermitHolders - 1
                /\ CountedHolders' = CountedHolders - 1
                /\ ConnHolders' = ConnHolders - 1
           /\ pc[c] = "held" /\ v = "returning" =>
                /\ PermitHolders' = PermitHolders
                /\ CountedHolders' = CountedHolders - 1
                /\ ConnHolders' = ConnHolders - 1
           /\ pc[c] = "returning" /\ v = "idle" =>
                /\ PermitHolders' = PermitHolders - 1
                /\ CountedHolders' = CountedHolders
                /\ ConnHolders' = ConnHolders
<1>1. IsFiniteSet(DOMAIN pc) /\ c \in DOMAIN pc
    BY CountTypes
<1>2. pc' \in [Clients -> Points]
    BY DEF TypeOK
<1>3. ASSUME NEW S
      PROVE  /\ pc[c] \notin S /\ v \in S =>
                  Cardinality(Where(pc', S)) = Cardinality(Where(pc, S)) + 1
             /\ pc[c] \in S /\ v \notin S =>
                  Cardinality(Where(pc', S)) = Cardinality(Where(pc, S)) - 1
             /\ ((pc[c] \in S) <=> (v \in S)) =>
                  Cardinality(Where(pc', S)) = Cardinality(Where(pc, S))
    <2>1. CASE pc[c] \notin S /\ v \in S
        BY <1>1, <2>1, WhereEnter
    <2>2. CASE pc[c] \in S /\ v \notin S
        BY <1>1, <2>2, WhereLeave
    <2>3. CASE (pc[c] \in S) <=> (v \in S)
        BY <1>1, <2>3, WhereStay
    <2> QED  BY <2>1, <2>2, <2>3
<1>4. /\ pc[c] \notin PermitPoints /\ v \in PermitPoints =>
           PermitHolders' = PermitHolders + 1
      /\ pc[c] \in PermitPoints /\ v \notin PermitPoints =>
           PermitHolders' = PermitHolders - 1
      /\ ((pc[c] \in PermitPoints) <=> (v \in PermitPoints)) =>
           PermitHolders' = PermitHolders
    BY <1>3 DEF PermitHolders
<1>5. /\ pc[c] \notin CountedPoints /\ v \in CountedPoints =>
           CountedHolders' = CountedHolders + 1
      /\ pc[c] \in CountedPoints /\ v \notin CountedPoints =>
           CountedHolders' = CountedHolders - 1
      /\ ((pc[c] \in CountedPoints) <=> (v \in CountedPoints)) =>
           CountedHolders' = CountedHolders
    BY <1>3 DEF CountedHolders
<1>6. /\ pc[c] \notin ConnPoints /\ v \in ConnPoints =>
           ConnHolders' = ConnHolders + 1
      /\ pc[c] \in ConnPoints /\ v \notin ConnPoints =>
           ConnHolders' = ConnHolders - 1
      /\ ((pc[c] \in ConnPoints) <=> (v \in ConnPoints)) =>
           ConnHolders' = ConnHolders
    BY <1>3 DEF ConnHolders
<1>7. /\ PermitHolders' \in Nat /\ CountedHolders' \in Nat
      /\ ConnHolders' \in Nat /\ ConnHolders' <= PermitHolders'
    <2>1. IsFiniteSet(DOMAIN pc')
        BY <1>2, SetsAssumption
    <2>2. ConnPoints \subseteq PermitPoints
        BY DEF ConnPoints, PermitPoints
    <2> QED  BY <2>1, <2>2, WhereFinite, WhereMonotone
             DEF PermitHolders, CountedHolders, ConnHolders
<1> QED  BY <1>2, <1>4, <1>5, <1>6, <1>7
         DEF PermitPoints, CountedPoints, ConnPoints

\* One connection enters or leaves the pool.
LEMMA PoolChange ==
    ASSUME NEW A, IsFiniteSet(A), NEW i
    PROVE  /\ i \notin A => Cardinality(A \union {i}) = Cardinality(A) + 1
           /\ i \in A => Cardinality(A \ {i}) = Cardinality(A) - 1
           /\ i \in A => Cardinality(A) > 0
<1>1. i \notin A => Cardinality(A \union {i}) = Cardinality(A) + 1
    BY FS_AddElement
<1>2. i \in A => Cardinality(A \ {i}) = Cardinality(A) - 1
    BY FS_RemoveElement
<1>3. i \in A => A # {}
    OBVIOUS
<1>4. Cardinality(A) \in Nat /\ (Cardinality(A) = 0 <=> A = {})
    BY FS_CardinalityType, FS_EmptySet
<1> QED  BY <1>1, <1>2, <1>3, <1>4

-----------------------------------------------------------------------------
(* Every step preserves the invariant. *)

\* What is to be closed comes out of the pool in one piece.
LEMMA ClosingStep ==
    ASSUME IInv, [Next]_vars
    PROVE  closing' \in [Closers -> Nat] /\ ClosingBounded'
<1> USE DEF IInv, ClosingBounded
<1>0. /\ closing \in [Closers -> Nat] /\ Clients \subseteq Closers
      /\ "prune" \in Closers /\ "shutdown" \in Closers
    BY DEF TypeOK, Closers
<1>1. /\ Cardinality(available) \in Nat /\ NumberExpired \in Nat
      /\ NumberExpired <= Cardinality(available)
      /\ Cardinality(available) <= MaxSize + MinSize
      /\ MaxSize + MinSize \in Nat
    <2>1. needed \in Nat /\ ConnHolders \in Nat /\ Cardinality(available) \in Nat
        BY CountTypes, SizesAssumption DEF TypeOK
    <2> QED  BY <2>1, CountTypes, SizesAssumption DEF UsableBounded
<1>2. ASSUME NEW a \in Closers, NEW n \in Nat, n <= MaxSize + MinSize,
             closing' = [closing EXCEPT ![a] = n]
      PROVE  closing' \in [Closers -> Nat] /\ ClosingBounded'
    BY <1>0, <1>2
<1>3. ASSUME NEW c \in Clients, ClientNext(c)
      PROVE  \/ UNCHANGED closing
             \/ closing' = [closing EXCEPT ![c] = NumberExpired]
             \/ closing' = [closing EXCEPT ![c] = 0]
    BY <1>3 DEF ClientNext, AcquirePermit, FindNone, Valid, Invalid, CreateErr,
                CancelAcquire, GuardDrop, GuardRelease, Reuse, CreateOk
<1>4. CASE \E c \in Clients : ClientNext(c)
    <2>1. PICK c \in Clients : ClientNext(c)
        BY <1>4
    <2> QED  BY <1>0, <1>1, <1>2, <1>3, <2>1
<1>5. CASE PruneScan \/ Shutdown
    <2>1. \/ closing' = [closing EXCEPT !["prune"] = NumberExpired]
          \/ closing' = [closing EXCEPT !["shutdown"] = Cardinality(available)]
        BY <1>5 DEF PruneScan, Shutdown
    <2> QED  BY <1>0, <1>1, <1>2, <2>1
<1>6. ASSUME NEW a \in Closers, Close(a)
      PROVE  closing' \in [Closers -> Nat] /\ ClosingBounded'
    <2>1. closing[a] \in Nat /\ closing[a] > 0
          /\ closing' = [closing EXCEPT ![a] = closing[a] - 1]
        BY <1>0, <1>6 DEF Close
    <2>2. closing[a] - 1 \in Nat /\ closing[a] - 1 <= MaxSize + MinSize
        BY <1>1, <2>1
    <2> QED  BY <1>2, <2>1, <2>2
<1>7. CASE \/ PruneCreateErr \/ PruneDone \/ \E i \in Ids : PruneCreateOk(i)
           \/ \E i \in Ids : Expire(i)
           \/ UNCHANGED vars
    BY <1>0, <1>7 DEF PruneCreateErr, PruneDone, PruneCreateOk, Expire, vars
<1> QED  BY <1>4, <1>5, <1>6, <1>7 DEF Next, MaintenanceNext

LEMMA InitInv == Init => IInv
<1> SUFFICES ASSUME Init PROVE IInv
    OBVIOUS
<1>1. TypeOK /\ ConnInv /\ OwnerInv
    BY SizesAssumption, SetsAssumption
       DEF Init, TypeOK, ConnInv, OwnerInv, Points, CountedPoints
<1>a. ClosingBounded
    BY SizesAssumption DEF Init, ClosingBounded
<1>2. PermitHolders = 0 /\ CountedHolders = 0 /\ ConnHolders = 0
    BY WhereNone
       DEF Init, PermitPoints, CountedPoints, ConnPoints, PermitHolders,
           CountedHolders, ConnHolders
<1>3. Cardinality(available) = 0
    BY FS_EmptySet DEF Init
<1>4. permits = MaxSize /\ total = 0 /\ needed = 0 /\ lost = 0
    BY DEF Init
<1> QED  BY <1>1, <1>a, <1>2, <1>3, <1>4, SizesAssumption
         DEF IInv, PermitsAccounted, TotalExact, UsableBounded

LEMMA ClientStep ==
    ASSUME IInv, NEW c \in Clients, ClientNext(c),
           closing' \in [Closers -> Nat], ClosingBounded'
    PROVE  IInv'
<1> USE DEF IInv
<1> DEFINE Counts == PermitsAccounted' /\ TotalExact' /\ UsableBounded'
<1>0. /\ permits \in Nat /\ total \in Nat /\ lost \in Nat /\ needed \in Nat
      /\ needed <= MinSize /\ permits <= MaxSize
      /\ MinSize \in Nat /\ MaxSize \in Nat /\ MaxLost \in Nat
    BY SizesAssumption DEF TypeOK
<1>1. CASE AcquirePermit(c)
    <2>1. pc[c] = "idle" /\ pc' = [pc EXCEPT ![c] = "permit"]
        BY <1>1 DEF AcquirePermit
    <2>2. {"idle", "permit"} \subseteq Points
        BY DEF Points, PermitPoints
    <2>3. /\ pc' \in [Clients -> Points]
          /\ PermitHolders' = PermitHolders + 1
          /\ CountedHolders' = CountedHolders
          /\ ConnHolders' = ConnHolders
          /\ PermitHolders' \in Nat /\ ConnHolders' <= PermitHolders'
        BY <2>1, <2>2, ClientMove
    <2>4. Counts /\ permits' \in 0 .. MaxSize
        BY <1>0, <1>1, <2>3, CountTypes
           DEF AcquirePermit, PermitsAccounted, TotalExact, UsableBounded
    <2>5. ConnInv' /\ OwnerInv'
        BY <1>1, <2>1, SetsAssumption
           DEF AcquirePermit, TypeOK, ConnInv, OwnerInv, CountedPoints
    <2> QED  BY <1>1, <2>3, <2>4, <2>5 DEF AcquirePermit, TypeOK
<1>2. ASSUME NEW i \in Ids, Reuse(c, i) PROVE IInv'
    <2>1. pc[c] = "permit" /\ pc' = [pc EXCEPT ![c] = "validate"]
        BY <1>2 DEF Reuse
    <2>2. {"permit", "validate"} \subseteq Points
        BY DEF Points, PermitPoints
    <2>3. /\ pc' \in [Clients -> Points]
          /\ PermitHolders' = PermitHolders
          /\ CountedHolders' = CountedHolders + 1
          /\ ConnHolders' = ConnHolders + 1
          /\ PermitHolders' \in Nat /\ ConnHolders' <= PermitHolders'
        BY <2>1, <2>2, ClientMove
    <2>6. /\ Cardinality(available') = Cardinality(Unexpired) - 1
          /\ Cardinality(Unexpired) > 0
        BY <1>2, RemoveExpired, PoolChange DEF Reuse
    <2>4. Counts /\ total' \in Nat
        BY <1>0, <1>2, <2>3, <2>6, RemoveExpired, CountTypes
           DEF Reuse, PermitsAccounted, TotalExact, UsableBounded
    <2>5. ConnInv' /\ OwnerInv'
        BY <1>2, <2>1, SetsAssumption
           DEF Reuse, Unexpired, TypeOK, ConnInv, OwnerInv, CountedPoints
    <2> QED  BY <1>2, <2>3, <2>4, <2>5, <2>6 DEF Reuse, Unexpired, TypeOK
<1>3. CASE FindNone(c)
    <2>1. pc[c] = "permit" /\ pc' = [pc EXCEPT ![c] = "create"]
        BY <1>3 DEF FindNone
    <2>2. {"permit", "create"} \subseteq Points
        BY DEF Points, PermitPoints
    <2>3. /\ pc' \in [Clients -> Points]
          /\ PermitHolders' = PermitHolders
          /\ CountedHolders' = CountedHolders
          /\ ConnHolders' = ConnHolders + 1
          /\ PermitHolders' \in Nat /\ ConnHolders' <= PermitHolders'
        BY <2>1, <2>2, ClientMove
    <2>6. Cardinality(Unexpired) = 0 /\ Cardinality(available') = 0
        BY <1>3, FS_EmptySet DEF FindNone
    <2>4. Counts /\ total' \in Nat
        BY <1>0, <1>3, <2>3, <2>6, RemoveExpired, CountTypes
           DEF FindNone, PermitsAccounted, TotalExact, UsableBounded
    <2>5. ConnInv' /\ OwnerInv'
        BY <1>3, <2>1, SetsAssumption
           DEF FindNone, TypeOK, ConnInv, OwnerInv, CountedPoints
    <2> QED  BY <1>3, <2>3, <2>4, <2>5, <2>6 DEF FindNone, TypeOK
<1>4. CASE Valid(c)
    <2>1. pc[c] = "validate" /\ pc' = [pc EXCEPT ![c] = "held"]
        BY <1>4 DEF Valid
    <2>2. {"validate", "held"} \subseteq Points
        BY DEF Points, PermitPoints
    <2>3. /\ pc' \in [Clients -> Points]
          /\ PermitHolders' = PermitHolders
          /\ CountedHolders' = CountedHolders
          /\ ConnHolders' = ConnHolders
          /\ PermitHolders' \in Nat /\ ConnHolders' <= PermitHolders'
        BY <2>1, <2>2, ClientMove
    <2>4. Counts
        BY <1>0, <1>4, <2>3, CountTypes
           DEF Valid, PermitsAccounted, TotalExact, UsableBounded
    <2>5. ConnInv' /\ OwnerInv'
        BY <1>4, <2>1, SetsAssumption
           DEF Valid, TypeOK, ConnInv, OwnerInv, CountedPoints
    <2> QED  BY <1>4, <2>3, <2>4, <2>5 DEF Valid, TypeOK
<1>5. CASE Invalid(c)
    <2>1. pc[c] = "validate" /\ pc' = [pc EXCEPT ![c] = "replace"]
        BY <1>5 DEF Invalid
    <2>2. {"validate", "replace"} \subseteq Points
        BY DEF Points, PermitPoints
    <2>3. /\ pc' \in [Clients -> Points]
          /\ PermitHolders' = PermitHolders
          /\ CountedHolders' = CountedHolders
          /\ ConnHolders' = ConnHolders
          /\ PermitHolders' \in Nat /\ ConnHolders' <= PermitHolders'
        BY <2>1, <2>2, ClientMove
    <2>4. Counts
        BY <1>0, <1>5, <2>3, CountTypes
           DEF Invalid, PermitsAccounted, TotalExact, UsableBounded
    <2>5. ConnInv' /\ OwnerInv'
        BY <1>5, <2>1, SetsAssumption
           DEF Invalid, TypeOK, ConnInv, OwnerInv, CountedPoints
    <2> QED  BY <1>5, <2>3, <2>4, <2>5 DEF Invalid, TypeOK
<1>6. ASSUME NEW i \in Ids, CreateOk(c, i), pc[c] = "create" PROVE IInv'
    <2>1. pc[c] = "create" /\ pc' = [pc EXCEPT ![c] = "held"]
        BY <1>6 DEF CreateOk
    <2>2. {"create", "held"} \subseteq Points
        BY DEF Points, PermitPoints
    <2>3. /\ pc' \in [Clients -> Points]
          /\ PermitHolders' = PermitHolders
          /\ CountedHolders' = CountedHolders + 1
          /\ ConnHolders' = ConnHolders
          /\ PermitHolders' \in Nat /\ ConnHolders' <= PermitHolders'
        BY <2>1, <2>2, ClientMove
    <2>6. Cardinality({conn[c]} \ {None}) = 0
        <3>1. {conn[c]} \ {None} = {}
            BY <2>1 DEF ConnInv, TypeOK, CountedPoints
        <3> QED  BY <3>1, FS_EmptySet
    <2>7. i \notin available /\ \A d \in Clients : conn[d] # i
        BY <1>6, SetsAssumption DEF CreateOk, Open, InHand
    <2>4. Counts /\ total' \in Nat /\ lost' \in 0 .. MaxLost
        BY <1>0, <1>6, <2>3, <2>6, CountTypes
           DEF CreateOk, Lose, TotalUp, PermitsAccounted, TotalExact, UsableBounded
    <2>5. ConnInv' /\ OwnerInv'
        BY <1>6, <2>1, <2>7, SetsAssumption
           DEF CreateOk, TypeOK, ConnInv, OwnerInv, CountedPoints
    <2> QED  BY <1>6, <2>3, <2>4, <2>5, <2>7 DEF CreateOk, TypeOK
<1>7. ASSUME NEW i \in Ids, CreateOk(c, i), pc[c] = "replace" PROVE IInv'
    <2>1. pc[c] = "replace" /\ pc' = [pc EXCEPT ![c] = "held"]
        BY <1>7 DEF CreateOk
    <2>2. {"replace", "held"} \subseteq Points
        BY DEF Points, PermitPoints
    <2>3. /\ pc' \in [Clients -> Points]
          /\ PermitHolders' = PermitHolders
          /\ CountedHolders' = CountedHolders
          /\ ConnHolders' = ConnHolders
          /\ PermitHolders' \in Nat /\ ConnHolders' <= PermitHolders'
        BY <2>1, <2>2, ClientMove
    <2>6. Cardinality({conn[c]} \ {None}) = 1
        <3>1. {conn[c]} \ {None} = {conn[c]}
            BY <2>1, SetsAssumption DEF ConnInv, CountedPoints
        <3> QED  BY <3>1, FS_Singleton
    <2>7. i \notin available /\ \A d \in Clients : conn[d] # i
        BY <1>7, SetsAssumption DEF CreateOk, Open, InHand
    <2>4. Counts /\ total' \in Nat /\ lost' \in 0 .. MaxLost
        BY <1>0, <1>7, <2>3, <2>6, CountTypes
           DEF CreateOk, Lose, TotalUp, PermitsAccounted, TotalExact, UsableBounded
    <2>5. ConnInv' /\ OwnerInv'
        BY <1>7, <2>1, <2>7, SetsAssumption
           DEF CreateOk, TypeOK, ConnInv, OwnerInv, CountedPoints
    <2> QED  BY <1>7, <2>3, <2>4, <2>5, <2>7 DEF CreateOk, TypeOK
<1>8. CASE CreateErr(c) /\ pc[c] = "create"
    <2>1. pc[c] = "create" /\ pc' = [pc EXCEPT ![c] = "idle"]
        BY <1>8 DEF CreateErr
    <2>2. {"create", "idle"} \subseteq Points
        BY DEF Points, PermitPoints
    <2>3. /\ pc' \in [Clients -> Points]
          /\ PermitHolders' = PermitHolders - 1
          /\ CountedHolders' = CountedHolders
          /\ ConnHolders' = ConnHolders - 1
          /\ PermitHolders' \in Nat /\ ConnHolders' <= PermitHolders'
        BY <2>1, <2>2, ClientMove
    <2>6. Cardinality({conn[c]} \ {None}) = 0
        <3>1. {conn[c]} \ {None} = {}
            BY <2>1 DEF ConnInv, TypeOK, CountedPoints
        <3> QED  BY <3>1, FS_EmptySet
    <2>4. Counts /\ permits' \in 0 .. MaxSize /\ lost' \in 0 .. MaxLost
        BY <1>0, <1>8, <2>3, <2>6, CountTypes
           DEF CreateErr, Lose, PermitBack, PermitsAccounted, TotalExact, UsableBounded
    <2>5. ConnInv' /\ OwnerInv'
        BY <1>8, <2>1, SetsAssumption
           DEF CreateErr, TypeOK, ConnInv, OwnerInv, CountedPoints
    <2> QED  BY <1>8, <2>3, <2>4, <2>5 DEF CreateErr, TypeOK
<1>9. CASE CreateErr(c) /\ pc[c] = "replace"
    <2>1. pc[c] = "replace" /\ pc' = [pc EXCEPT ![c] = "idle"]
        BY <1>9 DEF CreateErr
    <2>2. {"replace", "idle"} \subseteq Points
        BY DEF Points, PermitPoints
    <2>3. /\ pc' \in [Clients -> Points]
          /\ PermitHolders' = PermitHolders - 1
          /\ CountedHolders' = CountedHolders - 1
          /\ ConnHolders' = ConnHolders - 1
          /\ PermitHolders' \in Nat /\ ConnHolders' <= PermitHolders'
        BY <2>1, <2>2, ClientMove
    <2>6. Cardinality({conn[c]} \ {None}) = 1
        <3>1. {conn[c]} \ {None} = {conn[c]}
            BY <2>1, SetsAssumption DEF ConnInv, CountedPoints
        <3> QED  BY <3>1, FS_Singleton
    <2>4. Counts /\ permits' \in 0 .. MaxSize /\ lost' \in 0 .. MaxLost
        BY <1>0, <1>9, <2>3, <2>6, CountTypes
           DEF CreateErr, Lose, PermitBack, PermitsAccounted, TotalExact, UsableBounded
    <2>5. ConnInv' /\ OwnerInv'
        BY <1>9, <2>1, SetsAssumption
           DEF CreateErr, TypeOK, ConnInv, OwnerInv, CountedPoints
    <2> QED  BY <1>9, <2>3, <2>4, <2>5 DEF CreateErr, TypeOK
<1>10. CASE GuardRelease(c)
    <2>1. pc[c] = "returning" /\ pc' = [pc EXCEPT ![c] = "idle"]
        BY <1>10 DEF GuardRelease
    <2>2. {"returning", "idle"} \subseteq Points
        BY DEF Points, PermitPoints
    <2>3. /\ pc' \in [Clients -> Points]
          /\ PermitHolders' = PermitHolders - 1
          /\ CountedHolders' = CountedHolders
          /\ ConnHolders' = ConnHolders
          /\ PermitHolders' \in Nat /\ ConnHolders' <= PermitHolders'
        BY <2>1, <2>2, ClientMove
    <2>4. Counts /\ permits' \in 0 .. MaxSize
        BY <1>0, <1>10, <2>3, CountTypes
           DEF GuardRelease, PermitBack, PermitsAccounted, TotalExact,
               UsableBounded
    <2>5. ConnInv' /\ OwnerInv'
        BY <1>10, <2>1, SetsAssumption
           DEF GuardRelease, TypeOK, ConnInv, OwnerInv, CountedPoints
    <2> QED  BY <1>10, <2>3, <2>4, <2>5 DEF GuardRelease, TypeOK
<1>11. CASE GuardDrop(c)
    <2>1. pc[c] = "held" /\ pc' = [pc EXCEPT ![c] = "returning"]
        BY <1>11 DEF GuardDrop
    <2>2. {"held", "returning"} \subseteq Points
        BY DEF Points, PermitPoints
    <2>3. /\ pc' \in [Clients -> Points]
          /\ PermitHolders' = PermitHolders
          /\ CountedHolders' = CountedHolders - 1
          /\ ConnHolders' = ConnHolders - 1
          /\ PermitHolders' \in Nat /\ ConnHolders' <= PermitHolders'
        BY <2>1, <2>2, ClientMove
    <2>6. conn[c] \in Ids /\ conn[c] \notin available
        BY <2>1 DEF ConnInv, CountedPoints
    <2>7. Cardinality(available') = Cardinality(available) + 1
        BY <1>11, <2>6, CountTypes, PoolChange DEF GuardDrop
    <2>4. Counts
        BY <1>0, <1>11, <2>3, <2>7, CountTypes
           DEF GuardDrop, PermitsAccounted, TotalExact, UsableBounded
    <2>5. ConnInv' /\ OwnerInv'
        BY <1>11, <2>1, <2>6, SetsAssumption
           DEF GuardDrop, TypeOK, ConnInv, OwnerInv, CountedPoints
    <2> QED  BY <1>11, <2>3, <2>4, <2>5, <2>6 DEF GuardDrop, TypeOK
<1>12. CASE CancelAcquire(c) /\ pc[c] = "create"
    <2>1. pc[c] = "create" /\ pc' = [pc EXCEPT ![c] = "idle"]
        BY <1>12 DEF CancelAcquire
    <2>2. {"create", "idle"} \subseteq Points
        BY DEF Points, PermitPoints
    <2>3. /\ pc' \in [Clients -> Points]
          /\ PermitHolders' = PermitHolders - 1
          /\ CountedHolders' = CountedHolders
          /\ ConnHolders' = ConnHolders - 1
          /\ PermitHolders' \in Nat /\ ConnHolders' <= PermitHolders'
        BY <2>1, <2>2, ClientMove
    <2>6. Cardinality({conn[c]} \ {None}) = 0
        <3>1. {conn[c]} \ {None} = {}
            BY <2>1 DEF ConnInv, TypeOK, CountedPoints
        <3> QED  BY <3>1, FS_EmptySet
    <2>4. Counts /\ permits' \in 0 .. MaxSize /\ lost' \in 0 .. MaxLost
        BY <1>0, <1>12, <2>3, <2>6, CountTypes
           DEF CancelAcquire, Lose, PermitBack, PermitsAccounted, TotalExact, UsableBounded
    <2>5. ConnInv' /\ OwnerInv'
        BY <1>12, <2>1, SetsAssumption
           DEF CancelAcquire, TypeOK, ConnInv, OwnerInv, CountedPoints
    <2> QED  BY <1>12, <2>3, <2>4, <2>5 DEF CancelAcquire, TypeOK
<1>13. CASE CancelAcquire(c) /\ pc[c] = "validate"
    <2>1. pc[c] = "validate" /\ pc' = [pc EXCEPT ![c] = "idle"]
        BY <1>13 DEF CancelAcquire
    <2>2. {"validate", "idle"} \subseteq Points
        BY DEF Points, PermitPoints
    <2>3. /\ pc' \in [Clients -> Points]
          /\ PermitHolders' = PermitHolders - 1
          /\ CountedHolders' = CountedHolders - 1
          /\ ConnHolders' = ConnHolders - 1
          /\ PermitHolders' \in Nat /\ ConnHolders' <= PermitHolders'
        BY <2>1, <2>2, ClientMove
    <2>6. Cardinality({conn[c]} \ {None}) = 1
        <3>1. {conn[c]} \ {None} = {conn[c]}
            BY <2>1, SetsAssumption DEF ConnInv, CountedPoints
        <3> QED  BY <3>1, FS_Singleton
    <2>4. Counts /\ permits' \in 0 .. MaxSize /\ lost' \in 0 .. MaxLost
        BY <1>0, <1>13, <2>3, <2>6, CountTypes
           DEF CancelAcquire, Lose, PermitBack, PermitsAccounted, TotalExact, UsableBounded
    <2>5. ConnInv' /\ OwnerInv'
        BY <1>13, <2>1, SetsAssumption
           DEF CancelAcquire, TypeOK, ConnInv, OwnerInv, CountedPoints
    <2> QED  BY <1>13, <2>3, <2>4, <2>5 DEF CancelAcquire, TypeOK
<1>14. CASE CancelAcquire(c) /\ pc[c] = "replace"
    <2>1. pc[c] = "replace" /\ pc' = [pc EXCEPT ![c] = "idle"]
        BY <1>14 DEF CancelAcquire
    <2>2. {"replace", "idle"} \subseteq Points
        BY DEF Points, PermitPoints
    <2>3. /\ pc' \in [Clients -> Points]
          /\ PermitHolders' = PermitHolders - 1
          /\ CountedHolders' = CountedHolders - 1
          /\ ConnHolders' = ConnHolders - 1
          /\ PermitHolders' \in Nat /\ ConnHolders' <= PermitHolders'
        BY <2>1, <2>2, ClientMove
    <2>6. Cardinality({conn[c]} \ {None}) = 1
        <3>1. {conn[c]} \ {None} = {conn[c]}
            BY <2>1, SetsAssumption DEF ConnInv, CountedPoints
        <3> QED  BY <3>1, FS_Singleton
    <2>4. Counts /\ permits' \in 0 .. MaxSize /\ lost' \in 0 .. MaxLost
        BY <1>0, <1>14, <2>3, <2>6, CountTypes
           DEF CancelAcquire, Lose, PermitBack, PermitsAccounted, TotalExact, UsableBounded
    <2>5. ConnInv' /\ OwnerInv'
        BY <1>14, <2>1, SetsAssumption
           DEF CancelAcquire, TypeOK, ConnInv, OwnerInv, CountedPoints
    <2> QED  BY <1>14, <2>3, <2>4, <2>5 DEF CancelAcquire, TypeOK
<1> QED  BY <1>1, <1>2, <1>3, <1>4, <1>5, <1>6, <1>7, <1>8, <1>9, <1>10,
            <1>11, <1>12, <1>13, <1>14
         DEF ClientNext, CreateOk, CreateErr, CancelAcquire

LEMMA PoolStep ==
    ASSUME IInv,
           \/ MaintenanceNext \/ Shutdown \/ \E i \in Ids : Expire(i)
           \/ \E a \in Closers : Close(a)
           \/ UNCHANGED vars,
           closing' \in [Closers -> Nat], ClosingBounded'
    PROVE  IInv'
<1> USE DEF IInv
<1> DEFINE Counts == PermitsAccounted' /\ TotalExact' /\ UsableBounded'
<1>0. /\ permits \in Nat /\ total \in Nat /\ lost \in Nat /\ needed \in Nat
      /\ needed <= MinSize
      /\ MinSize \in Nat /\ MaxSize \in Nat /\ MaxLost \in Nat
    BY SizesAssumption DEF TypeOK
<1>a. UNCHANGED pc => UNCHANGED <<PermitHolders, CountedHolders, ConnHolders>>
    BY DEF PermitHolders, CountedHolders, ConnHolders
<1>1. CASE PruneScan
    <2>1. /\ needed' \in 0 .. MinSize
          /\ Cardinality(available') + needed' <= MaxSize + MinSize
          /\ TotalUnexpired >= Cardinality(Unexpired)
          /\ needed' = 0 \/ needed' + TotalUnexpired = MinSize
        BY <1>0, <1>a, <1>1, CountTypes, RemoveExpired
           DEF PruneScan, Refill, TotalExact, UsableBounded
    <2>2. ConnHolders <= MaxSize
        BY <1>0, CountTypes DEF PermitsAccounted
    <2>3. PermitsAccounted' /\ TotalExact' /\ total' \in Nat
        BY <1>0, <1>a, <1>1, <2>1, CountTypes, RemoveExpired
           DEF PruneScan, PermitsAccounted, TotalExact
    <2>4. UsableBounded'
        <3>1. TotalUnexpired = Cardinality(Unexpired) + CountedHolders + lost
            BY <1>0, CountTypes, RemoveExpired DEF TotalExact
        <3>2. /\ available' = Unexpired /\ ConnHolders' = ConnHolders
              /\ needed' \in Nat
            BY <1>a, <1>1, <2>1 DEF PruneScan
        <3>3. CASE needed' = 0
            BY <1>0, <2>2, <3>2, <3>3, CountTypes, RemoveExpired DEF UsableBounded
        <3>4. CASE needed' + TotalUnexpired = MinSize
            BY <1>0, <2>2, <3>1, <3>2, <3>4, CountTypes, RemoveExpired
               DEF UsableBounded
        <3> QED  BY <2>1, <3>3, <3>4
    <2>5. Counts /\ total' \in Nat
        BY <2>3, <2>4
    <2> QED  BY <2>1, <2>5, <1>1 DEF PruneScan, TypeOK, ConnInv, OwnerInv, Unexpired
<1>2. ASSUME NEW i \in Ids, PruneCreateOk(i) PROVE IInv'
    <2>1. i \notin available /\ \A d \in Clients : conn[d] # i
        BY <1>2, SetsAssumption DEF PruneCreateOk, Open, InHand
    <2>2. Cardinality(available') = Cardinality(available) + 1
        BY <1>2, <2>1, CountTypes, PoolChange DEF PruneCreateOk
    <2>3. Counts /\ total' \in Nat /\ needed' \in 0 .. MinSize
        BY <1>0, <1>a, <1>2, <2>2, CountTypes
           DEF PruneCreateOk, TotalUp, PermitsAccounted, TotalExact,
               UsableBounded
    <2> QED  BY <2>1, <2>3, <1>2 DEF PruneCreateOk, TypeOK, ConnInv, OwnerInv
<1>3. CASE PruneCreateErr \/ PruneDone
    <2>1. Counts /\ needed' \in 0 .. MinSize
        BY <1>0, <1>a, <1>3, CountTypes
           DEF PruneCreateErr, PruneDone, PermitsAccounted, TotalExact,
               UsableBounded
    <2> QED  BY <2>1, <1>3
             DEF PruneCreateErr, PruneDone, TypeOK, ConnInv, OwnerInv
<1>4. CASE Shutdown
    <2>1. Cardinality(available') = 0
        BY <1>4, FS_EmptySet DEF Shutdown
    <2>2. Counts /\ total' \in Nat
        BY <1>0, <1>a, <1>4, <2>1, CountTypes
           DEF Shutdown, PermitsAccounted, TotalExact, UsableBounded
    <2> QED  BY <2>2, <1>4 DEF Shutdown, TypeOK, ConnInv, OwnerInv
<1>5. CASE \/ \E i \in Ids : Expire(i)
           \/ \E a \in Closers : Close(a)
           \/ UNCHANGED vars
    BY <1>5, <1>a DEF Expire, Close, vars, TypeOK, ConnInv, OwnerInv, PermitsAccounted,
                TotalExact, UsableBounded
<1> QED  BY <1>1, <1>2, <1>3, <1>4, <1>5 DEF MaintenanceNext

LEMMA PoolInvariant == Spec => []IInv
<1>1. IInv /\ [Next]_vars => IInv'
    BY ClientStep, PoolStep, ClosingStep DEF Next
<1> QED  BY InitInv, <1>1, PTL DEF Spec

\* No more than max_size + min_size connections are ever idle, in use or being
\* made, and no call has more than that to close: for any sizes and any number of
\* clients (connection_pool.rs:181-209, 259-281, 300-314).
THEOREM PoolTheorem == Spec => [](TypeOK /\ OpenBounded)
BY PoolInvariant, PTL DEF IInv, OpenBounded

\* The permits of the pool are conserved, whatever call is dropped where
\* (connection_pool.rs:168-221, 391-398).
THEOREM PoolPermitsTheorem == Spec => []PermitsAccounted
BY PoolInvariant, PTL DEF IInv

\* total_connections is exact up to the connections that were dropped
\* uncounted, and so never wraps (connection_pool.rs:230, 250, 306).
THEOREM PoolTotalTheorem == Spec => []TotalExact
BY PoolInvariant, PTL DEF IInv

-----------------------------------------------------------------------------
(* The load balancer of pooling/load_balancer.rs. *)

\* What is assumed of the constants, as the proofs use it.
LEMMA BalancerConstants ==
    /\ IsFiniteSet(States) /\ NoBackend \notin States
    /\ Initial \in Seq(States) /\ Distinct(Initial)
    /\ MaxFailures \in Nat /\ IndexCycle \in Nat \ {0}
    /\ \A n \in 1 .. Cardinality(States) : IndexCycle % n = 0
    /\ IsFiniteSet(Callers)
BY BackendsAssumption, BoundsAssumption, PartiesAssumption DEF Distinct

BalancerTypes ==
    /\ crew \in Crews /\ strategy \in Strategies
    /\ backends \in Seq(States) /\ added \subseteq States
    /\ healthy \in [States -> BOOLEAN]
    /\ active \in [States -> Int]
    /\ failures \in [States -> 0 .. MaxFailures]
    /\ index \in 0 .. IndexCycle - 1
    /\ client \in [Callers -> ClientPoints]
    /\ snapshot \in [Callers -> Seq(States)]
    /\ on \in [Callers -> States \union {NoBackend}]
    /\ checker \in [Checkers -> CheckerPoints]
    /\ target \in [Checkers -> States \union {NoBackend}]
    /\ picks \in [States -> Nat]

\* While a select reads the list, what it has found and what it has chosen are
\* in it; a guard is on a backend.
SelectInv ==
    \A c \in Callers :
        /\ client[c] = "filtered" =>
              snapshot[c] # <<>> /\ \A i \in 1 .. Len(snapshot[c]) :
                                       snapshot[c][i] \in Listed
        /\ client[c] = "chosen" => on[c] \in Listed
        /\ client[c] = "holding" => on[c] \in States

BalancerInv == BalancerTypes /\ SelectInv /\ ConnectionsExact

\* The list of healthy backends is made of listed ones.
LEMMA HealthyListed ==
    ASSUME BalancerTypes
    PROVE  /\ HealthyList \in Seq(States)
           /\ \A i \in 1 .. Len(HealthyList) :
                 HealthyList[i] \in Listed
<1> DEFINE P == {i \in DOMAIN backends : healthy[backends[i]]}
<1>1. backends \in Seq(States) /\ DOMAIN backends = 1 .. Len(backends)
    BY DEF BalancerTypes
<1>2. P \subseteq 1 .. Len(backends)
    BY <1>1
<1>3. \A i \in P : backends[i] \in Listed
    BY DEF Listed, ToSet
<1>4. HealthyList = Kept(backends, P)
    BY DEF HealthyList
<1>5. Listed \subseteq States
    BY <1>1 DEF Listed, ToSet
<1> HIDE DEF P
<1>6. Kept(backends, P) \in Seq(Listed)
    BY <1>1, <1>2, <1>3, KeptElements
<1>7. Kept(backends, P) \in Seq(States)
    BY <1>1, <1>2, <1>3, <1>5, KeptElements
<1> QED  BY <1>4, <1>6, <1>7

LEMMA BalancerInitially == ASSUME BalancerInit PROVE BalancerInv
<1>1. BalancerTypes
    <2>1. Initial \in Seq(States) /\ {Initial[i] : i \in DOMAIN Initial} \subseteq States
        BY BalancerConstants
    <2>2. index \in 0 .. IndexCycle - 1 /\ 0 \in 0 .. MaxFailures
        BY BalancerConstants DEF BalancerInit
    <2> QED  BY <2>1, <2>2 DEF BalancerTypes, BalancerInit, ClientPoints,
                               CheckerPoints, ToSet
<1>2. SelectInv
    BY DEF SelectInv, BalancerInit
<1>3. ConnectionsExact
    <2>1. \A b \in States : Guards(b) = {}
        BY DEF Guards, BalancerInit
    <2>2. Cardinality({}) = 0
        BY FS_EmptySet
    <2>3. \A b \in States : active[b] = 0
        BY DEF BalancerInit
    <2> QED  BY <2>1, <2>2, <2>3 DEF ConnectionsExact
<1> QED  BY <1>1, <1>2, <1>3 DEF BalancerInv

\* The guards change only when one is taken or dropped.
LEMMA GuardsKept ==
    ASSUME BalancerInv, UNCHANGED active,
           \A c \in Callers : client'[c] = "holding" <=> client[c] = "holding",
           \A c \in Callers : client[c] = "holding" => on'[c] = on[c]
    PROVE  ConnectionsExact'
<1>1. \A b \in States : Guards(b)' = Guards(b)
    BY DEF Guards
<1> QED  BY <1>1 DEF BalancerInv, ConnectionsExact

\* A client chooses from its snapshot.
LEMMA Choice ==
    ASSUME BalancerInv, NEW c \in Callers, NEW b, client[c] = "filtered",
           b \in Listed, Chooses(c, b),
           index' \in 0 .. IndexCycle - 1, picks' \in [States -> Nat]
    PROVE  BalancerInv'
<1> USE DEF BalancerInv
<1>0. b \in States
    BY DEF BalancerTypes, Listed, ToSet
<1>1. BalancerTypes'
    BY <1>0 DEF BalancerTypes, Chooses, ClientPoints, listVars,
                stateVars, checkVars
<1>2. Listed' = Listed
    BY DEF Chooses, listVars, Listed
<1>3. SelectInv'
    BY <1>2 DEF BalancerTypes, SelectInv, Chooses
<1>4. ConnectionsExact'
    BY GuardsKept DEF BalancerTypes, Chooses, stateVars
<1> QED  BY <1>1, <1>3, <1>4

\* Every strategy chooses a place of the snapshot.
LEMMA SelectStep ==
    ASSUME BalancerInv, NEW c \in Callers,
           \/ SelectRoundRobin(c) \/ SelectLeastConnections(c)
           \/ SelectWeighted(c) \/ SelectRandom(c)
    PROVE  BalancerInv'
<1>1. client[c] = "filtered"
    BY DEF SelectRoundRobin, SelectLeastConnections,
           SelectWeighted, SelectRandom
<1>2. /\ snapshot[c] \in Seq(States) /\ snapshot[c] # <<>>
      /\ DOMAIN snapshot[c] = 1 .. Len(snapshot[c])
      /\ \A i \in 1 .. Len(snapshot[c]) : snapshot[c][i] \in Listed
    BY <1>1 DEF BalancerInv, BalancerTypes, SelectInv
<1>3. /\ index \in 0 .. IndexCycle - 1 /\ IndexUp \in 0 .. IndexCycle - 1
      /\ picks \in [States -> Nat]
    BY BalancerConstants DEF BalancerInv, BalancerTypes, IndexUp
<1>4. CASE SelectRoundRobin(c)
    <2> DEFINE n == Len(snapshot[c])
               i == (index % n) + 1
               b == snapshot[c][i]
    <2>1. n \in Nat \ {0}
        BY <1>2, EmptySeq
    <2>2. i \in 1 .. n
        <3> HIDE DEF n
        <3> QED  BY <1>3, <2>1, BalancerConstants
    <2>3. b \in Listed
        <3> HIDE DEF i
        <3> QED  BY <1>2, <2>2
    <2>4. index' \in 0 .. IndexCycle - 1
        BY <1>3, <1>4 DEF SelectRoundRobin
    <2>5. picks' \in [States -> Nat]
        <3> DEFINE p == [picks EXCEPT ![b] = @ + 1]
        <3>0. b \in States
            BY <2>3 DEF BalancerInv, BalancerTypes, Listed, ToSet
        <3>1. p \in [States -> Nat]
            <4> HIDE DEF b
            <4> QED  BY <1>3, <3>0
        <3>2. Picked(b) \in [States -> Nat]
            <4>1. [d \in States |-> IF p[d] > 0 THEN p[d] - 1 ELSE 0] \in [States -> Nat]
                <5> HIDE DEF p
                <5> QED  BY <3>1
            <4> QED  BY <3>1, <4>1 DEF Picked
        <3>3. NoPicks \in [States -> Nat]
            BY DEF NoPicks
        <3>4. picks' = Picked(b) \/ picks' = NoPicks
            BY <1>4 DEF SelectRoundRobin
        <3> QED  BY <3>2, <3>3, <3>4
    <2>6. Chooses(c, b)
        BY <1>4 DEF SelectRoundRobin
    <2> HIDE DEF b
    <2> QED  BY <1>1, <2>3, <2>4, <2>5, <2>6, Choice
<1>5. CASE \/ SelectLeastConnections(c) \/ SelectWeighted(c)
           \/ SelectRandom(c)
    <2>1. PICK i \in DOMAIN snapshot[c] : Chooses(c, snapshot[c][i])
        BY <1>5 DEF SelectLeastConnections, SelectWeighted,
                    SelectRandom
    <2>2. index' \in 0 .. IndexCycle - 1 /\ picks' \in [States -> Nat]
        BY <1>3, <1>5 DEF SelectLeastConnections, SelectWeighted,
                          SelectRandom
    <2> QED  BY <1>1, <1>2, <2>1, <2>2, Choice
<1> QED  BY <1>4, <1>5


\* A guard is taken: one more client holds the backend.
LEMMA TakeGuardStep ==
    ASSUME BalancerInv, NEW c \in Callers, TakeGuard(c)
    PROVE  BalancerInv'
<1> USE DEF BalancerInv
<1> DEFINE b == on[c]
<1>0. client[c] = "chosen" /\ b \in States
    BY DEF BalancerTypes, SelectInv, TakeGuard, Listed, ToSet
<1>1. BalancerTypes'
    <2>1. <<>> \in Seq(States)
        BY EmptySeq
    <2> QED  BY <1>0, <2>1 DEF BalancerTypes, TakeGuard, ClientPoints,
                               listVars, checkVars
<1>2. SelectInv'
    BY <1>0 DEF BalancerTypes, SelectInv, TakeGuard, listVars,
                Listed
<1>3. ASSUME NEW d \in States
      PROVE  active'[d] = Cardinality(Guards(d)')
    <2>1. /\ active[d] = Cardinality(Guards(d))
          /\ active'[d] = IF d = b THEN active[d] + 1 ELSE active[d]
        BY <1>0 DEF ConnectionsExact, TakeGuard, BalancerTypes
    <2>2. CASE d = b
        <3>1. /\ Guards(d)' = Guards(d) \union {c}
              /\ c \notin Guards(d)
            BY <1>0, <2>2 DEF Guards, TakeGuard, BalancerTypes
        <3>2. IsFiniteSet(Guards(d))
            BY FS_Subset, BalancerConstants DEF Guards
        <3>3. Cardinality(Guards(d) \union {c}) = Cardinality(Guards(d)) + 1
            BY <3>1, <3>2, FS_AddElement
        <3> QED  BY <2>1, <2>2, <3>1, <3>3
    <2>3. CASE d # b
        <3>1. Guards(d)' = Guards(d)
            BY <1>0, <2>3 DEF Guards, TakeGuard, BalancerTypes
        <3> QED  BY <2>1, <2>3, <3>1
    <2> QED  BY <2>2, <2>3
<1> QED  BY <1>1, <1>2, <1>3 DEF ConnectionsExact

\* A guard is dropped, whether its backend is still listed or not.
LEMMA GuardDropStep ==
    ASSUME BalancerInv, NEW c \in Callers, BackendGuardDrop(c)
    PROVE  BalancerInv'
<1> USE DEF BalancerInv
<1> DEFINE b == on[c]
<1>0. client[c] = "holding" /\ b \in States
    BY DEF SelectInv, BackendGuardDrop
<1>1. BalancerTypes'
    BY <1>0 DEF BalancerTypes, BackendGuardDrop, ActiveDown,
                ClientPoints, listVars, checkVars
<1>2. SelectInv'
    BY <1>0 DEF BalancerTypes, SelectInv, BackendGuardDrop, listVars,
                Listed
<1>3. ASSUME NEW d \in States
      PROVE  active'[d] = Cardinality(Guards(d)')
    <2>1. /\ active[d] = Cardinality(Guards(d))
          /\ active'[d] = IF d = b THEN active[d] - 1 ELSE active[d]
        BY <1>0
           DEF ConnectionsExact, BackendGuardDrop, ActiveDown, BalancerTypes
    <2>2. CASE d = b
        <3>1. /\ Guards(d)' = Guards(d) \ {c}
              /\ c \in Guards(d)
            BY <1>0, <2>2 DEF Guards, BackendGuardDrop, BalancerTypes
        <3>2. IsFiniteSet(Guards(d))
            BY FS_Subset, BalancerConstants DEF Guards
        <3> QED  BY <2>1, <2>2, <3>1, <3>2, FS_RemoveElement
    <2>3. CASE d # b
        <3>1. Guards(d)' = Guards(d)
            BY <1>0, <2>3 DEF Guards, BackendGuardDrop, BalancerTypes
        <3> QED  BY <2>1, <2>3, <3>1
    <2> QED  BY <2>2, <2>3
<1> QED  BY <1>1, <1>2, <1>3 DEF ConnectionsExact

\* Neither the clients nor their backends are touched.
LEMMA ClientsKept ==
    ASSUME BalancerInv, BalancerTypes', UNCHANGED <<backends, active, client, snapshot, on>>
    PROVE  BalancerInv'
<1>1. SelectInv'
    BY DEF BalancerInv, SelectInv, Listed
<1>2. ConnectionsExact'
    BY GuardsKept
<1> QED  BY <1>1, <1>2 DEF BalancerInv

\* The list changes: no select reads it, and guards stay.
LEMMA ListStep ==
    ASSUME BalancerInv, BalancerTypes', UNCHANGED <<active, client, snapshot, on>>,
           NoReaders
    PROVE  BalancerInv'
<1>1. \A c \in Callers : client[c] \notin {"filtered", "chosen"}
    BY DEF NoReaders, Where, BalancerInv, BalancerTypes
<1>2. SelectInv'
    BY <1>1 DEF BalancerInv, SelectInv
<1>3. ConnectionsExact'
    BY GuardsKept
<1> QED  BY <1>2, <1>3 DEF BalancerInv

LEMMA BalancerClientStep ==
    ASSUME BalancerInv, NEW c \in Callers, CallerNext(c)
    PROVE  BalancerInv'
<1>1. CASE Filter(c)
    <2> DEFINE L == HealthyList
    <2>1. /\ L \in Seq(States)
          /\ \A i \in 1 .. Len(L) : L[i] \in Listed
        BY HealthyListed DEF BalancerInv
    <2>2. /\ L # <<>> /\ snapshot' = [snapshot EXCEPT ![c] = L]
          /\ client' = [client EXCEPT ![c] = "filtered"]
          /\ client[c] = "idle"
          /\ UNCHANGED <<crew, strategy, backends, added, healthy, active, failures, index, on,
                         checker, target, picks>>
        BY <1>1 DEF Filter, listVars, stateVars,
                    checkVars
    <2> HIDE DEF L
    <2>3. BalancerTypes'
        BY <2>1, <2>2 DEF BalancerInv, BalancerTypes, ClientPoints
    <2>4. SelectInv'
        BY <2>1, <2>2 DEF BalancerInv, BalancerTypes, SelectInv, Listed
    <2>5. ConnectionsExact'
        BY <2>2, GuardsKept DEF BalancerInv, BalancerTypes
    <2> QED  BY <2>3, <2>4, <2>5 DEF BalancerInv
<1>2. CASE SelectPanics(c)
    <2>0. IndexUp \in 0 .. IndexCycle - 1
        BY BalancerConstants DEF BalancerInv, BalancerTypes, IndexUp
    <2>1. BalancerTypes'
        BY <1>2, <2>0 DEF SelectPanics, BalancerInv, BalancerTypes,
            ClientPoints, listVars, stateVars, checkVars
    <2>2. SelectInv'
        BY <1>2 DEF SelectPanics, BalancerInv, BalancerTypes, SelectInv,
                    Listed, listVars
    <2>3. ConnectionsExact'
        BY <1>2, GuardsKept DEF SelectPanics, BalancerInv, BalancerTypes,
                                stateVars
    <2> QED  BY <2>1, <2>2, <2>3 DEF BalancerInv
<1>3. CASE RecordSuccess(c) \/ RecordFailure(c)
    <2>1. BalancerTypes'
        <3>1. failures' \in [States -> 0 .. MaxFailures]
            <4>1. \A x \in 0 .. MaxFailures : x < MaxFailures => x + 1 \in 0 .. MaxFailures
                BY BalancerConstants
            <4>2. 0 \in 0 .. MaxFailures
                BY BalancerConstants
            <4>3. failures[on[c]] \in 0 .. MaxFailures
                BY <1>3 DEF RecordSuccess, RecordFailure, BalancerInv,
                            BalancerTypes, SelectInv
            <4> QED  BY <1>3, <4>1, <4>2, <4>3 DEF RecordSuccess,
                        RecordFailure, BalancerInv, BalancerTypes
        <3> QED  BY <1>3, <3>1 DEF RecordSuccess, RecordFailure,
            BalancerInv, BalancerTypes, listVars, clientVars,
            checkVars
    <2> QED  BY <1>3, <2>1, ClientsKept DEF RecordSuccess,
        RecordFailure, listVars, clientVars
<1> QED  BY <1>1, <1>2, <1>3, SelectStep, TakeGuardStep, GuardDropStep
         DEF CallerNext

LEMMA OtherStep ==
    ASSUME BalancerInv,
           \/ \E k \in Checkers : CheckerNext(k)
           \/ \E a \in Addresses, value \in BOOLEAN :
                 SetBackendHealth(a, value)
           \/ \E b \in States : AddBackend(b)
           \/ \E a \in Addresses : RemoveBackend(a)
           \/ UNCHANGED balancerVars
    PROVE  BalancerInv'
<1> USE DEF listVars, stateVars, clientVars, checkVars
<1>0. NoPicks \in [States -> Nat] /\ 0 \in 0 .. MaxFailures
    BY BalancerConstants DEF NoPicks
<1>1. ASSUME NEW k \in Checkers, CheckerNext(k)
      PROVE  BalancerInv'
    <2>1. BalancerTypes'
        <3> USE DEF BalancerInv, BalancerTypes, CheckerPoints
        <3>1. ASSUME NEW b \in States, StartCheck(k, b)
              PROVE  BalancerTypes'
            BY <3>1 DEF StartCheck
        <3>2. CASE CheckPasses(k)
            BY <1>0, <3>2 DEF CheckPasses, SetHealth
        <3>3. CASE ClearFailures(k)
            BY <1>0, <3>3 DEF ClearFailures
        <3>4. CASE CheckFails(k)
            BY <3>4 DEF CheckFails
        <3>5. CASE MarkUnhealthy(k)
            BY <1>0, <3>5 DEF MarkUnhealthy, SetHealth
        <3> QED  BY <1>1, <3>1, <3>2, <3>3, <3>4, <3>5 DEF CheckerNext
    <2> QED  BY <1>1, <2>1, ClientsKept DEF CheckerNext,
            StartCheck, CheckPasses, ClearFailures,
            CheckFails, MarkUnhealthy
<1>2. ASSUME NEW a, NEW value \in BOOLEAN, SetBackendHealth(a, value)
      PROVE  BalancerInv'
    <2>1. BalancerTypes'
        BY <1>0, <1>2 DEF BalancerInv, BalancerTypes, SetBackendHealth,
                          SetHealth
    <2> QED  BY <1>2, <2>1, ClientsKept DEF SetBackendHealth
<1>3. ASSUME NEW b \in States, AddBackend(b)
      PROVE  BalancerInv'
    <2>1. Append(backends, b) \in Seq(States)
        BY AppendProperties DEF BalancerInv, BalancerTypes
    <2>2. BalancerTypes'
        BY <1>0, <1>3, <2>1 DEF BalancerInv, BalancerTypes, AddBackend
    <2> QED  BY <1>3, <2>2, ListStep DEF AddBackend
<1>4. ASSUME NEW a, RemoveBackend(a)
      PROVE  BalancerInv'
    <2> DEFINE P == {i \in DOMAIN backends : Address[backends[i]] # a}
    <2>1. backends \in Seq(States) /\ P \subseteq 1 .. Len(backends)
        BY DEF BalancerInv, BalancerTypes
    <2>2. backends' = Kept(backends, P)
        BY <1>4 DEF RemoveBackend
    <2>3. backends' \in Seq(States)
        <3>1. \A i \in P : backends[i] \in States
            BY <2>1
        <3> HIDE DEF P
        <3> QED  BY <2>1, <2>2, <3>1, KeptElements
    <2>4. BalancerTypes'
        BY <1>0, <1>4, <2>3 DEF BalancerInv, BalancerTypes, RemoveBackend
    <2> QED  BY <1>4, <2>4, ListStep DEF RemoveBackend
<1>5. CASE UNCHANGED balancerVars
    BY <1>5, ClientsKept DEF balancerVars, BalancerInv, BalancerTypes
<1> QED  BY <1>1, <1>2, <1>3, <1>4, <1>5

LEMMA BalancerInvariant == BalancerSpec => []BalancerInv
<1>1. BalancerInit => BalancerInv
    BY BalancerInitially
<1>2. BalancerInv /\ [BalancerNext]_balancerVars => BalancerInv'
    BY BalancerClientStep, OtherStep DEF BalancerNext
<1> QED  BY <1>1, <1>2, PTL DEF BalancerSpec

\* active_connections of a backend is the number of guards on it, whatever the
\* strategy and whatever happens to the list (load_balancer.rs:259, 482-488).
THEOREM GuardsTheorem == BalancerSpec => [](BalancerTypeOK /\ ConnectionsExact)
<1>1. BalancerInv => BalancerTypeOK /\ ConnectionsExact
    <2> SUFFICES ASSUME BalancerInv PROVE BalancerTypeOK
        BY DEF BalancerInv
    <2> DEFINE N == Cardinality(Callers)
    <2>1. ASSUME NEW b \in States PROVE active[b] \in 0 .. N
        <3>1. Guards(b) \subseteq Callers
            BY DEF Guards
        <3>2. /\ Cardinality(Guards(b)) <= N
              /\ Cardinality(Guards(b)) \in Nat /\ N \in Nat
            BY <3>1, FS_Subset, FS_CardinalityType, BalancerConstants
        <3>3. active[b] = Cardinality(Guards(b))
            BY DEF BalancerInv, ConnectionsExact
        <3> HIDE DEF N
        <3> QED  BY <3>2, <3>3
    <2>2. active \in [States -> 0 .. Cardinality(Callers)]
        BY <2>1 DEF BalancerInv, BalancerTypes
    <2> QED  BY <2>2 DEF BalancerTypeOK, BalancerInv, BalancerTypes
<1> QED  BY <1>1, BalancerInvariant, PTL

\* The backend a select has chosen is still listed when its guard is taken
\* (load_balancer.rs:240, 324-327).
THEOREM ChosenTheorem == BalancerSpec => []ChosenIsListed
<1>1. BalancerInv => ChosenIsListed
    BY DEF BalancerInv, SelectInv, ChosenIsListed
<1> QED  BY <1>1, BalancerInvariant, PTL

-----------------------------------------------------------------------------
(* Round-robin.  The places of a list of N are counted from 0. *)

\* Place j is one of the n before r, going round.
Before(j, r, n, N) == (j < r /\ j >= r - n) \/ (j >= r /\ j - N >= r - n)

\* The backends picked once more than the others are the last n before r.
Round(f, h, r, n) ==
    \A j \in 0 .. Len(h) - 1 :
        f[h[j + 1]] = IF Before(j, r, n, Len(h)) THEN 1 ELSE 0

RoundInv ==
    /\ Distinct(backends)
    /\ Listed \subseteq added
    /\ strategy = "RoundRobin" /\ HealthyList # <<>> =>
          \E n \in 0 .. Len(HealthyList) - 1 :
              Round(picks, HealthyList,
                    index % Len(HealthyList), n)

Following(r, N) == IF r + 1 = N THEN 0 ELSE r + 1

\* One more place is passed.
LEMMA WindowGrows ==
    ASSUME NEW N \in Nat \ {0}, NEW r \in 0 .. N - 1, NEW n \in 0 .. N - 1
    PROVE  /\ Following(r, N) \in 0 .. N - 1
           /\ ~Before(r, r, n, N)
           /\ Before(r, Following(r, N), n + 1, N)
           /\ \A j \in 0 .. N - 1 : j # r =>
                 (Before(j, Following(r, N), n + 1, N) <=> Before(j, r, n, N))
BY DEF Before, Following

\* Either the round is complete, or some place is yet to be passed.
LEMMA WindowEnds ==
    ASSUME NEW N \in Nat \ {0}, NEW r \in 0 .. N - 1, NEW n \in 0 .. N - 1
    PROVE  /\ n + 1 = N => \A j \in 0 .. N - 1 : Before(j, r, n + 1, N)
           /\ n + 1 # N => \E j \in 0 .. N - 1 : ~Before(j, r, n + 1, N)
<1>1. n + 1 = N => \A j \in 0 .. N - 1 : Before(j, r, n + 1, N)
    BY DEF Before
<1>2. ASSUME n + 1 # N PROVE ~Before(r, r, n + 1, N)
    BY <1>2 DEF Before
<1> QED  BY <1>1, <1>2

\* Nothing is picked yet.
LEMMA RoundBegins ==
    ASSUME NEW h \in Seq(States), h # <<>>, NEW r \in 0 .. Len(h) - 1, NEW f,
           \A b \in States : f[b] = 0
    PROVE  \E n \in 0 .. Len(h) - 1 : Round(f, h, r, n)
<1>1. Len(h) \in Nat \ {0}
    BY EmptySeq
<1>2. \A j \in 0 .. Len(h) - 1 : h[j + 1] \in States
    BY <1>1
<1>3. \A j \in 0 .. Len(h) - 1 : ~Before(j, r, 0, Len(h))
    BY <1>1 DEF Before
<1>4. Round(f, h, r, 0) /\ 0 \in 0 .. Len(h) - 1
    BY <1>1, <1>2, <1>3 DEF Round
<1> QED  BY <1>4

\* The picks after one more, of the backend at place r of h.
OnePick(f, h, r) ==
    LET p == [f EXCEPT ![h[r + 1]] = f[h[r + 1]] + 1]
    IN  IF \A d \in Elements(h) : p[d] > 0
        THEN [d \in States |-> IF p[d] > 0 THEN p[d] - 1 ELSE 0] ELSE p

LEMMA RoundGoesOn ==
    ASSUME NEW h \in Seq(States), h # <<>>, Distinct(h),
           NEW r \in 0 .. Len(h) - 1, NEW n \in 0 .. Len(h) - 1,
           NEW f \in [States -> Nat], Round(f, h, r, n)
    PROVE  \E m \in 0 .. Len(h) - 1 :
              Round(OnePick(f, h, r), h, Following(r, Len(h)), m)
<1> DEFINE N == Len(h)
           s == Following(r, N)
           p == [f EXCEPT ![h[r + 1]] = f[h[r + 1]] + 1]
           g == OnePick(f, h, r)
<1>0. g = IF \A d \in Elements(h) : p[d] > 0
          THEN [d \in States |-> IF p[d] > 0 THEN p[d] - 1 ELSE 0] ELSE p
    BY DEF OnePick
<1> HIDE DEF g
<1>1. N \in Nat \ {0}
    BY EmptySeq
<1>2. \A j \in 0 .. N - 1 : h[j + 1] \in States /\ h[j + 1] \in Elements(h)
    BY <1>1 DEF Elements
<1>3. \A j \in 0 .. N - 1 : j # r => h[j + 1] # h[r + 1]
    <2>1. \A j \in 0 .. N - 1 : j + 1 \in 1 .. N /\ (j + 1 = r + 1 => j = r)
        BY <1>1
    <2> QED  BY <2>1 DEF Distinct
<1>4. /\ s \in 0 .. N - 1
      /\ ~Before(r, r, n, N)
      /\ Before(r, s, n + 1, N)
      /\ \A j \in 0 .. N - 1 : j # r => (Before(j, s, n + 1, N) <=> Before(j, r, n, N))
    <2> HIDE DEF N
    <2> QED  BY <1>1, WindowGrows DEF N
<1>5. \A j \in 0 .. N - 1 : f[h[j + 1]] = IF Before(j, r, n, N) THEN 1 ELSE 0
    BY DEF Round
<1> HIDE DEF N, s
<1>6. ASSUME NEW j \in 0 .. N - 1
      PROVE  p[h[j + 1]] = IF Before(j, s, n + 1, N) THEN 1 ELSE 0
    <2>1. CASE j = r
        <3>1. f[h[r + 1]] = 0
            BY <1>4, <1>5, <2>1
        <3>2. p[h[r + 1]] = f[h[r + 1]] + 1
            BY <1>2, <2>1
        <3> QED  BY <1>4, <2>1, <3>1, <3>2
    <2>2. CASE j # r
        <3>1. p[h[j + 1]] = f[h[j + 1]]
            BY <1>2, <1>3, <2>2
        <3> QED  BY <1>4, <1>5, <2>2, <3>1
    <2> QED  BY <2>1, <2>2
<1>7. CASE n + 1 = N
    <2>1. \A j \in 0 .. N - 1 : p[h[j + 1]] = 1
        BY <1>1, <1>4, <1>6, <1>7, WindowEnds DEF N
    <2>2. \A d \in Elements(h) : \E j \in 0 .. N - 1 : d = h[j + 1]
        <3>1. \A i \in 1 .. N : i - 1 \in 0 .. N - 1 /\ (i - 1) + 1 = i
            BY <1>1
        <3> QED  BY <3>1 DEF Elements, N
    <2>3. ASSUME NEW d \in Elements(h) PROVE p[d] > 0
        <3>1. PICK j \in 0 .. N - 1 : d = h[j + 1]
            BY <2>2
        <3>2. p[d] = 1
            BY <2>1, <3>1
        <3> QED  BY <3>2
    <2>4. g = [d \in States |-> IF p[d] > 0 THEN p[d] - 1 ELSE 0]
        BY <1>0, <2>3
    <2>5. \A j \in 0 .. N - 1 : g[h[j + 1]] = 0
        BY <1>2, <2>1, <2>4
    <2>6. \A j \in 0 .. N - 1 : ~Before(j, s, 0, N)
        BY <1>1, <1>4 DEF Before
    <2>7. Round(g, h, s, 0) /\ 0 \in 0 .. N - 1
        BY <1>1, <2>5, <2>6 DEF Round, N
    <2> QED  BY <2>7 DEF N, s, g
<1>8. CASE n + 1 # N
    <2>1. PICK j \in 0 .. N - 1 : ~Before(j, s, n + 1, N)
        BY <1>1, <1>4, <1>8, WindowEnds DEF N
    <2>2. ~(\A d \in Elements(h) : p[d] > 0)
        <3>1. p[h[j + 1]] = 0 /\ h[j + 1] \in Elements(h)
            BY <1>2, <1>6, <2>1
        <3> QED  BY <3>1
    <2>3. g = p
        BY <1>0, <2>2
    <2>4. Round(g, h, s, n + 1) /\ n + 1 \in 0 .. N - 1
        BY <1>1, <1>6, <1>8, <2>3 DEF Round, N
    <2> QED  BY <2>4 DEF N, s, g
<1> QED  BY <1>7, <1>8

\* The elements of s that f calls healthy.
HealthyOf(s, f) == Kept(s, {i \in DOMAIN s : f[s[i]]})

LEMMA HealthyMeans ==
    /\ HealthyList = HealthyOf(backends, healthy)
    /\ HealthyList' = HealthyOf(backends', healthy')
BY DEF HealthyList, HealthyOf

LEMMA HealthyFacts ==
    ASSUME NEW s \in Seq(States), Distinct(s), NEW f
    PROVE  LET h == HealthyOf(s, f) IN
           /\ h \in Seq(States) /\ Distinct(h)
           /\ h # <<>> => Len(h) \in Nat \ {0} /\ IndexCycle % Len(h) = 0
<1> DEFINE P == {i \in DOMAIN s : f[s[i]]}
           h == HealthyOf(s, f)
<1>1. P \subseteq 1 .. Len(s) /\ \A i \in P : s[i] \in States
    OBVIOUS
<1>2. h = Kept(s, P)
    BY DEF HealthyOf
<1> HIDE DEF P, h
<1>3. h \in Seq(States) /\ Distinct(h)
    BY <1>1, <1>2, KeptElements
<1>4. Len(h) <= Cardinality(States)
    BY <1>3, DistinctLength, BalancerConstants
<1>5. Cardinality(States) \in Nat
    BY FS_CardinalityType, BalancerConstants
<1>6. ASSUME h # <<>> PROVE Len(h) \in Nat \ {0} /\ IndexCycle % Len(h) = 0
    <2>1. Len(h) \in Nat \ {0}
        BY <1>3, <1>6, EmptySeq
    <2>2. Len(h) \in 1 .. Cardinality(States)
        BY <1>4, <1>5, <2>1
    <2> QED  BY <2>1, <2>2, BalancerConstants
<1> QED  BY <1>3, <1>6 DEF h

LEMMA HealthyKept ==
    ASSUME UNCHANGED <<backends, healthy>>
    PROVE  HealthyList' = HealthyList
BY DEF HealthyList

LEMMA RoundKept ==
    ASSUME RoundInv, UNCHANGED <<strategy, backends, added, healthy, picks>>,
           strategy = "RoundRobin" => UNCHANGED index
    PROVE  RoundInv'
<1>1. HealthyList' = HealthyList
    BY HealthyKept
<1>2. Listed' = Listed
    BY DEF Listed
<1> QED  BY <1>1, <1>2 DEF RoundInv

LEMMA RoundRestarts ==
    ASSUME BalancerTypes', Distinct(backends'),
           Listed' \subseteq added', picks' = NoPicks
    PROVE  RoundInv'
<1> DEFINE h == HealthyList'
           r == index' % Len(h)
<1>1. /\ h \in Seq(States)
      /\ h # <<>> => Len(h) \in Nat \ {0}
    BY HealthyMeans, HealthyFacts DEF BalancerTypes
<1>2. ASSUME h # <<>> PROVE \E n \in 0 .. Len(h) - 1 : Round(picks', h, r, n)
    <2>1. Len(h) \in Nat \ {0} /\ index' \in Nat
        BY <1>1, <1>2, BalancerConstants DEF BalancerTypes
    <2>2. r \in 0 .. Len(h) - 1
        <3> HIDE DEF h
        <3> QED  BY <2>1
    <2>3. \A b \in States : picks'[b] = 0
        BY DEF NoPicks
    <2> HIDE DEF h, r
    <2> QED  BY <1>1, <1>2, <2>2, <2>3, RoundBegins
<1> QED  BY <1>2 DEF RoundInv, Round

LEMMA RoundInit ==
    ASSUME BalancerInit, BalancerTypes
    PROVE  RoundInv
<1> DEFINE h == HealthyList
           r == index % Len(h)
<1>1. Distinct(backends) /\ Listed \subseteq added
    BY BalancerConstants DEF BalancerInit, Listed
<1>2. /\ h \in Seq(States)
      /\ h # <<>> => Len(h) \in Nat \ {0}
    BY <1>1, HealthyMeans, HealthyFacts DEF BalancerTypes
<1>3. ASSUME h # <<>> PROVE \E n \in 0 .. Len(h) - 1 : Round(picks, h, r, n)
    <2>1. Len(h) \in Nat \ {0} /\ index \in Nat
        BY <1>2, <1>3, BalancerConstants DEF BalancerTypes
    <2>2. r \in 0 .. Len(h) - 1
        <3> HIDE DEF h
        <3> QED  BY <2>1
    <2>3. \A b \in States : picks[b] = 0
        BY DEF BalancerInit
    <2> HIDE DEF h, r
    <2> QED  BY <1>2, <1>3, <2>2, <2>3, RoundBegins
<1> QED  BY <1>1, <1>3 DEF RoundInv

\* A select goes on with the round, or begins another if its list is stale.
LEMMA RoundStep ==
    ASSUME BalancerInv, BalancerTypes', RoundInv,
           NEW c \in Callers, SelectRoundRobin(c)
    PROVE  RoundInv'
<1> DEFINE h == HealthyList
           r == index % Len(h)
           b == h[r + 1]
<1>1. UNCHANGED <<strategy, backends, added, healthy>> /\ strategy = "RoundRobin"
    BY DEF SelectRoundRobin, Chooses, listVars,
           stateVars
<1>2. Listed' = Listed /\ HealthyList' = h
    BY <1>1, HealthyKept DEF Listed
<1>3. CASE snapshot[c] # h
    <2>1. picks' = NoPicks
        BY <1>3 DEF SelectRoundRobin
    <2> QED  BY <1>1, <1>2, <2>1, RoundRestarts DEF RoundInv
<1>4. CASE snapshot[c] = h
    <2>1. h # <<>>
        BY <1>4 DEF BalancerInv, SelectInv, SelectRoundRobin
    <2>2. /\ h \in Seq(States) /\ Distinct(h)
          /\ Len(h) \in Nat \ {0} /\ IndexCycle % Len(h) = 0
        BY <2>1, HealthyMeans, HealthyFacts DEF BalancerInv, BalancerTypes, RoundInv
    <2>3. picks' = Picked(b) /\ index' = (index + 1) % IndexCycle
        BY <1>4 DEF SelectRoundRobin, IndexUp
    <2>4. PICK n \in 0 .. Len(h) - 1 : Round(picks, h, r, n)
        BY <1>1, <2>1 DEF RoundInv
    <2>5. picks' = OnePick(picks, h, r)
        <3>1. ToSet(h) = Elements(h)
            BY <2>2 DEF ToSet, Elements
        <3> QED  BY <2>3, <3>1 DEF Picked, OnePick
    <2>6. index \in 0 .. IndexCycle - 1 /\ index \in Nat /\ picks \in [States -> Nat]
        BY BalancerConstants DEF BalancerInv, BalancerTypes
    <2>7. index' % Len(h) = Following(r, Len(h)) /\ r \in 0 .. Len(h) - 1
        <3>1. IndexCycle \in Nat \ {0}
            BY BalancerConstants
        <3> HIDE DEF h
        <3>2. index' % Len(h) = (index + 1) % Len(h)
            BY <2>2, <2>3, <2>6, <3>1, WrappedRemainder
        <3>3. (index + 1) % Len(h) = Following(r, Len(h))
            BY <2>2, <2>6, NextRemainder DEF Following
        <3> QED  BY <2>2, <2>6, <3>2, <3>3
    <2> HIDE DEF h, r
    <2>8. \E m \in 0 .. Len(h) - 1 : Round(picks', h, Following(r, Len(h)), m)
        BY <2>1, <2>2, <2>4, <2>5, <2>6, <2>7, RoundGoesOn
    <2>9. \E m \in 0 .. Len(h) - 1 : Round(picks', h, index' % Len(h), m)
        BY <2>7, <2>8
    <2> QED  BY <1>1, <1>2, <2>9 DEF RoundInv, Round
<1> QED  BY <1>3, <1>4

\* A change of health begins a new round.
LEMMA HealthStep ==
    ASSUME BalancerInv, BalancerTypes', RoundInv,
           NEW b, NEW value, SetHealth(b, value),
           UNCHANGED <<strategy, backends, added, index>>
    PROVE  RoundInv'
<1>1. CASE healthy[b] = value
    <2>1. healthy' = healthy
        BY <1>1 DEF SetHealth, BalancerInv, BalancerTypes
    <2> QED  BY <1>1, <2>1, RoundKept DEF SetHealth
<1>2. CASE healthy[b] # value
    <2>1. picks' = NoPicks
        BY <1>2 DEF SetHealth
    <2>2. Listed' = Listed
        BY DEF Listed
    <2> QED  BY <2>1, <2>2, RoundRestarts DEF RoundInv
<1> QED  BY <1>1, <1>2

\* So does a change of the list, in which no backend is twice.
LEMMA AddRound ==
    ASSUME BalancerInv, BalancerTypes', RoundInv,
           NEW b \in States, AddBackend(b)
    PROVE  RoundInv'
<1> DEFINE s == backends
           t == Append(backends, b)
<1>1. s \in Seq(States) /\ Len(s) \in Nat
    BY DEF BalancerInv, BalancerTypes
<1>2. /\ Len(t) = Len(s) + 1 /\ DOMAIN t = 1 .. Len(s) + 1
      /\ \A i \in 1 .. Len(s) : t[i] = s[i]
      /\ t[Len(s) + 1] = b
    BY <1>1, AppendProperties
<1>3. \A i \in 1 .. Len(s) + 1 : i \in 1 .. Len(s) \/ i = Len(s) + 1
    BY <1>1
<1>4. \A i \in 1 .. Len(s) : s[i] \in added
    BY <1>1 DEF RoundInv, Listed, ToSet
<1>5. b \notin added /\ added' = added \union {b} /\ backends' = t
      /\ picks' = NoPicks
    BY DEF AddBackend
<1> HIDE DEF t
<1>6. Distinct(t)
    BY <1>2, <1>3, <1>4, <1>5 DEF Distinct, RoundInv
<1>7. Listed' \subseteq added'
    BY <1>2, <1>3, <1>4, <1>5 DEF Listed, ToSet
<1> QED  BY <1>5, <1>6, <1>7, RoundRestarts

LEMMA RemoveRound ==
    ASSUME BalancerInv, BalancerTypes', RoundInv,
           NEW a, RemoveBackend(a)
    PROVE  RoundInv'
<1> DEFINE P == {i \in DOMAIN backends : Address[backends[i]] # a}
           t == Kept(backends, P)
<1>0. backends \in Seq(States) /\ DOMAIN backends = 1 .. Len(backends)
    BY DEF BalancerInv, BalancerTypes
<1>1. P \subseteq 1 .. Len(backends)
    BY <1>0
<1>2. backends' = t /\ added' = added /\ picks' = NoPicks
    BY DEF RemoveBackend
<1>3. \A i \in P : backends[i] \in added
    BY DEF RoundInv, Listed, ToSet
<1> HIDE DEF P
<1>4. t \in Seq(added) /\ Distinct(t)
    BY <1>0, <1>1, <1>3, KeptElements DEF RoundInv
<1> HIDE DEF t
<1>5. Listed' \subseteq added'
    BY <1>2, <1>4 DEF Listed, ToSet
<1> QED  BY <1>2, <1>4, <1>5, RoundRestarts

LEMMA RoundNext ==
    ASSUME BalancerInv, BalancerInv', RoundInv,
           [BalancerNext]_balancerVars
    PROVE  RoundInv'
<1> BalancerTypes'
    BY DEF BalancerInv
<1> USE DEF listVars, stateVars
<1>1. ASSUME NEW c \in Callers, CallerNext(c) PROVE RoundInv'
    <2>1. CASE SelectRoundRobin(c)
        BY <2>1, RoundStep
    <2>2. CASE SelectWeighted(c) \/ SelectPanics(c)
        BY <2>2, RoundKept DEF SelectWeighted, SelectPanics,
                               Chooses
    <2>3. CASE \/ Filter(c) \/ TakeGuard(c) \/ BackendGuardDrop(c)
               \/ RecordSuccess(c) \/ RecordFailure(c)
        BY <2>3, RoundKept
           DEF Filter, TakeGuard, BackendGuardDrop,
               RecordSuccess, RecordFailure
    <2>4. CASE SelectLeastConnections(c) \/ SelectRandom(c)
        BY <2>4, RoundKept
           DEF SelectLeastConnections, SelectRandom,
               Chooses
    <2> QED  BY <1>1, <2>1, <2>2, <2>3, <2>4 DEF CallerNext
<1>2. ASSUME NEW k \in Checkers, CheckerNext(k) PROVE RoundInv'
    <2>1. CASE CheckPasses(k)
        BY <2>1, HealthStep DEF CheckPasses
    <2>2. CASE MarkUnhealthy(k)
        BY <2>2, HealthStep DEF MarkUnhealthy
    <2>3. CASE \/ \E b \in States : StartCheck(k, b)
               \/ ClearFailures(k) \/ CheckFails(k)
        BY <2>3, RoundKept DEF StartCheck, ClearFailures,
                               CheckFails
    <2> QED  BY <1>2, <2>1, <2>2, <2>3 DEF CheckerNext
<1>3. ASSUME NEW a, NEW value \in BOOLEAN, SetBackendHealth(a, value)
      PROVE  RoundInv'
    BY <1>3, HealthStep DEF SetBackendHealth
<1>4. CASE UNCHANGED balancerVars
    BY <1>4, RoundKept DEF balancerVars
<1> QED  BY <1>1, <1>2, <1>3, <1>4, AddRound, RemoveRound DEF BalancerNext

\* However many selects run at once, round-robin chooses no healthy backend a
\* second time before it has chosen every other one, as long as the list of
\* healthy backends stays the same (load_balancer.rs:268-275).
THEOREM RoundRobinTheorem == BalancerSpec => []RoundRobinEven
<1>1. BalancerInit => RoundInv
    BY BalancerInitially, RoundInit DEF BalancerInv
<1>2. BalancerInv /\ BalancerInv' /\ RoundInv /\ [BalancerNext]_balancerVars => RoundInv'
    BY RoundNext
<1>3. BalancerInv /\ RoundInv => RoundRobinEven
    <2> DEFINE h == HealthyList
    <2> SUFFICES ASSUME BalancerInv, RoundInv, strategy = "RoundRobin"
                 PROVE  \A b, d \in ToSet(h) : picks[b] <= picks[d] + 1
        BY DEF RoundRobinEven
    <2>1. h \in Seq(States)
        BY HealthyListed DEF BalancerInv
    <2>2. CASE h = <<>>
        BY <2>2 DEF ToSet
    <2>3. CASE h # <<>>
        <3>1. PICK r, n : Round(picks, h, r, n)
            BY <2>3 DEF RoundInv
        <3> HIDE DEF h
        <3>2. \A i \in 1 .. Len(h) : i - 1 \in 0 .. Len(h) - 1 /\ (i - 1) + 1 = i
            BY <2>1
        <3>3. \A i \in 1 .. Len(h) : picks[h[i]] \in {0, 1}
            BY <3>1, <3>2 DEF Round
        <3> QED  BY <2>1, <3>3 DEF ToSet
    <2> QED  BY <2>2, <2>3
<1> QED  BY <1>1, <1>2, <1>3, BalancerInvariant, PTL DEF BalancerSpec

-----------------------------------------------------------------------------
(* The cache of pooling/cache.rs. *)

\* What is assumed of the constants, as the proofs use it.
LEMMA CacheConstants ==
    /\ IsFiniteSet(Keys) /\ Capacity \in Nat /\ Ttl \in Nat \union {Absent}
    /\ LruModes \subseteq BOOLEAN /\ Absent \notin Nat
BY ConfigAssumption

CacheTypes ==
    /\ enableLru \in BOOLEAN
    /\ entries \in [Keys -> Nat \union {Absent}]
    /\ lru \in Seq(Keys)
    /\ clearing \in Nat

\* Between the two locks of a clear, what is cached was inserted since the
\* first: emptying the order takes no place from any other entry.
ClearInv == clearing > 0 => Cached \subseteq overtaken

CacheInv == CacheTypes /\ ClearInv /\ EntriesListed /\ CapacityWithoutLru

LEMMA ListedMeans ==
    /\ EntriesListed <=> (enableLru => Cached \ overtaken \subseteq Elements(lru))
    /\ EntriesListed' <=>
          (enableLru' => Cached' \ overtaken' \subseteq Elements(lru'))
BY DEF EntriesListed, Contains, Elements

\* There is room for n entries.
Room(n) == n <= IF Capacity = 0 THEN 1 ELSE Capacity

LEMMA CapacityMeans ==
    /\ CapacityWithoutLru <=> (~enableLru => Room(Cardinality(Cached)))
    /\ CapacityWithoutLru' <=>
          (~enableLru' => Room(Cardinality(Cached')))
BY DEF CapacityWithoutLru, Room

\* What taking keys out of the order leaves.
LEMMA UnlistedKeys ==
    ASSUME CacheTypes, NEW ks
    PROVE  /\ Unlisted(ks) \in Seq(Keys)
           /\ Elements(lru) \ ks \subseteq Elements(Unlisted(ks))
<1> DEFINE P == DOMAIN lru \ FirstPlaces(ks)
<1>0. P \subseteq 1 .. Len(lru)
    BY DEF CacheTypes
<1>1. lru \in Seq(Keys) /\ DOMAIN lru = 1 .. Len(lru)
    BY DEF CacheTypes
<1>2. Unlisted(ks) = Kept(lru, P)
    BY DEF Unlisted
<1>3. \A i \in 1 .. Len(lru) : lru[i] \notin ks => i \in P
    BY <1>1 DEF FirstPlaces
<1> HIDE DEF P
<1>4. /\ Kept(lru, P) \in Seq(Keys)
      /\ \A i \in P : lru[i] \in Elements(Kept(lru, P))
    <2>1. \A i \in P : lru[i] \in Keys
        BY <1>0, <1>1
    <2> QED  BY <1>0, <1>1, <2>1, KeptElements
<1>5. Elements(lru) \ ks \subseteq Elements(Kept(lru, P))
    BY <1>3, <1>4 DEF Elements
<1> QED  BY <1>2, <1>4, <1>5

\* A key put at the back has a place, and no other loses its own.
LEMMA AppendedKeys ==
    ASSUME NEW s \in Seq(Keys), NEW k \in Keys
    PROVE  /\ Append(s, k) \in Seq(Keys)
           /\ Elements(Append(s, k)) = Elements(s) \union {k}
<1>1. /\ Append(s, k) \in Seq(Keys) /\ Len(Append(s, k)) = Len(s) + 1
      /\ \A i \in 1 .. Len(s) : Append(s, k)[i] = s[i]
      /\ Append(s, k)[Len(s) + 1] = k
    BY AppendProperties
<1>2. Len(s) \in Nat
    OBVIOUS
<1>3. \A i \in 1 .. Len(s) + 1 : i \in 1 .. Len(s) \/ i = Len(s) + 1
    BY <1>2
<1>4. 1 .. Len(s) \subseteq 1 .. Len(s) + 1 /\ Len(s) + 1 \in 1 .. Len(s) + 1
    BY <1>2
<1> DEFINE t == Append(s, k)
           n == Len(s) + 1
<1> HIDE DEF t, n
<1> QED  BY <1>1, <1>3, <1>4 DEF Elements, t, n

\* Without its front an order lacks at most the key that was there.
LEMMA TailKeys ==
    ASSUME NEW s \in Seq(Keys), s # <<>>
    PROVE  /\ Head(s) \in Keys /\ Tail(s) \in Seq(Keys)
           /\ Elements(s) \ {Head(s)} \subseteq Elements(Tail(s))
<1>1. Len(s) \in Nat \ {0} /\ Head(s) = s[1]
    BY EmptySeq
<1>2. /\ Tail(s) \in Seq(Keys) /\ Len(Tail(s)) = Len(s) - 1
      /\ \A i \in 1 .. Len(s) - 1 : Tail(s)[i] = s[i + 1]
    BY <1>1
<1>3. ASSUME NEW i \in 1 .. Len(s), s[i] # Head(s)
      PROVE  s[i] \in Elements(Tail(s))
    <2>1. i - 1 \in 1 .. Len(s) - 1 /\ (i - 1) + 1 = i
        BY <1>1, <1>3
    <2>2. Tail(s)[i - 1] = s[i]
        BY <1>2, <2>1
    <2> QED  BY <1>2, <2>1, <2>2 DEF Elements
<1>4. Head(s) \in Keys
    BY <1>1
<1> QED  BY <1>2, <1>3, <1>4 DEF Elements

LEMMA CachedFinite ==
    IsFiniteSet(Cached) /\ Cardinality(Cached) \in Nat
<1>1. Cached \subseteq Keys
    BY DEF Cached
<1> QED  BY <1>1, FS_Subset, FS_CardinalityType, CacheConstants

\* Fewer entries: there is room for them.
LEMMA FewerEntries ==
    ASSUME NEW S, S \subseteq Cached,
           Room(Cardinality(Cached))
    PROVE  Room(Cardinality(S))
<1>1. /\ Cardinality(S) \in Nat /\ Cardinality(Cached) \in Nat
      /\ Cardinality(S) <= Cardinality(Cached)
    BY CachedFinite, FS_Subset, FS_CardinalityType
<1> QED  BY <1>1, CacheConstants DEF Room

LEMMA CacheInitially == ASSUME CacheInit PROVE CacheInv
<1>1. CacheTypes /\ Cached = {}
    BY CacheConstants DEF CacheTypes, CacheInit, Cached
<1>2. Room(Cardinality({}))
    BY FS_EmptySet, CacheConstants DEF Room
<1> QED  BY <1>1, <1>2, ListedMeans, CapacityMeans DEF CacheInv, ClearInv, CacheInit

\* An insert of k, with the keys of gone evicted.
LEMMA InsertedEntries ==
    ASSUME CacheTypes, NEW k \in Keys, NEW gone, NEW order,
           InsertWithout(k, gone, order)
    PROVE  /\ entries' \in [Keys -> Nat \union {Absent}]
           /\ Cached' = (Cached \ gone) \union {k}
           /\ clearing > 0 => overtaken' = (overtaken \ gone) \union {k}
           /\ overtaken \ (gone \union {k}) \subseteq overtaken'
<1>1. entries' = [j \in Keys |-> IF j = k THEN 0
                                 ELSE IF j \in gone THEN Absent ELSE entries[j]]
    BY DEF InsertWithout
<1>2. entries' \in [Keys -> Nat \union {Absent}]
    BY <1>1 DEF CacheTypes
<1>3. Cached' = (Cached \ gone) \union {k}
    BY <1>1, CacheConstants DEF Cached
<1>4. /\ clearing > 0 => overtaken' = (overtaken \ gone) \union {k}
      /\ overtaken \ (gone \union {k}) \subseteq overtaken'
    BY DEF InsertWithout
<1> QED  BY <1>2, <1>3, <1>4

\* The map after an insert that has made the room it needs.
LEMMA InsertedRoom ==
    ASSUME CacheInv, NEW k \in Keys, ~enableLru,
           NEW gone, gone = {} \/ \E v \in Cached : gone = {v},
           MustEvict(k) /\ Cached # {} => gone # {}
    PROVE  Room(Cardinality((Cached \ gone) \union {k}))
<1> DEFINE C == Cached
<1>1. IsFiniteSet(C) /\ Cardinality(C) \in Nat /\ Capacity \in Nat
    BY CachedFinite, CacheConstants
<1>2. Room(Cardinality(C))
    BY CapacityMeans DEF CacheInv
<1>3. /\ IsFiniteSet(C \ gone) /\ Cardinality(C \ gone) \in Nat
      /\ gone = {} => C \ gone = C
      /\ gone # {} => Cardinality(C \ gone) = Cardinality(C) - 1
    <2>1. CASE gone = {}
        BY <1>1, <2>1
    <2>2. CASE \E v \in C : gone = {v}
        BY <1>1, <2>2, FS_RemoveElement, FS_CardinalityType
    <2> QED  BY <2>1, <2>2
<1>4. /\ Cardinality((C \ gone) \union {k}) = IF k \in C \ gone THEN Cardinality(C \ gone)
                                               ELSE Cardinality(C \ gone) + 1
    BY <1>3, FS_AddElement
<1>5. MustEvict(k) <=> Cardinality(C) >= Capacity /\ k \notin C
    BY DEF MustEvict
<1>6. C = {} => Cardinality(C) = 0
    BY FS_EmptySet
<1>7. CASE gone # {}
    BY <1>1, <1>2, <1>3, <1>4, <1>7 DEF Room
<1>8. CASE gone = {} /\ k \in C
    BY <1>1, <1>2, <1>3, <1>4, <1>8 DEF Room
<1>9. CASE gone = {} /\ k \notin C
    <2>1. Cardinality(C) < Capacity \/ C = {}
        BY <1>1, <1>5, <1>9
    <2> QED  BY <1>1, <1>3, <1>4, <1>6, <1>9, <2>1 DEF Room
<1> QED  BY <1>7, <1>8, <1>9

LEMMA InsertStep ==
    ASSUME CacheInv, NEW k \in Keys,
           Insert(k) \/ InsertEvicting(k)
    PROVE  CacheInv'
<1> USE DEF CacheInv
<1>0. UNCHANGED <<enableLru, clearing>>
    BY DEF Insert, InsertEvicting
<1>1. PICK gone, order :
         /\ InsertWithout(k, gone, order)
         /\ order \in Seq(Keys)
         /\ enableLru => Elements(lru) \ gone \subseteq Elements(order)
         /\ ~enableLru =>
               /\ gone = {} \/ \E v \in Cached : gone = {v}
               /\ MustEvict(k) /\ Cached # {} => gone # {}
    <2>1. CASE Insert(k)
        BY <2>1 DEF Insert, CacheTypes
    <2>2. CASE InsertEvicting(k)
        <3> DEFINE o == OrderAfterEviction
        <3>1. CASE ~enableLru
            <4>1. o = lru /\ Victims = Cached
                BY <3>1 DEF OrderAfterEviction, Victims
            <4>2. CASE Cached = {}
                BY <2>2, <3>1, <4>1, <4>2 DEF InsertEvicting, CacheTypes
            <4>3. CASE Cached # {}
                <5>1. PICK v \in Cached : InsertWithout(k, {v}, o)
                    BY <2>2, <4>1, <4>3 DEF InsertEvicting
                <5> QED  BY <3>1, <4>1, <5>1 DEF CacheTypes
            <4> QED  BY <4>2, <4>3
        <3>2. CASE enableLru /\ lru = <<>>
            <4>1. o = lru /\ Victims = {}
                BY <3>2 DEF OrderAfterEviction, Victims
            <4> QED  BY <2>2, <3>2, <4>1 DEF InsertEvicting, CacheTypes
        <3>3. CASE enableLru /\ lru # <<>>
            <4>1. o = Tail(lru) /\ Victims = {Head(lru)}
                BY <3>3 DEF OrderAfterEviction, Victims
            <4>2. InsertWithout(k, {Head(lru)}, Tail(lru))
                BY <2>2, <4>1 DEF InsertEvicting
            <4> QED  BY <3>3, <4>2, TailKeys DEF CacheTypes
        <3> QED  BY <3>1, <3>2, <3>3
    <2> QED  BY <2>1, <2>2
<1>2. /\ entries' \in [Keys -> Nat \union {Absent}]
      /\ Cached' = (Cached \ gone) \union {k}
      /\ clearing > 0 => overtaken' = (overtaken \ gone) \union {k}
      /\ overtaken \ (gone \union {k}) \subseteq overtaken'
    BY <1>1, InsertedEntries
<1>3. lru' = IF enableLru THEN Append(order, k) ELSE lru
    BY <1>1 DEF InsertWithout
<1>4. CacheTypes'
    BY <1>0, <1>1, <1>2, <1>3, AppendedKeys DEF CacheTypes
<1>5. ClearInv'
    BY <1>0, <1>2 DEF ClearInv
<1>6. EntriesListed'
    <2> SUFFICES ASSUME enableLru
                 PROVE  Cached' \ overtaken' \subseteq Elements(lru')
        BY <1>0, ListedMeans
    <2>1. Elements(lru') = Elements(order) \union {k}
        BY <1>1, <1>3, AppendedKeys
    <2>2. Cached \ overtaken \subseteq Elements(lru)
        BY ListedMeans
    <2> QED  BY <1>1, <1>2, <2>1, <2>2
<1>7. CapacityWithoutLru'
    <2> SUFFICES ASSUME ~enableLru PROVE Room(Cardinality(Cached'))
        BY <1>0, CapacityMeans
    <2> QED  BY <1>1, <1>2, InsertedRoom
<1> QED  BY <1>4, <1>5, <1>6, <1>7

\* Entries leave with their first places, or time passes.
LEMMA DropStep ==
    ASSUME CacheInv, NEW ks, Drop(ks)
    PROVE  CacheInv'
<1> USE DEF CacheInv
<1>1. /\ entries' = [k \in Keys |-> IF k \in ks THEN Absent ELSE entries[k]]
      /\ lru' = IF enableLru THEN Unlisted(ks) ELSE lru
      /\ overtaken' = overtaken \ ks
      /\ UNCHANGED <<enableLru, clearing>>
    BY DEF Drop
<1>2. /\ Unlisted(ks) \in Seq(Keys)
      /\ Elements(lru) \ ks \subseteq Elements(Unlisted(ks))
    BY UnlistedKeys
<1>3. CacheTypes'
    BY <1>1, <1>2 DEF CacheTypes
<1>4. Cached' = Cached \ ks
    BY <1>1 DEF Cached
<1>5. ClearInv'
    BY <1>1, <1>4 DEF ClearInv
<1>6. EntriesListed'
    BY <1>1, <1>2, <1>4, ListedMeans
<1>7. CapacityWithoutLru'
    BY <1>1, <1>4, FewerEntries, CapacityMeans
<1> QED  BY <1>3, <1>5, <1>6, <1>7

LEMMA CacheKeyStep ==
    ASSUME CacheInv, NEW k \in Keys,
           \/ GetHit(k) \/ GetExpired(k) \/ InsertAcrossClear(k)
    PROVE  CacheInv'
<1> USE DEF CacheInv
<1>1. CASE GetHit(k)
    <2>1. /\ lru' = IF enableLru THEN MovedToBack(k) ELSE lru
          /\ UNCHANGED <<enableLru, entries, clearing, overtaken>>
        BY <1>1 DEF GetHit
    <2>2. MovedToBack(k) \in Seq(Keys)
          /\ Elements(lru) \subseteq Elements(MovedToBack(k))
        <3>1. /\ Unlisted({k}) \in Seq(Keys)
              /\ Elements(lru) \ {k} \subseteq Elements(Unlisted({k}))
            BY UnlistedKeys
        <3>2. /\ Append(Unlisted({k}), k) \in Seq(Keys)
              /\ Elements(Append(Unlisted({k}), k)) = Elements(Unlisted({k})) \union {k}
            BY <3>1, AppendedKeys
        <3> QED  BY <3>1, <3>2 DEF MovedToBack, CacheTypes
    <2>3. Cached' = Cached
        BY <2>1 DEF Cached
    <2>4. CacheTypes' /\ ClearInv'
        BY <2>1, <2>2, <2>3 DEF CacheTypes, ClearInv
    <2> QED  BY <2>1, <2>2, <2>3, <2>4, ListedMeans, CapacityMeans
<1>2. CASE GetExpired(k)
    <2>1. /\ entries' = [entries EXCEPT ![k] = Absent] /\ overtaken' = overtaken \ {k}
          /\ UNCHANGED <<enableLru, lru, clearing>>
        BY <1>2 DEF GetExpired
    <2>2. CacheTypes' /\ Cached' = Cached \ {k}
        BY <2>1 DEF CacheTypes, Cached
    <2>3. ClearInv'
        BY <2>1, <2>2 DEF ClearInv
    <2>4. EntriesListed'
        BY <2>1, <2>2, ListedMeans
    <2>5. CapacityWithoutLru'
        BY <2>1, <2>2, FewerEntries, CapacityMeans
    <2> QED  BY <2>2, <2>3, <2>4, <2>5
<1>3. CASE InsertAcrossClear(k)
    <2>1. /\ enableLru /\ clearing > 0 /\ clearing' = clearing - 1 /\ UNCHANGED enableLru
          /\ InsertWithout(k, Victims, <<>>)
        BY <1>3 DEF InsertAcrossClear
    <2>2. /\ entries' \in [Keys -> Nat \union {Absent}]
          /\ Cached' = (Cached \ Victims) \union {k}
          /\ overtaken' = (overtaken \ Victims) \union {k}
        BY <2>1, InsertedEntries
    <2>3. Cached' \subseteq overtaken'
        BY <2>1, <2>2 DEF ClearInv
    <2>4. <<>> \in Seq(Keys) /\ lru' = Append(<<>>, k)
        BY <2>1 DEF InsertWithout
    <2>5. lru' \in Seq(Keys)
        BY <2>4, AppendedKeys
    <2>6. CacheTypes'
        BY <2>1, <2>2, <2>5 DEF CacheTypes
    <2> QED  BY <2>1, <2>3, <2>6, ListedMeans, CapacityMeans DEF ClearInv
<1> QED  BY <1>1, <1>2, <1>3

LEMMA CacheStep ==
    ASSUME CacheInv, [CacheNext]_cacheVars
    PROVE  CacheInv'
<1> USE DEF CacheInv
<1>1. CASE ClearEntries
    <2>1. /\ entries' = [k \in Keys |-> Absent]
          /\ clearing' = IF enableLru THEN clearing + 1 ELSE clearing
          /\ UNCHANGED <<enableLru, lru>>
        BY <1>1 DEF ClearEntries
    <2>2. Cached' = {} /\ CacheTypes'
        BY <2>1 DEF Cached, CacheTypes
    <2>3. Room(Cardinality({}))
        BY FS_EmptySet, CacheConstants DEF Room
    <2> QED  BY <2>1, <2>2, <2>3, ListedMeans, CapacityMeans DEF ClearInv
<1>2. CASE ClearOrder
    <2>1. /\ clearing > 0 /\ lru' = <<>> /\ clearing' = clearing - 1
          /\ UNCHANGED <<enableLru, entries, overtaken>>
        BY <1>2 DEF ClearOrder
    <2>2. Cached' = Cached /\ Cached \subseteq overtaken
        BY <2>1 DEF Cached, ClearInv
    <2>3. <<>> \in Seq(Keys)
        BY EmptySeq
    <2>4. CacheTypes'
        BY <2>1, <2>3 DEF CacheTypes
    <2> QED  BY <2>1, <2>2, <2>4, ListedMeans, CapacityMeans DEF ClearInv
<1>3. CASE Tick \/ UNCHANGED cacheVars
    <2>1. UNCHANGED <<enableLru, lru, clearing, overtaken>>
        BY <1>3 DEF Tick, cacheVars
    <2>2. entries' \in [Keys -> Nat \union {Absent}] /\ Cached' = Cached
        BY <1>3, CacheConstants DEF Tick, cacheVars, Cached, CacheTypes
    <2>3. CacheTypes' /\ ClearInv'
        BY <2>1, <2>2 DEF CacheTypes, ClearInv
    <2> QED  BY <2>1, <2>2, <2>3, ListedMeans, CapacityMeans
<1> QED  BY <1>1, <1>2, <1>3, InsertStep, DropStep, CacheKeyStep
         DEF CacheNext, RemoveKey, PruneExpired

LEMMA CacheInvariant == CacheSpec => []CacheInv
<1>1. CacheInit => CacheInv
    BY CacheInitially
<1>2. CacheInv /\ [CacheNext]_cacheVars => CacheInv'
    BY CacheStep
<1> QED  BY <1>1, <1>2, PTL DEF CacheSpec

-----------------------------------------------------------------------------
(* The bounds of the model are kept to: the ages, the order, the clears. *)

\* The order gets no longer when keys are taken out of it, and shorter when one
\* was there.
LEMMA UnlistedLength ==
    ASSUME CacheTypes, NEW ks
    PROVE  /\ Len(Unlisted(ks)) \in Nat /\ Len(Unlisted(ks)) <= Len(lru)
           /\ \A k \in ks : Contains(lru, k) => Len(Unlisted(ks)) < Len(lru)
<1> DEFINE P == DOMAIN lru \ FirstPlaces(ks)
<1>1. lru \in Seq(Keys) /\ DOMAIN lru = 1 .. Len(lru) /\ Len(lru) \in Nat
    BY DEF CacheTypes
<1>2. P \subseteq 1 .. Len(lru) /\ Unlisted(ks) = Kept(lru, P)
    BY <1>1 DEF Unlisted
<1>3. ASSUME NEW k \in ks, Contains(lru, k) PROVE P # 1 .. Len(lru)
    <2> DEFINE Q == {i \in 1 .. Len(lru) : lru[i] = k}
    <2>1. Q \subseteq Int /\ Q # {}
        BY <1>1, <1>3 DEF Contains
    <2>2. IsFiniteSet(Q)
        <3>1. IsFiniteSet(1 .. Len(lru)) /\ Q \in SUBSET (1 .. Len(lru))
            BY <1>1, FS_Interval
        <3> HIDE DEF Q
        <3> QED  BY <3>1, FS_Subset
    <2>3. PICK i \in Q : \A j \in Q : i <= j
        <3> HIDE DEF Q
        <3> QED  BY <2>1, <2>2, Least
    <2>4. \A j \in 1 .. i - 1 : j \notin Q /\ j \in 1 .. Len(lru)
        BY <1>1, <2>3
    <2>5. i \in FirstPlaces(ks) /\ i \in 1 .. Len(lru)
        BY <1>1, <2>3, <2>4 DEF FirstPlaces
    <2> QED  BY <2>5
<1> HIDE DEF P
<1> QED  BY <1>1, <1>2, <1>3, KeptLength

\* The age of an entry that is new, and of one that gets older.
LEMMA AgeTypes ==
    /\ 0 \in Ages /\ Ages \subseteq Nat
    /\ \A a \in Ages : Ttl # Absent /\ a # Ttl + 1 => a + 1 \in Ages
BY CacheConstants DEF Ages

LEMMA InsertTypes ==
    ASSUME CacheTypeOK, NEW k \in Keys, NEW gone, NEW order \in Seq(Keys),
           Len(order) < MaxOrder, InsertWithout(k, gone, order)
    PROVE  /\ entries' \in [Keys -> Ages \union {Absent}]
           /\ lru' \in Seq(Keys) /\ Len(lru') <= MaxOrder
           /\ overtaken' \subseteq Keys
<1>1. entries' \in [Keys -> Ages \union {Absent}]
    BY AgeTypes DEF CacheTypeOK, InsertWithout
<1>2. Append(order, k) \in Seq(Keys) /\ Len(Append(order, k)) <= MaxOrder
    BY ConfigAssumption, AppendProperties
<1> QED  BY <1>1, <1>2 DEF CacheTypeOK, InsertWithout

LEMMA CacheTypeStep ==
    ASSUME CacheInv, CacheTypeOK, [CacheNext]_cacheVars
    PROVE  CacheTypeOK'
<1> USE DEF CacheTypeOK
<1>0. CacheTypes /\ Len(lru) \in Nat /\ MaxOrder \in Nat /\ MaxClears \in Nat
    BY ConfigAssumption DEF CacheInv
<1>1. ASSUME NEW k \in Keys, GetHit(k) PROVE CacheTypeOK'
    <2>1. MovedToBack(k) \in Seq(Keys) /\ Len(MovedToBack(k)) <= Len(lru)
        <3>1. /\ Unlisted({k}) \in Seq(Keys) /\ Len(Unlisted({k})) \in Nat
              /\ Contains(lru, k) => Len(Unlisted({k})) < Len(lru)
            BY <1>0, UnlistedKeys, UnlistedLength
        <3> HIDE DEF CacheTypeOK
        <3>2. /\ Append(Unlisted({k}), k) \in Seq(Keys)
              /\ Len(Append(Unlisted({k}), k)) = Len(Unlisted({k})) + 1
            BY <3>1, AppendProperties
        <3> QED  BY <1>0, <3>1, <3>2 DEF MovedToBack, CacheTypes
    <2> QED  BY <1>0, <1>1, <2>1 DEF GetHit
<1>2. ASSUME NEW k \in Keys, GetExpired(k) PROVE CacheTypeOK'
    BY <1>2 DEF GetExpired
<1>3. ASSUME NEW k \in Keys, Insert(k) \/ InsertEvicting(k) PROVE CacheTypeOK'
    <2>1. UNCHANGED <<enableLru, clearing>> /\ Len(lru) < MaxOrder
        BY <1>3 DEF Insert, InsertEvicting
    <2>2. OrderAfterEviction \in Seq(Keys) /\ Len(OrderAfterEviction) <= Len(lru)
        BY <1>0, EmptySeq DEF OrderAfterEviction, CacheTypes
    <2>3. Len(OrderAfterEviction) < MaxOrder
        BY <1>0, <2>1, <2>2
    <2>4. \E gone, order : /\ order \in Seq(Keys) /\ Len(order) < MaxOrder
                           /\ InsertWithout(k, gone, order)
        BY <1>3, <2>1, <2>2, <2>3 DEF Insert, InsertEvicting
    <2> QED  BY <2>1, <2>4, InsertTypes
<1>4. ASSUME NEW k \in Keys, InsertAcrossClear(k) PROVE CacheTypeOK'
    <2>1. /\ lru # <<>> /\ clearing > 0 /\ clearing' = clearing - 1 /\ UNCHANGED enableLru
          /\ InsertWithout(k, Victims, <<>>)
        BY <1>4 DEF InsertAcrossClear
    <2>2. <<>> \in Seq(Keys) /\ Len(<<>>) < MaxOrder
        BY <1>0, <2>1, EmptySeq
    <2>3. clearing' \in 0 .. MaxClears
        BY <1>0, <2>1
    <2>4. /\ entries' \in [Keys -> Ages \union {Absent}]
          /\ lru' \in Seq(Keys) /\ Len(lru') <= MaxOrder
          /\ overtaken' \subseteq Keys
        <3> HIDE DEF CacheTypeOK
        <3> QED  BY <2>1, <2>2, InsertTypes
    <2> QED  BY <2>1, <2>3, <2>4
<1>5. ASSUME NEW ks, Drop(ks) PROVE CacheTypeOK'
    <2>1. Unlisted(ks) \in Seq(Keys) /\ Len(Unlisted(ks)) <= MaxOrder
        BY <1>0, UnlistedKeys, UnlistedLength
    <2> QED  BY <1>5, <2>1 DEF Drop
<1>6. CASE ClearEntries
    BY <1>0, <1>6 DEF ClearEntries
<1>7. CASE ClearOrder
    <2>1. <<>> \in Seq(Keys) /\ Len(<<>>) <= MaxOrder
        BY <1>0, EmptySeq
    <2> QED  BY <1>0, <1>7, <2>1 DEF ClearOrder
<1>8. CASE Tick
    <2>1. \A k \in Cached : ~IsExpired(k) => entries[k] + 1 \in Ages
        BY <1>8, AgeTypes DEF Tick, Cached, IsExpired
    <2> QED  BY <1>8, <2>1 DEF Tick
<1>9. CASE UNCHANGED cacheVars
    BY <1>9 DEF cacheVars
<1> QED  BY <1>1, <1>2, <1>3, <1>4, <1>5, <1>6, <1>7, <1>8, <1>9
         DEF CacheNext, RemoveKey, PruneExpired

\* With LRU every entry has its place in lru_order, except those an insert put
\* there while a clear was between its two locks (cache.rs:106-231).
THEOREM OrderTheorem == CacheSpec => [](CacheTypeOK /\ EntriesListed)
<1>1. CacheInv => EntriesListed
    BY DEF CacheInv
<1>2. CacheInit => CacheTypeOK
    BY ConfigAssumption, EmptySeq DEF CacheInit, CacheTypeOK
<1>3. CacheInv /\ CacheTypeOK /\ [CacheNext]_cacheVars => CacheTypeOK'
    BY CacheTypeStep
<1> QED  BY <1>1, <1>2, <1>3, CacheInvariant, PTL DEF CacheSpec

\* Without LRU the map never exceeds its capacity, or 1 when that is 0
\* (cache.rs:130-172).
THEOREM CapacityTheorem == CacheSpec => []CapacityWithoutLru
<1>1. CacheInv => CapacityWithoutLru
    BY DEF CacheInv
<1> QED  BY <1>1, CacheInvariant, PTL

=============================================================================
