--------------------------- MODULE CountingProofs ---------------------------
(***************************************************************************)
(* Lemmas for the components that count: how the number of parties at      *)
(* given points changes when one of them moves, what is kept of a          *)
(* sequence, and the remainders of a number that goes up.                  *)
(***************************************************************************)
EXTENDS Counting, Sequences, FiniteSetTheorems, TLAPS

\* Finitely many parties can be counted.
LEMMA WhereFinite ==
    ASSUME NEW f, IsFiniteSet(DOMAIN f), NEW S
    PROVE  IsFiniteSet(Where(f, S)) /\ Cardinality(Where(f, S)) \in Nat
<1>1. Where(f, S) \subseteq DOMAIN f
    BY DEF Where
<1>2. IsFiniteSet(Where(f, S))
    BY <1>1, FS_Subset
<1> QED  BY <1>2, FS_CardinalityType

\* A party enters the points S: one more.
LEMMA WhereEnter ==
    ASSUME NEW f, IsFiniteSet(DOMAIN f), NEW S, NEW x \in DOMAIN f, NEW v,
           f[x] \notin S, v \in S
    PROVE  Cardinality(Where([f EXCEPT ![x] = v], S))
             = Cardinality(Where(f, S)) + 1
<1>1. Where([f EXCEPT ![x] = v], S) = Where(f, S) \union {x}
    BY DEF Where
<1>2. x \notin Where(f, S)
    BY DEF Where
<1> QED  BY <1>1, <1>2, WhereFinite, FS_AddElement

\* A party leaves the points S: there was one, and there is one less.
LEMMA WhereLeave ==
    ASSUME NEW f, IsFiniteSet(DOMAIN f), NEW S, NEW x \in DOMAIN f, NEW v,
           f[x] \in S, v \notin S
    PROVE  /\ Cardinality(Where([f EXCEPT ![x] = v], S))
                = Cardinality(Where(f, S)) - 1
           /\ Cardinality(Where(f, S)) > 0
<1> DEFINE g == [f EXCEPT ![x] = v]
<1>1. Where(f, S) = Where(g, S) \union {x} /\ x \notin Where(g, S)
    BY DEF Where
<1>2. DOMAIN g = DOMAIN f
    OBVIOUS
<1>3. IsFiniteSet(Where(g, S)) /\ Cardinality(Where(g, S)) \in Nat
    <2> HIDE DEF g
    <2> QED  BY <1>2, WhereFinite
<1>4. Cardinality(Where(g, S) \union {x}) = Cardinality(Where(g, S)) + 1
    BY <1>1, <1>3, FS_AddElement
<1> QED  BY <1>1, <1>3, <1>4

\* A party stays at, or outside, the points S: the same parties are there.
LEMMA WhereStay ==
    ASSUME NEW f, NEW S, NEW x \in DOMAIN f, NEW v,
           (f[x] \in S) <=> (v \in S)
    PROVE  Where([f EXCEPT ![x] = v], S) = Where(f, S)
BY DEF Where

\* More points, no fewer parties.
LEMMA WhereMonotone ==
    ASSUME NEW f, IsFiniteSet(DOMAIN f), NEW S, NEW T,
           S \subseteq T
    PROVE  Cardinality(Where(f, S)) <= Cardinality(Where(f, T))
<1>1. Where(f, S) \subseteq Where(f, T)
    BY DEF Where
<1> QED  BY <1>1, WhereFinite, FS_Subset

\* Nobody is counted at points nobody has reached.
LEMMA WhereNone ==
    ASSUME NEW f, NEW S, \A x \in DOMAIN f : f[x] \notin S
    PROVE  Cardinality(Where(f, S)) = 0
<1>1. Where(f, S) = {}
    BY DEF Where
<1> QED  BY <1>1, FS_EmptySet

-----------------------------------------------------------------------------
(* The places of a sequence. *)

\* Every number up to the size of P counts one of its elements, and every
\* element is counted, once.
LEMMA Counted ==
    ASSUME NEW P, P \subseteq Int, IsFiniteSet(P)
    PROVE  /\ \A n \in 1 .. Cardinality(P) : Nth(P, n) \in P
           /\ \A i \in P : \E n \in 1 .. Cardinality(P) : Nth(P, n) = i
           /\ \A n, m \in 1 .. Cardinality(P) : Nth(P, n) = Nth(P, m) => n = m
           /\ \A n \in 1 .. Cardinality(P) : Cardinality({j \in P : j <= Nth(P, n)}) = n
<1> DEFINE N == Cardinality(P)
           Upto(i) == {j \in P : j <= i}
           rank == [i \in P |-> Cardinality(Upto(i))]
<1>1. N \in Nat /\ IsFiniteSet(1 .. N) /\ Cardinality(1 .. N) = N
    <2>1. N \in Nat
        BY FS_CardinalityType
    <2> HIDE DEF N
    <2>2. IsFiniteSet(1 .. N) /\ Cardinality(1 .. N) = IF 1 > N THEN 0 ELSE N - 1 + 1
        BY <2>1, FS_Interval
    <2> QED  BY <2>1, <2>2
<1>2. ASSUME NEW i \in P
      PROVE  /\ IsFiniteSet(Upto(i)) /\ Cardinality(Upto(i)) \in Nat
             /\ Cardinality(Upto(i)) \in 1 .. N
    <2>1. Upto(i) \in SUBSET P /\ i \in Upto(i)
        OBVIOUS
    <2> HIDE DEF Upto
    <2>2. IsFiniteSet(Upto(i)) /\ Cardinality(Upto(i)) <= N
        BY <2>1, FS_Subset
    <2>3. Cardinality(Upto(i)) \in Nat /\ Cardinality(Upto(i)) # 0
        BY <2>1, <2>2, FS_CardinalityType, FS_EmptySet
    <2> HIDE DEF N
    <2> QED  BY <1>1, <2>2, <2>3
<1>3. ASSUME NEW i \in P, NEW k \in P, i < k
      PROVE  Cardinality(Upto(i)) # Cardinality(Upto(k))
    <2>1. Upto(i) \in SUBSET Upto(k) /\ k \in Upto(k) /\ k \notin Upto(i)
        <3>1. i \in Int /\ k \in Int
            OBVIOUS
        <3>2. \A j \in Int : j <= i => j <= k
            BY <1>3, <3>1
        <3>3. k <= k /\ ~(k <= i)
            BY <1>3, <3>1
        <3> QED  BY <3>2, <3>3
    <2>2. IsFiniteSet(Upto(k))
        BY <1>2
    <2> HIDE DEF Upto
    <2> QED  BY <2>1, <2>2, FS_Subset
<1>4. ASSUME NEW i \in P, NEW k \in P, Cardinality(Upto(i)) = Cardinality(Upto(k))
      PROVE  i = k
    <2>1. i < k \/ k < i \/ i = k
        OBVIOUS
    <2> HIDE DEF Upto
    <2> QED  BY <1>3, <1>4, <2>1
<1> HIDE DEF Upto
<1>5. rank \in [P -> 1 .. N]
    BY <1>2
<1>6. rank \in Injection(P, 1 .. N)
    <2>1. \A i, k \in P : rank[i] = rank[k] => i = k
        BY <1>4
    <2> HIDE DEF rank
    <2> QED  BY <1>5, <2>1 DEF Injection, IsInjective
<1>7. rank \in Surjection(P, 1 .. N)
    <2> HIDE DEF rank
    <2> QED  BY <1>1, <1>6, FS_Injection DEF N
<1>8. ASSUME NEW n \in 1 .. N
      PROVE  \E i \in P : Cardinality(Upto(i)) = n
    <2>1. \E i \in P : rank[i] = n
        <3> HIDE DEF rank
        <3> QED  BY <1>7 DEF Surjection
    <2> QED  BY <2>1
<1>9. ASSUME NEW n \in 1 .. N
      PROVE  Nth(P, n) \in P /\ Cardinality(Upto(Nth(P, n))) = n
    BY <1>8 DEF Nth, Upto
<1>10. ASSUME NEW i \in P
       PROVE  \E n \in 1 .. N : Nth(P, n) = i
    <2>1. Cardinality(Upto(i)) \in 1 .. N
        BY <1>2
    <2>2. Nth(P, Cardinality(Upto(i))) = i
        BY <1>4, <1>9, <2>1
    <2> QED  BY <2>1, <2>2
<1>11. \A n, m \in 1 .. N : Nth(P, n) = Nth(P, m) => n = m
    BY <1>9
<1>12. \A n \in 1 .. N : Cardinality({j \in P : j <= Nth(P, n)}) = n
    BY <1>9 DEF Upto
<1> QED  BY <1>9, <1>10, <1>11, <1>12

\* The first element counted is the least.
LEMMA Least ==
    ASSUME NEW P, P \subseteq Int, IsFiniteSet(P), P # {}
    PROVE  \E i \in P : \A j \in P : i <= j
<1> DEFINE i == Nth(P, 1)
           U == {j \in P : j <= i}
<1>1. Cardinality(P) \in Nat /\ Cardinality(P) # 0
    BY FS_CardinalityType, FS_EmptySet
<1>2. i \in P /\ Cardinality(U) = 1
    <2>1. 1 \in 1 .. Cardinality(P)
        BY <1>1
    <2> QED  BY <2>1, Counted, Zenon
<1>3. IsFiniteSet(U) /\ i \in U
    <2>1. i <= i /\ U \in SUBSET P
        <3> HIDE DEF i
        <3> QED  BY <1>2
    <2>2. IsFiniteSet(U)
        BY <2>1, FS_Subset
    <2> QED  BY <1>2, <2>1, <2>2
<1>4. U = {i}
    <2> HIDE DEF U, i
    <2> QED  BY <1>2, <1>3, FS_Singleton
<1> HIDE DEF i
<1>5. \A j \in P : j <= i => j = i
    BY <1>4
<1>6. \A j \in P : i <= j
    BY <1>2, <1>5
<1> QED  BY <1>2, <1>6

\* What a sequence holds.
Elements(s) == {s[i] : i \in 1 .. Len(s)}

\* It holds nothing twice.
Distinct(s) == \A i, j \in 1 .. Len(s) : s[i] = s[j] => i = j

\* What is kept of a sequence are the elements at the places given, and all of
\* them.
LEMMA KeptElements ==
    ASSUME NEW S, NEW s \in Seq(S), NEW P, P \subseteq 1 .. Len(s),
           NEW T, \A i \in P : s[i] \in T
    PROVE  /\ Kept(s, P) \in Seq(T)
           /\ \A i \in P : s[i] \in Elements(Kept(s, P))
           /\ Distinct(s) => Distinct(Kept(s, P))
<1> DEFINE N == Cardinality(P)
           kept == [n \in 1 .. N |-> s[Nth(P, n)]]
<1>1. P \subseteq Int /\ IsFiniteSet(P) /\ N \in Nat
    <2>1. IsFiniteSet(1 .. Len(s))
        <3>1. 1 \in Int /\ Len(s) \in Int
            OBVIOUS
        <3> QED  BY <3>1, FS_Interval
    <2>2. P \in SUBSET (1 .. Len(s)) /\ P \subseteq Int
        OBVIOUS
    <2>3. IsFiniteSet(P)
        BY <2>1, <2>2, FS_Subset
    <2> QED  BY <2>2, <2>3, FS_CardinalityType
<1>2. \A n \in 1 .. N : Nth(P, n) \in P
    BY <1>1, Counted
<1>3. \A i \in P : \E n \in 1 .. N : Nth(P, n) = i
    BY <1>1, Counted
<1>a. \A n, m \in 1 .. N : Nth(P, n) = Nth(P, m) => n = m
    BY <1>1, Counted
<1> HIDE DEF N
<1>4. kept \in Seq(T) /\ Len(kept) = N
    <2>1. kept \in [1 .. N -> T]
        BY <1>2
    <2> HIDE DEF kept
    <2> QED  BY <1>1, <2>1
<1>5. \A i \in P : \E n \in 1 .. N : kept[n] = s[i]
    BY <1>3
<1>b. ASSUME Distinct(s), NEW m \in 1 .. N, NEW n \in 1 .. N, kept[m] = kept[n]
      PROVE  m = n
    <2>1. Nth(P, m) \in 1 .. Len(s) /\ Nth(P, n) \in 1 .. Len(s)
        BY <1>2
    <2>2. s[Nth(P, m)] = s[Nth(P, n)]
        BY <1>b
    <2>3. Nth(P, m) = Nth(P, n)
        BY <1>b, <2>1, <2>2 DEF Distinct
    <2> QED  BY <1>a, <2>3
<1>6. Kept(s, P) = kept
    BY DEF Kept, N
<1> HIDE DEF kept
<1>7. \A i \in P : s[i] \in Elements(kept)
    BY <1>4, <1>5 DEF Elements
<1>8. Distinct(s) => Distinct(kept)
    BY <1>4, <1>b DEF Distinct
<1> QED  BY <1>4, <1>6, <1>7, <1>8

\* It is shorter, unless every place is kept.
LEMMA KeptLength ==
    ASSUME NEW S, NEW s \in Seq(S), NEW P, P \subseteq 1 .. Len(s)
    PROVE  /\ Len(Kept(s, P)) \in Nat /\ Len(Kept(s, P)) <= Len(s)
           /\ P # 1 .. Len(s) => Len(Kept(s, P)) < Len(s)
<1> DEFINE D == 1 .. Len(s)
<1>1. Len(s) \in Nat /\ P \in SUBSET D
    OBVIOUS
<1>2. IsFiniteSet(D) /\ Cardinality(D) = Len(s)
    <2>1. IsFiniteSet(D) /\ Cardinality(D) = IF 1 > Len(s) THEN 0 ELSE Len(s) - 1 + 1
        BY <1>1, FS_Interval
    <2> QED  BY <1>1, <2>1
<1> HIDE DEF D
<1>3. /\ IsFiniteSet(P) /\ Cardinality(P) <= Len(s)
      /\ P # D => Cardinality(P) # Len(s)
    BY <1>1, <1>2, FS_Subset
<1>4. Cardinality(P) \in Nat
    BY <1>3, FS_CardinalityType
<1>5. Len(Kept(s, P)) = Cardinality(P)
    BY <1>4 DEF Kept
<1> QED  BY <1>1, <1>3, <1>4, <1>5 DEF D

\* A sequence that holds nothing twice is no longer than there are values.
LEMMA DistinctLength ==
    ASSUME NEW S, IsFiniteSet(S), NEW s \in Seq(S), Distinct(s)
    PROVE  Len(s) <= Cardinality(S)
<1>1. Len(s) \in Nat /\ s \in [1 .. Len(s) -> S]
    OBVIOUS
<1>2. s \in Injection(1 .. Len(s), S)
    BY <1>1 DEF Distinct, Injection, IsInjective
<1>3. Cardinality(1 .. Len(s)) <= Cardinality(S)
    BY <1>2, FS_Injection
<1>4. Cardinality(1 .. Len(s)) = IF 1 > Len(s) THEN 0 ELSE Len(s) - 1 + 1
    BY <1>1, FS_Interval
<1> QED  BY <1>1, <1>3, <1>4

-----------------------------------------------------------------------------
(* Counting round and round. *)

LEMMA Remainder ==
    ASSUME NEW N \in Nat \ {0}, NEW q \in Int, NEW r \in 0 .. N - 1
    PROVE  (N * q + r) % N = r
OBVIOUS

\* The next number has the next remainder.
LEMMA NextRemainder ==
    ASSUME NEW N \in Nat \ {0}, NEW i \in Nat
    PROVE  (i + 1) % N = IF (i % N) + 1 = N THEN 0 ELSE (i % N) + 1
<1> DEFINE q == i \div N
           r == i % N
<1>1. i = N * q + r /\ r \in 0 .. N - 1 /\ q \in Nat
    OBVIOUS
<1> HIDE DEF q, r
<1>2. CASE r + 1 = N
    <2>1. i + 1 = N * (q + 1) + 0
        BY <1>1, <1>2
    <2>2. q + 1 \in Int /\ 0 \in 0 .. N - 1
        BY <1>1
    <2>3. (N * (q + 1) + 0) % N = 0
        BY <2>2, Remainder
    <2> QED  BY <1>2, <2>1, <2>3 DEF r
<1>3. CASE r + 1 # N
    <2>1. i + 1 = N * q + (r + 1)
        BY <1>1
    <2>2. q \in Int /\ r + 1 \in 0 .. N - 1
        BY <1>1, <1>3
    <2>3. (N * q + (r + 1)) % N = r + 1
        BY <2>2, Remainder
    <2> QED  BY <1>3, <2>1, <2>3 DEF r
<1> QED  BY <1>2, <1>3

\* A counter kept modulo a multiple of N has the remainders of one that is not.
LEMMA WrappedRemainder ==
    ASSUME NEW N \in Nat \ {0}, NEW C \in Nat \ {0}, C % N = 0,
           NEW i \in 0 .. C - 1
    PROVE  ((i + 1) % C) % N = (i + 1) % N
OBVIOUS

=============================================================================
