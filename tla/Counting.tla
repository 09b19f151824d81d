------------------------------ MODULE Counting ------------------------------
(***************************************************************************)
(* What is defined by counting.  Parties are counted by where they are:    *)
(* f maps each party to the point of its program it has reached.  And some *)
(* places of a sequence are counted from the front, to keep its elements   *)
(* there in their order; unlike SelectSeq, whose definition is recursive,  *)
(* this can be proved about.                                               *)
(***************************************************************************)
EXTENDS Integers, FiniteSets

\* The parties that f puts at one of the points of S.
Where(f, S) == {x \in DOMAIN f : f[x] \in S}

\* The n-th of a finite set of numbers, the least being the first.
Nth(P, n) == CHOOSE i \in P : Cardinality({j \in P : j <= i}) = n

\* The elements of the sequence s at the places P.
Kept(s, P) == [n \in 1 .. Cardinality(P) |-> s[Nth(P, n)]]

=============================================================================
