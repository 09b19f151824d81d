------------------------------- MODULE MCCache -------------------------------
(* Small instances of Cache for TLC. *)
EXTENDS Cache

\* Keys are interchangeable.
Symmetry == Permutations(Keys)

=============================================================================
