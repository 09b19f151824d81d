-------------------------- MODULE MCConnectionPool --------------------------
(* Small instances of ConnectionPool for TLC. *)
EXTENDS ConnectionPool, TLC

\* Clients are interchangeable, and so are connections.
Symmetry == Permutations(Clients) \union Permutations(Ids)

=============================================================================
