--------------------------- MODULE MCLoadBalancer ---------------------------
(* A small instance of LoadBalancer for TLC. *)
EXTENDS LoadBalancer

CONSTANTS b1, b2

\* A list of one, and a backend of weight 0 to add to it.
MCStates == {b1, b2}
MCAddress == (b1 :> "x") @@ (b2 :> "y")
MCWeight == (b1 :> 2) @@ (b2 :> 0)
MCInitial == <<b1>>

=============================================================================
