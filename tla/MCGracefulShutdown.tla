------------------------- MODULE MCGracefulShutdown -------------------------
(* A small instance of GracefulShutdown for TLC. *)
EXTENDS GracefulShutdown

=============================================================================
