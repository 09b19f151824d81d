------------------------- MODULE MCKeyedRateLimiter -------------------------
(* A small instance of KeyedRateLimiter for TLC. *)
EXTENDS KeyedRateLimiter

=============================================================================
