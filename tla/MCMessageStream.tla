--------------------------- MODULE MCMessageStream ---------------------------
(* A small instance of MessageStream for TLC: bytes are bits, and a length  *)
(* of more than one is too large.                                           *)
EXTENDS MessageStream

MCMessages == {<<1>>, <<>>, <<0, 0>>}

=============================================================================
