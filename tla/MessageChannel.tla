--------------------------- MODULE MessageChannel ---------------------------
(***************************************************************************)
(* What one direction of a connection promises: messages arrive once, in   *)
(* the order they were sent, and none before it was sent, until the        *)
(* connection breaks; a broken connection promises nothing.                *)
(***************************************************************************)
EXTENDS Integers, Sequences

CONSTANT Payloads   \* what may arrive, from a broken connection too

VARIABLES sent, received, broken

vars == <<sent, received, broken>>

Init == sent = <<>> /\ received = <<>> /\ broken = FALSE

Send ==
    /\ \E m \in Payloads : sent' = Append(sent, m)
    /\ UNCHANGED <<received, broken>>

Deliver ==
    /\ ~broken
    /\ Len(received) < Len(sent)
    /\ received' = Append(received, sent[Len(received) + 1])
    /\ UNCHANGED sent
    /\ broken' \in BOOLEAN

Break == ~broken /\ broken' = TRUE /\ UNCHANGED <<sent, received>>

DeliverAnything ==
    /\ broken
    /\ \E m \in Payloads : received' = Append(received, m)
    /\ UNCHANGED <<sent, broken>>

Next == Send \/ Deliver \/ Break \/ DeliverAnything

Spec == Init /\ [][Next]_vars

=============================================================================
