------------------------------- MODULE MCText -------------------------------
(* Instances of Text for TLC. *)
EXTENDS Text

Lengths == [jid |-> 6, sasl |-> 7, conf |-> 5]
=============================================================================
