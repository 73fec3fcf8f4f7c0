--------------------------- MODULE MCNegotiation ---------------------------
(* Instances of Negotiation for TLC. *)
EXTENDS Negotiation, TLC

Symm == Permutations(Conns) \cup Permutations(Users)
=============================================================================
