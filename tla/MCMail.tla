------------------------------- MODULE MCMail -------------------------------
(* Instances of Mail for TLC. *)
EXTENDS Mail, TLC

Symm == Permutations(Conns) \cup Permutations(Users)
=============================================================================
