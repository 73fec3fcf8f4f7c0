----------------------------- MODULE MCAccounts -----------------------------
(* Instances of Accounts for TLC. *)
EXTENDS Accounts, TLC

Symm == Permutations(Tools) \cup Permutations(Passwords) \cup Permutations(Sessions)
=============================================================================
