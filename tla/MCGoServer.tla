----------------------------- MODULE MCGoServer -----------------------------
(* The instance of GoServer for TLC; liveness is checked without symmetry. *)
EXTENDS GoServer
=============================================================================
