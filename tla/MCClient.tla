------------------------------ MODULE MCClient ------------------------------
(* Client for TLC: every constant is given its value by the .cfg. *)
EXTENDS Client
=============================================================================
