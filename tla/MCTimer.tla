------------------------------ MODULE MCTimer ------------------------------
(* Instance of Timer for TLC: the bound is in the configuration. *)
EXTENDS Timer
=============================================================================
