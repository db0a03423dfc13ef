----------------------------- MODULE MCPublish -----------------------------
(* Instance of Publish for TLC: the bounds are in the configurations. *)
EXTENDS Publish
=============================================================================
