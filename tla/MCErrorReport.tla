--------------------------- MODULE MCErrorReport ---------------------------
(* Instance of ErrorReport for TLC: two addresses, each of an executor of its own. *)
EXTENDS ErrorReport, TLC

CONSTANTS a1, a2, x1, x2

MCNovaOf == (a1 :> x1) @@ (a2 :> x2)

=============================================================================
