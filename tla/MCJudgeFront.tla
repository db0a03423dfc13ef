---------------------------- MODULE MCJudgeFront ----------------------------
(* Instance of JudgeFront for TLC: connections on two HTTP threads. *)
EXTENDS JudgeFront, TLC

CONSTANTS c1, c2, c3, c4, h1, h2

MCThreadOf == (c1 :> h1) @@ (c2 :> h1) @@ (c3 :> h1) @@ (c4 :> h2)

=============================================================================
