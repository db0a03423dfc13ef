------------------------------ MODULE MCPolicy ------------------------------
(***************************************************************************)
(* Instance of Policy for TLC: two services, one policy key of the horizon *)
(* and the weights of an executor of each.                                 *)
(***************************************************************************)
EXTENDS Policy, TLC

CONSTANTS t1, t2, v1, v2, horizon, rule_h, exec_h, exec_k

MCValue  == {v1, v2}
MCThread == {t1, t2}
Alike    == Permutations(MCThread) \cup Permutations(MCValue)

MCService   == {horizon, keystone}
MCWeightKey == {exec_h, exec_k}
MCOwner == [k \in {rule_h, exec_h, exec_k} |-> IF k = exec_k THEN keystone ELSE horizon]
=============================================================================
