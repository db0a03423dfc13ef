------------------------------- MODULE Answer -------------------------------
(***************************************************************************)
(* What the proxy promises a client for one request: one reply. It is a    *)
(* refusal before anything was heard, or the response of an executor,      *)
(* chosen once: one that half of them gave, as soon as it is that many,    *)
(* unless it is a 504; else one of all, when all are in, and a 504 only    *)
(* when there is nothing else.                                             *)
(***************************************************************************)
EXTENDS Integers, FiniteSets

CONSTANTS
  Exec,     \* the executors that are asked
  Value,    \* what they may respond
  StatusOf, \* value -> "2xx", "504" or "other"
  NoData,   \* no response yet
  None      \* nobody chosen

VARIABLES
  responses, \* executor -> what it responded
  chosen,    \* the executor whose response the client gets, or None
  replies    \* replies sent to the client

vars == <<responses, chosen, replies>>

Silence == [e \in Exec |-> NoData]
In(w)   == {e \in Exec : w[e] # NoData}

\* At least half of the executors respond v, more than one if there are more.
Half(w, v) ==
  /\ 2 * Cardinality({e \in Exec : w[e] = v}) >= Cardinality(Exec)
  /\ In(w) = Exec \/ \E e, f \in In(w) : e # f

\* The responses that win before all are in.
Carried(w) == {v \in Value : StatusOf[v] # "504" /\ Half(w, v)}

\* When all are in and none of those is among them: a success, if half of
\* the executors say 504 and there is one, or any response but a 504, or
\* whatever there is.
Fallback(w) ==
  LET better == {e \in Exec : StatusOf[w[e]] # "504"}
      fine   == {e \in Exec : StatusOf[w[e]] = "2xx"}
  IN IF better = {} THEN Exec
     ELSE IF fine # {} /\ \E v \in Value : StatusOf[v] = "504" /\ Half(w, v) THEN fine
     ELSE better

Due(w)  == Carried(w) # {} \/ In(w) = Exec
Best(w) == IF Carried(w) # {} THEN {e \in Exec : w[e] \in Carried(w)} ELSE Fallback(w)

\* The client is told that its request cannot be taken.
Refuse ==
  /\ responses = Silence /\ replies = 0
  /\ replies' = 1
  /\ UNCHANGED <<responses, chosen>>

\* Executor e responds v; the client gets its reply the first time one is due.
Hear(e, v) ==
  /\ responses[e] = NoData
  /\ chosen = None => replies = 0
  /\ responses' = [responses EXCEPT ![e] = v]
  /\ IF chosen = None /\ Due(responses')
     THEN chosen' \in Best(responses') /\ replies' = 1
     ELSE UNCHANGED <<chosen, replies>>

Init == responses = Silence /\ chosen = None /\ replies = 0
Next == Refuse \/ \E e \in Exec, v \in Value : Hear(e, v)
Spec == Init /\ [][Next]_vars
=============================================================================
