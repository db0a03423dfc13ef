------------------------------- MODULE Ballot -------------------------------
(***************************************************************************)
(* What a judge thread promises for one sid: every executor has one vote,  *)
(* at the timeout the missing ones count as abstentions, and the request   *)
(* that goes to the backend is chosen once: a request of a majority as     *)
(* soon as there is one, else any request when nobody is missing.          *)
(***************************************************************************)
EXTENDS Integers, FiniteSets

CONSTANTS
  Exec,    \* the executors that vote
  Value,   \* what their requests may say
  NoData,  \* no vote yet
  Timeout, \* an abstention
  None     \* nothing chosen

VARIABLES
  votes,   \* executor -> what it said
  chosen,  \* the executor whose request goes to the backend, or None
  open     \* the vote goes on

vars == <<votes, chosen, open>>

Blank    == [e \in Exec |-> NoData]
In(w)    == {e \in Exec : w[e] # NoData}
For(w, v) == {e \in Exec : w[e] = v}

\* At least half of all executors say v; with two or more executors the
\* first vote alone decides nothing.
Carried(w, v) ==
  /\ For(w, v) # {}
  /\ 2 * Cardinality(For(w, v)) >= Cardinality(Exec)
  /\ Exec = In(w) \/ \E e, f \in In(w) : e # f

\* An executor that the votes w allow to be chosen.
Allowed(w, e) ==
  /\ w[e] \in Value
  /\ \/ Carried(w, w[e])
     \/ Carried(w, Timeout)
     \/ /\ In(w) = Exec
        /\ \A v \in Value : ~Carried(w, v)

\* The votes become w; the choice is made the first time one is due.
Count(w, before) ==
  /\ votes' = w
  /\ IF before # None THEN chosen' = before
     ELSE IF In(w) = Exec \/ \E v \in Value \cup {Timeout} : Carried(w, v)
     THEN chosen' \in Exec /\ Allowed(w, chosen')
     ELSE chosen' = None

\* It ends only when nobody is missing, and then something was chosen.
MayEnd == open' \/ (In(votes') = Exec /\ chosen' # None)

Open  == \E e \in Exec, v \in Value :
           ~open /\ Count([Blank EXCEPT ![e] = v], None) /\ open' \in BOOLEAN /\ MayEnd
Vote  == \E e \in Exec, v \in Value \cup {Timeout} :
           /\ open /\ votes[e] = NoData
           /\ Count([votes EXCEPT ![e] = v], chosen) /\ open' \in BOOLEAN /\ MayEnd
Close == open /\ In(votes) = Exec /\ chosen # None /\ open' = FALSE /\ UNCHANGED <<votes, chosen>>

Init == votes = Blank /\ chosen = None /\ open = FALSE
Next == Open \/ Vote \/ Close
Spec == Init /\ [][Next]_vars
=============================================================================
