---- MODULE MCJudgeTask ----
(* Constants for the model checking of JudgeTask. *)
EXTENDS JudgeTask

\* Requests that agree or not.
CONSTANTS a, b, c
TwoValues   == {a, b}
ThreeValues == {a, b, c}

BothRules == {"weight", "time"}
TimeRule  == {"time"}

\* One executor failed least or all alike; one is oldest, or the first two
\* are, or all.
SomeFails   == {[e \in 1..N |-> 0], [e \in 1..N |-> IF e = N THEN 0 ELSE 1]}
SomeUptimes == {[e \in 1..N |-> 0], [e \in 1..N |-> e], [e \in 1..N |-> IF e <= 2 THEN 0 ELSE 1]}
EqualFails  == {[e \in 1..N |-> 0]}
====
