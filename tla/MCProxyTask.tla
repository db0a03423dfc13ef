---- MODULE MCProxyTask ----
(* Constants for the model checking of ProxyTask. *)
EXTENDS ProxyTask

\* Two successes, another status, the stand-in and another 504.
CONSTANTS a, b, err, lost, late
Responses == {a, b, err, lost, late}
Statuses  == [v \in Responses |->
                IF v \in {lost, late} THEN "504" ELSE IF v = err THEN "other" ELSE "2xx"]

BothRules   == {"weight", "time"}
SomeFails   == {[e \in 1..N |-> 0], [e \in 1..N |-> IF e = N THEN 0 ELSE 1]}
SomeUptimes == {[e \in 1..N |-> 0], [e \in 1..N |-> e]}
====
