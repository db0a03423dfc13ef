----------------------------- MODULE MCSchedule -----------------------------
(* Small instances of Schedule: executors as model values on two hosts. *)
EXTENDS Schedule

CONSTANTS e1, e2, e3

\* Three executors on two hosts.
ThreeExecs == {e1, e2, e3}
ThreeHosts == [e \in ThreeExecs |-> IF e \in {e1, e2} THEN "h1" ELSE "h2"]

\* Two executors on two hosts, for the runs with the widest environment.
TwoExecs == {e1, e2}
TwoHosts == [e \in TwoExecs |-> IF e = e1 THEN "h1" ELSE "h2"]

AnyStatus == Status
=============================================================================
