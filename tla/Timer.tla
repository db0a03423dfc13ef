------------------------------- MODULE Timer -------------------------------
(***************************************************************************)
(* autoScheduleTimer of a schedule service (mimic_timer.cpp): the commands *)
(* hung-down and hung-up stop and spawn it, update_config restarts it when *)
(* the table has a new interval. Every spawn is a thread with an event     *)
(* base of its own, but the object has one member for all of them.         *)
(*                                                                         *)
(* Threads and their bases are numbered as they are spawned. What is done  *)
(* with a base after it was freed has no effect here.                      *)
(***************************************************************************)
EXTENDS Integers

CONSTANT MaxThreads \* bound: threads ever spawned

VARIABLES
  isRuning,
  base,     \* the base the member points to, by the number of its thread
  spawned,  \* threads spawned so far
  starting, \* threads that have not made their base
  loops,    \* threads in event_base_dispatch
  told,     \* bases that were told to exit
  freed,    \* bases that were freed
  turns,    \* callbacks run, counted modulo 2
  hung      \* history: the threads spawned before hung-down, 0 since hung-up

vars == <<isRuning, base, spawned, starting, loops, told, freed, turns, hung>>

Thread == 1..MaxThreads

-----------------------------------------------------------------------------
\* event_base_loopexit, whoever's base the member is.
timerStop == told' = IF base \in freed THEN told ELSE told \cup {base}

timerSpawn ==
  /\ spawned < MaxThreads /\ spawned' = spawned + 1
  /\ starting' = starting \cup {spawned'}

\* hung-down: a timer that does not run is left alone.
doHungDown ==
  /\ hung' = spawned
  /\ IF isRuning THEN timerStop /\ isRuning' = FALSE ELSE UNCHANGED <<isRuning, told>>
  /\ UNCHANGED <<base, spawned, starting, loops, freed, turns>>

doHungUp ==
  /\ hung' = 0
  /\ IF isRuning THEN UNCHANGED <<isRuning, spawned, starting>> ELSE timerSpawn /\ isRuning' = TRUE
  /\ UNCHANGED <<base, loops, told, freed, turns>>

\* update_config with a new interval: stop and spawn, whether it runs or not.
syncPolicyFromMysql ==
  /\ timerStop /\ timerSpawn /\ isRuning' = TRUE
  /\ UNCHANGED <<base, loops, freed, turns, hung>>

-----------------------------------------------------------------------------
\* A thread makes its base, the member's from now on, and enters the loop.
timerRun(t) ==
  /\ t \in starting /\ starting' = starting \ {t}
  /\ base' = t /\ loops' = loops \cup {t}
  /\ UNCHANGED <<isRuning, spawned, told, freed, turns, hung>>

timerCb(t) ==
  /\ t \in loops \ told
  /\ turns' = 1 - turns
  /\ UNCHANGED <<isRuning, base, spawned, starting, loops, told, freed, hung>>

\* The loop ends, and the thread frees what the member points to.
LoopEnds(t) ==
  /\ t \in loops \cap told
  /\ loops' = loops \ {t} /\ freed' = freed \cup {base}
  /\ UNCHANGED <<isRuning, base, spawned, starting, told, turns, hung>>

Init ==
  /\ isRuning = TRUE /\ base = 1 /\ spawned = 1 /\ starting = {} /\ loops = {1}
  /\ told = {} /\ freed = {} /\ turns = 0 /\ hung = 0

Next ==
  \/ doHungDown \/ doHungUp \/ syncPolicyFromMysql
  \/ \E t \in Thread : timerRun(t) \/ timerCb(t) \/ LoopEnds(t)

Spec == Init /\ [][Next]_vars

-----------------------------------------------------------------------------
(* What the code says of itself, and does not keep *)

\* src/mimic.cpp:66 explains hung-down as "stop active exec change": from
\* hung-down to hung-up no turn of the schedule timer would begin but for those
\* of threads that were spawned before and have not heard of it.
HungDownStays == [][\A t \in Thread : timerCb(t) /\ hung # 0 => t <= hung]_vars

=============================================================================
