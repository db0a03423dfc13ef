---------------------------- MODULE ErrorReport ----------------------------
(***************************************************************************)
(* From lost votes to the loss of a place in the pool: the counters        *)
(* judgeErrNum of a judge (judge_task.cpp, sendToSchedule) or a proxy      *)
(* (proxy_task.cpp), the one-shot message report_error, and what the       *)
(* schedule service does with it (doReportError).                          *)
(*                                                                         *)
(* All threads of a process share the counters and take no mutex: each     *)
(* look at one, and each write, is a step. A counter of Limit or more is   *)
(* told from no other, so counting stops there.                            *)
(***************************************************************************)
EXTENDS Integers, FiniteSets

CONSTANTS
  Thread,  \* threads that finish votes
  Addr,    \* execAddr of the data of votes
  Exec,    \* addresses of the pool
  NovaOf,  \* convertFromCincerOrNeutron: the pool address of an execAddr
  Limit,   \* atoi(judgeErrorCount)
  Absent,  \* no counter yet
  None     \* no address

ASSUME AddrAssumption == NovaOf \in [Addr -> Exec] /\ None \notin Addr
ASSUME ThreadAssumption == IsFiniteSet(Thread)
ASSUME LimitAssumption == Limit \in Nat /\ Absent \notin Int

VARIABLES
  judgeErrNum, \* address -> its counter
  stage,       \* thread -> what it does next
  rest,        \* thread -> analyseErrorDetailMap, what the loop has yet to take
  ele,         \* thread -> the address it works on
  got,         \* thread -> what the right side of += has read
  data1,       \* thread -> whom its report will name
  sent,        \* reports on their way, each the set of addresses it names
  value,       \* what doReportError has yet to take from its report
  active,      \* keys of activeExecList
  votes        \* history: address -> votes it lost, counted up to Limit + 1

counting == <<stage, rest, ele, got, data1>>
schedule == <<value, active>>
vars     == <<judgeErrNum, counting, sent, schedule, votes>>

Stage == {"idle", "find", "insert", "compare", "fetch", "store", "clear"}

Counted(n) == IF n < Limit THEN n ELSE Limit

\* The executors a report names (inner1["addr"]).
Named(m) == {NovaOf[a] : a \in m}

-----------------------------------------------------------------------------
(* sendToSchedule *)

\* A vote ends and the addresses in D have lost it.
Lose(t, D) ==
  /\ stage[t] = "idle" /\ D # {}
  /\ stage' = [stage EXCEPT ![t] = "find"]
  /\ rest' = [rest EXCEPT ![t] = D]
  /\ votes' = [a \in Addr |-> IF a \in D /\ votes[a] <= Limit THEN votes[a] + 1 ELSE votes[a]]
  /\ UNCHANGED <<judgeErrNum, ele, got, data1, sent, schedule>>

Find(t, a) ==
  /\ stage[t] = "find" /\ a \in rest[t]
  /\ ele' = [ele EXCEPT ![t] = a]
  /\ rest' = [rest EXCEPT ![t] = @ \ {a}]
  /\ stage' = [stage EXCEPT ![t] = IF judgeErrNum[a] = Absent THEN "insert" ELSE "compare"]
  /\ UNCHANGED <<judgeErrNum, got, data1, sent, schedule, votes>>

\* The thread writes the counter of its address and takes the next one.
Write(t, n) ==
  /\ judgeErrNum' = [judgeErrNum EXCEPT ![ele[t]] = n]
  /\ stage' = [stage EXCEPT ![t] = "find"]
  /\ ele' = [ele EXCEPT ![t] = None]
  /\ got' = [got EXCEPT ![t] = 0]
  /\ UNCHANGED <<rest, sent, schedule, votes>>

\* emplace: a counter that came meanwhile stays.
Insert(t) ==
  /\ stage[t] = "insert"
  /\ Write(t, IF judgeErrNum[ele[t]] = Absent THEN Counted(1) ELSE judgeErrNum[ele[t]])
  /\ UNCHANGED data1

Compare(t) ==
  /\ stage[t] = "compare"
  /\ stage' = [stage EXCEPT ![t] = IF judgeErrNum[ele[t]] < Limit THEN "fetch" ELSE "clear"]
  /\ UNCHANGED <<judgeErrNum, rest, ele, got, data1, sent, schedule, votes>>

Fetch(t) ==
  /\ stage[t] = "fetch"
  /\ got' = [got EXCEPT ![t] = judgeErrNum[ele[t]]]
  /\ stage' = [stage EXCEPT ![t] = "store"]
  /\ UNCHANGED <<judgeErrNum, rest, ele, data1, sent, schedule, votes>>

\* Mutant: the counter stays what it was.
Store_Same(t) ==
  /\ stage[t] = "store" /\ Write(t, got[t])
  /\ UNCHANGED data1

Store(t) ==
  /\ stage[t] = "store" /\ Write(t, Counted(got[t] + 1))
  /\ UNCHANGED data1

\* Mutant: the report is the one that is logged, with all who lost the vote.
Clear_Logged(t) ==
  /\ stage[t] = "clear" /\ Write(t, 0)
  /\ data1' = [data1 EXCEPT ![t] = @ \cup {ele[t]} \cup rest[t]]

Clear(t) ==
  /\ stage[t] = "clear" /\ Write(t, 0)
  /\ data1' = [data1 EXCEPT ![t] = @ \cup {ele[t]}]

\* One message with all that were counted out, if any.
Send(t) ==
  /\ stage[t] = "find" /\ rest[t] = {}
  /\ sent' = sent \cup ({data1[t]} \ {{}})
  /\ data1' = [data1 EXCEPT ![t] = {}]
  /\ stage' = [stage EXCEPT ![t] = "idle"]
  /\ UNCHANGED <<judgeErrNum, rest, ele, got, schedule, votes>>

-----------------------------------------------------------------------------
(* The connection of a report, one for each: it may fail, and reports overtake
   each other. *)

Drop(m) ==
  /\ m \in sent /\ sent' = sent \ {m}
  /\ UNCHANGED <<judgeErrNum, counting, schedule, votes>>

-----------------------------------------------------------------------------
(* The schedule service *)

Receive(m) ==
  /\ value = {} /\ m \in sent
  /\ sent' = sent \ {m} /\ value' = m
  /\ UNCHANGED <<judgeErrNum, counting, active, votes>>

\* doUpdown: the last member stays, another one goes, with a ready executor in
\* its place or without.
doUpdown(x) ==
  IF active = {x} THEN UNCHANGED active
  ELSE \/ active' = active \ {x}
       \/ \E y \in Exec \ active : active' = (active \ {x}) \cup {y}

TakeDown(a) ==
  /\ a \in value /\ NovaOf[a] \in active
  /\ doUpdown(NovaOf[a])
  /\ value' = value \ {a}
  /\ UNCHANGED <<judgeErrNum, counting, sent, votes>>

\* The first one that is not active ends the loop, whoever comes behind.
CutOff(a) ==
  /\ a \in value /\ NovaOf[a] \notin active
  /\ value' = {}
  /\ UNCHANGED <<judgeErrNum, counting, sent, active, votes>>

\* Rotation, probes and commands change the pool between two executors of a
\* report, and never empty it.
Others(A) ==
  /\ A # {} /\ active' = A
  /\ UNCHANGED <<judgeErrNum, counting, sent, value, votes>>

-----------------------------------------------------------------------------
Init ==
  /\ judgeErrNum = [a \in Addr |-> Absent]
  /\ stage = [t \in Thread |-> "idle"]
  /\ rest = [t \in Thread |-> {}]
  /\ ele = [t \in Thread |-> None]
  /\ got = [t \in Thread |-> 0]
  /\ data1 = [t \in Thread |-> {}]
  /\ sent = {} /\ value = {}
  /\ active \in SUBSET Exec \ {{}}
  /\ votes = [a \in Addr |-> 0]

Counts(t) ==
  \/ \E a \in Addr : Find(t, a)
  \/ Insert(t) \/ Compare(t) \/ Fetch(t) \/ Store(t) \/ Clear(t) \/ Send(t)

\* The order in a report is any: nothing ties the data of a vote to it.
doReportError == \E a \in Addr : TakeDown(a) \/ CutOff(a)

Next ==
  \/ \E t \in Thread : Counts(t) \/ \E D \in SUBSET Addr : Lose(t, D)
  \/ \E m \in sent : Drop(m) \/ Receive(m)
  \/ doReportError
  \/ \E A \in SUBSET Exec : Others(A)

\* A thread that counts goes on, a message arrives or its connection fails,
\* the schedule service works through a report. Votes and the pool owe nothing.
Fairness ==
  /\ \A t \in Thread : WF_vars(Counts(t))
  /\ \A x \in Exec : WF_vars(\E m \in sent : x \in Named(m) /\ (Drop(m) \/ Receive(m)))
  /\ WF_vars(doReportError)

Spec == Init /\ [][Next]_vars
FairSpec == Spec /\ Fairness

-----------------------------------------------------------------------------
(* Properties *)

\* Every variable has its type.
TypeOK ==
  /\ judgeErrNum \in [Addr -> {Absent} \cup 0..Limit]
  /\ stage \in [Thread -> Stage]
  /\ rest \in [Thread -> SUBSET Addr]
  /\ ele \in [Thread -> Addr \cup {None}]
  /\ got \in [Thread -> 0..Limit]
  /\ data1 \in [Thread -> SUBSET Addr]
  /\ sent \in SUBSET SUBSET Addr
  /\ value \in SUBSET Addr
  /\ active \in SUBSET Exec
  /\ votes \in [Addr -> 0..Limit + 1]

\* Whatever threads do to each other's counters (sendToSchedule writes what it
\* read before another thread wrote or cleared it) and messages do on their
\* way, nobody is reported, and by a report taken down, that has not lost more
\* votes than the limit at that address.
ReportsEarned ==
  \A m \in sent \cup {value} \cup {data1[t] : t \in Thread} :
    \A a \in m : votes[a] > Limit

\* The report of x is lost, or cut off behind somebody who is not active.
Unheard(x) ==
  \/ \E m \in sent : x \in Named(m) /\ Drop(m)
  \/ \E a \in value : CutOff(a) /\ x \in Named(value \ {a})

\* An executor that loses votes again and again is again and again out of the
\* pool, or the last one in it, unless its reports are lost or cut off
\* (doReportError) for ever: no interleaving of counting threads keeps it there.
LoserGoes ==
  \A a \in Addr :
    ([]<>(\E t \in Thread : a \in rest[t])) =>
      \/ []<>(NovaOf[a] \notin active \/ active = {NovaOf[a]})
      \/ []<><<Unheard(NovaOf[a])>>_vars

=============================================================================
