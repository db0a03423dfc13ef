------------------------------ MODULE Schedule ------------------------------
(***************************************************************************)
(* The executor pool of a schedule service (src/mimic_schedule.cpp).       *)
(*                                                                         *)
(* The service probes every executor, keeps execNum of them active,        *)
(* replaces the ones that fail, that lose a vote or whose turn is over,    *)
(* cleans (rebuilds) the ones it took out, obeys the operator's commands   *)
(* and publishes the pool to the proxy and judge services.                 *)
(*                                                                         *)
(* Threads: the main event loop (commands), the report timer and the       *)
(* schedule timer, and one detached thread per executor being cleaned.     *)
(* Every critical section of mutexExecs is one action, except the two      *)
(* loops of the report callback, which take one step per iteration while   *)
(* they hold the mutex: the reload of update_scweight does not take it and *)
(* runs in between.                                                        *)
(***************************************************************************)
EXTENDS Integers, FiniteSets

CONSTANTS
  Exec,          \* the executors of the configuration (execInfo)
  HostOf,        \* the ip an executor runs on
  execNum,       \* how many executors should be active
  Rules,         \* values the operator gives scheduleRule
  Switches,      \* values the operator gives mimicSwitch
  UpStatuses,    \* statuses in which an operator asks for manual_up
  EarlyCommands, \* TRUE: commands also come before the first start is over
  Reloads,       \* TRUE: update_scweight commands come
  DbMayFail,     \* TRUE: a statement on exec_status_info may fail
  MaxDrift,      \* bound: how far manualDownNum is followed from 0
  MaxCleaners    \* bound: clean threads followed per executor

\* executor.status (the names of doQueryExecStats)
Initing  == -2
Offline  == -1
Online   == 0
Active   == 1
Cleaning == 2
Status   == {Initing, Offline, Online, Active, Cleaning}
DbStatus == {Offline, Online, Active}

ASSUME ExecAssumption == IsFiniteSet(Exec) /\ Exec # {}
ASSUME ExecNumAssumption == execNum \in Nat \ {0}
ASSUME BoundAssumption == MaxDrift \in Nat /\ MaxCleaners \in Nat \ {0, 1}
ASSUME ConfigAssumption ==
  /\ Rules # {} /\ Rules \subseteq {"random", "scweight", "host_random"}
  /\ Switches # {} /\ Switches \subseteq {"on", "off"}
  /\ UpStatuses \subseteq Status
  /\ {EarlyCommands, Reloads, DbMayFail} \subseteq BOOLEAN

VARIABLES
  status,         \* allExecList: executor -> status
  activeExecList, \* the keys of activeExecList
  manualDownNum,  \* executors held back by the operator
  isFirstStart,   \* TRUE until the first active list is in the table
  scheduleRule,   \* suber->scheduleRule
  mimicSwitch,    \* suber->mimicSwitch
  cleaning,       \* executor -> clean threads running for it
  cooling,        \* executors whose preCleanTimes is less than 60 s old
  table,          \* exec_status_info: executor -> status column
  fetched,        \* rows a reload has read and not applied yet, or {}
  published,      \* the active list in the last snapshot that was published
  loop,           \* the loop a report callback is in, holding mutexExecs
  left            \* its iterations to come

pool   == <<status, activeExecList, cleaning, table, published>>
policy == <<scheduleRule, mimicSwitch>>
lock   == <<loop, left>>
vars   == <<pool, policy, lock, manualDownNum, isFirstStart, cooling, fetched>>

-----------------------------------------------------------------------------
(* Reading the pool *)

\* execsInReadyStatus
Ready == {e \in Exec : status[e] = Online}

\* What the subscribers take for the active list: fillExecMap reads the
\* status of every executor in all_exec_list, not active_exec_list.
Marked(st) == {e \in Exec : st[e] = Active}

\* upNum: executors of a host that are marked active
Load(host) == Cardinality({e \in Marked(status) : HostOf[e] = host})

UsedHosts == {HostOf[e] : e \in activeExecList}

\* hostUpExecNumList sorted: a ready executor on a host that no other host
\* with a ready executor undercuts
LeastLoaded == {e \in Ready : \A f \in Ready : Load(HostOf[e]) <= Load(HostOf[f])}

\* The executors a policy may pick when D (one executor, or none) goes down;
\* none: the policy throws. Weights are positive, so scweight may pick any
\* ready executor.
policy_host_random(D) ==
  LET home == {e \in Ready : \E d \in D : HostOf[e] = HostOf[d]}
  IN IF Cardinality(UsedHosts) = execNum /\ (D = {} \/ home # {})
     THEN home
     ELSE LeastLoaded

Candidates(D) ==
  IF scheduleRule = "host_random" THEN policy_host_random(D) ELSE Ready

\* One pick, as a set: empty when the policy threw.
Picks(D) == IF Candidates(D) = {} THEN {{}} ELSE {{k} : k \in Candidates(D)}

-----------------------------------------------------------------------------
(* Effects shared by the handlers *)

\* Mutant: the status is stored as it is.
DbOf_Verbatim(s) == s

\* The status column: cleaning and initing are stored as offline.
DbOf(s) == IF s \in {Cleaning, Initing} THEN Offline ELSE s

\* updateExecStatusDb for each executor of S; a lost statement is only logged.
updateExecStatusDb(S) ==
  \E lost \in IF DbMayFail THEN SUBSET S ELSE {{}} :
    table' = [e \in Exec |-> IF e \in S \ lost THEN DbOf(status'[e]) ELSE table[e]]

\* syncAndPub writes nothing before the first start is over.
syncAndPub == published' = IF isFirstStart THEN published ELSE Marked(status')

\* cleanExec starts one thread for each executor of S.
cleanExec(S) ==
  /\ \A e \in S : cleaning[e] < MaxCleaners
  /\ cleaning' = [e \in Exec |-> IF e \in S THEN cleaning[e] + 1 ELSE cleaning[e]]

\* Mutant: the last active executor is not spared.
OnlyOneLeft_NotSpared(D) == FALSE

\* "only left one executor, dont do up down"
OnlyOneLeft(D) == D # {} /\ D \subseteq activeExecList /\ Cardinality(activeExecList) = 1

\* Mutant: the row of the replacement is not written.
UpDown_RowForgotten(D, K) ==
  /\ status' = [e \in Exec |-> IF e \in D THEN Cleaning
                               ELSE IF e \in K THEN Active ELSE status[e]]
  /\ activeExecList' = (activeExecList \cup K) \ D
  /\ updateExecStatusDb(D)
  /\ cleanExec(D)
  /\ IF D \cup K = {} THEN UNCHANGED published ELSE syncAndPub

\* D goes down to be cleaned, K comes up.
UpDown(D, K) ==
  /\ status' = [e \in Exec |-> IF e \in D THEN Cleaning
                               ELSE IF e \in K THEN Active ELSE status[e]]
  /\ activeExecList' = (activeExecList \cup K) \ D
  /\ updateExecStatusDb(D \cup K)
  /\ cleanExec(D)
  /\ IF D \cup K = {} THEN UNCHANGED published ELSE syncAndPub

\* doUpdown(addr): D is {addr}, or {} for the empty address. When the policy
\* threw, the executor goes down all the same.
doUpdown(D) ==
  IF OnlyOneLeft(D) THEN UNCHANGED pool ELSE \E K \in Picks(D) : UpDown(D, K)

\* mutexExecs is free.
Free == loop = "none"

\* The main loop is not inside a reload and obeys commands.
Obeys == fetched = {} /\ (EarlyCommands \/ ~isFirstStart)

-----------------------------------------------------------------------------
(* The report timer: execAutoReportCb with the answer s of a probe *)

\* Before the first start is over the answer is the status; with the last
\* answer initActiveExec begins with an empty list.
FirstReport(e, s) ==
  /\ Free /\ isFirstStart
  /\ status' = [status EXCEPT ![e] = s]
  /\ IF \A x \in Exec : status'[x] # Initing
     THEN /\ activeExecList' = {}
          /\ loop' = "init"
          /\ left' = IF manualDownNum < execNum THEN execNum - manualDownNum ELSE 0
     ELSE UNCHANGED <<activeExecList, lock>>
  /\ UNCHANGED <<cleaning, table, published, policy, manualDownNum, isFirstStart,
                 cooling, fetched>>

\* One iteration of initActiveExec: a policy that throws is caught.
InitPick ==
  /\ loop = "init" /\ left > 0
  /\ \E K \in Picks({}) :
       /\ status' = [e \in Exec |-> IF e \in K THEN Active ELSE status[e]]
       /\ activeExecList' = activeExecList \cup K
  /\ left' = left - 1
  /\ UNCHANGED <<loop, cleaning, table, published, policy, manualDownNum,
                 isFirstStart, cooling, fetched>>

\* Mutant: isFirstStart is left set.
InitDone_FlagKept ==
  /\ loop = "init" /\ left = 0
  /\ table' = [e \in Exec |-> DbOf(status[e])]
  /\ published' = Marked(status)
  /\ loop' = "none"
  /\ UNCHANGED <<status, activeExecList, cleaning, left, policy, manualDownNum,
                 isFirstStart, cooling, fetched>>

\* initMysqlAndPub succeeds: rows written, snapshot sent, start over.
InitDone ==
  /\ loop = "init" /\ left = 0
  /\ table' = [e \in Exec |-> DbOf(status[e])]
  /\ published' = Marked(status)
  /\ isFirstStart' = FALSE
  /\ loop' = "none"
  /\ UNCHANGED <<status, activeExecList, cleaning, left, policy, manualDownNum,
                 cooling, fetched>>

\* Mutant: the start counts as over also when initMysqlAndPub failed.
InitFailed_StartOver ==
  /\ loop = "init" /\ left = 0 /\ DbMayFail
  /\ status' = [e \in Exec |-> Initing]
  /\ loop' = "none"
  /\ isFirstStart' = FALSE
  /\ UNCHANGED <<activeExecList, cleaning, table, published, left, policy,
                 manualDownNum, cooling, fetched>>

\* initMysqlAndPub fails at its first statement: every probe starts again,
\* the active list stays as it is.
InitFailed ==
  /\ loop = "init" /\ left = 0 /\ DbMayFail
  /\ status' = [e \in Exec |-> Initing]
  /\ loop' = "none"
  /\ UNCHANGED <<activeExecList, cleaning, table, published, left, policy,
                 manualDownNum, isFirstStart, cooling, fetched>>

\* An active executor stopped answering. One that is marked active without
\* being in the list is only logged, and its row is not written.
ActiveFailed(e) ==
  /\ status[e] = Active
  /\ IF e \in activeExecList THEN doUpdown({e}) ELSE UNCHANGED pool

\* A spare stopped answering, or an offline executor whose last cleaning is
\* 60 s old still does not answer: clean it.
SpareFailed(e) ==
  /\ status[e] = Online \/ (status[e] = Offline /\ e \notin cooling)
  /\ status' = [status EXCEPT ![e] = Cleaning]
  /\ cleanExec({e})
  /\ updateExecStatusDb({e})
  /\ UNCHANGED <<activeExecList, published>>

\* Mutant: an answer in the middle of a cleaning counts.
CameBack_WhileCleaning(e) ==
  /\ status[e] \in {Offline, Cleaning}
  /\ status' = [status EXCEPT ![e] = Online]
  /\ updateExecStatusDb({e})
  /\ UNCHANGED <<activeExecList, cleaning, published>>

CameBack(e) ==
  /\ status[e] = Offline
  /\ status' = [status EXCEPT ![e] = Online]
  /\ updateExecStatusDb({e})
  /\ UNCHANGED <<activeExecList, cleaning, published>>

\* Mutant: an offline executor is not cleaned again.
NoNews_NoRetry(e, s) ==
  /\ \/ status[e] = Cleaning
     \/ status[e] \in {Online, Active} /\ s = Online
     \/ status[e] = Offline /\ s = Offline
  /\ UNCHANGED <<status, activeExecList, cleaning, published>>
  /\ updateExecStatusDb({e})

\* The answer changes nothing; the row is written again.
NoNews(e, s) ==
  /\ \/ status[e] = Cleaning
     \/ status[e] \in {Online, Active} /\ s = Online
     \/ status[e] = Offline /\ s = Offline /\ e \in cooling
  /\ UNCHANGED <<status, activeExecList, cleaning, published>>
  /\ updateExecStatusDb({e})

\* Mutant: the executors that are held back are not counted.
BeginRefill_HeldBackForgotten ==
  LET missing == execNum - Cardinality(activeExecList')
  IN IF missing > 0 THEN loop' = "refill" /\ left' = missing ELSE UNCHANGED lock

\* Mutant: the loop is entered although nobody is missing.
BeginRefill_NotChecked ==
  LET size    == Cardinality(activeExecList')
      missing == execNum - manualDownNum - size
  IN IF size < execNum THEN loop' = "refill" /\ left' = missing ELSE UNCHANGED lock

\* Mutant: no refill.
BeginRefill_Never == UNCHANGED lock

\* The check for missing executors at the end of a report.
BeginRefill ==
  LET size    == Cardinality(activeExecList')
      missing == execNum - manualDownNum - size
  IN IF size < execNum /\ missing > 0
     THEN loop' = "refill" /\ left' = missing
     ELSE UNCHANGED lock

Report(e, s) ==
  /\ Free /\ ~isFirstStart
  /\ \/ s = Offline /\ ActiveFailed(e)
     \/ s = Offline /\ SpareFailed(e)
     \/ s = Online /\ CameBack(e)
     \/ NoNews(e, s)
  /\ BeginRefill
  /\ UNCHANGED <<policy, manualDownNum, isFirstStart, cooling, fetched>>

\* One iteration of the refill: doUpdown("", "Schedule").
RefillPick ==
  /\ loop = "refill"
  /\ doUpdown({})
  /\ left' = left - 1
  /\ loop' = IF left = 1 THEN "none" ELSE "refill"
  /\ UNCHANGED <<policy, manualDownNum, isFirstStart, cooling, fetched>>

-----------------------------------------------------------------------------
(* The schedule timer: the turn of one active executor is over. The code    *)
(* takes the one with the oldest activeTime; which one that is is left open *)
(* here.                                                                    *)
execAtuoSchedule ==
  /\ Free /\ ~isFirstStart
  /\ \E e \in activeExecList : doUpdown({e})
  /\ UNCHANGED <<policy, lock, manualDownNum, isFirstStart, cooling, fetched>>

-----------------------------------------------------------------------------
(* A clean thread ends: cleanThread after the ssh command *)

\* Mutant: the status is not set back.
CleanDone_StatusKept(e) ==
  /\ Free /\ cleaning[e] > 0
  /\ UNCHANGED status
  /\ updateExecStatusDb({e})
  /\ cooling' = cooling \cup {e}
  /\ cleaning' = [cleaning EXCEPT ![e] = @ - 1]
  /\ UNCHANGED <<activeExecList, published, policy, lock, manualDownNum,
                 isFirstStart, fetched>>

CleanDone(e) ==
  /\ Free /\ cleaning[e] > 0
  /\ status' = [status EXCEPT ![e] = Offline]
  /\ updateExecStatusDb({e})
  /\ cooling' = cooling \cup {e}
  /\ cleaning' = [cleaning EXCEPT ![e] = @ - 1]
  /\ UNCHANGED <<activeExecList, published, policy, lock, manualDownNum,
                 isFirstStart, fetched>>

\* 60 s have passed since preCleanTimes[e].
CoolDown(e) ==
  /\ e \in cooling
  /\ cooling' = cooling \ {e}
  /\ UNCHANGED <<pool, policy, lock, manualDownNum, isFirstStart, fetched>>

-----------------------------------------------------------------------------
(* The main loop: commands of the operator and of the voting services *)

\* doManualUpOpt: the status of the executor is not looked at.
doManualUpOpt(e) ==
  /\ Obeys /\ Free
  /\ status[e] \in UpStatuses
  /\ manualDownNum > -MaxDrift
  /\ Cardinality(activeExecList) # execNum
  /\ e \notin activeExecList
  /\ status' = [status EXCEPT ![e] = Active]
  /\ activeExecList' = activeExecList \cup {e}
  /\ manualDownNum' = manualDownNum - 1
  /\ updateExecStatusDb({e})
  /\ syncAndPub
  /\ UNCHANGED <<cleaning, policy, lock, isFirstStart, cooling, fetched>>

\* Mutant: nothing is published.
doManualDownOpt_Silent(e) ==
  /\ Obeys /\ Free
  /\ manualDownNum < MaxDrift
  /\ Cardinality(activeExecList) # 1
  /\ e \in activeExecList
  /\ status' = [status EXCEPT ![e] = Online]
  /\ activeExecList' = activeExecList \ {e}
  /\ manualDownNum' = manualDownNum + 1
  /\ updateExecStatusDb({e})
  /\ UNCHANGED <<published, cleaning, policy, lock, isFirstStart, cooling, fetched>>

doManualDownOpt(e) ==
  /\ Obeys /\ Free
  /\ manualDownNum < MaxDrift
  /\ Cardinality(activeExecList) # 1
  /\ e \in activeExecList
  /\ status' = [status EXCEPT ![e] = Online]
  /\ activeExecList' = activeExecList \ {e}
  /\ manualDownNum' = manualDownNum + 1
  /\ updateExecStatusDb({e})
  /\ syncAndPub
  /\ UNCHANGED <<cleaning, policy, lock, isFirstStart, cooling, fetched>>

\* Mutant: a cleaning executor is cleaned again.
doManualCleanOpt_Twice(e) ==
  /\ Obeys /\ Free
  /\ status[e] \in {Offline, Cleaning}
  /\ status' = [status EXCEPT ![e] = Cleaning]
  /\ cleanExec({e})
  /\ updateExecStatusDb({e})
  /\ UNCHANGED <<activeExecList, published, policy, lock, manualDownNum,
                 isFirstStart, cooling, fetched>>

doManualCleanOpt(e) ==
  /\ Obeys /\ Free
  /\ status[e] = Offline
  /\ status' = [status EXCEPT ![e] = Cleaning]
  /\ cleanExec({e})
  /\ updateExecStatusDb({e})
  /\ UNCHANGED <<activeExecList, published, policy, lock, manualDownNum,
                 isFirstStart, cooling, fetched>>

\* doReportError, one item of the list: each item locks by itself.
doReportError(e) ==
  /\ Obeys /\ Free
  /\ e \in activeExecList
  /\ doUpdown({e})
  /\ UNCHANGED <<policy, lock, manualDownNum, isFirstStart, cooling, fetched>>

\* doUpdateConfig, the switch goes from on to off: executors go down one by
\* one, picked at random, until one is left. Their rows are not written.
SwitchOff ==
  /\ Obeys /\ Free
  /\ mimicSwitch = "on" /\ "off" \in Switches
  /\ mimicSwitch' = "off" /\ scheduleRule' \in Rules
  /\ manualDownNum + Cardinality(activeExecList) <= MaxDrift + 1
  /\ \E kept \in SUBSET activeExecList :
       /\ IF activeExecList = {} THEN kept = {} ELSE Cardinality(kept) = 1
       /\ status' = [e \in Exec |-> IF e \in activeExecList \ kept
                                    THEN Online ELSE status[e]]
       /\ activeExecList' = kept
  /\ manualDownNum' = manualDownNum + Cardinality(activeExecList)
                                    - Cardinality(activeExecList')
  /\ syncAndPub
  /\ UNCHANGED <<cleaning, table, lock, isFirstStart, cooling, fetched>>

\* doUpdateConfig, the switch goes from off to on: nobody is held back any
\* more, the next report refills the pool.
SwitchOn ==
  /\ Obeys /\ Free
  /\ mimicSwitch = "off" /\ "on" \in Switches
  /\ mimicSwitch' = "on" /\ scheduleRule' \in Rules
  /\ manualDownNum' = 0
  /\ UNCHANGED status
  /\ syncAndPub
  /\ UNCHANGED <<activeExecList, cleaning, table, lock, isFirstStart, cooling,
                 fetched>>

\* doUpdateConfig, same switch: publishes without the mutex.
ChangeRule ==
  /\ Obeys
  /\ scheduleRule' \in Rules
  /\ UNCHANGED status
  /\ syncAndPub
  /\ UNCHANGED <<activeExecList, cleaning, table, mimicSwitch, lock,
                 manualDownNum, isFirstStart, cooling, fetched>>

\* doUpdateScweight: syncExecFromMysql reads the rows and rebuilds both lists
\* from them, without mutexExecs.
ReloadSelect ==
  /\ Obeys /\ Reloads
  /\ fetched' = {table}
  /\ UNCHANGED <<pool, policy, lock, manualDownNum, isFirstStart, cooling>>

ReloadApply ==
  /\ fetched # {}
  /\ status' \in fetched
  /\ activeExecList' = Marked(status')
  /\ syncAndPub
  /\ fetched' = {}
  /\ UNCHANGED <<cleaning, table, policy, lock, manualDownNum, isFirstStart,
                 cooling>>

\* The SELECT fails: an empty active list is filled with every executor,
\* whose entries in allExecList stay as they are.
ReloadFailed ==
  /\ Obeys /\ Reloads /\ DbMayFail
  /\ activeExecList' = IF activeExecList = {} THEN Exec ELSE activeExecList
  /\ UNCHANGED status
  /\ syncAndPub
  /\ UNCHANGED <<cleaning, table, policy, lock, manualDownNum, isFirstStart,
                 cooling, fetched>>

-----------------------------------------------------------------------------
(* The service has registered its executors (first pass of execStatusReport) *)
(* and no probe has been answered. The table holds the rows of the run       *)
(* before.                                                                   *)
Init ==
  /\ status = [e \in Exec |-> Initing]
  /\ activeExecList = {}
  /\ isFirstStart = TRUE
  /\ scheduleRule \in Rules
  /\ mimicSwitch \in Switches
  /\ manualDownNum = IF mimicSwitch = "off" THEN execNum - 1 ELSE 0
  /\ cleaning = [e \in Exec |-> 0]
  /\ cooling = {}
  /\ table \in IF Reloads THEN [Exec -> DbStatus] ELSE {[e \in Exec |-> Offline]}
  /\ fetched = {}
  /\ published = {}
  /\ loop = "none"
  /\ left = 0

Next ==
  \/ \E e \in Exec, s \in {Offline, Online} : FirstReport(e, s) \/ Report(e, s)
  \/ InitPick \/ InitDone \/ InitFailed \/ RefillPick
  \/ execAtuoSchedule
  \/ \E e \in Exec : CleanDone(e) \/ CoolDown(e)
  \/ \E e \in Exec : doManualUpOpt(e) \/ doManualDownOpt(e)
  \/ \E e \in Exec : doManualCleanOpt(e) \/ doReportError(e)
  \/ SwitchOff \/ SwitchOn \/ ChangeRule
  \/ ReloadSelect \/ ReloadApply \/ ReloadFailed

Spec == Init /\ [][Next]_vars

-----------------------------------------------------------------------------
(* Fairness: probes are answered or time out every reporting round, a round *)
(* is not given up half way, clean threads and the 60 s pass. A thread that *)
(* waits for mutexExecs gets it in the end although others take it again    *)
(* and again, hence strong fairness where Free is a guard.                  *)
HandleFirst(e) == status[e] = Initing /\ \E s \in {Offline, Online} : FirstReport(e, s)

HandleOffline(e) ==
  /\ status[e] = Offline /\ e \notin cooling
  /\ \E s \in {Offline, Online} : Report(e, s)

Missing == ~isFirstStart /\ Ready # {}
           /\ Cardinality(activeExecList) + manualDownNum < execNum

HandleMissing == Missing /\ \E e \in Exec, s \in {Offline, Online} : Report(e, s)

Fairness ==
  /\ WF_vars(InitPick) /\ WF_vars(InitDone) /\ WF_vars(RefillPick)
  /\ SF_vars(HandleMissing)
  /\ \A e \in Exec : /\ SF_vars(HandleFirst(e)) /\ SF_vars(HandleOffline(e))
                     /\ SF_vars(CleanDone(e)) /\ WF_vars(CoolDown(e))

FairSpec == Spec /\ Fairness

-----------------------------------------------------------------------------
(* Properties *)

\* Types, and which statuses, lists and loops go together by construction.
TypeOK ==
  /\ status \in [Exec -> Status]
  /\ activeExecList \subseteq Exec
  /\ manualDownNum \in Int
  /\ isFirstStart \in BOOLEAN
  /\ scheduleRule \in Rules
  /\ mimicSwitch \in Switches
  /\ cleaning \in [Exec -> Nat]
  /\ cooling \subseteq Exec
  /\ table \in [Exec -> DbStatus]
  /\ fetched \subseteq [Exec -> DbStatus]
  /\ published \subseteq Exec
  /\ loop \in {"none", "init", "refill"}
  /\ left \in Nat
  /\ loop = "refill" => left > 0

\* After the first start the two lists of the pool agree: an executor is in
\* activeExecList exactly when allExecList marks it active (every handler
\* writes both under mutexExecs, and no clean thread writes over a member).
ActiveIffMarked == ~isFirstStart => activeExecList = Marked(status)

\* An executor is rebuilt by exactly one clean thread while its status is
\* cleaning and by none otherwise: never two docker-compose runs on the same
\* container, never one under an executor that is in service.
OneCleanerWhileCleaning ==
  ~isFirstStart =>
    \A e \in Exec : cleaning[e] = IF status[e] = Cleaning THEN 1 ELSE 0

\* Every handler that changes the active list publishes it before it releases
\* mutexExecs: the last snapshot names exactly the active executors.
PublishedIsPool == ~isFirstStart => published = activeExecList

\* With a database that answers and a switch nobody touches, exec_status_info
\* follows the pool row by row: no handler forgets updateExecStatusDb.
TableFollowsPool == ~isFirstStart => table = [e \in Exec |-> DbOf(status[e])]

\* Whatever commands come and in whatever state, an executor that is shown as
\* cleaning has a clean thread that will end it: none is lost for the pool.
CleaningHasCleaner == \A e \in Exec : status[e] = Cleaning => cleaning[e] > 0

\* The branch of execAutoReportCb that ends the process ("exec status -2 exit
\* process loop") is never reached after the first start.
NoInitingAfterStart == ~isFirstStart => \A e \in Exec : status[e] # Initing

\* Active executors, executors held back by the operator and picks still to be
\* made never exceed execNum: what manual_up gives, manual_down and the switch
\* take, a refill can not overshoot.
WithinBudget ==
  Cardinality(activeExecList) + manualDownNum + (IF loop = "none" THEN 0 ELSE left)
    <= execNum

\* No failure, error report, rotation, command or clean thread leaves the
\* service without an active executor; only a reload of the table may.
NeverEmptied ==
  [][~isFirstStart /\ activeExecList # {} /\ fetched' = fetched
       => activeExecList' # {}]_vars

\* Cleaning, offline and missing executors are all dealt with in the end: the
\* first start ends, a cleaning ends, an offline executor is back or cleaned
\* again, and a ready spare does not idle while a place is free.
FirstStartEnds == <>~isFirstStart
CleaningEnds   == \A e \in Exec : status[e] = Cleaning ~> status[e] # Cleaning
OfflineHandled ==
  \A e \in Exec : (status[e] = Offline /\ ~isFirstStart) ~> status[e] # Offline
SparesServe    == Missing ~> ~Missing

\* src/mimic_schedule.cpp:888 refuses manual_up with "execs is largest": the
\* pool would never be larger than execNum. It holds without manual_up
\* (ScheduleProofs); otherwise a switch that is turned on and a manual_up before
\* the next report break it.
NotAboveExecNum == ~isFirstStart => Cardinality(activeExecList) <= execNum
=============================================================================
