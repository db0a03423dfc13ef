----------------------------- MODULE JudgeTask ------------------------------
(***************************************************************************)
(* One sid in a judge thread (src/judge_task.cpp, src/mimic_jthread.cpp).  *)
(*                                                                         *)
(* The executors of the sid repeat one request; the judge thread groups    *)
(* the copies that agree, picks one, sends it to the backend, gives the    *)
(* answer to every copy and reports the executors that disagreed.          *)
(*                                                                         *)
(* A sid always goes to the same judge thread, and a judge thread is one   *)
(* event loop: a callback is one action. The timeout callback, which       *)
(* handles the missing executors one after the other, is a step each,      *)
(* during which nothing else runs.                                         *)
(***************************************************************************)
EXTENDS Vote

CONSTANTS
  Value,      \* what the requests may contain, up to cmpJudgeData
  Timeout,    \* not a value: the "/default_timeout" stand-in
  Horizon,    \* TRUE: horizon (HTTP backend); FALSE: controller (TCP)
  Requests,   \* bound: requests of one executor with this sid
  Late,       \* TRUE: a request may come after its vote is over
  Malformed   \* TRUE: a controller's backend may be no address

ASSUME ValueAssumption == NoData \notin Value /\ Timeout \notin Value /\ NoData # Timeout
ASSUME ConfigAssumption == Requests \in Nat /\ {Horizon, Late, Malformed} \subseteq BOOLEAN

\* Besides the variables of the vote:
VARIABLES
  live,          \* the sid is in taskList; the rest is the last task's state
  firstReqData,  \* whose request came first
  backend,       \* "none", "waiting", "come" and "garbled" (horizon), "sent"
                 \* and "refused" (controller)
  answered,      \* the executors with respIsOk "ok"
  reported,      \* the executors of analyseErrorDetailMap
  timer,         \* time_out_ev: "off", "armed" or "firing"
  coming,        \* executor -> requests still to come
  owed           \* executor -> its requests that came and have no answer

votes == <<live, data, firstReqData, judgeGroup, cmpRetRecord, judgeResult,
           judgeType, backend, scores>>
vars  == <<votes, answered, reported, timer, coming, owed>>

-----------------------------------------------------------------------------
(* judgeData *)

\* Mutant: the stand-in of a timeout may win.
NotTimeout_Dropped(g) == g

\* Instead of a timeout the first request wins.
NotTimeout(g) == IF data'[g] = Timeout THEN firstReqData ELSE g

\* The result, once there is one: by majority, or when nobody is missing.
Decide ==
  LET due  == {e \in Exec : data'[e] = NoData} = {}
      pick == IF Majority # {} THEN Majority ELSE timeOrWeightJudge
  IN IF judgeResult = None /\ (Majority # {} \/ due)
     THEN /\ \E g \in pick : judgeResult' = NotTimeout(g)
          /\ judgeType' = IF Majority # {} THEN "MAJORITY" ELSE "TIME_OR_WEIGHT"
     ELSE UNCHANGED <<judgeResult, judgeType>>

-----------------------------------------------------------------------------
(* The steps of processJudgeData after judgeData *)

\* A horizon request goes out or fails at once (gotoErrBackendResp: a 504 is
\* the answer); a controller body goes out unless its backend is no address.
\* That a horizon backend is a URI is taken for granted: the code is, and
\* crashes else.
sendToBackend ==
  backend' \in IF Horizon THEN {"waiting", "come"}
               ELSE {"sent"} \cup (IF Malformed THEN {"refused"} ELSE {})

\* Mutant: who was answered is forgotten.
responseToFrondReq_Again(done, asked) ==
  LET now == IF Horizon /\ backend' = "come"
             THEN {e \in Exec : data'[e] \in Value}
             ELSE {}
  IN /\ answered' = done \cup now
     /\ owed' = [e \in Exec |-> IF e \in now THEN asked[e] - 1 ELSE asked[e]]

\* When the backend has answered, every request that has come and is not in
\* done gets the answer; asked: the requests without answer.
responseToFrondReq(done, asked) ==
  LET now == IF Horizon /\ backend' = "come"
             THEN {e \in Exec : data'[e] \in Value} \ done
             ELSE {}
  IN /\ answered' = done \cup now
     /\ owed' = [e \in Exec |-> IF e \in now THEN asked[e] - 1 ELSE asked[e]]

\* Mutant: the task is deleted with the answer although requests are missing.
Over_Early == backend' \in {"come", "sent"}

\* Mutant: nobody waits for a controller's answer, so nothing deletes its task.
Over_Waits == {e \in Exec : data'[e] = NoData} = {} /\ backend' = "come"

\* All data processed, and the backend answered (horizon) or was sent to.
Over == {e \in Exec : data'[e] = NoData} = {} /\ backend' \in {"come", "sent"}

\* analyseJudgeResult, clearNewData and clearTask, or the task stays.
Conclude ==
  /\ live' = ~Over
  /\ reported' = IF Over THEN analyseJudgeResult ELSE {}

-----------------------------------------------------------------------------
(* The callbacks of the event loop *)

\* Nothing runs while the timeout callback does.
Idle == timer # "firing"

Asked(e) == IF Horizon THEN [owed EXCEPT ![e] = @ + 1] ELSE owed

\* doJudge, no task for the sid: one is created, its timer armed. A single
\* executor decides alone; else it leads the first group.
FirstRequest(e, v) ==
  /\ Idle /\ coming[e] > 0
  /\ ~live /\ (Late \/ judgeResult = None)
  /\ coming' = [coming EXCEPT ![e] = @ - 1]
  /\ scores' \in Scores
  /\ data' = [x \in Exec |-> IF x = e THEN v ELSE NoData]
  /\ firstReqData' = e
  /\ judgeGroup' = [x \in Exec |-> IF x = e /\ N > 1 THEN {e} ELSE {}]
  /\ cmpRetRecord' = {}
  /\ judgeResult' = IF N = 1 THEN e ELSE None
  /\ judgeType' = ""
  /\ IF N = 1 THEN sendToBackend ELSE backend' = "none"
  /\ responseToFrondReq({}, Asked(e))
  /\ Conclude
  /\ timer' = IF live' THEN "armed" ELSE "off"

\* processJudgeData for the task's second and later data.
Process(e, v, asked) ==
  /\ live /\ data[e] = NoData
  /\ data' = [data EXCEPT ![e] = v]
  /\ Group(e)
  /\ Decide
  /\ IF judgeResult' = judgeResult THEN UNCHANGED backend ELSE sendToBackend
  /\ responseToFrondReq(answered, asked)
  /\ Conclude
  /\ UNCHANGED <<firstReqData, scores>>

NextRequest(e, v) ==
  /\ Idle /\ coming[e] > 0
  /\ coming' = [coming EXCEPT ![e] = @ - 1]
  /\ Process(e, v, Asked(e))
  /\ timer' = IF live' THEN timer ELSE "off"

\* A 504 at once: the request repeats one that has come, comes after its
\* stand-in, or comes while the subscription has not brought the pool. The
\* last can be at any time.
Refuse(e) ==
  /\ Idle /\ coming[e] > 0
  /\ coming' = [coming EXCEPT ![e] = @ - 1]
  /\ UNCHANGED <<votes, answered, reported, timer, owed>>

\* judgeTimeoutCb starts; with nobody missing it only returns.
TimeoutStart ==
  /\ timer = "armed"
  /\ timer' = IF Complete THEN "off" ELSE "firing"
  /\ UNCHANGED <<votes, answered, reported, coming, owed>>

\* Mutant: the callback returns one executor early.
TimeoutItem_OneShort(e) ==
  /\ timer = "firing"
  /\ Process(e, Timeout, owed)
  /\ timer' = IF Cardinality(Here) + 2 >= N THEN "off" ELSE "firing"
  /\ UNCHANGED coming

\* One iteration: the stand-in of a missing executor is processed. The last
\* one may delete the task, whose serverarray the loop then reads; whatever it
\* reads, no executor is left to go on with.
TimeoutItem(e) ==
  /\ timer = "firing"
  /\ Process(e, Timeout, owed)
  /\ timer' = IF {x \in Exec : data'[x] = NoData} = {} THEN "off" ELSE "firing"
  /\ UNCHANGED coming

\* The backend's answer is no HTTP: evhtp frees the connection and the request
\* and calls neither backendRespCb nor backendRespErrCb.
BackendGarbled ==
  /\ Idle /\ backend = "waiting"
  /\ backend' = "garbled"
  /\ UNCHANGED <<live, data, firstReqData, judgeGroup, cmpRetRecord, judgeResult, judgeType,
                 scores, answered, reported, timer, coming, owed>>

\* backendRespCb or backendRespErrCb; the connection has a timeout.
BackendReply ==
  /\ Idle /\ backend = "waiting"
  /\ backend' = "come"
  /\ UNCHANGED <<data, firstReqData, judgeGroup, cmpRetRecord, judgeResult,
                 judgeType, scores, coming>>
  /\ responseToFrondReq(answered, owed)
  /\ Conclude
  /\ timer' = IF live' THEN timer ELSE "off"

Init ==
  /\ live = FALSE
  /\ data = [e \in Exec |-> NoData]
  /\ firstReqData = None
  /\ judgeGroup = [e \in Exec |-> {}]
  /\ cmpRetRecord = {}
  /\ judgeResult = None
  /\ judgeType = ""
  /\ backend = "none"
  /\ answered = {}
  /\ reported = {}
  /\ timer = "off"
  /\ scores \in Scores
  /\ coming = [e \in Exec |-> Requests]
  /\ owed = [e \in Exec |-> 0]

Next ==
  \/ \E e \in Exec, v \in Value : FirstRequest(e, v) \/ NextRequest(e, v)
  \/ \E e \in Exec : Refuse(e) \/ TimeoutItem(e)
  \/ TimeoutStart
  \/ BackendReply \/ BackendGarbled

Spec == Init /\ [][Next]_vars

\* The timer fires, its callback runs to its end, and the backend answers, in
\* HTTP or not, or its connection times out.
Fairness ==
  /\ WF_vars(TimeoutStart) /\ WF_vars(\E e \in Exec : TimeoutItem(e))
  /\ WF_vars(BackendReply \/ BackendGarbled)

FairSpec == Spec /\ Fairness

-----------------------------------------------------------------------------
(* Properties *)

Real(e) == data[e] \in Value

\* Types; no more answers are given than are owed.
TypeOK ==
  /\ live \in BOOLEAN
  /\ data \in [Exec -> Value \cup {NoData, Timeout}]
  /\ firstReqData \in Exec \cup {None}
  /\ judgeGroup \in [Exec -> SUBSET Exec]
  /\ cmpRetRecord \subseteq Exec \X Exec
  /\ judgeResult \in Exec \cup {None}
  /\ judgeType \in {"", "MAJORITY", "TIME_OR_WEIGHT"}
  /\ backend \in {"none", "waiting", "come", "garbled", "sent", "refused"}
  /\ answered \subseteq Exec
  /\ reported \subseteq Exec
  /\ timer \in {"off", "armed", "firing"}
  /\ scores \in Scores
  /\ coming \in [Exec -> Nat]
  /\ owed \in [Exec -> Nat]

\* Each request that came gets exactly one answer: one is owed as long as the
\* task is there and the executor is not marked answered, none afterwards. No
\* task is deleted under a request that waits, and no answer is given twice by
\* the reply to all, the later copies and the stand-ins.
OwedExact ==
  \A e \in Exec :
    owed[e] = IF Horizon /\ live /\ Real(e) /\ e \notin answered THEN 1 ELSE 0

\* While the timeout callback goes through the missing executors the task is
\* there and somebody is missing: no stand-in, no decision and no answer on
\* the way deletes the task under the callback that iterates over it.
CallbackHasTask == timer = "firing" => live /\ ~Complete

\* Once all data have come the vote has a result and the task is deleted, or
\* waits for its backend; for good only that of a backend whose answer could
\* not be parsed, and of a controller whose backend was no address and which
\* nothing was sent to (sendToBackend, processJudgeData).
OnlyRefusedStays == live /\ Complete => backend \in {"waiting", "garbled", "refused"}

\* The request of more than half of the executors wins, in whatever order the
\* copies and the timeout come and whatever the groups looked like before.
MajorityWins ==
  \A v \in Value :
    2 * Cardinality({e \in Exec : data[e] = v}) > N
      => judgeResult # None /\ data[judgeResult] = v

\* When the task is over exactly those executors are reported to the schedule
\* service whose request differs from the one that won, or that sent none.
ReportedAreDissenters ==
  ~live /\ judgeResult # None =>
    reported = Dissenters

\* The vote as a whole is the abstract one: one vote for each executor, one
\* choice that never changes, made when it is due and among those allowed.
B == INSTANCE Ballot WITH votes <- data, chosen <- judgeResult, open <- live
BallotSpec == B!Spec

\* Every task is deleted in the end, unless its backend's answer could not be
\* parsed. Nobody waits then (OwedExact), so each request was answered.
TaskEnds == live ~> ~live \/ backend = "garbled"
=============================================================================
