----------------------------- MODULE ProxyTask ------------------------------
(***************************************************************************)
(* One request of a client in the proxy (src/mimic_proxy.cpp,              *)
(* src/proxy_task.cpp).                                                    *)
(*                                                                         *)
(* The proxy sends the request to every active executor, judges the        *)
(* responses as they come, answers the client with the one that won and    *)
(* reports the executors that disagreed. A task and its callbacks belong   *)
(* to one event loop: a callback is one action. The loop that sends to     *)
(* the executors, in which a send can fail at once, takes a step each,     *)
(* during which nothing else runs.                                         *)
(***************************************************************************)
EXTENDS Vote

CONSTANTS
  Value,    \* what responses may contain, up to cmpJudgeData
  StatusOf, \* value -> class of its status: "2xx", "504" or "other"
  StandIn,  \* the response of addErrorJudgeData
  Keystone  \* TRUE: initHeaders runs the keystone helper

ASSUME ResponseAssumption ==
  /\ NoData \notin Value
  /\ StandIn \in Value
  /\ StatusOf \in [Value -> {"2xx", "504", "other"}]
  /\ StatusOf[StandIn] = "504"
  /\ Keystone \in BOOLEAN

\* Besides the variables of the vote:
VARIABLES
  stage,     \* "none", "sending" (startTask), "sent", or "refused"
  live,      \* the task is in proxyTaskList
  countp,    \* executors the loop of startTask is through with
  inflight,  \* executors whose request has no callback yet
  garbled,   \* executors whose response could not be parsed
  replies,   \* replies sent to the client
  reported   \* the executors of analyseErrorDetailMap

judged == <<data, judgeGroup, cmpRetRecord, judgeResult, judgeType>>
vars   == <<judged, scores, stage, live, countp, inflight, garbled, replies, reported>>

-----------------------------------------------------------------------------
(* judgeData *)

Is504(g) == StatusOf[data'[g]] = "504"

\* Mutant: a majority of 504 wins before all data are in.
Eligible_Early == Majority

\* The leaders of a majority that may decide now: one with a 504 waits for
\* the others.
Eligible == {g \in Majority : ~Is504(g) \/ {e \in Exec : data'[e] = NoData} = {}}

\* Mutant: the first group with any other status wins, a success or not.
Instead_AnyStatus(g) ==
  LET better == {h \in Exec : judgeGroup'[h] # {} /\ ~Is504(h)}
  IN IF ~Is504(g) \/ better = {} THEN {g} ELSE better

\* Instead of a 504 a group with a success wins, or else one with any other
\* status, if there is one.
Instead(g) ==
  LET better == {h \in Exec : judgeGroup'[h] # {} /\ ~Is504(h)}
      fine   == {h \in better : StatusOf[data'[h]] = "2xx"}
  IN IF ~Is504(g) \/ better = {} THEN {g}
     ELSE IF fine # {} THEN fine ELSE better

\* The result, once there is one: by majority, or when all data are in.
Decide ==
  IF judgeResult = None /\ (Eligible # {} \/ {e \in Exec : data'[e] = NoData} = {})
  THEN /\ \E g \in IF Eligible # {} THEN Eligible ELSE timeOrWeightJudge :
            judgeResult' \in Instead(g)
       /\ judgeType' = IF Eligible # {} THEN "MAJORITY" ELSE "TIME_OR_WEIGHT"
  ELSE UNCHANGED <<judgeResult, judgeType>>

\* A single executor decides alone, the first of several only leads a group.
judgeData(e) ==
  IF N = 1
  THEN judgeResult' = e /\ UNCHANGED <<judgeGroup, cmpRetRecord, judgeType>>
  ELSE /\ Group(e)
       /\ IF Here = {} THEN UNCHANGED <<judgeResult, judgeType>> ELSE Decide

\* Mutant: the client is answered with every datum after the decision.
Judge_ReplyAgain(e, v) ==
  /\ data[e] = NoData
  /\ data' = [data EXCEPT ![e] = v]
  /\ judgeData(e)
  /\ replies' = IF judgeResult' # None THEN replies + 1 ELSE replies
  /\ reported' = IF {x \in Exec : data'[x] = NoData} = {} THEN analyseJudgeResult ELSE {}

\* The datum v of e is judged, the client answered when that decided, and
\* the report made with the last datum.
Judge(e, v) ==
  /\ data[e] = NoData
  /\ data' = [data EXCEPT ![e] = v]
  /\ judgeData(e)
  /\ replies' = IF judgeResult' # judgeResult THEN replies + 1 ELSE replies
  /\ reported' = IF {x \in Exec : data'[x] = NoData} = {} THEN analyseJudgeResult ELSE {}

-----------------------------------------------------------------------------
(* The callbacks of the event loop *)

\* makeSidTask: the sid is in use, and the client gets a 504.
SidInUse ==
  /\ stage = "none"
  /\ stage' = "refused"
  /\ replies' = replies + 1
  /\ UNCHANGED <<judged, scores, live, countp, inflight, garbled, reported>>

\* makeSidTask creates the task, and initHeaders copies the pool's scores.
StartTask ==
  /\ stage = "none"
  /\ stage' = "sending"
  /\ live' = TRUE
  /\ scores' \in Scores
  /\ UNCHANGED <<judged, countp, inflight, garbled, replies, reported>>

\* makeSidTask, and the keystone helper fails: the client gets a 504, and
\* nothing takes the task out of the list.
HelperFails ==
  /\ stage = "none" /\ Keystone
  /\ stage' = "refused"
  /\ live' = TRUE
  /\ scores' \in Scores
  /\ replies' = replies + 1
  /\ UNCHANGED <<judged, countp, inflight, garbled, reported>>

\* An iteration of startTask's loop has handled its executor.
Advance ==
  /\ countp' = countp + 1
  /\ stage' = IF countp' = N THEN "sent" ELSE "sending"
  /\ UNCHANGED <<live, scores>>

\* The request to the next executor goes out.
Send ==
  /\ stage = "sending"
  /\ Advance
  /\ inflight' = inflight \cup {countp'}
  /\ UNCHANGED <<judged, garbled, replies, reported>>

\* It cannot be sent: its address cannot be parsed or there is no connection.
SendFails ==
  /\ stage = "sending"
  /\ Advance
  /\ Judge(countp', StandIn)
  /\ UNCHANGED <<inflight, garbled>>

\* Mutant: the task is deleted with the answer.
Finish_WithAnswer(e) ==
  /\ inflight' = inflight \ {e}
  /\ live' = (judgeResult' = None)
  /\ UNCHANGED <<scores, stage, countp>>

\* The request of e is freed: proxyReqFinishCb deletes the task when all
\* data are in.
Finish(e) ==
  /\ inflight' = inflight \ {e}
  /\ live' = ({x \in Exec : data'[x] = NoData} # {})
  /\ UNCHANGED <<scores, stage, countp>>

\* proxyReqCb, or proxyReqErrCb with a status: e has responded.
Response(e, v) ==
  /\ stage = "sent" /\ e \in inflight
  /\ Judge(e, v)
  /\ Finish(e)
  /\ UNCHANGED garbled

\* Mutant: an error is only logged, without a stand-in.
NoResponse_Silent(e) ==
  /\ stage = "sent" /\ e \in inflight
  /\ UNCHANGED <<judged, garbled, replies, reported>>
  /\ Finish(e)

\* proxyReqErrCb without a status: refused, lost or timed out.
NoResponse(e) ==
  /\ stage = "sent" /\ e \in inflight
  /\ Judge(e, StandIn)
  /\ Finish(e)
  /\ UNCHANGED garbled

\* The response of e is no HTTP: evhtp frees the connection, and with it the
\* request, without calling proxyReqCb or proxyReqErrCb. No datum comes.
Garbled(e) ==
  /\ stage = "sent" /\ e \in inflight
  /\ garbled' = garbled \cup {e}
  /\ UNCHANGED <<judged, replies, reported>>
  /\ Finish(e)

Init ==
  /\ data = [e \in Exec |-> NoData]
  /\ judgeGroup = [e \in Exec |-> {}]
  /\ cmpRetRecord = {}
  /\ judgeResult = None
  /\ judgeType = ""
  /\ scores \in Scores
  /\ stage = "none"
  /\ live = FALSE
  /\ countp = 0
  /\ inflight = {}
  /\ garbled = {}
  /\ replies = 0
  /\ reported = {}

Next ==
  \/ SidInUse \/ StartTask \/ HelperFails
  \/ Send \/ SendFails
  \/ \E e \in Exec : NoResponse(e) \/ Garbled(e) \/ \E v \in Value : Response(e, v)

Spec == Init /\ [][Next]_vars

\* A loop that runs goes on; a request ends with a response, an error, the
\* timeout of its connection, or what cannot be parsed.
Fairness ==
  /\ WF_vars(Send \/ SendFails)
  /\ \A e \in Exec : WF_vars(NoResponse(e) \/ Garbled(e) \/ \E v \in Value : Response(e, v))

FairSpec == Spec /\ Fairness

-----------------------------------------------------------------------------
(* Properties *)

\* Types.
TypeOK ==
  /\ data \in [Exec -> Value \cup {NoData}]
  /\ judgeGroup \in [Exec -> SUBSET Exec]
  /\ cmpRetRecord \subseteq Exec \X Exec
  /\ judgeResult \in Exec \cup {None}
  /\ judgeType \in {"", "MAJORITY", "TIME_OR_WEIGHT"}
  /\ scores \in Scores
  /\ stage \in {"none", "sending", "sent", "refused"}
  /\ live \in BOOLEAN
  /\ countp \in 0..N
  /\ inflight \subseteq Exec
  /\ garbled \subseteq Exec
  /\ replies \in Nat
  /\ reported \subseteq Exec

\* The client gets its reply with the decision or the refusal, never before
\* and never again, whatever comes after: at most one, and none without one.
RepliedOnce == replies = IF judgeResult # None \/ stage = "refused" THEN 1 ELSE 0

\* The client gets a 504 only when every executor has one for it: no order
\* of failures and responses gives it a 504 while there is, or may still
\* come, anything better.
No504WithoutNeed ==
  judgeResult # None /\ StatusOf[data[judgeResult]] = "504" =>
    \A e \in Exec : data[e] # NoData /\ StatusOf[data[e]] = "504"

\* The response of more than half of the executors wins, unless it is a 504,
\* and wins as soon as that many have come.
MajorityWins ==
  \A v \in Value :
    StatusOf[v] # "504" /\ 2 * Cardinality({e \in Exec : data[e] = v}) > N
      => judgeResult # None /\ data[judgeResult] = v

\* When all data are in exactly those executors are reported to the schedule
\* service whose response differs from the one the client got, also when a
\* minority was preferred to a majority with a 504.
ReportedAreDissenters == Complete => reported = Dissenters

\* No request is in flight whose callback would use a task that is deleted,
\* and every executor's datum has come, is on its way or is still to be asked
\* for, but for those whose response could not be parsed: none is counted
\* twice, no other forgotten. What is left in the list for ever is a task
\* that lacks such a datum, could not send anything, or was refused.
TaskOutlivesRequests ==
  /\ inflight # {} \/ stage = "sending" => live
  /\ stage # "refused" => Here = (1..countp) \ (inflight \cup garbled)
  /\ live /\ Complete => \A e \in Exec : data[e] = StandIn

\* Judging is what it promises the client: one reply, a refusal or the response
\* of an executor, chosen when it is due among those that may be.
A == INSTANCE Answer WITH responses <- data, chosen <- judgeResult
AnswerSpec == A!Spec

\* Nothing more can come, a datum was lost with a response that could not be
\* parsed, and no half of the executors agrees on anything but a 504.
Stranded ==
  /\ stage = "sent" /\ inflight = {} /\ garbled # {}
  /\ Cardinality(Here) < 2
       \/ \A v \in Value : StatusOf[v] # "504" =>
            2 * Cardinality({e \in Exec : data[e] = v}) < N

\* A client is answered in the end, unless its task is stranded: one response
\* that cannot be parsed costs the client its reply only when the others
\* leave the vote open.
ClientAnswered == stage # "none" ~> replies = 1 \/ Stranded

\* A task that sent a request is deleted in the end, after all the requests,
\* unless a response could not be parsed.
TaskDeleted == inflight # {} ~> ~live \/ garbled # {}
=============================================================================
