-------------------------- MODULE JudgeTaskProofs ---------------------------
(***************************************************************************)
(* Proofs about one vote of a judge thread, for any number of executors    *)
(* and requests.                                                           *)
(***************************************************************************)
EXTENDS JudgeTask, VoteProofs

\* The first request is real and leads a group.
First ==
  live => /\ firstReqData \in Exec /\ Real(firstReqData)
          /\ N > 1 => firstReqData \in Leaders

\* While there is no result none is due; a result is real and was due.
Result ==
  /\ judgeResult = None =>
       /\ backend = "none" /\ judgeType = ""
       /\ live => N > 1 /\ ~Complete /\ Here # {}
       /\ live => \A e, f \in Here : e = f \/ \A v \in Value \cup {Timeout} : ~Half(v)
       /\ ~live => Here = {}
  /\ judgeResult # None =>
       /\ Real(judgeResult)
       /\ ~live => Complete
       /\ N = 1 => Complete
       /\ N > 1 => judgeType # ""
       /\ judgeType = "MAJORITY" =>
            judgeResult \in Leaders /\ (Half(data[judgeResult]) \/ Half(Timeout))
       /\ judgeType = "TIME_OR_WEIGHT" =>
            Complete /\ \A v \in Value \cup {Timeout} : ~Half(v)

\* Which answers are possible, and who got one.
Answers ==
  /\ backend = "waiting" => live
  /\ timer # "off" => live
  /\ Horizon => backend \in {"none", "waiting", "come", "garbled"}
  /\ live => \A e \in answered : Real(e)
  /\ \A e \in Exec : Horizon /\ live /\ backend = "come" /\ Real(e) => e \in answered

Inv == TypeOK /\ Groups /\ First /\ Result /\ Answers

-----------------------------------------------------------------------------
(* Type correctness *)

LEMMA VoteTyped == TypeOK => VoteType
<1>1. ASSUME NEW D, NEW f \in [Exec -> D] PROVE f = [e \in Exec |-> f[e]]
  OBVIOUS
<1>2. QED
  BY <1>1 DEF TypeOK, VoteType


LEMMA TypeInit == Init => TypeOK
<1> SUFFICES ASSUME Init PROVE TypeOK
  OBVIOUS
<1>1. coming = [e \in Exec |-> Requests] /\ owed = [e \in Exec |-> 0]
  BY DEF Init
<1>2. coming \in [Exec -> Nat] /\ owed \in [Exec -> Int]
  BY <1>1, ConfigAssumption
<1>3. data \in [Exec -> Value \cup {NoData, Timeout}]
  BY DEF Init
<1>4. judgeGroup \in [Exec -> SUBSET Exec]
  BY DEF Init
<1>5. QED
  BY <1>2, <1>3, <1>4 DEF Init, TypeOK

LEMMA OwedInt ==
  ASSUME TypeOK
  PROVE  owed \in [Exec -> Int]
<1>1. owed \in [Exec -> Nat]
  BY DEF TypeOK
<1>2. \A e \in Exec : owed[e] \in Int
  BY <1>1
<1>3. QED
  BY <1>1, <1>2

LEMMA ComingType ==
  ASSUME TypeOK, NEW e \in Exec, coming[e] > 0, coming' = [coming EXCEPT ![e] = @ - 1]
  PROVE  coming' \in [Exec -> Nat]
<1>1. coming \in [Exec -> Nat]
  BY DEF TypeOK
<1>2. coming[e] - 1 \in Nat
  BY <1>1
<1>3. QED
  BY <1>1, <1>2

LEMMA DecideType ==
  ASSUME TypeOK, Decide
  PROVE  /\ judgeResult' \in Exec \cup {None}
         /\ judgeType' \in {"", "MAJORITY", "TIME_OR_WEIGHT"}
BY PreferredExec DEF TypeOK, Decide, Majority, NotTimeout

LEMMA SendType ==
  ASSUME sendToBackend
  PROVE  backend' \in {"none", "waiting", "come", "garbled", "sent", "refused"}
BY DEF sendToBackend

LEMMA ReplyType ==
  ASSUME NEW done \in SUBSET Exec, NEW asked \in [Exec -> Int],
         responseToFrondReq(done, asked)
  PROVE  answered' \subseteq Exec /\ owed' \in [Exec -> Int]
BY DEF responseToFrondReq

LEMMA ConcludeType ==
  ASSUME Conclude
  PROVE  live' \in BOOLEAN /\ reported' \subseteq Exec
BY DEF Conclude, Over, analyseJudgeResult

LEMMA ProcessType ==
  ASSUME TypeOK, NEW e \in Exec, NEW v \in Value \cup {Timeout},
         NEW asked \in [Exec -> Int], Process(e, v, asked)
  PROVE  /\ live' \in BOOLEAN /\ reported' \subseteq Exec
         /\ data' \in [Exec -> Value \cup {NoData, Timeout}]
         /\ judgeGroup' \in [Exec -> SUBSET Exec] /\ cmpRetRecord' \subseteq Exec \X Exec
         /\ judgeResult' \in Exec \cup {None}
         /\ judgeType' \in {"", "MAJORITY", "TIME_OR_WEIGHT"}
         /\ backend' \in {"none", "waiting", "come", "garbled", "sent", "refused"}
         /\ answered' \subseteq Exec /\ owed' \in [Exec -> Int]
         /\ UNCHANGED <<firstReqData, scores>>
<1>1. data' \in [Exec -> Value \cup {NoData, Timeout}]
  BY DEF Process, TypeOK
<1>2. answered \in SUBSET Exec /\ Group(e) /\ Decide
      /\ responseToFrondReq(answered, asked) /\ Conclude
  BY DEF Process, TypeOK
<1>3. backend' \in {"none", "waiting", "come", "garbled", "sent", "refused"}
  BY SendType DEF Process, TypeOK
<1>4. QED
  BY <1>1, <1>2, <1>3, VoteTyped, GroupType, DecideType, ReplyType, ConcludeType DEF Process

LEMMA AskedType ==
  ASSUME TypeOK, NEW e \in Exec
  PROVE  Asked(e) \in [Exec -> Int]
<1>1. owed \in [Exec -> Int]
  BY OwedInt
<1>2. owed[e] + 1 \in Int
  BY <1>1
<1>3. QED
  BY <1>1, <1>2 DEF Asked

LEMMA OwedType ==
  ASSUME OwedExact', owed' \in [Exec -> Int]
  PROVE  owed' \in [Exec -> Nat]
<1>1. \A e \in Exec : owed'[e] \in Nat
  BY DEF OwedExact
<1>2. QED
  BY <1>1

LEMMA TypeStep == TypeOK /\ OwedExact' /\ [Next]_vars => TypeOK'
<1> SUFFICES ASSUME TypeOK, OwedExact', [Next]_vars PROVE TypeOK'
  OBVIOUS
<1>1. ASSUME NEW e \in Exec, NEW v \in Value, FirstRequest(e, v) PROVE TypeOK'
  <2>1. coming' \in [Exec -> Nat]
    BY <1>1, ComingType DEF FirstRequest
  <2>2. data' \in [Exec -> Value \cup {NoData, Timeout}]
    BY <1>1 DEF FirstRequest
  <2>3. answered' \subseteq Exec /\ owed' \in [Exec -> Int]
    BY <1>1, AskedType, ReplyType DEF FirstRequest
  <2>4. live' \in BOOLEAN /\ reported' \subseteq Exec
    BY <1>1, ConcludeType DEF FirstRequest
  <2>5. backend' \in {"none", "waiting", "come", "garbled", "sent", "refused"}
    BY <1>1, SendType DEF FirstRequest
  <2>6. judgeGroup' \in [Exec -> SUBSET Exec]
    BY <1>1 DEF FirstRequest
  <2>7. QED
    BY <1>1, <2>1, <2>2, <2>3, <2>4, <2>5, <2>6, OwedType DEF FirstRequest, TypeOK
<1>2. ASSUME NEW e \in Exec, NEW v \in Value, NextRequest(e, v) PROVE TypeOK'
  <2>1. coming' \in [Exec -> Nat]
    BY <1>2, ComingType DEF NextRequest
  <2>2. timer' \in {"off", "armed", "firing"}
    BY <1>2 DEF NextRequest, TypeOK
  <2>3. Process(e, v, Asked(e)) /\ Asked(e) \in [Exec -> Int]
    BY <1>2, AskedType DEF NextRequest
  <2>4. QED
    BY <2>1, <2>2, <2>3, ProcessType, OwedType DEF TypeOK
<1>3. ASSUME NEW e \in Exec, TimeoutItem(e) PROVE TypeOK'
  <2>1. coming' = coming /\ timer' \in {"off", "armed", "firing"}
    BY <1>3 DEF TimeoutItem
  <2>2. Process(e, Timeout, owed) /\ owed \in [Exec -> Int]
    BY <1>3, OwedInt DEF TimeoutItem
  <2>3. QED
    BY <2>1, <2>2, ProcessType, OwedType DEF TypeOK
<1>4. ASSUME NEW e \in Exec, Refuse(e) PROVE TypeOK'
  BY <1>4, ComingType DEF Refuse, votes, TypeOK
<1>5. CASE TimeoutStart
  BY <1>5 DEF TimeoutStart, votes, TypeOK
<1>6. CASE BackendReply
  <2>1. answered' \subseteq Exec /\ owed' \in [Exec -> Int]
    BY <1>6, OwedInt, ReplyType DEF BackendReply, TypeOK
  <2>2. live' \in BOOLEAN /\ reported' \subseteq Exec
    BY <1>6, ConcludeType DEF BackendReply
  <2>3. QED
    BY <1>6, <2>1, <2>2, OwedType DEF BackendReply, TypeOK
<1>7. CASE BackendGarbled
  BY <1>7 DEF BackendGarbled, TypeOK
<1>8. CASE UNCHANGED vars
  BY <1>8 DEF vars, votes, TypeOK
<1>9. QED
  BY <1>1, <1>2, <1>3, <1>4, <1>5, <1>6, <1>7, <1>8 DEF Next

-----------------------------------------------------------------------------
(* Every request is answered exactly once *)

\* What the reply to all and the end of the task leave, if before it exactly
\* the real requests outside done are owed an answer.
LEMMA ReplyExact ==
  ASSUME NEW done \in SUBSET Exec, NEW asked \in [Exec -> Int],
         responseToFrondReq(done, asked), Conclude,
         Horizon => backend' \in {"none", "waiting", "come", "garbled"},
         \A x \in done : data'[x] \in Value,
         \A x \in Exec :
           asked[x] = IF Horizon /\ data'[x] \in Value /\ x \notin done THEN 1 ELSE 0
  PROVE  /\ OwedExact'
         /\ \A x \in answered' : data'[x] \in Value
         /\ \A x \in Exec :
              Horizon /\ backend' = "come" /\ data'[x] \in Value => x \in answered'
<1>1. CASE Horizon /\ backend' = "come"
  <2>1. answered' = done \cup {x \in Exec : data'[x] \in Value}
    BY <1>1 DEF responseToFrondReq
  <2>2. \A x \in Exec : owed'[x] = 0
    BY <1>1 DEF responseToFrondReq
  <2>3. QED
    BY <2>1, <2>2 DEF OwedExact, Real
<1>2. CASE Horizon /\ backend' # "come"
  <2>1. answered' = done /\ \A x \in Exec : owed'[x] = asked[x]
    BY <1>2 DEF responseToFrondReq
  <2>2. live' = TRUE
    BY <1>2 DEF Conclude, Over
  <2>3. QED
    BY <1>2, <2>1, <2>2 DEF OwedExact, Real
<1>3. CASE ~Horizon
  <2>1. answered' = done /\ \A x \in Exec : owed'[x] = asked[x]
    BY <1>3 DEF responseToFrondReq
  <2>2. QED
    BY <1>3, <2>1 DEF OwedExact, Real
<1>4. QED
  BY <1>1, <1>2, <1>3

\* The two ways to process a datum: a request, or a stand-in.
LEMMA AnswersProcess ==
  ASSUME TypeOK, Answers, OwedExact, NEW e \in Exec, NEW v, NEW asked,
         \/ v \in Value /\ asked = Asked(e)
         \/ v = Timeout /\ asked = owed,
         Process(e, v, asked)
  PROVE  /\ OwedExact'
         /\ Horizon => backend' \in {"none", "waiting", "come", "garbled"}
         /\ \A x \in answered' : Real(x)'
         /\ \A x \in Exec : Horizon /\ backend' = "come" /\ Real(x)' => x \in answered'
<1>1. Horizon => backend' \in {"none", "waiting", "come", "garbled"}
  BY DEF Process, sendToBackend, Answers
<1>2. live /\ data[e] = NoData /\ data' = [data EXCEPT ![e] = v]
      /\ responseToFrondReq(answered, asked) /\ Conclude
  BY DEF Process
<1>3. answered \in SUBSET Exec /\ data \in [Exec -> Value \cup {NoData, Timeout}]
      /\ owed \in [Exec -> Int]
  BY OwedInt DEF TypeOK
<1>4. \A x \in answered : x # e /\ data'[x] \in Value
  BY <1>2, <1>3, ValueAssumption DEF Answers, Real
<1>5. asked \in [Exec -> Int]
  BY <1>3, AskedType
<1>6. \A x \in Exec : x # e => asked[x] = owed[x]
  BY <1>3 DEF Asked
<1>7. \A x \in Exec : x # e =>
        asked[x] = IF Horizon /\ data'[x] \in Value /\ x \notin answered THEN 1 ELSE 0
  BY <1>2, <1>3, <1>6 DEF OwedExact, Real
<1>8. owed[e] = 0
  BY <1>2, ValueAssumption DEF OwedExact, Real
<1>9. asked[e] = IF Horizon /\ v \in Value THEN 1 ELSE 0
  BY <1>3, <1>8, ValueAssumption DEF Asked
<1>10. asked[e] = IF Horizon /\ data'[e] \in Value /\ e \notin answered THEN 1 ELSE 0
  BY <1>2, <1>3, <1>4, <1>9
<1>11. \A x \in Exec :
        asked[x] = IF Horizon /\ data'[x] \in Value /\ x \notin answered THEN 1 ELSE 0
  BY <1>7, <1>10
<1>12. QED
  BY <1>1, <1>2, <1>3, <1>4, <1>5, <1>11, ReplyExact DEF Real

LEMMA AnswersStep == TypeOK /\ Answers /\ OwedExact /\ [Next]_vars => Answers' /\ OwedExact'
<1> SUFFICES ASSUME TypeOK, Answers, OwedExact, [Next]_vars PROVE Answers' /\ OwedExact'
  OBVIOUS
<1>1. ASSUME NEW e \in Exec, NEW v \in Value, FirstRequest(e, v)
      PROVE  Answers' /\ OwedExact'
  <2>1. Horizon => backend' \in {"none", "waiting", "come", "garbled"}
    BY <1>1 DEF FirstRequest, sendToBackend
  <2>2. responseToFrondReq({}, Asked(e)) /\ Conclude /\ ~live
        /\ data' = [x \in Exec |-> IF x = e THEN v ELSE NoData]
    BY <1>1 DEF FirstRequest
  <2>3. \A x \in Exec : owed[x] = 0
    BY <2>2 DEF OwedExact
  <2>4. \A x \in Exec : Asked(e)[x] = IF Horizon /\ x = e THEN 1 ELSE 0
    <3>1. owed \in [Exec -> Int]
      BY OwedInt
    <3>2. QED
      BY <2>3, <3>1 DEF Asked
  <2>5. \A x \in Exec :
          Asked(e)[x] = IF Horizon /\ data'[x] \in Value /\ x \notin {} THEN 1 ELSE 0
    BY <2>2, <2>4, ValueAssumption
  <2>6. /\ OwedExact' /\ \A x \in answered' : data'[x] \in Value
        /\ \A x \in Exec :
             Horizon /\ backend' = "come" /\ data'[x] \in Value => x \in answered'
    <3>1. {} \in SUBSET Exec /\ \A x \in {} : data'[x] \in Value
      OBVIOUS
    <3>2. Asked(e) \in [Exec -> Int]
      BY AskedType
    <3>3. QED
      BY <2>1, <2>2, <2>5, <3>1, <3>2, ReplyExact
  <2>7. (backend' = "waiting" => live') /\ (timer' # "off" => live')
    BY <1>1 DEF FirstRequest, Conclude, Over
  <2>8. QED
    BY <2>1, <2>6, <2>7 DEF Answers, Real
<1>2. ASSUME NEW e \in Exec, NEW v \in Value, NextRequest(e, v)
      PROVE  Answers' /\ OwedExact'
  <2>1. Process(e, v, Asked(e))
    BY <1>2 DEF NextRequest
  <2>2. (backend' = "waiting" => live') /\ (timer' # "off" => live')
    BY <1>2, <2>1 DEF NextRequest, Process, Conclude, Over
  <2>3. QED
    BY <2>1, <2>2, AnswersProcess DEF Answers
<1>3. ASSUME NEW e \in Exec, TimeoutItem(e)
      PROVE  Answers' /\ OwedExact'
  <2>1. Process(e, Timeout, owed)
    BY <1>3 DEF TimeoutItem
  <2>2. backend' = "waiting" => live'
    BY <2>1 DEF Process, Conclude, Over
  <2>3. timer' # "off" => live'
    BY <1>3, <2>1 DEF TimeoutItem, Process, Conclude, Over
  <2>4. QED
    BY <2>1, <2>2, <2>3, AnswersProcess DEF Answers
<1>4. ASSUME NEW e \in Exec, Refuse(e) PROVE Answers' /\ OwedExact'
  BY <1>4 DEF Refuse, votes, Answers, OwedExact, Real
<1>5. CASE TimeoutStart
  <2>1. timer' # "off" => live
    BY <1>5 DEF TimeoutStart, Answers
  <2>2. QED
    BY <1>5, <2>1 DEF TimeoutStart, votes, Answers, OwedExact, Real
<1>6. CASE BackendReply
  <2>1. backend' = "come" /\ data' = data /\ responseToFrondReq(answered, owed)
        /\ Conclude /\ live
    BY <1>6 DEF BackendReply, Answers
  <2>2. answered \in SUBSET Exec /\ owed \in [Exec -> Int]
    BY OwedInt DEF TypeOK
  <2>3. \A x \in answered : data'[x] \in Value
    BY <2>1 DEF Answers, Real
  <2>4. \A x \in Exec :
          owed[x] = IF Horizon /\ data'[x] \in Value /\ x \notin answered THEN 1 ELSE 0
    BY <2>1 DEF OwedExact, Real
  <2>5. /\ OwedExact' /\ \A x \in answered' : data'[x] \in Value
        /\ \A x \in Exec :
             Horizon /\ backend' = "come" /\ data'[x] \in Value => x \in answered'
    BY <2>1, <2>2, <2>3, <2>4, ReplyExact
  <2>6. timer' # "off" => live'
    BY <1>6 DEF BackendReply
  <2>7. QED
    BY <2>1, <2>5, <2>6 DEF Answers, Real
<1>7. CASE BackendGarbled
  BY <1>7 DEF BackendGarbled, Answers, OwedExact, Real
<1>8. CASE UNCHANGED vars
  BY <1>8 DEF vars, votes, Answers, OwedExact, Real
<1>9. QED
  BY <1>1, <1>2, <1>3, <1>4, <1>5, <1>6, <1>7, <1>8 DEF Next

LEMMA AnswersInit == Init => Answers /\ OwedExact
BY ValueAssumption DEF Init, Answers, OwedExact, Real

LEMMA AnswersHold == Spec => [](TypeOK /\ Answers /\ OwedExact)
<1>1. Init => TypeOK /\ Answers /\ OwedExact
  BY TypeInit, AnswersInit
<1>2. TypeOK /\ Answers /\ OwedExact /\ [Next]_vars => (TypeOK /\ Answers /\ OwedExact)'
  BY TypeStep, AnswersStep
<1>3. QED
  BY <1>1, <1>2, PTL DEF Spec

\* Every variable keeps its type for any Server-Array.
THEOREM JudgeTypeCorrect == Spec => []TypeOK
BY AnswersHold, PTL

\* Every request is answered exactly once, for any number of executors and of
\* requests with the same sid, early, late or repeated.
THEOREM AnsweredOnce == Spec => []OwedExact
BY AnswersHold, PTL

\* One step of the event loop keeps the task of a running callback.
LEMMA CallbackStep ==
  TypeOK /\ Answers' /\ CallbackHasTask /\ [Next]_vars => CallbackHasTask'
<1> SUFFICES ASSUME TypeOK, Answers', CallbackHasTask, [Next]_vars, timer' = "firing"
             PROVE  live' /\ ~Complete'
  BY DEF CallbackHasTask
<1>1. live'
  BY DEF Answers
<1>2. ASSUME NEW e \in Exec, NEW v \in Value, FirstRequest(e, v) PROVE FALSE
  BY <1>2 DEF FirstRequest
<1>3. ASSUME NEW e \in Exec, NEW v \in Value, NextRequest(e, v) PROVE FALSE
  BY <1>3 DEF NextRequest, Idle
<1>4. ASSUME NEW e \in Exec, TimeoutItem(e) PROVE ~Complete'
  BY <1>4 DEF TimeoutItem, Complete, Here
<1>5. ASSUME NEW e \in Exec, Refuse(e) PROVE FALSE
  BY <1>5 DEF Refuse, Idle
<1>6. CASE TimeoutStart
  <2>1. timer' = "firing" => ~Complete
    BY <1>6 DEF TimeoutStart
  <2>2. timer # "firing" /\ data' = data
    BY <1>6 DEF TimeoutStart, votes
  <2>3. Complete' <=> Complete
    BY <2>2 DEF Complete, Here
  <2>4. QED
    BY <1>1, <2>1, <2>2, <2>3
<1>7. CASE BackendReply \/ BackendGarbled
  BY <1>7 DEF BackendReply, BackendGarbled, Idle
<1>8. CASE UNCHANGED vars
  BY <1>8 DEF CallbackHasTask, vars, votes, Complete, Here
<1>9. QED
  BY <1>1, <1>2, <1>3, <1>4, <1>5, <1>6, <1>7, <1>8 DEF Next

\* The timeout callback never iterates over a deleted task.
THEOREM CallbackSafe == Spec => []CallbackHasTask
<1>1. Init => CallbackHasTask
  BY DEF Init, CallbackHasTask
<1>2. TypeOK /\ Answers' /\ CallbackHasTask /\ [Next]_vars => CallbackHasTask'
  BY CallbackStep
<1>3. QED
  BY <1>1, <1>2, AnswersHold, PTL DEF Spec

-----------------------------------------------------------------------------
(* The groups are the classes of agreeing requests *)

\* A single request of two or more executors is never half of them and more
\* than one; a vote that goes on has somebody missing.
LEMMA ProcessGrows ==
  ASSUME TypeOK, Groups, First, NEW e \in Exec, NEW v \in Value \cup {Timeout},
         NEW asked, Process(e, v, asked)
  PROVE  /\ N > 1 /\ Groups' /\ First' /\ Leaders \subseteq Leaders'
         /\ \A x \in Here : data'[x] = data[x]
         /\ Here' = Here \cup {e} /\ e \notin Here /\ firstReqData \in Here
<1>1. /\ live /\ data[e] = NoData /\ data' = [data EXCEPT ![e] = v] /\ Group(e)
      /\ firstReqData' = firstReqData
  BY DEF Process
<1>2. data \in [Exec -> Value \cup {NoData, Timeout}]
  BY DEF TypeOK
<1>3. firstReqData \in Exec /\ data[firstReqData] \in Value /\ firstReqData # e
  BY <1>1, ValueAssumption DEF First, Real
<1>4. N > 1
  BY <1>3, NAssumption DEF Exec
<1>5. Groups' /\ Leaders \subseteq Leaders'
  BY <1>1, <1>4, VoteTyped, ValueAssumption, GroupsGrow
<1>6. First'
  BY <1>1, <1>2, <1>3, <1>4, <1>5 DEF First, Real
<1>7. \A x \in Here : data'[x] = data[x]
  BY <1>1, <1>2 DEF Here
<1>8. Here' = Here \cup {e} /\ e \notin Here /\ firstReqData \in Here
  BY <1>1, <1>2, <1>3, ValueAssumption DEF Here
<1>9. QED
  BY <1>4, <1>5, <1>6, <1>7, <1>8

\* What is left of a vote that concludes or goes on.
LEMMA ConcludeComplete ==
  ASSUME Conclude
  PROVE  /\ ~live' => Complete' /\ backend' # "none"
         /\ live' \in BOOLEAN
BY DEF Conclude, Over, Complete, Here

\* The decision of one Process step.
LEMMA ResultProcess ==
  ASSUME TypeOK, TypeOK', Groups, First, Result,
         NEW e \in Exec, NEW v \in Value \cup {Timeout}, NEW asked, Process(e, v, asked)
  PROVE  Result'
<1>1. /\ N > 1 /\ Groups' /\ First' /\ Leaders \subseteq Leaders'
      /\ \A x \in Here : data'[x] = data[x]
      /\ Here' = Here \cup {e} /\ e \notin Here /\ firstReqData \in Here
  BY ProcessGrows
<1>2. live /\ Decide /\ Conclude /\ firstReqData' = firstReqData /\ Leaders \subseteq Here
      /\ (judgeResult' = judgeResult => backend' = backend)
  BY DEF Process, Groups, Leaders, Here
<1>3. ~Complete
  BY <1>1 DEF Complete
<1>4. \A w \in Value \cup {Timeout} : (\E g \in Majority : data'[g] = w) <=> Half(w)'
  BY <1>1, ValueAssumption, MajorityHalf
<1>5. firstReqData \in Leaders /\ data'[firstReqData] \in Value
  BY <1>1, <1>2 DEF First, Real
<1>6. CASE judgeResult # None
  <2>1. judgeResult' = judgeResult /\ judgeType' = judgeType
    BY <1>2, <1>6 DEF Decide
  <2>2. /\ judgeResult \in Leaders /\ judgeType = "MAJORITY" /\ data[judgeResult] \in Value
        /\ Half(data[judgeResult]) \/ Half(Timeout)
    BY <1>1, <1>3, <1>6 DEF Result, Real, TypeOK
  <2>3. data'[judgeResult] = data[judgeResult]
    BY <1>1, <1>2, <2>2
  <2>4. Half(data[judgeResult])' \/ Half(Timeout)'
    <3>1. \A w \in Value \cup {Timeout} :
            Half(w) => 2 * Cardinality({x \in Exec : data'[x] = w}) >= N
      BY <1>1, ValueAssumption, HalfGrows
    <3>2. \/ 2 * Cardinality({x \in Exec : data'[x] = data'[judgeResult']}) >= N
          \/ 2 * Cardinality({x \in Exec : data'[x] = Timeout}) >= N
      BY <2>1, <2>2, <2>3, <3>1
    <3>3. QED
      BY <3>2 DEF Half
  <2>5. ~live' => Complete'
    BY <1>2, ConcludeComplete
  <2>6. QED
    BY <1>1, <1>6, <2>1, <2>2, <2>3, <2>4, <2>5 DEF Result, Real
<1>7. CASE judgeResult = None /\ Majority # {}
  <2>1. PICK g \in Majority : judgeResult' = NotTimeout(g)
    BY <1>2, <1>7 DEF Decide
  <2>2. judgeType' = "MAJORITY"
    BY <1>2, <1>7 DEF Decide
  <2>3. g \in Leaders' /\ data'[g] \in Value \cup {Timeout}
    <3>1. g \in Exec /\ g \in Leaders'
      BY DEF Majority, Leaders
    <3>2. data'[g] # NoData
      BY <1>1, <3>1 DEF Groups
    <3>3. data'[g] \in Value \cup {NoData, Timeout}
      BY <3>1 DEF TypeOK
    <3>4. QED
      BY <3>1, <3>2, <3>3
  <2>4. judgeResult' \in Leaders' /\ data'[judgeResult'] \in Value
    BY <1>1, <1>5, <2>1, <2>3 DEF NotTimeout
  <2>5. Half(data[judgeResult])' \/ Half(Timeout)'
    BY <1>4, <2>1, <2>3 DEF NotTimeout, Half
  <2>6. judgeResult' # None
    BY <2>4, NAssumption DEF Leaders
  <2>7. ~live' => Complete'
    BY <1>2, ConcludeComplete
  <2>8. QED
    <3>1. Real(judgeResult)'
      BY <2>4 DEF Real
    <3>2. judgeType' # "" /\ judgeType' # "TIME_OR_WEIGHT"
      BY <2>2
    <3>3. N = 1 => Complete'
      BY <1>1
    <3>4. QED
      BY <2>4, <2>5, <2>6, <2>7, <3>1, <3>2, <3>3 DEF Result
<1>8. CASE judgeResult = None /\ Majority = {} /\ Complete'
  <2>1. {x \in Exec : data'[x] = NoData} = {}
    BY <1>8 DEF Complete, Here
  <2>2. PICK g \in timeOrWeightJudge : judgeResult' = NotTimeout(g)
    BY <1>2, <1>8, <2>1 DEF Decide
  <2>3. judgeType' = "TIME_OR_WEIGHT"
    BY <1>2, <1>8, <2>1 DEF Decide
  <2>4. g \in Exec /\ data'[g] \in Value \cup {Timeout}
    BY <2>1, PreferredExec DEF TypeOK
  <2>5. judgeResult' \in Exec /\ data'[judgeResult'] \in Value
    BY <1>5, <2>2, <2>4 DEF NotTimeout, Leaders
  <2>6. \A w \in Value \cup {Timeout} : ~Half(w)'
    BY <1>4, <1>8
  <2>7. judgeResult' # None
    BY <2>5, NAssumption
  <2>8. QED
    BY <1>1, <1>8, <2>3, <2>5, <2>6, <2>7 DEF Result, Real
<1>9. CASE judgeResult = None /\ Majority = {} /\ ~Complete'
  <2>1. {x \in Exec : data'[x] = NoData} # {}
    BY <1>9 DEF Complete, Here
  <2>2. judgeResult' = None /\ judgeType' = ""
    BY <1>2, <1>9, <2>1 DEF Decide, Result
  <2>3. backend' = "none"
    BY <1>2, <1>9, <2>2 DEF Result
  <2>4. live'
    BY <1>2, <2>3, ConcludeComplete
  <2>5. \A w \in Value \cup {Timeout} : ~Half(w)'
    BY <1>4, <1>9
  <2>6. QED
    BY <1>1, <1>9, <2>2, <2>3, <2>4, <2>5 DEF Result
<1>10. QED
  BY <1>6, <1>7, <1>8, <1>9

\* A new task.
LEMMA VoteFirst ==
  ASSUME TypeOK', NEW e \in Exec, NEW v \in Value, FirstRequest(e, v)
  PROVE  Groups' /\ First' /\ Result' /\ (live' \/ N = 1) /\ Here' = {e}
<1>1. /\ data' = [x \in Exec |-> IF x = e THEN v ELSE NoData] /\ firstReqData' = e
      /\ judgeGroup' = [x \in Exec |-> IF x = e /\ N > 1 THEN {e} ELSE {}]
      /\ cmpRetRecord' = {} /\ judgeResult' = (IF N = 1 THEN e ELSE None)
      /\ judgeType' = "" /\ Conclude /\ (N # 1 => backend' = "none")
  BY DEF FirstRequest
<1>2. v # NoData /\ e # None
  BY ValueAssumption, NAssumption
<1>3. Here' = {e}
  BY <1>1, <1>2 DEF Here
<1>4. Leaders' = IF N > 1 THEN {e} ELSE {}
  BY <1>1 DEF Leaders
<1>5. Groups'
  <2>1. N > 1 => judgeGroup'[e] = {e} /\ {x \in Exec : data'[x] = data'[e]} = {e}
    BY <1>1, <1>2
  <2>2. data'[e] = v
    BY <1>1
  <2>3. N = 1 => Leaders' = {}
    BY <1>4
  <2>4. \A g \in Leaders' : data'[g] # NoData /\ judgeGroup'[g] = {x \in Exec : data'[x] = data'[g]}
    BY <1>2, <1>4, <2>1, <2>2
  <2>5. N > 1 => \A x \in Here' : \E g \in Leaders' : data'[g] = data'[x]
    BY <1>3, <1>4
  <2>6. \A g, h \in Leaders' : g = h
    BY <1>4
  <2>7. QED
    BY <2>3, <2>4, <2>5, <2>6 DEF Groups
<1>6. First'
  BY <1>1, <1>4 DEF First, Real
<1>7. CASE N = 1
  <2>1. Exec = {e}
    BY <1>7 DEF Exec
  <2>2. Complete' /\ judgeResult' = e /\ data'[e] = v /\ judgeType' = ""
    BY <1>1, <1>3, <1>7, <2>1 DEF Complete
  <2>3. Result'
    <3>1. Real(judgeResult)' /\ judgeResult' # None
      BY <1>2, <2>2 DEF Real
    <3>2. judgeType' # "MAJORITY" /\ judgeType' # "TIME_OR_WEIGHT"
      BY <1>1
    <3>3. ~(N > 1)
      BY <1>7
    <3>4. QED
      BY <2>2, <3>1, <3>2, <3>3 DEF Result
  <2>4. QED
    BY <1>3, <1>5, <1>6, <1>7, <2>3
<1>8. CASE N # 1
  <2>1. N > 1 /\ 1 \in Exec /\ 2 \in Exec
    BY <1>8, NAssumption DEF Exec
  <2>2. ~Complete'
    BY <1>3, <2>1 DEF Complete
  <2>3. live'
    BY <1>1, <1>8, ConcludeComplete
  <2>4. Result'
    BY <1>1, <1>2, <1>3, <1>8, <2>1, <2>2, <2>3 DEF Result
  <2>5. QED
    BY <1>3, <1>5, <1>6, <2>3, <2>4
<1>9. QED
  BY <1>7, <1>8

LEMMA VoteStep ==
  TypeOK /\ TypeOK' /\ Groups /\ First /\ Result /\ Answers /\ [Next]_vars
    => Groups' /\ First' /\ Result'
<1> SUFFICES ASSUME TypeOK, TypeOK', Groups, First, Result, Answers, [Next]_vars
             PROVE  Groups' /\ First' /\ Result'
  OBVIOUS
<1>1. ASSUME NEW e \in Exec, NEW v \in Value, FirstRequest(e, v)
      PROVE  Groups' /\ First' /\ Result'
  BY <1>1, VoteFirst
<1>2. ASSUME NEW e \in Exec, NEW v \in Value, NextRequest(e, v)
      PROVE  Groups' /\ First' /\ Result'
  BY <1>2, ProcessGrows, ResultProcess DEF NextRequest
<1>3. ASSUME NEW e \in Exec, TimeoutItem(e) PROVE Groups' /\ First' /\ Result'
  BY <1>3, ProcessGrows, ResultProcess DEF TimeoutItem
<1>4. CASE BackendReply
  <2>1. /\ UNCHANGED <<data, firstReqData, judgeGroup, cmpRetRecord, judgeResult, judgeType>>
        /\ Conclude /\ backend = "waiting"
    BY <1>4 DEF BackendReply
  <2>2. live /\ judgeResult # None
    BY <2>1 DEF Answers, Result
  <2>3. ~live' => Complete'
    BY <2>1, ConcludeComplete
  <2>4. Groups' /\ First'
    BY <2>1, <2>2 DEF Groups, First, Leaders, Here, Real
  <2>5. Result'
    BY <2>1, <2>2, <2>3 DEF Result, Leaders, Here, Real, Half, Complete
  <2>6. QED
    BY <2>4, <2>5
<1>5. CASE BackendGarbled
  <2>1. /\ UNCHANGED <<live, data, firstReqData, judgeGroup, cmpRetRecord, judgeResult, judgeType>>
        /\ backend = "waiting"
    BY <1>5 DEF BackendGarbled
  <2>2. judgeResult # None
    BY <2>1 DEF Result
  <2>3. Groups' /\ First'
    BY <2>1, <2>2 DEF Groups, First, Leaders, Here, Real
  <2>4. Result'
    BY <2>1, <2>2 DEF Result, Leaders, Here, Real, Half, Complete
  <2>5. QED
    BY <2>3, <2>4
<1>6. ASSUME UNCHANGED votes PROVE Groups' /\ First' /\ Result'
  <2>1. /\ UNCHANGED <<live, data, firstReqData, judgeGroup, cmpRetRecord>>
        /\ UNCHANGED <<judgeResult, judgeType, backend>>
    BY <1>6 DEF votes
  <2>2. Groups'
    BY <2>1 DEF Groups, Leaders, Here
  <2>3. First'
    BY <2>1 DEF First, Leaders, Real
  <2>4. Result'
    BY <2>1 DEF Result, Leaders, Here, Real, Half, Complete
  <2>5. QED
    BY <2>2, <2>3, <2>4
<1>7. QED
  BY <1>1, <1>2, <1>3, <1>4, <1>5, <1>6 DEF Next, Refuse, TimeoutStart, vars

LEMMA InvInit == Init => Inv
<1> SUFFICES ASSUME Init PROVE Inv
  OBVIOUS
<1>1. Leaders = {} /\ Here = {} /\ ~live /\ judgeResult = None /\ backend = "none"
      /\ judgeType = ""
  BY DEF Init, Leaders, Here
<1>2. Groups /\ First /\ Result
  BY <1>1 DEF Groups, First, Result
<1>3. QED
  BY <1>2, TypeInit, AnswersInit DEF Inv

THEOREM InvHolds == Spec => [](Inv /\ OwedExact)
<1>1. Init => Inv /\ OwedExact
  BY InvInit, AnswersInit
<1>2. Inv /\ OwedExact /\ [Next]_vars => (Inv /\ OwedExact)'
  BY TypeStep, AnswersStep, VoteStep DEF Inv
<1>3. QED
  BY <1>1, <1>2, PTL DEF Spec

-----------------------------------------------------------------------------
(* Which tasks stay *)

\* A vote with a result has been sent to its backend, or tried to.
Decided == live /\ judgeResult # None => backend # "none"

LEMMA StaysProcess ==
  ASSUME Inv, Inv', Decided, NEW e \in Exec, NEW v, NEW asked, Process(e, v, asked)
  PROVE  OnlyRefusedStays' /\ Decided'
<1>1. live /\ Conclude
  BY DEF Process
<1>2. Decided'
  <2>1. CASE judgeResult' = judgeResult
    BY <1>1, <2>1 DEF Process, Decided
  <2>2. CASE judgeResult' # judgeResult
    BY <2>2 DEF Process, sendToBackend, Decided
  <2>3. QED
    BY <2>1, <2>2
<1>3. ASSUME live', Complete' PROVE backend' \in {"waiting", "garbled", "refused"}
  <2>1. judgeResult' # None
    BY <1>3 DEF Inv, Result
  <2>2. backend' # "none"
    BY <1>2, <1>3, <2>1 DEF Decided
  <2>3. {x \in Exec : data'[x] = NoData} = {}
    BY <1>3 DEF Complete, Here
  <2>4. backend' \notin {"come", "sent"}
    BY <1>1, <1>3, <2>3 DEF Conclude, Over
  <2>5. backend' \in {"none", "waiting", "come", "garbled", "sent", "refused"}
    BY DEF Inv, TypeOK
  <2>6. QED
    BY <2>2, <2>4, <2>5
<1>4. QED
  BY <1>2, <1>3 DEF OnlyRefusedStays

LEMMA StaysFirst ==
  ASSUME Inv', NEW e \in Exec, NEW v \in Value, FirstRequest(e, v)
  PROVE  OnlyRefusedStays' /\ Decided'
<1>1. Conclude
  BY DEF FirstRequest
<1>2. judgeResult' # None => backend' # "none"
  BY NAssumption DEF FirstRequest, sendToBackend
<1>3. live' /\ Complete' => judgeResult' # None
  BY DEF Inv, Result
<1>4. Complete' => {x \in Exec : data'[x] = NoData} = {}
  BY DEF Complete, Here
<1>5. backend' \in {"none", "waiting", "come", "garbled", "sent", "refused"}
  BY DEF Inv, TypeOK
<1>6. live' /\ Complete' => backend' \notin {"come", "sent"}
  BY <1>1, <1>4 DEF Conclude, Over
<1>7. QED
  BY <1>2, <1>3, <1>5, <1>6 DEF OnlyRefusedStays, Decided

LEMMA StaysStep ==
  Inv /\ Inv' /\ OnlyRefusedStays /\ Decided /\ [Next]_vars
    => OnlyRefusedStays' /\ Decided'
<1> SUFFICES ASSUME Inv, Inv', OnlyRefusedStays, Decided, [Next]_vars
             PROVE  OnlyRefusedStays' /\ Decided'
  OBVIOUS
<1>1. ASSUME NEW e \in Exec, NEW v \in Value, FirstRequest(e, v)
      PROVE  OnlyRefusedStays' /\ Decided'
  BY <1>1, StaysFirst
<1>2. ASSUME NEW e \in Exec, NEW v \in Value, NextRequest(e, v)
      PROVE  OnlyRefusedStays' /\ Decided'
  BY <1>2, StaysProcess DEF NextRequest
<1>3. ASSUME NEW e \in Exec, TimeoutItem(e) PROVE OnlyRefusedStays' /\ Decided'
  BY <1>3, StaysProcess DEF TimeoutItem
<1>4. CASE BackendReply
  <2>1. backend' = "come" /\ Conclude /\ data' = data
    BY <1>4 DEF BackendReply
  <2>2. ~(live' /\ Complete')
    BY <2>1 DEF Conclude, Over, Complete, Here
  <2>3. QED
    BY <2>1, <2>2 DEF OnlyRefusedStays, Decided
<1>5. CASE BackendGarbled
  BY <1>5 DEF BackendGarbled, OnlyRefusedStays, Decided
<1>6. ASSUME UNCHANGED votes PROVE OnlyRefusedStays' /\ Decided'
  BY <1>6 DEF votes, OnlyRefusedStays, Decided, Complete, Here
<1>7. QED
  BY <1>1, <1>2, <1>3, <1>4, <1>5, <1>6 DEF Next, Refuse, TimeoutStart, vars

\* For any number of executors: a task whose data have all come was decided,
\* and is gone unless its backend is waited for, answered with what could not
\* be parsed, or was no address.
THEOREM RefusedStayAlone == Spec => []OnlyRefusedStays
<1>1. Init => OnlyRefusedStays /\ Decided
  BY DEF Init, OnlyRefusedStays, Decided
<1>2. Inv /\ Inv' /\ (OnlyRefusedStays /\ Decided) /\ [Next]_vars
        => (OnlyRefusedStays /\ Decided)'
  BY StaysStep
<1>3. QED
  BY <1>1, <1>2, InvHolds, PTL DEF Spec

-----------------------------------------------------------------------------
(* The majority wins *)

LEMMA InvMajority == Inv => MajorityWins
<1> SUFFICES ASSUME Inv, NEW v \in Value,
                    2 * Cardinality({e \in Exec : data[e] = v}) > N
             PROVE  judgeResult # None /\ data[judgeResult] = v
  BY DEF MajorityWins
<1> DEFINE C == {e \in Exec : data[e] = v}
<1>1. IsFiniteSet(C) /\ Cardinality(C) \in Nat /\ (Cardinality(C) = 0 <=> C = {})
  BY ClassSize
<1>2. C # {} /\ C \subseteq Here
  BY <1>1, NAssumption, ValueAssumption DEF Here
<1>3. Half(v)
  BY <1>1, NAssumption DEF Half
<1>4. judgeResult # None
  <2>1. SUFFICES ASSUME judgeResult = None PROVE FALSE
    OBVIOUS
  <2>2. live /\ N > 1
    BY <1>2, <2>1 DEF Inv, Result, TypeOK
  <2>3. \A e, f \in Here : e = f
    BY <1>3, <2>1, <2>2 DEF Inv, Result
  <2>4. PICK e : C = {e}
    BY <1>2, <2>3
  <2>5. Cardinality(C) = 1
    BY <2>4, FS_Singleton
  <2>6. QED
    BY <2>2, <2>5, NAssumption
<1>5. CASE N = 1
  <2>1. judgeResult \in Exec
    BY <1>4 DEF Inv, TypeOK
  <2>2. \A e \in Exec : e = judgeResult
    BY <1>5, <2>1 DEF Exec
  <2>3. QED
    BY <1>2, <1>4, <2>2
<1>6. CASE N # 1
  <2>1. N > 1
    BY <1>6, NAssumption
  <2>2. judgeType \in {"MAJORITY", "TIME_OR_WEIGHT"}
    BY <1>4, <2>1 DEF Inv, Result, TypeOK
  <2>3. judgeType = "MAJORITY"
    BY <1>3, <1>4, <2>2 DEF Inv, Result
  <2>4. PICK w \in {data[judgeResult], Timeout} :
          2 * Cardinality({e \in Exec : data[e] = w}) >= N
    BY <1>4, <2>3 DEF Inv, Result, Half
  <2>5. w = v
    <3>1. SUFFICES ASSUME w # v PROVE FALSE
      OBVIOUS
    <3>2. Cardinality({e \in Exec : data[e] = w}) \in Nat
      BY ClassSize
    <3>3. Cardinality({e \in Exec : data[e] = w}) + Cardinality(C) <= N
      BY <3>1, ClassesDisjoint
    <3>4. QED
      BY <1>1, <2>4, <3>2, <3>3, NAssumption
  <2>6. QED
    BY <1>4, <2>4, <2>5, ValueAssumption
<1>7. QED
  BY <1>5, <1>6

\* A request of more than half of the executors wins every vote.
THEOREM MajorityAlwaysWins == Spec => []MajorityWins
BY InvHolds, InvMajority, PTL

-----------------------------------------------------------------------------
(* The dissenters are reported *)

\* Exact reports, except for the time rule with more than four executors.
ReportInv ==
  ~live /\ judgeResult # None /\ (judgeType = "MAJORITY" \/ N <= 4)
    => reported = Dissenters

\* A winner by majority leads its group, as does any when nobody agrees.
LEMMA WinnerLeads ==
  TypeOK /\ Groups /\ Result /\ judgeResult # None /\ N > 1
  /\ (judgeType = "MAJORITY" \/ N <= 4)
    => judgeResult \in Leaders
<1> SUFFICES ASSUME TypeOK, Groups, Result, judgeResult # None, N > 1,
                    judgeType = "MAJORITY" \/ N <= 4
             PROVE  judgeResult \in Leaders
  OBVIOUS
<1>1. CASE judgeType = "MAJORITY"
  BY <1>1 DEF Result
<1>2. CASE judgeType # "MAJORITY"
  <2>1. N <= 4 /\ judgeType = "TIME_OR_WEIGHT"
    BY <1>2 DEF Result, TypeOK
  <2>2. judgeResult \in Here /\ data[judgeResult] \in Value /\ ~Half(data[judgeResult])
    BY <2>1, ValueAssumption DEF Result, Real, TypeOK, Here
  <2>3. QED
    BY <2>1, <2>2, LeaderWins
<1>3. QED
  BY <1>1, <1>2

LEMMA WinnerLeadsNext ==
  (TypeOK /\ Groups /\ Result /\ judgeResult # None /\ N > 1
   /\ (judgeType = "MAJORITY" \/ N <= 4)
     => judgeResult \in Leaders)'
BY WinnerLeads, PTL

LEMMA ReportConclude ==
  ASSUME TypeOK', Groups', Result', Conclude
  PROVE  ReportInv'
<1> SUFFICES ASSUME ~live', judgeResult' # None, judgeType' = "MAJORITY" \/ N <= 4
             PROVE  reported' = Dissenters'
  BY DEF ReportInv
<1>1. reported' = analyseJudgeResult /\ Complete'
  BY DEF Conclude, Result
<1>2. judgeResult' \in Exec
  BY DEF TypeOK
<1>3. N > 1 => judgeResult' \in Leaders'
  BY WinnerLeadsNext
<1>4. QED
  BY <1>1, <1>2, <1>3, ReportExact

LEMMA ReportStep == Inv /\ Inv' /\ ReportInv /\ [Next]_vars => ReportInv'
<1> SUFFICES ASSUME Inv, Inv', ReportInv, [Next]_vars PROVE ReportInv'
  OBVIOUS
<1>1. CASE Conclude
  BY <1>1, ReportConclude DEF Inv
<1>2. CASE UNCHANGED votes /\ UNCHANGED reported
  BY <1>2 DEF ReportInv, Dissenters, votes
<1>3. CASE BackendGarbled
  BY <1>3 DEF BackendGarbled, ReportInv, Dissenters
<1>4. QED
  BY <1>1, <1>2, <1>3
     DEF Next, vars, FirstRequest, NextRequest, TimeoutItem, Process, Refuse, TimeoutStart,
         BackendReply

LEMMA ReportHolds == Spec => [](Inv /\ ReportInv)
<1>1. Init => ReportInv
  BY DEF Init, ReportInv
<1>2. QED
  BY <1>1, InvHolds, ReportStep, PTL DEF Spec

\* With up to four executors exactly the dissenters are reported.
THEOREM DissentersReported ==
  ASSUME N <= 4
  PROVE  Spec => []ReportedAreDissenters
<1>1. ReportInv => ReportedAreDissenters
  BY DEF ReportInv, ReportedAreDissenters
<1>2. QED
  BY <1>1, ReportHolds, PTL

\* With any number of executors a majority reports exactly the dissenters.
THEOREM MajorityReports ==
  Spec => [](~live /\ judgeType = "MAJORITY" =>
               reported = Dissenters)
<1>1. Inv /\ ReportInv =>
        (~live /\ judgeType = "MAJORITY" => reported = Dissenters)
  BY DEF Inv, Result, ReportInv
<1>2. QED
  BY <1>1, ReportHolds, PTL

-----------------------------------------------------------------------------
(* The vote implements the abstract ballot *)

\* The instance counts as this module does.
LEMMA SameCardinality == \A S : B!Cardinality(S) = Cardinality(S)
  BY DEF B!Cardinality, Cardinality

\* Of two or more data, half is what carries a ballot.
LEMMA CarriedHalf ==
  ASSUME NEW v, \E e, f \in Here' : e # f
  PROVE  B!Carried(data', v) <=> 2 * Cardinality({e \in Exec : data'[e] = v}) >= N
<1> DEFINE C == {e \in Exec : data'[e] = v}
<1>1. Cardinality(C) \in Nat /\ (Cardinality(C) = 0 <=> C = {})
  BY ClassSize
<1>2. 2 * Cardinality(C) >= N => C # {}
  BY <1>1, NAssumption
<1>3. B!For(data', v) = C /\ B!In(data') = Here'
  BY DEF B!For, B!In, Here
<1>4. Cardinality(Exec) = N
  BY ExecFinite
<1>5. B!Carried(data', v) <=> C # {} /\ 2 * Cardinality(C) >= N
  <2>1. \E e, f \in B!In(data') : e # f
    BY <1>3
  <2>2. B!Carried(data', v) <=>
          /\ B!For(data', v) # {}
          /\ 2 * Cardinality(B!For(data', v)) >= Cardinality(Exec)
    BY <2>1, SameCardinality DEF B!Carried
  <2>3. QED
    BY <1>3, <1>4, <2>2
<1>6. QED
  BY <1>2, <1>5

LEMMA ProcessVotes ==
  ASSUME Inv, Inv', NEW e \in Exec, NEW v \in Value \cup {Timeout}, NEW asked,
         Process(e, v, asked)
  PROVE  B!Vote
<1>1. /\ live /\ data[e] = NoData /\ data' = [data EXCEPT ![e] = v] /\ Decide /\ Conclude
      /\ firstReqData' = firstReqData
  BY DEF Process
<1>2. /\ N > 1 /\ Here' = Here \cup {e} /\ e \notin Here /\ firstReqData \in Here
      /\ firstReqData \in Leaders' /\ data'[firstReqData] \in Value
  <2>1. /\ N > 1 /\ Leaders \subseteq Leaders' /\ \A x \in Here : data'[x] = data[x]
        /\ Here' = Here \cup {e} /\ e \notin Here /\ firstReqData \in Here
    BY ProcessGrows DEF Inv
  <2>2. QED
    BY <1>1, <2>1 DEF Inv, First, Real
<1>3. \A w \in Value \cup {Timeout} :
        /\ B!Carried(data', w) <=> 2 * Cardinality({x \in Exec : data'[x] = w}) >= N
        /\ B!Carried(data', w) <=> \E g \in Majority : data'[g] = w
  <2>1. \E x, y \in Here' : x # y
    BY <1>2
  <2>2. \A w \in Value \cup {Timeout} : (\E g \in Majority : data'[g] = w) <=> Half(w)'
    BY <1>2, ValueAssumption, MajorityHalf DEF Inv
  <2>3. QED
    BY <2>1, <2>2, CarriedHalf DEF Half
<1>4. \A g \in Majority : g \in Leaders' /\ data'[g] \in Value \cup {Timeout}
  <2>1. \A g \in Majority : g \in Exec /\ g \in Leaders'
    BY DEF Majority, Leaders
  <2>2. \A g \in Leaders' : data'[g] # NoData
    BY DEF Inv, Groups
  <2>3. \A g \in Exec : data'[g] \in Value \cup {NoData, Timeout}
    BY DEF Inv, TypeOK
  <2>4. QED
    BY <2>1, <2>2, <2>3
<1>5. B!In(data') = Here' /\ (B!In(data') = Exec <=> {x \in Exec : data'[x] = NoData} = {})
  BY DEF B!In, Here
<1>6. B!Count([data EXCEPT ![e] = v], judgeResult)
  <2>1. CASE judgeResult # None
    BY <1>1, <2>1 DEF Decide, B!Count
  <2>2. CASE judgeResult = None /\ Majority # {}
    <3>1. PICK g \in Majority : judgeResult' = NotTimeout(g)
      BY <1>1, <2>2 DEF Decide
    <3>2. judgeResult' \in Exec /\ data'[judgeResult'] \in Value
      BY <1>2, <1>4, <3>1 DEF NotTimeout, Leaders
    <3>3. B!Carried(data', data'[g]) /\ data'[g] \in Value \cup {Timeout}
      BY <1>3, <1>4
    <3>4. B!Carried(data', data'[judgeResult']) \/ B!Carried(data', Timeout)
      BY <3>1, <3>3 DEF NotTimeout
    <3>5. QED
      BY <1>1, <2>2, <3>2, <3>3, <3>4 DEF B!Count, B!Allowed
  <2>3. CASE judgeResult = None /\ Majority = {} /\ B!In(data') = Exec
    <3>1. PICK g \in timeOrWeightJudge : judgeResult' = NotTimeout(g)
      BY <1>1, <1>5, <2>3 DEF Decide
    <3>2. g \in Exec /\ data'[g] \in Value \cup {Timeout}
      BY <1>5, <2>3, PreferredExec DEF Inv, TypeOK
    <3>3. judgeResult' \in Exec /\ data'[judgeResult'] \in Value
      BY <1>2, <3>1, <3>2 DEF NotTimeout, Leaders
    <3>4. \A w \in Value \cup {Timeout} : ~B!Carried(data', w)
      BY <1>3, <2>3
    <3>5. QED
      BY <1>1, <2>3, <3>3, <3>4 DEF B!Count, B!Allowed
  <2>4. CASE judgeResult = None /\ Majority = {} /\ B!In(data') # Exec
    <3>1. judgeResult' = None
      BY <1>1, <1>5, <2>4 DEF Decide
    <3>2. \A w \in Value \cup {Timeout} : ~B!Carried(data', w)
      BY <1>3, <2>4
    <3>3. QED
      BY <1>1, <2>4, <3>1, <3>2 DEF B!Count
  <2>5. QED
    BY <2>1, <2>2, <2>3, <2>4
<1>7. B!MayEnd /\ live' \in BOOLEAN
  <2>1. (~live' => Complete' /\ backend' # "none") /\ live' \in BOOLEAN
    BY <1>1, ConcludeComplete
  <2>2. judgeResult' = None => backend' = "none"
    BY DEF Inv, Result
  <2>3. QED
    BY <1>5, <2>1, <2>2 DEF B!MayEnd, Complete
<1>8. QED
  BY <1>1, <1>6, <1>7 DEF B!Vote

LEMMA FirstOpens ==
  ASSUME Inv, Inv', NEW e \in Exec, NEW v \in Value, FirstRequest(e, v)
  PROVE  B!Open
<1>1. /\ ~live /\ data' = [x \in Exec |-> IF x = e THEN v ELSE NoData] /\ Conclude
      /\ judgeResult' = (IF N = 1 THEN e ELSE None)
  BY DEF FirstRequest
<1>2. data' = [B!Blank EXCEPT ![e] = v]
  BY <1>1 DEF B!Blank
<1>3. Here' = {e} /\ B!In(data') = {e} /\ data'[e] = v /\ v # NoData
  BY <1>1, ValueAssumption DEF B!In, Here
<1>4. B!Count(data', None)
  <2>1. CASE N = 1
    <3>1. Exec = {e}
      BY <2>1 DEF Exec
    <3>2. B!For(data', v) = {e}
      BY <1>3, <3>1 DEF B!For
    <3>3. B!Carried(data', v)
      <4>1. Cardinality({e}) = 1
        BY FS_Singleton
      <4>2. 2 * Cardinality({e}) >= Cardinality({e})
        BY <4>1
      <4>3. /\ B!For(data', v) # {}
            /\ 2 * Cardinality(B!For(data', v)) >= Cardinality(Exec)
            /\ Exec = B!In(data')
        BY <1>3, <3>1, <3>2, <4>2
      <4>4. QED
        BY <4>3, SameCardinality DEF B!Carried
    <3>4. B!Allowed(data', e)
      BY <1>3, <3>3 DEF B!Allowed
    <3>5. QED
      BY <1>1, <1>3, <2>1, <3>1, <3>4 DEF B!Count
  <2>2. CASE N # 1
    <3>1. 1 \in Exec /\ 2 \in Exec
      BY <2>2, NAssumption DEF Exec
    <3>2. B!In(data') # Exec
      BY <1>3, <3>1
    <3>3. \A w : ~B!Carried(data', w)
      BY <1>3, <3>2 DEF B!Carried
    <3>4. QED
      BY <1>1, <2>2, <3>2, <3>3 DEF B!Count
  <2>3. QED
    BY <2>1, <2>2
<1>5. B!MayEnd /\ live' \in BOOLEAN
  <2>1. (~live' => Complete' /\ backend' # "none") /\ live' \in BOOLEAN
    BY <1>1, ConcludeComplete
  <2>2. judgeResult' = None => backend' = "none"
    BY DEF Inv, Result
  <2>3. QED
    BY <1>3, <2>1, <2>2 DEF B!MayEnd, Complete
<1>6. QED
  BY <1>1, <1>2, <1>4, <1>5 DEF B!Open

LEMMA BallotStep == Inv /\ Inv' /\ [Next]_vars => [B!Next]_(B!vars)
<1> SUFFICES ASSUME Inv, Inv', [Next]_vars PROVE [B!Next]_(B!vars)
  OBVIOUS
<1>1. ASSUME NEW e \in Exec, NEW v \in Value, FirstRequest(e, v) PROVE B!Next
  BY <1>1, FirstOpens DEF B!Next
<1>2. ASSUME NEW e \in Exec, NEW v \in Value \cup {Timeout}, NEW asked, Process(e, v, asked)
      PROVE  B!Next
  BY <1>2, ProcessVotes DEF B!Next
<1>3. ASSUME NEW e \in Exec, NEW v \in Value, NextRequest(e, v) PROVE B!Next
  BY <1>2, <1>3 DEF NextRequest
<1>4. ASSUME NEW e \in Exec, TimeoutItem(e) PROVE B!Next
  BY <1>2, <1>4 DEF TimeoutItem
<1>5. CASE BackendReply
  <2>1. UNCHANGED <<data, judgeResult>> /\ Conclude /\ backend = "waiting"
    BY <1>5 DEF BackendReply
  <2>2. live /\ judgeResult # None
    BY <2>1 DEF Inv, Answers, Result
  <2>3. live' \in BOOLEAN /\ (~live' => Complete')
    BY <2>1, ConcludeComplete
  <2>4. CASE live'
    BY <2>1, <2>2, <2>3, <2>4 DEF B!vars, Inv, TypeOK
  <2>5. CASE ~live'
    BY <2>1, <2>2, <2>3, <2>5 DEF B!Next, B!Close, B!In, Complete, Here
  <2>6. QED
    BY <2>4, <2>5
<1>6. CASE UNCHANGED votes \/ BackendGarbled
  BY <1>6 DEF votes, BackendGarbled, B!vars
<1>7. QED
  BY <1>1, <1>3, <1>4, <1>5, <1>6 DEF Next, Refuse, TimeoutStart, vars

\* One vote per executor, and one choice that never changes, made when it is
\* due and among those allowed.
THEOREM ImplementsBallot == Spec => BallotSpec
<1>1. Init => B!Init
  BY DEF Init, B!Init, B!Blank
<1>2. QED
  BY <1>1, InvHolds, BallotStep, PTL DEF Spec, BallotSpec, B!Spec
=============================================================================
