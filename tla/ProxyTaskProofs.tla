-------------------------- MODULE ProxyTaskProofs ---------------------------
(***************************************************************************)
(* Proofs about one request in the proxy, for any number of executors and  *)
(* any responses.                                                          *)
(***************************************************************************)
EXTENDS ProxyTask, VoteProofs

\* How far the task is, who is asked and who has a datum.
Progress ==
  /\ stage \in {"none", "refused"} =>
       countp = 0 /\ inflight = {} /\ judgeResult = None
  /\ stage # "sent" => garbled = {}
  /\ stage = "none" => ~live
  /\ stage = "sending" => countp < N /\ live /\ \A e \in Here : data[e] = StandIn
  /\ stage = "sent" => countp = N
  /\ inflight \subseteq 1..countp /\ inflight \cap garbled = {}
  /\ Here = (1..countp) \ (inflight \cup garbled)
  /\ inflight # {} => live
  /\ live /\ Complete => \A e \in Exec : data[e] = StandIn

\* While there is no result none is due; a result was due, and is no 504
\* that something better could have replaced.
Result ==
  /\ judgeResult = None =>
       /\ judgeType = "" /\ ~Complete
       /\ \A e, f \in Here : e = f \/ \A v \in Value : StatusOf[v] # "504" => ~Half(v)
  /\ judgeResult # None =>
       /\ judgeResult \in Here
       /\ N = 1 => Complete
       /\ N > 1 => judgeType # ""
       /\ StatusOf[data[judgeResult]] = "504" =>
            Complete /\ \A e \in Exec : StatusOf[data[e]] = "504"
       /\ judgeType = "MAJORITY" =>
            /\ judgeResult \in Leaders
            /\ \E w \in Value : Half(w) /\ (w = data[judgeResult] \/ StatusOf[w] = "504")
       /\ judgeType = "TIME_OR_WEIGHT" => Complete /\ \A v \in Value : ~Half(v)

Inv == TypeOK /\ Progress /\ Groups /\ Result /\ RepliedOnce

-----------------------------------------------------------------------------
(* Type correctness *)

LEMMA VoteTyped == TypeOK => VoteType
<1>1. ASSUME NEW D, NEW f \in [Exec -> D] PROVE f = [e \in Exec |-> f[e]]
  OBVIOUS
<1>2. QED
  BY <1>1 DEF TypeOK, VoteType

LEMMA DecideExec ==
  ASSUME Decide
  PROVE  \/ UNCHANGED <<judgeResult, judgeType>>
         \/ judgeResult' \in Exec /\ judgeType' \in {"MAJORITY", "TIME_OR_WEIGHT"}
<1>1. CASE UNCHANGED <<judgeResult, judgeType>>
  BY <1>1
<1>2. CASE ~UNCHANGED <<judgeResult, judgeType>>
  <2>1. PICK g \in Eligible \cup timeOrWeightJudge : judgeResult' \in Instead(g)
    BY <1>2 DEF Decide
  <2>2. g \in Exec
    BY <2>1, PreferredExec DEF Eligible, Majority
  <2>3. judgeResult' \in Exec
    BY <2>1, <2>2 DEF Instead
  <2>4. judgeType' \in {"MAJORITY", "TIME_OR_WEIGHT"}
    BY <1>2 DEF Decide
  <2>5. QED
    BY <2>3, <2>4
<1>3. QED
  BY <1>1, <1>2

LEMMA JudgeTyped ==
  ASSUME TypeOK, NEW e \in Exec, NEW v \in Value, Judge(e, v)
  PROVE  /\ data' \in [Exec -> Value \cup {NoData}]
         /\ judgeGroup' \in [Exec -> SUBSET Exec]
         /\ cmpRetRecord' \subseteq Exec \X Exec
         /\ judgeResult' \in Exec \cup {None}
         /\ judgeType' \in {"", "MAJORITY", "TIME_OR_WEIGHT"}
         /\ replies' \in Nat
         /\ reported' \subseteq Exec
<1>1. data' \in [Exec -> Value \cup {NoData}]
  BY DEF Judge, TypeOK
<1>2. judgeGroup' \in [Exec -> SUBSET Exec] /\ cmpRetRecord' \subseteq Exec \X Exec
  BY VoteTyped, GroupType DEF Judge, judgeData, TypeOK
<1>3. /\ judgeResult' \in Exec \cup {None}
      /\ judgeType' \in {"", "MAJORITY", "TIME_OR_WEIGHT"}
  BY DecideExec DEF Judge, judgeData, TypeOK
<1>4. replies' \in Nat
  <2>1. replies \in Nat
    BY DEF TypeOK
  <2>2. replies' = replies \/ replies' = replies + 1
    BY DEF Judge
  <2>3. QED
    BY <2>1, <2>2
<1>5. reported' \subseteq Exec
  BY DEF Judge, analyseJudgeResult
<1>6. QED
  BY <1>1, <1>2, <1>3, <1>4, <1>5

LEMMA TypeStep == TypeOK /\ Progress /\ [Next]_vars => TypeOK'
<1> SUFFICES ASSUME TypeOK, Progress, [Next]_vars PROVE TypeOK'
  OBVIOUS
<1>1. CASE SidInUse \/ StartTask \/ HelperFails
  <2>1. /\ UNCHANGED <<data, judgeGroup, cmpRetRecord, judgeResult, judgeType>>
        /\ UNCHANGED <<countp, inflight, garbled, reported>>
        /\ stage' \in {"sending", "refused"}
        /\ live' = live \/ live' = TRUE
        /\ scores' = scores \/ scores' \in Scores
        /\ replies' = replies \/ replies' = replies + 1
    BY <1>1 DEF SidInUse, StartTask, HelperFails, judged
  <2>2. replies' \in Nat
    <3>1. replies \in Nat
      BY DEF TypeOK
    <3>2. replies' = replies \/ replies' = replies + 1
      BY <2>1
    <3>3. QED
      BY <3>1, <3>2
  <2>3. live' \in BOOLEAN /\ scores' \in Scores
    BY <2>1 DEF TypeOK
  <2>4. QED
    BY <2>1, <2>2, <2>3 DEF TypeOK
<1>2. ASSUME stage = "sending", Advance
      PROVE  /\ countp' \in 0..N /\ countp' \in Exec
             /\ stage' \in {"sending", "sent"} /\ live' = live /\ scores' = scores
  <2>1. countp \in 0..N /\ countp < N
    BY <1>2 DEF TypeOK, Progress
  <2>2. countp + 1 \in 0..N /\ countp + 1 \in 1..N
    BY <2>1, NAssumption
  <2>3. QED
    BY <1>2, <2>2 DEF Advance, Exec
<1>3. CASE Send
  <2>1. inflight' \subseteq Exec /\ garbled' = garbled
    BY <1>2, <1>3 DEF Send, TypeOK
  <2>2. QED
    BY <1>2, <1>3, <2>1 DEF Send, TypeOK, judged
<1>4. CASE SendFails
  <2>1. countp' \in Exec /\ Judge(countp', StandIn) /\ StandIn \in Value
        /\ UNCHANGED <<inflight, garbled>>
    BY <1>2, <1>4, ResponseAssumption DEF SendFails
  <2>2. QED
    BY <1>2, <1>4, <2>1, JudgeTyped DEF SendFails, TypeOK
<1>5. ASSUME NEW e \in Exec, NEW v \in Value, Judge(e, v), Finish(e), garbled' = garbled
      PROVE  TypeOK'
  <2>1. /\ inflight' \subseteq Exec /\ live' \in BOOLEAN
        /\ UNCHANGED <<scores, stage, countp>>
    BY <1>5 DEF Finish, TypeOK
  <2>2. QED
    BY <1>5, <2>1, JudgeTyped DEF TypeOK
<1>6. ASSUME NEW e \in Exec, NoResponse(e) \/ \E v \in Value : Response(e, v)
      PROVE  TypeOK'
  BY <1>5, <1>6, ResponseAssumption DEF NoResponse, Response
<1>7. ASSUME NEW e \in Exec, Garbled(e)
      PROVE  TypeOK'
  <2>1. /\ inflight' \subseteq Exec /\ garbled' \subseteq Exec /\ live' \in BOOLEAN
        /\ UNCHANGED <<judged, replies, reported, scores, stage, countp>>
    BY <1>7 DEF Garbled, Finish, TypeOK
  <2>2. QED
    BY <2>1 DEF TypeOK, judged
<1>8. CASE UNCHANGED vars
  BY <1>8 DEF vars, judged, TypeOK
<1>9. QED
  BY <1>1, <1>3, <1>4, <1>6, <1>7, <1>8 DEF Next

-----------------------------------------------------------------------------
(* One datum is judged *)

LEMMA JudgeGroups ==
  ASSUME TypeOK, Groups, NEW e \in Exec, NEW v \in Value, Judge(e, v)
  PROVE  /\ Groups' /\ Leaders \subseteq Leaders'
         /\ e \notin Here /\ Here' = Here \cup {e} /\ data'[e] = v
         /\ \A x \in Here : data'[x] = data[x]
<1>1. /\ data[e] = NoData /\ data' = [data EXCEPT ![e] = v] /\ v # NoData
      /\ data \in [Exec -> Value \cup {NoData}]
  BY ResponseAssumption DEF Judge, TypeOK
<1>2. /\ e \notin Here /\ Here' = Here \cup {e} /\ data'[e] = v
      /\ \A x \in Here : data'[x] = data[x]
  BY <1>1 DEF Here
<1>3. CASE N = 1
  <2>1. judgeGroup' = judgeGroup
    BY <1>3 DEF Judge, judgeData
  <2>2. Leaders' = Leaders
    BY <2>1 DEF Leaders
  <2>3. QED
    BY <1>2, <1>3, <2>2 DEF Groups
<1>4. CASE N # 1
  <2>1. N > 1 /\ Group(e)
    BY <1>4, NAssumption DEF Judge, judgeData
  <2>2. QED
    BY <1>1, <1>2, <2>1, VoteTyped, GroupsGrow
<1>5. QED
  BY <1>3, <1>4

\* The replacement of a 504 leads a group, and is a 504 only if all data are.
LEMMA InsteadBest ==
  ASSUME TypeOK', Groups', N > 1, NEW g \in Exec, NEW h \in Instead(g),
         Is504(g) => Complete'
  PROVE  /\ h = g \/ (h \in Leaders' /\ Is504(g))
         /\ StatusOf[data'[h]] = "504" =>
              Complete' /\ h = g /\ \A e \in Exec : StatusOf[data'[e]] = "504"
<1> DEFINE better == {x \in Exec : judgeGroup'[x] # {} /\ ~Is504(x)}
<1>1. h = g \/ (h \in better /\ Is504(g))
  BY DEF Instead
<1>2. better \subseteq Leaders'
  BY DEF Leaders
<1>3. ASSUME StatusOf[data'[h]] = "504"
      PROVE  Complete' /\ h = g /\ \A e \in Exec : StatusOf[data'[e]] = "504"
  <2>1. h = g /\ Is504(g)
    BY <1>1, <1>3 DEF Is504
  <2>2. better = {}
    BY <2>1 DEF Instead, Is504
  <2>3. Complete'
    BY <2>1
  <2>4. ASSUME NEW e \in Exec PROVE StatusOf[data'[e]] = "504"
    <3>1. PICK x \in Leaders' : data'[x] = data'[e]
      BY <2>3 DEF Groups, Complete
    <3>2. Is504(x)
      BY <2>2, <3>1 DEF Leaders
    <3>3. QED
      BY <3>1, <3>2 DEF Is504
  <2>5. QED
    BY <2>1, <2>3, <2>4
<1>4. QED
  BY <1>1, <1>2, <1>3

LEMMA JudgeResult ==
  ASSUME TypeOK, TypeOK', Groups, Result, NEW e \in Exec, NEW v \in Value, Judge(e, v)
  PROVE  /\ Result'
         /\ judgeResult # None => judgeResult' = judgeResult
<1>1. /\ Groups' /\ Leaders \subseteq Leaders'
      /\ e \notin Here /\ Here' = Here \cup {e} /\ data'[e] = v
      /\ \A x \in Here : data'[x] = data[x]
  BY JudgeGroups
<1>2. \A w \in Value : w # NoData
  BY ResponseAssumption
<1>3. {x \in Exec : data'[x] = NoData} = {} <=> Complete'
  BY DEF Complete, Here
<1>4. ~Complete
  BY <1>1 DEF Complete
<1>5. /\ N > 1 /\ Here = {} => UNCHANGED <<judgeResult, judgeType>>
      /\ N > 1 /\ Here # {} => Decide
  BY DEF Judge, judgeData
<1>10. data' \in [Exec -> Value \cup {NoData}] /\ judgeType \in {"", "MAJORITY", "TIME_OR_WEIGHT"}
  BY DEF TypeOK
<1>11. CASE N = 1
  <2>1. judgeResult' = e /\ judgeType' = judgeType /\ Exec = {e}
    BY <1>11 DEF Judge, judgeData, Exec
  <2>2. Complete' /\ Here = {}
    BY <1>1, <2>1 DEF Complete, Here
  <2>3. judgeResult = None
    BY <2>2 DEF Result
  <2>4. judgeType' = "" /\ judgeResult' # None /\ judgeResult' \in Here'
    BY <1>1, <2>1, <2>3, NAssumption DEF Result
  <2>5. \A x \in Exec : data'[x] = data'[judgeResult']
    BY <2>1
  <2>6. judgeType' # "MAJORITY" /\ judgeType' # "TIME_OR_WEIGHT" /\ ~(N > 1)
    <3>1. judgeType' # "MAJORITY" /\ judgeType' # "TIME_OR_WEIGHT"
      BY <2>4
    <3>2. ~(N > 1)
      BY <1>11
    <3>3. QED
      BY <3>1, <3>2
  <2>7. StatusOf[data'[judgeResult']] = "504" => \A x \in Exec : StatusOf[data'[x]] = "504"
    BY <2>5
  <2>8. Result'
    BY <2>2, <2>4, <2>6, <2>7 DEF Result
  <2>9. QED
    BY <2>3, <2>8
<1>6. CASE N > 1 /\ judgeResult # None
  <2>1. UNCHANGED <<judgeResult, judgeType>>
    BY <1>5, <1>6 DEF Decide
  <2>2. /\ judgeResult \in Here /\ judgeType = "MAJORITY" /\ judgeResult \in Leaders
        /\ data'[judgeResult] = data[judgeResult] /\ StatusOf[data[judgeResult]] # "504"
    BY <1>1, <1>4, <1>6, <1>10 DEF Result
  <2>3. PICK w \in Value : Half(w) /\ (w = data[judgeResult] \/ StatusOf[w] = "504")
    BY <1>6, <2>2 DEF Result
  <2>4. 2 * Cardinality({x \in Exec : data'[x] = w}) >= N
    BY <1>1, <1>2, <2>3, HalfGrows
  <2>6. judgeResult' # None /\ judgeResult' \in Leaders' /\ judgeResult' \in Here'
        /\ judgeType' = "MAJORITY" /\ StatusOf[data'[judgeResult']] # "504"
    BY <1>1, <1>6, <2>1, <2>2
  <2>7. w = data'[judgeResult'] \/ StatusOf[w] = "504"
    BY <2>1, <2>2, <2>3
  <2>8. Result'
    <3>1. judgeType' # "" /\ judgeType' # "TIME_OR_WEIGHT" /\ N # 1
      BY <1>6, <2>6
    <3>2. \E x \in Value : 2 * Cardinality({y \in Exec : data'[y] = x}) >= N
                           /\ (x = data'[judgeResult'] \/ StatusOf[x] = "504")
      BY <2>4, <2>7
    <3>3. QED
      BY <2>6, <3>1, <3>2 DEF Result, Half
  <2>9. QED
    BY <2>1, <2>8
<1>7. CASE N > 1 /\ judgeResult = None /\ Here = {}
  <2>1. judgeResult' = None /\ judgeType' = ""
    BY <1>5, <1>7 DEF Result
  <2>2. Here' = {e}
    BY <1>1, <1>7
  <2>3. 1 \in Exec /\ 2 \in Exec
    BY <1>7, NAssumption DEF Exec
  <2>4. ~Complete'
    BY <2>2, <2>3 DEF Complete
  <2>5. QED
    BY <1>7, <2>1, <2>2, <2>4 DEF Result
<1>8. CASE N > 1 /\ judgeResult = None /\ Here # {}
  <2>1. Decide
    BY <1>5, <1>8
  <2>2. \A w \in Value : (\E g \in Majority : data'[g] = w) <=> Half(w)'
    BY <1>1, <1>2, <1>8, MajorityHalf
  <2>3. \A g \in Leaders' : g \in Here' /\ data'[g] \in Value
    <3>1. SUFFICES ASSUME NEW g \in Leaders' PROVE g \in Here' /\ data'[g] \in Value
      OBVIOUS
    <3>2. g \in Exec /\ data'[g] # NoData
      BY <1>1 DEF Groups, Leaders
    <3>3. QED
      BY <1>10, <3>2 DEF Here
  <2>4. Majority \subseteq Leaders'
    BY DEF Majority, Leaders
  <2>5. CASE Eligible # {}
    <3>1. PICK g \in Eligible : judgeResult' \in Instead(g)
      BY <1>8, <2>1, <2>5 DEF Decide
    <3>2. judgeType' = "MAJORITY"
      BY <1>8, <2>1, <2>5 DEF Decide
    <3>3. g \in Majority /\ g \in Leaders' /\ g \in Exec /\ (Is504(g) => Complete')
      BY <1>3, <2>4 DEF Eligible, Majority
    <3>4. /\ judgeResult' = g \/ (judgeResult' \in Leaders' /\ Is504(g))
          /\ StatusOf[data'[judgeResult']] = "504" =>
               Complete' /\ \A x \in Exec : StatusOf[data'[x]] = "504"
      BY <1>1, <1>8, <3>1, <3>3, InsteadBest
    <3>5. judgeResult' \in Leaders' /\ judgeResult' \in Here' /\ judgeResult' # None
      BY <2>3, <3>3, <3>4, NAssumption DEF Leaders
    <3>6. data'[g] \in Value /\ 2 * Cardinality({x \in Exec : data'[x] = data'[g]}) >= N
      <4>1. data'[g] \in Value
        BY <2>3, <3>3
      <4>2. \A w \in Value : w = data'[g] => 2 * Cardinality({x \in Exec : data'[x] = w}) >= N
        BY <2>2, <3>3 DEF Half
      <4>3. QED
        BY <4>1, <4>2
    <3>7. data'[g] = data'[judgeResult'] \/ StatusOf[data'[g]] = "504"
      BY <3>4 DEF Is504
    <3>8. \E w \in Value : 2 * Cardinality({x \in Exec : data'[x] = w}) >= N
                           /\ (w = data'[judgeResult'] \/ StatusOf[w] = "504")
      BY <3>6, <3>7
    <3>9. Result'
      <4>1. judgeType' # "" /\ judgeType' # "TIME_OR_WEIGHT" /\ N # 1
        BY <1>8, <3>2
      <4>2. QED
        BY <3>2, <3>4, <3>5, <3>8, <4>1 DEF Result, Half
    <3>10. QED
      BY <1>8, <3>9
  <2>6. CASE Eligible = {} /\ Complete'
    <3>1. PICK g \in timeOrWeightJudge : judgeResult' \in Instead(g)
      BY <1>3, <1>8, <2>1, <2>6 DEF Decide
    <3>2. judgeType' = "TIME_OR_WEIGHT"
      BY <1>3, <1>8, <2>1, <2>6 DEF Decide
    <3>3. g \in Exec
      BY PreferredExec
    <3>4. /\ judgeResult' = g \/ judgeResult' \in Leaders'
          /\ StatusOf[data'[judgeResult']] = "504" =>
               Complete' /\ \A x \in Exec : StatusOf[data'[x]] = "504"
      BY <1>1, <1>8, <2>6, <3>1, <3>3, InsteadBest
    <3>5. judgeResult' \in Here' /\ judgeResult' # None
      BY <2>6, <3>3, <3>4, NAssumption DEF Complete, Leaders
    <3>6. Majority = {}
      BY <1>3, <2>6 DEF Eligible
    <3>7. \A w \in Value : ~Half(w)'
      BY <2>2, <3>6
    <3>8. Result'
      BY <1>8, <2>6, <3>2, <3>4, <3>5, <3>7 DEF Result
    <3>9. QED
      BY <1>8, <3>8
  <2>7. CASE Eligible = {} /\ ~Complete'
    <3>1. judgeResult' = None /\ judgeType' = ""
      BY <1>3, <1>8, <2>1, <2>7 DEF Decide, Result
    <3>2. \A w \in Value : StatusOf[w] # "504" => ~Half(w)'
      BY <2>2, <2>7 DEF Eligible, Is504
    <3>3. Result'
      BY <2>7, <3>1, <3>2 DEF Result
    <3>4. QED
      BY <1>8, <3>3
  <2>8. QED
    BY <2>5, <2>6, <2>7
<1>9. QED
  BY <1>6, <1>7, <1>8, <1>11, NAssumption

-----------------------------------------------------------------------------
(* The task *)

\* A datum comes for an executor that has none.
LEMMA JudgeReplies ==
  ASSUME TypeOK, TypeOK', Groups, Result, RepliedOnce, stage # "refused", stage' # "refused",
         NEW e \in Exec, NEW v \in Value, Judge(e, v)
  PROVE  RepliedOnce'
<1>1. judgeResult # None => judgeResult' = judgeResult
  BY JudgeResult
<1>2. replies' = IF judgeResult' # judgeResult THEN replies + 1 ELSE replies
  BY DEF Judge
<1>3. replies = IF judgeResult # None THEN 1 ELSE 0
  BY DEF RepliedOnce
<1>4. replies' = IF judgeResult' # None THEN 1 ELSE 0
  BY <1>1, <1>2, <1>3
<1>5. QED
  BY <1>4 DEF RepliedOnce

\* The loop comes to the next executor.
LEMMA NextExec ==
  ASSUME TypeOK, Progress, stage = "sending", Advance
  PROVE  countp \in Nat /\ countp < N /\ countp' = countp + 1 /\ countp' \in Exec
<1>1. countp \in 0..N
  BY DEF TypeOK
<1>2. countp < N
  BY DEF Progress
<1>3. countp' = countp + 1
  BY DEF Advance
<1>4. QED
  BY <1>1, <1>2, <1>3, NAssumption DEF Exec

LEMMA ProgressStep == TypeOK /\ TypeOK' /\ Progress /\ Groups /\ [Next]_vars => Progress'
<1> SUFFICES ASSUME TypeOK, TypeOK', Progress, Groups, [Next]_vars PROVE Progress'
  OBVIOUS
<1>1. CASE SidInUse \/ StartTask \/ HelperFails
  <2>1. /\ stage = "none" /\ stage' \in {"sending", "refused"} /\ (stage' = "sending" => live')
        /\ UNCHANGED <<data, judgeResult, countp, inflight, garbled>>
    BY <1>1 DEF SidInUse, StartTask, HelperFails, judged
  <2>2. countp = 0 /\ inflight = {} /\ garbled = {} /\ judgeResult = None
    BY <2>1 DEF Progress
  <2>3. Here = {}
    BY <2>2 DEF Progress
  <2>4. Here' = Here
    BY <2>1 DEF Here
  <2>5. ~Complete' /\ 0 < N
    <3>1. 1 \in Exec /\ 0 < N
      BY NAssumption DEF Exec
    <3>2. QED
      BY <2>3, <2>4, <3>1 DEF Complete
  <2>6. QED
    BY <2>1, <2>2, <2>3, <2>4, <2>5 DEF Progress
<1>2. ASSUME stage = "sending", Advance
      PROVE  /\ countp' = countp + 1 /\ countp \in Nat /\ countp < N /\ live'
             /\ countp' \in Exec /\ countp' \notin inflight /\ countp' \notin Here
             /\ 1..countp' = (1..countp) \cup {countp'}
             /\ stage' = IF countp' = N THEN "sent" ELSE "sending"
             /\ \A x \in Here : data[x] = StandIn
             /\ Here = (1..countp) \ inflight /\ inflight \subseteq 1..countp /\ garbled = {}
  <2>1. countp' = countp + 1 /\ countp \in Nat /\ countp < N
    BY <1>2, NextExec
  <2>2. 1..countp' = (1..countp) \cup {countp'} /\ countp' \notin 1..countp /\ countp' \in Exec
    BY <2>1, NAssumption DEF Exec
  <2>3. Here = (1..countp) \ inflight /\ inflight \subseteq 1..countp /\ garbled = {}
        /\ live /\ \A x \in Here : data[x] = StandIn
    BY <1>2 DEF Progress
  <2>4. live' /\ stage' = IF countp' = N THEN "sent" ELSE "sending"
    BY <1>2, <2>3 DEF Advance
  <2>5. QED
    BY <2>1, <2>2, <2>3, <2>4
<1>3. CASE Send
  <2>1. stage = "sending" /\ Advance /\ inflight' = inflight \cup {countp'}
        /\ data' = data /\ Here' = Here /\ garbled' = garbled
    BY <1>3 DEF Send, judged, Here
  <2>2. inflight' \subseteq 1..countp' /\ Here' = (1..countp') \ inflight' /\ garbled' = {}
    BY <1>2, <2>1
  <2>3. ~Complete'
    BY <1>2, <2>1 DEF Complete
  <2>4. countp' < N \/ countp' = N
    BY <1>2, <2>1, NAssumption
  <2>5. \A x \in Here' : data'[x] = StandIn
    BY <1>2, <2>1
  <2>6. live' /\ stage' = IF countp' = N THEN "sent" ELSE "sending"
    BY <1>2, <2>1
  <2>7. QED
    BY <2>2, <2>3, <2>4, <2>5, <2>6 DEF Progress
<1>4. CASE SendFails
  <2>1. stage = "sending" /\ Advance /\ Judge(countp', StandIn) /\ StandIn \in Value
        /\ UNCHANGED <<inflight, garbled>>
    BY <1>4, ResponseAssumption DEF SendFails
  <2>2. /\ Here' = Here \cup {countp'} /\ data'[countp'] = StandIn
        /\ \A x \in Here : data'[x] = data[x]
    BY <1>2, <2>1, JudgeGroups
  <2>3. inflight' \subseteq 1..countp' /\ Here' = (1..countp') \ inflight' /\ garbled' = {}
    BY <1>2, <2>1, <2>2
  <2>4. \A x \in Here' : data'[x] = StandIn
    BY <1>2, <2>1, <2>2
  <2>5. countp' < N \/ countp' = N
    BY <1>2, <2>1, NAssumption
  <2>6. live' /\ stage' = IF countp' = N THEN "sent" ELSE "sending"
    BY <1>2, <2>1
  <2>7. QED
    BY <2>3, <2>4, <2>5, <2>6 DEF Progress, Complete
<1>5. ASSUME NEW e \in Exec, NEW v \in Value, stage = "sent", e \in inflight,
             Judge(e, v), Finish(e), garbled' = garbled
      PROVE  Progress'
  <2>1. /\ inflight' = inflight \ {e} /\ stage' = "sent" /\ countp' = countp
        /\ countp = N
        /\ live' = ({x \in Exec : data'[x] = NoData} # {})
    BY <1>5 DEF Finish, Progress
  <2>2. Here' = Here \cup {e} /\ e \in 1..countp
    BY <1>5, JudgeGroups DEF Progress
  <2>3. /\ inflight' \subseteq 1..countp' /\ inflight' \cap garbled' = {}
        /\ Here' = (1..countp') \ (inflight' \cup garbled')
    BY <1>5, <2>1, <2>2 DEF Progress
  <2>4. live' <=> ~Complete'
    BY <2>1 DEF Complete, Here
  <2>5. inflight' # {} => ~Complete'
    BY <2>1, <2>3 DEF Complete, Exec
  <2>6. QED
    BY <2>1, <2>3, <2>4, <2>5 DEF Progress
<1>6. ASSUME NEW e \in Exec, NoResponse(e) \/ \E v \in Value : Response(e, v)
      PROVE  Progress'
  BY <1>5, <1>6, ResponseAssumption DEF NoResponse, Response
<1>7. ASSUME NEW e \in Exec, Garbled(e)
      PROVE  Progress'
  <2>1. /\ stage = "sent" /\ e \in inflight /\ countp = N
        /\ inflight' = inflight \ {e} /\ garbled' = garbled \cup {e}
        /\ UNCHANGED <<data, judgeResult, stage, countp>>
        /\ live' = ({x \in Exec : data[x] = NoData} # {})
    BY <1>7 DEF Garbled, Finish, judged, Progress
  <2>2. /\ inflight' \subseteq 1..countp' /\ inflight' \cap garbled' = {}
        /\ Here = (1..countp') \ (inflight' \cup garbled')
    BY <2>1 DEF Progress
  <2>3. Here' = Here /\ e \notin Here
    BY <2>1, <2>2 DEF Here
  <2>4. live' /\ ~Complete'
    BY <2>1, <2>3 DEF Here, Complete
  <2>5. QED
    BY <2>1, <2>2, <2>3, <2>4 DEF Progress
<1>8. CASE UNCHANGED vars
  <2>1. UNCHANGED <<data, judgeResult, stage, live, countp, inflight, garbled>>
    BY <1>8 DEF vars, judged
  <2>2. QED
    BY <2>1 DEF Progress, Here, Complete
<1>9. QED
  BY <1>1, <1>3, <1>4, <1>6, <1>7, <1>8 DEF Next

\* The vote in a step that does not judge.
LEMMA Unjudged ==
  ASSUME Groups, Result, UNCHANGED judged
  PROVE  Groups' /\ Result'
<1>1. UNCHANGED <<data, judgeGroup, cmpRetRecord, judgeResult, judgeType>>
  BY DEF judged
<1>2. Groups'
  BY <1>1 DEF Groups, Leaders, Here
<1>3. Result'
  BY <1>1 DEF Result, Leaders, Here, Complete, Half
<1>4. QED
  BY <1>2, <1>3

LEMMA VoteStep ==
  TypeOK /\ TypeOK' /\ Progress /\ Groups /\ Result /\ RepliedOnce /\ [Next]_vars
    => Groups' /\ Result' /\ RepliedOnce'
<1> SUFFICES ASSUME TypeOK, TypeOK', Progress, Groups, Result, RepliedOnce, [Next]_vars
             PROVE  Groups' /\ Result' /\ RepliedOnce'
  OBVIOUS
<1>1. ASSUME NEW e \in Exec, NEW v \in Value, Judge(e, v), stage # "refused", stage' # "refused"
      PROVE  Groups' /\ Result' /\ RepliedOnce'
  BY <1>1, JudgeGroups, JudgeResult, JudgeReplies
<1>2. CASE SidInUse \/ HelperFails
  <2>1. UNCHANGED judged /\ stage = "none" /\ stage' = "refused" /\ replies' = replies + 1
        /\ judgeResult = None /\ judgeResult' = None
    BY <1>2 DEF SidInUse, HelperFails, judged, Progress
  <2>2. replies = 0
    BY <2>1 DEF RepliedOnce
  <2>3. RepliedOnce'
    BY <2>1, <2>2 DEF RepliedOnce
  <2>4. QED
    BY <2>1, <2>3, Unjudged
<1>3. CASE StartTask \/ Send
  <2>1. UNCHANGED judged /\ stage # "refused" /\ stage' # "refused" /\ replies' = replies
        /\ judgeResult' = judgeResult
    BY <1>3 DEF StartTask, Send, Advance, judged
  <2>2. RepliedOnce'
    BY <2>1 DEF RepliedOnce
  <2>3. QED
    BY <2>1, <2>2, Unjudged
<1>4. CASE SendFails
  <2>1. stage = "sending" /\ Advance /\ Judge(countp', StandIn) /\ StandIn \in Value
    BY <1>4, ResponseAssumption DEF SendFails
  <2>3. countp' \in Exec
    BY <2>1, NextExec
  <2>4. stage # "refused" /\ stage' # "refused"
    BY <2>1 DEF Advance
  <2>5. QED
    BY <1>1, <2>1, <2>3, <2>4
<1>5. ASSUME NEW e \in Exec, NoResponse(e) \/ \E v \in Value : Response(e, v)
      PROVE  Groups' /\ Result' /\ RepliedOnce'
  <2>1. PICK v \in Value : Judge(e, v)
    BY <1>5, ResponseAssumption DEF NoResponse, Response
  <2>2. stage # "refused" /\ stage' # "refused"
    BY <1>5 DEF NoResponse, Response, Finish
  <2>3. QED
    BY <1>1, <2>1, <2>2
<1>6. CASE UNCHANGED vars \/ \E e \in Exec : Garbled(e)
  <2>1. UNCHANGED judged /\ UNCHANGED <<judgeResult, stage, replies>>
    BY <1>6 DEF vars, judged, Garbled, Finish
  <2>2. QED
    BY <2>1, Unjudged DEF RepliedOnce
<1>7. QED
  BY <1>2, <1>3, <1>4, <1>5, <1>6 DEF Next

LEMMA InvInit == Init => Inv
<1> SUFFICES ASSUME Init PROVE Inv
  OBVIOUS
<1>1. TypeOK
  <2>1. countp \in 0..N /\ replies \in Nat
    <3>1. countp = 0 /\ replies = 0
      BY DEF Init
    <3>2. QED
      BY <3>1, NAssumption
  <2>2. data \in [Exec -> Value \cup {NoData}] /\ judgeGroup \in [Exec -> SUBSET Exec]
    BY DEF Init
  <2>3. /\ judgeResult \in Exec \cup {None} /\ cmpRetRecord \subseteq Exec \X Exec
        /\ inflight \subseteq Exec /\ garbled \subseteq Exec /\ reported \subseteq Exec /\ live \in BOOLEAN
        /\ scores \in Scores
    BY DEF Init
  <2>4. /\ judgeType \in {"", "MAJORITY", "TIME_OR_WEIGHT"}
        /\ stage \in {"none", "sending", "sent", "refused"}
    BY DEF Init
  <2>5. QED
    BY <2>1, <2>2, <2>3, <2>4 DEF TypeOK
<1>2. Here = {} /\ Leaders = {} /\ ~Complete
  <2>1. Here = {} /\ Leaders = {}
    BY DEF Init, Here, Leaders
  <2>2. 1 \in Exec
    BY NAssumption DEF Exec
  <2>3. QED
    BY <2>1, <2>2 DEF Complete
<1>3. Groups /\ Result /\ RepliedOnce
  BY <1>2 DEF Init, Groups, Result, RepliedOnce
<1>4. Progress
  <2>1. /\ stage = "none" /\ countp = 0 /\ inflight = {} /\ garbled = {}
        /\ judgeResult = None /\ ~live
    BY DEF Init
  <2>2. 1..countp = {}
    BY <2>1
  <2>3. QED
    BY <1>2, <2>1, <2>2 DEF Progress
<1>5. QED
  BY <1>1, <1>3, <1>4 DEF Inv

THEOREM InvHolds == Spec => []Inv
<1>1. Inv /\ [Next]_vars => Inv'
  BY TypeStep, ProgressStep, VoteStep DEF Inv
<1>2. QED
  BY <1>1, InvInit, PTL DEF Spec

\* The types of a task.
THEOREM ProxyTypeCorrect == Spec => []TypeOK
<1>1. Inv => TypeOK
  BY DEF Inv
<1>2. QED
  BY <1>1, InvHolds, PTL

\* A client never gets two replies, nor one without a decision or a refusal.
THEOREM OneReply == Spec => []RepliedOnce
<1>1. Inv => RepliedOnce
  BY DEF Inv
<1>2. QED
  BY <1>1, InvHolds, PTL

\* No order of failures and responses gives the client a needless 504.
THEOREM BestReply == Spec => []No504WithoutNeed
<1>1. Inv => No504WithoutNeed
  BY DEF Inv, Result, No504WithoutNeed, Complete, Here
<1>2. QED
  BY <1>1, InvHolds, PTL

\* No callback uses a deleted task, and every executor is accounted for: it
\* has a datum, a request under way, its turn still to come, or it responded
\* with what could not be parsed.
THEOREM TaskSafe == Spec => []TaskOutlivesRequests
<1>1. Inv => TaskOutlivesRequests
  BY DEF Inv, Progress, TaskOutlivesRequests
<1>2. QED
  BY <1>1, InvHolds, PTL

\* The only way to leave a client without a reply when nothing more can come:
\* a datum lost with a response that could not be parsed, and a vote that the
\* others leave open.
THEOREM SilentOnlyIfStranded ==
  Spec => [](stage = "sent" /\ inflight = {} => replies = 1 \/ Stranded)
<1>1. ASSUME Inv, stage = "sent", inflight = {}, replies # 1 PROVE Stranded
  <2>1. judgeResult = None /\ ~Complete
    BY <1>1 DEF Inv, RepliedOnce, Result
  <2>2. Here = Exec \ garbled
    BY <1>1 DEF Inv, Progress, Exec
  <2>3. garbled # {}
    BY <2>1, <2>2 DEF Complete
  <2>4. CASE \E e, f \in Here : e # f
    <3>1. \A v \in Value : StatusOf[v] # "504" => ~Half(v)
      BY <1>1, <2>1, <2>4 DEF Inv, Result
    <3>2. \A v \in Value : ~Half(v) => 2 * Cardinality({e \in Exec : data[e] = v}) < N
      BY ClassSize, NAssumption DEF Half
    <3>3. QED
      BY <1>1, <2>3, <3>1, <3>2 DEF Stranded
  <2>5. CASE \A e, f \in Here : e = f
    <3>1. Here = {} \/ \E e \in Here : Here = {e}
      BY <2>5
    <3>2. Cardinality(Here) = 0 \/ Cardinality(Here) = 1
      BY <3>1, FS_EmptySet, FS_Singleton
    <3>3. QED
      BY <1>1, <2>3, <3>2 DEF Stranded
  <2>6. QED
    BY <2>4, <2>5
<1>2. Inv => (stage = "sent" /\ inflight = {} => replies = 1 \/ Stranded)
  BY <1>1
<1>3. QED
  BY <1>2, InvHolds, PTL

-----------------------------------------------------------------------------
(* The majority wins *)

LEMMA InvMajority == Inv => MajorityWins
<1> SUFFICES ASSUME Inv, NEW v \in Value, StatusOf[v] # "504",
                    2 * Cardinality({e \in Exec : data[e] = v}) > N
             PROVE  judgeResult # None /\ data[judgeResult] = v
  BY DEF MajorityWins
<1> DEFINE C == {e \in Exec : data[e] = v}
<1>1. IsFiniteSet(C) /\ Cardinality(C) \in Nat /\ (Cardinality(C) = 0 <=> C = {})
  BY ClassSize
<1>2. C # {} /\ C \subseteq Here
  BY <1>1, NAssumption, ResponseAssumption DEF Here
<1>3. Half(v)
  BY <1>1, NAssumption DEF Half
<1>4. CASE N = 1
  <2>1. Exec = {1}
    BY <1>4 DEF Exec
  <2>2. C = Exec /\ Complete
    BY <1>2, <2>1 DEF Complete, Here
  <2>3. judgeResult # None /\ judgeResult \in Exec
    BY <2>2 DEF Inv, Result, Here
  <2>4. QED
    BY <2>2, <2>3
<1>5. CASE N # 1 /\ judgeResult = None
  <2>1. \A e, f \in C : e = f
    BY <1>2, <1>3, <1>5 DEF Inv, Result
  <2>2. PICK e : C = {e}
    BY <1>2, <2>1
  <2>3. Cardinality(C) = 1
    BY <2>2, FS_Singleton
  <2>4. FALSE
    BY <1>5, <2>3, NAssumption
  <2>5. QED
    BY <2>4
<1>6. CASE N # 1 /\ judgeResult # None
  <2>1. N > 1
    BY <1>6, NAssumption
  <2>2. judgeType = "MAJORITY"
    BY <1>3, <1>6, <2>1 DEF Inv, Result, TypeOK
  <2>3. PICK w \in Value : /\ 2 * Cardinality({e \in Exec : data[e] = w}) >= N
                           /\ w = data[judgeResult] \/ StatusOf[w] = "504"
    BY <1>6, <2>2 DEF Inv, Result, Half
  <2>4. w = v
    <3>1. SUFFICES ASSUME w # v PROVE FALSE
      OBVIOUS
    <3>2. Cardinality({e \in Exec : data[e] = w}) \in Nat
      BY ClassSize
    <3>3. Cardinality({e \in Exec : data[e] = w}) + Cardinality(C) <= N
      BY <3>1, ClassesDisjoint
    <3>4. QED
      BY <1>1, <2>3, <3>2, <3>3, NAssumption
  <2>5. QED
    BY <1>6, <2>3, <2>4
<1>7. QED
  BY <1>4, <1>5, <1>6

\* The response of more than half of the executors wins, unless a 504.
THEOREM ProxyMajorityWins == Spec => []MajorityWins
BY InvHolds, InvMajority, PTL

-----------------------------------------------------------------------------
(* The dissenters are reported *)

\* Exact reports, except for the time rule with more than four executors.
ReportInv == Complete /\ (judgeType = "MAJORITY" \/ N <= 4) => reported = Dissenters

LEMMA WinnerLeads ==
  TypeOK /\ Groups /\ Result /\ Complete /\ N > 1 /\ (judgeType = "MAJORITY" \/ N <= 4)
    => judgeResult \in Leaders
<1> SUFFICES ASSUME TypeOK, Groups, Result, Complete, N > 1, judgeType = "MAJORITY" \/ N <= 4
             PROVE  judgeResult \in Leaders
  OBVIOUS
<1>1. judgeResult # None /\ judgeResult \in Here /\ judgeType # ""
  BY DEF Result
<1>2. CASE judgeType = "MAJORITY"
  BY <1>1, <1>2 DEF Result
<1>3. CASE judgeType # "MAJORITY"
  <2>1. judgeType = "TIME_OR_WEIGHT" /\ N <= 4
    BY <1>1, <1>3 DEF TypeOK
  <2>2. data[judgeResult] \in Value
    BY <1>1 DEF TypeOK, Here
  <2>3. ~Half(data[judgeResult])
    BY <1>1, <2>1, <2>2 DEF Result
  <2>4. QED
    BY <1>1, <2>1, <2>3, LeaderWins
<1>4. QED
  BY <1>2, <1>3

LEMMA WinnerLeadsNext ==
  (TypeOK /\ Groups /\ Result /\ Complete /\ N > 1 /\ (judgeType = "MAJORITY" \/ N <= 4)
     => judgeResult \in Leaders)'
BY WinnerLeads, PTL

LEMMA ReportJudge ==
  ASSUME TypeOK', Groups', Result', NEW e \in Exec, NEW v \in Value, Judge(e, v)
  PROVE  ReportInv'
<1> SUFFICES ASSUME Complete', judgeType' = "MAJORITY" \/ N <= 4
             PROVE  reported' = Dissenters'
  BY DEF ReportInv
<1>1. reported' = analyseJudgeResult
  BY DEF Judge, Complete, Here
<1>2. judgeResult' \in Exec
  BY DEF Result, Here
<1>3. N > 1 => judgeResult' \in Leaders'
  BY WinnerLeadsNext
<1>4. QED
  BY <1>1, <1>2, <1>3, ReportExact

LEMMA ReportStep == Inv /\ Inv' /\ ReportInv /\ [Next]_vars => ReportInv'
<1> SUFFICES ASSUME Inv, Inv', ReportInv, [Next]_vars PROVE ReportInv'
  OBVIOUS
<1>1. ASSUME NEW e, NEW v \in Value, Judge(e, v), e \in Exec PROVE ReportInv'
  BY <1>1, ReportJudge DEF Inv
<1>2. CASE UNCHANGED judged /\ UNCHANGED reported
  BY <1>2 DEF ReportInv, Dissenters, Complete, Here, judged
<1>3. CASE SendFails
  <2>1. stage = "sending" /\ Advance /\ Judge(countp', StandIn) /\ StandIn \in Value
    BY <1>3, ResponseAssumption DEF SendFails
  <2>3. countp' \in Exec
    BY <2>1, NextExec DEF Inv
  <2>4. QED
    BY <1>1, <2>1, <2>3
<1>4. ASSUME NEW e \in Exec, NoResponse(e) \/ \E v \in Value : Response(e, v)
      PROVE  ReportInv'
  BY <1>1, <1>4, ResponseAssumption DEF NoResponse, Response
<1>5. CASE SidInUse \/ StartTask \/ HelperFails \/ Send \/ UNCHANGED vars
             \/ \E e \in Exec : Garbled(e)
  BY <1>2, <1>5 DEF SidInUse, StartTask, HelperFails, Send, Garbled, vars
<1>6. QED
  BY <1>3, <1>4, <1>5 DEF Next

LEMMA ReportHolds == Spec => [](Inv /\ ReportInv)
<1>1. Init => ReportInv
  <2>1. SUFFICES ASSUME Init PROVE ~Complete
    BY DEF ReportInv
  <2>2. 1 \in Exec /\ Here = {}
    <3>1. data = [e \in Exec |-> NoData]
      BY <2>1 DEF Init
    <3>2. QED
      BY <3>1, NAssumption DEF Exec, Here
  <2>3. QED
    BY <2>2 DEF Complete
<1>2. QED
  BY <1>1, InvHolds, ReportStep, PTL DEF Spec

\* With up to four executors exactly the dissenters are reported.
THEOREM ProxyDissentersReported ==
  ASSUME N <= 4
  PROVE  Spec => []ReportedAreDissenters
<1>1. ReportInv => ReportedAreDissenters
  BY DEF ReportInv, ReportedAreDissenters
<1>2. QED
  BY <1>1, ReportHolds, PTL

\* With any number of executors a majority reports exactly the dissenters.
THEOREM ProxyMajorityReports ==
  Spec => [](Complete /\ judgeType = "MAJORITY" => reported = Dissenters)
<1>1. ReportInv => (Complete /\ judgeType = "MAJORITY" => reported = Dissenters)
  BY DEF ReportInv
<1>2. QED
  BY <1>1, ReportHolds, PTL
-----------------------------------------------------------------------------
(* Judging implements the promise *)

\* The instance counts as this module does.
LEMMA SameCardinality == \A S : A!Cardinality(S) = Cardinality(S)
  BY DEF A!Cardinality, Cardinality

\* Of two or more responses, half is a half.
LEMMA HalfHeard ==
  ASSUME NEW v, \E e, f \in Here' : e # f
  PROVE  A!Half(data', v) <=> Half(v)'
<1>1. \E e, f \in A!In(data') : e # f
  BY DEF A!In, Here
<1>2. Cardinality(Exec) = N
  BY ExecFinite
<1>3. QED
  BY <1>1, <1>2, SameCardinality DEF A!Half, Half

\* A response that wins early is the one of a large group.
LEMMA CarriedLeads ==
  ASSUME Groups', N > 1, \E e, f \in Here' : e # f, NEW v
  PROVE  v \in A!Carried(data') <=>
           v \in Value /\ StatusOf[v] # "504" /\ \E g \in Majority : data'[g] = v
<1>1. v \in Value => (A!Half(data', v) <=> \E g \in Majority : data'[g] = v)
  BY HalfHeard, MajorityHalf, ResponseAssumption
<1>2. QED
  BY <1>1 DEF A!Carried

\* When all data are in the groups show every status there is.
LEMMA GroupsShowAll ==
  ASSUME Groups', Complete', N > 1
  PROVE  /\ (\E h \in Exec : judgeGroup'[h] # {} /\ ~Is504(h))
              <=> (\E e \in Exec : StatusOf[data'[e]] # "504")
         /\ (\E h \in Exec : judgeGroup'[h] # {} /\ ~Is504(h) /\ StatusOf[data'[h]] = "2xx")
              <=> (\E e \in Exec : StatusOf[data'[e]] = "2xx")
<1>1. ASSUME NEW e \in Exec PROVE \E h \in Exec : judgeGroup'[h] # {} /\ data'[h] = data'[e]
  <2>1. PICK h \in Leaders' : data'[h] = data'[e]
    BY DEF Groups, Complete
  <2>2. QED
    BY <2>1 DEF Leaders
<1>2. QED
  BY <1>1 DEF Is504

\* The reply after all data are in and no 504 to keep: better ones first.
LEMMA InsteadFalls ==
  ASSUME Groups', Complete', N > 1, NEW g \in Exec, NEW h \in Instead(g),
         (\E v \in Value : StatusOf[v] = "504" /\ A!Half(data', v)) => Is504(g)
  PROVE  h \in A!Fallback(data')
<1> DEFINE better == {x \in Exec : judgeGroup'[x] # {} /\ ~Is504(x)}
           fine   == {x \in better : StatusOf[data'[x]] = "2xx"}
           Better == {e \in Exec : StatusOf[data'[e]] # "504"}
           Fine   == {e \in Exec : StatusOf[data'[e]] = "2xx"}
<1>1. better \subseteq Better /\ fine \subseteq Fine
  BY DEF Is504
<1>2. (better = {} <=> Better = {}) /\ (fine = {} <=> Fine = {})
  BY GroupsShowAll
<1>3. Instead(g) = IF ~Is504(g) \/ better = {} THEN {g} ELSE IF fine # {} THEN fine ELSE better
  BY DEF Instead
<1>4. A!Fallback(data') =
        IF Better = {} THEN Exec
        ELSE IF Fine # {} /\ \E v \in Value : StatusOf[v] = "504" /\ A!Half(data', v)
             THEN Fine ELSE Better
  BY DEF A!Fallback
<1>5. ~Is504(g) => g \in Better
  BY DEF Is504
<1> HIDE DEF better, fine, Better, Fine
<1>6. CASE Better = {}
  BY <1>2, <1>3, <1>4, <1>6
<1>7. CASE Better # {} /\ Is504(g)
  <2>1. h \in fine \/ (fine = {} /\ h \in better)
    BY <1>2, <1>3, <1>7
  <2>2. fine \subseteq Better
    <3>1. fine \subseteq better
      BY DEF fine
    <3>2. QED
      BY <1>1, <3>1
  <2>3. QED
    BY <1>1, <1>2, <1>4, <1>7, <2>1, <2>2
<1>8. CASE Better # {} /\ ~Is504(g)
  BY <1>3, <1>4, <1>5, <1>8
<1>9. QED
  BY <1>6, <1>7, <1>8

\* The choice among several executors is one of the best.
LEMMA DecideBest ==
  ASSUME Groups', N > 1, \E e, f \in Here' : e # f,
         data' \in [Exec -> Value \cup {NoData}], judgeResult = None, Decide
  PROVE  IF A!Due(data') THEN judgeResult' \in Exec /\ judgeResult' \in A!Best(data')
         ELSE judgeResult' = None
<1>1. Complete' <=> {x \in Exec : data'[x] = NoData} = {}
  BY DEF Complete, Here
<1>2. Complete' <=> A!In(data') = Exec
  BY DEF Complete, Here, A!In
<1>3. \A g \in Majority : g \in Exec /\ g \in Leaders' /\ data'[g] \in Value
  <2>1. \A g \in Majority : g \in Exec /\ g \in Leaders'
    BY DEF Majority, Leaders
  <2>2. QED
    BY <2>1 DEF Groups
<1>4. \A w : w \in A!Carried(data') <=>
               w \in Value /\ StatusOf[w] # "504" /\ \E g \in Majority : data'[g] = w
  BY CarriedLeads
<1>5. A!Due(data') <=> Eligible # {} \/ Complete'
  <2>1. A!Carried(data') # {} <=> \E g \in Majority : ~Is504(g)
    BY <1>3, <1>4 DEF Is504
  <2>2. QED
    BY <1>1, <1>2, <2>1 DEF A!Due, Eligible
<1>6. CASE ~(Eligible # {} \/ Complete')
  BY <1>1, <1>5, <1>6 DEF Decide
<1>7. CASE Eligible # {}
  <2>1. PICK g \in Eligible : judgeResult' \in Instead(g)
    BY <1>7 DEF Decide
  <2>2. g \in Majority /\ (Is504(g) => Complete')
    BY <1>1, <2>1 DEF Eligible
  <2>3. judgeResult' \in Exec
    BY <1>3, <2>1, <2>2 DEF Instead
  <2>4. CASE ~Is504(g)
    <3>1. judgeResult' = g
      BY <2>1, <2>4 DEF Instead
    <3>2. data'[g] \in A!Carried(data')
      BY <1>3, <1>4, <2>2, <2>4 DEF Is504
    <3>3. QED
      BY <1>5, <1>7, <2>3, <3>1, <3>2 DEF A!Best
  <2>5. CASE Is504(g) /\ A!Carried(data') = {}
    <3>1. judgeResult' \in A!Fallback(data')
      BY <1>3, <2>1, <2>2, <2>5, InsteadFalls
    <3>2. QED
      BY <1>5, <1>7, <2>3, <2>5, <3>1 DEF A!Best
  <2>6. CASE Is504(g) /\ A!Carried(data') # {}
    <3>1. PICK c \in A!Carried(data') : TRUE
      BY <2>6
    <3>2. c \in Value /\ StatusOf[c] # "504" /\ \E x \in Majority : data'[x] = c
      BY <1>4, <3>1
    <3>3. PICK x \in Majority : data'[x] = c
      BY <3>2
    <3>4. PICK u \in Value : u = data'[g]
      BY <1>3, <2>2
    <3>5. Half(c)' /\ Half(u)' /\ u # c
      BY <2>2, <2>6, <3>2, <3>4, MajorityHalf, ResponseAssumption DEF Is504
    <3>6. \A y \in Exec : data'[y] = c \/ data'[y] = data'[g]
      BY <3>4, <3>5, HalvesAreAll
    <3>7. judgeGroup'[judgeResult'] # {} /\ ~Is504(judgeResult')
      <4>1. x \in Exec /\ judgeGroup'[x] # {} /\ ~Is504(x)
        BY <1>3, <3>2, <3>3 DEF Is504, Leaders
      <4>2. QED
        BY <2>1, <2>6, <4>1 DEF Instead
    <3>8. data'[judgeResult'] = c
      BY <2>3, <2>6, <3>6, <3>7 DEF Is504
    <3>9. QED
      BY <1>5, <1>7, <2>3, <3>1, <3>8 DEF A!Best
  <2>7. QED
    BY <2>4, <2>5, <2>6
<1>8. CASE Eligible = {} /\ Complete'
  <2>1. PICK g \in timeOrWeightJudge : judgeResult' \in Instead(g)
    BY <1>1, <1>8 DEF Decide
  <2>2. Majority = {}
    BY <1>1, <1>8 DEF Eligible
  <2>3. A!Carried(data') = {} /\ \A w \in Value : ~A!Half(data', w)
    BY <1>4, <2>2, HalfHeard, MajorityHalf, ResponseAssumption
  <2>4. g \in Exec
    BY PreferredExec
  <2>5. judgeResult' \in Exec
    BY <2>1, <2>4 DEF Instead
  <2>6. judgeResult' \in A!Fallback(data')
    BY <1>8, <2>1, <2>3, <2>4, InsteadFalls
  <2>7. QED
    BY <1>5, <1>8, <2>3, <2>5, <2>6 DEF A!Best
<1>9. QED
  BY <1>6, <1>7, <1>8

\* A response that is judged is heard.
LEMMA JudgeHears ==
  ASSUME Inv, Inv', stage # "refused", NEW e \in Exec, NEW v \in Value, Judge(e, v)
  PROVE  A!Hear(e, v)
<1>1. /\ data[e] = NoData /\ data' = [data EXCEPT ![e] = v]
      /\ replies' = IF judgeResult' # judgeResult THEN replies + 1 ELSE replies
  BY DEF Judge
<1>2. /\ Groups' /\ e \notin Here /\ Here' = Here \cup {e} /\ data'[e] = v
      /\ judgeResult # None => judgeResult' = judgeResult
  BY JudgeGroups, JudgeResult DEF Inv
<1>3. judgeResult = None => replies = 0
  BY DEF Inv, RepliedOnce
<1>4. SUFFICES IF judgeResult = None /\ A!Due(data')
               THEN judgeResult' \in Exec /\ judgeResult' \in A!Best(data')
               ELSE judgeResult' = judgeResult
  BY <1>1, <1>3, NAssumption DEF A!Hear
<1>5. CASE judgeResult # None
  BY <1>2, <1>5
<1>6. CASE judgeResult = None /\ N = 1
  <2>1. Exec = {e} /\ judgeResult' = e
    BY <1>6 DEF Exec, Judge, judgeData
  <2>2. A!Due(data')
    BY <1>2, <2>1, ResponseAssumption DEF A!Due, A!In
  <2>3. e \in A!Best(data')
    <3>1. ASSUME NEW w \in A!Carried(data') PROVE w = v
      <4>1. 2 * Cardinality({x \in Exec : data'[x] = w}) >= Cardinality(Exec)
        BY SameCardinality DEF A!Carried, A!Half
      <4>2. {x \in Exec : data'[x] = w} # {}
        BY <1>6, <4>1, ExecFinite, ClassSize
      <4>3. QED
        BY <1>2, <2>1, <4>2
    <3>2. e \in A!Fallback(data')
      BY <2>1 DEF A!Fallback
    <3>3. QED
      BY <1>2, <2>1, <3>1, <3>2 DEF A!Best
  <2>4. QED
    BY <1>6, <2>1, <2>2, <2>3
<1>7. CASE judgeResult = None /\ N # 1 /\ Here = {}
  <2>1. judgeResult' = None
    BY <1>7 DEF Judge, judgeData
  <2>2. A!In(data') = {e}
    BY <1>2, <1>7 DEF A!In, Here
  <2>3. 1 \in Exec /\ 2 \in Exec
    BY <1>7, NAssumption DEF Exec
  <2>4. A!In(data') # Exec /\ ~\E x, y \in A!In(data') : x # y
    BY <2>2, <2>3
  <2>5. \A w : ~A!Half(data', w)
    BY <2>4 DEF A!Half
  <2>6. ~A!Due(data')
    BY <2>4, <2>5 DEF A!Due, A!Carried
  <2>7. QED
    BY <1>7, <2>1, <2>6
<1>8. CASE judgeResult = None /\ N # 1 /\ Here # {}
  <2>1. Decide /\ N > 1
    BY <1>8, NAssumption DEF Judge, judgeData
  <2>2. (\E x, y \in Here' : x # y) /\ data' \in [Exec -> Value \cup {NoData}]
    <3>1. PICK x \in Here : x \in Here' /\ x # e /\ e \in Here'
      BY <1>2, <1>8
    <3>2. QED
      BY <3>1 DEF Inv, TypeOK
  <2>3. QED
    BY <1>2, <1>8, <2>1, <2>2, DecideBest
<1>9. QED
  BY <1>5, <1>6, <1>7, <1>8

LEMMA AnswerStep == Inv /\ Inv' /\ [Next]_vars => [A!Next]_(A!vars)
<1> SUFFICES ASSUME Inv, Inv', [Next]_vars PROVE [A!Next]_(A!vars)
  OBVIOUS
<1>1. CASE SidInUse \/ HelperFails
  <2>1. /\ UNCHANGED <<data, judgeResult>> /\ replies' = replies + 1
        /\ Here = {} /\ replies = 0
    BY <1>1 DEF SidInUse, HelperFails, judged, Inv, Progress, RepliedOnce
  <2>2. data = A!Silence
    BY <2>1 DEF A!Silence, Here, Inv, TypeOK
  <2>3. A!Refuse
    BY <2>1, <2>2 DEF A!Refuse
  <2>4. QED
    BY <2>3 DEF A!Next
<1>2. CASE StartTask \/ Send \/ UNCHANGED vars \/ \E e \in Exec : Garbled(e)
  BY <1>2 DEF StartTask, Send, Garbled, vars, judged, A!vars
<1>3. CASE SendFails
  <2>1. stage = "sending" /\ Advance /\ Judge(countp', StandIn) /\ StandIn \in Value
    BY <1>3, ResponseAssumption DEF SendFails
  <2>2. countp' \in Exec
    BY <2>1, NextExec DEF Inv
  <2>3. QED
    BY <2>1, <2>2, JudgeHears DEF A!Next
<1>4. ASSUME NEW e \in Exec, NoResponse(e) \/ \E v \in Value : Response(e, v)
      PROVE  A!Next
  <2>1. PICK v \in Value : stage = "sent" /\ Judge(e, v)
    BY <1>4, ResponseAssumption DEF NoResponse, Response
  <2>2. QED
    BY <2>1, JudgeHears DEF A!Next
<1>5. QED
  BY <1>1, <1>2, <1>3, <1>4 DEF Next

\* One reply to the client: a refusal, or the response of an executor that
\* was chosen when a choice was due and among those that may be.
THEOREM ImplementsAnswer == Spec => AnswerSpec
<1>1. Init => A!Init
  BY DEF Init, A!Init, A!Silence
<1>2. QED
  BY <1>1, InvHolds, AnswerStep, PTL DEF Spec, AnswerSpec, A!Spec
=============================================================================
