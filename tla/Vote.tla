-------------------------------- MODULE Vote --------------------------------
(***************************************************************************)
(* The vote the judge (src/judge_task.cpp) and the proxy                   *)
(* (src/proxy_task.cpp) take, each in its own copy of the same functions:  *)
(* groups of data that agree, the record of who was found different from   *)
(* whom, the majority, the choice by failures or time in service, and who  *)
(* is reported in the end.                                                 *)
(***************************************************************************)
EXTENDS Integers, FiniteSets

CONSTANTS
  N,          \* how many executors the vote waits for (execNum)
  NoData,     \* not a datum: the executor's datum has not come
  None,       \* not an executor
  JudgeRules, \* values of judgeRule
  FailCounts, \* values of failcountList
  Uptimes     \* values of uptimelist

\* The executors, in the order of their addresses, the order of the maps.
Exec == 1..N

ASSUME NAssumption == N \in Nat \ {0} /\ None \notin Exec
ASSUME RuleAssumption ==
  /\ JudgeRules # {} /\ JudgeRules \subseteq {"weight", "time"}
  /\ FailCounts # {} /\ FailCounts \subseteq [Exec -> Nat]
  /\ Uptimes # {} /\ Uptimes \subseteq [Exec -> Nat]

VARIABLES
  data,          \* judgeDataList: executor -> its datum or NoData
  judgeGroup,    \* leader -> members of its group; {}: leads none
  cmpRetRecord,  \* <<leader, executor>>: they were compared and differ
  judgeResult,   \* whose datum won, or None; retGroupKey is its key
  judgeType,     \* "", "MAJORITY" or "TIME_OR_WEIGHT"
  scores         \* what the task copied: rule, failcountList, uptimelist

Scores   == [judgeRule: JudgeRules, failcountList: FailCounts, uptimelist: Uptimes]
Here     == {e \in Exec : data[e] # NoData}
Complete == Here = Exec
Leaders  == {g \in Exec : judgeGroup[g] # {}}

\* cmpJudgeData: status, content type, parameters or body make a difference
\* or they do not; the leaders whose datum the new one of e agrees with.
Agreeing(e) == {g \in Leaders : data[g] = data'[e]}

\* Mutant: the leaders are not recorded as different from the new one.
Group_OneSided(e) ==
  LET agree == Agreeing(e)
  IN \/ \E g \in agree, passed \in SUBSET (Leaders \ agree) :
          /\ judgeGroup' = [judgeGroup EXCEPT ![g] = @ \cup {e}]
          /\ cmpRetRecord' = cmpRetRecord \cup (passed \X {e})
     \/ /\ agree = {}
        /\ judgeGroup' = [judgeGroup EXCEPT ![e] = {e}]
        /\ cmpRetRecord' = cmpRetRecord

\* The new datum of e joins the group whose leader it agrees with (on the way
\* there it was compared with some other leaders: the map is ordered by
\* address in memory), or leads a new one and is recorded as different from
\* every leader, and they from it.
Group(e) ==
  LET agree == Agreeing(e)
  IN \/ \E g \in agree, passed \in SUBSET (Leaders \ agree) :
          /\ judgeGroup' = [judgeGroup EXCEPT ![g] = @ \cup {e}]
          /\ cmpRetRecord' = cmpRetRecord \cup (passed \X {e})
     \/ /\ agree = {}
        /\ judgeGroup' = [judgeGroup EXCEPT ![e] = {e}]
        /\ cmpRetRecord' = cmpRetRecord \cup (Leaders \X {e}) \cup ({e} \X Leaders)

\* Mutant: more than a majority is asked for.
Majority_Strict == {g \in Exec : judgeGroup'[g] # {} /\ 2 * Cardinality(judgeGroup'[g]) > N + 2}

\* The leaders of large groups: ele.second.size() >= ceil(execNum / 2.0)
Majority == {g \in Exec : judgeGroup'[g] # {} /\ 2 * Cardinality(judgeGroup'[g]) >= N}

Least(score) == {e \in Exec : \A f \in Exec : score[e] <= score[f]}

\* The executors with the fewest failures, or else the longest in service.
Preferred ==
  LET steady == Least(scores.failcountList)
  IN IF scores.judgeRule = "weight" /\ Cardinality(steady) = 1
     THEN steady
     ELSE Least(scores.uptimelist)

\* A single preferred one wins; among several a random index is drawn, and
\* used as an index into all the data.
timeOrWeightJudge ==
  IF Cardinality(Preferred) = 1 THEN Preferred ELSE 1..Cardinality(Preferred)

\* A compare record names e, of the group g leads, as different: from the
\* result or, when the rule decided, its leader from anybody.
Differs(g, e) ==
  IF judgeType' = "MAJORITY"
  THEN <<judgeResult', e>> \in cmpRetRecord' \/ <<g, judgeResult'>> \in cmpRetRecord'
  ELSE \E f \in Exec : <<g, f>> \in cmpRetRecord'

\* The executors that are reported: members of the groups that another one
\* than the result leads. A vote of one executor has no group.
analyseJudgeResult ==
  IF N = 1 THEN {}
  ELSE {e \in Exec :
          \E g \in Exec \ {judgeResult'} : e \in judgeGroup'[g] /\ Differs(g, e)}

\* Those whose datum differs from the one that won.
Dissenters == {e \in Exec : data[e] # data[judgeResult]}
=============================================================================
