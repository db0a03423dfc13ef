---------------------------- MODULE VoteProofs -----------------------------
(***************************************************************************)
(* Lemmas about the groups, the majority and the report of a vote, for any *)
(* number of executors and any data.                                       *)
(***************************************************************************)
EXTENDS Vote, FiniteSetTheorems, TLAPS

Half(v) == 2 * Cardinality({e \in Exec : data[e] = v}) >= N

\* The groups are the classes of equal data, and every two leaders have been
\* compared in both directions.
Groups ==
  /\ N = 1 => Leaders = {}
  /\ \A g \in Leaders :
       data[g] # NoData /\ judgeGroup[g] = {e \in Exec : data[e] = data[g]}
  /\ N > 1 => \A e \in Here : \E g \in Leaders : data[g] = data[e]
  /\ \A g, h \in Leaders : g # h => data[g] # data[h] /\ <<g, h>> \in cmpRetRecord

VoteType ==
  /\ data = [e \in Exec |-> data[e]]
  /\ judgeGroup \in [Exec -> SUBSET Exec]
  /\ cmpRetRecord \subseteq Exec \X Exec

-----------------------------------------------------------------------------
(* Sizes *)

LEMMA ExecFinite == IsFiniteSet(Exec) /\ Cardinality(Exec) = N
BY NAssumption, FS_Interval DEF Exec

LEMMA ClassSize ==
  ASSUME NEW S \in SUBSET Exec
  PROVE  IsFiniteSet(S) /\ Cardinality(S) \in Nat /\ (Cardinality(S) = 0 <=> S = {})
BY ExecFinite, FS_Subset, FS_CardinalityType, FS_EmptySet

\* Two classes together are not more than all.
LEMMA ClassesDisjoint ==
  ASSUME NEW v, NEW w, v # w
  PROVE  Cardinality({e \in Exec : data[e] = v}) + Cardinality({e \in Exec : data[e] = w}) <= N
<1> DEFINE C == {e \in Exec : data[e] = v}
           D == {e \in Exec : data[e] = w}
<1>1. /\ IsFiniteSet(C) /\ IsFiniteSet(D) /\ IsFiniteSet(C \cup D)
      /\ Cardinality(C) \in Nat /\ Cardinality(D) \in Nat /\ Cardinality(C \cup D) \in Nat
  BY ClassSize
<1>2. C \cap D = {} /\ C \cup D \subseteq Exec
  OBVIOUS
<1>3. Cardinality(C \cup D) = Cardinality(C) + Cardinality(D) - Cardinality(C \cap D)
  BY <1>1, FS_Union
<1>4. Cardinality(C \cup D) <= N
  BY <1>2, ExecFinite, FS_Subset
<1>5. Cardinality(C \cap D) = 0
  BY <1>2, FS_EmptySet
<1>6. Cardinality(C) + Cardinality(D) <= N
  BY <1>1, <1>3, <1>4, <1>5, NAssumption
<1>7. QED
  BY <1>6

\* Two halves are all.
LEMMA HalvesAreAll ==
  ASSUME NEW v, NEW w, v # w, Half(v)', Half(w)', NEW e \in Exec
  PROVE  data'[e] = v \/ data'[e] = w
<1> DEFINE C == {x \in Exec : data'[x] = v}
           D == {x \in Exec : data'[x] = w}
<1>1. /\ IsFiniteSet(C) /\ IsFiniteSet(D) /\ IsFiniteSet(C \cup D)
      /\ Cardinality(C) \in Nat /\ Cardinality(D) \in Nat /\ Cardinality(C \cup D) \in Nat
  BY ClassSize
<1>2. C \cap D = {} /\ C \cup D \subseteq Exec
  OBVIOUS
<1>3. Cardinality(C \cup D) = Cardinality(C) + Cardinality(D) - Cardinality(C \cap D)
  BY <1>1, FS_Union
<1>4. Cardinality(C \cap D) = 0
  BY <1>2, FS_EmptySet
<1>5. 2 * Cardinality(C) >= N /\ 2 * Cardinality(D) >= N
  BY DEF Half
<1>6. Cardinality(C \cup D) >= N
  BY <1>1, <1>3, <1>4, <1>5, NAssumption
<1>7. Cardinality(C \cup D) <= N /\ (Cardinality(C \cup D) = N => C \cup D = Exec)
  BY <1>2, ExecFinite, FS_Subset
<1>8. C \cup D = Exec
  BY <1>1, <1>6, <1>7, NAssumption
<1>9. QED
  BY <1>8

-----------------------------------------------------------------------------
(* Groups *)

LEMMA GroupType ==
  ASSUME VoteType, NEW e \in Exec, Group(e)
  PROVE  judgeGroup' \in [Exec -> SUBSET Exec] /\ cmpRetRecord' \subseteq Exec \X Exec
<1>1. CASE \E g \in Leaders, passed \in SUBSET Leaders :
             /\ judgeGroup' = [judgeGroup EXCEPT ![g] = @ \cup {e}]
             /\ cmpRetRecord' = cmpRetRecord \cup (passed \X {e})
  <2>1. PICK g \in Leaders, passed \in SUBSET Leaders :
          /\ judgeGroup' = [judgeGroup EXCEPT ![g] = @ \cup {e}]
          /\ cmpRetRecord' = cmpRetRecord \cup (passed \X {e})
    BY <1>1
  <2>2. judgeGroup[g] \cup {e} \in SUBSET Exec
    BY DEF VoteType, Leaders
  <2>3. passed \X {e} \subseteq Exec \X Exec
    BY DEF Leaders
  <2>4. QED
    BY <2>1, <2>2, <2>3 DEF VoteType
<1>2. CASE /\ judgeGroup' = [judgeGroup EXCEPT ![e] = {e}]
           /\ cmpRetRecord' = cmpRetRecord \cup (Leaders \X {e}) \cup ({e} \X Leaders)
  BY <1>2 DEF VoteType, Leaders
<1>3. QED
  BY <1>1, <1>2 DEF Group, Agreeing

\* The new datum joins its class or starts one, and no leader is lost.
LEMMA GroupsGrow ==
  ASSUME VoteType, Groups, N > 1,
         NEW e \in Exec, NEW v, v # NoData, data[e] = NoData,
         data' = [data EXCEPT ![e] = v], Group(e)
  PROVE  Groups' /\ Leaders \subseteq Leaders'
<1>1. /\ data = [x \in Exec |-> data[x]] /\ v # NoData
      /\ judgeGroup \in [Exec -> SUBSET Exec]
  BY DEF VoteType
<1>2. data'[e] = v /\ \A x \in Exec : x # e => data'[x] = data[x]
  BY <1>1
<1>3. \A g \in Leaders : g \in Exec /\ g # e /\ data'[g] = data[g]
  BY <1>2 DEF Groups, Leaders
<1>4. Here' = Here \cup {e}
  BY <1>1, <1>2 DEF Here
<1>5. CASE \E g \in Leaders, passed \in SUBSET Exec :
             /\ data[g] = v
             /\ judgeGroup' = [judgeGroup EXCEPT ![g] = @ \cup {e}]
             /\ cmpRetRecord' = cmpRetRecord \cup (passed \X {e})
  <2>1. PICK g \in Leaders : /\ data[g] = v
                             /\ judgeGroup' = [judgeGroup EXCEPT ![g] = @ \cup {e}]
                             /\ cmpRetRecord \subseteq cmpRetRecord'
    BY <1>5
  <2>2. judgeGroup'[g] = judgeGroup[g] \cup {e}
        /\ \A h \in Exec : h # g => judgeGroup'[h] = judgeGroup[h]
    BY <1>1, <1>3, <2>1
  <2>3. Leaders' = Leaders
    BY <2>1, <2>2 DEF Leaders
  <2>4. judgeGroup'[g] = {x \in Exec : data'[x] = data'[g]}
    BY <1>2, <1>3, <2>1, <2>2 DEF Groups
  <2>5. \A h \in Leaders : h # g => judgeGroup'[h] = {x \in Exec : data'[x] = data'[h]}
    <3>1. SUFFICES ASSUME NEW h \in Leaders, h # g
                   PROVE  judgeGroup'[h] = {x \in Exec : data'[x] = data'[h]}
      OBVIOUS
    <3>2. data[h] # v /\ judgeGroup[h] = {x \in Exec : data[x] = data[h]}
          /\ data[h] # NoData
      BY <2>1, <3>1 DEF Groups
    <3>3. \A x \in Exec : data'[x] = data'[h] <=> data[x] = data[h]
      BY <1>2, <1>3, <3>1, <3>2
    <3>4. QED
      BY <1>3, <2>2, <3>1, <3>2, <3>3
  <2>6. \A x \in Here' : \E h \in Leaders : data'[h] = data'[x]
    BY <1>2, <1>3, <1>4, <2>1 DEF Groups, Here
  <2>7. \A h, k \in Leaders : h # k => data'[h] # data'[k] /\ <<h, k>> \in cmpRetRecord'
    BY <1>3, <2>1 DEF Groups
  <2>8. \A h \in Leaders : data'[h] # NoData
    BY <1>3 DEF Groups
  <2>9. QED
    BY <2>3, <2>4, <2>5, <2>6, <2>7, <2>8 DEF Groups
<1>6. CASE /\ \A g \in Leaders : data[g] # v
           /\ judgeGroup' = [judgeGroup EXCEPT ![e] = {e}]
           /\ cmpRetRecord' = cmpRetRecord \cup (Leaders \X {e}) \cup ({e} \X Leaders)
  <2>1. judgeGroup'[e] = {e} /\ \A h \in Exec : h # e => judgeGroup'[h] = judgeGroup[h]
    BY <1>1, <1>6
  <2>2. Leaders' = Leaders \cup {e}
    BY <2>1 DEF Leaders
  <2>3. \A x \in Exec : data[x] # v
    BY <1>1, <1>6 DEF Groups, Here
  <2>4. {x \in Exec : data'[x] = data'[e]} = {e}
    BY <1>2, <2>3
  <2>5. \A h \in Leaders : judgeGroup'[h] = {x \in Exec : data'[x] = data'[h]}
    <3>1. SUFFICES ASSUME NEW h \in Leaders
                   PROVE  judgeGroup'[h] = {x \in Exec : data'[x] = data'[h]}
      OBVIOUS
    <3>2. data[h] # v /\ judgeGroup[h] = {x \in Exec : data[x] = data[h]}
          /\ data[h] # NoData
      BY <1>6, <3>1 DEF Groups
    <3>3. \A x \in Exec : data'[x] = data'[h] <=> data[x] = data[h]
      BY <1>2, <1>3, <3>1, <3>2
    <3>4. QED
      BY <1>3, <2>1, <3>1, <3>2, <3>3
  <2>6. \A x \in Here' : \E h \in Leaders' : data'[h] = data'[x]
    BY <1>2, <1>3, <1>4, <2>2 DEF Groups, Here
  <2>7. \A h, k \in Leaders' : h # k => data'[h] # data'[k] /\ <<h, k>> \in cmpRetRecord'
    <3>1. SUFFICES ASSUME NEW h \in Leaders', NEW k \in Leaders', h # k
                   PROVE  data'[h] # data'[k] /\ <<h, k>> \in cmpRetRecord'
      OBVIOUS
    <3>2. CASE h = e
      BY <1>2, <1>3, <1>6, <2>2, <3>1, <3>2
    <3>3. CASE k = e
      BY <1>2, <1>3, <1>6, <2>2, <3>1, <3>3
    <3>4. CASE h # e /\ k # e
      BY <1>3, <1>6, <2>2, <3>1, <3>4 DEF Groups
    <3>5. QED
      BY <3>2, <3>3, <3>4
  <2>8. \A h \in Leaders' : data'[h] # NoData
    BY <1>1, <1>2, <1>3, <2>2 DEF Groups
  <2>9. QED
    BY <1>2, <2>1, <2>2, <2>4, <2>5, <2>6, <2>7, <2>8 DEF Groups
<1>7. QED
  <2>1. Leaders \subseteq Exec
    BY DEF Leaders
  <2>2. \A g \in Leaders : data[g] = data'[e] <=> data[g] = v
    BY <1>2
  <2>3. CASE \E g \in Leaders : data[g] = v
    <3>1. PICK g \in Leaders, passed \in SUBSET Leaders :
            /\ data[g] = v
            /\ judgeGroup' = [judgeGroup EXCEPT ![g] = @ \cup {e}]
            /\ cmpRetRecord' = cmpRetRecord \cup (passed \X {e})
      BY <2>2, <2>3 DEF Group, Agreeing
    <3>2. passed \in SUBSET Exec
      BY <2>1
    <3>3. Groups'
      BY <1>5, <3>1, <3>2
    <3>4. Leaders \subseteq Leaders'
      BY <1>1, <1>3, <3>1 DEF Leaders
    <3>5. QED
      BY <3>3, <3>4
  <2>4. CASE \A g \in Leaders : data[g] # v
    <3>1. /\ judgeGroup' = [judgeGroup EXCEPT ![e] = {e}]
          /\ cmpRetRecord' = cmpRetRecord \cup (Leaders \X {e}) \cup ({e} \X Leaders)
      BY <2>2, <2>4 DEF Group, Agreeing
    <3>2. Leaders \subseteq Leaders'
      BY <1>1, <1>3, <3>1 DEF Leaders
    <3>3. QED
      BY <1>6, <2>4, <3>1, <3>2
  <2>5. QED
    BY <2>3, <2>4

\* A group is large enough exactly when that many requests say the same.
LEMMA MajorityHalf ==
  ASSUME Groups', N > 1, NEW v, v # NoData
  PROVE  (\E g \in Majority : data'[g] = v) <=> Half(v)'
<1>1. v # NoData
  OBVIOUS
<1>2. ASSUME NEW g \in Majority, data'[g] = v PROVE Half(v)'
  <2>1. g \in Leaders' /\ 2 * Cardinality(judgeGroup'[g]) >= N
    BY DEF Majority, Leaders
  <2>2. judgeGroup'[g] = {e \in Exec : data'[e] = v}
    BY <1>2, <2>1 DEF Groups
  <2>3. QED
    BY <2>1, <2>2 DEF Half
<1>3. ASSUME Half(v)' PROVE \E g \in Majority : data'[g] = v
  <2> DEFINE C == {e \in Exec : data'[e] = v}
  <2>1. 2 * Cardinality(C) >= N
    BY <1>3 DEF Half
  <2>2. Cardinality(C) \in Nat /\ (Cardinality(C) = 0 <=> C = {})
    BY ClassSize
  <2>3. C # {}
    BY <2>1, <2>2, NAssumption
  <2>4. PICK e \in Exec : data'[e] = v
    BY <2>3
  <2>5. PICK g \in Leaders' : data'[g] = v
    BY <1>1, <2>4 DEF Groups, Here
  <2>6. judgeGroup'[g] = C /\ g \in Exec
    BY <2>5 DEF Groups, Leaders
  <2>7. g \in Majority
    BY <2>1, <2>3, <2>6 DEF Majority
  <2>8. QED
    BY <2>5, <2>7
<1>4. QED
  BY <1>2, <1>3

\* More copies keep a half a half.
LEMMA HalfGrows ==
  ASSUME \A x \in Here : data'[x] = data[x], NEW v, v # NoData, Half(v)
  PROVE  2 * Cardinality({x \in Exec : data'[x] = v}) >= N
<1> DEFINE C == {x \in Exec : data[x] = v}
           D == {x \in Exec : data'[x] = v}
<1>1. v # NoData
  OBVIOUS
<1>2. C \subseteq D
  BY <1>1 DEF Here
<1>3. IsFiniteSet(D) /\ Cardinality(C) \in Nat /\ Cardinality(D) \in Nat
  BY ClassSize
<1>4. Cardinality(C) <= Cardinality(D)
  BY <1>2, <1>3, FS_Subset
<1>5. 2 * Cardinality(C) >= N
  BY DEF Half
<1>6. 2 * Cardinality(D) >= N
  BY <1>3, <1>4, <1>5, NAssumption
<1>7. QED
  BY <1>6

\* The executors timeOrWeightJudge may name are executors.
LEMMA PreferredExec == timeOrWeightJudge \subseteq Exec
<1>1. Preferred \subseteq Exec
  BY DEF Preferred, Least
<1>2. IsFiniteSet(1..N) /\ Cardinality(1..N) = N
  BY NAssumption, FS_Interval
<1>3. Cardinality(Preferred) <= N /\ Cardinality(Preferred) \in Nat
  BY <1>1, <1>2, FS_Subset, FS_CardinalityType DEF Exec
<1>4. 1..Cardinality(Preferred) \subseteq 1..N
  BY <1>3, NAssumption
<1>5. QED
  BY <1>1, <1>4 DEF timeOrWeightJudge, Exec

\* Without a half, groups of at most four executors have one member each,
\* who leads it.
LEMMA LeaderWins ==
  ASSUME Groups, N > 1, N <= 4, NEW e \in Here, ~Half(data[e])
  PROVE  e \in Leaders
<1> DEFINE C == {x \in Exec : data[x] = data[e]}
<1>1. IsFiniteSet(C) /\ Cardinality(C) \in Nat /\ (Cardinality(C) = 0 <=> C = {})
  BY ClassSize
<1>2. e \in C
  BY DEF Here
<1>3. Cardinality(C) = 1
  <2>1. 2 * Cardinality(C) < N
    BY <1>1, NAssumption DEF Half
  <2>2. QED
    BY <1>1, <1>2, <2>1, NAssumption
<1>4. PICK x : C = {x}
  BY <1>1, <1>3, FS_Singleton
<1>5. PICK g \in Leaders : data[g] = data[e]
  BY DEF Groups
<1>6. g \in C
  BY <1>5 DEF Leaders
<1>7. QED
  BY <1>2, <1>4, <1>5, <1>6

\* When all data are in and the result leads its group, the report names
\* exactly the dissenters: every leader was compared with the result.
LEMMA ReportExact ==
  ASSUME Groups', Complete', judgeResult' \in Exec, N > 1 => judgeResult' \in Leaders'
  PROVE  analyseJudgeResult = Dissenters'
<1>1. CASE N = 1
  <2>1. \A e \in Exec : e = judgeResult'
    BY <1>1 DEF Exec
  <2>2. QED
    BY <1>1, <2>1 DEF analyseJudgeResult, Dissenters
<1>2. CASE N # 1
  <2>1. N > 1 /\ judgeResult' \in Leaders'
    BY <1>2, NAssumption
  <2>2. analyseJudgeResult =
          {e \in Exec :
             \E g \in Exec \ {judgeResult'} : e \in judgeGroup'[g] /\ Differs(g, e)}
    BY <1>2 DEF analyseJudgeResult
  <2>3. ASSUME NEW e \in analyseJudgeResult PROVE e \in Dissenters'
    <3>1. PICK g \in Exec \ {judgeResult'} : e \in judgeGroup'[g]
      BY <2>2, <2>3
    <3>2. g \in Leaders' /\ e \in Exec
      BY <2>2, <2>3, <3>1 DEF Leaders
    <3>3. data'[g] # data'[judgeResult']
      BY <2>1, <3>1, <3>2 DEF Groups
    <3>4. judgeGroup'[g] = {x \in Exec : data'[x] = data'[g]}
      BY <3>2 DEF Groups
    <3>5. data'[e] = data'[g]
      BY <3>1, <3>4
    <3>6. QED
      BY <3>2, <3>3, <3>5 DEF Dissenters
  <2>4. ASSUME NEW e \in Dissenters' PROVE e \in analyseJudgeResult
    <3>1. e \in Exec /\ data'[e] # data'[judgeResult']
      BY DEF Dissenters
    <3>2. PICK g \in Leaders' : data'[g] = data'[e]
      BY <2>1, <3>1 DEF Groups, Complete
    <3>3. g \in Exec \ {judgeResult'} /\ e \in judgeGroup'[g]
      BY <3>1, <3>2 DEF Groups, Leaders
    <3>4. <<g, judgeResult'>> \in cmpRetRecord'
      BY <2>1, <3>2, <3>3 DEF Groups
    <3>5. Differs(g, e)
      BY <3>4 DEF Differs
    <3>6. QED
      BY <2>2, <3>1, <3>3, <3>5
  <2>5. QED
    BY <2>3, <2>4
<1>3. QED
  BY <1>1, <1>2
=============================================================================
