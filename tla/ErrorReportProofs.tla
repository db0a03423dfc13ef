------------------------- MODULE ErrorReportProofs -------------------------
(* Theorems about ErrorReport, for any threads, addresses and limit. *)
EXTENDS ErrorReport, FiniteSetTheorems, TLAPS

\* A thread works on an address exactly in the middle of the loop, not on one
\* it has yet to take, and from the second look on the counter is there.
Working ==
  \A t \in Thread :
    /\ ele[t] # None <=> stage[t] \notin {"idle", "find"}
    /\ stage[t] = "idle" => rest[t] = {}
    /\ ele[t] \notin rest[t]
    /\ ele[t] # None /\ stage[t] # "insert" => judgeErrNum[ele[t]] # Absent

\* The threads that have a vote of address a they did not count yet.
Uncounted(a) == {t \in Thread : a \in rest[t] \/ ele[t] = a}

\* Unless the address has lost enough votes anyway, neither its counter nor
\* what a thread is going to put there is more than the votes counted.
NoneTwice ==
  \A a \in Addr :
    \/ votes[a] > Limit
    \/ /\ Cardinality(Uncounted(a)) <= votes[a]
       /\ judgeErrNum[a] # Absent => judgeErrNum[a] + Cardinality(Uncounted(a)) <= votes[a]
       /\ \A t \in Thread :
            ele[t] = a /\ stage[t] = "store" => got[t] + Cardinality(Uncounted(a)) <= votes[a]

ClearEarned == \A t \in Thread : stage[t] = "clear" => votes[ele[t]] > Limit

Inv == TypeOK /\ Working /\ NoneTwice /\ ClearEarned /\ ReportsEarned

-----------------------------------------------------------------------------
LEMMA UncountedNat ==
  ASSUME NEW a
  PROVE  IsFiniteSet(Uncounted(a)) /\ Cardinality(Uncounted(a)) \in Nat
  BY ThreadAssumption, FS_Subset, FS_CardinalityType, Uncounted(a) \in SUBSET Thread DEF Uncounted

LEMMA CountedRange ==
  ASSUME NEW n \in Nat
  PROVE  Counted(n) \in 0..Limit /\ Counted(n) <= n
  BY LimitAssumption DEF Counted

\* Whoever works on an address has a vote of it uncounted.
LEMMA WorkerCounts ==
  ASSUME TypeOK, NEW t \in Thread, ele[t] \in Addr
  PROVE  Cardinality(Uncounted(ele[t])) >= 1
  <1>1. t \in Uncounted(ele[t])
    BY DEF Uncounted
  <1> QED
    BY <1>1, UncountedNat, FS_EmptySet

\* A write takes the thread from those that did not count its address, and
\* leaves the others alone.
LEMMA WriteCounts ==
  ASSUME TypeOK, Working, NEW t \in Thread, ele[t] \in Addr, NEW n, Write(t, n), NEW a \in Addr
  PROVE  Cardinality(Uncounted(a)') =
           IF a = ele[t] THEN Cardinality(Uncounted(a)) - 1 ELSE Cardinality(Uncounted(a))
  <1>1. CASE a = ele[t]
    <2>1. Uncounted(a)' = Uncounted(a) \ {t} /\ t \in Uncounted(a)
      BY <1>1, AddrAssumption DEF Uncounted, Write, Working, TypeOK
    <2> QED
      BY <1>1, <2>1, UncountedNat, FS_RemoveElement
  <1>2. CASE a # ele[t]
    <2>1. Uncounted(a)' = Uncounted(a)
      BY <1>2, AddrAssumption DEF Uncounted, Write, Working, TypeOK
    <2> QED
      BY <1>2, <2>1
  <1> QED
    BY <1>1, <1>2

\* A write of no more than the vote it counts adds keeps the counters honest.
LEMMA WriteHonest ==
  ASSUME Inv, NEW t \in Thread, ele[t] \in Addr, NEW n \in 0..Limit, Write(t, n),
         votes[ele[t]] > Limit \/ n + Cardinality(Uncounted(ele[t])) <= votes[ele[t]] + 1
  PROVE  NoneTwice'
  <1> SUFFICES ASSUME NEW a \in Addr, votes'[a] <= Limit
               PROVE  /\ Cardinality(Uncounted(a)') <= votes'[a]
                      /\ judgeErrNum'[a] # Absent =>
                           judgeErrNum'[a] + Cardinality(Uncounted(a)') <= votes'[a]
                      /\ \A u \in Thread : ele'[u] = a /\ stage'[u] = "store" =>
                           got'[u] + Cardinality(Uncounted(a)') <= votes'[a]
    <2>1. votes' = votes /\ votes \in [Addr -> 0..Limit + 1]
      BY DEF Write, Inv, TypeOK
    <2> QED
      BY <2>1, LimitAssumption DEF NoneTwice, Uncounted
  <1> DEFINE card == Cardinality(Uncounted(a))
             cardp == Cardinality(Uncounted(a)')
  <1>1. card \in Nat
    BY UncountedNat
  <1>2. cardp = IF a = ele[t] THEN card - 1 ELSE card
    BY WriteCounts DEF Inv
  <1>3. votes' = votes /\ votes[a] \in 0..Limit + 1 /\ Limit \in Nat
    BY LimitAssumption DEF Write, Inv, TypeOK
  <1>4. /\ card <= votes[a]
        /\ judgeErrNum[a] # Absent => judgeErrNum[a] + card <= votes[a]
        /\ \A u \in Thread : ele[u] = a /\ stage[u] = "store" => got[u] + card <= votes[a]
    BY <1>3 DEF Inv, NoneTwice
  <1>5. judgeErrNum[a] \in {Absent} \cup 0..Limit /\ got \in [Thread -> 0..Limit]
    BY DEF Inv, TypeOK
  <1>6. judgeErrNum'[a] = IF a = ele[t] THEN n ELSE judgeErrNum[a]
    BY DEF Write, Inv, TypeOK
  <1>7. a = ele[t] => n + card <= votes[a] + 1
    BY <1>3
  <1>8. \A u \in Thread : ele'[u] = a /\ stage'[u] = "store" =>
          ele[u] = a /\ stage[u] = "store" /\ got'[u] = got[u]
    BY DEF Write, Inv, TypeOK
  <1> HIDE DEF card, cardp
  <1>9. cardp <= votes'[a] /\ (judgeErrNum'[a] # Absent => judgeErrNum'[a] + cardp <= votes'[a])
    BY <1>1, <1>2, <1>3, <1>4, <1>5, <1>6, <1>7
  <1>10. \A u \in Thread : ele'[u] = a /\ stage'[u] = "store" => got'[u] + cardp <= votes'[a]
    BY <1>1, <1>2, <1>3, <1>4, <1>5, <1>8
  <1> QED
    BY <1>9, <1>10 DEF card, cardp

\* A write keeps the rest of the invariant.
LEMMA WriteKeeps ==
  ASSUME Inv, NEW t \in Thread, ele[t] \in Addr, NEW n \in 0..Limit, Write(t, n),
         data1' \in [Thread -> SUBSET Addr]
  PROVE  TypeOK' /\ Working' /\ ClearEarned'
  <1>1. TypeOK'
    <2>1. judgeErrNum' \in [Addr -> {Absent} \cup 0..Limit]
      BY DEF Inv, TypeOK, Write
    <2>2. stage' \in [Thread -> Stage] /\ ele' \in [Thread -> Addr \cup {None}]
      BY DEF Inv, TypeOK, Write, Stage
    <2>3. got' \in [Thread -> 0..Limit]
      BY LimitAssumption DEF Inv, TypeOK, Write
    <2> QED
      BY <2>1, <2>2, <2>3 DEF Inv, TypeOK, Write, schedule
  <1>2. Working'
    <2> SUFFICES ASSUME NEW u \in Thread
                 PROVE /\ ele'[u] # None <=> stage'[u] \notin {"idle", "find"}
                       /\ stage'[u] = "idle" => rest'[u] = {}
                       /\ ele'[u] \notin rest'[u]
                       /\ ele'[u] # None /\ stage'[u] # "insert" => judgeErrNum'[ele'[u]] # Absent
      BY DEF Working
    <2>1. n # Absent
      BY LimitAssumption
    <2>2. CASE u = t
      BY <2>2, AddrAssumption DEF Write, Inv, TypeOK, Working
    <2>3. CASE u # t
      BY <2>1, <2>3 DEF Write, Inv, TypeOK, Working
    <2> QED
      BY <2>2, <2>3
  <1>3. ClearEarned'
    BY DEF Write, Inv, TypeOK, ClearEarned
  <1> QED
    BY <1>1, <1>2, <1>3

-----------------------------------------------------------------------------
LEMMA Initially == Init => Inv
  <1> SUFFICES ASSUME Init PROVE Inv
    OBVIOUS
  <1>1. TypeOK
    BY LimitAssumption DEF Init, TypeOK, Stage
  <1>2. Working
    BY AddrAssumption DEF Init, Working
  <1>3. NoneTwice
    <2>1. \A a \in Addr : Uncounted(a) = {}
      BY AddrAssumption DEF Init, Uncounted
    <2>2. \A a \in Addr : Cardinality(Uncounted(a)) = 0
      BY <2>1, FS_EmptySet
    <2> QED
      BY <2>2, AddrAssumption DEF Init, NoneTwice
  <1>4. ClearEarned /\ ReportsEarned
    BY DEF Init, ClearEarned, ReportsEarned
  <1> QED
    BY <1>1, <1>2, <1>3, <1>4 DEF Inv

\* A vote adds one to the votes of its losers and one thread to those that did
\* not count them.
LEMMA LoseStep ==
  ASSUME Inv, NEW t \in Thread, NEW D \in SUBSET Addr, Lose(t, D)
  PROVE  Inv'
  <1>1. TypeOK'
    BY LimitAssumption DEF Inv, TypeOK, Lose, Stage, schedule
  <1>2. Working'
    BY AddrAssumption DEF Inv, TypeOK, Lose, Working
  <1>3. \A a \in Addr : votes'[a] = IF a \in D /\ votes[a] <= Limit THEN votes[a] + 1 ELSE votes[a]
    BY DEF Lose
  <1>4. \A a \in Addr : votes[a] \in 0..Limit + 1
    BY DEF Inv, TypeOK
  <1>5. ClearEarned'
    <2>1. \A u \in Thread : stage'[u] = "clear" => stage[u] = "clear" /\ ele'[u] = ele[u] /\ ele[u] \in Addr
      BY DEF Inv, TypeOK, Working, Lose
    <2> QED
      BY <1>3, <1>4, <2>1, LimitAssumption DEF Inv, ClearEarned
  <1>6. ReportsEarned'
    <2>1. sent' = sent /\ value' = value /\ data1' = data1
      BY DEF Lose, schedule
    <2>2. \A m \in sent \cup {value} \cup {data1[u] : u \in Thread} : m \subseteq Addr
      BY DEF Inv, TypeOK
    <2>3. \A a \in Addr : votes[a] > Limit => votes'[a] > Limit
      BY <1>3, <1>4, LimitAssumption
    <2> QED
      BY <2>1, <2>2, <2>3 DEF Inv, ReportsEarned
  <1>7. NoneTwice'
    <2> SUFFICES ASSUME NEW a \in Addr, votes'[a] <= Limit
                 PROVE  /\ Cardinality(Uncounted(a)') <= votes'[a]
                        /\ judgeErrNum'[a] # Absent =>
                             judgeErrNum'[a] + Cardinality(Uncounted(a)') <= votes'[a]
                        /\ \A u \in Thread : ele'[u] = a /\ stage'[u] = "store" =>
                             got'[u] + Cardinality(Uncounted(a)') <= votes'[a]
      <3>1. votes' \in [Addr -> 0..Limit + 1]
        BY <1>1 DEF TypeOK
      <3> QED
        BY <3>1, LimitAssumption DEF NoneTwice, Uncounted
    <2> DEFINE card == Cardinality(Uncounted(a))
               cardp == Cardinality(Uncounted(a)')
    <2>1. card \in Nat
      BY UncountedNat
    <2>2. cardp = IF a \in D THEN card + 1 ELSE card
      <3>1. rest[t] = {} /\ ele[t] = None
        BY DEF Inv, Working, Lose
      <3>2. Uncounted(a)' = IF a \in D THEN Uncounted(a) \cup {t} ELSE Uncounted(a)
        BY <3>1, AddrAssumption DEF Lose, Inv, TypeOK, Uncounted
      <3>3. t \notin Uncounted(a)
        BY <3>1, AddrAssumption DEF Uncounted
      <3> QED
        BY <3>2, <3>3, UncountedNat, FS_AddElement
    <2>3. votes[a] <= Limit /\ votes'[a] = IF a \in D THEN votes[a] + 1 ELSE votes[a]
      BY <1>3, <1>4, LimitAssumption
    <2>4. /\ card <= votes[a]
          /\ judgeErrNum[a] # Absent => judgeErrNum[a] + card <= votes[a]
          /\ \A u \in Thread : ele[u] = a /\ stage[u] = "store" => got[u] + card <= votes[a]
      BY <1>4, <2>3, LimitAssumption DEF Inv, NoneTwice
    <2>5. /\ judgeErrNum' = judgeErrNum /\ ele' = ele /\ got' = got
          /\ \A u \in Thread : stage'[u] = "store" => stage[u] = "store"
      BY DEF Lose, Inv, TypeOK
    <2>6. judgeErrNum[a] \in {Absent} \cup 0..Limit /\ got \in [Thread -> 0..Limit]
      BY DEF Inv, TypeOK
    <2> HIDE DEF card, cardp
    <2>7. /\ cardp <= votes'[a]
          /\ judgeErrNum'[a] # Absent => judgeErrNum'[a] + cardp <= votes'[a]
          /\ \A u \in Thread : ele'[u] = a /\ stage'[u] = "store" => got'[u] + cardp <= votes'[a]
      BY <1>4, <2>1, <2>2, <2>3, <2>4, <2>5, <2>6, LimitAssumption
    <2> QED
      BY <2>7 DEF card, cardp
  <1> QED
    BY <1>1, <1>2, <1>5, <1>6, <1>7 DEF Inv

\* A step that changes neither counters nor votes nor who has what to count.
LEMMA CountsKept ==
  ASSUME Inv, judgeErrNum' = judgeErrNum, votes' = votes,
         \A a \in Addr, t \in Thread : (a \in rest'[t] \/ ele'[t] = a) <=> (a \in rest[t] \/ ele[t] = a),
         \A t \in Thread : stage'[t] = "store" =>
           ele'[t] = ele[t] /\ ((stage[t] = "store" /\ got'[t] = got[t])
                                \/ (judgeErrNum[ele[t]] # Absent /\ got'[t] = judgeErrNum[ele[t]]))
  PROVE  NoneTwice'
  <1> SUFFICES ASSUME NEW a \in Addr
               PROVE  \/ votes[a] > Limit
                      \/ /\ Cardinality(Uncounted(a)) <= votes[a]
                         /\ judgeErrNum[a] # Absent =>
                              judgeErrNum[a] + Cardinality(Uncounted(a)) <= votes[a]
                         /\ \A t \in Thread : ele'[t] = a /\ stage'[t] = "store" =>
                              got'[t] + Cardinality(Uncounted(a)) <= votes[a]
    <2>1. \A a \in Addr : Uncounted(a)' = Uncounted(a)
      BY DEF Uncounted
    <2> QED
      BY <2>1 DEF NoneTwice, Uncounted
  <1> QED
    BY DEF Inv, NoneTwice

\* Whoever is reported has more votes than the limit, after every step of the
\* loop.
LEMMA ReportsKept ==
  ASSUME Inv, votes' = votes,
         \A m \in sent' : m \in sent \/ \E t \in Thread : m = data1[t],
         value' \in {value, {}} \cup sent \/ value' \subseteq value,
         \A t \in Thread : data1'[t] \in {data1[t], {}}
                         \/ (data1'[t] = data1[t] \cup {ele[t]} /\ stage[t] = "clear")
  PROVE  ReportsEarned'
  <1> SUFFICES ASSUME NEW m \in sent' \cup {value'} \cup {data1'[t] : t \in Thread}, NEW a \in m
               PROVE  votes[a] > Limit
    BY DEF ReportsEarned
  <1>1. \A k \in sent \cup {value} \cup {data1[t] : t \in Thread} : \A b \in k : votes[b] > Limit
    BY DEF Inv, ReportsEarned
  <1>2. CASE m \in sent'
    BY <1>1, <1>2
  <1>3. CASE m = value'
    BY <1>1, <1>3
  <1>4. CASE m \in {data1'[t] : t \in Thread}
    BY <1>1, <1>4 DEF Inv, ClearEarned
  <1> QED
    BY <1>2, <1>3, <1>4

LEMMA FindStep ==
  ASSUME Inv, NEW t \in Thread, NEW a \in Addr, Find(t, a)
  PROVE  Inv'
  <1>1. TypeOK'
    BY DEF Inv, TypeOK, Find, Stage, schedule
  <1>2. Working'
    BY AddrAssumption DEF Inv, TypeOK, Find, Working
  <1>3. NoneTwice'
    <2>1. \A b \in Addr, u \in Thread : (b \in rest'[u] \/ ele'[u] = b) <=> (b \in rest[u] \/ ele[u] = b)
      <3>1. ele[t] = None
        BY DEF Inv, Working, Find
      <3> QED
        BY <3>1, AddrAssumption DEF Inv, TypeOK, Find
    <2>2. \A u \in Thread : stage'[u] = "store" =>
            ele'[u] = ele[u] /\ stage[u] = "store" /\ got'[u] = got[u]
      BY DEF Inv, TypeOK, Find
    <2>3. judgeErrNum' = judgeErrNum /\ votes' = votes
      BY DEF Find
    <2> QED
      BY <2>1, <2>2, <2>3, CountsKept
  <1>4. ClearEarned'
    BY DEF Inv, TypeOK, Find, ClearEarned
  <1>5. ReportsEarned'
    <2>1. votes' = votes /\ sent' = sent /\ value' = value /\ data1' = data1
      BY DEF Find, schedule
    <2> QED
      BY <2>1, ReportsKept
  <1> QED
    BY <1>1, <1>2, <1>3, <1>4, <1>5 DEF Inv

LEMMA InsertStep ==
  ASSUME Inv, NEW t \in Thread, Insert(t)
  PROVE  Inv'
  <1> DEFINE n == IF judgeErrNum[ele[t]] = Absent THEN Counted(1) ELSE judgeErrNum[ele[t]]
  <1>1. ele[t] \in Addr
    BY DEF Inv, TypeOK, Working, Insert
  <1>2. n \in 0..Limit /\ Write(t, n) /\ data1' = data1
    BY <1>1, CountedRange DEF Inv, TypeOK, Insert
  <1>3. votes[ele[t]] > Limit \/ n + Cardinality(Uncounted(ele[t])) <= votes[ele[t]] + 1
    <2>1. CASE judgeErrNum[ele[t]] = Absent
      <3>1. n <= 1 /\ n \in Nat
        BY <1>2, <2>1, CountedRange
      <3>2. votes[ele[t]] > Limit \/ Cardinality(Uncounted(ele[t])) <= votes[ele[t]]
        BY <1>1 DEF Inv, NoneTwice
      <3>3. Cardinality(Uncounted(ele[t])) \in Nat /\ votes[ele[t]] \in 0..Limit + 1
        BY <1>1, UncountedNat DEF Inv, TypeOK
      <3> HIDE DEF n
      <3> QED
        BY <3>1, <3>2, <3>3, LimitAssumption
    <2>2. CASE judgeErrNum[ele[t]] # Absent
      <3>1. votes[ele[t]] > Limit \/ n + Cardinality(Uncounted(ele[t])) <= votes[ele[t]]
        BY <1>1, <2>2 DEF Inv, NoneTwice
      <3>2. Cardinality(Uncounted(ele[t])) \in Nat /\ votes[ele[t]] \in 0..Limit + 1
        BY <1>1, UncountedNat DEF Inv, TypeOK
      <3> HIDE DEF n
      <3> QED
        BY <1>2, <3>1, <3>2, LimitAssumption
    <2> QED
      BY <2>1, <2>2
  <1> HIDE DEF n
  <1>4. NoneTwice' /\ TypeOK' /\ Working' /\ ClearEarned'
    BY <1>1, <1>2, <1>3, WriteHonest, WriteKeeps DEF Inv, TypeOK
  <1>5. ReportsEarned'
    <2>1. votes' = votes /\ sent' = sent /\ value' = value /\ data1' = data1
      BY <1>2 DEF Write, schedule
    <2> QED
      BY <2>1, ReportsKept
  <1> QED
    BY <1>4, <1>5 DEF Inv

LEMMA CompareStep ==
  ASSUME Inv, NEW t \in Thread, Compare(t)
  PROVE  Inv'
  <1>1. TypeOK'
    BY DEF Inv, TypeOK, Compare, Stage, schedule
  <1>2. Working'
    BY AddrAssumption DEF Inv, TypeOK, Compare, Working
  <1>3. NoneTwice'
    <2>1. \A b \in Addr, u \in Thread : (b \in rest'[u] \/ ele'[u] = b) <=> (b \in rest[u] \/ ele[u] = b)
      BY DEF Compare
    <2>2. \A u \in Thread : stage'[u] = "store" =>
            ele'[u] = ele[u] /\ stage[u] = "store" /\ got'[u] = got[u]
      BY DEF Inv, TypeOK, Compare
    <2>3. judgeErrNum' = judgeErrNum /\ votes' = votes
      BY DEF Compare
    <2> QED
      BY <2>1, <2>2, <2>3, CountsKept
  <1>4. ClearEarned'
    <2>1. ele[t] \in Addr /\ judgeErrNum[ele[t]] \in 0..Limit
      BY DEF Inv, TypeOK, Working, Compare
    <2>2. stage'[t] = "clear" => judgeErrNum[ele[t]] = Limit
      BY <2>1, LimitAssumption DEF Inv, TypeOK, Compare
    <2>3. stage'[t] = "clear" => votes[ele[t]] > Limit
      <3>1. Cardinality(Uncounted(ele[t])) \in Nat /\ Cardinality(Uncounted(ele[t])) >= 1
        BY <2>1, WorkerCounts, UncountedNat DEF Inv
      <3>2. \/ votes[ele[t]] > Limit
            \/ judgeErrNum[ele[t]] # Absent =>
                 judgeErrNum[ele[t]] + Cardinality(Uncounted(ele[t])) <= votes[ele[t]]
        BY <2>1 DEF Inv, NoneTwice
      <3>3. votes[ele[t]] \in 0..Limit + 1
        BY <2>1 DEF Inv, TypeOK
      <3> QED
        BY <2>1, <2>2, <3>1, <3>2, <3>3, LimitAssumption
    <2> QED
      BY <2>3 DEF Inv, TypeOK, Compare, ClearEarned
  <1>5. ReportsEarned'
    <2>1. votes' = votes /\ sent' = sent /\ value' = value /\ data1' = data1
      BY DEF Compare, schedule
    <2> QED
      BY <2>1, ReportsKept
  <1> QED
    BY <1>1, <1>2, <1>3, <1>4, <1>5 DEF Inv

LEMMA FetchStep ==
  ASSUME Inv, NEW t \in Thread, Fetch(t)
  PROVE  Inv'
  <1>0. ele[t] \in Addr /\ judgeErrNum[ele[t]] \in 0..Limit /\ judgeErrNum[ele[t]] # Absent
    BY DEF Inv, TypeOK, Working, Fetch
  <1>1. TypeOK'
    BY <1>0 DEF Inv, TypeOK, Fetch, Stage, schedule
  <1>2. Working'
    BY AddrAssumption DEF Inv, TypeOK, Fetch, Working
  <1>3. NoneTwice'
    <2>1. \A b \in Addr, u \in Thread : (b \in rest'[u] \/ ele'[u] = b) <=> (b \in rest[u] \/ ele[u] = b)
      BY DEF Fetch
    <2>2. \A u \in Thread : stage'[u] = "store" =>
            ele'[u] = ele[u] /\ ((stage[u] = "store" /\ got'[u] = got[u])
                                 \/ (judgeErrNum[ele[u]] # Absent /\ got'[u] = judgeErrNum[ele[u]]))
      <3>1. got'[t] = judgeErrNum[ele[t]] /\ ele' = ele
        BY DEF Inv, TypeOK, Fetch
      <3>2. \A u \in Thread : u # t => got'[u] = got[u] /\ stage'[u] = stage[u]
        BY DEF Inv, TypeOK, Fetch
      <3> QED
        BY <1>0, <3>1, <3>2
    <2>3. judgeErrNum' = judgeErrNum /\ votes' = votes
      BY DEF Fetch
    <2> QED
      BY <2>1, <2>2, <2>3, CountsKept
  <1>4. ClearEarned'
    BY DEF Inv, TypeOK, Fetch, ClearEarned
  <1>5. ReportsEarned'
    <2>1. votes' = votes /\ sent' = sent /\ value' = value /\ data1' = data1
      BY DEF Fetch, schedule
    <2> QED
      BY <2>1, ReportsKept
  <1> QED
    BY <1>1, <1>2, <1>3, <1>4, <1>5 DEF Inv

LEMMA StoreStep ==
  ASSUME Inv, NEW t \in Thread, Store(t)
  PROVE  Inv'
  <1>1. ele[t] \in Addr /\ got[t] \in 0..Limit
    BY DEF Inv, TypeOK, Working, Store
  <1>2. Counted(got[t] + 1) \in 0..Limit /\ Counted(got[t] + 1) <= got[t] + 1
    <2>1. got[t] + 1 \in Nat
      BY <1>1, LimitAssumption
    <2> QED
      BY <2>1, CountedRange
  <1>3. votes[ele[t]] > Limit
        \/ Counted(got[t] + 1) + Cardinality(Uncounted(ele[t])) <= votes[ele[t]] + 1
    <2>1. votes[ele[t]] > Limit \/ got[t] + Cardinality(Uncounted(ele[t])) <= votes[ele[t]]
      BY <1>1 DEF Inv, NoneTwice, Store
    <2>2. Cardinality(Uncounted(ele[t])) \in Nat /\ votes[ele[t]] \in 0..Limit + 1
      BY <1>1, UncountedNat DEF Inv, TypeOK
    <2> QED
      BY <1>1, <1>2, <2>1, <2>2, LimitAssumption
  <1>4. NoneTwice' /\ TypeOK' /\ Working' /\ ClearEarned'
    BY <1>1, <1>2, <1>3, WriteHonest, WriteKeeps DEF Store, Inv, TypeOK
  <1>5. ReportsEarned'
    <2>1. votes' = votes /\ sent' = sent /\ value' = value /\ data1' = data1
      BY DEF Store, Write, schedule
    <2> QED
      BY <2>1, ReportsKept
  <1> QED
    BY <1>4, <1>5 DEF Inv

LEMMA ClearStep ==
  ASSUME Inv, NEW t \in Thread, Clear(t)
  PROVE  Inv'
  <1>1. ele[t] \in Addr /\ votes[ele[t]] > Limit
    BY DEF Inv, TypeOK, Working, Clear, ClearEarned
  <1>2. data1' \in [Thread -> SUBSET Addr]
    BY <1>1 DEF Inv, TypeOK, Clear
  <1>3. 0 \in 0..Limit
    BY LimitAssumption
  <1>4. NoneTwice' /\ TypeOK' /\ Working' /\ ClearEarned'
    BY <1>1, <1>2, <1>3, WriteHonest, WriteKeeps DEF Clear
  <1>5. ReportsEarned'
    <2>1. \A u \in Thread : data1'[u] = data1[u]
                          \/ (data1'[u] = data1[u] \cup {ele[u]} /\ stage[u] = "clear")
      <3>1. data1 \in [Thread -> SUBSET Addr] /\ data1' = [data1 EXCEPT ![t] = @ \cup {ele[t]}]
        BY DEF Inv, TypeOK, Clear
      <3>2. stage[t] = "clear"
        BY DEF Clear
      <3> QED
        BY <3>1, <3>2
    <2>2. votes' = votes /\ sent' = sent /\ value' = value
      BY DEF Clear, Write, schedule
    <2> QED
      BY <2>1, <2>2, ReportsKept
  <1> QED
    BY <1>4, <1>5 DEF Inv

LEMMA SendStep ==
  ASSUME Inv, NEW t \in Thread, Send(t)
  PROVE  Inv'
  <1>1. TypeOK'
    BY DEF Inv, TypeOK, Send, Stage, schedule
  <1>2. Working'
    BY AddrAssumption DEF Inv, TypeOK, Send, Working
  <1>3. NoneTwice'
    <2>1. \A b \in Addr, u \in Thread : (b \in rest'[u] \/ ele'[u] = b) <=> (b \in rest[u] \/ ele[u] = b)
      BY DEF Send
    <2>2. \A u \in Thread : stage'[u] = "store" =>
            ele'[u] = ele[u] /\ stage[u] = "store" /\ got'[u] = got[u]
      BY DEF Inv, TypeOK, Send
    <2>3. judgeErrNum' = judgeErrNum /\ votes' = votes
      BY DEF Send
    <2> QED
      BY <2>1, <2>2, <2>3, CountsKept
  <1>4. ClearEarned'
    BY DEF Inv, TypeOK, Send, ClearEarned
  <1>5. ReportsEarned'
    <2>1. \A u \in Thread : data1'[u] \in {data1[u], {}}
      BY DEF Inv, TypeOK, Send
    <2>2. /\ votes' = votes /\ value' = value
          /\ \A m \in sent' : m \in sent \/ \E u \in Thread : m = data1[u]
      BY DEF Send, schedule
    <2> QED
      BY <2>1, <2>2, ReportsKept
  <1> QED
    BY <1>1, <1>2, <1>3, <1>4, <1>5 DEF Inv

\* Steps outside the loop.
LEMMA OtherStep ==
  ASSUME Inv, UNCHANGED <<judgeErrNum, counting, votes>>,
         sent' \subseteq sent, value' \in {value, {}} \cup sent \/ value' \subseteq value,
         active' \subseteq Exec
  PROVE  Inv'
  <1>1. TypeOK'
    BY DEF Inv, TypeOK, counting
  <1>2. Working' /\ ClearEarned'
    BY DEF Inv, Working, ClearEarned, counting
  <1>3. NoneTwice'
    <2>1. \A b \in Addr, u \in Thread : (b \in rest'[u] \/ ele'[u] = b) <=> (b \in rest[u] \/ ele[u] = b)
      BY DEF counting
    <2>2. \A u \in Thread : stage'[u] = "store" =>
            ele'[u] = ele[u] /\ stage[u] = "store" /\ got'[u] = got[u]
      BY DEF counting
    <2>3. judgeErrNum' = judgeErrNum /\ votes' = votes
      OBVIOUS
    <2> QED
      BY <2>1, <2>2, <2>3, CountsKept
  <1>4. ReportsEarned'
    <2>1. votes' = votes /\ data1' = data1 /\ \A m \in sent' : m \in sent
      BY DEF counting
    <2> QED
      BY <2>1, ReportsKept
  <1> QED
    BY <1>1, <1>2, <1>3, <1>4 DEF Inv

LEMMA Inductive == Inv /\ [Next]_vars => Inv'
  <1> SUFFICES ASSUME Inv, [Next]_vars PROVE Inv'
    OBVIOUS
  <1>1. ASSUME NEW t \in Thread, Counts(t) PROVE Inv'
    BY <1>1, FindStep, InsertStep, CompareStep, FetchStep, StoreStep, ClearStep, SendStep DEF Counts
  <1>2. ASSUME NEW t \in Thread, NEW D \in SUBSET Addr, Lose(t, D) PROVE Inv'
    BY <1>2, LoseStep
  <1>3. ASSUME NEW m \in sent, Drop(m) \/ Receive(m) PROVE Inv'
    <2>1. active' = active /\ sent' = sent \ {m} /\ value' \in {value, m}
      BY <1>3 DEF Drop, Receive, schedule
    <2>2. UNCHANGED <<judgeErrNum, counting, votes>> /\ active \subseteq Exec
      BY <1>3 DEF Drop, Receive, Inv, TypeOK
    <2> QED
      BY <2>1, <2>2, OtherStep
  <1>4. ASSUME NEW a \in Addr, TakeDown(a) \/ CutOff(a) PROVE Inv'
    <2>1. value' \subseteq value /\ sent' = sent /\ UNCHANGED <<judgeErrNum, counting, votes>>
      BY <1>4 DEF TakeDown, CutOff
    <2>2. active' \subseteq Exec
      BY <1>4 DEF TakeDown, CutOff, doUpdown, Inv, TypeOK
    <2> QED
      BY <2>1, <2>2, OtherStep
  <1>5. ASSUME NEW A \in SUBSET Exec, Others(A) PROVE Inv'
    BY <1>5, OtherStep DEF Others
  <1>6. CASE UNCHANGED vars
    BY <1>6, OtherStep DEF vars, schedule, Inv, TypeOK
  <1> QED
    BY <1>1, <1>2, <1>3, <1>4, <1>5, <1>6 DEF Next, doReportError

LEMMA Invariant == Spec => []Inv
  BY Initially, Inductive, PTL DEF Spec

\* The counters stay within the limit, and every report is about addresses of
\* data, however sendToSchedule's threads and doReportError interleave.
THEOREM ReportTypeCorrect == Spec => []TypeOK
  <1>1. Inv => TypeOK
    BY DEF Inv
  <1> QED
    BY <1>1, Invariant, PTL

\* For any number of threads without a lock, nobody is reported who has not
\* lost more votes than judgeErrorCount: the races of sendToSchedule lose
\* votes, and never invent one.
THEOREM EveryReportEarned == Spec => []ReportsEarned
  <1>1. Inv => ReportsEarned
    BY DEF Inv
  <1> QED
    BY <1>1, Invariant, PTL

=============================================================================
