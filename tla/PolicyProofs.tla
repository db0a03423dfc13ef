---------------------------- MODULE PolicyProofs ----------------------------
(***************************************************************************)
(* Theorems about Policy, for any threads, services, keys and values: a    *)
(* service to which nothing is on its way follows the table.               *)
(***************************************************************************)
EXTENDS Policy, TLAPS

\* What s works with, or will once it has applied the rows it has read.
Underway(s, m, k) == IF reading[s] = m THEN rows[s][k] ELSE policy[s][k]

\* A service that is not as the table is still to read it, or was not told.
Followed ==
  \A s \in Service, m \in Mode : \A k \in Wanted(s, m) :
    Pending(s, m) \/ <<s, m>> \in untold \/ Underway(s, m, k) = table[k]

Inv == TypeOK /\ Followed

-----------------------------------------------------------------------------
(* Partial functions *)

LEMMA PartialIs ==
  ASSUME NEW K, NEW w
  PROVE  w \in Partial(K) <=> \E D \in SUBSET K : w \in [D -> Value]
BY DEF Partial

LEMMA PartialValue ==
  ASSUME NEW K, NEW w \in Partial(K), NEW k \in DOMAIN w
  PROVE  k \in K /\ w[k] \in Value
BY PartialIs

LEMMA RestrictPartial ==
  ASSUME NEW K, NEW w \in Partial(K), NEW D, D \subseteq DOMAIN w
  PROVE  Restrict(w, D) \in Partial(K) /\ DOMAIN Restrict(w, D) = D
<1>1. PICK E \in SUBSET K : w \in [E -> Value]
  BY PartialIs
<1>2. Restrict(w, D) \in [D -> Value] /\ D \in SUBSET K
  BY <1>1 DEF Restrict
<1>3. QED
  BY <1>2, PartialIs

LEMMA PartialGrows ==
  ASSUME NEW K, NEW L, K \subseteq L, NEW w \in Partial(K)
  PROVE  w \in Partial(L)
<1>1. PICK E \in SUBSET K : w \in [E -> Value]
  BY PartialIs
<1>2. E \in SUBSET L
  BY <1>1
<1>3. QED
  BY <1>1, <1>2, PartialIs

LEMMA NothingPartial == Nothing \in Partial(Key) /\ DOMAIN Nothing = {}
<1>1. Nothing \in [{} -> Value] /\ {} \in SUBSET Key
  BY DEF Nothing
<1>2. QED
  BY <1>1, PartialIs

-----------------------------------------------------------------------------
(* Type correctness *)

LEMMA KeyModes ==
  /\ \A k \in Key : ModeOf(k) \in Mode /\ ModeOf(k) # "idle"
  /\ "idle" \notin Mode
  /\ mimic_switch \in Key /\ ModeOf(mimic_switch) = "update_config"
  /\ NoKey \notin Key
BY KeyAssumption DEF ModeOf, Mode, Key, ConfigKey

\* Who is told follows the key, and it is somebody.
LEMMA ToldFollows ==
  ASSUME TypeOK, NEW t \in Thread, step[t] = "update"
  PROVE  /\ current[t] \in Key /\ Told(t) # {}
         /\ Told(t) \subseteq Followers(current[t])
         /\ Followers(current[t]) \subseteq Service
<1>1. current[t] \in DOMAIN todo[t] /\ todo[t] \in Partial(Key)
  BY DEF TypeOK
<1>2. current[t] \in Key
  BY <1>1, PartialValue
<1>3. current[t] # mimic_switch => Owner[current[t]] \in Service
  BY <1>2, KeyAssumption DEF Key, ConfigKey
<1>4. QED
  BY <1>2, <1>3, KeyAssumption DEF Told, Followers

LEMMA TypeServe ==
  ASSUME TypeOK, NEW t \in Thread, NEW w \in Partial(Key),
         NEW c \in {"config_policy", "config_mimic_switch", "config_scweight"},
         c = "config_scweight" => DOMAIN w \subseteq WeightKey, Serve(t, c, w)
  PROVE  TypeOK'
<1>1. coming' \in Nat
  BY DEF Serve, TypeOK
<1>2. cmd' \in [Thread -> {"none", "config_policy", "config_mimic_switch", "config_scweight"}]
  BY DEF Serve, TypeOK
<1>3. todo' \in [Thread -> Partial(Key)]
  BY DEF Serve, TypeOK
<1>4. step[t] = "next"
  BY DEF Serve, TypeOK
<1>5. \A x \in Thread : x # t => cmd'[x] = cmd[x] /\ todo'[x] = todo[x]
  BY DEF Serve, TypeOK
<1>6. \A x \in Thread :
        /\ cmd'[x] = "none" => step'[x] = "next" /\ DOMAIN todo'[x] = {}
        /\ cmd'[x] = "config_scweight" => DOMAIN todo'[x] \subseteq WeightKey
        /\ step'[x] # "next" => current'[x] \in DOMAIN todo'[x]
        /\ step'[x] = "tell" <=> tell'[x] # {}
  BY <1>4, <1>5 DEF Serve, TypeOK
<1>7. QED
  BY <1>1, <1>2, <1>3, <1>6 DEF Serve, schedule, TypeOK, Keys, Wanted

LEMMA TypeRequests ==
  ASSUME TypeOK, NEW t \in Thread
  PROVE  /\ \A w \in Partial(ConfigKey) : deal_monitor_config_policy(t, w) => TypeOK'
         /\ \A w \in Partial(WeightKey) : deal_monitor_config_scweight(t, w) => TypeOK'
         /\ \A v \in Value : deal_config_mimic_switch(t, v) => TypeOK'
<1>1. ASSUME NEW w \in Partial(ConfigKey), deal_monitor_config_policy(t, w) PROVE TypeOK'
  <2>1. w \in Partial(Key)
    BY PartialGrows DEF Key
  <2>2. Restrict(w, {k \in DOMAIN w : table[k] # w[k]}) \in Partial(Key)
    BY <2>1, RestrictPartial
  <2>3. QED
    BY <1>1, <2>2, TypeServe DEF deal_monitor_config_policy
<1>2. ASSUME NEW w \in Partial(WeightKey), deal_monitor_config_scweight(t, w) PROVE TypeOK'
  <2>1. w \in Partial(Key)
    BY PartialGrows DEF Key
  <2>2. DOMAIN w \subseteq WeightKey
    BY PartialValue
  <2>3. QED
    BY <1>2, <2>1, <2>2, TypeServe DEF deal_monitor_config_scweight
<1>3. ASSUME NEW v \in Value, deal_config_mimic_switch(t, v) PROVE TypeOK'
  <2>1. [k \in {mimic_switch} |-> v] \in [{mimic_switch} -> Value]
        /\ {mimic_switch} \in SUBSET Key
    BY DEF Key, ConfigKey
  <2>2. [k \in {mimic_switch} |-> v] \in Partial(Key)
    BY <2>1, PartialIs
  <2>3. QED
    BY <1>3, <2>2, TypeServe DEF deal_config_mimic_switch
<1>4. QED
  BY <1>1, <1>2, <1>3

\* Keys are taken off a request.
LEMMA WithoutType ==
  ASSUME TypeOK, NEW t \in Thread, NEW K, Without(t, K)
  PROVE  /\ todo' \in [Thread -> Partial(Key)]
         /\ \A x \in Thread : x # t => todo'[x] = todo[x]
         /\ DOMAIN todo'[t] \subseteq DOMAIN todo[t]
<1>1. todo[t] \in Partial(Key) /\ DOMAIN todo[t] \ K \subseteq DOMAIN todo[t]
  BY DEF TypeOK
<1> DEFINE left == Restrict(todo[t], DOMAIN todo[t] \ K)
<1>2. left \in Partial(Key) /\ DOMAIN left = DOMAIN todo[t] \ K
  BY <1>1, RestrictPartial
<1>3. todo' = [todo EXCEPT ![t] = left]
  BY DEF Without
<1>4. todo'[t] = left
  BY <1>3 DEF TypeOK
<1>5. QED
  BY <1>1, <1>2, <1>3, <1>4 DEF TypeOK

LEMMA TypeThread ==
  ASSUME TypeOK, NEW t \in Thread
  PROVE  /\ Reply(t) => TypeOK'
         /\ \A k \in DOMAIN todo[t] : NextKey(t, k) \/ Skip(t, k) => TypeOK'
<1>1. ASSUME Reply(t) PROVE TypeOK'
  <2>1. \A x \in Thread : cmd'[x] = "none" => step'[x] = "next" /\ DOMAIN todo'[x] = {}
    BY <1>1 DEF Reply, TypeOK
  <2>2. QED
    BY <1>1, <2>1 DEF Reply, schedule, TypeOK, Keys, Wanted
<1>2. ASSUME NEW k \in DOMAIN todo[t], NextKey(t, k) PROVE TypeOK'
  <2>1. k \in Key
    BY PartialValue DEF TypeOK
  <2>2. current' \in [Thread -> Key \cup {NoKey}]
        /\ step' \in [Thread -> {"next", "update", "tell"}]
    BY <1>2, <2>1 DEF NextKey, TypeOK
  <2>3. cmd[t] # "none"
    BY <1>2 DEF NextKey, TypeOK
  <2>4. QED
    BY <1>2, <2>2, <2>3 DEF NextKey, schedule, TypeOK, Keys, Wanted
<1>3. ASSUME NEW k \in DOMAIN todo[t], Skip(t, k) PROVE TypeOK'
  <2>1. /\ todo' \in [Thread -> Partial(Key)] /\ \A x \in Thread : x # t => todo'[x] = todo[x]
        /\ DOMAIN todo'[t] \subseteq DOMAIN todo[t]
    BY <1>3, WithoutType DEF Skip
  <2>2. \A x \in Thread : step'[x] # "next" => current'[x] \in DOMAIN todo'[x]
    BY <1>3, <2>1 DEF Skip, TypeOK
  <2>3. QED
    BY <1>3, <2>1, <2>2 DEF Skip, schedule, TypeOK, Keys, Wanted
<1>4. QED
  BY <1>1, <1>2, <1>3

LEMMA TypeUpdate == ASSUME TypeOK, NEW t \in Thread, Update(t) PROVE TypeOK'
<1>1. step[t] = "update" /\ current[t] \in DOMAIN todo[t] /\ todo[t] \in Partial(Key)
  BY DEF Update, TypeOK
<1>2. current[t] \in Key /\ todo[t][current[t]] \in Value
  BY <1>1, PartialValue
<1>3. Told(t) # {} /\ Told(t) \subseteq Service
  BY <1>1, ToldFollows
<1>4. table' \in [Key -> Value]
  BY <1>2 DEF Update, TypeOK
<1>5. tell' \in [Thread -> SUBSET Service] /\ step' \in [Thread -> {"next", "update", "tell"}]
  BY <1>3 DEF Update, TypeOK
<1>6. untold' \subseteq Service \X Mode
  BY DEF Update, TypeOK, Mode
<1>7. cmd[t] # "none"
  BY <1>1 DEF TypeOK
<1>8. \A x \in Thread :
        /\ cmd'[x] = "none" => step'[x] = "next" /\ DOMAIN todo'[x] = {}
        /\ cmd'[x] = "config_scweight" => DOMAIN todo'[x] \subseteq WeightKey
        /\ step'[x] # "next" => current'[x] \in DOMAIN todo'[x]
        /\ step'[x] = "tell" <=> tell'[x] # {}
  BY <1>1, <1>3, <1>7 DEF Update, TypeOK
<1>9. QED
  BY <1>4, <1>5, <1>6, <1>8 DEF Update, schedule, TypeOK, Keys, Wanted

LEMMA TypeTell ==
  ASSUME TypeOK, NEW t \in Thread, NEW s \in Service, Tell(t, s) PROVE TypeOK'
<1>1. step[t] = "tell" /\ s \in tell[t] /\ current[t] \in Key /\ cmd[t] # "none"
  <2>1. step[t] = "tell" /\ s \in tell[t] /\ current[t] \in DOMAIN todo[t] /\ todo[t] \in Partial(Key)
    BY DEF Tell, TypeOK
  <2>2. QED
    BY <2>1, PartialValue DEF TypeOK
<1>2. sent' \in [Service -> [Mode -> Nat]]
  <2>1. ModeOf(current[t]) \in Mode
    BY <1>1, KeyModes
  <2>2. QED
    BY <2>1 DEF Tell, TypeOK
<1>3. tell' \in [Thread -> SUBSET Service] /\ tell'[t] = tell[t] \ {s}
      /\ \A x \in Thread : x # t => tell'[x] = tell[x]
  BY DEF Tell, TypeOK
<1>4. CASE tell[t] = {s}
  <2>1. /\ todo' \in [Thread -> Partial(Key)]
        /\ \A x \in Thread : x # t => todo'[x] = todo[x]
        /\ DOMAIN todo'[t] \subseteq DOMAIN todo[t]
    BY <1>4, WithoutType DEF Tell
  <2>2. step' \in [Thread -> {"next", "update", "tell"}]
        /\ current' \in [Thread -> Key \cup {NoKey}]
    BY <1>4 DEF Tell, TypeOK
  <2>3. \A x \in Thread :
          /\ cmd'[x] = "none" => step'[x] = "next" /\ DOMAIN todo'[x] = {}
          /\ cmd'[x] = "config_scweight" => DOMAIN todo'[x] \subseteq WeightKey
          /\ step'[x] # "next" => current'[x] \in DOMAIN todo'[x]
          /\ step'[x] = "tell" <=> tell'[x] # {}
    BY <1>1, <1>3, <1>4, <2>1 DEF Tell, TypeOK
  <2>4. QED
    BY <1>2, <1>3, <2>1, <2>2, <2>3 DEF Tell, schedule, TypeOK, Keys, Wanted
<1>5. CASE tell[t] # {s}
  <2>1. tell'[t] # {}
    BY <1>1, <1>3, <1>5
  <2>2. UNCHANGED <<step, todo, current>>
    BY <1>5 DEF Tell
  <2>3. QED
    BY <1>1, <1>2, <1>3, <2>1, <2>2 DEF Tell, schedule, TypeOK, Keys, Wanted
<1>6. QED
  BY <1>4, <1>5

LEMMA TypeService ==
  ASSUME TypeOK, NEW s \in Service
  PROVE  /\ Apply(s) => TypeOK'
         /\ \A m \in Mode : Drop(s, m) \/ Read(s, m) => TypeOK'
<1>1. ASSUME NEW m \in Mode, Drop(s, m) PROVE TypeOK'
  <2>1. sent' \in [Service -> [Mode -> Nat]]
    BY <1>1 DEF Drop, TypeOK
  <2>2. untold' \subseteq Service \X Mode
    BY <1>1 DEF Drop, TypeOK
  <2>3. QED
    BY <1>1, <2>1, <2>2 DEF Drop, proxy, schedule, TypeOK, Keys, Wanted
<1>2. ASSUME NEW m \in Mode, Read(s, m) PROVE TypeOK'
  <2>1. sent' \in [Service -> [Mode -> Nat]]
    BY <1>2 DEF Read, TypeOK
  <2>2. untold' \subseteq Service \X Mode
    BY <1>2 DEF Read, TypeOK
  <2>3. Restrict(table, Wanted(s, m)) \in Partial(Key)
        /\ DOMAIN Restrict(table, Wanted(s, m)) = Wanted(s, m)
    <3>1. table \in [Key -> Value] /\ Key \in SUBSET Key
      BY DEF TypeOK
    <3>2. table \in Partial(Key)
      BY <3>1, PartialIs
    <3>3. Wanted(s, m) \subseteq DOMAIN table
      BY <3>1 DEF Wanted, Keys
    <3>4. QED
      BY <3>2, <3>3, RestrictPartial
  <2>4. /\ rows' \in [Service -> Partial(Key)] /\ reading' \in [Service -> Mode \cup {"idle"}]
        /\ \A x \in Service : reading'[x] # "idle" => DOMAIN rows'[x] = Wanted(x, reading'[x])
    <3>1. CASE UNCHANGED <<reading, rows>>
      BY <3>1 DEF TypeOK, Wanted, Keys
    <3>2. CASE reading' = [reading EXCEPT ![s] = m]
               /\ rows' = [rows EXCEPT ![s] = Restrict(table, Wanted(s, m))]
      <4>1. reading' \in [Service -> Mode \cup {"idle"}] /\ rows' \in [Service -> Partial(Key)]
        BY <2>3, <3>2 DEF TypeOK
      <4>2. \A x \in Service : x # s => reading'[x] = reading[x] /\ rows'[x] = rows[x]
        BY <3>2 DEF TypeOK
      <4>3. reading'[s] = m /\ rows'[s] = Restrict(table, Wanted(s, m))
        BY <3>2 DEF TypeOK
      <4>4. QED
        BY <2>3, <4>1, <4>2, <4>3 DEF TypeOK
    <3>3. QED
      BY <1>2, <3>1, <3>2 DEF Read
  <2>5. QED
    BY <1>2, <2>1, <2>2, <2>4 DEF Read, proxy, TypeOK, Keys, Wanted
<1>3. ASSUME Apply(s) PROVE TypeOK'
  <2> DEFINE new == [k \in Keys(s) |-> IF k \in Wanted(s, reading[s]) THEN rows[s][k] ELSE policy[s][k]]
  <2>1. /\ rows[s] \in Partial(Key) /\ DOMAIN rows[s] = Wanted(s, reading[s])
        /\ policy[s] \in Partial(Key) /\ DOMAIN policy[s] = Keys(s)
    BY <1>3 DEF Apply, TypeOK
  <2>2. new \in [Keys(s) -> Value] /\ Keys(s) \in SUBSET Key
    BY <2>1, PartialValue DEF Keys
  <2>3. new \in Partial(Key)
    BY <2>2, PartialIs
  <2>4. policy' = [policy EXCEPT ![s] = new]
    BY <1>3 DEF Apply
  <2>5. policy' \in [Service -> Partial(Key)] /\ \A x \in Service : DOMAIN policy'[x] = Keys(x)
    BY <2>2, <2>3, <2>4 DEF TypeOK
  <2>6. /\ rows' \in [Service -> Partial(Key)] /\ reading' \in [Service -> Mode \cup {"idle"}]
        /\ \A x \in Service : reading'[x] # "idle" => DOMAIN rows'[x] = Wanted(x, reading'[x])
    BY <1>3, NothingPartial DEF Apply, TypeOK
  <2>7. QED
    BY <1>3, <2>5, <2>6 DEF Apply, proxy, TypeOK, Keys, Wanted
<1>4. QED
  BY <1>1, <1>2, <1>3

LEMMA TypeStep == TypeOK /\ [Next]_vars => TypeOK'
<1> SUFFICES ASSUME TypeOK, [Next]_vars PROVE TypeOK'
  OBVIOUS
<1>1. ASSUME NEW t \in Thread, NEW w \in Partial(ConfigKey), deal_monitor_config_policy(t, w)
      PROVE  TypeOK'
  BY <1>1, TypeRequests
<1>2. ASSUME NEW t \in Thread, NEW w \in Partial(WeightKey), deal_monitor_config_scweight(t, w)
      PROVE  TypeOK'
  BY <1>2, TypeRequests
<1>3. ASSUME NEW t \in Thread, NEW v \in Value, deal_config_mimic_switch(t, v) PROVE TypeOK'
  BY <1>3, TypeRequests
<1>4. ASSUME NEW t \in Thread, NEW k \in DOMAIN todo[t], NextKey(t, k) \/ Skip(t, k)
      PROVE  TypeOK'
  BY <1>4, TypeThread
<1>5. ASSUME NEW t \in Thread, Update(t) \/ Reply(t) PROVE TypeOK'
  BY <1>5, TypeUpdate, TypeThread
<1>6. ASSUME NEW t \in Thread, NEW s \in Service, Tell(t, s) PROVE TypeOK'
  BY <1>6, TypeTell
<1>7. ASSUME NEW s \in Service,
             Apply(s) \/ \E m \in Mode : Drop(s, m) \/ Read(s, m)
      PROVE  TypeOK'
  BY <1>7, TypeService
<1>8. CASE UNCHANGED vars
  BY <1>8 DEF vars, proxy, schedule, TypeOK, Keys, Wanted
<1>9. QED
  BY <1>1, <1>2, <1>3, <1>4, <1>5, <1>6, <1>7, <1>8 DEF Next

LEMMA TypeInit == Init => TypeOK
<1> SUFFICES ASSUME Init PROVE TypeOK
  OBVIOUS
<1>1. table \in Partial(Key) /\ DOMAIN table = Key
  <2>1. table \in [Key -> Value] /\ Key \in SUBSET Key
    BY DEF Init
  <2>2. QED
    BY <2>1, PartialIs
<1>2. ASSUME NEW s \in Service
      PROVE  Restrict(table, Keys(s)) \in Partial(Key) /\ DOMAIN Restrict(table, Keys(s)) = Keys(s)
  BY <1>1, RestrictPartial DEF Keys
<1>3. policy \in [Service -> Partial(Key)] /\ \A s \in Service : DOMAIN policy[s] = Keys(s)
  BY <1>2 DEF Init
<1>4. todo \in [Thread -> Partial(Key)] /\ rows \in [Service -> Partial(Key)]
      /\ \A t \in Thread : DOMAIN todo[t] = {}
  BY NothingPartial DEF Init
<1>5. QED
  BY <1>3, <1>4, ValueAssumption DEF Init, TypeOK

\* Every variable keeps its type, a thread the key it is at until all are told.
THEOREM PolicyTypeCorrect == Spec => []TypeOK
BY TypeInit, TypeStep, PTL DEF Spec

-----------------------------------------------------------------------------
(* Who is not pending follows the table *)

\* Pending only looks at what is sent and told.
LEMMA PendingKept ==
  ASSUME UNCHANGED <<sent, tell>>, \A t \in Thread : tell[t] # {} => current'[t] = current[t],
         NEW s \in Service, NEW m \in Mode
  PROVE  Pending(s, m)' <=> Pending(s, m)
BY DEF Pending

LEMMA FollowedRequests ==
  ASSUME Inv, NEW t \in Thread,
         \/ \E w : \/ deal_monitor_config_policy(t, w)
                 \/ deal_monitor_config_scweight(t, w)
         \/ \E v : deal_config_mimic_switch(t, v)
         \/ Reply(t)
         \/ \E k \in DOMAIN todo[t] : NextKey(t, k) \/ Skip(t, k)
  PROVE  Followed'
<1>1. UNCHANGED <<table, sent, tell, schedule, untold>>
  BY DEF deal_monitor_config_policy, deal_monitor_config_scweight, deal_config_mimic_switch,
         Serve, Reply, NextKey, Skip
<1>2. \A x \in Thread : tell[x] # {} => current'[x] = current[x]
  <2>1. step[t] = "next" => tell[t] = {}
    BY DEF Inv, TypeOK
  <2>2. \A x \in Thread : x # t \/ step[t] # "next" => current'[x] = current[x]
    BY DEF deal_monitor_config_policy, deal_monitor_config_scweight, deal_config_mimic_switch,
           Serve, Reply, NextKey, Skip, Inv, TypeOK
  <2>3. QED
    BY <2>1, <2>2
<1>3. \A s \in Service, m \in Mode : Pending(s, m)' <=> Pending(s, m)
  BY <1>1, <1>2, PendingKept
<1>4. QED
  BY <1>1, <1>3 DEF Inv, Followed, Underway, schedule, Wanted, Keys

\* The followers of the row that changes are told, or known not to be.
LEMMA FollowedUpdate == ASSUME Inv, NEW t \in Thread, Update(t) PROVE Followed'
<1>1. TypeOK /\ step[t] = "update" /\ tell[t] = {}
  BY DEF Inv, Update, TypeOK
<1>2. /\ current[t] \in Key
      /\ Told(t) \subseteq Followers(current[t]) /\ Followers(current[t]) \subseteq Service
  BY <1>1, ToldFollows
<1>3. UNCHANGED <<current, sent, schedule>> /\ tell' = [tell EXCEPT ![t] = Told(t)]
  BY DEF Update
<1>4. tell'[t] = Told(t) /\ \A x \in Thread : x # t => tell'[x] = tell[x]
  BY <1>1, <1>3 DEF TypeOK
<1>5. SUFFICES ASSUME NEW s \in Service, NEW m \in Mode, NEW k \in Wanted(s, m),
                      ~Pending(s, m)', <<s, m>> \notin untold'
               PROVE  Underway(s, m, k)' = table'[k]
  BY DEF Followed, Wanted, Keys
<1>6. untold \subseteq untold'
  BY DEF Update
<1>7. ~Pending(s, m)
  <2>1. ASSUME NEW x \in Thread, s \in tell[x], ModeOf(current[x]) = m PROVE FALSE
    <3>1. x # t
      BY <1>1, <2>1
    <3>2. s \in tell'[x] /\ ModeOf(current'[x]) = m
      BY <1>3, <1>4, <2>1, <3>1
    <3>3. QED
      BY <1>5, <3>2 DEF Pending, ModeOf
  <2>2. ~(sent[s][m] > 0)
    BY <1>3, <1>5 DEF Pending
  <2>3. QED
    BY <2>1, <2>2 DEF Pending
<1>8. Underway(s, m, k) = table[k]
  BY <1>5, <1>6, <1>7 DEF Inv, Followed
<1>9. k # current[t]
  <2>1. SUFFICES ASSUME k = current[t] PROVE FALSE
    OBVIOUS
  <2>2. s \in Followers(k) /\ ModeOf(k) = m
    BY DEF Wanted, Keys
  <2>3. s \notin tell'[t]
    <3>1. current'[t] = k
      BY <1>3, <2>1
    <3>2. QED
      BY <1>5, <2>2, <3>1 DEF Pending, ModeOf
  <2>4. s \notin Told(t)
    BY <1>4, <2>3
  <2>5. k = mimic_switch /\ cmd[t] # "config_mimic_switch" /\ s # keystone
    BY <2>1, <2>2, <2>4 DEF Told, Followers
  <2>6. m = "update_config"
    BY <2>2, <2>5, KeyModes
  <2>7. cmd[t] = "config_policy"
    <3>1. mimic_switch \in DOMAIN todo[t] /\ mimic_switch \notin WeightKey
      <4>1. current[t] \in DOMAIN todo[t]
        BY <1>1 DEF TypeOK
      <4>2. current[t] = mimic_switch
        BY <2>1, <2>5
      <4>3. mimic_switch \notin WeightKey
        BY KeyAssumption
      <4>4. QED
        BY <4>1, <4>2, <4>3
    <3>2. cmd[t] # "config_scweight" /\ cmd[t] # "none"
      BY <1>1, <3>1 DEF TypeOK
    <3>3. QED
      BY <1>1, <2>5, <3>2 DEF TypeOK
  <2>8. <<s, m>> \in untold'
    BY <2>1, <2>5, <2>6, <2>7 DEF Update
  <2>9. QED
    BY <1>5, <2>8
<1>10. table'[k] = table[k]
  BY <1>1, <1>9 DEF Update, TypeOK, Wanted, Keys
<1>11. QED
  BY <1>3, <1>8, <1>10 DEF Underway, schedule

LEMMA FollowedTell ==
  ASSUME Inv, NEW t \in Thread, NEW x \in Service, Tell(t, x)
  PROVE  Followed'
<1>1. TypeOK /\ UNCHANGED <<table, schedule, untold>>
  BY DEF Inv, Tell
<1>2. current[t] \in DOMAIN todo[t] /\ todo[t] \in Partial(Key)
  BY <1>1 DEF TypeOK, Tell
<1>3. ModeOf(current[t]) \in Mode
  BY <1>2, PartialValue, KeyModes
<1>4. ASSUME NEW s \in Service, NEW m \in Mode, Pending(s, m) PROVE Pending(s, m)'
  <2>1. sent'[s][m] >= sent[s][m] /\ sent'[s][m] \in Nat /\ sent[s][m] \in Nat
    BY <1>1, <1>3 DEF Tell, TypeOK
  <2>2. CASE sent[s][m] > 0
    BY <2>1, <2>2 DEF Pending
  <2>3. ASSUME NEW y \in Thread, s \in tell[y], ModeOf(current[y]) = m PROVE Pending(s, m)'
    <3>1. CASE y = t /\ s = x
      <4>1. sent'[s][m] = sent[s][m] + 1
        BY <1>1, <1>3, <2>3, <3>1 DEF Tell, TypeOK
      <4>2. QED
        BY <2>1, <4>1 DEF Pending
    <3>2. CASE ~(y = t /\ s = x)
      <4>1. s \in tell'[y]
        BY <1>1, <2>3, <3>2 DEF Tell, TypeOK
      <4>2. current'[y] = current[y]
        <5>1. y = t => tell[t] # {x}
          BY <2>3, <3>2
        <5>2. QED
          BY <1>1, <5>1 DEF Tell, TypeOK
      <4>3. ModeOf(current[y])' = m
        BY <2>3, <4>2 DEF ModeOf
      <4>4. QED
        BY <4>1, <4>3 DEF Pending
    <3>3. QED
      BY <3>1, <3>2
  <2>4. QED
    BY <1>4, <2>2, <2>3 DEF Pending
<1>5. QED
  BY <1>1, <1>4 DEF Inv, Followed, Underway, schedule, Wanted, Keys

LEMMA FollowedDrop ==
  ASSUME Inv, NEW x \in Service, NEW n \in Mode, Drop(x, n)
  PROVE  Followed'
<1>1. TypeOK /\ UNCHANGED <<table, proxy, schedule>> /\ untold' = untold \cup {<<x, n>>}
  BY DEF Inv, Drop
<1>2. ASSUME NEW s \in Service, NEW m \in Mode, <<s, m>> \notin untold', Pending(s, m)
      PROVE  Pending(s, m)'
  <2>1. ~(s = x /\ m = n)
    BY <1>1, <1>2
  <2>2. sent'[s][m] = sent[s][m]
    BY <1>1, <2>1 DEF Drop, TypeOK
  <2>3. QED
    BY <1>1, <1>2, <2>2 DEF Pending, proxy, ModeOf
<1>3. QED
  BY <1>1, <1>2 DEF Inv, Followed, Underway, schedule, Wanted, Keys

LEMMA FollowedRead ==
  ASSUME Inv, NEW x \in Service, NEW n \in Mode, Read(x, n)
  PROVE  Followed'
<1>1. TypeOK /\ UNCHANGED <<table, proxy, policy>> /\ reading[x] = "idle"
  BY DEF Inv, Read
<1>2. SUFFICES ASSUME NEW s \in Service, NEW m \in Mode, NEW k \in Wanted(s, m),
                      ~Pending(s, m)', <<s, m>> \notin untold'
               PROVE  Underway(s, m, k)' = table'[k]
  BY DEF Followed, Wanted, Keys
<1>3. CASE s = x /\ m = n
  <2>1. reading' = [reading EXCEPT ![x] = n]
        /\ rows' = [rows EXCEPT ![x] = Restrict(table, Wanted(x, n))]
    BY <1>2, <1>3 DEF Read
  <2>2. reading'[s] = m /\ rows'[s] = Restrict(table, Wanted(s, m))
    BY <1>1, <1>3, <2>1 DEF TypeOK
  <2>3. rows'[s][k] = table[k]
    BY <2>2 DEF Restrict
  <2>4. QED
    BY <1>1, <2>2, <2>3 DEF Underway
<1>4. CASE ~(s = x /\ m = n)
  <2>1. sent'[s][m] = sent[s][m]
    BY <1>1, <1>4 DEF Read, TypeOK
  <2>2. ~Pending(s, m)
    BY <1>1, <1>2, <2>1 DEF Pending, proxy, ModeOf
  <2>3. <<s, m>> \notin untold
    BY <1>2, <1>4 DEF Read
  <2>4. Underway(s, m, k) = table[k]
    BY <2>2, <2>3 DEF Inv, Followed
  <2>5. (reading'[s] = m <=> reading[s] = m) /\ (reading[s] = m => rows'[s] = rows[s])
    <3>1. CASE s = x
      <4>1. m # n /\ m # "idle"
        BY <1>4, <3>1, KeyModes
      <4>2. QED
        BY <1>1, <3>1, <4>1 DEF Read, TypeOK
    <3>2. CASE s # x
      BY <1>1, <3>2 DEF Read, TypeOK
    <3>3. QED
      BY <3>1, <3>2
  <2>6. QED
    BY <1>1, <2>4, <2>5 DEF Underway
<1>5. QED
  BY <1>3, <1>4

LEMMA FollowedApply ==
  ASSUME Inv, NEW x \in Service, Apply(x)
  PROVE  Followed'
<1>1. TypeOK /\ UNCHANGED <<table, proxy, sent, untold>> /\ reading[x] # "idle"
  BY DEF Inv, Apply
<1>2. SUFFICES ASSUME NEW s \in Service, NEW m \in Mode, NEW k \in Wanted(s, m),
                      ~Pending(s, m)', <<s, m>> \notin untold'
               PROVE  Underway(s, m, k)' = table'[k]
  BY DEF Followed, Wanted, Keys
<1>3. Underway(s, m, k) = table[k]
  <2>1. ~Pending(s, m)
    BY <1>1, <1>2 DEF Pending, proxy, ModeOf
  <2>2. QED
    BY <1>1, <1>2, <2>1 DEF Inv, Followed
<1>4. CASE s = x
  <2>1. reading'[s] # m
    BY <1>1, <1>4, KeyModes DEF Apply, TypeOK
  <2>2. policy'[s][k] = IF k \in Wanted(s, reading[s]) THEN rows[s][k] ELSE policy[s][k]
    BY <1>1, <1>4 DEF Apply, TypeOK, Wanted
  <2>3. k \in Wanted(s, reading[s]) <=> reading[s] = m
    BY DEF Wanted
  <2>4. QED
    BY <1>1, <1>3, <2>1, <2>2, <2>3 DEF Underway
<1>5. CASE s # x
  <2>1. reading'[s] = reading[s] /\ rows'[s] = rows[s] /\ policy'[s] = policy[s]
    BY <1>1, <1>5 DEF Apply, TypeOK
  <2>2. QED
    BY <1>1, <1>3, <2>1 DEF Underway
<1>6. QED
  BY <1>4, <1>5

LEMMA FollowedStep == Inv /\ [Next]_vars => Followed'
<1> SUFFICES ASSUME Inv, [Next]_vars PROVE Followed'
  OBVIOUS
<1>1. ASSUME NEW t \in Thread,
             \/ \E w \in Partial(ConfigKey) : deal_monitor_config_policy(t, w)
             \/ \E w \in Partial(WeightKey) : deal_monitor_config_scweight(t, w)
             \/ \E v \in Value : deal_config_mimic_switch(t, v)
             \/ Reply(t)
             \/ \E k \in DOMAIN todo[t] : NextKey(t, k) \/ Skip(t, k)
      PROVE  Followed'
  BY <1>1, FollowedRequests
<1>2. ASSUME NEW t \in Thread, Update(t) PROVE Followed'
  BY <1>2, FollowedUpdate
<1>3. ASSUME NEW t \in Thread, NEW s \in Service, Tell(t, s) PROVE Followed'
  BY <1>3, FollowedTell
<1>4. ASSUME NEW s \in Service, NEW m \in Mode, Drop(s, m) \/ Read(s, m) PROVE Followed'
  BY <1>4, FollowedDrop, FollowedRead
<1>5. ASSUME NEW s \in Service, Apply(s) PROVE Followed'
  BY <1>5, FollowedApply
<1>6. CASE UNCHANGED vars
  BY <1>6 DEF vars, proxy, schedule, Inv, Followed, Pending, Underway, Wanted, Keys, ModeOf
<1>7. QED
  BY <1>1, <1>2, <1>3, <1>4, <1>5, <1>6 DEF Next

\* For any threads, services and keys: a service that nothing is on its way to
\* works with the rows of the table, unless a message or a SELECT failed or
\* nobody told it.
THEOREM PolicyArrives == Spec => []SettledFollows
<1>1. Init => Inv
  <2>1. Init => Followed
    BY DEF Init, Followed, Underway, Wanted, Keys, Restrict, Mode
  <2>2. QED
    BY <2>1, TypeInit DEF Inv
<1>2. Inv /\ [Next]_vars => Inv'
  BY TypeStep, FollowedStep DEF Inv
<1>3. Inv => SettledFollows
  BY DEF Inv, Followed, Underway, SettledFollows
<1>4. QED
  BY <1>1, <1>2, <1>3, PTL DEF Spec

=============================================================================
