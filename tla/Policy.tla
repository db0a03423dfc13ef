------------------------------- MODULE Policy -------------------------------
(***************************************************************************)
(* How a change of policy, switch or weights reaches the schedule          *)
(* services: a thread of the horizon proxy writes the table and tells the  *)
(* services that follow the row (mimic_proxy.cpp), each over a connection  *)
(* of its own that may fail; a service that is told reads the table        *)
(* (mimic_schedule.cpp, mimic_suber.cpp).                                  *)
(*                                                                         *)
(* A key is a row of configurable_mimic_config or an executor's row of     *)
(* exec_status_info*, of which only the weight is kept. The subscribers'   *)
(* copies are Publish's.                                                   *)
(***************************************************************************)
EXTENDS Integers, Functions

CONSTANTS
  Thread,     \* HTTP threads of the horizon proxy
  Service,    \* the schedule services
  keystone,   \* the one that is told when a key has no other suffix
  PolicyKey,  \* rows of configurable_mimic_config, mimic_switch aside
  WeightKey,  \* executors, by the row that has their weight
  Owner,      \* policy or weight key -> the service it belongs to
  Value,
  Requests,   \* bound: requests of all kinds
  NoKey       \* a thread is at no key

mimic_switch == "mimic_switch"
ConfigKey == PolicyKey \cup {mimic_switch}
Key       == ConfigKey \cup WeightKey

ASSUME KeyAssumption ==
  /\ mimic_switch \notin PolicyKey \cup WeightKey /\ PolicyKey \cap WeightKey = {}
  /\ NoKey \notin Key
  /\ keystone \in Service /\ Owner \in [PolicyKey \cup WeightKey -> Service]
ASSUME ValueAssumption == Value # {} /\ Requests \in Nat

VARIABLES
  table,    \* key -> value, in MySQL
  cmd,      \* thread -> the request it serves, or "none"
  step,     \* thread -> "next", "update" or "tell"
  todo,     \* thread -> the keys its request is still to set, with their values
  current,  \* thread -> the key it is at, or NoKey
  tell,     \* thread -> services to be told of it
  sent,     \* service, mode -> messages on their way
  reading,  \* service -> mode of the message it works on, or "idle"
  rows,     \* service -> what its SELECT brought, of the keys it looks for
  policy,   \* service -> key it follows -> value it works with
  coming,   \* requests still to come
  untold    \* history: service, mode: a message was lost, a SELECT failed or
            \* nobody was told, since the service last read the table

proxy    == <<cmd, step, todo, current, tell>>
schedule == <<reading, rows, policy>>
vars     == <<table, proxy, sent, schedule, coming, untold>>

Mode == {"update_config", "update_scweight"}
ModeOf(k)    == IF k \in WeightKey THEN "update_scweight" ELSE "update_config"
Followers(k) == IF k = mimic_switch THEN Service ELSE {Owner[k]}

\* The keys s follows, and those among them it looks for in mode m.
Keys(s)      == {k \in Key : s \in Followers(k)}
Wanted(s, m) == {k \in Keys(s) : ModeOf(k) = m}

Nothing    == [k \in {} |-> k]
Partial(K) == UNION {[D -> Value] : D \in SUBSET K}

-----------------------------------------------------------------------------
(* The horizon proxy: one thread serves one request after the other *)

Serve(t, c, w) ==
  /\ cmd[t] = "none" /\ coming > 0 /\ coming' = coming - 1
  /\ cmd' = [cmd EXCEPT ![t] = c]
  /\ todo' = [todo EXCEPT ![t] = w]
  /\ UNCHANGED <<table, step, current, tell, sent, schedule, untold>>

\* config_policy: one SELECT says which rows differ. A request whose SELECT
\* fails changes nothing.
deal_monitor_config_policy(t, w) ==
  Serve(t, "config_policy", Restrict(w, {k \in DOMAIN w : table[k] # w[k]}))

deal_config_mimic_switch(t, v) ==
  Serve(t, "config_mimic_switch", [k \in {mimic_switch} |-> v])

deal_monitor_config_scweight(t, w) == Serve(t, "config_scweight", w)

\* evhtp_send_reply: nothing is left to do.
Reply(t) ==
  /\ cmd[t] # "none" /\ step[t] = "next" /\ DOMAIN todo[t] = {}
  /\ cmd' = [cmd EXCEPT ![t] = "none"]
  /\ UNCHANGED <<table, step, todo, current, tell, sent, schedule, coming, untold>>

\* The loops go to their next key; that of the weights SELECTs its row first.
NextKey(t, k) ==
  /\ step[t] = "next" /\ k \in DOMAIN todo[t]
  /\ cmd[t] = "config_scweight" => table[k] # todo[t][k]
  /\ step' = [step EXCEPT ![t] = "update"]
  /\ current' = [current EXCEPT ![t] = k]
  /\ UNCHANGED <<table, cmd, todo, tell, sent, schedule, coming, untold>>

Without(t, K) == todo' = [todo EXCEPT ![t] = Restrict(@, DOMAIN @ \ K)]

\* A weight that is as it should be is passed over; a SELECT that fails, or an
\* address that is none, ends the request with the keys before it set.
Skip(t, k) ==
  /\ step[t] = "next" /\ k \in DOMAIN todo[t] /\ cmd[t] = "config_scweight"
  /\ \/ table[k] = todo[t][k] /\ Without(t, {k})
     \/ Without(t, DOMAIN todo[t])
  /\ UNCHANGED <<table, cmd, step, current, tell, sent, schedule, coming, untold>>

\* Mutant: one client instead of three.
Told_Once(t) ==
  IF current[t] \in DOMAIN Owner THEN {Owner[current[t]]} ELSE {keystone}

\* Whom a thread tells of the key it is at: the switch has three clients, a
\* key goes to the service of its suffix or port. config_policy with the
\* switch finds no suffix.
Told(t) ==
  IF current[t] # mimic_switch THEN {Owner[current[t]]}
  ELSE IF cmd[t] = "config_mimic_switch" THEN Service ELSE {keystone}

\* The UPDATE, that may fail; the services are told in any case.
Update(t) ==
  /\ step[t] = "update"
  /\ \/ table' = [table EXCEPT ![current[t]] = todo[t][current[t]]]
     \/ UNCHANGED table
  /\ tell' = [tell EXCEPT ![t] = Told(t)]
  /\ step' = [step EXCEPT ![t] = "tell"]
  /\ untold' = IF cmd[t] = "config_policy" /\ current[t] = mimic_switch
               THEN untold \cup (Service \ {keystone}) \X {"update_config"}
               ELSE untold
  /\ UNCHANGED <<cmd, todo, current, sent, schedule, coming>>

\* Mutant: the loop does not notice that all have been told.
Tell_NoEnd(t, s) ==
  /\ step[t] = "tell" /\ s \in tell[t]
  /\ sent' = [sent EXCEPT ![s][ModeOf(current[t])] = @ + 1]
  /\ tell' = [tell EXCEPT ![t] = @ \ {s}]
  /\ UNCHANGED <<table, cmd, step, todo, current, schedule, coming, untold>>

\* tcpRequest of a new client; after the last one the loop goes on. The client
\* writes when the thread is back in its event loop, which may be at once here.
Tell(t, s) ==
  /\ step[t] = "tell" /\ s \in tell[t]
  /\ sent' = [sent EXCEPT ![s][ModeOf(current[t])] = @ + 1]
  /\ tell' = [tell EXCEPT ![t] = @ \ {s}]
  /\ IF tell[t] = {s}
     THEN /\ step' = [step EXCEPT ![t] = "next"] /\ Without(t, {current[t]})
          /\ current' = [current EXCEPT ![t] = NoKey]
     ELSE UNCHANGED <<step, todo, current>>
  /\ UNCHANGED <<table, cmd, schedule, coming, untold>>

\* The connection fails; nobody sends the message again.
Drop(s, m) ==
  /\ sent[s][m] > 0
  /\ sent' = [sent EXCEPT ![s][m] = @ - 1]
  /\ untold' = untold \cup {<<s, m>>}
  /\ UNCHANGED <<table, proxy, schedule, coming>>

-----------------------------------------------------------------------------
(* A schedule service: one main loop takes the messages *)

\* doUpdateConfig, doUpdateScweight: the SELECT brings the rows or fails.
Read(s, m) ==
  /\ reading[s] = "idle" /\ sent[s][m] > 0
  /\ sent' = [sent EXCEPT ![s][m] = @ - 1]
  /\ \/ /\ reading' = [reading EXCEPT ![s] = m]
        /\ rows' = [rows EXCEPT ![s] = Restrict(table, Wanted(s, m))]
        /\ untold' = untold \ {<<s, m>>}
     \/ /\ untold' = untold \cup {<<s, m>>}
        /\ UNCHANGED <<reading, rows>>
  /\ UNCHANGED <<table, proxy, policy, coming>>

\* syncPolicyFromMysql, syncExecFromMysql: the rows replace what s had.
Apply(s) ==
  /\ reading[s] # "idle"
  /\ policy' = [policy EXCEPT ![s] =
       [k \in Keys(s) |-> IF k \in Wanted(s, reading[s]) THEN rows[s][k] ELSE @[k]]]
  /\ reading' = [reading EXCEPT ![s] = "idle"]
  /\ rows' = [rows EXCEPT ![s] = Nothing]
  /\ UNCHANGED <<table, proxy, sent, coming, untold>>

-----------------------------------------------------------------------------
\* The services have read the table, and written their weights, when they
\* started.
Init ==
  /\ table \in [Key -> Value]
  /\ cmd = [t \in Thread |-> "none"]
  /\ step = [t \in Thread |-> "next"]
  /\ todo = [t \in Thread |-> Nothing]
  /\ current = [t \in Thread |-> NoKey]
  /\ tell = [t \in Thread |-> {}]
  /\ sent = [s \in Service |-> [m \in Mode |-> 0]]
  /\ reading = [s \in Service |-> "idle"]
  /\ rows = [s \in Service |-> Nothing]
  /\ policy = [s \in Service |-> Restrict(table, Keys(s))]
  /\ coming = Requests
  /\ untold = {}

Next ==
  \/ \E t \in Thread :
       \/ \E w \in Partial(ConfigKey) : deal_monitor_config_policy(t, w)
       \/ \E w \in Partial(WeightKey) : deal_monitor_config_scweight(t, w)
       \/ \E v \in Value : deal_config_mimic_switch(t, v)
       \/ \E k \in DOMAIN todo[t] : NextKey(t, k) \/ Skip(t, k)
       \/ Update(t) \/ Reply(t)
       \/ \E s \in Service : Tell(t, s)
  \/ \E s \in Service : Apply(s) \/ \E m \in Mode : Drop(s, m) \/ Read(s, m)

Spec == Init /\ [][Next]_vars

-----------------------------------------------------------------------------
(* Properties *)

\* Types; a thread is at a key of its request, and tells of it exactly as
\* long as somebody is to be told.
TypeOK ==
  /\ table \in [Key -> Value]
  /\ cmd \in [Thread -> {"none", "config_policy", "config_mimic_switch", "config_scweight"}]
  /\ step \in [Thread -> {"next", "update", "tell"}]
  /\ current \in [Thread -> Key \cup {NoKey}]
  /\ todo \in [Thread -> Partial(Key)]
  /\ tell \in [Thread -> SUBSET Service]
  /\ sent \in [Service -> [Mode -> Nat]]
  /\ reading \in [Service -> Mode \cup {"idle"}]
  /\ rows \in [Service -> Partial(Key)] /\ policy \in [Service -> Partial(Key)]
  /\ coming \in Nat
  /\ untold \subseteq Service \X Mode
  /\ \A t \in Thread :
       /\ cmd[t] = "none" => step[t] = "next" /\ DOMAIN todo[t] = {}
       /\ cmd[t] = "config_scweight" => DOMAIN todo[t] \subseteq WeightKey
       /\ step[t] # "next" => current[t] \in DOMAIN todo[t]
       /\ step[t] = "tell" <=> tell[t] # {}
  /\ \A s \in Service :
       /\ DOMAIN policy[s] = Keys(s)
       /\ reading[s] # "idle" => DOMAIN rows[s] = Wanted(s, reading[s])

\* Somebody has changed a row of kind m that s follows, and s is still to
\* read the table.
Pending(s, m) ==
  sent[s][m] > 0 \/ \E t \in Thread : s \in tell[t] /\ ModeOf(current[t]) = m

\* Whenever nothing is on its way to a service, it works with the rows of the
\* table that concern it, whatever requests of several threads change them
\* together and however their messages overtake each other: every change is
\* followed by a message, and who is told reads the table after it. Not so
\* when a message was lost, a SELECT failed or the switch was set by
\* config_policy, until the service is told of something else.
SettledFollows ==
  \A s \in Service, m \in Mode :
    reading[s] # m /\ ~Pending(s, m) /\ <<s, m>> \notin untold
      => \A k \in Wanted(s, m) : policy[s][k] = table[k]

=============================================================================
