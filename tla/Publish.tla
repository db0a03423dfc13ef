------------------------------ MODULE Publish ------------------------------
(***************************************************************************)
(* How the pool of a schedule service reaches a subscriber, a judge or a   *)
(* proxy: syncAndPub and initMysqlAndPub write snapshots to the connection *)
(* (mimic_schedule.cpp), MimicSuber reads them and keeps a copy, and       *)
(* subscribes again when the connection is lost (mimic_suber.cpp).         *)
(*                                                                         *)
(* A snapshot is a version of the pool, of the lists and the policy. A     *)
(* timer thread changes and publishes it under mutexExecs, the main loop   *)
(* with and without it. Each publication is two writes: the JSON, which    *)
(* ends a line of its own, and CR LF, which makes an empty line behind it. *)
(* One subscriber; the connections of others do not touch it.              *)
(***************************************************************************)
EXTENDS Integers, SequencesExt

CONSTANTS
  MaxVersion, \* bound: the pool changes up to this version
  Room,       \* bound: lines on their way before a command may publish more
  Blank,      \* the empty line
  Nobody      \* the mutex is free

ASSUME BoundAssumption == MaxVersion \in Nat \ {0} /\ Room \in Nat
ASSUME BlankAssumption == Blank \notin 0..MaxVersion
ASSUME NobodyAssumption == Nobody \notin {"timer", "main"}

VARIABLES
  pool,         \* version of allExecList, activeExecList and the policy
  isFirstStart,
  mutexExecs,   \* who holds it, or Nobody
  pc,           \* publisher -> its place in the publication
  snap,         \* publisher -> the version it read (str)
  to,           \* publisher -> its loop found the connection, still there
  subscribed,   \* the connection is in subscribeBevs
  asked,        \* the subscribe message is on its way
  wire,         \* lines written and not delivered
  link,         \* the subscriber's connection: "lost", "connecting", "up"
  input,        \* lines in the subscriber's buffer
  copy,         \* the version the subscriber works with, 0 for none
  overlap,      \* history: the last publication began during another one
  missed,       \* history: subscribed in the first publication, too late for it
  silenced      \* history: a change in the first publication, too late for it

service    == <<pool, isFirstStart, mutexExecs>>
publishing == <<pc, snap, to>>
subscriber == <<link, input, copy>>
history    == <<overlap, missed, silenced>>
vars == <<service, publishing, subscribed, asked, wire, subscriber, history>>

Publisher == {"timer", "main"}
Version   == 1..MaxVersion
Line      == Version \cup {Blank}

Idle == \A p \in Publisher : pc[p] = "idle"
Others(p) == \E q \in Publisher \ {p} : pc[q] \in {"line", "blank"}

-----------------------------------------------------------------------------
(* Publishing *)

\* p reads the pool and is about to write.
Read(p, v) ==
  /\ snap' = [snap EXCEPT ![p] = v]
  /\ pc' = [pc EXCEPT ![p] = "line"]
  /\ overlap' = Others(p) /\ silenced' = FALSE
  /\ UNCHANGED to

\* initActiveExec, initMysqlAndPub: the first publication, under the mutex.
FirstStart ==
  /\ isFirstStart /\ pc["timer"] = "idle" /\ mutexExecs = Nobody
  /\ mutexExecs' = "timer"
  /\ Read("timer", pool)
  /\ UNCHANGED <<pool, isFirstStart, subscribed, asked, wire, subscriber, missed>>

\* A round of a timer, or a command, changes the pool and publishes it, all
\* under the mutex. Before isFirstStart = false syncAndPub does nothing.
Change(p) ==
  /\ pc[p] \in {"idle", "update"} /\ mutexExecs = Nobody
  /\ pool < MaxVersion /\ pool' = pool + 1
  /\ IF isFirstStart
     THEN /\ p = "main" /\ pc' = [pc EXCEPT ![p] = "idle"]
          /\ UNCHANGED <<mutexExecs, snap, to, overlap, silenced>>
     ELSE mutexExecs' = p /\ Read(p, pool + 1)
  /\ UNCHANGED <<isFirstStart, subscribed, asked, wire, subscriber, missed>>

\* doUpdateConfig, doUpdateScweight: no mutex. Only a changed switch goes on
\* as Change("main").
Command ==
  /\ pc["main"] = "idle" /\ Len(wire) + Len(input) < Room
  /\ pc' = [pc EXCEPT !["main"] = "update"]
  /\ UNCHANGED <<service, snap, to, subscribed, asked, wire, subscriber, history>>

\* syncPolicyFromMysql, syncExecFromMysql: one value after the other, an
\* executor after the other, whatever the timers do meanwhile.
Sync ==
  /\ pc["main"] = "update" /\ pool < MaxVersion
  /\ pool' = pool + 1
  /\ UNCHANGED <<isFirstStart, mutexExecs, publishing, subscribed, asked, wire, subscriber, history>>

\* syncAndPub of the main loop without the mutex.
Snapshot ==
  /\ pc["main"] \in {"update", "snapshot"}
  /\ IF isFirstStart
     THEN /\ pc' = [pc EXCEPT !["main"] = "idle"]
          /\ silenced' = (silenced \/ (pc["timer"] # "idle" /\ snap["timer"] # pool))
          /\ UNCHANGED <<snap, to, overlap>>
     ELSE Read("main", pool)
  /\ UNCHANGED <<service, subscribed, asked, wire, subscriber, missed>>

WriteLine(p) ==
  /\ pc[p] = "line"
  /\ pc' = [pc EXCEPT ![p] = "blank"]
  /\ to' = [to EXCEPT ![p] = subscribed]
  /\ wire' = IF subscribed THEN Append(wire, snap[p]) ELSE wire
  /\ missed' = (missed /\ ~subscribed)
  /\ UNCHANGED <<service, snap, subscribed, asked, subscriber, overlap, silenced>>

\* p is done, and frees the mutex if it has it.
WriteBlank(p) ==
  /\ pc[p] = "blank"
  /\ wire' = IF to[p] THEN Append(wire, Blank) ELSE wire
  /\ IF p = "timer" /\ isFirstStart
     THEN pc' = [pc EXCEPT ![p] = "flag"] /\ UNCHANGED mutexExecs
     ELSE /\ pc' = [pc EXCEPT ![p] = "idle"]
          /\ mutexExecs' = IF mutexExecs = p THEN Nobody ELSE mutexExecs
  /\ UNCHANGED <<pool, isFirstStart, snap, to, subscribed, asked, subscriber, history>>

\* execAutoReportCb after initMysqlAndPub.
FirstStartEnds ==
  /\ pc["timer"] = "flag"
  /\ isFirstStart' = FALSE /\ mutexExecs' = Nobody
  /\ pc' = [pc EXCEPT !["timer"] = "idle"]
  /\ UNCHANGED <<pool, snap, to, subscribed, asked, wire, subscriber, history>>

\* Mutant: the new subscriber waits for the next publication.
doSubscribe_NoSnapshot ==
  /\ pc["main"] = "idle" /\ asked
  /\ asked' = FALSE /\ subscribed' = TRUE
  /\ UNCHANGED <<service, publishing, wire, subscriber, history>>

\* doSubscribe: into subscribeBevs, then a snapshot for it alone.
doSubscribe ==
  /\ pc["main"] = "idle" /\ asked
  /\ asked' = FALSE /\ subscribed' = TRUE
  /\ pc' = [pc EXCEPT !["main"] = "snapshot"]
  /\ missed' = (isFirstStart /\ pc["timer"] \in {"blank", "flag"})
  /\ UNCHANGED <<service, snap, to, wire, subscriber, overlap, silenced>>

-----------------------------------------------------------------------------
(* The subscriber *)

\* The first empty line of q, or the place behind it.
FirstBlank(q) == Min({i \in 1..Len(q) : q[i] = Blank} \cup {Len(q) + 1})

\* fillExecMap, setPolicys: each of the lines of q before place b takes the
\* place of the one before it.
fillExecMap(q, b) == copy' = IF b = 1 THEN copy ELSE q[b - 1]

\* Mutant: an empty line is taken for a snapshot.
readCb_BlankTaken(q) ==
  /\ copy' = Last(q)
  /\ input' = <<>>

\* The lines before the first empty one are taken, one after the other; that
\* one ends the callback, and what is behind it stays until more comes.
readCb(q) ==
  LET b == FirstBlank(q)
  IN /\ fillExecMap(q, b)
     /\ input' = SubSeq(q, b + 1, Len(q))

\* The first k lines on their way arrive.
Deliver(k) ==
  /\ link = "up" /\ k \in 1..Len(wire)
  /\ wire' = SubSeq(wire, k + 1, Len(wire))
  /\ readCb(input \o SubSeq(wire, 1, k))
  /\ UNCHANGED <<service, publishing, subscribed, asked, link, history>>

\* The connection breaks; both sides free their ends, and what was written to
\* it is lost (eventCb of both).
Break ==
  /\ link = "up" /\ link' = "lost"
  /\ subscribed' = FALSE /\ asked' = FALSE /\ missed' = FALSE
  /\ wire' = <<>> /\ input' = <<>>
  /\ to' = [p \in Publisher |-> FALSE]
  /\ UNCHANGED <<service, pc, snap, copy, overlap, silenced>>

\* After five seconds.
subscribe ==
  /\ link = "lost" /\ link' = "connecting"
  /\ UNCHANGED <<service, publishing, subscribed, asked, wire, input, copy, history>>

Refused ==
  /\ link = "connecting" /\ link' = "lost"
  /\ UNCHANGED <<service, publishing, subscribed, asked, wire, input, copy, history>>

\* Mutant: the new connection asks for nothing.
Connected_Mute ==
  /\ link = "connecting" /\ link' = "up"
  /\ UNCHANGED <<service, publishing, subscribed, asked, wire, input, copy, history>>

\* BEV_EVENT_CONNECTED: the message "subscribe" is written.
Connected ==
  /\ link = "connecting" /\ link' = "up"
  /\ asked' = TRUE
  /\ UNCHANGED <<service, publishing, subscribed, wire, input, copy, history>>

-----------------------------------------------------------------------------
Init ==
  /\ pool = 1 /\ isFirstStart = TRUE /\ mutexExecs = Nobody
  /\ pc = [p \in Publisher |-> "idle"]
  /\ snap = [p \in Publisher |-> 1]
  /\ to = [p \in Publisher |-> FALSE]
  /\ subscribed = FALSE /\ asked = FALSE /\ wire = <<>>
  /\ link = "connecting" /\ input = <<>> /\ copy = 0
  /\ overlap = FALSE /\ missed = FALSE /\ silenced = FALSE

Publishes(p) == WriteLine(p) \/ WriteBlank(p)
Arrives == \E k \in 1..Len(wire) : Deliver(k)

Next ==
  \/ FirstStart \/ FirstStartEnds
  \/ \E p \in Publisher : Change(p) \/ Publishes(p)
  \/ Command \/ Sync \/ Snapshot \/ doSubscribe
  \/ Arrives \/ Break
  \/ subscribe \/ Refused \/ Connected

\* Whoever publishes goes on, the main loop comes to each connection with
\* something to read between commands of others, lines arrive, the subscriber
\* tries again. The pool, commands and failures owe nothing.
Fairness ==
  /\ \A p \in Publisher : WF_vars(Publishes(p))
  /\ WF_vars(Snapshot) /\ WF_vars(FirstStartEnds) /\ SF_vars(doSubscribe)
  /\ WF_vars(Arrives) /\ WF_vars(subscribe) /\ WF_vars(Connected)

Spec == Init /\ [][Next]_vars
FairSpec == Spec /\ Fairness

-----------------------------------------------------------------------------
(* Properties *)

\* Every variable has its type; a snapshot is the JSON of one, never an empty
\* line (readCb).
TypeOK ==
  /\ pool \in Version /\ isFirstStart \in BOOLEAN
  /\ mutexExecs \in Publisher \cup {Nobody}
  /\ pc \in [Publisher -> {"idle", "update", "snapshot", "line", "blank", "flag"}]
  /\ snap \in [Publisher -> Version] /\ to \in [Publisher -> BOOLEAN]
  /\ subscribed \in BOOLEAN /\ asked \in BOOLEAN
  /\ wire \in Seq(Line) /\ input \in Seq(Line)
  /\ link \in {"lost", "connecting", "up"} /\ copy \in Version \cup {0}
  /\ overlap \in BOOLEAN /\ missed \in BOOLEAN /\ silenced \in BOOLEAN

\* What a subscriber will have worked with when it has taken all that is on
\* its way: the last line of these that is not empty.
LastFilled(q) == q[Max({i \in 1..Len(q) : q[i] # Blank})]
Newest == LastFilled(<<copy>> \o input \o wire)

\* A subscriber has the pool as it is, or the pool as it is comes last of what
\* it has yet to take: no change, subscription, loss or leftover of readCb
\* gets between. Not so when publications overlapped (syncAndPub without the
\* mutex), until the next one; nor, until the next one, between the first
\* publication and isFirstStart = false, when syncAndPub returns: for a
\* subscriber that came then, and for a policy or lists that changed then.
NewestUnderway ==
  subscribed /\ ~isFirstStart /\ Idle /\ ~overlap /\ ~missed /\ ~silenced
    => Newest = pool

\* The oldest version that anybody may yet write.
Oldest == Min({pool} \cup {snap[p] : p \in {q \in Publisher : pc[q] = "line"}})

\* After the last loss of the connection the subscriber gets, some time, the
\* pool it missed or a newer one (eventCb of MimicSuber, doSubscribe).
Resubscribed ==
  <>[][~Break /\ ~Refused]_vars =>
    \A v \in Version : (link = "lost" /\ Oldest = v /\ ~isFirstStart) ~> copy >= v

-----------------------------------------------------------------------------
(* What the code says of itself, and does not keep *)

\* src/mimic_schedule.cpp:241 logs "pub to subscribe" for each snapshot written:
\* whoever has received all that was written would have taken all of it.
ReceivedIsTaken ==
  subscribed /\ Idle /\ wire = <<>> => \A i \in 1..Len(input) : input[i] = Blank

=============================================================================
