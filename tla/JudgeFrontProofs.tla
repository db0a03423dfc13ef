-------------------------- MODULE JudgeFrontProofs --------------------------
(* Theorems about JudgeFront, for any connections, threads and sizes. *)
EXTENDS JudgeFront, FiniteSetTheorems, TLAPS

\* A thread is in the middle of one callback at a time.
OneCallback ==
  /\ \A c, d \in Conn :
       ThreadOf[c] = ThreadOf[d] /\ step[c] \in HttpSteps /\ step[d] \in HttpSteps => c = d
  /\ \A c, d \in Conn :
       to[c] = to[d] /\ step[c] = "answering" /\ step[d] = "answering" => c = d

\* The mutex is held by the thread that sends, and by no other.
Holder ==
  /\ \A c \in Conn : step[c] = "sending" => mutexInPj = ThreadOf[c]
  /\ mutexInPj # Nobody => \E c \in Conn : step[c] = "sending" /\ ThreadOf[c] = mutexInPj

\* What a list holds is a request of its thread that has not ended.
Entries ==
  \A t \in Http, n \in 0..MaxSn : frontReqList[t][n] # NoConn =>
    LET c == frontReqList[t][n]
    IN num[c] = n /\ ThreadOf[c] = t /\ conn[c] # "idle" /\ step[c] # "new"

\* Without a clash a request is on its thread's list until it ends.
Tracked ==
  clash \/ \A c \in Conn :
    /\ conn[c] = "waiting" <=> step[c] \in InFlight \cup {"new"}
    /\ conn[c] # "idle" /\ step[c] # "new" => frontReqList[ThreadOf[c]][num[c]] = c

\* What a request's step says of its connection, whatever numbers do.
Starting == \A c \in Conn : step[c] = "new" => conn[c] = "waiting"
Ended    == \A c \in Conn : step[c] = "leaving" => conn[c] = "answered"

\* What is in a pipe is on its way, to this thread, and once.
ThreadPipes == \A j \in Judge :
  /\ \A i \in 1..Len(threadFd[j]) : step[threadFd[j][i]] = "threadFd" /\ to[threadFd[j][i]] = j
  /\ \A i, k \in 1..Len(threadFd[j]) : threadFd[j][i] = threadFd[j][k] => i = k

CtlPipes == \A t \in Http :
  /\ \A i \in 1..Len(ctlFd[t]) : step[ctlFd[t][i]] = "ctlFd" /\ ThreadOf[ctlFd[t][i]] = t
  /\ \A i, k \in 1..Len(ctlFd[t]) : ctlFd[t][i] = ctlFd[t][k] => i = k

Piped == ThreadPipes /\ CtlPipes

Inv == TypeOK /\ OneCallback /\ Holder /\ Entries /\ Tracked /\ Starting /\ Ended /\ Piped

-----------------------------------------------------------------------------
(* The steps that wait for the mutex or change a pipe, one lemma each *)

LEMMA Types == TypeOK /\ [Next]_vars => TypeOK'
<1> USE ConnAssumption, SizeAssumption, NoneAssumption DEF TypeOK, Step, HttpSteps, InFlight, pipes
<1>1. ASSUME TypeOK, NEW c \in Conn, NEW j \in Judge, allReqCallback(c, j) PROVE TypeOK'
  BY <1>1 DEF allReqCallback, GoTo
<1>2. ASSUME TypeOK, NEW c \in Conn, initJudgeData(c) PROVE TypeOK'
  <2>1. Number \in 0..MaxSn - 1
    BY <1>2 DEF Number
  <2>2. frontReqList' \in [Http -> [0..MaxSn -> Conn \cup {NoConn}]]
    BY <1>2, <2>1 DEF initJudgeData, Listed
  <2> QED
    BY <1>2, <2>1, <2>2 DEF initJudgeData, GoTo
<1>3. ASSUME TypeOK, NEW c \in Conn, LockToSend(c) PROVE TypeOK'
  BY <1>3 DEF LockToSend, GoTo
<1>4. ASSUME TypeOK, NEW c \in Conn, Send(c) PROVE TypeOK'
  BY <1>4 DEF Send, GoTo
<1>5. ASSUME TypeOK, NEW c \in Conn, Answer(c) \/ NoReply(c) PROVE TypeOK'
  BY <1>5 DEF Answer, NoReply, GoTo
<1>6. ASSUME TypeOK, NEW c \in Conn, WriteReply(c) PROVE TypeOK'
  BY <1>6 DEF WriteReply, GoTo
<1>7. ASSUME TypeOK, NEW c \in Conn, replyToFront(c) PROVE TypeOK'
  BY <1>7 DEF replyToFront, Found, GoTo
<1>8. ASSUME TypeOK, NEW c \in Conn, RequestEnds(c) PROVE TypeOK'
  BY <1>8 DEF RequestEnds, Paused, GoTo
<1>9. ASSUME TypeOK, NEW c \in Conn, reqFinishCb(c) PROVE TypeOK'
  BY <1>9 DEF reqFinishCb, Unlisted, GoTo
<1>10. ASSUME TypeOK, NEW j \in Judge, jthreadReadCb(j) PROVE TypeOK'
  BY <1>10 DEF jthreadReadCb, GoTo
<1>11. ASSUME TypeOK, NEW t \in Http, ReadReply(t) PROVE TypeOK'
  BY <1>11 DEF ReadReply, GoTo
<1>12. ASSUME TypeOK, UNCHANGED vars PROVE TypeOK'
  BY <1>12 DEF vars, request, pipes
<1> QED
  BY <1>1, <1>2, <1>3, <1>4, <1>5, <1>6, <1>7, <1>8, <1>9, <1>10, <1>11, <1>12 DEF Next

\* What the two operations of a pipe do to the places in it.
LEMMA Appended ==
  ASSUME NEW S, NEW q \in Seq(S), NEW e \in S
  PROVE  /\ Len(Append(q, e)) = Len(q) + 1
         /\ \A i \in 1..Len(q) : Append(q, e)[i] = q[i] /\ q[i] \in S
         /\ Append(q, e)[Len(q) + 1] = e
  OBVIOUS

LEMMA Tailed ==
  ASSUME NEW S, NEW q \in Seq(S), q # <<>>
  PROVE  /\ Len(q) \in Nat \ {0} /\ Len(Tail(q)) = Len(q) - 1
         /\ \A i \in 1..Len(q) - 1 : Tail(q)[i] = q[i + 1]
         /\ Head(q) = q[1] /\ \A i \in 1..Len(q) : q[i] \in S
  OBVIOUS

LEMMA Contents ==
  ASSUME TypeOK
  PROVE  /\ \A j \in Judge : \A i \in 1..Len(threadFd[j]) : threadFd[j][i] \in Conn
         /\ \A t \in Http : \A i \in 1..Len(ctlFd[t]) : ctlFd[t][i] \in Conn
         /\ \A t \in Http, n \in 0..MaxSn : frontReqList[t][n] # NoConn => frontReqList[t][n] \in Conn
<1>1. \A j \in Judge : \A i \in 1..Len(threadFd[j]) : threadFd[j][i] \in Conn
  BY DEF TypeOK
<1>2. \A t \in Http : \A i \in 1..Len(ctlFd[t]) : ctlFd[t][i] \in Conn
  BY DEF TypeOK
<1>3. ASSUME NEW t \in Http, NEW n \in 0..MaxSn, frontReqList[t][n] # NoConn
      PROVE  frontReqList[t][n] \in Conn
  <2>1. frontReqList[t] \in [0..MaxSn -> Conn \cup {NoConn}]
    BY DEF TypeOK
  <2> QED
    BY <1>3, <2>1
<1> QED
  BY <1>1, <1>2, <1>3

\* A step that leaves the pipes and what is in them alone keeps their invariant.
LEMMA ThreadPipesKept ==
  ASSUME TypeOK, ThreadPipes, UNCHANGED threadFd,
         \A c \in Conn : step[c] = "threadFd" => step'[c] = step[c] /\ to'[c] = to[c]
  PROVE  ThreadPipes'
  BY Contents DEF ThreadPipes

LEMMA CtlPipesKept ==
  ASSUME TypeOK, CtlPipes, UNCHANGED ctlFd,
         \A c \in Conn : step[c] = "ctlFd" => step'[c] = step[c]
  PROVE  CtlPipes'
  BY Contents DEF CtlPipes

LEMMA PipesKept ==
  ASSUME TypeOK, Piped, UNCHANGED pipes,
         \A c \in Conn : step[c] \in {"threadFd", "ctlFd"} =>
           step'[c] = step[c] /\ to'[c] = to[c]
  PROVE  Piped'
  BY ThreadPipesKept, CtlPipesKept DEF Piped, pipes

LEMMA Inductive == Inv /\ [Next]_vars => Inv'
<1> SUFFICES ASSUME Inv, [Next]_vars PROVE Inv'
  OBVIOUS
<1> USE ConnAssumption, SizeAssumption, NoneAssumption DEF HttpSteps, InFlight, Step, GoTo, pipes
<1>0. TypeOK /\ TypeOK'
  BY Types DEF Inv
<1>1. ASSUME NEW c \in Conn, NEW j \in Judge, allReqCallback(c, j) PROVE Inv'
  <2>1. OneCallback'
    <3>1. /\ step'[c] = "new" /\ \A d \in Conn : d # c => step'[d] = step[d]
          /\ \A d \in Conn : d # c => to'[d] = to[d]
          /\ \A d \in Conn : ThreadOf[d] = ThreadOf[c] => step[d] \notin HttpSteps
      BY <1>0, <1>1 DEF TypeOK, allReqCallback, Busy
    <3> QED
      BY <3>1 DEF Inv, OneCallback
  <2>2. Holder'
    BY <1>0, <1>1 DEF Inv, TypeOK, allReqCallback, Holder
  <2>3. Entries'
    BY <1>0, <1>1 DEF Inv, TypeOK, allReqCallback, Entries
  <2>4. Tracked'
    BY <1>0, <1>1 DEF Inv, TypeOK, allReqCallback, Tracked
  <2>5. Starting' /\ Ended'
    BY <1>0, <1>1 DEF Inv, TypeOK, allReqCallback, Starting, Ended
  <2>6. Piped'
    BY <1>0, <1>1, PipesKept DEF Inv, TypeOK, allReqCallback
  <2> QED
    BY <1>0, <2>1, <2>2, <2>3, <2>4, <2>5, <2>6 DEF Inv
<1>2. ASSUME NEW c \in Conn, initJudgeData(c) PROVE Inv'
  <2>1. OneCallback'
    BY <1>0, <1>2 DEF Inv, TypeOK, initJudgeData, Listed, Number, OneCallback
  <2>2. Holder'
    BY <1>0, <1>2 DEF Inv, TypeOK, initJudgeData, Listed, Number, Holder
  <2>3. Entries'
    <3> SUFFICES ASSUME NEW t \in Http, NEW n \in 0..MaxSn, frontReqList'[t][n] # NoConn
                 PROVE  LET d == frontReqList'[t][n]
                        IN num'[d] = n /\ ThreadOf[d] = t /\ conn'[d] # "idle" /\ step'[d] # "new"
      BY DEF Entries
    <3>1. Number \in 0..MaxSn
      BY <1>0 DEF TypeOK, Number
    <3>2. CASE frontReqList'[t][n] = frontReqList[t][n]
      BY <1>0, <1>2, <3>2 DEF Inv, TypeOK, initJudgeData, Entries
    <3>3. CASE frontReqList'[t][n] # frontReqList[t][n]
      <4>1. t = ThreadOf[c] /\ n = Number /\ frontReqList'[t][n] = c
        BY <1>0, <1>2, <3>1, <3>3 DEF TypeOK, initJudgeData, Listed
      <4>2. conn[c] = "waiting"
        BY <1>0, <1>2 DEF Inv, TypeOK, Starting, initJudgeData
      <4> QED
        BY <1>0, <1>2, <4>1, <4>2 DEF TypeOK, initJudgeData
    <3> QED
      BY <3>2, <3>3
  <2>4. Tracked'
    <3> SUFFICES ASSUME ~clash' PROVE Tracked'
      BY DEF Tracked
    <3>1. Number \in 0..MaxSn
      BY <1>0 DEF TypeOK, Number
    <3>3. frontReqList[ThreadOf[c]][Number] = NoConn /\ ~clash
      BY <1>0, <1>2 DEF TypeOK, initJudgeData
    <3>2. frontReqList' = [frontReqList EXCEPT ![ThreadOf[c]][Number] = c]
      BY <1>2, <3>3 DEF initJudgeData, Listed
    <3> QED
      BY <1>0, <1>2, <3>1, <3>2, <3>3 DEF Inv, TypeOK, initJudgeData, Tracked
  <2>5. Starting' /\ Ended'
    BY <1>0, <1>2 DEF Inv, TypeOK, initJudgeData, Listed, Number, Starting, Ended
  <2>6. Piped'
    BY <1>0, <1>2, PipesKept DEF Inv, TypeOK, initJudgeData
  <2> QED
    BY <1>0, <2>1, <2>2, <2>3, <2>4, <2>5, <2>6 DEF Inv
<1>3. ASSUME NEW c \in Conn, LockToSend(c) PROVE Inv'
  <2>1. OneCallback'
    BY <1>0, <1>3 DEF Inv, TypeOK, LockToSend, OneCallback
  <2>2. Holder'
    BY <1>0, <1>3 DEF Inv, TypeOK, LockToSend, Holder
  <2>3. Entries'
    BY <1>0, <1>3 DEF Inv, TypeOK, LockToSend, Entries
  <2>4. Tracked'
    BY <1>0, <1>3 DEF Inv, TypeOK, LockToSend, Tracked
  <2>5. Starting' /\ Ended'
    BY <1>0, <1>3 DEF Inv, TypeOK, LockToSend, Starting, Ended
  <2>6. Piped'
    BY <1>0, <1>3, PipesKept DEF Inv, TypeOK, LockToSend
  <2> QED
    BY <1>0, <2>1, <2>2, <2>3, <2>4, <2>5, <2>6 DEF Inv
<1>4. ASSUME NEW c \in Conn, Send(c) PROVE Inv'
  <2>1. OneCallback'
    BY <1>0, <1>4 DEF Inv, TypeOK, Send, OneCallback
  <2>2. Holder'
    BY <1>0, <1>4 DEF Inv, TypeOK, Send, Holder, OneCallback
  <2>3. Entries'
    BY <1>0, <1>4 DEF Inv, TypeOK, Send, Entries
  <2>4. Tracked'
    BY <1>0, <1>4 DEF Inv, TypeOK, Send, Tracked
  <2>5. Starting' /\ Ended'
    BY <1>0, <1>4 DEF Inv, TypeOK, Send, Starting, Ended
  <2>6. Piped'
    <3>1. CtlPipes'
      BY <1>0, <1>4, CtlPipesKept DEF Inv, TypeOK, Send, Piped
    <3>2. \A x \in Judge : \A i \in 1..Len(threadFd[x]) : threadFd[x][i] \in Conn /\ threadFd[x][i] # c
      BY <1>0, <1>4, Contents DEF Inv, Send, Piped, ThreadPipes
    <3>3. ASSUME NEW x \in Judge, x # to[c]
          PROVE  /\ \A i \in 1..Len(threadFd'[x]) : step'[threadFd'[x][i]] = "threadFd" /\ to'[threadFd'[x][i]] = x
                 /\ \A i, k \in 1..Len(threadFd'[x]) : threadFd'[x][i] = threadFd'[x][k] => i = k
      <4>1. threadFd'[x] = threadFd[x] /\ to' = to /\ \A d \in Conn : d # c => step'[d] = step[d]
        BY <1>0, <1>4, <3>3 DEF TypeOK, Send
      <4> QED
        BY <3>2, <4>1 DEF Inv, Piped, ThreadPipes
    <3>4. ASSUME NEW x \in Judge, x = to[c]
          PROVE  /\ \A i \in 1..Len(threadFd'[x]) : step'[threadFd'[x][i]] = "threadFd" /\ to'[threadFd'[x][i]] = x
                 /\ \A i, k \in 1..Len(threadFd'[x]) : threadFd'[x][i] = threadFd'[x][k] => i = k
      <4>1. /\ threadFd'[x] = Append(threadFd[x], c) /\ to' = to
            /\ step'[c] = "threadFd" /\ \A d \in Conn : d # c => step'[d] = step[d]
        BY <1>0, <1>4, <3>4 DEF TypeOK, Send
      <4>2. threadFd[x] \in Seq(Conn) /\ Len(threadFd[x]) \in Nat
        BY <1>0 DEF TypeOK
      <4>3. /\ Len(threadFd'[x]) = Len(threadFd[x]) + 1 /\ threadFd'[x][Len(threadFd[x]) + 1] = c
            /\ \A i \in 1..Len(threadFd[x]) : threadFd'[x][i] = threadFd[x][i]
        BY <4>1, <4>2, Appended
      <4>4. ASSUME NEW i \in 1..Len(threadFd'[x])
            PROVE  \/ i \in 1..Len(threadFd[x]) /\ threadFd'[x][i] = threadFd[x][i] /\ threadFd'[x][i] # c
                   \/ i = Len(threadFd[x]) + 1 /\ threadFd'[x][i] = c
        BY <3>2, <4>2, <4>3
      <4>5. \A i \in 1..Len(threadFd'[x]) : step'[threadFd'[x][i]] = "threadFd" /\ to'[threadFd'[x][i]] = x
        BY <3>2, <3>4, <4>1, <4>4 DEF Inv, Piped, ThreadPipes
      <4>6. \A i, k \in 1..Len(threadFd'[x]) : threadFd'[x][i] = threadFd'[x][k] => i = k
        BY <4>4 DEF Inv, Piped, ThreadPipes
      <4> QED
        BY <4>5, <4>6
    <3>5. ThreadPipes'
      BY <3>3, <3>4 DEF ThreadPipes
    <3> QED
      BY <3>1, <3>5 DEF Piped
  <2> QED
    BY <1>0, <2>1, <2>2, <2>3, <2>4, <2>5, <2>6 DEF Inv
<1>5. ASSUME NEW c \in Conn, Answer(c) \/ NoReply(c) PROVE Inv'
  <2>1. OneCallback'
    <3>1. CASE Answer(c)
      BY <1>0, <3>1 DEF Inv, TypeOK, Answer, OneCallback, Answering
    <3>2. CASE NoReply(c)
      BY <1>0, <3>2 DEF Inv, TypeOK, NoReply, OneCallback
    <3> QED
      BY <1>5, <3>1, <3>2
  <2>2. Holder'
    BY <1>0, <1>5 DEF Inv, TypeOK, Answer, NoReply, Holder
  <2>3. Entries'
    BY <1>0, <1>5 DEF Inv, TypeOK, Answer, NoReply, Entries
  <2>4. Tracked'
    BY <1>0, <1>5 DEF Inv, TypeOK, Answer, NoReply, Tracked
  <2>5. Starting' /\ Ended'
    BY <1>0, <1>5 DEF Inv, TypeOK, Answer, NoReply, Starting, Ended
  <2>6. Piped'
    BY <1>0, <1>5, PipesKept DEF Inv, TypeOK, Answer, NoReply
  <2> QED
    BY <1>0, <2>1, <2>2, <2>3, <2>4, <2>5, <2>6 DEF Inv
<1>6. ASSUME NEW c \in Conn, WriteReply(c) PROVE Inv'
  <2>1. OneCallback'
    BY <1>0, <1>6 DEF Inv, TypeOK, WriteReply, OneCallback
  <2>2. Holder'
    BY <1>0, <1>6 DEF Inv, TypeOK, WriteReply, Holder
  <2>3. Entries'
    BY <1>0, <1>6 DEF Inv, TypeOK, WriteReply, Entries
  <2>4. Tracked'
    BY <1>0, <1>6 DEF Inv, TypeOK, WriteReply, Tracked
  <2>5. Starting' /\ Ended'
    BY <1>0, <1>6 DEF Inv, TypeOK, WriteReply, Starting, Ended
  <2>6. Piped'
    <3>1. ThreadPipes'
      BY <1>0, <1>6, ThreadPipesKept DEF Inv, TypeOK, WriteReply, Piped
    <3>2. \A x \in Http : \A i \in 1..Len(ctlFd[x]) : ctlFd[x][i] \in Conn /\ ctlFd[x][i] # c
      BY <1>0, <1>6, Contents DEF Inv, WriteReply, Piped, CtlPipes
    <3>3. ASSUME NEW x \in Http, x # ThreadOf[c]
          PROVE  /\ \A i \in 1..Len(ctlFd'[x]) : step'[ctlFd'[x][i]] = "ctlFd" /\ ThreadOf[ctlFd'[x][i]] = x
                 /\ \A i, k \in 1..Len(ctlFd'[x]) : ctlFd'[x][i] = ctlFd'[x][k] => i = k
      <4>1. ctlFd'[x] = ctlFd[x] /\ \A d \in Conn : d # c => step'[d] = step[d]
        BY <1>0, <1>6, <3>3 DEF TypeOK, WriteReply
      <4> QED
        BY <3>2, <4>1 DEF Inv, Piped, CtlPipes
    <3>4. ASSUME NEW x \in Http, x = ThreadOf[c]
          PROVE  /\ \A i \in 1..Len(ctlFd'[x]) : step'[ctlFd'[x][i]] = "ctlFd" /\ ThreadOf[ctlFd'[x][i]] = x
                 /\ \A i, k \in 1..Len(ctlFd'[x]) : ctlFd'[x][i] = ctlFd'[x][k] => i = k
      <4>1. /\ ctlFd'[x] = Append(ctlFd[x], c)
            /\ step'[c] = "ctlFd" /\ \A d \in Conn : d # c => step'[d] = step[d]
        BY <1>0, <1>6, <3>4 DEF TypeOK, WriteReply
      <4>2. ctlFd[x] \in Seq(Conn) /\ Len(ctlFd[x]) \in Nat
        BY <1>0 DEF TypeOK
      <4>3. /\ Len(ctlFd'[x]) = Len(ctlFd[x]) + 1 /\ ctlFd'[x][Len(ctlFd[x]) + 1] = c
            /\ \A i \in 1..Len(ctlFd[x]) : ctlFd'[x][i] = ctlFd[x][i]
        BY <4>1, <4>2, Appended
      <4>4. ASSUME NEW i \in 1..Len(ctlFd'[x])
            PROVE  \/ i \in 1..Len(ctlFd[x]) /\ ctlFd'[x][i] = ctlFd[x][i] /\ ctlFd'[x][i] # c
                   \/ i = Len(ctlFd[x]) + 1 /\ ctlFd'[x][i] = c
        BY <3>2, <4>2, <4>3
      <4>5. \A i \in 1..Len(ctlFd'[x]) : step'[ctlFd'[x][i]] = "ctlFd" /\ ThreadOf[ctlFd'[x][i]] = x
        BY <3>2, <3>4, <4>1, <4>4 DEF Inv, Piped, CtlPipes
      <4>6. \A i, k \in 1..Len(ctlFd'[x]) : ctlFd'[x][i] = ctlFd'[x][k] => i = k
        BY <4>4 DEF Inv, Piped, CtlPipes
      <4> QED
        BY <4>5, <4>6
    <3>5. CtlPipes'
      BY <3>3, <3>4 DEF CtlPipes
    <3> QED
      BY <3>1, <3>5 DEF Piped
  <2> QED
    BY <1>0, <2>1, <2>2, <2>3, <2>4, <2>5, <2>6 DEF Inv
<1>7. ASSUME NEW c \in Conn, replyToFront(c) PROVE Inv'
  <2>1. OneCallback'
    BY <1>0, <1>7 DEF Inv, TypeOK, replyToFront, Found, OneCallback
  <2>2. Holder'
    BY <1>0, <1>7 DEF Inv, TypeOK, replyToFront, Found, Holder, Entries
  <2>3. Entries'
    BY <1>0, <1>7 DEF Inv, TypeOK, replyToFront, Found, Entries
  <2>4. Tracked'
    BY <1>0, <1>7 DEF Inv, TypeOK, replyToFront, Found, Tracked
  <2>5. Starting' /\ Ended'
    <3> DEFINE r == Found(c)
    <3>1. /\ step'[c] = "none" /\ \A d \in Conn : d # c => step'[d] = step[d]
          /\ \A d \in Conn : d # r => conn'[d] = conn[d]
          /\ r \in Conn /\ conn[r] # "idle" => conn'[r] = "answered"
          /\ r \in Conn /\ conn[r] = "idle" => conn'[r] = "idle"
      BY <1>0, <1>7 DEF TypeOK, replyToFront, Found
    <3>2. r \in Conn => step[r] # "new" /\ conn[r] # "idle"
      <4>1. ThreadOf[c] \in Http /\ num[c] \in 0..MaxSn
        BY <1>0 DEF TypeOK
      <4> QED
        BY <4>1 DEF Inv, Entries, Found
    <3> QED
      BY <3>1, <3>2 DEF Inv, Starting, Ended
  <2>6. Piped'
    BY <1>0, <1>7, PipesKept DEF Inv, TypeOK, replyToFront
  <2> QED
    BY <1>0, <2>1, <2>2, <2>3, <2>4, <2>5, <2>6 DEF Inv
<1>8. ASSUME NEW c \in Conn, RequestEnds(c) PROVE Inv'
  <2>1. OneCallback'
    <3>1. step' = [step EXCEPT ![c] = "leaving"]
      BY <1>0, <1>8 DEF TypeOK, RequestEnds, Paused
    <3> QED
      BY <1>0, <1>8, <3>1 DEF Inv, TypeOK, RequestEnds, OneCallback, Busy
  <2>2. Holder'
    BY <1>0, <1>8 DEF Inv, TypeOK, RequestEnds, Paused, Holder
  <2>3. Entries'
    BY <1>0, <1>8 DEF Inv, TypeOK, RequestEnds, Paused, Entries
  <2>4. Tracked'
    BY <1>0, <1>8 DEF Inv, TypeOK, RequestEnds, Paused, Tracked
  <2>5. Starting' /\ Ended'
    BY <1>0, <1>8 DEF Inv, TypeOK, RequestEnds, Paused, Starting, Ended
  <2>6. Piped'
    BY <1>0, <1>8, PipesKept DEF Inv, TypeOK, RequestEnds
  <2> QED
    BY <1>0, <2>1, <2>2, <2>3, <2>4, <2>5, <2>6 DEF Inv
<1>9. ASSUME NEW c \in Conn, reqFinishCb(c) PROVE Inv'
  <2>1. OneCallback'
    BY <1>0, <1>9 DEF Inv, TypeOK, reqFinishCb, Unlisted, OneCallback
  <2>2. Holder'
    BY <1>0, <1>9 DEF Inv, TypeOK, reqFinishCb, Unlisted, Holder
  <2>3. Entries'
    BY <1>0, <1>9 DEF Inv, TypeOK, reqFinishCb, Unlisted, Entries
  <2>4. Tracked'
    <3> SUFFICES ASSUME ~clash PROVE Tracked'
      BY <1>9 DEF Tracked, reqFinishCb
    <3>1. frontReqList[ThreadOf[c]][num[c]] = c
      BY <1>0, <1>9 DEF Inv, Tracked, Ended, reqFinishCb
    <3> QED
      BY <1>0, <1>9, <3>1 DEF Inv, TypeOK, reqFinishCb, Unlisted, Tracked
  <2>5. Starting' /\ Ended'
    BY <1>0, <1>9 DEF Inv, TypeOK, reqFinishCb, Unlisted, Starting, Ended
  <2>6. Piped'
    BY <1>0, <1>9, PipesKept DEF Inv, TypeOK, reqFinishCb
  <2> QED
    BY <1>0, <2>1, <2>2, <2>3, <2>4, <2>5, <2>6 DEF Inv
<1>10. ASSUME NEW j \in Judge, jthreadReadCb(j) PROVE Inv'
  <2>1. threadFd[j] \in Seq(Conn) /\ threadFd[j] # <<>>
    BY <1>0, <1>10 DEF TypeOK, jthreadReadCb
  <2> PICK c \in Conn : c = threadFd[j][1] /\ c = Head(threadFd[j])
    BY <2>1, Tailed
  <2>2. step[c] = "threadFd" /\ to[c] = j
    BY <2>1, Tailed DEF Inv, Piped, ThreadPipes
  <2>3. /\ UNCHANGED <<conn, to, num, sn, frontReqList, mutexInPj, ctlFd, clash>>
        /\ step'[c] = "judged" /\ \A d \in Conn : d # c => step'[d] = step[d]
        /\ threadFd'[j] = Tail(threadFd[j]) /\ \A x \in Judge : x # j => threadFd'[x] = threadFd[x]
        /\ ~Answering(j)
    BY <1>0, <1>10 DEF TypeOK, jthreadReadCb
  <2>4. OneCallback'
    BY <1>0, <2>2, <2>3 DEF Inv, OneCallback, Answering
  <2>5. Holder'
    BY <1>0, <2>2, <2>3 DEF Inv, Holder
  <2>6. Entries'
    BY <1>0, <2>2, <2>3, Contents DEF Inv, Entries
  <2>7. Tracked'
    BY <1>0, <2>2, <2>3 DEF Inv, Tracked
  <2>8. Starting' /\ Ended'
    BY <1>0, <2>2, <2>3 DEF Inv, Starting, Ended
  <2>9. Piped'
    <3>1. CtlPipes'
      BY <1>0, <2>2, <2>3, CtlPipesKept DEF Inv, Piped
    <3>2. \A x \in Judge : \A i \in 1..Len(threadFd[x]) : threadFd[x][i] \in Conn /\ to[threadFd[x][i]] = x
      BY <1>0, Contents DEF Inv, Piped, ThreadPipes
    <3>3. ASSUME NEW x \in Judge, x # j
          PROVE  /\ \A i \in 1..Len(threadFd'[x]) : step'[threadFd'[x][i]] = "threadFd" /\ to'[threadFd'[x][i]] = x
                 /\ \A i, k \in 1..Len(threadFd'[x]) : threadFd'[x][i] = threadFd'[x][k] => i = k
      <4>1. threadFd'[x] = threadFd[x] /\ \A i \in 1..Len(threadFd[x]) : threadFd[x][i] # c
        BY <2>2, <2>3, <3>2, <3>3
      <4> QED
        BY <2>3, <3>2, <4>1 DEF Inv, Piped, ThreadPipes
    <3>4. /\ \A i \in 1..Len(threadFd'[j]) : step'[threadFd'[j][i]] = "threadFd" /\ to'[threadFd'[j][i]] = j
          /\ \A i, k \in 1..Len(threadFd'[j]) : threadFd'[j][i] = threadFd'[j][k] => i = k
      <4>1. \A i \in 2..Len(threadFd[j]) : threadFd[j][i] # c
        BY <2>1, Tailed DEF Inv, Piped, ThreadPipes
      <4>2. /\ Len(threadFd'[j]) = Len(threadFd[j]) - 1 /\ Len(threadFd[j]) \in Nat
            /\ \A i \in 1..Len(threadFd[j]) - 1 : threadFd'[j][i] = threadFd[j][i + 1]
        BY <2>1, <2>3, Tailed
      <4> QED
        BY <2>3, <3>2, <4>1, <4>2 DEF Inv, Piped, ThreadPipes
    <3>5. ThreadPipes'
      BY <3>3, <3>4 DEF ThreadPipes
    <3> QED
      BY <3>1, <3>5 DEF Piped
  <2> QED
    BY <1>0, <2>4, <2>5, <2>6, <2>7, <2>8, <2>9 DEF Inv
<1>11. ASSUME NEW t \in Http, ReadReply(t) PROVE Inv'
  <2>1. ctlFd[t] \in Seq(Conn) /\ ctlFd[t] # <<>>
    BY <1>0, <1>11 DEF TypeOK, ReadReply
  <2> PICK c \in Conn : c = ctlFd[t][1] /\ c = Head(ctlFd[t])
    BY <2>1, Tailed
  <2>2. step[c] = "ctlFd" /\ ThreadOf[c] = t
    BY <2>1, Tailed DEF Inv, Piped, CtlPipes
  <2>3. /\ UNCHANGED <<conn, to, num, sn, frontReqList, mutexInPj, threadFd, clash>>
        /\ step'[c] = "replying" /\ \A d \in Conn : d # c => step'[d] = step[d]
        /\ ctlFd'[t] = Tail(ctlFd[t]) /\ \A x \in Http : x # t => ctlFd'[x] = ctlFd[x]
        /\ ~Busy(t)
    BY <1>0, <1>11 DEF TypeOK, ReadReply
  <2>4. OneCallback'
    BY <1>0, <2>2, <2>3 DEF Inv, OneCallback, Busy
  <2>5. Holder'
    BY <1>0, <2>2, <2>3 DEF Inv, Holder
  <2>6. Entries'
    BY <1>0, <2>2, <2>3, Contents DEF Inv, Entries
  <2>7. Tracked'
    BY <1>0, <2>2, <2>3 DEF Inv, Tracked
  <2>8. Starting' /\ Ended'
    BY <1>0, <2>2, <2>3 DEF Inv, Starting, Ended
  <2>9. Piped'
    <3>1. ThreadPipes'
      BY <1>0, <2>2, <2>3, ThreadPipesKept DEF Inv, Piped
    <3>2. \A x \in Http : \A i \in 1..Len(ctlFd[x]) : ctlFd[x][i] \in Conn /\ ThreadOf[ctlFd[x][i]] = x
      BY <1>0, Contents DEF Inv, Piped, CtlPipes
    <3>3. ASSUME NEW x \in Http, x # t
          PROVE  /\ \A i \in 1..Len(ctlFd'[x]) : step'[ctlFd'[x][i]] = "ctlFd" /\ ThreadOf[ctlFd'[x][i]] = x
                 /\ \A i, k \in 1..Len(ctlFd'[x]) : ctlFd'[x][i] = ctlFd'[x][k] => i = k
      <4>1. ctlFd'[x] = ctlFd[x] /\ \A i \in 1..Len(ctlFd[x]) : ctlFd[x][i] # c
        BY <2>2, <2>3, <3>2, <3>3
      <4> QED
        BY <2>3, <3>2, <4>1 DEF Inv, Piped, CtlPipes
    <3>4. /\ \A i \in 1..Len(ctlFd'[t]) : step'[ctlFd'[t][i]] = "ctlFd" /\ ThreadOf[ctlFd'[t][i]] = t
          /\ \A i, k \in 1..Len(ctlFd'[t]) : ctlFd'[t][i] = ctlFd'[t][k] => i = k
      <4>1. \A i \in 2..Len(ctlFd[t]) : ctlFd[t][i] # c
        BY <2>1, Tailed DEF Inv, Piped, CtlPipes
      <4>2. /\ Len(ctlFd'[t]) = Len(ctlFd[t]) - 1 /\ Len(ctlFd[t]) \in Nat
            /\ \A i \in 1..Len(ctlFd[t]) - 1 : ctlFd'[t][i] = ctlFd[t][i + 1]
        BY <2>1, <2>3, Tailed
      <4> QED
        BY <2>3, <3>2, <4>1, <4>2 DEF Inv, Piped, CtlPipes
    <3>5. CtlPipes'
      BY <3>3, <3>4 DEF CtlPipes
    <3> QED
      BY <3>1, <3>5 DEF Piped
  <2> QED
    BY <1>0, <2>4, <2>5, <2>6, <2>7, <2>8, <2>9 DEF Inv
<1>12. ASSUME UNCHANGED vars PROVE Inv'
  BY <1>0, <1>12 DEF Inv, vars, request, OneCallback, Holder, Entries, Tracked, Starting, Ended, Piped,
    ThreadPipes, CtlPipes
<1> QED
  BY <1>1, <1>2, <1>3, <1>4, <1>5, <1>6, <1>7, <1>8, <1>9, <1>10, <1>11, <1>12 DEF Next

LEMMA Invariant == Spec => []Inv
<1>1. Init => Inv
  <2> SUFFICES ASSUME Init PROVE Inv
    OBVIOUS
  <2> USE ConnAssumption, SizeAssumption, NoneAssumption DEF Init
  <2>1. TypeOK
    <3>1. threadFd \in [Judge -> Seq(Conn)] /\ \A j \in Judge : Len(threadFd[j]) <= Capacity
      OBVIOUS
    <3>2. ctlFd \in [Http -> Seq(Conn)] /\ \A t \in Http : Len(ctlFd[t]) <= Capacity
      OBVIOUS
    <3>3. num \in [Conn -> 0..MaxSn - 1] /\ sn \in 0..MaxSn
      OBVIOUS
    <3>4. frontReqList \in [Http -> [0..MaxSn -> Conn \cup {NoConn}]]
      OBVIOUS
    <3>5. conn \in [Conn -> {"idle", "waiting", "answered"}] /\ step \in [Conn -> Step]
      BY DEF Step
    <3>6. to \in [Conn -> Judge] /\ mutexInPj \in Http \cup {Nobody} /\ clash \in BOOLEAN
      OBVIOUS
    <3> QED
      BY <3>1, <3>2, <3>3, <3>4, <3>5, <3>6 DEF TypeOK
  <2>2. Entries
    BY DEF Entries
  <2>3. OneCallback /\ Holder /\ Tracked /\ Starting /\ Ended
    BY DEF OneCallback, Holder, Tracked, Starting, Ended, HttpSteps, InFlight
  <2>4. Piped
    BY DEF Piped, ThreadPipes, CtlPipes
  <2> QED
    BY <2>1, <2>2, <2>3, <2>4 DEF Inv
<1> QED
  BY <1>1, Inductive, PTL DEF Spec

-----------------------------------------------------------------------------
\* Every variable of the front end keeps its type, the counter stays within
\* int (initJudgeData) and the pipes within their capacity.
THEOREM FrontTypeCorrect == Spec => []TypeOK
<1>1. Inv => TypeOK
  BY DEF Inv
<1> QED
  BY <1>1, Invariant, PTL

\* With any connections, HTTP threads and judge threads, and numbers that wrap
\* where they like: until a number comes round while it is in use, a request
\* waits as long as its data or its reply is on its way, and its number leads
\* to it on all of this way (frontReqList).
THEOREM RequestsAlwaysTracked == Spec => []RequestsTracked
<1>1. Inv => RequestsTracked
  <2> SUFFICES ASSUME Inv, ~clash, NEW c \in Conn
               PROVE  /\ conn[c] = "waiting" <=> step[c] \in InFlight \cup {"new"}
                      /\ step[c] \in InFlight => frontReqList[ThreadOf[c]][num[c]] = c
    BY DEF RequestsTracked
  <2> QED
    BY DEF Inv, Tracked, InFlight
<1> QED
  BY <1>1, Invariant, PTL

\* Until then a request is answered by the reply to its own data only
\* (replyToFront).
THEOREM RepliesOwn == Spec => OwnReply
<1> DEFINE Own == clash \/ \A c \in Conn :
             conn[c] # "answered" /\ conn'[c] = "answered" => step[c] = "replying"
<1>1. Inv /\ [Next]_vars => [Own]_vars
  <2> SUFFICES ASSUME Inv, Next, NEW c \in Conn, ~clash,
                      conn[c] # "answered", conn'[c] = "answered"
               PROVE  step[c] = "replying"
    OBVIOUS
  <2> USE ConnAssumption, NoneAssumption
  <2>0. TypeOK
    BY DEF Inv
  <2>1. ASSUME NEW d \in Conn, replyToFront(d) PROVE step[c] = "replying"
    <3>1. Found(d) = d
      BY <2>0, <2>1 DEF Inv, Tracked, InFlight, replyToFront, Found
    <3> QED
      BY <2>0, <2>1, <3>1 DEF TypeOK, replyToFront
  <2>2. ASSUME NEW d \in Conn,
               \/ \E j \in Judge : allReqCallback(d, j)
               \/ initJudgeData(d) \/ LockToSend(d) \/ Send(d)
               \/ Answer(d) \/ NoReply(d) \/ WriteReply(d) \/ RequestEnds(d) \/ reqFinishCb(d)
        PROVE  FALSE
    BY <2>0, <2>2 DEF TypeOK, allReqCallback, initJudgeData, LockToSend, Send, Answer,
                      NoReply, WriteReply, RequestEnds, reqFinishCb
  <2>3. (\E j \in Judge : jthreadReadCb(j)) \/ (\E t \in Http : ReadReply(t)) => FALSE
    BY DEF jthreadReadCb, ReadReply
  <2> QED
    BY <2>1, <2>2, <2>3 DEF Next
<1> QED
  BY <1>1, Invariant, PTL DEF Spec, OwnReply

\* For any connections, threads and sizes: whoever holds mutexInPj is writing,
\* and the circle of full pipes that would keep it for ever takes two more
\* requests than fit into two pipes: those in the two full pipes, the one that
\* is sent and the one whose reply is written.
THEOREM MutexAlwaysFreed == Spec => []MutexFreed
<1>1. Inv => MutexFreed
  <2> SUFFICES ASSUME Inv, NEW c \in Conn, NEW d \in Conn, Circle(c, d)
               PROVE  Cardinality(Underway) >= 2 * Capacity + 2
    BY DEF Inv, Holder, MutexFreed, Jammed
  <2> USE ConnAssumption, SizeAssumption
  <2>1. /\ to[d] = to[c] /\ step[d] = "answering" /\ step[c] = "sending"
        /\ Len(threadFd[to[c]]) = Capacity /\ Len(ctlFd[ThreadOf[d]]) = Capacity
    BY DEF Circle
  <2> DEFINE q == threadFd[to[c]]
             p == ctlFd[ThreadOf[d]]
             Place == 1..2 * Capacity + 2
             f == [i \in Place |->
                     IF i <= Capacity THEN q[i]
                     ELSE IF i <= 2 * Capacity THEN p[i - Capacity]
                     ELSE IF i = 2 * Capacity + 1 THEN c ELSE d]
  <2>3. to[c] \in Judge /\ ThreadOf[d] \in Http /\ Len(q) = Capacity /\ Len(p) = Capacity
    BY <2>1 DEF Inv, TypeOK
  <2>4. \A i \in 1..Capacity : q[i] \in Conn /\ step[q[i]] = "threadFd"
    BY <2>3, Contents DEF Inv, Piped, ThreadPipes
  <2>5. \A i \in 1..Capacity : p[i] \in Conn /\ step[p[i]] = "ctlFd"
    BY <2>3, Contents DEF Inv, Piped, CtlPipes
  <2>6. \A i, k \in 1..Capacity : q[i] = q[k] \/ p[i] = p[k] => i = k
    BY <2>3 DEF Inv, Piped, ThreadPipes, CtlPipes
  <2> HIDE DEF q, p
  <2>7. \A i \in Place :
          \/ i \in 1..Capacity /\ f[i] = q[i]
          \/ i - Capacity \in 1..Capacity /\ f[i] = p[i - Capacity] /\ i > Capacity
          \/ i = 2 * Capacity + 1 /\ f[i] = c
          \/ i = 2 * Capacity + 2 /\ f[i] = d
    OBVIOUS
  <2>8. f \in [Place -> Underway]
    <3>1. \A i \in Place : f[i] \in Underway
      <4>1. \A x \in Conn :
              step[x] \in {"threadFd", "ctlFd", "sending", "answering"} => x \in Underway
        BY DEF Underway, InFlight
      <4> QED
        BY <2>1, <2>4, <2>5, <2>7, <4>1
    <3> QED
      BY <3>1
  <2>9. \A i, k \in Place : f[i] = f[k] => i = k
    <3> SUFFICES ASSUME NEW i \in Place, NEW k \in Place, f[i] = f[k] PROVE i = k
      OBVIOUS
    <3>1. \A x \in Place :
            \/ x \in 1..Capacity /\ f[x] = q[x] /\ step[f[x]] = "threadFd"
            \/ x - Capacity \in 1..Capacity /\ f[x] = p[x - Capacity] /\ step[f[x]] = "ctlFd"
            \/ x = 2 * Capacity + 1 /\ step[f[x]] = "sending"
            \/ x = 2 * Capacity + 2 /\ step[f[x]] = "answering"
      <4> HIDE DEF f
      <4> QED
        BY <2>1, <2>4, <2>5, <2>7
    <3> HIDE DEF f
    <3>2. CASE step[f[i]] = "threadFd"
      BY <2>6, <3>1, <3>2
    <3>3. CASE step[f[i]] = "ctlFd"
      <4>1. i - Capacity = k - Capacity
        BY <2>6, <3>1, <3>3
      <4> QED
        BY <4>1
    <3>4. CASE step[f[i]] \in {"sending", "answering"}
      BY <3>1, <3>4
    <3> QED
      BY <3>1, <3>2, <3>3, <3>4
  <2>10. f \in Injection(Place, Underway)
    BY <2>8, <2>9 DEF Injection, IsInjective
  <2>11. Cardinality(Place) = 2 * Capacity + 2
    BY FS_Interval
  <2>12. IsFiniteSet(Underway)
    BY FS_Subset DEF Underway
  <2>13. Cardinality(Place) <= Cardinality(Underway) /\ Cardinality(Underway) \in Nat
    BY <2>10, <2>12, FS_Injection, FS_CardinalityType
  <2> QED
    BY <2>11, <2>13
<1> QED
  BY <1>1, Invariant, PTL

-----------------------------------------------------------------------------
(* The circle is all that can stop the front end *)

\* What is on its way in a pipe is there.
Held ==
  /\ \A c \in Conn : step[c] = "threadFd" =>
       \E i \in 1..Len(threadFd[to[c]]) : threadFd[to[c]][i] = c
  /\ \A c \in Conn : step[c] = "ctlFd" =>
       \E i \in 1..Len(ctlFd[ThreadOf[c]]) : ctlFd[ThreadOf[c]][i] = c

\* A thread can go on: with the mutex, with room in the pipe it writes to, or
\* with a pipe it reads.
CanGoOn ==
  \/ mutexInPj = Nobody /\ \E c \in Conn : step[c] \in HttpSteps \ {"sending"}
  \/ \E c \in Conn : step[c] = "sending" /\ Len(threadFd[to[c]]) < Capacity
  \/ \E c \in Conn : step[c] = "judged" /\ ~Answering(to[c])
  \/ \E c \in Conn : step[c] = "answering" /\ Len(ctlFd[ThreadOf[c]]) < Capacity
  \/ \E j \in Judge : ~Answering(j) /\ threadFd[j] # <<>>
  \/ \E t \in Http : ~Busy(t) /\ ctlFd[t] # <<>>

\* An append or a read of one pipe keeps the others and what stays in it.
LEMMA StillIn ==
  ASSUME NEW S, NEW q \in Seq(S), NEW e \in S, NEW i \in 1..Len(q), q[i] = e
  PROVE  /\ \A x \in S : \E k \in 1..Len(Append(q, x)) : Append(q, x)[k] = e
         /\ e # Head(q) => \E k \in 1..Len(Tail(q)) : Tail(q)[k] = e
<1>1. ASSUME NEW x \in S PROVE \E k \in 1..Len(Append(q, x)) : Append(q, x)[k] = e
  <2>1. i \in 1..Len(Append(q, x)) /\ Append(q, x)[i] = e
    BY Appended
  <2> QED
    BY <2>1
<1>2. ASSUME e # Head(q) PROVE \E k \in 1..Len(Tail(q)) : Tail(q)[k] = e
  <2>1. q # <<>> /\ Head(q) = q[1] /\ i # 1
    BY <1>2, Tailed
  <2>2. i - 1 \in 1..Len(Tail(q)) /\ Tail(q)[i - 1] = e
    BY <2>1, Tailed
  <2> QED
    BY <2>2
<1> QED
  BY <1>1, <1>2

LEMMA HeldKept ==
  ASSUME Held, UNCHANGED pipes,
         \A c \in Conn : step'[c] \in {"threadFd", "ctlFd"} =>
           step[c] = step'[c] /\ to[c] = to'[c]
  PROVE  Held'
  BY DEF Held, pipes

LEMMA HeldStep == Inv /\ Held /\ [Next]_vars => Held'
<1> SUFFICES ASSUME Inv, Held, [Next]_vars PROVE Held'
  OBVIOUS
<1> USE ConnAssumption DEF GoTo
<1>0. TypeOK
  BY DEF Inv
<1>1. ASSUME NEW c \in Conn,
             \/ \E j \in Judge : allReqCallback(c, j)
             \/ initJudgeData(c) \/ LockToSend(c) \/ Answer(c) \/ NoReply(c)
             \/ replyToFront(c) \/ RequestEnds(c) \/ reqFinishCb(c)
      PROVE  Held'
  <2>1. UNCHANGED pipes /\ \A d \in Conn : d # c => step'[d] = step[d] /\ to'[d] = to[d]
    BY <1>0, <1>1 DEF TypeOK, pipes, allReqCallback, initJudgeData, LockToSend, Answer,
                      NoReply, replyToFront, RequestEnds, Paused, reqFinishCb
  <2>2. step'[c] \notin {"threadFd", "ctlFd"}
    BY <1>0, <1>1 DEF TypeOK, allReqCallback, initJudgeData, LockToSend, Answer,
                      NoReply, replyToFront, RequestEnds, Paused, reqFinishCb
  <2> QED
    BY <2>1, <2>2, HeldKept
<1>2. ASSUME NEW c \in Conn, Send(c) PROVE Held'
  <2>1. /\ UNCHANGED <<to, ctlFd>> /\ step'[c] = "threadFd"
        /\ \A d \in Conn : d # c => step'[d] = step[d]
        /\ threadFd'[to[c]] = Append(threadFd[to[c]], c)
        /\ \A j \in Judge : j # to[c] => threadFd'[j] = threadFd[j]
        /\ \A d \in Conn : to[d] \in Judge /\ threadFd[to[d]] \in Seq(Conn)
    BY <1>0, <1>2 DEF TypeOK, Send
  <2>2. ASSUME NEW d \in Conn, step'[d] = "threadFd"
        PROVE  \E i \in 1..Len(threadFd'[to[d]]) : threadFd'[to[d]][i] = d
    <3>1. CASE d = c
      <4>1. Len(threadFd[to[c]]) + 1 \in 1..Len(threadFd'[to[c]])
            /\ threadFd'[to[c]][Len(threadFd[to[c]]) + 1] = c
        BY <2>1, Appended
      <4> QED
        BY <3>1, <4>1
    <3>2. CASE d # c
      <4> DEFINE q == threadFd[to[d]]
      <4>1. PICK i \in 1..Len(q) : q[i] = d
        BY <2>1, <2>2, <3>2 DEF Held
      <4>2. q \in Seq(Conn) /\ (threadFd'[to[d]] = q \/ threadFd'[to[d]] = Append(q, c))
        BY <2>1
      <4> HIDE DEF q
      <4>3. \E k \in 1..Len(Append(q, c)) : Append(q, c)[k] = d
        BY <4>1, <4>2, StillIn
      <4> QED
        BY <4>1, <4>2, <4>3
    <3> QED
      BY <3>1, <3>2
  <2> QED
    BY <2>1, <2>2 DEF Held
<1>3. ASSUME NEW c \in Conn, WriteReply(c) PROVE Held'
  <2>1. /\ UNCHANGED <<to, threadFd>> /\ step'[c] = "ctlFd"
        /\ \A d \in Conn : d # c => step'[d] = step[d]
        /\ ctlFd'[ThreadOf[c]] = Append(ctlFd[ThreadOf[c]], c)
        /\ \A t \in Http : t # ThreadOf[c] => ctlFd'[t] = ctlFd[t]
        /\ \A d \in Conn : ThreadOf[d] \in Http /\ ctlFd[ThreadOf[d]] \in Seq(Conn)
    BY <1>0, <1>3 DEF TypeOK, WriteReply
  <2>2. ASSUME NEW d \in Conn, step'[d] = "ctlFd"
        PROVE  \E i \in 1..Len(ctlFd'[ThreadOf[d]]) : ctlFd'[ThreadOf[d]][i] = d
    <3>1. CASE d = c
      <4>1. Len(ctlFd[ThreadOf[c]]) + 1 \in 1..Len(ctlFd'[ThreadOf[c]])
            /\ ctlFd'[ThreadOf[c]][Len(ctlFd[ThreadOf[c]]) + 1] = c
        BY <2>1, Appended
      <4> QED
        BY <3>1, <4>1
    <3>2. CASE d # c
      <4> DEFINE q == ctlFd[ThreadOf[d]]
      <4>1. PICK i \in 1..Len(q) : q[i] = d
        BY <2>1, <2>2, <3>2 DEF Held
      <4>2. q \in Seq(Conn) /\ (ctlFd'[ThreadOf[d]] = q \/ ctlFd'[ThreadOf[d]] = Append(q, c))
        BY <2>1
      <4> HIDE DEF q
      <4>3. \E k \in 1..Len(Append(q, c)) : Append(q, c)[k] = d
        BY <4>1, <4>2, StillIn
      <4> QED
        BY <4>1, <4>2, <4>3
    <3> QED
      BY <3>1, <3>2
  <2> QED
    BY <2>1, <2>2 DEF Held
<1>4. ASSUME NEW j \in Judge, jthreadReadCb(j) PROVE Held'
  <2>1. /\ threadFd[j] \in Seq(Conn) /\ threadFd[j] # <<>>
        /\ \A d \in Conn : to[d] \in Judge /\ threadFd[to[d]] \in Seq(Conn)
    BY <1>0, <1>4 DEF TypeOK, jthreadReadCb
  <2> PICK c \in Conn : c = threadFd[j][1] /\ c = Head(threadFd[j])
    BY <2>1, Tailed
  <2>2. /\ UNCHANGED <<to, ctlFd>> /\ step'[c] = "judged"
        /\ \A d \in Conn : d # c => step'[d] = step[d]
        /\ threadFd'[j] = Tail(threadFd[j]) /\ \A x \in Judge : x # j => threadFd'[x] = threadFd[x]
    BY <1>0, <1>4 DEF TypeOK, jthreadReadCb
  <2>3. ASSUME NEW d \in Conn, step'[d] = "threadFd"
        PROVE  \E i \in 1..Len(threadFd'[to[d]]) : threadFd'[to[d]][i] = d
    <3>1. d # c /\ step[d] = "threadFd"
      BY <2>2, <2>3
    <3> DEFINE q == threadFd[to[d]]
    <3>2. PICK i \in 1..Len(q) : q[i] = d
      BY <3>1 DEF Held
    <3>3. /\ q \in Seq(Conn)
          /\ threadFd'[to[d]] = q \/ (threadFd'[to[d]] = Tail(q) /\ d # Head(q))
      BY <2>1, <2>2, <3>1
    <3> HIDE DEF q
    <3>4. d # Head(q) => \E k \in 1..Len(Tail(q)) : Tail(q)[k] = d
      BY <3>2, <3>3, StillIn
    <3> QED
      BY <3>2, <3>3, <3>4
  <2> QED
    BY <2>2, <2>3 DEF Held
<1>5. ASSUME NEW t \in Http, ReadReply(t) PROVE Held'
  <2>1. /\ ctlFd[t] \in Seq(Conn) /\ ctlFd[t] # <<>>
        /\ \A d \in Conn : ThreadOf[d] \in Http /\ ctlFd[ThreadOf[d]] \in Seq(Conn)
    BY <1>0, <1>5 DEF TypeOK, ReadReply
  <2> PICK c \in Conn : c = ctlFd[t][1] /\ c = Head(ctlFd[t])
    BY <2>1, Tailed
  <2>2. /\ UNCHANGED <<to, threadFd>> /\ step'[c] = "replying"
        /\ \A d \in Conn : d # c => step'[d] = step[d]
        /\ ctlFd'[t] = Tail(ctlFd[t]) /\ \A x \in Http : x # t => ctlFd'[x] = ctlFd[x]
    BY <1>0, <1>5 DEF TypeOK, ReadReply
  <2>3. ASSUME NEW d \in Conn, step'[d] = "ctlFd"
        PROVE  \E i \in 1..Len(ctlFd'[ThreadOf[d]]) : ctlFd'[ThreadOf[d]][i] = d
    <3>1. d # c /\ step[d] = "ctlFd"
      BY <2>2, <2>3
    <3> DEFINE q == ctlFd[ThreadOf[d]]
    <3>2. PICK i \in 1..Len(q) : q[i] = d
      BY <3>1 DEF Held
    <3>3. /\ q \in Seq(Conn)
          /\ ctlFd'[ThreadOf[d]] = q \/ (ctlFd'[ThreadOf[d]] = Tail(q) /\ d # Head(q))
      BY <2>1, <2>2, <3>1
    <3> HIDE DEF q
    <3>4. d # Head(q) => \E k \in 1..Len(Tail(q)) : Tail(q)[k] = d
      BY <3>2, <3>3, StillIn
    <3> QED
      BY <3>2, <3>3, <3>4
  <2> QED
    BY <2>2, <2>3 DEF Held
<1>6. ASSUME UNCHANGED vars PROVE Held'
  BY <1>6 DEF Held, vars, request, pipes
<1> QED
  BY <1>1, <1>2, <1>3, <1>4, <1>5, <1>6 DEF Next

\* While a request is anywhere on its way, but those a judge thread never has a
\* reply for, a thread can go on, whatever numbers have clashed, unless the
\* threads are in the circle of full pipes: of all the waiting for the mutex,
\* for room and for each other nothing else is final.
THEOREM OnlyCircleStops ==
  Spec => [](CanGoOn \/ Jammed \/ \A c \in Conn : step[c] \in {"none", "unanswered"})
<1>1. ASSUME Inv, Held, ~CanGoOn, ~Jammed PROVE \A c \in Conn : step[c] \in {"none", "unanswered"}
  <2> USE ConnAssumption, SizeAssumption
  <2>0. TypeOK
    BY <1>1 DEF Inv
  <2>1. /\ \A c \in Conn : to[c] \in Judge /\ ThreadOf[c] \in Http
        /\ \A j \in Judge : threadFd[j] \in Seq(Conn) /\ Len(threadFd[j]) <= Capacity
        /\ \A t \in Http : ctlFd[t] \in Seq(Conn) /\ Len(ctlFd[t]) <= Capacity
    BY <2>0 DEF TypeOK
  <2>2. \A q \in Seq(Conn) : Len(q) = Capacity => q # <<>>
    OBVIOUS
  <2>3. \A q \in Seq(Conn) : Len(q) <= Capacity /\ ~(Len(q) < Capacity) => Len(q) = Capacity
    OBVIOUS
  <2>4. ASSUME NEW c \in Conn, step[c] = "sending" PROVE FALSE
    <3>1. Len(threadFd[to[c]]) = Capacity /\ threadFd[to[c]] # <<>>
      BY <1>1, <2>1, <2>2, <2>3, <2>4 DEF CanGoOn
    <3>2. PICK d \in Conn : to[d] = to[c] /\ step[d] = "answering"
      BY <1>1, <2>1, <3>1 DEF CanGoOn, Answering
    <3>3. Len(ctlFd[ThreadOf[d]]) = Capacity /\ ctlFd[ThreadOf[d]] # <<>>
      BY <1>1, <2>1, <2>2, <2>3, <3>2 DEF CanGoOn
    <3>4. Busy(ThreadOf[d])
      BY <1>1, <2>1, <3>3 DEF CanGoOn
    <3> QED
      BY <1>1, <2>4, <3>1, <3>2, <3>3, <3>4 DEF Jammed, Circle
  <2>5. mutexInPj = Nobody
    BY <1>1, <2>4 DEF Inv, Holder
  <2>6. \A c \in Conn : step[c] \notin HttpSteps
    BY <1>1, <2>4, <2>5 DEF CanGoOn
  <2>7. \A t \in Http : ctlFd[t] = <<>>
    BY <1>1, <2>6 DEF CanGoOn, Busy
  <2>8. \A c \in Conn : step[c] # "answering"
    <3>1. \A t \in Http : Len(ctlFd[t]) < Capacity
      BY <2>7
    <3> QED
      BY <1>1, <2>1, <3>1 DEF CanGoOn
  <2>9. \A j \in Judge : threadFd[j] = <<>>
    BY <1>1, <2>8 DEF CanGoOn, Answering
  <2>10. \A c \in Conn : step[c] \notin {"judged", "threadFd", "ctlFd"}
    <3>1. \A c \in Conn : step[c] # "judged"
      BY <1>1, <2>8 DEF CanGoOn, Answering
    <3>2. \A c \in Conn : Len(threadFd[to[c]]) = 0 /\ Len(ctlFd[ThreadOf[c]]) = 0
      BY <2>1, <2>7, <2>9
    <3>3. 1..0 = {}
      OBVIOUS
    <3> QED
      BY <1>1, <3>1, <3>2, <3>3 DEF Held
  <2> QED
    BY <2>0, <2>6, <2>8, <2>10 DEF TypeOK, Step, HttpSteps, InFlight
<1>2. Init => Held
  BY ConnAssumption DEF Init, Held
<1>3. Inv /\ Held => CanGoOn \/ Jammed \/ \A c \in Conn : step[c] \in {"none", "unanswered"}
  BY <1>1
<1> QED
  BY <1>2, <1>3, Invariant, HeldStep, PTL DEF Spec

=============================================================================
