----------------------------- MODULE JudgeFront -----------------------------
(***************************************************************************)
(* The front end of a horizon judge (src/mimic_judge.cpp): HTTP threads    *)
(* receive requests, number them, hand them through a pipe to the judge    *)
(* thread of their sid, and give each reply that comes back through their  *)
(* own pipe to the request with its number.                                *)
(*                                                                         *)
(* All HTTP threads share mutexInPj; the one that sends holds it while it  *)
(* writes, and the pipes block when they are full. A request is in one     *)
(* step of its way at a time; an HTTP or judge thread that is in the       *)
(* middle of a callback runs no other. What a judge thread does between    *)
(* the request and its reply is module JudgeTask, which shows when a       *)
(* request gets one.                                                       *)
(***************************************************************************)
EXTENDS Integers, Sequences, FiniteSets

CONSTANTS
  Conn,      \* connections of the executors; a client awaits its reply
             \* before it sends the next request
  Http,      \* the HTTP threads
  Judge,     \* the judge threads (jthreadList)
  ThreadOf,  \* the HTTP thread a connection belongs to
  Capacity,  \* pointers that fit into a pipe
  MaxSn,     \* INT_MAX
  MaxRequests, \* bound: requests that come in all
  NoConn,    \* no entry in a list
  Nobody     \* the mutex is free

ASSUME ConnAssumption == IsFiniteSet(Conn) /\ ThreadOf \in [Conn -> Http]
ASSUME SizeAssumption ==
  Capacity \in Nat \ {0} /\ MaxSn \in Nat \ {0} /\ MaxRequests \in Nat

ASSUME NoneAssumption == NoConn \notin Conn /\ Nobody \notin Http

VARIABLES
  conn,         \* connection -> its request: "idle" (none), "waiting", "answered"
  step,         \* connection -> how far its request is
  to,           \* connection -> the judge thread of the request's sid
  num,          \* connection -> judgeData->sn, the number of the request
  sn,           \* the counter of numbers
  frontReqList, \* HTTP thread -> number -> connection of the request, or NoConn
  mutexInPj,    \* the thread that holds it, or Nobody
  threadFd,     \* judge thread -> the pipe to it
  ctlFd,        \* HTTP thread -> the pipe to it
  clash,        \* history: a number was drawn that the thread's list still had
  come          \* history: how many requests have come

request == <<conn, step, to, num>>
pipes   == <<threadFd, ctlFd>>
vars    == <<request, sn, frontReqList, mutexInPj, pipes, clash, come>>

\* Steps in which an HTTP thread is in the middle of a callback: waiting for
\* the mutex to number the request, to send it, sending it, waiting for the
\* mutex to reply, or to take the request off the list.
HttpSteps == {"new", "numbered", "sending", "replying", "leaving"}

\* Steps of a request that has a number and no reply yet: besides the above
\* in the pipe, in the judge thread, for ever or not, in the thread's hand, in
\* the pipe back.
InFlight == {"numbered", "sending", "threadFd", "judged", "unanswered", "answering", "ctlFd",
             "replying"}

Step == {"none"} \cup HttpSteps \cup InFlight

Busy(t)      == \E c \in Conn : ThreadOf[c] = t /\ step[c] \in HttpSteps
Answering(j) == \E c \in Conn : to[c] = j /\ step[c] = "answering"

GoTo(c, s) == step' = [step EXCEPT ![c] = s]

-----------------------------------------------------------------------------
(* The HTTP threads: a request on its way in *)

\* A request with all its headers comes; the characters of its sid choose the
\* judge thread. One with a wrong header is answered at once and changes nothing.
allReqCallback(c, j) ==
  /\ conn[c] = "idle" /\ step[c] = "none" /\ ~Busy(ThreadOf[c])
  /\ come < MaxRequests /\ come' = come + 1
  /\ conn' = [conn EXCEPT ![c] = "waiting"]
  /\ to' = [to EXCEPT ![c] = j]
  /\ GoTo(c, "new")
  /\ UNCHANGED <<num, sn, frontReqList, mutexInPj, pipes, clash>>

\* Mutant: the counter is not set back.
Number_NoWrap == sn

Number == IF sn = MaxSn THEN 0 ELSE sn

\* emplace: an entry with the same number stays what it is.
Listed(c) ==
  IF frontReqList[ThreadOf[c]][Number] = NoConn
  THEN [frontReqList EXCEPT ![ThreadOf[c]][Number] = c]
  ELSE frontReqList

initJudgeData(c) ==
  /\ step[c] = "new" /\ mutexInPj = Nobody
  /\ num' = [num EXCEPT ![c] = Number]
  /\ frontReqList' = Listed(c)
  /\ clash' = (clash \/ frontReqList[ThreadOf[c]][Number] # NoConn)
  /\ sn' = Number + 1
  /\ GoTo(c, "numbered")
  /\ UNCHANGED <<conn, to, mutexInPj, pipes, come>>

LockToSend(c) ==
  /\ step[c] = "numbered" /\ mutexInPj = Nobody
  /\ mutexInPj' = ThreadOf[c]
  /\ GoTo(c, "sending")
  /\ UNCHANGED <<conn, to, num, sn, frontReqList, pipes, clash, come>>

\* Mutant: the mutex stays taken after the write.
Send_KeepsLock(c) ==
  /\ step[c] = "sending" /\ Len(threadFd[to[c]]) < Capacity
  /\ threadFd' = [threadFd EXCEPT ![to[c]] = Append(@, c)]
  /\ GoTo(c, "threadFd")
  /\ UNCHANGED <<conn, to, num, sn, frontReqList, mutexInPj, ctlFd, clash, come>>

\* The write blocks while the pipe is full, and the mutex stays taken.
Send(c) ==
  /\ step[c] = "sending" /\ Len(threadFd[to[c]]) < Capacity
  /\ threadFd' = [threadFd EXCEPT ![to[c]] = Append(@, c)]
  /\ mutexInPj' = Nobody
  /\ GoTo(c, "threadFd")
  /\ UNCHANGED <<conn, to, num, sn, frontReqList, ctlFd, clash, come>>

-----------------------------------------------------------------------------
(* The judge threads *)

jthreadReadCb(j) ==
  /\ ~Answering(j) /\ threadFd[j] # <<>>
  /\ threadFd' = [threadFd EXCEPT ![j] = Tail(@)]
  /\ GoTo(Head(threadFd[j]), "judged")
  /\ UNCHANGED <<conn, to, num, sn, frontReqList, mutexInPj, ctlFd, clash, come>>

\* A callback of the thread has a reply for c, in whatever order the votes
\* and the backends bring them.
Answer(c) ==
  /\ step[c] = "judged" /\ ~Answering(to[c])
  /\ GoTo(c, "answering")
  /\ UNCHANGED <<conn, to, num, sn, frontReqList, mutexInPj, pipes, clash, come>>

\* The backend's answer is no HTTP, and the task of c stays (JudgeTask).
NoReply(c) ==
  /\ step[c] = "judged" /\ ~Answering(to[c])
  /\ GoTo(c, "unanswered")
  /\ UNCHANGED <<conn, to, num, sn, frontReqList, mutexInPj, pipes, clash, come>>

WriteReply(c) ==
  /\ step[c] = "answering" /\ Len(ctlFd[ThreadOf[c]]) < Capacity
  /\ ctlFd' = [ctlFd EXCEPT ![ThreadOf[c]] = Append(@, c)]
  /\ GoTo(c, "ctlFd")
  /\ UNCHANGED <<conn, to, num, sn, frontReqList, mutexInPj, threadFd, clash, come>>

-----------------------------------------------------------------------------
(* The HTTP threads: a reply on its way out *)

ReadReply(t) ==
  /\ ~Busy(t) /\ ctlFd[t] # <<>>
  /\ ctlFd' = [ctlFd EXCEPT ![t] = Tail(@)]
  /\ GoTo(Head(ctlFd[t]), "replying")
  /\ UNCHANGED <<conn, to, num, sn, frontReqList, mutexInPj, threadFd, clash, come>>

\* Mutant: the reply goes to any request of the thread.
Found_Any(c) ==
  LET listed == {d \in Conn : \E n \in 0..MaxSn : frontReqList[ThreadOf[c]][n] = d}
  IN IF listed = {} THEN NoConn ELSE CHOOSE d \in listed : TRUE

Found(c) == frontReqList[ThreadOf[c]][num[c]]

\* A request that was freed under its number is not answered, and the
\* function returns with the mutex taken.
replyToFront(c) ==
  /\ step[c] = "replying" /\ mutexInPj = Nobody
  /\ LET r == Found(c)
         freed == r # NoConn /\ conn[r] = "idle"
     IN /\ conn' = IF r = NoConn \/ freed THEN conn ELSE [conn EXCEPT ![r] = "answered"]
        /\ mutexInPj' = IF freed THEN ThreadOf[c] ELSE Nobody
  /\ GoTo(c, "none")
  /\ UNCHANGED <<to, num, sn, frontReqList, pipes, clash, come>>

\* Mutant: the connection is read while its request waits.
Paused_Never(c) == FALSE

\* evhtp_request_pause: neither read nor written until evhtp_request_resume.
Paused(c) == conn[c] = "waiting"

\* The connection is closed, or its next request begins: the request ends.
\* Only one that was answered carries its number.
RequestEnds(c) ==
  /\ conn[c] # "idle" /\ ~Paused(c) /\ ~Busy(ThreadOf[c])
  /\ IF conn[c] = "answered"
     THEN step[c] = "none" /\ GoTo(c, "leaving") /\ UNCHANGED conn
     ELSE conn' = [conn EXCEPT ![c] = "idle"] /\ UNCHANGED step
  /\ UNCHANGED <<to, num, sn, frontReqList, mutexInPj, pipes, clash, come>>

\* Mutant: the list is cleared, as a controller does.
Unlisted_All(c) ==
  [frontReqList EXCEPT ![ThreadOf[c]] = [n \in DOMAIN @ |-> NoConn]]

Unlisted(c) == [frontReqList EXCEPT ![ThreadOf[c]][num[c]] = NoConn]

\* The entry is erased; the number is freed with the request that had it.
reqFinishCb(c) ==
  /\ step[c] = "leaving" /\ mutexInPj = Nobody
  /\ frontReqList' = Unlisted(c)
  /\ conn' = [conn EXCEPT ![c] = "idle"]
  /\ num' = [num EXCEPT ![c] = 0]
  /\ GoTo(c, "none")
  /\ UNCHANGED <<to, sn, mutexInPj, pipes, clash, come>>

-----------------------------------------------------------------------------
Init ==
  /\ conn = [c \in Conn |-> "idle"]
  /\ step = [c \in Conn |-> "none"]
  /\ to \in [Conn -> Judge] /\ num = [c \in Conn |-> 0]
  /\ sn = 0
  /\ frontReqList = [t \in Http |-> [n \in 0..MaxSn |-> NoConn]]
  /\ mutexInPj = Nobody
  /\ threadFd = [j \in Judge |-> <<>>]
  /\ ctlFd = [t \in Http |-> <<>>]
  /\ clash = FALSE
  /\ come = 0

Next ==
  \/ \E c \in Conn :
       \/ \E j \in Judge : allReqCallback(c, j)
       \/ initJudgeData(c) \/ LockToSend(c) \/ Send(c)
       \/ Answer(c) \/ NoReply(c) \/ WriteReply(c)
       \/ replyToFront(c) \/ RequestEnds(c) \/ reqFinishCb(c)
  \/ \E j \in Judge : jthreadReadCb(j)
  \/ \E t \in Http : ReadReply(t)

\* An HTTP thread in the middle of a callback goes on.
GoesOn(t) == \E c \in Conn :
  /\ ThreadOf[c] = t
  /\ initJudgeData(c) \/ LockToSend(c) \/ Send(c) \/ replyToFront(c) \/ reqFinishCb(c)

\* A judge thread reads its pipe or writes a reply.
Serves(j) == jthreadReadCb(j) \/ \E c \in Conn : to[c] = j /\ WriteReply(c)

\* A thread in the middle of a callback goes on when it can, an event loop
\* comes back to its pipe, and a judge thread comes to a reply if it ever will.
\* As only so many requests come, nobody is overtaken for ever and weak
\* fairness is enough. Clients owe nothing.
Fairness ==
  /\ \A t \in Http : WF_vars(GoesOn(t)) /\ WF_vars(ReadReply(t))
  /\ \A j \in Judge : WF_vars(Serves(j))
  /\ \A c \in Conn : WF_vars(Answer(c) \/ NoReply(c))

Spec == Init /\ [][Next]_vars
FairSpec == Spec /\ Fairness

-----------------------------------------------------------------------------
(* Properties *)

\* Every variable has its type; the counter never passes INT_MAX
\* (initJudgeData), and a pipe never holds more than it can.
TypeOK ==
  /\ conn \in [Conn -> {"idle", "waiting", "answered"}]
  /\ step \in [Conn -> Step]
  /\ to \in [Conn -> Judge]
  /\ num \in [Conn -> 0..MaxSn - 1]
  /\ sn \in 0..MaxSn
  /\ frontReqList \in [Http -> [0..MaxSn -> Conn \cup {NoConn}]]
  /\ mutexInPj \in Http \cup {Nobody}
  /\ threadFd \in [Judge -> Seq(Conn)]
  /\ \A j \in Judge : Len(threadFd[j]) <= Capacity
  /\ ctlFd \in [Http -> Seq(Conn)]
  /\ \A t \in Http : Len(ctlFd[t]) <= Capacity
  /\ clash \in BOOLEAN
  /\ come \in 0..MaxRequests

\* As long as no number came round while it was in use: a request waits
\* exactly as long as its data or its reply is on its way, and on all of this
\* way its number leads to it (frontReqList, written and erased by three
\* handlers of every HTTP thread).
RequestsTracked ==
  clash \/ \A c \in Conn :
    /\ conn[c] = "waiting" <=> step[c] \in InFlight \cup {"new"}
    /\ step[c] \in InFlight => frontReqList[ThreadOf[c]][num[c]] = c

\* The circle of full pipes. The HTTP thread of c holds the mutex and writes
\* to a judge thread, whose pipe is full because it writes the reply to d to
\* an HTTP thread whose pipe is full because that thread waits for the mutex,
\* or is the one that holds it. None of them ever goes on.
Circle(c, d) ==
  /\ step[c] = "sending" /\ Len(threadFd[to[c]]) = Capacity
  /\ step[d] = "answering" /\ to[d] = to[c]
  /\ Len(ctlFd[ThreadOf[d]]) = Capacity /\ Busy(ThreadOf[d])

Jammed == \E c, d \in Conn : Circle(c, d)

\* Requests that are written, in a pipe, or being voted on.
Underway == {c \in Conn : step[c] \in InFlight \ {"numbered", "unanswered", "replying"}}

\* mutexInPj is never left locked: whoever holds it is writing, so the return
\* of replyToFront that skips the unlock is never taken. The circle of full
\* pipes, which keeps it for ever, takes two more requests than fit into two
\* pipes.
MutexFreed ==
  /\ mutexInPj # Nobody => \E c \in Conn : step[c] = "sending" /\ ThreadOf[c] = mutexInPj
  /\ Jammed => Cardinality(Underway) >= 2 * Capacity + 2

\* A request is answered by the reply to its own data and by no other.
OwnReply ==
  [][clash \/ \A c \in Conn :
       conn[c] # "answered" /\ conn'[c] = "answered" => step[c] = "replying"]_vars

\* Every request that waits is answered in the end, unless the judge thread
\* never has a reply for it, a number came round in use, or the threads are in
\* the circle: nothing else stops them.
Answered ==
  \A c \in Conn : conn[c] = "waiting" ~>
    (conn[c] = "answered" \/ step[c] = "unanswered" \/ clash \/ Jammed)

=============================================================================
