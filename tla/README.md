# openstack_mimic_component: TLA+ models and proofs

The repository is a "mimic" layer in front of OpenStack: every service
(horizon, controller, keystone) runs as several different executors, a proxy
sends each request to all active ones and judges their responses, a judge
service compares the requests the executors send on to their backends and
forwards one of them, and a schedule service keeps the pool of executors
alive, rotating and clean. This directory holds TLA+ models of that code,
their model-checking configurations and machine-checked proofs about them.

Own code: `src/src/*.cpp` and `src/src/include` (about 8200 lines of C++).
Everything else (libs, pkg, deploy, systemd) is vendored, packaging or
configuration. The repository has no tests; its comments and log lines are the
only statements of intent.

## Inventory

| Part | Code | State | Operations | What makes it correct |
|---|---|---|---|---|
| schedule pool | `mimic_schedule.cpp` | `allExecList`, `activeExecList`, `manualDownNum`, `isFirstStart`, `preCleanTimes`, table `exec_status_info` | first start, report timer, schedule timer, clean threads, manual_up / down / clean, report_error, update_config, update_scweight | the two lists agree, the pool is never emptied nor larger than execNum, an executor in cleaning has a clean thread, the table follows, free places are filled |
| publication | `mimic_schedule.cpp` (`syncAndPub`, `doSubscribe`, `readCb`) | `subscribeBevs` | subscribe, publish, close | every subscriber ends with the current pool |
| subscriber | `mimic_suber.cpp` | `allExecList`, `activeExecList`, policy of one process | subscribe, read, reconnect, load from MySQL | the copy is a snapshot the schedule published; it catches up after a reconnect |
| timers | `mimic_timer.cpp` | event base and thread of a timer | spawn, stop, callback | one thread per timer; a stopped timer stops |
| judge front end | `mimic_judge.cpp` | `frontReqList`, serial number | receive, hand to a judge thread, reply | a reply reaches the request with its number, no reply blocks the others |
| judge threads and votes | `mimic_jthread.cpp`, `judge_task.cpp` | `taskList`; per sid the data, groups, compare records, result, answers | first and later requests, timeout, backend answer | every request answered once, the majority wins, exactly the dissenters are reported, the task goes |
| error counters | `judge_task.cpp:1114-1141`, `proxy_task.cpp:170-200` | `judgeErrNum` | count, report | nobody is reported before he has lost more votes than the limit, and who loses for ever goes |
| proxy front end | `mimic_proxy.cpp` | `proxyTaskList`; the policy and weight rows it writes | receive, commands, reply, clear | a task per request, removed in the end; a schedule service works with the rows of the table |
| proxy tasks | `proxy_task.cpp` | per request the responses, groups, result | send to all, response, error, finish | the front request is answered once; a 504 only without alternative |
| service base, launcher, CLI, utilities | `mimic_service.cpp`, `mimic_lanucher.cpp`, `mimic.cpp`, `mimic_util.cpp` | threads, pipes, child processes | start, stop, SQL, TCP | no protocol state of their own |

Interaction: the services are separate processes. The schedule service
publishes snapshots over TCP to the subscribers in each proxy and judge
process, which report lost votes back with one-shot messages
(`report_error`). Inside a judge process the HTTP threads pass requests to the
judge threads, and these pass answers back, through pipes; a sid always goes to
the same judge thread (`mimic_judge.cpp:383-388`). Inside the schedule process
the main event loop, two timer threads and one detached thread per cleaning
share the pool under `mutexExecs`. MySQL keeps the table the pool restarts
from and the policy; the horizon proxy writes the policy, the switch and the
weights and tells the schedule services to read them.

Hard parts: clean threads that end minutes after they started; operator
commands at any moment, also before the first start is over; a reload that
does not take the mutex; copies, time-outs and the backend's answer in any
order; what happens to a vote's late requests; the time-out callback that
iterates over a task its own last step may delete; pipes that fill up under a
mutex; counters that several threads share without one; snapshots and messages
that overtake each other or get lost. `PROJECT.json` lists the hazards with
their lines.

## Modules

| Module | What it is |
|---|---|
| `Schedule.tla` | the executor pool: one action per critical section |
| `MCSchedule.tla` | executors on hosts, sets of commands, for TLC |
| `ScheduleProofs.tla` | theorems about `Schedule` |
| `Vote.tla` | the vote that judge and proxy take, each in its own copy of the same functions |
| `VoteProofs.tla` | lemmas about `Vote` that both proofs rest on |
| `Ballot.tla` | abstract specification of one vote of the judge |
| `JudgeTask.tla` | one sid in a judge thread, and its mapping to `Ballot` |
| `MCJudgeTask.tla` | values, rules and scores for TLC |
| `JudgeTaskProofs.tla` | theorems about `JudgeTask`, among them that it implements `Ballot` |
| `Answer.tla` | abstract specification of what the proxy promises a client |
| `ProxyTask.tla` | one request of a client in the proxy, and its mapping to `Answer` |
| `MCProxyTask.tla` | responses, statuses and scores for TLC |
| `ProxyTaskProofs.tla` | theorems about `ProxyTask`, among them that it implements `Answer` |
| `JudgeFront.tla` | HTTP threads of a judge, numbers, pipes, `mutexInPj` |
| `MCJudgeFront.tla`, `JudgeFrontProofs.tla` | connections on threads for TLC; theorems |
| `ErrorReport.tla` | from lost votes to the loss of a place in the pool |
| `MCErrorReport.tla`, `ErrorReportProofs.tla` | addresses for TLC; theorems |
| `Policy.tla` | the horizon proxy writes the tables, the schedule services read them |
| `MCPolicy.tla`, `PolicyProofs.tla` | rows and their services for TLC; theorems |
| `Publish.tla` | snapshots on their way to a subscriber |
| `MCPublish.tla`, `PublishProofs.tla` | the module for TLC; theorems |
| `Timer.tla`, `MCTimer.tla` | the schedule timer, its threads and its one member `base` |

How they fit together: `ProxyTask` and `JudgeTask` end with `reported`, the
executors that lost a vote. `ErrorReport` starts there (`Lose`), and ends with
`doUpdown`, of which `Schedule` has the detail (`doReportError`). `Schedule`
keeps the last snapshot as `published`; `Publish` takes the pool as a version
number and follows the snapshots, line by line, to the copy a proxy or judge
works with. `Policy` is where `SwitchOff`, `SwitchOn`, `ChangeRule` and the
reloads of `Schedule`, `Command` of `Publish` and `syncPolicyFromMysql` of
`Timer` come from. `JudgeFront` carries requests to the judge threads and
replies back; between `jthreadReadCb` and `Answer` a request is `JudgeTask`'s.

`JudgeTask` and `ProxyTask` extend `Vote` and share its variables and
operators; the MC modules extend the module they check, and the proof modules
extend it together with `VoteProofs`.

### Schedule

A state is the status of every executor (`status`, that is
`allExecList[..].status`), the keys of `activeExecList`, `manualDownNum`, the
first-start flag, rule and switch, the clean threads of each executor, the
executors that were cleaned less than a minute ago, the status column of the
table, the rows a reload has fetched, and the last published active list.
`loop` and `left` say which loop of the report callback runs and how many
iterations it has left.

Actions: `FirstReport`, `InitPick`, `InitDone`, `InitFailed` (the first
start), `Report` (`ActiveFailed`, `SpareFailed`, `CameBack`, `NoNews`, then
`BeginRefill`) and `RefillPick`, `execAtuoSchedule`, `CleanDone`, `CoolDown`,
`doManualUpOpt`, `doManualDownOpt`, `doManualCleanOpt`, `doReportError`,
`SwitchOff`, `SwitchOn`, `ChangeRule`, `ReloadSelect`, `ReloadApply`,
`ReloadFailed`.

Grain: every critical section of `mutexExecs` is one action, except the loops
of the report callback, which take one step per iteration while they hold the
mutex, because the reload of `update_scweight` does not take it and runs in
between.

Abstractions:
- `Init` is the state after the first pass of `execStatusReport` (every
  executor initing) with a full table of a previous run.
- A failed `initMysqlAndPub` fails at its first statement.
- `execAtuoSchedule` downs the member that is oldest in service; the model downs
  any member. `failCount` only orders votes and is left out. Weights are
  positive, so `scweight` may pick any ready executor.
- `doUpdateConfig` reads the new policy before it takes the mutex; the model
  does both in one step. `doReportError` takes its list executor by executor.
- `hung-up`, `hung-down` and restarts of timers are `Timer`'s.
- `InitDone` deletes and inserts the rows in one step
  (`mimic_schedule.cpp:265-308`). The SELECT of a reload takes no mutex and can
  read the table half filled in between; an executor without a row then drops out
  of both lists (`mimic_suber.cpp:334-363`). In the model the table always has
  every row, so what is claimed of the pool does not cover this reload.
- When the table cannot be read and a list is empty, `syncExecFromMysql` marks
  every executor active (`tmpiplist` is never filled); `ReloadFailed` does so.

### Vote

`data` says what each executor sent, `judgeGroup` who is in whose group,
`cmpRetRecord` who was found different from whom, then the result, its type
and the scores the task copied from the pool. `Group` puts a new datum into a
group, `Majority` and `timeOrWeightJudge` find a result, `analyseJudgeResult`
who is reported. The judge and the proxy have their own copies of these
functions (`judge_task.cpp`, `proxy_task.cpp`), equal in all the model keeps;
`PROJECT.json` maps the operators to the judge's copy.

- `cmpJudgeData` compares two data; the model takes it as equality of values,
  an equivalence. A body that should be JSON and cannot be parsed agrees with
  nothing, which is a value no two executors send.
- `judgeGroup` is a map ordered by addresses in memory, so which leaders a
  datum was compared with before the one it agrees with, and which of two
  tied groups is found first, is nondeterministic.
- `2 * size >= N` is `size >= ceil(N / 2.0)` in the integers.
- Fail counts, times in service and the rule are drawn from constant sets when
  the task is created, as the code copies them then.

### JudgeTask and Ballot

A state is one vote and besides it the backend, who was answered, who was
reported and the timer. `coming` and `owed` count requests of the
environment and answers still owed. After `clearTask` the variables keep the
state of the last task and `live` is FALSE.

Actions: `FirstRequest`, `NextRequest`, `Refuse` (the three refusals of
`doJudge` and `jthreadReadCb`), `TimeoutStart` and `TimeoutItem` (one
iteration of `judgeTimeoutCb`), `BackendReply` (`backendRespCb`,
`backendRespErrCb`), `BackendGarbled` (neither: see below).

Grain: a judge thread is one event loop, so a callback is one action; the
time-out callback is a step per stand-in, during which nothing else runs
(`Idle`).

Abstractions:
- The number of executors a vote waits for (`execNum`) is the size of the
  Server-Array, and the `Mimic-Host` of a request is checked against it in
  the judge front end (`mimic_judge.cpp:302`), so no stranger votes.
- A keystone judge sends nothing to a backend and is not modelled.
- evhtp frees a connection whose data are no HTTP, and its request, and calls the
  connection's and the request's `fini` hooks only (`evhtp.c:2308-2319`,
  `5047-5057`). `sendToBackend` sets none, so after such an answer the task is
  neither answered nor deleted; `OnlyRefusedStays` and `TaskEnds` except it.
- The backend of a horizon request is a URI. `sendToBackend` uses what
  `evhtp_uri_parse` returned without a test (`judge_task.cpp:275-288`) and crashes
  if it is none; a process that crashes is not modelled.
- After the last stand-in `judgeTimeoutCb` reads `serverarray` of a task that
  may be deleted (`judge_task.cpp:78`). Its loop ends whatever it reads.

`Ballot` knows nothing of groups, answers or timers: one vote per executor, at
most one choice, made as soon as half of the executors agree or nobody is
missing, and only among the requests that are allowed to win. `JudgeTask`
implements it with `votes <- data, chosen <- judgeResult, open <- live`.

### ProxyTask and Answer

A state is the vote and besides it `stage` (what has become of the client's
request), `live` (the task is in `proxyTaskList`), `countp` (how far the loop
of `startTask` is), the requests in flight, the replies to the client and who
was reported.

Actions: `SidInUse` and `HelperFails` (the two refusals of `makeSidTask`),
`StartTask`, `Send` and `SendFails` (one iteration of the loop of
`startTask`), `Response` and `NoResponse` (`proxyReqCb` and `proxyReqErrCb`,
with the judging, the reply, the report, and `proxyReqFinishCb`, which follows
them), `Garbled` (`proxyReqFinishCb` alone).

Grain: a task and all its callbacks belong to the event loop of the front
request's thread, so a callback is one action; the loop that sends takes a
step per executor, during which nothing else runs.

Abstractions:
- One task. Whether its sid is in use is nondeterministic (`SidInUse`).
- The subscription is read in the same event loop, so the active list that
  `allReqCallback` has tested is the one `initHeaders` copies; an empty one
  gets a 504 without a task and is not modelled.
- `evhttp_make_request` does not fail; a send fails when the address cannot be
  parsed or there is no connection. An error callback that has a status
  counts as a response.
- `Keystone` says whether the keystone helper runs and can fail.
- A response that is no HTTP reaches neither `proxyReqCb` nor `proxyReqErrCb`:
  evhtp frees the connection and the request, and only `proxyReqFinishCb` runs
  (`evhtp.c:2308-2319`, `5047-5057`). `garbled` keeps whose datum was lost so.
- A task none of whose sends succeeded, and one refused after its creation,
  stay in the list: `proxyReqFinishCb` never runs for them. So does a task that
  lacks a datum for a garbled response. `TaskOutlivesRequests` says these are the
  only ones. `Stranded` says when the client of such a task has no reply either:
  nothing more can come and no half of the executors agrees on anything but a
  504. `ClientAnswered` excepts that and nothing else.
- The error counters are `ErrorReport`'s.

`Answer` knows nothing of groups, records, stages or tasks: a client is refused
before anything was heard, or it gets the response of one executor, chosen once.
A choice is due when half of the executors gave the same response and it is no
504, or when all are in. In the first case that response wins, whatever else
is in; in the second a 504 wins only among nothing but 504s, and where half of
them said 504 a success goes before any other status. `ProxyTask` implements it
with `responses <- data, chosen <- judgeResult`. `TypeOK` of this module is not
part of the run; it is proved.

### JudgeFront

A state is the request of each connection (`conn`), how far it is (`step`), its
judge thread and number, the counter `sn`, the list of each HTTP thread
(`frontReqList`), the holder of `mutexInPj` and the pipes in both directions.
`clash` is history: a number was drawn that the list still had. `come` counts
the requests, up to `MaxRequests`.

Actions: `allReqCallback`, `initJudgeData`, `LockToSend`, `Send` (the request on
its way in), `jthreadReadCb`, `Answer`, `NoReply`, `WriteReply` (the judge
thread; `NoReply` is the answer of a backend that is no HTTP), `ReadReply`,
`replyToFront`, `RequestEnds`, `reqFinishCb` (the reply and the end of a
request).

Grain: a step ends where the thread may wait, for the mutex or for room in a
pipe. An HTTP or judge thread in the middle of a callback runs no other.

Abstractions:
- A client awaits its reply before it sends the next request on a connection.
- A paused connection is neither read, written nor timed out, so a request that
  waits is not freed (`Paused`); this is what keeps `replyToFront` from the
  return that leaves the mutex locked.
- An answered request stays in the list until its connection is closed or used
  again. A request with a wrong header is answered at once and is not modelled.
- Writes to pipes block and do not fail. A pipe holds 8192 pointers.
- The threads can block each other for ever: one holds `mutexInPj` and writes to
  a judge thread whose pipe is full, the judge thread writes to an HTTP thread
  whose pipe is full, and that thread waits for the mutex, or is the first.
  Nothing in the code prevents this circle. `Jammed` names it, and the
  properties say what it takes (`MutexFreed`) and that nothing else stops a
  request (`Answered`, theorem `OnlyCircleStops`).
- The judges of controllers neither pause nor reply, and the list they clear is
  never read; they are not modelled here.

### ErrorReport

A state is the shared counters `judgeErrNum`, of each thread what it does next,
what its loop has yet to take and whom its report will name, the reports on
their way, what `doReportError` has yet to take of the one it works on, and
the keys of the active list. `votes` is history: how many votes an address lost.

Actions: `Lose`, `Find`, `Insert`, `Compare`, `Fetch`, `Store`, `Clear`, `Send`
(`sendToSchedule`, a step for every access to a counter), `Drop` (the connection
fails), `Receive`, `TakeDown`, `CutOff` (`doReportError`, an address a step).

Abstractions:
- `judgeErrNum` is a `std::map` that several threads insert into; what that does
  to the tree is undefined and left out, what it does to the counts is modelled.
- A counter of `Limit` or more is told from no other, so counting stops there.
- A report is a set of addresses; `doReportError` takes them in any order, and
  stops at the first that is not in the active list.
- The pool around an executor is any nonempty set after each step; who replaces
  whom is `Schedule`'s.

### Policy

A state is the table (the rows of `configurable_mimic_config` and the weights of
the executors), of each thread of the horizon proxy the command it serves, the
rows still to set and whom it still tells, the messages on their way, and of
each schedule service what its SELECT has brought and what it works with.
`untold` is history: a message was lost, a SELECT failed or nobody was told,
since the service last read the table.

Actions: `deal_monitor_config_policy`, `deal_config_mimic_switch`,
`deal_monitor_config_scweight`, `NextKey`, `Skip`, `Update`, `Tell`, `Reply`
(the proxy, a step for every statement and every client), `Drop`, `Read`,
`Apply` (a schedule service).

Abstractions:
- A client's message goes out when its thread is back in the event loop; the
  model lets it go at once, which is one of the orders the network gives anyway.
- The order of rows in a request is arbitrary; a request names a row once.
- A policy row has the suffix of the service that reads it. A command that names
  an executor the table does not have is left out (the code reads past an empty
  result).
- `config_policy` compares with one SELECT for all its rows, which may be old
  when it comes to a row; `config_scweight` has one SELECT a row.
- A schedule service has read the policy and written the weights when it
  started.

### Publish

A state is the pool as a version number, what the timer and the main loop are
at in `syncAndPub`, the connection with the lines on it, the buffer of the
subscriber and its copy. A publication is the line of its snapshot, to which
the JSON writer adds a newline, and the CR LF of `endbuf`, an empty line.

Actions: `FirstStart`, `FirstStartEnds`, `Change`, `Command`, `Sync`, `Snapshot`,
`WriteLine`, `WriteBlank`, `doSubscribe` (the schedule service), `Deliver` (any
number of lines, and `readCb`), `Break`, `subscribe`, `Refused`, `Connected`.

`update_config` and `update_scweight` begin with `Command`. Between it and their
publication (`Snapshot`) or a changed switch (`Change`), `Sync` changes policy
and lists without the mutex, any number of times, whatever the timer is at, also
in the middle of its first publication. What a snapshot reads while this goes on
is a version that the next one supersedes.

Left out: torn reads of the lists a snapshot is made from, the use of a
connection the main loop has freed meanwhile, an empty list and lines that
cannot be parsed. One subscriber: none of them influences another.
`overlap`, `missed` and `silenced` say when the code itself lets an older snapshot
come last: publications overlapped; a subscriber came, or policy or lists
changed, after the first publication had read the pool and before
`isFirstStart = false`, when `syncAndPub` returns at once. Each lasts until the
next publication.

### Timer

Every spawn is a thread with an event base, but the object has one member
`base`. `hung` is history: how many threads had been spawned when the timer was
hung down, 0 since it was hung up. Actions: `doHungDown`, `doHungUp`,
`syncPolicyFromMysql` (a new interval), `timerRun`, `timerCb`, `LoopEnds`. What
libevent does with a base that was freed is undefined and has no effect in the
model, so no property but the one of the run below is claimed of it, and the
trace it finds frees none: hung-down, then a new interval, which spawns a
thread, whose callback runs.

## Runs

| Run | Question | Bounds |
|---|---|---|
| `pool_any_command` | what survives any command at any moment; does the pool keep to execNum, does the table follow? | 3 executors on 2 hosts, `host_random`, manual_up in any status, manualDownNum within 1 of 0, up to 2 clean threads each |
| `pool_reload` | what survives a reload in the middle of a loop and lost statements? | 2 executors, commands at any time |
| `pool_liveness` | does the first start end, cleaning end, an offline executor get handled, a free place get filled; do lists, clean threads and snapshots agree when the operator waits for the first start and raises ready executors? | 3 executors on 2 hosts, fair threads and timers |
| `judge_horizon` | exactly one answer per request; no callback without its task; every task deleted, and so every request answered, in the end, unless the backend's answer is no HTTP | 4 executors, 2 requests each, late ones too; fair timer and backend |
| `judge_controller` | majority wins; who is reported; which tasks stay; `JudgeTask` implements `Ballot` | 4 executors, three values and the stand-in, so that halves tie and all four differ; malformed backends |
| `proxy_request` | one reply per client at most, and in the end one unless the task is stranded; `ProxyTask` implements `Answer`; a 504 only when nothing else can be had; majority wins; who is reported; no callback without its task; which tasks are deleted | 4 executors, two successes, another status, the stand-in and another 504, responses that are no HTTP; both rules |
| `judge_front` | a number leads to its request, a request gets its own reply; what keeps the mutex, and what a request from its reply? | 4 connections (3 on one HTTP thread, 1 on another), 4 requests, 1 judge thread, pipes of one place, numbers 0 to 2; the circle of full pipes is reached |
| `error_report` | is anybody reported unearned; does who loses for ever go? | 2 threads, 2 addresses of different executors, limit 1 |
| `publish` | is the pool as it is the last thing a subscriber takes; does it catch up after a loss? changes with and without the mutex, in the first publication too | 4 versions, 4 lines on the way |
| `policy` | does a service work with the rows of the table once nothing is on its way to it? | 2 threads, 2 services, a policy row, the switch and 2 weights, 2 values, 2 requests |
| `subscriber_lags` | violation: two publications that arrive together leave the second in the buffer | as `publish` |
| `hung_down_stays` | violation: a new interval starts a timer that was hung down | 3 threads ever |

Known divergences from comments, log lines and intent that the models contain
and that have no run:
- `doUpdown` takes an executor down without a replacement although its log says
  "dont down the active one" (`mimic_schedule.cpp:802`).
- The pool grows above execNum, though manual_up refuses with "execs is largest"
  (`mimic_schedule.cpp:888`), after a switch turned on and a manual_up before
  the next report; `PoolNotTooLarge` says when it does not.
- With five executors the rules by time and weight report executors that agree
  with the winner, in the judge (`judge_task.cpp:847`) and the proxy
  (`proxy_task.cpp:1150`); the theorems about reports say when they do not.
- A request that comes after its task was deleted starts a second vote.
- After an executor's response that is no HTTP the proxy's task is never deleted,
  and its client gets no reply if the other responses leave the vote open; after
  such an answer of a backend the judge's task is never answered nor deleted
  (`evhtp.c:2308-2319`; `proxy_task.cpp:616-630`, `judge_task.cpp:303`).
- The circle of full pipes can close: a pipe has 8192 places, and the services'
  configuration allows 809600 descriptors.
- A reload during the first start can read a table that was just emptied and
  is not yet filled, and takes executors out of both lists
  (`mimic_suber.cpp:334-363`).
- A policy or a weight that changes between the first publication's reading of
  the pool and `isFirstStart = false` is not published until the next change
  (`mimic_schedule.cpp:179`).
- A repeated `config_policy` after a lost message finds the row as it should be
  and tells nobody; `config_policy` with `mimic_switch` tells keystone only.
  `SettledFollows` excepts both (`untold`).

Why the bounds are enough: two executors are the pool and one or two are spare,
so a member can fail while another is cleaned and a third replaces it; two hosts
are needed for `host_random`. Two clean threads per executor are what one more
than allowed takes; `MaxCleaners` and `MaxDrift` are guards of the model, named
in the module. Four executors let two groups of two tie, and a group of two, a
single one and a time-out meet. Two requests of one executor are the first and a
copy, or one in each of two votes of the sid. Four connections with pipes of one
place are the fewest that close the circle of full pipes, and four requests
bring three numbers round while they are in use. A limit of one tells a lost
count from a report twice. Four versions let two publications overlap and two
more follow. Two requests of two threads write the same row in both orders, and
a request of two rows lies between. The safety properties are proved without
these bounds; the liveness properties are checked within them only.

`CHECK_DEADLOCK FALSE` stands where requests or threads are bounded
(`judge_horizon`, `judge_controller`, `proxy_request`, `judge_front`, `policy`,
`hung_down_stays`): when all were sent and served the system stops, and in
`judge_front` also in the circle of full pipes.

Fairness: in `pool_liveness` a loop that holds the mutex goes on (weak
fairness); the report timer keeps probing every executor and a clean thread
ends, which is strong fairness, since each waits for a mutex that others keep
taking and releasing; a minute passes for an executor that was cleaned (weak
fairness). Commands and rotation get none. `judge_horizon` assumes that the
timer of a task fires, that its callback runs to its end, and that the backend
answers, in HTTP or not, or its connection times out; requests get none.
`proxy_request` assumes that the loop of `startTask` goes on and that every
request it sent ends with a response, an error, the timeout of its connection or
a response that is no HTTP; which of them is open, and the arrival of a client
gets none. `judge_front` assumes weak fairness: a thread that can go on goes on,
an event loop comes back to its pipe, and a judge thread comes to a reply or to
an answer that gives none (`JudgeTask`). As requests are bounded nobody is
overtaken for ever; whether an endless stream could starve a thread that waits
for the mutex depends on the system's mutex and is not asked. `error_report`
assumes that a thread in `sendToSchedule` goes on, that a report arrives or
fails, and that `doReportError` comes to its end. `publish` assumes that a
publication goes on, that lines arrive, that the subscriber tries again, and,
strongly, that the main loop comes to the message "subscribe"; the pool,
commands and failures get none, and `Resubscribed` itself says "after the last
loss". `policy` has safety properties only. This is what the event loops give.

## Proofs

All proofs hold for any number of executors and values; `ASSUME`s on constants
are in the modules.

Schedule (`ScheduleProofs`):
- `TypeCorrect`, `CleanerAlwaysThere`, `ServiceStaysUp`, `ProcessStays` hold
  without restriction on the commands. They rest on `LoopInv`: while a loop of the report
  callback is running, which flags it can rely on; without it the refill after
  a reload in the middle of the loop could not be excluded from the first
  start.
- `ListsAgree`, `CleanersExclusive`, `SnapshotExact` assume `Disciplined`: no
  command before the first start is over, manual_up only for ready executors, no
  reload. They rest on `PoolInv`, which adds that a cleaning executor has
  exactly one thread, that cooling executors are known, and that before the
  first start is over nobody is cleaned or published. The assumption is needed:
  without it TLC finds each of the three violated.
- `BudgetKept` assumes `Accounted` (no reload, and either the switch stays on
  or there is no manual_up); its invariant `BudgetInv` counts the picks a
  running loop still owes. `PoolNotTooLarge` (at most execNum members) assumes
  neither reload nor manual_up.
- `TableInStep` (`exec_status_info` follows the statuses) assumes that no
  statement fails (`~DbMayFail`), no reload and a switch that is not changed.
  Its invariant is `TableInv == LoopInv /\ fetched = {}`. `RowStep` looks at one
  step from the row of one executor: after the first start the row is left
  with its status or written with the new one, and the first start writes them
  all. The only exception is `SwitchOff`, which makes executors ready and leaves
  their rows; so without the assumption on the switch `OnlySparesBehind` holds:
  a row that is behind is that of a ready executor. The other two are needed: a
  lost statement or a reload leaves any row behind.

Vote (`VoteProofs`): `GroupType` and `GroupsGrow` say that `Group` keeps the
groups the classes of equal data, `MajorityHalf` that a leader of `Majority`
stands for half of the votes, `HalfGrows` that a half does not go away,
`PreferredExec` that the rules choose an executor, `HalvesAreAll` that two
halves leave nobody out, `ReportExact` who is reported when all data are in.
Both invariants below use them.

Judge (`JudgeTaskProofs`):
- The invariant is `Inv == TypeOK /\ Groups /\ First /\ Result /\ Answers`.
  `Groups`: groups are exactly the classes of equal data and two leaders have
  been recorded different in both directions. `First`: the first request is real
  and leads a group. `Result`: as long as there is no result none is due, and a
  result is real and was due. `Answers`: which backend states are possible, and
  that everybody was answered once the backend came.
- From `Answers`: `JudgeTypeCorrect`, `AnsweredOnce`, `CallbackSafe`.
- From `Inv`: `MajorityAlwaysWins`. `ReportInv` adds who is reported when a task
  ends; it gives `MajorityReports` for any N and `DissentersReported` for
  N <= 4; with 5 it is false.
- From `Inv`: `RefusedStayAlone`. A task whose data are all in has a result, and
  one with a result and all data stays only if its backend is waited for, was no
  address, or gave an answer that is no HTTP.
- `ImplementsBallot`: the initial state maps to an initial ballot, and each
  action to `Open`, `Vote`, `Close` or a stutter; the step that decides needs
  `Result` (no decision was due before) and `Groups` (a group of half the
  executors is half of the votes).

Proxy (`ProxyTaskProofs`):
- The invariant is `Inv == TypeOK /\ Progress /\ Groups /\ Result /\
  RepliedOnce`. `Progress`: at every stage each executor's datum is here, on its
  way, still to be asked for, or lost with a garbled response, and the task is
  in the list while any is on its way. `Groups` is the judge's. `Result`:
  without a result no half agrees on anything but a 504, and a 504 wins only
  when all data are in and are 504s.
- It gives `ProxyTypeCorrect`, `OneReply`, `BestReply` (no 504 without need),
  `TaskSafe` and `ProxyMajorityWins`. `ReportInv` adds who is reported; it
  gives `ProxyMajorityReports` for any N and `ProxyDissentersReported` for
  N <= 4, as in the judge.
- `SilentOnlyIfStranded` is what safety can say of `ClientAnswered`: when the loop
  has sent all and no request is in flight, the client has its reply or the task
  is stranded. A half that agrees on anything but a 504 has decided (`Result`), so
  without a reply there is none, and without a garbled response all data were in.
- `ImplementsAnswer`: refusals map to `Refuse`, what judges a response to `Hear`,
  all else to a stutter. `CarriedLeads`: a response that may win before all are
  in is that of a large group, so the code decides exactly when a choice is due
  (`DecideBest`). `InsteadFalls`: with all data in, the groups show every status
  there is, so the loop over the groups finds a success, or anything but a 504,
  whenever there is one. The case between them is a tie: one half says 504, the
  other does not, and the iteration meets the 504 first; `HalvesAreAll` says that
  the only other group is then the one that was to win.

Judge front end (`JudgeFrontProofs`), for any connections and threads:
- `FrontTypeCorrect`, `RequestsAlwaysTracked` and `RepliesOwn` rest on an
  invariant that says where a request is: in the pipe it was written to, once,
  or in the hand of its one thread, and, as long as there was no `clash`, under
  its number in the list of its thread.
- `MutexAlwaysFreed`, for any number of connections: whoever holds the mutex is
  writing, and the circle of full pipes takes `2 * Capacity + 2` requests. They
  are counted by an injection: the contents of the two full pipes, the request
  that is sent and the one that is answered, all different.
- `OnlyCircleStops`, whatever numbers have clashed: while a request is on its way
  and its judge thread will have a reply, some thread can go on (`CanGoOn`, the
  guards of the steps fairness is about) unless the threads are in the circle. It
  needs `Held`: a request whose step says it is in a pipe is in that pipe. Without
  it a request could be lost and no guard show it.

Error counters (`ErrorReportProofs`): `ReportTypeCorrect` and
`EveryReportEarned`, for any threads and addresses. The invariant `NoneTwice`:
the counter of an address together with the threads that have lost a vote of it
and not yet counted it is at most the votes it lost, unless these are above
the limit already. Lost updates only lower the counter, so it survives the race.

Policy (`PolicyProofs`): `PolicyTypeCorrect` and `PolicyArrives`, for any
threads, services, rows and values. The invariant `Followed` says of a service
that is not as the table, counting the rows it has read and not applied, that it
is still to be told, has a message on its way or was not told. It holds at the
UPDATE because whom the thread tells is exactly who follows the row (or
`untold` grows), and at the SELECT because the rows are those of that moment.

Publication (`PublishProofs`), for any number of versions and lines:
- `TypeCorrect`: in particular `readCb` never takes an empty line for a
  snapshot. It needs `BlankAssumption` (an empty line is no version).
- `PoolArrives` rests on `PublishInv`. `StartAlone`: in the first start the timer
  alone publishes. `LoneWriter`: a publication that began alone is the only one.
  `Current`: what it has read is the pool, unless the main loop has changed it and
  is to publish it yet, or the first publication silenced it. `FirstReceived` and
  `PoolComing`: the pool is under way, or somebody is about to write it.
  `NewestUnderway` alone is not inductive, as it says nothing of the states
  between two writes.
- What the subscriber reads is a matter of places in sequences. `Lines` is what
  it works with, its buffer and the wire in one sequence; `DeliverTakes` says an
  arrival cuts this sequence at a filled line, wherever the empty lines are and
  however many lines arrive; so the last filled line stays (`TakenKeepsLast`), and
  writing puts a line behind it (`LineWritten`, `BlankWritten`).
- `NeverBack`: as long as no publication begins during another one (`overlap`), the
  copy of a subscriber never becomes older. Its invariant `LinesRise` says the
  versions in `Lines` do not decrease and are at most the pool's, and that who is
  about to write has read a version as new as any of them. The assumption
  is needed: `syncAndPub` of the main loop reads the pool without the mutex, may
  be overtaken by the timer's publication, and then writes the older one.

Only model-checked: the liveness properties, which are out of the prover's reach
(`FirstStartEnds`, `CleaningEnds`, `OfflineHandled`, `SparesServe`, `TaskEnds`,
`ClientAnswered`, `TaskDeleted`, `Answered`, `LoserGoes`, `Resubscribed`), and that the
violations listed as findings occur. Every invariant and every refinement the
runs check is proved. `Timer` has no theorem, since no property but the violated
one is claimed of it.

## Not modelled, and plan

Not modelled:
- The launcher, the command line, utilities and the service base, the keystone
  helper, scripts and packaging: no protocol state of their own. What they do to
  others is in the modules that call them (a message or a statement is lost or
  not, a pipe is full or not).
- The vendored libraries (libevent's HTTP, redis++, JSON, YAML, logging), nearly
  nine tenths of the lines: not this program's logic, modelled only by what
  `src/src` sees of them.
- Comparing bodies (`cmpJudgeData`, `flatJson`) is taken as an equality.
- Undefined behaviour with no outcome to enumerate: a `std::map` inserted into by
  several threads (`proxyTaskList`, `judgeErrNum`), connections and timer bases
  used after they were freed.
- Commands that change nothing: queries, and `exec_manual` of the proxy, which
  forwards one message.

What could follow, in this order:
1. An abstract specification of the judge's front end (a request, its reply and
   nobody else's) and `JudgeFront` as its implementation.
2. `Policy` as an implementation of rows and services that follow them.
3. `PublishProofs` with a wider exception than `overlap`: until when a snapshot that
   was overtaken may still arrive.
4. `ProxyTaskList`: the table of tasks shared by threads, as far as it is defined.
