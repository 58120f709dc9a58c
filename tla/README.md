# rushstack: specifications, model checking and proofs

rushstack offers "rush" relays as a service: a tenant asks a REST API for a
rush, and an engine has OpenStack Heat build the stack it runs on.  This
directory holds TLA+ models of the parts of that program where order, failure
and concurrency decide whether it works, the TLC instances that check them, and
TLAPS proofs of the most important results.  Paths below are relative to
`src/rushstack/` unless they start with `src/`.

## 1. The system

    client --HTTP--> rushstack-api --AMQP (qpid)--> rushstack-engine --HTTP--> Keystone, Heat
                     (WSGI workers)                 (green threads)  --SQL---> MySQL

| Component | State it keeps | Operations | Talks to |
|---|---|---|---|
| REST API (`api/`) | none; a context per request | echo, list, create, delete and get a rush | calls the engine through `rpc/client.py` |
| API middleware (`api/middleware/`, `common/auth_*.py`, `common/context.py`) | none | version negotiation, authentication by password or token, the request's context | Keystone |
| WSGI server (`openstack/common/wsgi.py`) | worker pids, whether it runs | start, fork and replace workers, SIGTERM, SIGHUP; routing and the JSON of a request | the operating system |
| RPC calls (`openstack/common/rpc/amqp.py`) | waiters by message id, caches of seen ids, a pool of green threads, a pool of connections, one reply proxy | call, cast, fanout, notify, reply, dispatch of a request | a driver |
| AMQP drivers (`impl_kombu.py`, `impl_qpid.py`) | link, consumers and their tags, consumer thread | declare, publish, consume, acknowledge, reconnect, close | a cluster of brokers |
| zmq driver, matchmakers (`impl_zmq.py`, `matchmaker*.py`) | sockets, a backlog per topic in each host's receiver; registered hosts and topics | send, relay, read, reply; register, heartbeat, look up, prune | receivers, Redis, a ring file |
| fake driver (`impl_fake.py`) | a list of consumers per topic | call, cast, fanout, close | the same process |
| dispatch and proxies (`dispatcher.py`, `proxy.py`, `common.py`) | none | versions, envelopes, exceptions over the wire | - |
| engine (`engine/service.py`) | nothing between requests; the locals of each running method | `start_rush_stack`, `stop_rush_stack`, `get_rush`, `get_list`, `echo` | Heat, database |
| database (`db/`) | tables `rush_type`, `rush_stack`, `rush_tenant` | the statements of `db/sqlalchemy/api.py` | MySQL |
| launchers, thread groups, looping calls (`openstack/common/service.py`, `threadgroup.py`, `loopingcall.py`) | services, children, threads, timers | launch, stop, wait, respawn | signals, eventlet |
| configuration, logging, utilities, migrations, unused code from Heat | - | - | - |

What is hard in it, and what would make each part correct:

* **Engine.**  One request is a sequence of remote calls and statements without
  a transaction around them, and eventlet runs another request at each.  Rows of
  two tables and a stack in Heat describe one rush.  Correct: the tables agree
  with each other, a rush records its own stack and no other, a rush that was
  removed does not come back, a stop ends with the rush gone and deletes nothing
  else, no stack is left behind that nobody can stop.
* **RPC.**  A message is acknowledged after it was handed to a green thread and
  before that thread has run; a session can go in between, a publication can be
  repeated, an answer consists of two messages.  Correct: a request is not lost
  before an engine has taken it up, a caller is told nothing false, it is told
  something in the end, and the table of waiters does not grow.
* **Connections.**  A pool of bounded size, connections that are reset on their
  way back and rebuilt after errors, consumers declared one by one.  Correct: no
  connection is shared, none is lost silently, an engine serves all its queues or
  none, it comes back, and each kind of message goes where it should.
* **REST.**  A request passes through several parties that each decide something,
  with Keystone and an engine in between, and the timeout of a call leaves open
  what the engine did.  Correct: nobody acts for a tenant that is not his, a
  refused request is not carried out, a success was, everyone gets an answer.
* **Processes and threads.**  Signals arrive between a test and a fork, threads
  remove themselves from the list that is being walked, a child returns into its
  parent's loop.  Correct: after a stop nothing is left running, before it the
  configured number of workers runs, and dying workers do not keep the launcher
  forking at full speed.
* **No broker.**  Who reads, relays, registers and prunes are different processes
  that do not wait for each other.  Correct: who is alive is found, who is gone is
  not found for ever, nothing is executed twice, what is sent is executed or there
  is a reason, every call ends.

The repository has no tests (`src/tests/` holds empty packages), so docstrings,
comments and messages are all there is to compare the code with.

## 2. Modules

| Module | What it is |
|---|---|
| `HeatStacks` | Heat as the engine uses it: stacks, names, statuses (external) |
| `RushTables` | the rows of `rush_stack` and `rush_tenant` and the statements on them |
| `RushEngine` | the engine: the four methods over `HeatStacks` and `RushTables` |
| `RushLifecycle` | abstract: unused, recorded, listed, delisted, removed, in that order |
| `RushEngineProps` | the engine's properties and its refinement mapping |
| `RushEngineInv` | the inductive invariants `EngineInv`, and `StackInv` and `AccountInv` about stacks and who has them |
| `RushEngineProofs` | the engine's theorems about rows and lifecycle |
| `RushStackProofs` | the engine's theorems about stacks and who has them |
| `MCRushEngine` | instances for TLC |
| `RpcCall` | `rpc.call` from the caller through broker and engine and back |
| `RpcPromise` | abstract: a method runs at most once, its caller is told what came of it or nothing |
| `RpcRepeats` | abstract: a method may run again, but only after as many others as a cache remembers |
| `RpcCallProps`, `RpcCallProofs`, `MCRpcCall` | as above, for `RpcCall`; the invariants are in `RpcCallProps` |
| `BusTopology` | the queues, exchanges and keys each consumer and publisher class declares |
| `BusDriver` | connections of kombu and qpid to a cluster, the pool and the reply proxy of a client |
| `BusDriverProps`, `BusDriverInv`, `BusDriverProofs`, `MCBusDriver` | as above, for `BusDriver` |
| `RpcMessages` | versions, envelopes, the dispatcher's choice and exceptions, as operators |
| `RestApi` | a request from its path to an engine and back to a status; composes `RpcMessages` and `RpcPromise` |
| `RestPromise` | abstract: carried out at most once, for a tenant of one's own, answered truly and in the end |
| `RestApiProps`, `RestApiInv`, `RestApiProofs`, `MCRestApi` | as above, for `RestApi` |
| `Processes` | fork, exit, wait and signals, as the three kinds of program use them |
| `ServiceLauncher`, `ProcessLauncher`, `WsgiServer` | the engine's process, a launcher with workers, the API server |
| `Programs` | the three of them with the operator's signals |
| `ProgramsProps`, `ProgramsInv`, `ProgramsProofs`, `MCPrograms` | as above, for `Programs` |
| `MatchMaker` | who serves a topic: localhost, ring, Redis |
| `ZmqDriver` | clients, receivers and engines over ZeroMQ, with `MatchMaker` |
| `FakeDriver` | the driver within one process |
| `RpcBackends` | either of the last two, against `RpcPromise` |
| `RpcBackendsProps`, `RpcBackendsInv`, `RpcBackendsProofs`, `MCRpcBackends` | as above, for `RpcBackends` |
| `SequenceLemmas` | what appending to and removing from a sequence does to its elements and their places, for the proofs |

### The engine

`RushEngine` extends `RushTables` and `HeatStacks`, whose operators are the
effects of one statement or one remote call.  A worker `w` is a green thread in
a method: `pc[w]` names the next call it makes, `req[w]` the request, and `rid`,
`row`, `info` and `todo` are the locals `rush_id`, `rsc` (or `rush_entry`),
`stack_info` and what the loop over `rt` has left.  Each call or statement of
`engine/service.py` is one action, with the Python between it and the next one:

| Method | Actions, in order |
|---|---|
| `start_rush_stack` (132-196) | `Start`, `StartType`, `StartCreate`, `StartList`, `StartStack`, `StartTenant` |
| `stop_rush_stack` (199-230) | `Stop`, `StopGet`, `StopCheck`, `StopHeat`, `StopTenant`, `StopStack` |
| `get_rush` (233-263) | `Get`, `GetStack`, `GetCheck`, `GetResources`, `GetUpdate` |
| `get_list` (90-129) | `List`, `ListTenants`, then per row `ListRow`, `ListStacks`, `ListStatus`, `ListResources`, `ListUrl` |

`row[w]` is a copy and not the current row: SQLAlchemy's object was loaded
earlier, and what a stale copy does at a flush (`StaleData`, `rush_stack_update`)
is part of the statements.  `CallFails` ends the method as its `except` clause
does, or with an exception where the statement stands outside the `try`
(lines 212 and 246).  A creation or deletion may also take effect and its answer
be lost.  `Crash` forgets a method in the middle; an engine with several green
threads dies by several such steps, which allows more orders than a process does
and no fewer.  `HeatMoves` is everything Heat and its operator do meanwhile.

Not visible in the model: the text of stack templates, urls and statuses beyond
those Heat's lifecycle needs, timestamps, and who may call (the middleware
decides that before).  The endpoint is the Boolean "known".  `get_list` takes
the rows of `rt` in any order, as the database may.

### RPC calls

`RpcCall` has one caller process with a `ReplyProxy` (`waiters`, `inbox`,
`replies`, `replyQ`) and any number of engines.  `TopicSend`, `TopicResend` and
`TopicSendRaises` are the three ways `topic_send` under a `ConnectionContext`
can go.  An engine has a consumer thread, whose position is `stage`:

    Fetch  ->  Callback (SkipDuplicate or SpawnMethod)  ->  Acknowledge
    impl_qpid.py:147        :151, amqp.py:380-410            :155

and a set of green threads, each at `run`, `result`, `ending` or `failure`: what
`ProxyCallback._process_data` does next.  `Hear` is one turn of
`MulticallProxyWaiter.__iter__`, `GiveUp` its `queue.Empty` branch, `Deliver`
the caller's own consumer with `ReplyProxy._process_data`.

The broker is external and appears only in what both sides can see of it.  Its
failures, and the process's, are the constant `Faults`:

| Kind | What happens | Where the code meets it |
|---|---|---|
| `unconfirmed` | a publication arrives and its sender reconnects and repeats it | `ensure`, impl_qpid.py:420-428 |
| `reset` | the message is out and `reset` raises in `_done` | amqp.py:126-127 |
| `session` | an engine's session ends; what it has not acknowledged goes back to the head of the queue | impl_qpid.py:467-489 |
| `unbind` | with its last consumer the topic's queue goes too (auto-delete) | impl_qpid.py:106-115 |
| `replies` | the session of the reply queue ends, the queue kept or lost | impl_qpid.py:161-176 |
| `crash` | an engine dies and is started again with empty caches | - |

A reply is identified by call, run and kind, which stands for its `_unique_id`:
a repetition by `ensure` has the same one, a new reply another.
`RpcCall` takes the method as something that returns or raises; `RushEngine` says
what it does.  The two are not composed: the interface between them is
`SpawnMethod` here and `Accept` there, both of which leave open when a request
comes.  `RestApi` is composed with `RpcPromise`, which stands for `RpcCall` with one
engine as long as the copies of a request come in time (`RunsOnceInTime`, section 4).
`taken` is a history variable: the calls an engine has taken up since it started.
The cache has the last sixteen of them, and what a copy finds there decides whether
its method runs again; `RpcRepeats` says what that leaves of the promise.

### Connections

`BusTopology` writes down, for each consumer and publisher class of both AMQP
drivers, the exchange, key and queue it declares, and which queues a publication
reaches (`Reaches`).  In `BusDriver` a connection `k` is `at[k]`: connecting,
declaring its consumers again, ready, or gone in one of four ways.

| Code | Actions |
|---|---|
| kombu: `_connect`, `reconnect`, `ensure` (impl_kombu.py:457-594) | `KombuTryHost`, `KombuDeclareAgain`, `KombuDeclareAgainFails`, `KombuLost` |
| kombu: `declare_consumer`, `iterconsume` (:617-672) | `KombuDeclare`, `KombuConsume` |
| qpid: the same (impl_qpid.py:379-489) | `QpidTryHost`, `QpidDeclareAgain`, `QpidDeclareAgainFails`, `QpidLost`, `QpidDeclare` |
| `multicall`, the semaphore of the reply proxy (amqp.py:511-526) | `EnterProxy`, `MadeProxy` |
| `Pool`, `ConnectionContext` (amqp.py:46-142) | `GetIdle`, `Create`, `CreateOwn`, `PutBack`, `Finalize`, `CloseOwn` |
| `publisher_send`, a delivery, `close` | `Publish`, `Deliver`, `Close` |

The engines' consumers are the three of `rpc/service.py`, in its order.  The
broker is a cluster of hosts with common queues; a host goes down (`HostDown`)
and comes back, a link breaks (`LinkLost`), and a queue that deletes itself goes
with its last consumer (`Detach`).  A delivery is one step here, because what may
happen between a fetch and its acknowledgement is `RpcCall`'s subject.

### REST API

`RestApi` follows a request `r` from `pc[r] = "negotiate"` to its status.  A
path is a sequence of segments; what `version_uri_regex` finds in a segment is
the constant `VersionIn`.

    Negotiate -> AuthPassword or AuthToken -> MakeContext -> Resource -> HearResult, HearFailure, HearNothing
    version_negotiation.py    auth_*.py         context.py    wsgi.py, api/v1/, rpc/client.py

`Resource` is routing, deserialization, the decorators of `api/v1/util.py` and
the controller's method, up to the message that leaves for the engines; the
exceptions these raise are statuses (`HandlerFails`).  `EngineRuns` is the other
end of the call: the dispatcher of `RpcMessages` chooses a callback, and the
method lists, starts or stops a rush for the tenant the message names, or fails.

### Programs

`Processes` has what the three kinds of program use of the operating system: a
table of processes with parents, zombies and a process group, the reaping of a
child, and who holds the write end of the launcher's pipe.

| Module | Code | Actions |
|---|---|---|
| `ServiceLauncher` | `Launcher`, `ThreadGroup`, `FixedIntervalLoopingCall` | `ServiceStart`, `ServiceEnds`, `ServiceFails`, `ServiceExits`, `Await`, `Awoken`, `EngineStop` |
| `ProcessLauncher` | `ProcessLauncher` (service.py:153-333) | `Fill`, `Limit`, `Tick`, `StartChild`, `LauncherWait`, `LauncherKill`, `LauncherReap`, `Settle`, `PipeWatcher`, `WorkerExit`, `WorkerFails` |
| `WsgiServer` | `Server` (wsgi.py:95-290) | `Bind`, `BindGivesUp`, `ServerStart`, `ServerTest`, `ServerWait`, `ServerAgain`, `ChildBegins`, `ChildReturns`, `ChildFails` |

The test whether to fork and the fork are two steps, so that a signal can come
between them.  A child starts with its parent's handlers and a copy of its
parent's list of children, which is what most of the surprises come from.
`ServiceExits` is a green thread of a service that calls `sys.exit`, as kombu's
`reconnect` does after its last retry (impl_kombu.py:546): eventlet raises the
SystemExit in the main thread, `ThreadGroup.wait` does not catch it, and
`ServiceLauncher.wait` goes to its `finally` and stops (service.py:116-130).  There
a second one, like a second signal, ends the process at once.  `told` remembers
which of the two cut a wait short.
`recent` is a history variable: the forks of the last `workers` seconds.

### Without a broker

`MatchMaker` has for each host its key in Redis (`ttl`), whether it is a member
of the topic's set, and whether its engine sends heartbeats.  Reading a TTL and
pruning by it are two steps (`AskRedis`, `Prune`); so are SET and EXPIRE
(`Register`, `Acknowledge`).  `ZmqDriver` follows a message from `Send` by way of
the receiver's `Consume`, `Made` and `Publish` to an engine's `Read` and
`Process`, and the reply back the same way to a subscription (`Join`) that may
not have arrived.  `lost` is a history variable: why a message went no further.
`FakeDriver` numbers the consumers in the order they were made (`owner` has the
connection of each) and has the set of those still in the list, in which a place is
the number of older ones.  `CreateConsumer` appends one, `CloseConnection` takes all
of a connection's at once: `rpc/service.py:54` and `:59` put two of one topic on one
connection.  `next` is how far a fanout's loop is, `reached` whom it has called.
`RpcBackends` runs either of the two and maps both to `RpcPromise`.

## 3. Properties and runs

Every property was broken on purpose: `PROJECT.json` lists under `mutants` a
definition for each and the mistake that violates it, and the definitions named
`Step_what_is_wrong` in the modules are those mistakes.

| Run | Checks | Instance |
|---|---|---|
| `engine_startstop` | `TypeInv`, `TenantRowHasStack`, `StackRecordedOnce`, `RowRecordsOwnStack`, `StopDeletesOwnStack` | starts and stops, two tenants with two names, failing calls, crashes, Heat that fails |
| `engine_reads` | `ImplementsLifecycle` | all four methods of one tenant, stacks deleted by the operator |
| `engine_answers` | `StacksAccounted`, `StopCompletes` | starts, stops and listings without failures, fair green threads |
| `engine_stop_gone` | violates `StopDeletesRush` | a crash between lines 222 and 224 |
| `rpc_promise` | `TypeOK`, `KeepsPromise` | one engine that stays up, repeated publications, lost sessions, a lost queue, copies that come when the cache has forgotten the first |
| `rpc_engines` | `NoRequestLost`, `ToldTheTruth`, `CallsAreAnswered` | two engines, one lost session or crash, no timeouts |
| `rpc_ends` | `WaitersAreOpenCalls`, `CallsEnd` | every failure, one of them |
| `bus_driver` | `TypeOK`, `SharedSafely`, `LeaksAreTold`, `ServesAllItsQueues`, `ComesBack`, `SendsEnd`, `MessagesAreRouted` | both drivers, two hosts, up to two engines, each kind of message, up to three failures |
| `api_requests` | `TypeOK`, `AnswersAreTrue`, `ShowsOwnRushes`, `KeepsRestPromise` | each kind of request alone; three requests of two users and two tenants at once; engines of other versions |
| `programs` | `TypeOK`, `LauncherLeavesNobody`, `ForkRate`, `MissesAtMostHalf`, `EndsWhenTold`, `OrphansExit`, `WorkersRestored` | one to four services, one or two workers, a server with none, one or two children, signals, dying workers, services that fail or exit |
| `programs_hup` | violates `HupShutsDown` | a server with one child and a SIGHUP |
| `rpc_no_broker` | `TypeOK`, `FanoutMisses`, `Listed`, `KeepsPromise`, `DeadIsNotFound`, `SentIsExecuted`, `CallsEnd` | each matchmaker with one or two engines and two messages, and the fake driver |

### Bounds, and why they are enough

*Engine.*  Two workers, two rush ids and two stack ids (one creation per start)
reach each hazard: every one is a pair of methods in conflict, and the second id
lets a name be used again after a stop.  `RushIds` bounds the starts.  Two
tenants are used where a property tells tenants apart.  Workers, rush ids and
stack ids are interchangeable, and so are tenants and names where there are two
(`FullSymmetry`), so the safety runs reduce by symmetry, and those
that check nothing about `reply`, which no action reads, leave it out of the
state (`WithoutReplies`).  `StackRecordedOnce` needs that nobody deletes stacks
behind the engine's back (the search in lines 180-185 is by name);
`StacksAccounted` needs calls that do not fail (line 195 answers the error and
leaves the stack).

*RPC.*  A call is independent of the others but for the queue, the consumer, the
pool of threads and the caches, so two calls let each of these be contended.
`ThreadPoolSize` is 1 or 2 and `DupMsgCheckSize` 2 or 1, so both limits are met (the
program has 64 and 16).  In `rpc_promise` the cache holds one id and there are two
calls and a pool of two: the second call makes the engine forget the first, a copy
of which then runs again, also while its first run is still going on.  `MaxFaults` is
2 there and 1 elsewhere; that `NoRequestLost` and `ToldTheTruth` survive any number
is what the theorems add.  `KeepsPromise` needs one engine that is not restarted:
with two, a lost session has a request run twice at once.  Section 4 says why each
of the other failures is out.

*Connections.*  A pool of one connection and two threads make every thread wait
for the other, or lose the only connection there is; two hosts are the least
with which `attempt` chooses; three failures suffice for a link that is lost
while its consumers are declared again, twice.  The loads are given together as
`Settings`, so that one run has all of them.  `MessagesAreRouted` has two engines
where kinds of message differ by who gets them.

*REST.*  `Alone` is every combination of path, media type, method and body that
the code distinguishes.  `Together` has a start by one user, and a second
start and a list or a stop by either, of which several name the other's tenant.
The third request is what lets a list meet rushes of two tenants.

*Programs.*  `MaxPid` is 3: the program and two children, whose identifiers are
used again when they are reaped, so that workers can die and be replaced any
number of times; `failures` bounds how often, and 4 with two workers exceed what
the fork limit lets through at once.  Four services are enough for a list that
loses elements while it is walked.

*No broker.*  A backlog and a pool of 1 are full with two messages.  A TTL of two
heartbeats is the default's (matchmaker.py:31-36, 600 and 300 seconds).  `faults` bounds crashes, restarts and missed
heartbeats; 1 or 2, because each reason in `SentIsExecuted` is one event.

Deadlock is not checked in the runs of calls, connections, requests and
programs, because what the model has to do is finite: it ends as the program
does until the next request, or for good.

### Fairness

Nothing anywhere makes a failure, a signal or a request happen.

* `RushEngine!FairSpec`: weak fairness of each worker's next step.  eventlet's hub
  resumes a green thread whose socket is ready, and without failures each call
  returns.  Nothing is assumed of Heat's own progress.
* `RpcCall!FairSpec`: each caller, consumer and group of green threads, delivery,
  and the reconnects, which `reconnect` retries for ever (impl_qpid.py:383-406).
  A caller's steps include `GiveUp` only where `Timeouts` holds; `rpc_engines` is
  without it, so the answer there is not the timeout's doing.
* `BusDriver!FairSpec`: each connection's and thread's next step, and hosts come
  back.  Failures are bounded, so they end.
* `RestApi!FairSpec`: `Serve` of each request.  Keystone answers or its client
  gives up, and a call has a timeout.  `EngineRuns` is not fair.
* `Programs!FairSpec`: every process and green thread goes on, time passes, and a
  port that is taken becomes free or the server gives up after its 30 seconds.
* `ZmqFairness`, `FakeFairness`: threads, receivers and engines go on,
  subscriptions arrive, a receiver that died is started again (its operator's
  doing), time passes.

Liveness properties name the ways out the code has.  `ComesBack` excepts four
(`GivenUp`), `SendsEnd` a pool whose connections have all been lost,
`EndsWhenTold` a child that took the launcher's SIGTERM with a handler of its
parent's (`deaf`); each of these is reached, and told of in section 5.

## 4. What is proved

All with no other assumptions than the named ones on the constants
(`HeatAssumption`, `BusAssumption`, `RestAssumption` and so on, in the modules
that declare them), for any number of workers, tenants, names, identifiers,
calls, engines, hosts, connections, threads, requests, users, services, processes
and failures.  Every safety invariant and every action property that a run checks
has a theorem.
`BackendsAssumption` has one conjunct that is more than a type: an engine registers
at least one topic (`create_consumer` registers each it is given,
impl_zmq.py:598-600).

| Theorem | States |
|---|---|
| `RushEngineProofs!TypeCorrect` | `Spec => []TypeInv`: types, and each local is bound at the statements that read it |
| `RushEngineProofs!EngineInvariant` | `Spec => []EngineInv` |
| `RushEngineProofs!ListedHasRecord` | `Spec => []TenantRowHasStack` |
| `RushEngineProofs!EngineImplementsLifecycle` | `Spec => ImplementsLifecycle`, a refinement |
| `RushStackProofs!StackInvariant` | `Spec => []StackInv` |
| `RushStackProofs!ListedRecordsOwn` | `Spec => []RowRecordsOwnStack` |
| `RushStackProofs!StacksRecordedOnce` | `StackRecordedOnce` whenever only the engine deletes stacks (`~OperatorActs`) |
| `RushStackProofs!StopsDeleteOwn` | `StopDeletesOwnStack` on the same assumption |
| `RushStackProofs!StacksAreAccounted` | `StacksAccounted` whenever calls do not fail and engines do not die (`~Outages`, `~Crashes`) |
| `RpcCallProofs!RpcTypeCorrect` | `Spec => []TypeInv` |
| `RpcCallProofs!RpcSizesCorrect` | `Spec => []TypeOK`: with the sizes of caches and pools |
| `RpcCallProofs!CallsKeepPromise` | `KeepsPromise` with one engine that goes on living (`OneEngine`): a refinement of `RpcRepeats`, for any number of calls |
| `RpcCallProofs!RunsOnceInTime` | with the same engine, `RpcPromise` in every behaviour in which copies come in time (`[]InTime`), a refinement |
| `RpcCallProofs!WaitersAccounted` | `Spec => []WaitersAreOpenCalls`, under every failure |
| `RpcCallProofs!RequestsKept` | `NoRequestLost` whenever the queue is not lost (`"unbind" \notin Faults`) |
| `RpcCallProofs!CallersToldTheTruth` | `ToldTheTruth` whenever resets do not raise (`"reset" \notin Faults`) |
| `BusDriverProofs!BusTypeCorrect` | `Spec => []TypeOK` |
| `BusDriverProofs!ServesAll` | `Spec => []ServesAllItsQueues` |
| `BusDriverProofs!ClientSharesSafely` | `Spec => []SharedSafely` |
| `BusDriverProofs!NoLeakIsSilent` | `Spec => []LeaksAreTold` |
| `BusDriverProofs!RoutesMessages` | `Spec => MessagesAreRouted`, an action property |
| `RestApiProofs!RestTypeCorrect` | `Spec => []TypeOK` |
| `RestApiProofs!AnswersToldTrue` | `Spec => []AnswersAreTrue` |
| `RestApiProofs!ListsAreOwn` | `Spec => []ShowsOwnRushes` |
| `RestApiProofs!RestKeepsSafety` | `Spec => Promise!Safety`: the safety part of `KeepsRestPromise`, a refinement |
| `ProgramsProofs!ProgramsTypeCorrect` | `Spec => []TypeOK` |
| `ProgramsProofs!NobodyIsLeft` | `Spec => []LauncherLeavesNobody` |
| `ProgramsProofs!ForksAreLimited` | `Spec => []ForkRate` |
| `ProgramsProofs!HalfIsMissed` | `Spec => []MissesAtMostHalf` |
| `RpcBackendsProofs!BackendsTypeCorrect` | `Spec => []TypeOK` |
| `RpcBackendsProofs!EnginesAreListed` | `Spec => []Listed` |
| `RpcBackendsProofs!FanoutMissesFew` | `Spec => FanoutMisses`, an action property |
| `RpcBackendsProofs!BackendsKeepPromise` | `Spec => KeepsPromise`, a refinement |

*Engine.*  `TenantRowHasStack` is not inductive: a start that is about to insert
into `rush_tenant` must have its row of `rush_stack`, no stop may be about to
delete that row, and two starts may not hold one identifier.  `EngineInv` says
this: an identifier a start has drawn is its own and not listed (`StartOK`,
`DrawnApart`), a stop past its check deals with a rush that was once listed, for
its own tenant only, and by its last statement for nobody (`StopOK`), a listed
rush has one owner and a record (`RushOK`).  The argument is that starts and
stops never meet on one rush, for a stop needs a listed rush and a start's is
not listed yet.  Most steps change no table at all; a lemma for those
(`QuietOK`) and one for steps inside a method (`OnwardOK`) leave five that need
an argument of their own.  The refinement then maps each of these to one step of
`RushLifecycle` and every other step to a stutter.

*Stacks.*  The engine learns its stack's identifier from a listing by name, so the
three properties rest on names: two stacks that exist have different ones
(`NamesInv`).  A start that has created its stack has one of its own name that is
on no record and in nobody's copy of one (`MakesOwn`, `Fresh`), and no other start
at that stage has this name (`NamesApart`): what its listing finds is that stack,
and what it records is recorded for the first time.  A stop holds a copy of the row
that is true as long as the row is there (`HoldsOwn`), and its check of the tenant
joins the copy to what a listed row says.  An operator's deletion frees a name under
a start that has yet to list it, which is why two theorems exclude it; names stay
right even so.  `StepKeeps` carries every step that keeps names, rows and copies,
and only the step that writes a new row (`StartStack`) is argued by itself.  TLC
checked `StackInv` as an invariant of `engine_startstop` and of `engine_reads`.

`StacksAccounted` says that nothing leaks; what makes it hold is passed on from
one hand to the next (`AccountInv`): a stack is in the hands of the start that made
it, which finds it again because no other stack has the name, then on that start's
record, then on a listed one.  A stop gives it up only when it has Heat's word that
the stack is being deleted (`StopsDeleted`).  An operator who deletes stacks does
not matter here, for a stack that is being deleted need not be accounted for; an
exception or a death between `stacks.create` and `rush_tenant_create` does, which
is why the theorem excludes both.

*RPC.*  `HoldInv` adds to `NoRequestLost` what a session knows: it has nothing to
acknowledge but what its thread has in hand, and what it acknowledges, or takes
for a duplicate, has been taken up.  `TruthInv` follows a run's result along the
way: a green thread at `result` or `ending` has a run that returned, one at
`failure` a run that raised, two threads never share a run (`RunsApart`, without
which one could change what the other reports), and so the replies in the queue
and in the inboxes say the same.

`KeepsPromise` is false of `RpcCall` in general, so its theorem says when it holds,
and each part of `OneEngine` is there for a behaviour that breaks the promise
otherwise.  Two engines have a cache of ids each, and both run a request that is
delivered again; an engine that is started again has an empty one (`crash`).  A
reset that raises (`reset`) sends a failure after the result.  With the reply queue
lost (`replies`) an answer can lose its result and keep its ending, which the caller
takes for None.  What may still happen are repeated publications, lost sessions and
the loss of the topic's queue, in any number, and calls in any number: the cache
forgets, and the promise is the weaker one of `RpcRepeats`.  The invariant has to say
that the cache is the last of what the engine has taken up (`CacheInv`, kept by every
step, crashes included; so what is no duplicate was taken up at least
`DupMsgCheckSize` calls ago), that an outcome is there when the call is over
(`OpenInv`), and that an ending never overtakes the first result: on the way from the
thread to the reply queue, there, and in the inbox (`OrderInv`, one conjunct for each
place).  Then `SpawnMethod` maps to a beginning, a method's end to an end, the
caller's last step to what it is told, and the rest to stutters.

`RunsOnceInTime` is what remains of "at most once".  `InTime` is about the traffic and
not about the engine: when a copy of a request is in the consumer's hands, fewer than
`DupMsgCheckSize` calls were taken up after the request was.  With `CacheInv` such a
copy is a duplicate, so no call is taken up twice (`OnceInv`), and the steps map to
those of `RpcPromise`.  The code does not see to it that copies come in time: a
message of a lost session goes back to the head of its queue, but one that is
published again goes to its end.  TLC reaches states of `rpc_promise` in which
`InTime` is false, so this theorem has no run, and TLC checked `OnceInv` with `InTime`
as a constraint.

*Connections.*  `ClientInv` says who holds what: a thread has a connection exactly
at the places between getting it and putting it back, the connections that are
idle or held were made and are different, and only the holder of the semaphore
makes a proxy.  Steps of connections and failures of the broker do not touch any
of it (`Quiet`), so what is left are the nine steps of a thread.  `LeaksAreTold`
is a matter of counting: the size of the pool is at most what is idle, what is
held, and the threads that were told of a raise; every step moves one connection
from one of these to another.

`ServesAllItsQueues` needs a second invariant, of each connection with its broker
(`ConnInv`).  Consumers are declared in the order of the queues, a reconnect's in
any, so at each place the consumers declared and those still to declare are a first
part of the queues and nothing else (`ConsumersInv`); a link is there only while
somebody declares or uses it (`LinkInv`); what is declared on the present link
exists there, and what is consumed from is subscribed (`BrokerInv`); a subscription
goes with its link, which is what makes a lost one show (`SubsInv`).

`MessagesAreRouted` joins these to what a publication reaches.  `RouteInv` says that
a message is in a queue only after its thread has sent it, so that what one step
adds can be told from what was there, and that every queue is one that somebody
consumes from or the one kombu declares for the notices.  The rest is about names:
those of the topic, of an engine's own queue and of its fanout queue have one, two
and three parts, whatever the engines are called (`KeysDiffer`, `BoundTo`), so a key
reaches only the queue of its name (`TopicReaches`), and only its own engine can be
subscribed to one of the last two (`ReadByOne`).

*REST.*  `RestInv` follows what is known along a request's way: the tenant the
authentication has confirmed is its user's (`TenantOK`), the context takes it over,
the message takes it from the context (`MessageOK`), a rush is listed for the
tenant of the request that made it and a list is of one tenant (`RushOK`), and a
status says what is known of the run (`StatusOK`).  A step of one request
`Spares` the others except that it may take a rush off the list, which no part of
the invariant minds.  For the refinement, the API's steps are an `Answer` or a
stutter, and an engine's run is a `CarryOut`.

*Programs.*  That the launcher leaves nobody rests on `FamilyInv`: all processes it
forked and has not waited for are its children and on its list, from the fork on,
and it leaves its loops only when it has been told to; so what `Reap` waits for is
everybody.  For `ForkRate` the program's own list of fork times has to be compared
with the history of forks: from the end they are the same (`SameAges`), the list is
never long (`ListInv`), and a fork beyond `workers` came at least a second after the
one before it (`Spaced`), so that of the forks of a period only `workers` can be
beyond the first `workers`.  A signal that cuts the last sleep short is the one
more (`RateInv`).  For `MissesAtMostHalf`, what `wait` has passed and what is left
of the list are together no more than there was (`GroupInv`): each service that is
missed has one that was passed.  A wait that a signal or a SystemExit cuts short has
passed over nobody yet, and says nothing of who is unfinished: the property excepts
it by `told`, and holds again of what `stop` leaves.

*No broker.*  A key that has been set is there, or somebody has seen that it is not
(`ListInv`), which also covers an asker between its TTL and its SREM.  A fanout's
place in the list is right for those it has called and that are still there, so each
it skips stands where one it has called has gone (`FanoutInv`); this holds whatever
connection has whichever consumers, because it counts consumers and not closings.
For the promise, `CourseInv` follows a request
and its reply from hand to hand, each message being in one place and in a backlog
at most once (`QueueInv`), and `CallerInv` a caller of the fake driver and the
method it waits for.  The refinement is proved action by action: a send asks, a
method's end runs, what a caller hears tells it, and nothing else changes what the
promise sees.

Only model-checked: the liveness properties, with `AllAnswered`, the liveness part
of `RestPromise`.  Liveness and `ENABLED` are beyond the prover, and so is induction
over data; no module here declares a RECURSIVE operator, so that all of them stay
open to proofs.

## 5. Where the code and its documents disagree

Two have a run of their own:

1. `engine/service.py:222`: a stop deletes the stack first and treats
   `HTTPNotFound` as an error, so a rush whose stack is gone can never be
   deleted, against "Deletes the Rush service identified by rush_id for the
   tenant" (line 201).
2. `openstack/common/wsgi.py:237-238`: after a SIGHUP a child whose accept fails
   returns into the loop it was forked in and forks another, without end, against
   "Shuts down the server, but allows running requests to complete" (179-181).

The others are in the models as the code has them, and the properties are stated
so as to allow them.

*Engine.*  `stack_info` is unbound when Heat lists nothing, and the whole listing
fails (service.py:119).  The check "if it is for this tenant" (215-217) raises
`AttributeError` for another tenant's rush, so `STOPRUSHEX02` is never given.

*RPC.*  `amqp.py:310-311` promises that a message is not read twice; the cache is
each consumer's own (:378) and keeps sixteen ids (:315), so that a copy that comes
later runs again.  `rpc/__init__.py:135-136` promises a Timeout when no
complete response comes; `call` returns None when only the ending does
(`amqp.py:537-540`).  `rpc/common.py:147` says that a duplicate is skipped, where
a waiter ends its call with it (`amqp.py:494-496`).

*AMQP drivers.*  kombu's consumer tags start again at 1 on each connection
(`impl_kombu.py:495`), so that one declared after a reconnect may repeat a tag,
which the broker refuses for good.  qpid declares consumers again outside the
loop that catches a lost link (`impl_qpid.py:410-416`): a second loss ends the
consumer thread, and nobody notices.  Its `create_consumer` does not go through
`ensure`.  A reset that raises costs the pool a connection for ever.

*REST.*  `get_rush` passes three arguments to a method that takes one
(`api/v1/rush.py:84`, `rpc/client.py:96`): always 400.  A body that lacks a key is
500; a body on a listing or a deletion is 400; an engine's `TypeError` is told as
400 (`wsgi.py:591`); an engine's refusal is a 200 whose body says False;
`version_uri_regex` has no end, so that "v1team" is a version; "/v1.0" with
password authentication is 500.

*Programs.*  A SIGTERM while the API forks its first children may not end it.  A
child that is born between the launcher's decision to stop and the fork takes the
signal with its parent's handler and goes on, and the parent waits for ever.  The
fork limit lets `2 * workers` through in `workers` seconds, where the comment
says one a second (service.py:196-199).  `ThreadGroup.stop` and `wait` walk a list
that loses elements and skip every second one (threadgroup.py:86-114); `x is
current` never holds.  `ServiceLauncher` never calls a service's `stop`, and stops with
any number of services unfinished when a thread of one calls `sys.exit`, as kombu
does after its last retry (impl_kombu.py:546): `ThreadGroup.wait` lets SystemExit
through to service.py:124-130.

*No broker.*  A service of `rpc.Service` cannot start with `MatchMakerRedis`: the
node's topic is the name of a string key, and SADD fails (`impl_zmq.py:600`,
`matchmaker_redis.py:128-138`).  A key that has lapsed cannot be acknowledged: the
re-registration that the comment promises (109-112) raises `AttributeError`, and
the heartbeats end.  Between SET and EXPIRE a TTL of -1 has a live host pruned.  A
fanout reaches the first host only (`return` in the loop, `impl_zmq.py:757-765`).
An envelope of another version ends the thread that reads (571-586).  A reply that
is published before its subscription has arrived is lost.  `close` unregisters
names that were never registered (630).

*Fake driver.*  A timeout kills the method half-way; a fanout skips a consumer for
each that closes meanwhile, two when a connection with two of the topic closes; a call without a consumer returns None, like a method
that returns None.

## 6. Plan

Done, in this order: the engine and its lifecycle; the RPC call and its promise;
connections and the pool; the REST API over the promise of the call; the
processes; the drivers without a broker; the proofs of section 4, first of the
engine, then of the others, until every safety invariant and action property had
one.  Open:

1. The steps of `RpcCall` and `RushEngine` composed into one specification.

### Not modelled

* Configuration, logging, `jsonutils`, `timeutils`, importers, gettext: support
  code without protocol state.  Options are constants of the modules.
* Message formatting and identifiers (`common/exception.py`,
  `common/identifier.py`): no state, hardly used.
* The XML classes and `Debug` of `wsgi.py`, `FaultWrapper` (in no pipeline of the
  paste file), serializers of rpc (the identity in rushstack).
* Database migrations and `rushstack-manage`: run by hand before the services.
* Modules taken over from Heat that nothing calls (`engine/event.py`,
  `engine/clients.py`), `common/crypt.py`,
  `DynamicLoopingCall`, `join_consumer_pool`, methods that are generators.
* SSL, SASL, logins, lengths of back-offs, ipc paths, `eventlet_backdoor`.
* Smaller simplifications: SIGINT is taken for SIGTERM; the launcher's loop over
  its children's `os.kill` is one step; the engine's own zmq subscriptions are in
  place when it is up, except the fanout's; text of templates, urls and statuses.

## 7. Running

    tlc -workers 2 -config engine_reads.cfg MCRushEngine.tla
    tlc -workers 2 -config rpc_promise.cfg MCRpcCall.tla
    tlc -workers 2 -config bus_driver.cfg MCBusDriver.tla
    tlc -workers 2 -config api_requests.cfg MCRestApi.tla
    tlc -workers 2 -config programs.cfg MCPrograms.tla
    tlc -workers 2 -config rpc_no_broker.cfg MCRpcBackends.tla
    tlapm RushEngineProofs.tla      (and RushStackProofs, RpcCallProofs, BusDriverProofs,
                                     RestApiProofs, ProgramsProofs, RpcBackendsProofs,
                                     SequenceLemmas)

The longest run (`engine_answers`) takes one and a half to three minutes, the
others about a minute or less; each proof module takes a few minutes at most.
