------------------------------- MODULE BusDriver -------------------------------
(***************************************************************************)
(* The connections of rpc to an AMQP broker: the Connection of the kombu   *)
(* and of the qpid driver, and amqp.py's pool and reply proxy over them.   *)
(* Each engine has a connection of its own with three consumers            *)
(* (rpc/service.py); one client process publishes from several green       *)
(* threads, through a pool of connections.                                 *)
(*                                                                         *)
(* The broker is a cluster of hosts with common queues.  A host may go     *)
(* down and come back and a single link may break, a bounded number of     *)
(* times; a queue declared to be deleted automatically goes with its last  *)
(* consumer.  A delivery and its acknowledgement are one step here:        *)
(* RpcCall has the messages read twice.                                    *)
(***************************************************************************)
EXTENDS BusTopology, FiniteSets, SequencesExt

CONSTANTS
    Engines,    \* the services; an engine names its connection too
    Threads,    \* the green threads of the client, each with one message
    PoolConns,  \* the names of pooled connections
    Reply,      \* the reply proxy's connection
    Hosts,      \* conf.rabbit_hosts or conf.qpid_hosts, a sequence
    Cell,       \* the broker a message to another server goes to
    None,
    Settings,   \* the configurations and loads of this instance
    Faults      \* the kinds of failures of this instance

PoolSize == Cardinality(PoolConns)   \* conf.rpc_conn_pool_size
Ops      == {"call", "cast", "node", "fanout", "notify", "server", "none"}
Conns    == Engines \cup Threads \cup PoolConns \cup {Reply}

ASSUME BusAssumption ==
    /\ Engines # {} /\ IsFiniteSet(PoolConns) /\ PoolConns # {}
    /\ IsFiniteSet(Threads)
    /\ Engines \cap Threads = {} /\ (Engines \cup Threads) \cap PoolConns = {}
    /\ Reply \notin Engines \cup Threads \cup PoolConns /\ None \notin Conns
    /\ Hosts # <<>>
    /\ Settings \subseteq [driver : {"kombu", "qpid"}, retries : Nat,
                          engines : SUBSET Engines, op : [Threads -> Ops],
                          faults : Nat]
    /\ Faults \subseteq {"host", "link", "stop"}

VARIABLES
    driver,     \* conf.rpc_backend
    retries,    \* conf.rabbit_max_retries
    op,         \* what each thread is to send
    up,         \* the hosts that accept connections
    queues,     \* the queues that exist
    subs,       \* the pairs <<connection, queue name>> of the broker's consumers
    held,       \* the pairs <<queue name, thread>> of the messages in the queues
    link,       \* the host each connection is connected to
    at,         \* where each connection is
    attempt,    \* reconnect's attempt
    consumers,  \* Connection.consumers
    todo,       \* those a reconnect has not declared again yet
    num,        \* Connection.consumer_num (kombu)
    consuming,  \* whether iterconsume's do_consume has been seen to (kombu)
    idle,       \* Pool.free_items
    size,       \* Pool.current_size
    proxies,    \* how many ReplyProxy there are
    sem,        \* who holds _reply_proxy_create_sem
    pc,         \* where each thread is
    mine,       \* its ConnectionContext.connection
    faults      \* bound: how many failures may still happen

config     == <<driver, retries, op>>
brokerVars == <<up, queues, subs, held>>
connVars   == <<link, at, attempt, consumers, todo, num, consuming>>
poolVars   == <<idle, size>>
clientVars == <<poolVars, proxies, sem, pc, mine>>
vars == <<config, brokerVars, connVars, clientVars, faults>>

Topic == <<"engine">>

Kombu == driver = "kombu"
TopicConsumer(topic) == IF Kombu THEN KombuTopicConsumer(topic) ELSE QpidTopicConsumer(topic)
FanoutConsumer(topic, unique) ==
    IF Kombu THEN KombuFanoutConsumer(topic, unique) ELSE QpidFanoutConsumer(topic, unique)
DirectConsumer(msg_id) ==
    IF Kombu THEN KombuDirectConsumer(msg_id) ELSE QpidDirectConsumer(msg_id)

\* A mutant of Wanted: the engine's own queue is bound by the topic's key.
Wanted_topic_key(k) ==
    IF k = Reply THEN <<DirectConsumer(<<"reply">>)>>
    ELSE <<TopicConsumer(Topic), [TopicConsumer(Topic \o <<k>>) EXCEPT !.key = Topic],
           FanoutConsumer(Topic, k)>>

\* The consumers of a connection, in the order rpc/service.py creates them.
Wanted(k) ==
    IF k = Reply THEN <<DirectConsumer(<<"reply">>)>>
    ELSE <<TopicConsumer(Topic), TopicConsumer(Topic \o <<k>>), FanoutConsumer(Topic, k)>>

Consumes == Engines \cup {Reply}
Declared(k) == Cardinality(consumers[k])
Started(k)  == k \in Consumes /\ Declared(k) = Len(Wanted(k))

\* The connections of the process that has this one.
ProcessOf(k) == IF k \in Engines THEN {k} ELSE Conns \ Engines
ClientUp     == at[Reply] # "exited"

Init ==
    /\ \E s \in Settings :
          /\ driver = s.driver /\ retries = s.retries /\ op = s.op /\ faults = s.faults
          /\ at = [k \in Conns |-> IF k \in s.engines THEN "connect" ELSE "none"]
    /\ up = Range(Hosts) \cup {Cell}
    /\ queues = {} /\ subs = {} /\ held = {}
    /\ link = [k \in Conns |-> None]
    /\ attempt = [k \in Conns |-> 0]
    /\ consumers = [k \in Conns |-> {}]
    /\ todo = [k \in Conns |-> {}]
    /\ num = [k \in Conns |-> 1]
    /\ consuming = [k \in Conns |-> FALSE]
    /\ idle = <<>> /\ size = 0
    /\ proxies = 0 /\ sem = None
    /\ pc = [t \in Threads |-> CASE op[t] = "none" -> "idle"
                                 [] op[t] = "call" -> "proxy"
                                 [] OTHER          -> "get"]
    /\ mine = [t \in Threads |-> None]
-----------------------------------------------------------------------------
(* The broker's side. *)

\* The links of K are lost: the broker's consumers on them go, and with the last
\* consumer of a queue the queue, if it is to be deleted automatically.
Detach(K) ==
    LET left   == {s \in subs : s[1] \notin K}
        served(ss, q) == \E s \in ss : s[2] = q.name
        gone   == {q \in queues : q.autoDelete /\ served(subs, q) /\ ~served(left, q)}
    IN  /\ link' = [k \in Conns |-> IF k \in K THEN None ELSE link[k]]
        /\ subs' = left
        /\ queues' = queues \ gone
        /\ held' = {h \in held : \A q \in gone : q.name # h[1]}

Fault(kind) == kind \in Faults /\ faults > 0 /\ faults' = faults - 1

HostDown(h) ==
    /\ h \in up /\ h # Cell
    /\ Fault("host")
    /\ up' = up \ {h}
    /\ Detach({k \in Conns : link[k] = h})
    /\ UNCHANGED <<config, at, attempt, consumers, todo, num, consuming, clientVars>>

HostUp(h) ==
    /\ h \notin up
    /\ up' = up \cup {h}
    /\ UNCHANGED <<config, queues, subs, held, connVars, clientVars, faults>>

LinkLost(k) ==
    /\ link[k] # None
    /\ Fault("link")
    /\ Detach({k})
    /\ UNCHANGED <<config, up, at, attempt, consumers, todo, num, consuming, clientVars>>
-----------------------------------------------------------------------------
(* Connection. *)

Go(k, where) == at' = [at EXCEPT ![k] = where]

HostsOf(k) == IF k \in Threads THEN <<Cell>> ELSE Hosts
HostAt(k)  == HostsOf(k)[(attempt[k] % Len(HostsOf(k))) + 1]

\* Whether a thread uses this connection now; the reply proxy's consumer thread
\* starts as the proxy is made.
InUse(k) ==
    \/ k \in Engines
    \/ k = Reply /\ (proxies > 0 \/ ~Started(k))
    \/ \E t \in Threads : mine[t] = k /\ pc[t] = "send"
Usable(k) == at[k] = "ready" /\ link[k] # None
NotUsable(k) == at[k] = "ready" /\ link[k] = None /\ InUse(k)

\* A channel may have one consumer of each tag.
TagsDiffer(k) == \A c, d \in consumers[k] : c.tag = d.tag => c = d

(* impl_kombu.py *)

\* reconnect tries host after host; without a limit only the host it is at
\* counts, and with one the whole process ends when it is reached.
KombuFailedAttempt(k) ==
    IF retries # 0 /\ attempt[k] + 1 = retries
    THEN /\ at' = [c \in Conns |-> IF c \in ProcessOf(k) THEN "exited" ELSE at[c]]
         /\ Detach(ProcessOf(k))
         /\ UNCHANGED attempt
    ELSE /\ Go(k, "connect")
         /\ attempt' = [attempt EXCEPT ![k] =
                          IF retries = 0 THEN (@ + 1) % Len(HostsOf(k)) ELSE @ + 1]
         /\ UNCHANGED <<link, queues, subs, held>>

\* _connect: the consumers keep their tags, new ones count from 1.
KombuTryHost(k) ==
    /\ Kombu /\ at[k] = "connect"
    /\ \/ /\ HostAt(k) \in up
          /\ link' = [link EXCEPT ![k] = HostAt(k)]
          /\ num' = [num EXCEPT ![k] = 1]
          /\ todo' = [todo EXCEPT ![k] = consumers[k]]
          /\ Go(k, IF consumers[k] = {} THEN "ready" ELSE "declare again")
          /\ UNCHANGED <<queues, subs, held, attempt>>
       \/ /\ HostAt(k) \notin up
          /\ KombuFailedAttempt(k)
          /\ UNCHANGED <<num, todo>>
    /\ UNCHANGED <<config, up, consumers, consuming, clientVars, faults>>

KombuDeclareAgain(k) ==
    /\ Kombu /\ at[k] = "declare again" /\ link[k] # None
    /\ \E c \in todo[k] :
          /\ todo' = [todo EXCEPT ![k] = @ \ {c}]
          /\ queues' = queues \cup {c.queue}
          /\ Go(k, IF todo[k] = {c} THEN "ready" ELSE at[k])
    /\ UNCHANGED <<config, up, subs, held, link, attempt, consumers, num, consuming,
                   clientVars, faults>>

\* A mutant of KombuDeclareAgainFails: the consumers are declared outside the
\* loop, as in qpid's driver.
KombuDeclareAgainFails_outside(k) ==
    /\ Kombu /\ at[k] = "declare again" /\ link[k] = None
    /\ Go(k, "dead")
    /\ todo' = [todo EXCEPT ![k] = {}]
    /\ UNCHANGED <<config, brokerVars, link, attempt, consumers, num, consuming, clientVars, faults>>

\* The link is lost again: one more failed attempt.
KombuDeclareAgainFails(k) ==
    /\ Kombu /\ at[k] = "declare again" /\ link[k] = None
    /\ KombuFailedAttempt(k)
    /\ todo' = [todo EXCEPT ![k] = {}]
    /\ UNCHANGED <<config, up, consumers, num, consuming, clientVars, faults>>

\* A mutant of KombuLost: do_consume is not set again.
KombuLost_still_consuming(k) ==
    /\ Kombu /\ NotUsable(k)
    /\ Go(k, "connect")
    /\ attempt' = [attempt EXCEPT ![k] = 0]
    /\ UNCHANGED <<config, brokerVars, link, consumers, todo, num, consuming, clientVars, faults>>

\* ensure: the method raises, iterconsume's error callback sets do_consume, and
\* the method is tried again on a new link.
KombuLost(k) ==
    /\ Kombu /\ NotUsable(k)
    /\ Go(k, "connect")
    /\ attempt' = [attempt EXCEPT ![k] = 0]
    /\ consuming' = [consuming EXCEPT ![k] = FALSE]
    /\ UNCHANGED <<config, brokerVars, link, consumers, todo, num, clientVars, faults>>

\* declare_consumer.
KombuDeclare(k) ==
    /\ Kombu /\ Usable(k) /\ k \in Consumes /\ ~Started(k)
    /\ LET q == Wanted(k)[Declared(k) + 1] IN
       /\ consumers' = [consumers EXCEPT ![k] = @ \cup {[queue |-> q, tag |-> num[k]]}]
       /\ queues' = queues \cup {q}
    /\ num' = [num EXCEPT ![k] = @ + 1]
    /\ UNCHANGED <<config, up, subs, held, link, at, attempt, todo, consuming,
                   clientVars, faults>>

Subscribe(k, qs) == subs' = subs \cup {<<k, q.name>> : q \in qs}

\* iterconsume's first round on a link: every queue is consumed from; the
\* broker closes a connection that uses a tag twice.
KombuConsume(k) ==
    /\ Kombu /\ Usable(k) /\ Started(k) /\ ~consuming[k]
    /\ IF TagsDiffer(k)
       THEN /\ Subscribe(k, {c.queue : c \in consumers[k]})
            /\ consuming' = [consuming EXCEPT ![k] = TRUE]
            /\ UNCHANGED <<link, queues, held>>
       ELSE Detach({k}) /\ UNCHANGED consuming
    /\ UNCHANGED <<config, up, at, attempt, consumers, todo, num, clientVars, faults>>

(* impl_qpid.py *)

\* reconnect has no limit, and forgets the consumers before it declares them
\* again, one by one, after its loop.
QpidTryHost(k) ==
    /\ ~Kombu /\ at[k] = "connect"
    /\ \/ /\ HostAt(k) \in up
          /\ link' = [link EXCEPT ![k] = HostAt(k)]
          /\ todo' = [todo EXCEPT ![k] = consumers[k]]
          /\ consumers' = [consumers EXCEPT ![k] = {}]
          /\ Go(k, IF consumers[k] = {} THEN "ready" ELSE "declare again")
          /\ UNCHANGED attempt
       \/ /\ HostAt(k) \notin up
          /\ attempt' = [attempt EXCEPT ![k] = (@ + 1) % Len(HostsOf(k))]
          /\ UNCHANGED <<link, todo, consumers, at>>
    /\ UNCHANGED <<config, brokerVars, num, consuming, clientVars, faults>>

\* A receiver is a consumer of the broker's from its declaration on.
QpidDeclareAgain(k) ==
    /\ ~Kombu /\ at[k] = "declare again" /\ link[k] # None
    /\ \E c \in todo[k] :
          /\ todo' = [todo EXCEPT ![k] = @ \ {c}]
          /\ queues' = queues \cup {c.queue}
          /\ Subscribe(k, {c.queue})
          /\ consumers' = [consumers EXCEPT ![k] = @ \cup {c}]
          /\ Go(k, IF todo[k] = {c} THEN "ready" ELSE at[k])
    /\ UNCHANGED <<config, up, held, link, attempt, num, consuming, clientVars, faults>>

\* The link is lost again: reconnect raises out of ensure and ends the consumer
\* thread, with the consumers it had got to.
QpidDeclareAgainFails(k) ==
    /\ ~Kombu /\ at[k] = "declare again" /\ link[k] = None
    /\ Go(k, "dead")
    /\ todo' = [todo EXCEPT ![k] = {}]
    /\ UNCHANGED <<config, brokerVars, link, attempt, consumers, num, consuming,
                   clientVars, faults>>

\* ensure; create_consumer does not go through it: the service's start fails.
QpidLost(k) ==
    /\ ~Kombu /\ NotUsable(k)
    /\ IF k \in Engines /\ ~Started(k)
       THEN Go(k, "failed") /\ UNCHANGED attempt
       ELSE Go(k, "connect") /\ attempt' = [attempt EXCEPT ![k] = 0]
    /\ UNCHANGED <<config, brokerVars, link, consumers, todo, num, consuming, clientVars, faults>>

\* create_consumer, and declare_consumer for the reply proxy.
QpidDeclare(k) ==
    /\ ~Kombu /\ Usable(k) /\ k \in Consumes /\ ~Started(k)
    /\ LET q == Wanted(k)[Declared(k) + 1] IN
       /\ consumers' = [consumers EXCEPT ![k] = @ \cup {[queue |-> q, tag |-> 1]}]
       /\ queues' = queues \cup {q}
       /\ Subscribe(k, {q})
    /\ UNCHANGED <<config, up, held, link, at, attempt, todo, num, consuming,
                   clientVars, faults>>

\* drain_events, next_receiver: one message is handed to its callback.
Deliver(e) ==
    /\ Usable(e) /\ Started(e)
    /\ \E h \in held :
          /\ <<e, h[1]>> \in subs
          /\ held' = held \ {h}
    /\ UNCHANGED <<config, up, queues, subs, connVars, clientVars, faults>>

\* A mutant of Close: the connection is not released.
Close_not_released(e) ==
    /\ Started(e) /\ at[e] \notin {"closed", "exited"}
    /\ Fault("stop")
    /\ Go(e, "closed")
    /\ UNCHANGED <<config, brokerVars, link, attempt, consumers, todo, num, consuming, clientVars>>

\* Service.stop: close kills the consumer thread and releases the connection.
Close(e) ==
    /\ Started(e) /\ at[e] \notin {"closed", "exited"}
    /\ Fault("stop")
    /\ Go(e, "closed")
    /\ Detach({e})
    /\ UNCHANGED <<config, up, attempt, consumers, todo, num, consuming, clientVars>>
-----------------------------------------------------------------------------
(* The client: multicall and the casts. *)

PcTo(t, where) == pc' = [pc EXCEPT ![t] = where]
Open(k) == Go(k, "connect") /\ attempt' = [attempt EXCEPT ![k] = 0]
NotOpened == UNCHANGED <<at, attempt>>

\* A mutant of EnterProxy: every call that finds no proxy makes one.
EnterProxy_no_sem(t) ==
    /\ ClientUp /\ pc[t] = "proxy"
    /\ \/ proxies > 0 /\ PcTo(t, "get") /\ NotOpened /\ UNCHANGED sem
       \/ proxies = 0 /\ sem' = t /\ PcTo(t, "make proxy") /\ Open(Reply)
    /\ UNCHANGED <<config, brokerVars, link, consumers, todo, num, consuming,
                   poolVars, proxies, mine, faults>>

\* Under the semaphore the first call of the process makes the reply proxy.
EnterProxy(t) ==
    /\ ClientUp /\ pc[t] = "proxy"
    /\ sem = None
    /\ \/ proxies > 0 /\ PcTo(t, "get") /\ NotOpened /\ UNCHANGED sem
       \/ proxies = 0 /\ sem' = t /\ PcTo(t, "make proxy") /\ Open(Reply)
    /\ UNCHANGED <<config, brokerVars, link, consumers, todo, num, consuming,
                   poolVars, proxies, mine, faults>>

\* A mutant of MadeProxy: the semaphore is kept.
MadeProxy_sem_kept(t) ==
    /\ ClientUp /\ pc[t] = "make proxy"
    /\ Started(Reply)
    /\ proxies' = proxies + 1
    /\ PcTo(t, "get")
    /\ UNCHANGED <<config, brokerVars, connVars, poolVars, sem, mine, faults>>

MadeProxy(t) ==
    /\ ClientUp /\ pc[t] = "make proxy"
    /\ Started(Reply)
    /\ proxies' = proxies + 1
    /\ sem' = None
    /\ PcTo(t, "get")
    /\ UNCHANGED <<config, brokerVars, connVars, poolVars, mine, faults>>

\* ConnectionContext: a connection of the pool, the one put back last, or a new
\* one while the pool is not full; pooled=False makes one of the thread's own.
GetIdle(t) ==
    /\ ClientUp /\ pc[t] = "get" /\ op[t] # "server"
    /\ idle # <<>>
    /\ mine' = [mine EXCEPT ![t] = Head(idle)]
    /\ idle' = Tail(idle)
    /\ PcTo(t, "send")
    /\ UNCHANGED <<config, brokerVars, connVars, size, proxies, sem, faults>>

\* A mutant of Create: the pool has no end.
Create_unbounded(t) ==
    /\ ClientUp /\ pc[t] = "get" /\ op[t] # "server"
    /\ idle = <<>>
    /\ \E k \in PoolConns : Open(k) /\ mine' = [mine EXCEPT ![t] = k]
    /\ size' = size + 1
    /\ PcTo(t, "send")
    /\ UNCHANGED <<config, brokerVars, link, consumers, todo, num, consuming,
                   idle, proxies, sem, faults>>

Create(t) ==
    /\ ClientUp /\ pc[t] = "get" /\ op[t] # "server"
    /\ idle = <<>> /\ size < PoolSize
    /\ \E k \in PoolConns : /\ at[k] = "none"
                            /\ Open(k)
                            /\ mine' = [mine EXCEPT ![t] = k]
    /\ size' = size + 1
    /\ PcTo(t, "send")
    /\ UNCHANGED <<config, brokerVars, link, consumers, todo, num, consuming,
                   idle, proxies, sem, faults>>

CreateOwn(t) ==
    /\ ClientUp /\ pc[t] = "get" /\ op[t] = "server"
    /\ Open(t)
    /\ mine' = [mine EXCEPT ![t] = t]
    /\ PcTo(t, "send")
    /\ UNCHANGED <<config, brokerVars, link, consumers, todo, num, consuming,
                   poolVars, proxies, sem, faults>>

Node == CHOOSE e \in Engines : TRUE

TopicPublisher(topic) == IF Kombu THEN KombuTopicPublisher(topic) ELSE QpidTopicPublisher(topic)
FanoutPublisher(topic) == IF Kombu THEN KombuFanoutPublisher(topic) ELSE QpidFanoutPublisher(topic)
Notifications == <<"notifications">>

PublisherOf(t) ==
    CASE op[t] = "node"   -> TopicPublisher(Topic \o <<Node>>)
      [] op[t] = "fanout" -> FanoutPublisher(Topic)
      [] op[t] = "notify" -> IF Kombu THEN KombuTopicPublisher(Notifications)
                             ELSE QpidNotifyPublisher(Notifications)
      [] OTHER            -> TopicPublisher(Topic)

\* publisher_send.  What no queue is bound for is dropped; a message to another
\* server leaves for its own broker.
Publish(t) ==
    /\ ClientUp /\ pc[t] = "send"
    /\ Usable(mine[t])
    /\ queues' = queues \cup (IF Kombu /\ op[t] = "notify"
                              THEN {KombuNotifyQueue(Notifications)} ELSE {})
    /\ LET to == IF op[t] = "server" THEN {}
                 ELSE {q.name : q \in {p \in queues' : Reaches(PublisherOf(t), p)}}
       IN  held' = held \cup (to \X {t})
    /\ PcTo(t, "put back")
    /\ UNCHANGED <<config, up, subs, connVars, poolVars, proxies, sem, mine, faults>>

\* A mutant of PutBack: the put is forgotten.
PutBack_not_put(t) ==
    /\ ClientUp /\ pc[t] = "put back" /\ mine[t] \in PoolConns
    /\ mine' = [mine EXCEPT ![t] = None]
    /\ UNCHANGED idle
    /\ PcTo(t, IF link[mine[t]] # None THEN "sent" ELSE "raised")
    /\ UNCHANGED <<config, brokerVars, connVars, size, proxies, sem, faults>>

\* _done: reset, then put; a reset on a lost link raises, the caller is told so,
\* and the context still has the connection when it is finalized.
PutBack(t) ==
    /\ ClientUp /\ pc[t] = "put back" /\ mine[t] \in PoolConns
    /\ IF link[mine[t]] # None
       THEN /\ idle' = <<mine[t]>> \o idle
            /\ mine' = [mine EXCEPT ![t] = None]
            /\ PcTo(t, "sent")
       ELSE PcTo(t, "finalize") /\ UNCHANGED <<idle, mine>>
    /\ UNCHANGED <<config, brokerVars, connVars, size, proxies, sem, faults>>

\* __del__ resets again: that works or the pool has lost the connection.
Finalize(t) ==
    /\ ClientUp /\ pc[t] = "finalize"
    /\ idle' \in {idle, <<mine[t]>> \o idle}
    /\ mine' = [mine EXCEPT ![t] = None]
    /\ PcTo(t, "raised")
    /\ UNCHANGED <<config, brokerVars, connVars, size, proxies, sem, faults>>

\* A connection of the thread's own is closed, whatever close raises.
CloseOwn(t) ==
    /\ ClientUp /\ pc[t] = "put back" /\ mine[t] = t
    /\ Go(t, "closed")
    /\ Detach({t})
    /\ mine' = [mine EXCEPT ![t] = None]
    /\ PcTo(t, "sent")
    /\ UNCHANGED <<config, up, attempt, consumers, todo, num, consuming, poolVars,
                   proxies, sem, faults>>
-----------------------------------------------------------------------------
ConnStep(k) ==
    \/ KombuTryHost(k) \/ KombuDeclareAgain(k) \/ KombuDeclareAgainFails(k)
    \/ KombuLost(k) \/ KombuDeclare(k) \/ KombuConsume(k)
    \/ QpidTryHost(k) \/ QpidDeclareAgain(k) \/ QpidDeclareAgainFails(k)
    \/ QpidLost(k) \/ QpidDeclare(k)

ThreadStep(t) ==
    \/ EnterProxy(t) \/ MadeProxy(t) \/ GetIdle(t) \/ Create(t)
    \/ CreateOwn(t) \/ Publish(t) \/ PutBack(t) \/ Finalize(t)
    \/ CloseOwn(t)

Failure ==
    \/ \E h \in up : HostDown(h)
    \/ \E k \in Conns : LinkLost(k)
    \/ \E e \in Engines : Close(e)

Next ==
    \/ \E k \in Conns : ConnStep(k)
    \/ \E e \in Engines : Deliver(e)
    \/ \E t \in Threads : ThreadStep(t)
    \/ \E h \in Range(Hosts) : HostUp(h)
    \/ Failure

Spec == Init /\ [][Next]_vars

\* The hub runs every green thread that can go on, and brokers come back.
Fairness ==
    /\ \A k \in Conns : WF_vars(ConnStep(k))
    /\ \A e \in Engines : WF_vars(Deliver(e))
    /\ \A t \in Threads : WF_vars(ThreadStep(t))
    /\ \A h \in Range(Hosts) : WF_vars(HostUp(h))

FairSpec == Spec /\ Fairness
=============================================================================
