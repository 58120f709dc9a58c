------------------------------- MODULE ZmqDriver -------------------------------
(***************************************************************************)
(* The zmq driver of rpc: messages between a client and the engines go     *)
(* through a receiver process on each host (ZmqProxy), which has a socket  *)
(* and a bounded backlog for each topic; the answer to a call goes the     *)
(* same way back, and the caller's own socket picks it out by its msg_id.  *)
(*                                                                         *)
(* ZeroMQ keeps what was sent until the receiver takes it; a PUSH socket   *)
(* waits for somebody to pull; a PUB socket drops what nobody has          *)
(* subscribed to, and it takes time until a subscription reaches it.       *)
(***************************************************************************)
EXTENDS MatchMaker

CONSTANTS
    Backlog,   \* rpc_zmq_topic_backlog
    PoolSize   \* rpc_thread_pool_size less the threads that read the sockets

ASSUME ZmqAssumption == Backlog \in Nat \ {0} /\ PoolSize \in Nat \ {0}

Ops == {"call", "cast", "fanout", "notify", "alien", "none"}
Messages == Threads \X {"request", "reply"}
Topics == {"engine", "fanout", "replies", "notify"}

VARIABLES
    op,        \* what each thread sends; "alien" is a cast in another version's
               \* envelope
    home,      \* the host of the client process
    pc,        \* where each thread is
    chosen,    \* the host it found, or found dead
    joined,    \* the threads whose reply socket has reached its publisher
    outcome,   \* what call or cast returned or raised
    place,     \* where each message is
    dest,      \* the host it is sent to
    receiver,  \* for each host: "idle", "down", or the message it makes a socket for
    made,      \* the topics it has a socket for
    queue,     \* the backlog of each topic
    listens,   \* the engines whose fanout socket has reached its publisher
    deaf,      \* the engines whose thread that pulls requests has died
    ran,       \* what the executions of each request came to
    lost       \* history: why a message went no further

clientVars == <<pc, chosen, joined, outcome, turn>>
wireVars   == <<place, dest, receiver, made, queue, lost>>
engineVars == <<listens, deaf, ran>>
config     == <<kind, topics, op, home>>
zmqVars == <<config, faults, matchVars, clientVars, wireVars, engineVars>>

Request(c) == <<c, "request">>
Reply(c)   == <<c, "reply">>

ZmqInit(s) ==
    /\ MatchInit(s) /\ op = s.op /\ home = s.home
    /\ pc = [c \in Threads |-> IF s.backend # "zmq" \/ op[c] = "none" THEN "done" ELSE "ask"]
    /\ chosen = [c \in Threads |-> Local]
    /\ joined = {} /\ listens = {} /\ deaf = {}
    /\ outcome = [c \in Threads |-> "none"]
    /\ place = [m \in Messages |-> "none"]
    /\ dest = [m \in Messages |-> Local]
    /\ receiver = [h \in Hosts |-> "idle"]
    /\ made = [h \in Hosts |-> {}]
    /\ queue = [h \in Hosts |-> [t \in Topics |-> <<>>]]
    /\ ran = [c \in Threads |-> <<>>]
    /\ lost = [m \in Messages |-> "no"]

\* The topic in a message; Redis answers a fanout with the hosts' own topics.
TopicOf(m) ==
    IF m[2] = "reply" THEN "replies"
    ELSE CASE op[m[1]] = "notify" -> "notify"
           [] op[m[1]] = "fanout" /\ ~Redis -> "fanout"
           [] OTHER -> "engine"
IsPub(t) == t \in {"fanout", "replies"}
-----------------------------------------------------------------------------
(* The client: _multi_send asks the matchmaker and sends to the first of   *)
(* the hosts it names, also for a fanout.                                  *)

Found(c, h) ==
    /\ chosen' = [chosen EXCEPT ![c] = h]
    /\ pc' = [pc EXCEPT ![c] = "send"]
    /\ UNCHANGED <<joined, outcome>>

NoMatch(c) ==
    /\ pc' = [pc EXCEPT ![c] = "done"]
    /\ outcome' = [outcome EXCEPT ![c] = "nomatch"]
    /\ UNCHANGED <<chosen, joined>>

AskLocalhost(c) ==
    /\ kind = "localhost" /\ pc[c] = "ask" /\ Found(c, Local)
    /\ UNCHANGED <<config, faults, matchVars, turn, wireVars, engineVars>>

AskRing(c) ==
    /\ kind = "ring" /\ pc[c] = "ask"
    /\ IF op[c] = "notify" \/ Ring = <<>> THEN NoMatch(c) /\ UNCHANGED turn
       ELSE IF op[c] = "fanout" THEN Found(c, Ring[1]) /\ UNCHANGED turn
       ELSE Found(c, Ring[turn]) /\ turn' = (turn % Len(Ring)) + 1
    /\ UNCHANGED <<config, faults, matchVars, wireVars, engineVars>>

\* srandmember or smembers, and TTL of a member's key.
AskRedis(c) ==
    /\ Redis /\ pc[c] = "ask"
    /\ \/ (members = {} \/ op[c] = "notify") /\ NoMatch(c) /\ UNCHANGED stale
       \/ \E h \in members :
             /\ op[c] # "notify"
             /\ IF ~Missing(h) THEN Found(c, h)
                ELSE /\ chosen' = [chosen EXCEPT ![c] = h]
                     /\ pc' = [pc EXCEPT ![c] = "prune"]
                     /\ UNCHANGED <<joined, outcome>>
             /\ stale' = IF ttl[h] \in {None, Unset} THEN stale \cup {h} ELSE stale
    /\ UNCHANGED <<config, faults, members, ttl, engine, step, heart, beaten, turn, wireVars, engineVars>>

\* A mutant of Prune: the member is left in the set.
Prune_leaves(c) ==
    /\ pc[c] = "prune"
    /\ pc' = [pc EXCEPT ![c] = "ask"]
    /\ UNCHANGED <<config, faults, matchVars, chosen, joined, outcome, turn, wireVars, engineVars>>

\* is_alive, by what it read before: expire the member and go on.
Prune(c) ==
    /\ pc[c] = "prune" /\ Expire(chosen[c])
    /\ pc' = [pc EXCEPT ![c] = "ask"]
    /\ UNCHANGED <<config, faults, chosen, joined, outcome, turn, wireVars, engineVars>>

\* _cast, on a socket of its own; a call has made the one for its answer.
Send(c) ==
    /\ pc[c] = "send"
    /\ place' = [place EXCEPT ![Request(c)] = "wire"]
    /\ dest' = [dest EXCEPT ![Request(c)] = chosen[c]]
    /\ IF op[c] = "call" THEN pc' = [pc EXCEPT ![c] = "wait"] /\ UNCHANGED outcome
       ELSE /\ pc' = [pc EXCEPT ![c] = "done"]
            /\ outcome' = [outcome EXCEPT ![c] = "sent"]
    /\ UNCHANGED <<config, faults, matchVars, chosen, joined, turn, receiver, made, queue, lost, engineVars>>

\* The subscription to the msg_id reaches the publisher of replies.
Join(c) ==
    /\ op[c] = "call" /\ pc[c] \in {"send", "wait"} /\ c \notin joined
    /\ receiver[home[c]] # "down" /\ "replies" \in made[home[c]]
    /\ joined' = joined \cup {c}
    /\ UNCHANGED <<config, faults, matchVars, pc, chosen, outcome, turn, wireVars, engineVars>>

\* rpc_response_timeout; the socket is closed.
Timeout(c) ==
    /\ pc[c] = "wait"
    /\ pc' = [pc EXCEPT ![c] = "done"]
    /\ outcome' = [outcome EXCEPT ![c] = "timeout"]
    /\ joined' = joined \ {c}
    /\ UNCHANGED <<config, faults, matchVars, chosen, turn, wireVars, engineVars>>
-----------------------------------------------------------------------------
(* The receiver of a host.                                                 *)

Lose(ms, why) ==
    /\ place' = [m \in Messages |-> IF m \in ms THEN "lost" ELSE place[m]]
    /\ lost' = [m \in Messages |-> IF m \in ms THEN why ELSE lost[m]]

\* put_nowait; the publisher may hold one more message, which it is sending.
Put(h, m) ==
    LET t == TopicOf(m) IN
    \/ /\ Len(queue[h][t]) <= Backlog
       /\ queue' = [queue EXCEPT ![h][t] = Append(@, m)]
       /\ place' = [place EXCEPT ![m] = "queue"]
       /\ UNCHANGED lost
    \/ Len(queue[h][t]) >= Backlog /\ Lose({m}, "full") /\ UNCHANGED queue

\* ZmqProxy.consume: it makes and binds the socket of a new topic first.
Consume(h, m) ==
    /\ receiver[h] = "idle" /\ place[m] = "wire" /\ dest[m] = h
    /\ IF TopicOf(m) \in made[h]
       THEN Put(h, m) /\ UNCHANGED <<receiver, made>>
       ELSE /\ receiver' = [receiver EXCEPT ![h] = "making"]
            /\ made' = [made EXCEPT ![h] = @ \cup {TopicOf(m)}]
            /\ place' = [place EXCEPT ![m] = "making"]
            /\ UNCHANGED <<queue, lost>>
    /\ UNCHANGED <<config, faults, matchVars, clientVars, dest, engineVars>>

\* A mutant of Made: the event that the socket is made is waited for again.
Made_waits(h, m) ==
    /\ receiver[h] = "making" /\ place[m] = "making" /\ dest[m] = h
    /\ Put(h, m)
    /\ UNCHANGED <<config, faults, matchVars, clientVars, dest, receiver, made, engineVars>>

\* ... and waits until it is made, half a second for a PUB socket.
Made(h, m) ==
    /\ receiver[h] = "making" /\ place[m] = "making" /\ dest[m] = h
    /\ Put(h, m)
    /\ receiver' = [receiver EXCEPT ![h] = "idle"]
    /\ UNCHANGED <<config, faults, matchVars, clientVars, dest, made, engineVars>>

\* A mutant of Listeners: the filter of the reply sockets is the empty one.
Listeners_all(h, m) ==
    CASE TopicOf(m) = "replies" -> {c \in joined : home[c] = h}
      [] TopicOf(m) = "fanout"  -> {h} \cap listens
      [] OTHER                  -> {}

\* Who is subscribed to what a PUB socket of h sends.
Listeners(h, m) ==
    CASE TopicOf(m) = "replies" -> {m[1]} \cap joined
      [] TopicOf(m) = "fanout"  -> {h} \cap listens
      [] OTHER                  -> {}

\* The publisher of a topic sends the first of its backlog.
Publish(h, t) ==
    /\ receiver[h] # "down" /\ queue[h][t] # <<>>
    /\ LET m == Head(queue[h][t])
           to == Listeners(h, m)
       IN  IF t = "replies" /\ to # {}
           THEN \* _call: the socket is closed, and the response returned or raised
                \E c \in to :
                   /\ place' = [place EXCEPT ![m] = "done"]
                   /\ pc' = [pc EXCEPT ![c] = "done"]
                   /\ outcome' = [outcome EXCEPT ![c] =
                                     IF Last(ran[m[1]]) = "ok" THEN "result" ELSE "failure"]
                   /\ joined' = joined \ {c}
                   /\ UNCHANGED lost
           ELSE /\ \/ t = "engine" /\ engine[h] = "up"   \* somebody pulls
                      /\ place' = [place EXCEPT ![m] = "inbox"] /\ UNCHANGED lost
                   \/ t = "fanout" /\ to # {}
                      /\ place' = [place EXCEPT ![m] = "inbox"] /\ UNCHANGED lost
                   \/ IsPub(t) /\ to = {} /\ Lose({m}, "nobody")
                /\ UNCHANGED <<pc, outcome, joined>>
    /\ queue' = [queue EXCEPT ![h][t] = Tail(@)]
    /\ UNCHANGED <<config, faults, matchVars, chosen, turn, dest, receiver, made, engineVars>>

\* A receiver dies, with its backlogs, and is started again.
ReceiverDies(h) ==
    /\ receiver[h] # "down" /\ faults > 0
    /\ faults' = faults - 1
    /\ receiver' = [receiver EXCEPT ![h] = "down"]
    /\ made' = [made EXCEPT ![h] = {}]
    /\ queue' = [queue EXCEPT ![h] = [t \in Topics |-> <<>>]]
    /\ Lose({m \in Messages : place[m] \in {"queue", "making"} /\ dest[m] = h}, "died")
    /\ joined' = {c \in joined : home[c] # h}
    /\ listens' = listens \ {h}
    /\ UNCHANGED <<config, matchVars, pc, chosen, outcome, turn, dest, deaf, ran>>
ReceiverRestarts(h) ==
    /\ receiver[h] = "down"
    /\ receiver' = [receiver EXCEPT ![h] = "idle"]
    /\ UNCHANGED <<config, faults, matchVars, clientVars, place, dest, made, queue, lost, engineVars>>
-----------------------------------------------------------------------------
(* The engine of a host.                                                   *)

\* Its fanout socket reaches the publisher.
Listen(h) ==
    /\ engine[h] = "up" /\ h \notin listens
    /\ receiver[h] # "down" /\ "fanout" \in made[h]
    /\ listens' = listens \cup {h}
    /\ UNCHANGED <<config, faults, matchVars, clientVars, wireVars, deaf, ran>>

Running(h) == {m \in Messages : place[m] = "run" /\ dest[m] = h}

\* A mutant of Read: a green thread for each message, outside the pool.
Read_no_pool(h, m) ==
    /\ engine[h] = "up" /\ place[m] = "inbox" /\ dest[m] = h
    /\ TopicOf(m) = "engine" => h \notin deaf
    /\ IF op[m[1]] = "alien" THEN deaf' = deaf \cup {h} /\ Lose({m}, "alien")
       ELSE place' = [place EXCEPT ![m] = "run"] /\ UNCHANGED <<deaf, lost>>
    /\ UNCHANGED <<config, faults, matchVars, clientVars, dest, receiver, made, queue, listens, ran>>

\* ZmqReactor.consume; an envelope of another version ends the thread that
\* reads the socket.
Read(h, m) ==
    /\ engine[h] = "up" /\ place[m] = "inbox" /\ dest[m] = h
    /\ TopicOf(m) = "engine" => h \notin deaf
    /\ IF op[m[1]] = "alien"
       THEN deaf' = deaf \cup {h} /\ Lose({m}, "alien")
       ELSE /\ Cardinality(Running(h)) < PoolSize
            /\ place' = [place EXCEPT ![m] = "run"]
            /\ UNCHANGED <<deaf, lost>>
    /\ UNCHANGED <<config, faults, matchVars, clientVars, dest, receiver, made, queue, listens, ran>>

\* A mutant of Process: the green thread that runs a method is not done.
Process_again(h, m) ==
    /\ engine[h] = "up" /\ place[m] = "run" /\ dest[m] = h
    /\ ran' = [ran EXCEPT ![m[1]] = IF Len(@) < 2 THEN Append(@, "ok") ELSE @]
    /\ UNCHANGED <<config, faults, matchVars, clientVars, wireVars, listens, deaf>>

\* process: the method is run; a call's result or exception is cast to the
\* topic zmq_replies.<home>, which every matchmaker resolves to that host.
Process(h, m) ==
    /\ engine[h] = "up" /\ place[m] = "run" /\ dest[m] = h
    /\ \E how \in {"ok", "raised"} : ran' = [ran EXCEPT ![m[1]] = Append(@, how)]
    /\ LET r == Reply(m[1]) IN
       IF op[m[1]] = "call"
       THEN /\ place' = [place EXCEPT ![m] = "done", ![r] = "wire"]
            /\ dest' = [dest EXCEPT ![r] = home[m[1]]]
       ELSE place' = [place EXCEPT ![m] = "done"] /\ UNCHANGED dest
    /\ UNCHANGED <<config, faults, matchVars, clientVars, receiver, made, queue, lost, listens, deaf>>

\* What an engine that ends has read and not answered is gone with it.
EngineEnds(h) ==
    /\ EngineGone(h)
    /\ Lose({m \in Messages : dest[m] = h /\ place[m] \in {"inbox", "run"}}, "died")
    /\ listens' = listens \ {h}
    /\ UNCHANGED <<config, clientVars, dest, receiver, made, queue, deaf, ran>>
-----------------------------------------------------------------------------
ClientStep(c) == AskLocalhost(c) \/ AskRing(c) \/ AskRedis(c) \/ Prune(c) \/ Send(c) \/ Timeout(c)
ReceiverStep(h) ==
    \/ ReceiverRestarts(h)
    \/ \E m \in Messages : Consume(h, m) \/ Made(h, m)
Registry(h) == MatchStep(h) /\ UNCHANGED <<config, faults, clientVars, wireVars, engineVars>>
TimePasses  == Tick /\ UNCHANGED <<config, clientVars, wireVars, engineVars>>

ZmqNext ==
    \/ \E c \in Threads : ClientStep(c) \/ Join(c)
    \/ \E h \in Hosts :
          \/ ReceiverStep(h) \/ ReceiverDies(h)
          \/ \E t \in Topics : Publish(h, t)
          \/ Listen(h) \/ EngineEnds(h) \/ Registry(h)
          \/ \E m \in Messages : Read(h, m) \/ Process(h, m)
    \/ TimePasses

\* Threads, receivers and engines go on when they can, subscriptions arrive
\* and a receiver that died is started again; time passes.
ZmqFairness ==
    /\ WF_zmqVars(TimePasses)
    /\ \A c \in Threads : WF_zmqVars(ClientStep(c)) /\ WF_zmqVars(Join(c))
    /\ \A h \in Hosts :
          /\ WF_zmqVars(ReceiverStep(h)) /\ WF_zmqVars(Listen(h)) /\ WF_zmqVars(Registry(h))
          /\ \A t \in Topics : WF_zmqVars(Publish(h, t))
          /\ WF_zmqVars(\E m \in Messages : Read(h, m) \/ Process(h, m))
=============================================================================
