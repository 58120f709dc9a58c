------------------------------- MODULE MatchMaker -------------------------------
(***************************************************************************)
(* Who serves a topic, when the zmq driver sends without a broker:         *)
(* MatchMakerLocalhost, MatchMakerRing with its fixed list of hosts, and   *)
(* MatchMakerRedis, where services register and send heartbeats and those  *)
(* who ask prune the hosts that seem dead.                                 *)
(*                                                                         *)
(* Of Redis it takes what the code does: a set of members for the topic,   *)
(* and a key for each host that expires Ttl heartbeats after the last one. *)
(* Its TTL says -1 of a key that is missing and of one that has no expiry. *)
(***************************************************************************)
EXTENDS Integers, Sequences, FiniteSets, SequencesExt

CONSTANTS
    Hosts,      \* the machines, each with a receiver and perhaps an engine
    Local,      \* the host called localhost
    Ring,       \* matchmaker_ring.json's hosts of the topic, a sequence
    Threads,    \* the green threads of a client process, each with one message
    Ttl,        \* matchmaker_heartbeat_ttl over matchmaker_heartbeat_freq
    Settings    \* the configurations, loads and faults of this instance

ASSUME MatchMakerAssumption ==
    Local \in Hosts /\ Ring \in Seq(Hosts) /\ Ttl \in Nat \ {0}

VARIABLES
    kind,     \* rpc_zmq_matchmaker: "localhost", "ring" or "redis"
    topics,   \* what each engine registers, in order: "topic", "node"
    faults,   \* bound: how many crashes and delays there may still be
    members,  \* the hosts in the topic's set
    ttl,      \* each host's key: heartbeats until it expires, or None
    engine,   \* none, register, set, up, failed, gone
    step,     \* how many of its topics each engine has registered
    heart,    \* the engines that send heartbeats
    beaten,   \* those of them that have since the last tick
    stale,    \* history: the hosts whose key somebody has read without an expiry
    turn      \* where the client's cycle through the ring is

None == -1    \* no key
Unset == 0    \* a key without expiry

matchVars == <<members, ttl, engine, step, heart, beaten, stale>>

Redis == kind = "redis"

\* A mutant of Missing: a key that is about to expire counts as missing.
Missing_low(h) == ttl[h] \in {None, Unset, 1}

Missing(h) == ttl[h] \in {None, Unset}     \* redis.ttl(key) == -1

MatchInit(s) ==
    /\ kind = s.kind /\ topics = s.topics /\ faults = s.faults
    /\ members = {} /\ heart = {} /\ beaten = {} /\ stale = {}
    /\ ttl = [h \in Hosts |-> None]
    /\ engine = [h \in Hosts |-> IF h \in s.engines THEN "register" ELSE "none"]
    /\ step = [h \in Hosts |-> 0]
    /\ turn = 1

\* create_consumer registers; for MatchMakerBase that is nothing.  A node's
\* topic is the name of the host's key: Redis refuses a set of that name, and
\* the engine's start fails.
Register(h) ==
    /\ engine[h] = "register" /\ step[h] < Len(topics)
    /\ step' = [step EXCEPT ![h] = @ + 1]
    /\ IF ~Redis
       THEN UNCHANGED <<members, ttl, engine>>
       ELSE IF topics[step[h] + 1] = "node"
       THEN engine' = [engine EXCEPT ![h] = "failed"] /\ UNCHANGED <<members, ttl>>
       ELSE /\ members' = members \cup {h}
            /\ ttl' = [ttl EXCEPT ![h] = Unset]
            /\ engine' = [engine EXCEPT ![h] = "set"]
    /\ UNCHANGED <<heart, beaten, stale>>

\* ack_alive: a key that is gone cannot be updated, and what should register
\* it again raises an AttributeError (topic_host).
AckAlive(h, then) == ttl[h] # None /\ ttl' = [ttl EXCEPT ![h] = Ttl] /\ then

Acknowledge(h) ==
    /\ engine[h] = "set"
    /\ \/ AckAlive(h, engine' = [engine EXCEPT ![h] = "register"])
       \/ ttl[h] = None /\ engine' = [engine EXCEPT ![h] = "failed"] /\ UNCHANGED ttl
    /\ UNCHANGED <<members, step, heart, beaten, stale>>

\* consume_in_thread, which starts the heartbeats.
EngineUp(h) ==
    /\ engine[h] = "register" /\ step[h] = Len(topics)
    /\ engine' = [engine EXCEPT ![h] = "up"]
    /\ heart' = IF Redis THEN heart \cup {h} ELSE heart
    /\ UNCHANGED <<members, ttl, step, beaten, stale>>

\* send_heartbeats; an exception ends the green thread, and nobody sees it.
Heartbeat(h) ==
    /\ h \in heart \ beaten
    /\ \/ AckAlive(h, beaten' = beaten \cup {h}) /\ UNCHANGED heart
       \/ ttl[h] = None /\ heart' = heart \ {h} /\ UNCHANGED <<ttl, beaten>>
    /\ UNCHANGED <<members, engine, step, stale>>

\* matchmaker_heartbeat_freq seconds pass; a heart may miss its beat, by a fault.
Tick ==
    /\ Redis /\ \E h \in Hosts : ttl[h] > 0
    /\ IF heart = beaten THEN UNCHANGED faults ELSE faults > 0 /\ faults' = faults - 1
    /\ ttl' = [h \in Hosts |-> IF ttl[h] > 1 THEN ttl[h] - 1
                               ELSE IF ttl[h] = 1 THEN None ELSE ttl[h]]
    /\ beaten' = {}
    /\ UNCHANGED <<members, engine, step, heart, stale>>

\* A mutant of EngineGone: the heartbeats go on.
EngineGone_heart(h) ==
    /\ engine[h] \in {"register", "set", "up"} /\ faults > 0
    /\ faults' = faults - 1
    /\ engine' = [engine EXCEPT ![h] = "gone"]
    /\ UNCHANGED <<members, ttl, step, heart, beaten, stale>>

\* An engine's process ends.  Its close unregisters the names of its sockets,
\* which are not those it registered (and Redis refuses the first): what is
\* left is the same as after a crash.
EngineGone(h) ==
    /\ engine[h] \in {"register", "set", "up"} /\ faults > 0
    /\ faults' = faults - 1
    /\ engine' = [engine EXCEPT ![h] = "gone"]
    /\ heart' = heart \ {h} /\ beaten' = beaten \ {h}
    /\ UNCHANGED <<members, ttl, step, stale>>

\* expire: one transaction, after the TTL was read.
Expire(h) ==
    /\ members' = members \ {h}
    /\ ttl' = [ttl EXCEPT ![h] = None]
    /\ UNCHANGED <<engine, step, heart, beaten, stale>>

MatchStep(h) == Register(h) \/ Acknowledge(h) \/ EngineUp(h) \/ Heartbeat(h)
=============================================================================
