---------------------------- MODULE RpcBackendsProps ----------------------------
(* What rpc promises without a broker. *)
EXTENDS RpcBackends

\* The states of engines, messages and threads; backlogs and pools are bounded.
TypeOK ==
    /\ ttl \in [Hosts -> None .. Ttl] /\ members \subseteq Hosts
    /\ engine \in [Hosts -> {"none", "register", "set", "up", "failed", "gone"}]
    /\ beaten \subseteq heart /\ heart \subseteq Hosts
    /\ pc \in [Threads -> {"ask", "prune", "send", "wait", "done"}]
    /\ outcome \in [Threads -> {"none", "sent", "nomatch", "timeout", "result", "failure"}]
    /\ place \in [Messages -> {"none", "wire", "making", "queue", "inbox", "run", "done", "lost"}]
    /\ \A h \in Hosts : /\ \A t \in Topics : Len(queue[h][t]) <= Backlog + 1
                        /\ Cardinality(Running(h)) <= PoolSize

\* Whatever dies, is dropped or is late: no request is executed twice, and
\* what a call returns or raises is what its own request came to
\* (impl_zmq.py:693, the subscription to the msg_id, when several green
\* threads of a host wait for answers; impl_fake.py:82-86).
KeepsPromise == Promise!Spec

\* An engine that sends heartbeats is in the set of the topic, unless somebody
\* has asked for its key between SET and EXPIRE, or after it had lapsed
\* (matchmaker_redis.py:115-119, 128-138).
Listed == heart \subseteq members \cup stale

\* An engine that has gone, or could not start, is not found for ever: its
\* key expires (matchmaker.py:226-235).
DeadIsNotFound == \A h \in Hosts : engine[h] \in {"failed", "gone"} ~> Missing(h)

\* What has been sent is executed, unless there is a reason: the backlog was
\* full, nobody had subscribed yet, a process died with it, the engine is not
\* there, or a message of another version has stopped the engine's reading
\* (impl_zmq.py:571-586, which ends the green thread).
SentIsExecuted ==
    \A c \in Threads :
        op[c] \in {"call", "cast", "fanout"} /\ place[Request(c)] # "none"
            ~> \/ Len(ran[c]) = 1 \/ lost[Request(c)] # "no"
               \/ engine[chosen[c]] # "up" \/ chosen[c] \in deaf

\* A fanout of the fake driver calls no consumer twice, and of those in the
\* list when it ends it misses at most as many as it had called that were
\* closed meanwhile (impl_fake.py:191, a loop over the list that
\* create_consumer and close change; close takes several consumers at once).
FanoutMisses ==
    [][\A c \in Threads : does[c] = "fanout" /\ at[c] # "done" /\ at'[c] = "done"
        => /\ Cardinality(reached[c]) = next[c] - 1
           /\ Cardinality(consumers \ reached[c]) <= Cardinality(reached[c] \ consumers)]_vars

\* Every call and cast returns or raises, however many dead hosts the
\* matchmaker names (matchmaker_redis.py:62-77).
CallsEnd ==
    \A c \in Threads : /\ pc[c] = "ask" ~> pc[c] = "done"
                       /\ at[c] = "start" ~> at[c] = "done"
=============================================================================
