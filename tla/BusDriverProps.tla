---------------------------- MODULE BusDriverProps ----------------------------
(* The properties of the AMQP drivers' connections. *)
EXTENDS BusDriver

Where == {"none", "connect", "declare again", "ready", "dead", "failed",
          "closed", "exited"}

\* Every variable has its type, and a connection with a link is one that is
\* being used, not one that is still trying hosts.
TypeOK ==
    /\ up \subseteq Range(Hosts) \cup {Cell}
    /\ link \in [Conns -> Range(Hosts) \cup {Cell, None}]
    /\ at \in [Conns -> Where]
    /\ \A k \in Conns : /\ at[k] \in {"none", "connect", "closed", "exited"}
                             => link[k] = None
                        /\ Declared(k) <= Len(Wanted(k))
                        /\ todo[k] \subseteq [queue : {Wanted(k)[i] : i \in 1 .. Len(Wanted(k))},
                                              tag : 1 .. 3]
    /\ \A s \in subs : link[s[1]] # None /\ \E q \in queues : q.name = s[2]
    /\ Range(idle) \subseteq PoolConns
    /\ mine \in [Threads -> PoolConns \cup Threads \cup {None}]
    /\ faults \in Nat

\* What the threads of a process share is made once and used by one.  The pool
\* never makes more connections than its size, and one it made is idle or in the
\* hands of one thread, never of two (amqp.py:49-62, 102-134); calls that start
\* together make one reply proxy (amqp.py:511-526).
SharedSafely ==
    /\ size <= PoolSize
    /\ \A t, u \in Threads : mine[t] # None /\ mine[t] = mine[u] => t = u
    /\ \A t \in Threads : mine[t] \notin Range(idle)
    /\ IsInjective(idle)
    /\ proxies <= 1
    /\ \A t, u \in Threads :
          pc[t] = "make proxy" => proxies = 0 /\ (pc[u] = "make proxy" => t = u)

\* The connections the pool has lost.
Leaked == size - Len(idle) - Cardinality({t \in Threads : mine[t] \in PoolConns})

\* The pool loses a connection only by a reset that raised, which a caller was
\* told of (amqp.py:123-128, 140-142).
LeaksAreTold == Leaked <= Cardinality({t \in Threads : pc[t] = "raised"})

\* What an engine is subscribed to when its thread waits for messages.
Serving(e) ==
    /\ Usable(e) /\ Started(e)
    /\ Kombu => consuming[e]

\* An engine never waits for messages on some of its queues only: whatever was
\* lost while it declared, reconnected and declared again, all three are
\* subscribed on its present link (impl_kombu.py:501-502, 636-644;
\* impl_qpid.py:410-416).
ServesAllItsQueues ==
    \A k \in Consumes :
       Serving(k) => \A i \in 1 .. Len(Wanted(k)) : <<k, Wanted(k)[i].name>> \in subs

\* A message goes where its kind says: a fanout to every engine that is serving
\* when it is sent, each in a queue of its own, a call or cast to one queue, and
\* one for a server to that server alone (impl_kombu.py:218-285, 335-366,
\* impl_qpid.py:179-215, 291-308, rpc/service.py:51-59).
MessagesAreRouted ==
    [][\A t \in Threads :
          pc[t] = "send" /\ pc'[t] = "put back" =>
             LET to == {h[1] : h \in {h \in held' : h[2] = t}}
                 readers(q) == {s[1] : s \in {s \in subs : s[2] = q}}
             IN  /\ op[t] = "fanout" =>
                       \A e \in Engines :
                          Serving(e) => \E q \in to : readers(q) = {e}
                 /\ op[t] \in {"call", "cast"} => Cardinality(to) <= 1
                 /\ op[t] = "node" => \A q \in to : readers(q) \subseteq {Node}]_vars

\* The reasons for which an engine's connection does not come back: it is
\* closed, rabbit_max_retries is reached, a qpid link was lost while consumers
\* were declared for the first time or again, or kombu, whose tags start at 1
\* on every link, has given one tag to two consumers.
GivenUp(e) ==
    \/ at[e] = "closed"
    \/ at[e] = "exited" /\ Kombu /\ retries # 0
    \/ at[e] \in {"dead", "failed"} /\ ~Kombu
    \/ Kombu /\ ~TagsDiffer(e)

\* An engine whose connection is lost serves all its queues again, once the
\* failures end, unless it has given up (impl_kombu.py:506-579,
\* impl_qpid.py:379-428).
ComesBack == \A e \in Engines : (at[e] = "connect") ~> (Serving(e) \/ GivenUp(e))

\* Every thread of the client is done with its message in the end, unless the
\* process is ended or the pool has lost all its connections.
SendsEnd ==
    \A t \in Threads :
       (pc[t] \in {"proxy", "get"}) ~> (pc[t] \in {"sent", "raised"} \/ ~ClientUp \/ Leaked = PoolSize)
=============================================================================
