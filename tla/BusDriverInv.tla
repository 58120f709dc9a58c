----------------------------- MODULE BusDriverInv -----------------------------
(***************************************************************************)
(* The inductive invariants of which BusDriverProofs makes use: one of     *)
(* what the client's threads share, behind SharedSafely and LeaksAreTold,  *)
(* one of each connection's consumers and what the broker has of them,     *)
(* behind TypeOK and ServesAllItsQueues, and one of the queues and their   *)
(* messages, behind MessagesAreRouted.                                     *)
(***************************************************************************)
EXTENDS BusDriverProps

Pcs == {"idle", "proxy", "make proxy", "get", "send", "put back", "finalize",
        "sent", "raised"}

\* The types of what the threads of the client share.
ClientTypes ==
    /\ at \in [Conns -> Where]
    /\ pc \in [Threads -> Pcs]
    /\ mine \in [Threads -> PoolConns \cup Threads \cup {None}]
    /\ idle \in Seq(PoolConns)
    /\ size \in Nat /\ proxies \in Nat
    /\ sem \in Threads \cup {None}

\* A thread holds a connection from the time it got it until it has put it
\* back, and a connection that is not the pool's is its own.
HoldsInv ==
    /\ \A t \in Threads : mine[t] # None => pc[t] \in {"send", "put back", "finalize"}
    /\ \A t \in Threads : mine[t] \in Threads => mine[t] = t
    /\ \A t \in Threads : pc[t] = "finalize" => mine[t] \in PoolConns

\* A connection that somebody holds or that is idle has been made.
MadeInv ==
    /\ \A t \in Threads : mine[t] \in PoolConns => at[mine[t]] # "none"
    /\ \A k \in Range(idle) : at[k] # "none"

\* Who makes the reply proxy has the semaphore, and there is no proxy yet.
SemInv ==
    /\ \A t \in Threads : pc[t] = "make proxy" <=> sem = t
    /\ sem # None => proxies = 0

ClientInv == ClientTypes /\ HoldsInv /\ MadeInv /\ SemInv /\ SharedSafely

\* The threads LeaksAreTold counts.
Holders == {t \in Threads : mine[t] \in PoolConns}
Raised  == {t \in Threads : pc[t] = "raised"}
-----------------------------------------------------------------------------
\* The queues of a connection, the first n of them, and its consumers with
\* those a reconnect has still to declare.
FirstQueues(k, n) == {Wanted(k)[i] : i \in 1 .. n}
QueuesOf(k)       == FirstQueues(k, Len(Wanted(k)))
AllConsumers(k)   == consumers[k] \cup todo[k]

ConnTypes ==
    /\ up \subseteq Range(Hosts) \cup {Cell}
    /\ link \in [Conns -> Range(Hosts) \cup {Cell, None}]
    /\ consumers = [k \in Conns |-> consumers[k]]
    /\ todo = [k \in Conns |-> todo[k]]
    /\ num = [k \in Conns |-> num[k]]
    /\ consuming \in [Conns -> BOOLEAN]
    /\ faults \in Nat

\* Queues are declared in their order, and a reconnect's come back in any; kombu
\* counts tags from 1 on each link, never beyond the consumers there are.
ConsumersInv(k) ==
    /\ AllConsumers(k) \subseteq [queue : QueuesOf(k), tag : 1 .. 3]
    /\ IsFiniteSet(AllConsumers(k)) /\ Cardinality(AllConsumers(k)) <= Len(Wanted(k))
    /\ at[k] \in {"none", "connect", "ready"} => todo[k] = {}
    /\ at[k] \in {"none", "connect", "declare again", "ready"} =>
          {c.queue : c \in AllConsumers(k)} = FirstQueues(k, Cardinality(AllConsumers(k)))
    /\ Kombu => todo[k] \subseteq consumers[k]
    /\ num[k] \in 1 .. Declared(k) + 1
    /\ ~Kombu => num[k] = 1

\* A link is there while a connection declares or is used, and its queues are
\* consumed from only when all have been declared.
LinkInv(k) ==
    /\ link[k] # None => at[k] \in {"declare again", "ready"}
    /\ consuming[k] => Kombu /\ Started(k) /\ at[k] \notin {"none", "connect", "declare again"}

\* On its present link a connection's declared queues exist, and those that it
\* has been seen to consume from or, with qpid, has a receiver of, are subscribed.
BrokerInv(k) ==
    link[k] # None =>
       /\ Kombu => \A c \in consumers[k] \ todo[k] : c.queue \in queues
       /\ (Kombu => consuming[k]) => \A c \in consumers[k] : <<k, c.queue.name>> \in subs

\* Only connections with a link are subscribed, to queues of theirs that exist.
SubsInv == \A s \in subs : /\ s[1] \in Conns /\ s = <<s[1], s[2]>> /\ link[s[1]] # None
                           /\ \E q \in QueuesOf(s[1]) \cap queues : q.name = s[2]

\* A connection is opened once: the reply proxy's by the first call, a thread's
\* own when it has got that far.
OpenInv ==
    ClientUp =>
       /\ proxies = 0 /\ sem = None => at[Reply] = "none"
       /\ \A t \in Threads : pc[t] \in {"idle", "proxy", "make proxy", "get"} => at[t] = "none"

ConnInv ==
    /\ ConnTypes /\ SubsInv /\ OpenInv
    /\ \A k \in Conns : ConsumersInv(k) /\ LinkInv(k) /\ BrokerInv(k)
-----------------------------------------------------------------------------
\* A message in a queue is one that its thread has sent, and a queue is one that
\* a connection consumes from or the one kombu declares for the notices.
RouteInv ==
    /\ \A h \in held : h[2] \in Threads /\ pc[h[2]] \in {"put back", "finalize", "sent", "raised"}
    /\ \A q \in queues : q = KombuNotifyQueue(Notifications) \/ \E k \in Conns : q \in QueuesOf(k)
=============================================================================
