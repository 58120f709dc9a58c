------------------------------- MODULE FakeDriver -------------------------------
(***************************************************************************)
(* The fake driver of rpc: the consumers of a process are in a list for    *)
(* each topic, and a call runs the method in a green thread of the same    *)
(* process and waits for it.                                               *)
(***************************************************************************)
EXTENDS Naturals, Sequences, FiniteSets

CONSTANTS
    Callers,     \* the green threads that call, cast or fan out
    Connections  \* the connections that may have consumers for the topic

VARIABLES
    does,       \* what each caller does: "call", "cast", "fanout" or "none"
    patience,   \* whether its calls have a timeout
    changes,    \* bound: how often a consumer may still be made, or a connection close
    owner,      \* the connection of each consumer there was, the oldest first
    consumers,  \* those in CONSUMERS[topic], which is in the order they were made in
    at,         \* where each caller is: start, wait, done
    task,       \* the green thread of the method it waits for: none, run, ok, raised or killed
    next,       \* how far a fanout's loop over the list is
    ended,      \* what the methods each caller started came to
    reached,    \* the consumers a fanout has called
    told        \* what a call returned or raised

fakeConfig == <<does, patience>>
fakeVars == <<fakeConfig, changes, owner, consumers, at, task, next, ended, reached, told>>

\* The list of consumers is what the connections' create_consumer made it; a
\* service has two of one topic on its connection, of which one is for fanouts.
FakeInit(s) ==
    /\ does = (IF s.backend = "fake" THEN s.op ELSE [c \in Callers |-> "none"])
    /\ patience = s.patience /\ changes = s.faults
    /\ owner = (IF s.backend = "fake" THEN s.consumers ELSE <<>>)
    /\ consumers = DOMAIN owner
    /\ at = [c \in Callers |-> IF does[c] = "none" THEN "done" ELSE "start"]
    /\ task = [c \in Callers |-> "none"]
    /\ next = [c \in Callers |-> 1]
    /\ ended = [c \in Callers |-> <<>>]
    /\ reached = [c \in Callers |-> {}]
    /\ told = [c \in Callers |-> "none"]

Finish(c, what) ==
    /\ at' = [at EXCEPT ![c] = "done"]
    /\ told' = [told EXCEPT ![c] = what]

\* A call or a cast takes the first consumer.  With none it returns None,
\* as it does for a method that returns None.
Spawn(c) ==
    /\ at[c] = "start" /\ does[c] \in {"call", "cast"}
    /\ IF consumers = {}
       THEN Finish(c, "unserved") /\ UNCHANGED task
       ELSE /\ at' = [at EXCEPT ![c] = "wait"]
            /\ task' = [task EXCEPT ![c] = "run"]
            /\ UNCHANGED told
    /\ UNCHANGED <<fakeConfig, changes, owner, consumers, next, ended, reached>>

\* The consumer at the place in the list that the loop has come to.
CallNext(c) ==
    /\ \E i \in consumers :
          /\ Cardinality({j \in consumers : j < i}) = next[c] - 1
          /\ reached' = [reached EXCEPT ![c] = @ \cup {i}]
    /\ at' = [at EXCEPT ![c] = "wait"]
    /\ task' = [task EXCEPT ![c] = "run"]
    /\ next' = [next EXCEPT ![c] = @ + 1]

\* A mutant of SpawnNext: it returns after the first, as the zmq driver does.
SpawnNext_first(c) ==
    /\ at[c] = "start" /\ does[c] = "fanout"
    /\ IF next[c] > 1 \/ consumers = {}
       THEN Finish(c, "none") /\ UNCHANGED <<task, next, reached>>
       ELSE CallNext(c) /\ UNCHANGED told
    /\ UNCHANGED <<fakeConfig, changes, owner, consumers, ended>>

\* fanout_cast goes over the list itself, and waits for every consumer.
SpawnNext(c) ==
    /\ at[c] = "start" /\ does[c] = "fanout"
    /\ IF next[c] > Cardinality(consumers)
       THEN Finish(c, "none") /\ UNCHANGED <<task, next, reached>>
       ELSE CallNext(c) /\ UNCHANGED told
    /\ UNCHANGED <<fakeConfig, changes, owner, consumers, ended>>

\* _inner: the method is dispatched to.
RunMethod(c) ==
    /\ task[c] = "run"
    /\ \E how \in {"ok", "raised"} :
          /\ task' = [task EXCEPT ![c] = how]
          /\ ended' = [ended EXCEPT ![c] = IF does[c] = "fanout" THEN @ ELSE Append(@, how)]
    /\ UNCHANGED <<fakeConfig, changes, owner, consumers, at, next, reached, told>>

\* A mutant of Hear: the exception of a call is swallowed like a cast's.
Hear_no_exception(c) ==
    /\ at[c] = "wait" /\ task[c] \in {"ok", "raised"}
    /\ IF does[c] = "fanout" THEN at' = [at EXCEPT ![c] = "start"] /\ UNCHANGED told
       ELSE Finish(c, IF does[c] = "cast" THEN "none" ELSE "result")
    /\ UNCHANGED <<fakeConfig, changes, owner, consumers, task, next, ended, reached>>

\* done.wait returns or raises; a cast and a fanout swallow the exception.
Hear(c) ==
    /\ at[c] = "wait" /\ task[c] \in {"ok", "raised"}
    /\ IF does[c] = "fanout" THEN at' = [at EXCEPT ![c] = "start"] /\ UNCHANGED told
       ELSE Finish(c, CASE does[c] = "cast"   -> "none"
                        [] task[c] = "ok"     -> "result"
                        [] task[c] = "raised" -> "failure")
    /\ UNCHANGED <<fakeConfig, changes, owner, consumers, task, next, ended, reached>>

\* The time is up, which is looked at before the event: the green thread is
\* killed, unless it has ended.
GiveUp(c) ==
    /\ patience /\ does[c] = "call" /\ at[c] = "wait"
    /\ task' = [task EXCEPT ![c] = IF @ = "run" THEN "killed" ELSE @]
    /\ Finish(c, "nothing")
    /\ UNCHANGED <<fakeConfig, changes, owner, consumers, next, ended, reached>>

\* Connection.create_consumer, also while a fanout goes over the list.
CreateConsumer(k) ==
    /\ changes > 0 /\ changes' = changes - 1
    /\ owner' = Append(owner, k)
    /\ consumers' = consumers \cup {Len(owner) + 1}
    /\ UNCHANGED <<fakeConfig, at, task, next, ended, reached, told>>

\* Connection.close takes all the consumers of the connection from the list.
CloseConnection(k) ==
    /\ changes > 0 /\ changes' = changes - 1
    /\ \E i \in consumers : owner[i] = k
    /\ consumers' = {i \in consumers : owner[i] # k}
    /\ UNCHANGED <<fakeConfig, owner, at, task, next, ended, reached, told>>

CallerStep(c) == Spawn(c) \/ SpawnNext(c) \/ RunMethod(c) \/ Hear(c) \/ GiveUp(c)
FakeNext ==
    \/ \E c \in Callers : CallerStep(c)
    \/ \E k \in Connections : CreateConsumer(k) \/ CloseConnection(k)
FakeFairness == \A c \in Callers : WF_fakeVars(CallerStep(c))
=============================================================================
