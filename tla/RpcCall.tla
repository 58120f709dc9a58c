-------------------------------- MODULE RpcCall --------------------------------
(***************************************************************************)
(* rpc.call between the API processes and the engines: amqp.py over the    *)
(* bus driver impl_qpid.py, the one rushstack configures.  A call takes a  *)
(* message id, registers a waiter with the process's ReplyProxy, publishes *)
(* on the engines' topic and waits for the replies that carry its id: the  *)
(* result, then the message that ends the answer, or a failure.  An engine *)
(* fetches one message at a time, drops the ones it has seen, hands the    *)
(* others to a pool of green threads and acknowledges them at that point,  *)
(* before they have run.                                                   *)
(*                                                                         *)
(* The broker is modelled as both sides use it: queues that go with their  *)
(* last consumer (auto-delete) or outlive a short outage, unacknowledged   *)
(* messages that return to the queue when their session is lost.  The      *)
(* failures of a session are the Faults of the instance, at most MaxFaults *)
(* of them.  Nobody in rushstack gives a call a timeout of its own, so the *)
(* messages have no time to live (impl_qpid.py, topic_send) and a waiter   *)
(* gives up after conf.rpc_response_timeout.                               *)
(***************************************************************************)
EXTENDS Naturals, Sequences, FiniteSets, SequencesExt

CONSTANTS
    Calls,           \* the calls made, each with its _msg_id and _unique_id
    Servers,         \* the engines that consume the topic
    None,
    DupMsgCheckSize, \* _MsgIdCache.DUP_MSG_CHECK_SIZE
    ThreadPoolSize,  \* conf.rpc_thread_pool_size
    Timeouts,        \* whether a waiter may give up
    Faults,          \* the failures that happen in this instance
    MaxFaults        \* bound: how many of them

FaultKinds == {"unconfirmed", "reset", "session", "unbind", "replies", "crash"}

ASSUME RpcAssumption ==
    /\ None \notin Calls
    /\ Servers # {}
    /\ DupMsgCheckSize \in Nat \ {0}
    /\ ThreadPoolSize \in Nat \ {0}
    /\ Timeouts \in BOOLEAN
    /\ Faults \subseteq FaultKinds
    /\ MaxFaults \in Nat

VARIABLES
    pc,          \* where each caller is: new, send, wait, done
    outcome,     \* what its call came to
    waiters,     \* ReplyProxy._call_waiters
    inbox,       \* MulticallProxyWaiter._dataqueue
    heard,       \* MulticallProxyWaiter.msg_id_cache
    got,         \* the run whose result the caller heard last, 0 for none
    queue,       \* the topic's queue
    bound,       \* whether that queue exists
    attached,    \* the engines with a session at the broker
    unacked,     \* the message each session has not acknowledged
    hand,        \* the message each consumer thread is dealing with
    stage,       \* and where that thread is: fetch, callback, acknowledge
    prevMsgids,  \* ProxyCallback.msg_id_cache
    taken,       \* the calls each engine has taken up in its life, a history
    tasks,       \* the green threads of each engine's pool
    runs,        \* for each call, what its executions came to
    replies,     \* the caller's reply queue
    replyQ,      \* that queue: none, up, kept or gone with its session
    faults       \* how many failures there have been

callerVars == <<pc, outcome, waiters, heard, got>>
topicVars  == <<queue, bound, attached, unacked>>
engineVars == <<hand, stage, prevMsgids, taken, tasks, runs>>
replyVars  == <<replies, replyQ>>
vars == <<callerVars, inbox, topicVars, engineVars, replyVars, faults>>

Kinds    == {"result", "ending", "failure"}
Reply    == [call : Calls, run : Nat, kind : Kinds]
Task     == [call : Calls, run : Nat, at : {"run"} \cup Kinds]
RunStates == {"pending", "ok", "raised"}
Outcomes == {"none", "result", "empty", "failure", "timeout", "duplicate",
             "unsent"}

Init ==
    /\ pc = [c \in Calls |-> "new"]
    /\ outcome = [c \in Calls |-> "none"]
    /\ waiters = {}
    /\ inbox = [c \in Calls |-> <<>>]
    /\ heard = [c \in Calls |-> <<>>]
    /\ got = [c \in Calls |-> 0]
    /\ queue = <<>>
    /\ bound = TRUE
    /\ attached = Servers
    /\ unacked = [s \in Servers |-> None]
    /\ hand = [s \in Servers |-> None]
    /\ stage = [s \in Servers |-> "fetch"]
    /\ prevMsgids = [s \in Servers |-> <<>>]
    /\ taken = [s \in Servers |-> <<>>]
    /\ tasks = [s \in Servers |-> {}]
    /\ runs = [c \in Calls |-> <<>>]
    /\ replies = <<>>
    /\ replyQ = "none"
    /\ faults = 0

\* One more failure of the given kind, if the instance has it.
Fault(kind) ==
    /\ kind \in Faults
    /\ faults < MaxFaults
    /\ faults' = faults + 1

\* A cache of at most DupMsgCheckSize ids, the oldest of which makes room.
Remember(cache, id) ==
    Append(IF Len(cache) < DupMsgCheckSize THEN cache ELSE Tail(cache), id)

Duplicate(cache, id) == Contains(cache, id)
-----------------------------------------------------------------------------
(* The caller. *)

\* multicall: the waiter is registered before anything is sent; the first
\* call of the process makes the ReplyProxy and declares its queue.
Multicall(c) ==
    /\ pc[c] = "new"
    /\ pc' = [pc EXCEPT ![c] = "send"]
    /\ waiters' = waiters \cup {c}
    /\ replyQ' = IF replyQ = "none" THEN "up" ELSE replyQ
    /\ UNCHANGED <<outcome, heard, got, inbox, topicVars, engineVars, replies,
                   faults>>

\* A topic exchange drops what no queue is bound for.
Publish(c) ==
    /\ queue' = IF bound THEN Append(queue, c) ELSE queue
    /\ UNCHANGED <<bound, attached, unacked>>

TopicSend(c) ==
    /\ pc[c] = "send"
    /\ Publish(c)
    /\ pc' = [pc EXCEPT ![c] = "wait"]
    /\ UNCHANGED <<outcome, waiters, heard, got, inbox, engineVars, replyVars,
                   faults>>

\* The session is lost after the broker has the message and before the sender
\* knows: ensure connects again and publishes it a second time.
TopicResend(c) ==
    /\ pc[c] = "send"
    /\ Fault("unconfirmed")
    /\ Publish(c)
    /\ UNCHANGED <<callerVars, inbox, engineVars, replyVars>>

\* The message is out, but the reset that returns the connection to its pool
\* raises: multicall ends without handing the waiter to anyone.
TopicSendRaises(c) ==
    /\ pc[c] = "send"
    /\ Fault("reset")
    /\ Publish(c)
    /\ pc' = [pc EXCEPT ![c] = "done"]
    /\ outcome' = [outcome EXCEPT ![c] = "unsent"]
    /\ UNCHANGED <<waiters, heard, got, inbox, engineVars, replyVars>>

\* done(): the waiter leaves the ReplyProxy's table.
End(c, o) ==
    /\ pc' = [pc EXCEPT ![c] = "done"]
    /\ outcome' = [outcome EXCEPT ![c] = o]
    /\ waiters' = waiters \ {c}

\* One turn of MulticallProxyWaiter.__iter__; call keeps the last result.
HearDuplicate(c, r) ==
    /\ Duplicate(heard[c], r)
    /\ End(c, "duplicate")
    /\ UNCHANGED <<heard, got>>

HearResult(c, r) ==
    /\ ~Duplicate(heard[c], r)
    /\ r.kind = "result"
    /\ heard' = [heard EXCEPT ![c] = Remember(@, r)]
    /\ got' = [got EXCEPT ![c] = r.run]
    /\ UNCHANGED <<pc, outcome, waiters>>

HearEnd(c, r) ==
    /\ ~Duplicate(heard[c], r)
    /\ r.kind # "result"
    /\ End(c, CASE r.kind = "failure" -> "failure"
                [] r.kind = "ending" /\ got[c] = 0 -> "empty"
                [] OTHER -> "result")
    /\ heard' = [heard EXCEPT ![c] = Remember(@, r)]
    /\ UNCHANGED got

Hear(c) ==
    /\ pc[c] = "wait"
    /\ inbox[c] # <<>>
    /\ LET r == Head(inbox[c])
       IN  HearDuplicate(c, r) \/ HearResult(c, r) \/ HearEnd(c, r)
    /\ inbox' = [inbox EXCEPT ![c] = Tail(@)]
    /\ UNCHANGED <<topicVars, engineVars, replyVars, faults>>

\* Mutants of GiveUp: the waiter stays registered; the timeout covers the
\* first reply only.
GiveUp_no_done(c) ==
    /\ Timeouts
    /\ pc[c] = "wait"
    /\ inbox[c] = <<>>
    /\ pc' = [pc EXCEPT ![c] = "done"]
    /\ outcome' = [outcome EXCEPT ![c] = "timeout"]
    /\ UNCHANGED <<waiters, heard, got, inbox, topicVars, engineVars, replyVars,
                   faults>>

GiveUp_first_only(c) ==
    /\ Timeouts
    /\ pc[c] = "wait"
    /\ inbox[c] = <<>>
    /\ got[c] = 0
    /\ End(c, "timeout")
    /\ UNCHANGED <<heard, got, inbox, topicVars, engineVars, replyVars, faults>>

GiveUp(c) ==
    /\ Timeouts
    /\ pc[c] = "wait"
    /\ inbox[c] = <<>>
    /\ End(c, "timeout")
    /\ UNCHANGED <<heard, got, inbox, topicVars, engineVars, replyVars, faults>>
-----------------------------------------------------------------------------
(* The caller's ReplyProxy and its queue. *)

\* _process_data: a reply nobody waits for is dropped.
Route(r) ==
    inbox' = IF r.call \in waiters
             THEN [inbox EXCEPT ![r.call] = Append(@, r)] ELSE inbox

Deliver ==
    /\ replyQ = "up"
    /\ replies # <<>>
    /\ Route(Head(replies))
    /\ replies' = Tail(replies)
    /\ UNCHANGED <<callerVars, topicVars, engineVars, replyQ, faults>>

\* The session is lost before the acknowledgement, and the queue is kept.
DeliverUnacked ==
    /\ replyQ = "up"
    /\ replies # <<>>
    /\ Fault("replies")
    /\ Route(Head(replies))
    /\ replyQ' = "kept"
    /\ UNCHANGED <<callerVars, topicVars, engineVars, replies>>

ReplySessionLost ==
    /\ replyQ = "up"
    /\ Fault("replies")
    /\ \/ replyQ' = "kept" /\ UNCHANGED replies
       \/ replyQ' = "gone" /\ replies' = <<>>
    /\ UNCHANGED <<callerVars, inbox, topicVars, engineVars>>

\* reconnect declares the consumers again.
ReplyReconnect ==
    /\ replyQ \in {"kept", "gone"}
    /\ replyQ' = "up"
    /\ UNCHANGED <<callerVars, inbox, topicVars, engineVars, replies, faults>>
-----------------------------------------------------------------------------
(* An engine's consumer thread. *)

\* A mutant of Fetch: the message is acknowledged as it is fetched.
Fetch_acknowledged(s) ==
    /\ stage[s] = "fetch"
    /\ s \in attached
    /\ queue # <<>>
    /\ hand' = [hand EXCEPT ![s] = Head(queue)]
    /\ queue' = Tail(queue)
    /\ stage' = [stage EXCEPT ![s] = "callback"]
    /\ UNCHANGED <<callerVars, inbox, bound, attached, unacked, prevMsgids, taken, tasks,
                   runs, replyVars, faults>>

Fetch(s) ==
    /\ stage[s] = "fetch"
    /\ s \in attached
    /\ queue # <<>>
    /\ hand' = [hand EXCEPT ![s] = Head(queue)]
    /\ unacked' = [unacked EXCEPT ![s] = Head(queue)]
    /\ queue' = Tail(queue)
    /\ stage' = [stage EXCEPT ![s] = "callback"]
    /\ UNCHANGED <<callerVars, inbox, bound, attached, prevMsgids, taken, tasks, runs,
                   replyVars, faults>>

\* ProxyCallback: a DuplicateMessageError ends the callback, consume logs it.
SkipDuplicate(s) ==
    /\ Duplicate(prevMsgids[s], hand[s])
    /\ UNCHANGED <<prevMsgids, taken, tasks, runs>>

\* Mutants of SpawnMethod: the ids seen are not looked at; the pool has no end.
SpawnMethod_no_check(s) ==
    LET c == hand[s] IN
    /\ Cardinality(tasks[s]) < ThreadPoolSize
    /\ prevMsgids' = [prevMsgids EXCEPT ![s] = Remember(@, c)]
    /\ taken' = [taken EXCEPT ![s] = Append(@, c)]
    /\ tasks' = [tasks EXCEPT
                   ![s] = @ \cup {[call |-> c, run |-> Len(runs[c]) + 1, at |-> "run"]}]
    /\ runs' = [runs EXCEPT ![c] = Append(@, "pending")]

SpawnMethod_no_limit(s) ==
    LET c == hand[s] IN
    /\ ~Duplicate(prevMsgids[s], c)
    /\ prevMsgids' = [prevMsgids EXCEPT ![s] = Remember(@, c)]
    /\ taken' = [taken EXCEPT ![s] = Append(@, c)]
    /\ tasks' = [tasks EXCEPT
                   ![s] = @ \cup {[call |-> c, run |-> Len(runs[c]) + 1, at |-> "run"]}]
    /\ runs' = [runs EXCEPT ![c] = Append(@, "pending")]

\* The message's green thread; spawn_n waits for a free place in the pool.
SpawnMethod(s) ==
    LET c == hand[s] IN
    /\ ~Duplicate(prevMsgids[s], c)
    /\ Cardinality(tasks[s]) < ThreadPoolSize
    /\ prevMsgids' = [prevMsgids EXCEPT ![s] = Remember(@, c)]
    /\ taken' = [taken EXCEPT ![s] = Append(@, c)]
    /\ tasks' = [tasks EXCEPT
                   ![s] = @ \cup {[call |-> c, run |-> Len(runs[c]) + 1, at |-> "run"]}]
    /\ runs' = [runs EXCEPT ![c] = Append(@, "pending")]

Callback(s) ==
    /\ stage[s] = "callback"
    /\ SkipDuplicate(s) \/ SpawnMethod(s)
    /\ stage' = [stage EXCEPT ![s] = "acknowledge"]
    /\ UNCHANGED <<callerVars, inbox, topicVars, hand, replyVars, faults>>

\* On a lost session the acknowledgement raises, and _consume goes on.
Acknowledge(s) ==
    /\ stage[s] = "acknowledge"
    /\ hand' = [hand EXCEPT ![s] = None]
    /\ unacked' = [unacked EXCEPT ![s] = None]
    /\ stage' = [stage EXCEPT ![s] = "fetch"]
    /\ UNCHANGED <<callerVars, inbox, queue, bound, attached, prevMsgids, taken, tasks,
                   runs, replyVars, faults>>

\* The broker takes back what the session of s has not acknowledged; with its
\* last consumer the queue may go too.
Detach(s) ==
    /\ attached' = attached \ {s}
    /\ unacked' = [unacked EXCEPT ![s] = None]
    /\ \/ /\ queue' = (IF unacked[s] = None THEN <<>> ELSE <<unacked[s]>>) \o queue
          /\ UNCHANGED bound
       \/ /\ "unbind" \in Faults
          /\ attached = {s}
          /\ queue' = <<>>
          /\ bound' = FALSE

SessionLost(s) ==
    /\ s \in attached
    /\ Fault("session")
    /\ Detach(s)
    /\ UNCHANGED <<callerVars, inbox, engineVars, replyVars>>

Reconnect(s) ==
    /\ stage[s] = "fetch"
    /\ s \notin attached
    /\ attached' = attached \cup {s}
    /\ bound' = TRUE
    /\ UNCHANGED <<callerVars, inbox, queue, unacked, engineVars, replyVars,
                   faults>>

\* The engine dies; the one that is started in its place has seen nothing.
Crash(s) ==
    /\ Fault("crash")
    /\ Detach(s)
    /\ hand' = [hand EXCEPT ![s] = None]
    /\ stage' = [stage EXCEPT ![s] = "fetch"]
    /\ prevMsgids' = [prevMsgids EXCEPT ![s] = <<>>]
    /\ taken' = [taken EXCEPT ![s] = <<>>]
    /\ tasks' = [tasks EXCEPT ![s] = {}]
    /\ UNCHANGED <<callerVars, inbox, runs, replyVars>>
-----------------------------------------------------------------------------
(* The green threads of an engine: ProxyCallback._process_data. *)

MoveTo(s, t, at) == tasks' = [tasks EXCEPT ![s] = (@ \ {t}) \cup {[t EXCEPT !.at = at]}]
Finish(s, t)     == tasks' = [tasks EXCEPT ![s] = @ \ {t}]

\* A mutant of RunMethod: what it raises is answered like a result.
RunMethod_swallowed(s, t) ==
    /\ t.at = "run"
    /\ \E o \in {"ok", "raised"} : runs' = [runs EXCEPT ![t.call][t.run] = o]
    /\ MoveTo(s, t, "result")
    /\ UNCHANGED <<callerVars, inbox, topicVars, hand, stage, prevMsgids, taken,
                   replyVars, faults>>

\* The method, which returns or raises.
RunMethod(s, t) ==
    /\ t.at = "run"
    /\ \/ /\ runs' = [runs EXCEPT ![t.call][t.run] = "ok"]
          /\ MoveTo(s, t, "result")
       \/ /\ runs' = [runs EXCEPT ![t.call][t.run] = "raised"]
          /\ MoveTo(s, t, "failure")
    /\ UNCHANGED <<callerVars, inbox, topicVars, hand, stage, prevMsgids, taken,
                   replyVars, faults>>

\* msg_reply, on a connection of the pool.
DirectSend(t) ==
    /\ t.at \in Kinds
    /\ LET r == [call |-> t.call, run |-> t.run, kind |-> t.at]
       IN  replies' = IF replyQ \in {"up", "kept"} THEN Append(replies, r)
                      ELSE replies
    /\ UNCHANGED replyQ

\* A mutant of SendReply: nothing ends the answer.
SendReply_no_ending(s, t) ==
    /\ DirectSend(t)
    /\ Finish(s, t)
    /\ UNCHANGED <<callerVars, inbox, topicVars, hand, stage, prevMsgids, taken, runs,
                   faults>>

SendReply(s, t) ==
    /\ DirectSend(t)
    /\ IF t.at = "result" THEN MoveTo(s, t, "ending") ELSE Finish(s, t)
    /\ UNCHANGED <<callerVars, inbox, topicVars, hand, stage, prevMsgids, taken, runs,
                   faults>>

ResendReply(s, t) ==
    /\ Fault("unconfirmed")
    /\ DirectSend(t)
    /\ UNCHANGED <<callerVars, inbox, topicVars, engineVars>>

\* The reply is out and the reset of its connection raises: inside the try of
\* _process_data that is one more exception of the method to reply with.
SendReplyRaises(s, t) ==
    /\ Fault("reset")
    /\ DirectSend(t)
    /\ IF t.at = "failure" THEN Finish(s, t) ELSE MoveTo(s, t, "failure")
    /\ UNCHANGED <<callerVars, inbox, topicVars, hand, stage, prevMsgids, taken, runs>>
-----------------------------------------------------------------------------
CallerStep(c) ==
    Multicall(c) \/ TopicSend(c) \/ Hear(c) \/ GiveUp(c)

ConsumerStep(s) ==
    Fetch(s) \/ Callback(s) \/ Acknowledge(s) \/ Reconnect(s)

ThreadStep(s) == \E t \in tasks[s] : RunMethod(s, t) \/ SendReply(s, t)

Failure ==
    \/ \E c \in Calls : TopicResend(c) \/ TopicSendRaises(c)
    \/ DeliverUnacked \/ ReplySessionLost
    \/ \E s \in Servers :
          \/ SessionLost(s) \/ Crash(s)
          \/ \E t \in tasks[s] : ResendReply(s, t) \/ SendReplyRaises(s, t)

Next ==
    \/ \E c \in Calls : CallerStep(c)
    \/ Deliver \/ ReplyReconnect
    \/ \E s \in Servers : ConsumerStep(s) \/ ThreadStep(s)
    \/ Failure

Spec == Init /\ [][Next]_vars

\* Green threads and consumers that can go on do: the hub runs every ready
\* thread, and reconnect tries for ever.
Fairness ==
    /\ \A c \in Calls : WF_vars(CallerStep(c))
    /\ WF_vars(Deliver) /\ WF_vars(ReplyReconnect)
    /\ \A s \in Servers : WF_vars(ConsumerStep(s)) /\ WF_vars(ThreadStep(s))

FairSpec == Spec /\ Fairness
=============================================================================
