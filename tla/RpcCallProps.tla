----------------------------- MODULE RpcCallProps -----------------------------
(***************************************************************************)
(* The properties of rpc.call that the instances check, and the inductive  *)
(* invariants that RpcCallProofs uses.  TLC finds no state of MCRpcCall's  *)
(* instances that breaks one of those where what its theorem assumes       *)
(* holds.                                                                  *)
(***************************************************************************)
EXTENDS RpcCall

\* Every variable has its type, and a session never has more than one message
\* to acknowledge (the receiver's capacity of 1, impl_qpid.py:123-127).
TypeOK ==
    /\ pc \in [Calls -> {"new", "send", "wait", "done"}]
    /\ outcome \in [Calls -> Outcomes]
    /\ waiters \subseteq Calls
    /\ \A c \in Calls : /\ Range(inbox[c]) \subseteq Reply
                        /\ Range(heard[c]) \subseteq Reply
                        /\ Len(heard[c]) <= DupMsgCheckSize
                        /\ Range(runs[c]) \subseteq RunStates
                        /\ got[c] \in 0 .. Len(runs[c])
    /\ Range(queue) \subseteq Calls
    /\ bound \in BOOLEAN
    /\ attached \subseteq Servers
    /\ unacked \in [Servers -> Calls \cup {None}]
    /\ hand \in [Servers -> Calls \cup {None}]
    /\ stage \in [Servers -> {"fetch", "callback", "acknowledge"}]
    /\ \A s \in Servers : /\ unacked[s] \in {hand[s], None}
                          /\ stage[s] = "fetch" <=> hand[s] = None
                          /\ Range(prevMsgids[s]) \subseteq Calls
                          /\ Len(prevMsgids[s]) <= DupMsgCheckSize
                          /\ Range(taken[s]) \subseteq Calls
                          /\ tasks[s] \subseteq Task
                          /\ Cardinality(tasks[s]) <= ThreadPoolSize
    /\ Range(replies) \subseteq Reply
    /\ replyQ \in {"none", "up", "kept", "gone"}
    /\ faults \in 0 .. MaxFaults

\* No request is lost while the topic's queue exists: once published it is in
\* the queue, or in the hands of a session that has not acknowledged it, or an
\* engine has taken it up (the acknowledgement comes after the callback,
\* impl_qpid.py:145-155), whatever sessions are lost and engines die.
NoRequestLost ==
    \A c \in Calls :
       pc[c] \in {"wait", "done"} =>
          \/ c \in Range(queue)
          \/ \E s \in Servers : unacked[s] = c
          \/ runs[c] # <<>>

\* A waiter stays in the ReplyProxy's table exactly as long as its call: the
\* only one left behind is that of a call whose send raised (amqp.py:527-530).
WaitersAreOpenCalls ==
    waiters = {c \in Calls : pc[c] \in {"send", "wait"} \/ outcome[c] = "unsent"}

\* A caller that is told something is told what happened: a result only when
\* the run it heard of returned, a failure only when a run raised
\* (amqp.py:412-444, 470-503).
ToldTheTruth ==
    \A c \in Calls :
       /\ outcome[c] = "result" => runs[c][got[c]] = "ok"
       /\ outcome[c] = "failure" => \E n \in DOMAIN runs[c] : runs[c][n] = "raised"

\* Every engine that took call c up has died since: those that live have it in
\* their cache.
TakenUpByTheDead(c) ==
    runs[c] # <<>> /\ \A s \in Servers : c \notin Range(prevMsgids[s])

\* Without timeouts every call is answered with what its method did, however
\* few threads an engine has (amqp.py:409-410, spawn_n) and whichever session
\* is lost, unless the engines that took it up have died.
CallsAreAnswered ==
    \A c \in Calls :
       <>[](outcome[c] \in {"result", "failure"} \/ TakenUpByTheDead(c))

\* Whatever is lost, a caller is not kept waiting for ever (amqp.py:487-493).
CallsEnd == \A c \in Calls : (pc[c] = "send") ~> (pc[c] = "done")
-----------------------------------------------------------------------------
askedBar == {c \in Calls : pc[c] # "new"}

toldBar == [c \in Calls |->
              CASE outcome[c] \in {"timeout", "duplicate", "unsent"} -> "nothing"
                [] OTHER -> outcome[c]]

TheEngine == CHOOSE s \in Servers : TRUE

Repeats == INSTANCE RpcRepeats WITH
    Window <- DupMsgCheckSize,
    asked <- askedBar, begun <- taken[TheEngine], ran <- runs, told <- toldBar

\* With one engine that goes on living, a call is what RpcRepeats says: a request
\* that is published or delivered again runs again only when DupMsgCheckSize
\* others were taken up since (amqp.py:302-320), and replies of two runs, or that
\* come twice, tell nothing false.
KeepsPromise == Repeats!Spec

\* A second run of a call shows as soon as it starts.
ranBar == [c \in Calls |-> IF runs[c] = <<"pending">> THEN <<>> ELSE runs[c]]

Promise == INSTANCE RpcPromise WITH asked <- askedBar, ran <- ranBar, told <- toldBar
-----------------------------------------------------------------------------
(* The inductive invariants. *)

\* The types the proofs need, without the sizes of caches and pools.
TypeInv ==
    /\ pc \in [Calls -> {"new", "send", "wait", "done"}]
    /\ outcome \in [Calls -> Outcomes]
    /\ waiters \subseteq Calls
    /\ inbox \in [Calls -> Seq(Reply)]
    /\ heard \in [Calls -> Seq(Reply)]
    /\ got \in [Calls -> Nat]
    /\ queue \in Seq(Calls)
    /\ bound \in BOOLEAN
    /\ attached \subseteq Servers
    /\ unacked \in [Servers -> Calls \cup {None}]
    /\ hand \in [Servers -> Calls \cup {None}]
    /\ stage \in [Servers -> {"fetch", "callback", "acknowledge"}]
    /\ prevMsgids \in [Servers -> Seq(Calls)]
    /\ taken \in [Servers -> Seq(Calls)]
    /\ tasks \in [Servers -> SUBSET Task]
    /\ runs \in [Calls -> Seq(RunStates)]
    /\ replies \in Seq(Reply)
    /\ replyQ \in {"none", "up", "kept", "gone"}
    /\ \A s \in Servers : stage[s] = "fetch" <=> hand[s] = None

\* A call whose send raised has ended; every other end takes the waiter along.
WaiterInv ==
    /\ WaitersAreOpenCalls
    /\ \A c \in Calls : outcome[c] = "unsent" => pc[c] = "done"

\* The messages of session s: what it acknowledges has been taken up, and so
\* has everything its engine takes for a duplicate.
SessionInv(s) ==
    /\ unacked[s] \in {hand[s], None}
    /\ stage[s] = "acknowledge" => runs[hand[s]] # <<>>
    /\ \A i \in DOMAIN prevMsgids[s] : runs[prevMsgids[s][i]] # <<>>

HoldInv ==
    /\ bound = TRUE
    /\ \A s \in Servers : SessionInv(s)
    /\ NoRequestLost

\* What a reply, or the reply a thread is about to send, says of its run.
Says(r, kind, state) ==
    /\ r.run \in DOMAIN runs[r.call]
    /\ runs[r.call][r.run] =
         CASE kind = "failure" -> "raised"
           [] kind \in {"result", "ending"} -> "ok"
           [] OTHER -> state

TaskTrue(t)  == Says(t, t.at, "pending")
ReplyTrue(r) == Says(r, r.kind, "pending")

\* Two threads, of one engine or of two, never execute the same run.
RunsApart ==
    \A s1, s2 \in Servers : \A t1 \in tasks[s1], t2 \in tasks[s2] :
       (t1.call = t2.call /\ t1.run = t2.run) => (s1 = s2 /\ t1 = t2)

GotTrue(c) ==
    got[c] # 0 => got[c] \in DOMAIN runs[c] /\ runs[c][got[c]] = "ok"

TruthInv ==
    /\ \A s \in Servers : \A t \in tasks[s] : TaskTrue(t)
    /\ RunsApart
    /\ \A i \in DOMAIN replies : ReplyTrue(replies[i])
    /\ \A c \in Calls : \A i \in DOMAIN inbox[c] :
          inbox[c][i].call = c /\ ReplyTrue(inbox[c][i])
    /\ \A c \in Calls : GotTrue(c)
    /\ \A c \in Calls : outcome[c] = "result" => got[c] # 0
    /\ ToldTheTruth
-----------------------------------------------------------------------------
\* What is said or about to be said of a run is said of one there has been.
Known(x) == x.run \in DOMAIN runs[x.call]

KnownInv ==
    /\ \A s \in Servers : \A t \in tasks[s] : Known(t)
    /\ \A i \in DOMAIN replies : Known(replies[i])
    /\ \A c \in Calls : \A i \in DOMAIN inbox[c] : inbox[c][i].call = c /\ Known(inbox[c][i])
    /\ \A c \in Calls : got[c] \in 0 .. Len(runs[c])

\* The caches and the pool of an engine are never beyond their sizes.
SizeInv ==
    /\ \A c \in Calls : Len(heard[c]) <= DupMsgCheckSize
    /\ \A s \in Servers : /\ unacked[s] \in {hand[s], None}
                          /\ Len(prevMsgids[s]) <= DupMsgCheckSize
                          /\ IsFiniteSet(tasks[s]) /\ Cardinality(tasks[s]) <= ThreadPoolSize
    /\ faults \in 0 .. MaxFaults
-----------------------------------------------------------------------------
\* A cache holds the last of the calls its engine has taken up.
LastOf(q, t) ==
    /\ Len(q) <= DupMsgCheckSize /\ Len(q) <= Len(t)
    /\ Len(q) = DupMsgCheckSize \/ Len(q) = Len(t)
    /\ \A i \in DOMAIN q : q[i] = t[(Len(t) - Len(q)) + i]

CacheInv == \A s \in Servers : LastOf(prevMsgids[s], taken[s])
-----------------------------------------------------------------------------
(* With one engine that goes on living, as KeepsPromise has it: what can fail *)
(* is what has a request published or delivered again, or the topic's queue  *)
(* go.                                                                       *)

OneEngine ==
    /\ \A z1, z2 \in Servers : z1 = z2
    /\ Faults \subseteq {"unconfirmed", "session", "unbind"}

\* A call's requests all come after it is made.
NewInv ==
    \A c \in Calls : pc[c] = "new" => /\ runs[c] = <<>> /\ c \notin Range(queue)
                                      /\ \A s \in Servers : hand[s] # c

\* The copies of a request come before DupMsgCheckSize others are taken up.
InTime ==
    \A s \in Servers : \A i \in DOMAIN taken[s] :
       stage[s] = "callback" /\ hand[s] = taken[s][i] => i + DupMsgCheckSize > Len(taken[s])

\* Then only the first of them is executed.
OnceInv ==
    \A c \in Calls :
       /\ Len(runs[c]) <= 1
       /\ runs[c] # <<>> => \A s \in Servers : c \in Range(taken[s])

OpenInv ==
    /\ replyQ \in {"none", "up"}
    /\ \A c \in Calls : pc[c] # "new" => replyQ = "up"
    /\ \A c \in Calls : outcome[c] = "none" <=> pc[c] # "done"

\* A caller that has heard no result yet will hear one before what ends its
\* answer: replies keep the order in which the engine sends them.
NothingHeard(c) == pc[c] \in {"send", "wait"} /\ got[c] = 0
InInbox(c)      == \E j \in DOMAIN inbox[c] : inbox[c][j].kind = "result"
ResultOf(r, c)  == r.call = c /\ r.kind = "result"

InboxOrder(c) ==
    \A i \in DOMAIN inbox[c] :
       inbox[c][i].kind = "ending" => \E j \in 1 .. i - 1 : inbox[c][j].kind = "result"

ReplyOrder(c) ==
    \A i \in DOMAIN replies :
       replies[i].call = c /\ replies[i].kind = "ending" =>
          InInbox(c) \/ \E j \in 1 .. i - 1 : ResultOf(replies[j], c)

TaskOrder(c) ==
    \A s \in Servers : \A t \in tasks[s] :
       t.call = c /\ t.at = "ending" =>
          InInbox(c) \/ \E j \in DOMAIN replies : ResultOf(replies[j], c)

OrderInv ==
    \A c \in Calls : NothingHeard(c) => InboxOrder(c) /\ ReplyOrder(c) /\ TaskOrder(c)
=============================================================================
