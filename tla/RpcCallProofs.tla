----------------------------- MODULE RpcCallProofs -----------------------------
(***************************************************************************)
(* What is proved of RpcCall, for any number of calls and engines, any     *)
(* sizes of the caches and pools, and any number of failures.              *)
(***************************************************************************)
EXTENDS RpcCallProps, SequenceLemmas, FiniteSetTheorems

USE RpcAssumption

\* ReplyProxy._process_data puts a reply into a waiter's queue.
LEMMA RouteType ==
  ASSUME TypeInv, NEW r \in Reply, Route(r)
  PROVE  inbox' \in [Calls -> Seq(Reply)]
<1>1. r.call \in Calls
  BY DEF Reply
<1>2. inbox[r.call] \in Seq(Reply)
  BY <1>1 DEF TypeInv
<1>3. Append(inbox[r.call], r) \in Seq(Reply)
  BY <1>2
<1> QED BY <1>1, <1>3 DEF TypeInv, Route

LEMMA InitType == Init => TypeInv
BY DEF Init, TypeInv, Outcomes

LEMMA NextType == TypeInv /\ [Next]_vars => TypeInv'
<1> SUFFICES ASSUME TypeInv, [Next]_vars PROVE TypeInv'
  OBVIOUS
<1> USE DEF TypeInv, callerVars, topicVars, engineVars, replyVars
<1>1. ASSUME NEW c \in Calls, Multicall(c) PROVE TypeInv'
  BY <1>1 DEF Multicall
<1>2. ASSUME NEW c \in Calls, TopicSend(c) PROVE TypeInv'
  BY <1>2 DEF TopicSend, Publish
<1>3. ASSUME NEW c \in Calls, TopicResend(c) PROVE TypeInv'
  BY <1>3 DEF TopicResend, Publish
<1>4. ASSUME NEW c \in Calls, TopicSendRaises(c) PROVE TypeInv'
  BY <1>4 DEF TopicSendRaises, Publish, Outcomes
<1>5. ASSUME NEW c \in Calls, Hear(c) PROVE TypeInv'
  <2> DEFINE r == Head(inbox[c])
  <2>1. r \in Reply /\ Tail(inbox[c]) \in Seq(Reply)
    BY <1>5 DEF Hear
  <2>2. CASE HearDuplicate(c, r)
    BY <1>5, <2>1, <2>2 DEF Hear, HearDuplicate, End, Outcomes
  <2>3. Remember(heard[c], r) \in Seq(Reply)
    BY <2>1 DEF Remember
  <2>4. CASE HearResult(c, r)
    BY <1>5, <2>1, <2>3, <2>4 DEF Hear, HearResult, Reply
  <2>5. CASE HearEnd(c, r)
    BY <1>5, <2>1, <2>3, <2>5 DEF Hear, HearEnd, End, Outcomes
  <2> QED BY <1>5, <2>2, <2>4, <2>5 DEF Hear
<1>6. ASSUME NEW c \in Calls, GiveUp(c) PROVE TypeInv'
  BY <1>6 DEF GiveUp, End, Outcomes
<1>7. CASE Deliver
  <2>1. Head(replies) \in Reply /\ Tail(replies) \in Seq(Reply)
    BY <1>7 DEF Deliver
  <2>2. inbox' \in [Calls -> Seq(Reply)]
    BY <1>7, <2>1, RouteType DEF Deliver
  <2> QED BY <1>7, <2>1, <2>2 DEF Deliver
<1>8. CASE DeliverUnacked
  <2>1. Head(replies) \in Reply
    BY <1>8 DEF DeliverUnacked
  <2>2. inbox' \in [Calls -> Seq(Reply)]
    BY <1>8, <2>1, RouteType DEF DeliverUnacked
  <2> QED BY <1>8, <2>2 DEF DeliverUnacked
<1>9. CASE ReplySessionLost
  <2>1. replies' = replies \/ replies' = <<>>
    BY <1>9, Zenon DEF ReplySessionLost
  <2>2. <<>> \in Seq(Reply)
    OBVIOUS
  <2>3. replies' \in Seq(Reply)
    BY <2>1, <2>2, Zenon
  <2> QED BY <1>9, <2>3 DEF ReplySessionLost
<1>10. CASE ReplyReconnect
  BY <1>10 DEF ReplyReconnect
<1>11. ASSUME NEW s \in Servers, Fetch(s) PROVE TypeInv'
  <2>1. Head(queue) \in Calls /\ Tail(queue) \in Seq(Calls)
    BY <1>11 DEF Fetch
  <2> QED BY <1>11, <2>1 DEF Fetch
<1>12. ASSUME NEW s \in Servers, Callback(s) PROVE TypeInv'
  <2>1. hand[s] \in Calls
    BY <1>12 DEF Callback
  <2>2. CASE SkipDuplicate(s)
    BY <1>12, <2>2 DEF Callback, SkipDuplicate
  <2>3. CASE SpawnMethod(s)
    <3>1. Remember(prevMsgids[s], hand[s]) \in Seq(Calls)
      BY <2>1 DEF Remember
    <3>2. [call |-> hand[s], run |-> Len(runs[hand[s]]) + 1, at |-> "run"] \in Task
      BY <2>1 DEF Task
    <3>3. Append(runs[hand[s]], "pending") \in Seq(RunStates)
      BY <2>1 DEF RunStates
    <3>4. taken' \in [Servers -> Seq(Calls)]
      BY <2>1, <2>3 DEF SpawnMethod
    <3>5. prevMsgids' \in [Servers -> Seq(Calls)]
      BY <2>3, <3>1 DEF SpawnMethod
    <3> QED BY <1>12, <2>1, <2>3, <3>2, <3>3, <3>4, <3>5 DEF Callback, SpawnMethod
  <2> QED BY <1>12, <2>2, <2>3 DEF Callback
<1>13. ASSUME NEW s \in Servers, Acknowledge(s) PROVE TypeInv'
  BY <1>13 DEF Acknowledge
<1>14. ASSUME NEW s \in Servers, Reconnect(s) PROVE TypeInv'
  BY <1>14 DEF Reconnect
<1>15. ASSUME NEW s \in Servers, Detach(s)
       PROVE  attached' \subseteq Servers /\ bound' \in BOOLEAN
              /\ unacked' \in [Servers -> Calls \cup {None}] /\ queue' \in Seq(Calls)
  <2>1. unacked[s] # None => <<unacked[s]>> \in Seq(Calls)
    BY DEF TypeInv
  <2>2. (IF unacked[s] = None THEN <<>> ELSE <<unacked[s]>>) \o queue \in Seq(Calls)
    BY <2>1
  <2>3. queue' = (IF unacked[s] = None THEN <<>> ELSE <<unacked[s]>>) \o queue
        \/ queue' = <<>>
    BY <1>15, Zenon DEF Detach
  <2>4. <<>> \in Seq(Calls)
    OBVIOUS
  <2>5. queue' \in Seq(Calls)
    BY <2>2, <2>3, <2>4, Zenon
  <2> QED BY <1>15, <2>5 DEF Detach
<1>16. ASSUME NEW s \in Servers, SessionLost(s) PROVE TypeInv'
  BY <1>15, <1>16 DEF SessionLost
<1>17. ASSUME NEW s \in Servers, Crash(s) PROVE TypeInv'
  BY <1>15, <1>17 DEF Crash
<1>18. ASSUME NEW s \in Servers, NEW t \in tasks[s], NEW at \in Kinds, MoveTo(s, t, at)
       PROVE  tasks' \in [Servers -> SUBSET Task]
  <2>1. t \in Task
    OBVIOUS
  <2>2. [t EXCEPT !.at = at] \in Task
    BY <2>1 DEF Task
  <2> QED BY <1>18, <2>2 DEF MoveTo
<1>19. ASSUME NEW s \in Servers, NEW t \in tasks[s], RunMethod(s, t) PROVE TypeInv'
  <2>1. t \in Task
    OBVIOUS
  <2>2. runs' \in [Calls -> Seq(RunStates)]
    <3>1. t.call \in Calls /\ runs[t.call] \in Seq(RunStates)
      BY <2>1 DEF Task
    <3>2. \A o \in RunStates : [runs[t.call] EXCEPT ![t.run] = o] \in Seq(RunStates)
      BY <3>1, SeqExcept
    <3>3. PICK o \in RunStates : runs' = [runs EXCEPT ![t.call][t.run] = o]
      BY <1>19 DEF RunMethod, RunStates
    <3>4. runs' = [runs EXCEPT ![t.call] = [runs[t.call] EXCEPT ![t.run] = o]]
      BY <3>3
    <3>5. [runs[t.call] EXCEPT ![t.run] = o] \in Seq(RunStates)
      BY <3>2
    <3> QED BY <3>4, <3>5
  <2>3. tasks' \in [Servers -> SUBSET Task]
    BY <1>18, <1>19 DEF RunMethod, Kinds
  <2> QED BY <1>19, <2>2, <2>3 DEF RunMethod
<1>20. ASSUME NEW s \in Servers, NEW t \in tasks[s], DirectSend(t)
       PROVE  replies' \in Seq(Reply) /\ replyQ' = replyQ
  <2>1. t \in Task /\ t.at \in Kinds
    BY <1>20 DEF DirectSend
  <2>2. [call |-> t.call, run |-> t.run, kind |-> t.at] \in Reply
    BY <2>1 DEF Task, Reply
  <2>3. Append(replies, [call |-> t.call, run |-> t.run, kind |-> t.at]) \in Seq(Reply)
    BY <2>2
  <2> QED BY <1>20, <2>3 DEF DirectSend
<1>21. ASSUME NEW s \in Servers, NEW t \in tasks[s], Finish(s, t)
       PROVE  tasks' \in [Servers -> SUBSET Task]
  BY <1>21 DEF Finish
<1>22. ASSUME NEW s \in Servers, NEW t \in tasks[s], SendReply(s, t) PROVE TypeInv'
  BY <1>18, <1>20, <1>21, <1>22 DEF SendReply, Kinds
<1>23. ASSUME NEW s \in Servers, NEW t \in tasks[s], ResendReply(s, t) PROVE TypeInv'
  BY <1>20, <1>23 DEF ResendReply
<1>24. ASSUME NEW s \in Servers, NEW t \in tasks[s], SendReplyRaises(s, t) PROVE TypeInv'
  BY <1>18, <1>20, <1>21, <1>24 DEF SendReplyRaises, Kinds
<1>25. CASE UNCHANGED vars
  BY <1>25 DEF vars
<1> QED
  BY <1>1, <1>2, <1>3, <1>4, <1>5, <1>6, <1>7, <1>8, <1>9, <1>10, <1>11, <1>12,
     <1>13, <1>14, <1>16, <1>17, <1>19, <1>22, <1>23, <1>24, <1>25
  DEF Next, CallerStep, ConsumerStep, ThreadStep, Failure

\* Every variable of the call and of the engines keeps its type.
THEOREM RpcTypeCorrect == Spec => []TypeInv
BY InitType, NextType, PTL DEF Spec
-----------------------------------------------------------------------------
\* Every step of the system, one by one.
LEMMA StepCases ==
  ASSUME [Next]_vars
  PROVE  \/ UNCHANGED vars
         \/ \E c \in Calls : \/ Multicall(c) \/ TopicSend(c) \/ Hear(c) \/ GiveUp(c)
                            \/ TopicResend(c) \/ TopicSendRaises(c)
         \/ Deliver \/ DeliverUnacked \/ ReplySessionLost \/ ReplyReconnect
         \/ \E s \in Servers : \/ Fetch(s) \/ Callback(s) \/ Acknowledge(s) \/ Reconnect(s)
                               \/ SessionLost(s) \/ Crash(s)
         \/ \E s \in Servers : \E t \in tasks[s] :
               RunMethod(s, t) \/ SendReply(s, t) \/ ResendReply(s, t) \/ SendReplyRaises(s, t)
BY DEF Next, CallerStep, ConsumerStep, ThreadStep, Failure

LEMMA InitWaiter == Init => WaiterInv
BY DEF Init, WaiterInv, WaitersAreOpenCalls

LEMMA NextWaiter == TypeInv /\ WaiterInv /\ [Next]_vars => WaiterInv'
<1> SUFFICES ASSUME TypeInv, WaiterInv, [Next]_vars PROVE WaiterInv'
  OBVIOUS
<1> USE DEF WaiterInv, WaitersAreOpenCalls
<1>type. pc \in [Calls -> {"new", "send", "wait", "done"}]
         /\ outcome \in [Calls -> Outcomes]
  BY DEF TypeInv
<1>1. ASSUME NEW c \in Calls, Multicall(c) PROVE WaiterInv'
  BY <1>type, <1>1 DEF Multicall
<1>2. ASSUME NEW c \in Calls, TopicSend(c) PROVE WaiterInv'
  BY <1>type, <1>2 DEF TopicSend
<1>3. ASSUME NEW c \in Calls, TopicSendRaises(c) PROVE WaiterInv'
  BY <1>type, <1>3 DEF TopicSendRaises
<1>4. ASSUME NEW c \in Calls, NEW o \in Outcomes \ {"unsent"}, pc[c] = "wait", End(c, o)
      PROVE  WaiterInv'
  BY <1>type, <1>4 DEF End
<1>5. ASSUME NEW c \in Calls, Hear(c) PROVE WaiterInv'
  <2> DEFINE r == Head(inbox[c])
  <2>1. CASE HearDuplicate(c, r)
    BY <1>4, <1>5, <2>1 DEF Hear, HearDuplicate, Outcomes
  <2>2. CASE HearResult(c, r)
    BY <2>2 DEF HearResult
  <2>3. CASE HearEnd(c, r)
    BY <1>4, <1>5, <2>3 DEF Hear, HearEnd, Outcomes
  <2> QED BY <1>5, <2>1, <2>2, <2>3 DEF Hear
<1>6. ASSUME NEW c \in Calls, GiveUp(c) PROVE WaiterInv'
  BY <1>4, <1>6 DEF GiveUp, Outcomes
<1>7. CASE UNCHANGED callerVars
  BY <1>7 DEF callerVars
<1>8. [Next]_vars =>
        \/ UNCHANGED callerVars
        \/ \E c \in Calls : Multicall(c) \/ TopicSend(c) \/ TopicSendRaises(c)
                           \/ Hear(c) \/ GiveUp(c)
  BY DEF Next, vars, CallerStep, ConsumerStep, ThreadStep, Failure, TopicResend,
         Deliver, DeliverUnacked, ReplySessionLost, ReplyReconnect, Fetch, Callback,
         Acknowledge, Reconnect, SessionLost, Crash, RunMethod, SendReply,
         ResendReply, SendReplyRaises
<1> QED BY <1>1, <1>2, <1>3, <1>5, <1>6, <1>7, <1>8

\* A waiter is in the ReplyProxy's table exactly while its call is open, or if
\* the send raised (amqp.py:527-530).
THEOREM WaitersAccounted == Spec => []WaitersAreOpenCalls
<1>1. TypeInv /\ WaiterInv /\ [Next]_vars => (TypeInv /\ WaiterInv)'
  BY NextType, NextWaiter
<1>2. WaiterInv => WaitersAreOpenCalls
  BY DEF WaiterInv
<1> QED BY InitType, InitWaiter, <1>1, <1>2, PTL DEF Spec
-----------------------------------------------------------------------------
(* Elements of the queues and caches. *)

LEMMA RangeAppend ==
  ASSUME NEW S, NEW q \in Seq(S), NEW e \in S
  PROVE  Range(q) \subseteq Range(Append(q, e)) /\ e \in Range(Append(q, e))
<1>1. \A i \in DOMAIN q : i \in DOMAIN Append(q, e) /\ Append(q, e)[i] = q[i]
  OBVIOUS
<1>2. Len(q) + 1 \in DOMAIN Append(q, e) /\ Append(q, e)[Len(q) + 1] = e
  OBVIOUS
<1> QED BY <1>1, <1>2 DEF Range

LEMMA RangeTail ==
  ASSUME NEW S, NEW q \in Seq(S), q # <<>>
  PROVE  Range(q) \subseteq {Head(q)} \cup Range(Tail(q))
<1> SUFFICES ASSUME NEW i \in 1 .. Len(q)
             PROVE  q[i] \in {Head(q)} \cup Range(Tail(q))
  BY DEF Range
<1>1. CASE i = 1
  BY <1>1
<1>2. CASE i # 1
  <2>1. i - 1 \in DOMAIN Tail(q) /\ Tail(q)[i - 1] = q[i]
    BY <1>2
  <2> QED BY <2>1 DEF Range
<1> QED BY <1>1, <1>2

LEMMA RangePutBack ==
  ASSUME NEW S, NEW q \in Seq(S), NEW e \in S
  PROVE  Range(q) \subseteq Range(<<e>> \o q) /\ e \in Range(<<e>> \o q)
<1> DEFINE p == <<e>> \o q
<1>1. 1 \in DOMAIN p /\ p[1] = e
  OBVIOUS
<1>2. \A i \in DOMAIN q : i + 1 \in DOMAIN p /\ p[i + 1] = q[i]
  OBVIOUS
<1>3. Range(q) \subseteq Range(p) /\ e \in Range(p)
  <2> HIDE DEF p
  <2> QED BY <1>1, <1>2 DEF Range
<1> QED BY <1>3

\* A cache holds nothing but what was put into it.
LEMMA RememberRange ==
  ASSUME NEW S, NEW q \in Seq(S), NEW e \in S, NEW i \in DOMAIN Remember(q, e)
  PROVE  Remember(q, e)[i] = e \/ \E j \in DOMAIN q : Remember(q, e)[i] = q[j]
<1> DEFINE p == IF Len(q) < DupMsgCheckSize THEN q ELSE Tail(q)
<1>1. q = <<>> => p = q
  BY DEF RpcAssumption
<1>2. p \in Seq(S) /\ \A k \in DOMAIN p : \E j \in DOMAIN q : p[k] = q[j]
  <2>1. CASE p = q
    BY <2>1
  <2>2. CASE p # q
    <3>1. q # <<>> /\ p = Tail(q)
      BY <1>1, <2>2
    <3>2. \A k \in DOMAIN p : k + 1 \in DOMAIN q /\ p[k] = q[k + 1]
      BY <3>1
    <3> QED BY <3>1, <3>2
  <2> QED BY <2>1, <2>2
<1>3. Remember(q, e) = Append(p, e)
  BY DEF Remember
<1> HIDE DEF p
<1>4. i \in DOMAIN p \/ i = Len(p) + 1
  BY <1>2, <1>3
<1>5. i \in DOMAIN p => Remember(q, e)[i] = p[i]
  BY <1>2, <1>3
<1>6. i = Len(p) + 1 => Remember(q, e)[i] = e
  BY <1>2, <1>3
<1> QED BY <1>2, <1>4, <1>5, <1>6

\* What has been taken up stays taken up.
LEMMA RunsStay ==
  ASSUME TypeInv, [Next]_vars, NEW c \in Calls, runs[c] # <<>>
  PROVE  runs'[c] # <<>>
<1>1. CASE UNCHANGED runs
  BY <1>1
<1>2. ASSUME NEW s \in Servers, SpawnMethod(s), hand[s] \in Calls PROVE runs'[c] # <<>>
  <2>1. runs[hand[s]] \in Seq(RunStates) /\ "pending" \in RunStates
    BY <1>2 DEF TypeInv, RunStates
  <2>2. Append(runs[hand[s]], "pending") # <<>>
    BY <2>1, AppendNotEmpty
  <2> QED BY <1>2, <2>2 DEF SpawnMethod, TypeInv
<1>3. ASSUME NEW s \in Servers, NEW t \in tasks[s], RunMethod(s, t) PROVE runs'[c] # <<>>
  <2>1. t.call \in Calls
    BY DEF TypeInv, Task
  <2>2. PICK o \in RunStates : runs' = [runs EXCEPT ![t.call] = [runs[t.call] EXCEPT ![t.run] = o]]
    BY <1>3 DEF RunMethod, RunStates
  <2>3. CASE t.call = c
    <3>1. runs[c] \in Seq(RunStates) /\ Len(runs[c]) # 0
      BY DEF TypeInv
    <3>2. Len([runs[c] EXCEPT ![t.run] = o]) # 0
      BY <3>1, SeqExcept
    <3>3. runs'[c] = [runs[c] EXCEPT ![t.run] = o]
      BY <2>2, <2>3 DEF TypeInv
    <3>4. Len(<<>>) = 0
      OBVIOUS
    <3> QED BY <3>2, <3>3, <3>4, Zenon
  <2>4. CASE t.call # c
    BY <2>2, <2>4 DEF TypeInv
  <2> QED BY <2>3, <2>4
<1>4. \/ UNCHANGED runs
      \/ \E s \in Servers : SpawnMethod(s) /\ stage[s] = "callback"
      \/ \E s \in Servers : \E t \in tasks[s] : RunMethod(s, t)
  BY DEF Next, vars, callerVars, topicVars, engineVars, replyVars, CallerStep,
         ConsumerStep, ThreadStep, Failure, Multicall, TopicSend, TopicSendRaises,
         TopicResend, Hear, GiveUp, Deliver, DeliverUnacked, ReplySessionLost,
         ReplyReconnect, Fetch, Callback, SkipDuplicate, Acknowledge, Reconnect,
         SessionLost, Crash, SendReply, ResendReply, SendReplyRaises
<1>5. \A s \in Servers : stage[s] = "callback" => hand[s] \in Calls
  BY DEF TypeInv
<1> QED BY <1>1, <1>2, <1>3, <1>4, <1>5
-----------------------------------------------------------------------------
(* No request is lost as long as the topic's queue stays. *)

\* Where a request can be once it has been published.
Kept(c) == \/ c \in Range(queue)
           \/ \E s \in Servers : unacked[s] = c
           \/ runs[c] # <<>>

LEMMA InitHold == Init => HoldInv
BY DEF Init, HoldInv, SessionInv, NoRequestLost

\* Sessions: nothing but an engine's own steps disturbs them.
LEMMA SessionStays ==
  ASSUME TypeInv, [Next]_vars, NEW s \in Servers, SessionInv(s),
         hand'[s] = hand[s] /\ stage'[s] = stage[s] /\ prevMsgids'[s] = prevMsgids[s],
         unacked'[s] \in {unacked[s], None}
  PROVE  SessionInv(s)'
<1>1. unacked'[s] \in {hand'[s], None}
  BY DEF SessionInv
<1>2. stage'[s] = "acknowledge" => runs'[hand'[s]] # <<>>
  <2> SUFFICES ASSUME stage[s] = "acknowledge" PROVE runs'[hand[s]] # <<>>
    OBVIOUS
  <2>1. hand[s] \in Calls /\ runs[hand[s]] # <<>>
    BY DEF SessionInv, TypeInv
  <2> QED BY <2>1, RunsStay
<1>3. ASSUME NEW i \in DOMAIN prevMsgids'[s] PROVE runs'[prevMsgids'[s][i]] # <<>>
  <2>1. prevMsgids[s][i] \in Calls /\ runs[prevMsgids[s][i]] # <<>>
    BY <1>3 DEF SessionInv, TypeInv
  <2> QED BY <2>1, RunsStay
<1> QED BY <1>1, <1>2, <1>3 DEF SessionInv

LEMMA NextSessions ==
  ASSUME TypeInv, [Next]_vars, NEW s \in Servers, SessionInv(s)
  PROVE  SessionInv(s)'
<1>1. CASE UNCHANGED <<hand, stage, prevMsgids, unacked>>
  BY <1>1, SessionStays
<1>2. ASSUME NEW z \in Servers, z # s,
             Fetch(z) \/ Callback(z) \/ Acknowledge(z) \/ SessionLost(z) \/ Crash(z)
      PROVE  SessionInv(s)'
  <2>1. /\ hand'[s] = hand[s] /\ stage'[s] = stage[s] /\ prevMsgids'[s] = prevMsgids[s]
        /\ unacked'[s] = unacked[s]
    BY <1>2 DEF Fetch, Callback, SkipDuplicate, SpawnMethod, Acknowledge, SessionLost,
                Crash, Detach, topicVars, engineVars, TypeInv
  <2> QED BY <2>1, SessionStays
<1>3. CASE Fetch(s)
  <2>1. \A i \in DOMAIN prevMsgids[s] : prevMsgids[s][i] \in Calls
    BY DEF TypeInv
  <2> QED BY <1>3, <2>1 DEF Fetch, SessionInv, TypeInv
<1>4. CASE Callback(s)
  <2>1. hand[s] \in Calls /\ runs[hand[s]] \in Seq(RunStates) /\ prevMsgids[s] \in Seq(Calls)
    BY <1>4 DEF Callback, TypeInv
  <2>2. /\ hand' = hand /\ unacked' = unacked
        /\ stage' = [stage EXCEPT ![s] = "acknowledge"]
    BY <1>4 DEF Callback, topicVars
  <2>3. CASE SkipDuplicate(s)
    <3>1. PICK i \in DOMAIN prevMsgids[s] : prevMsgids[s][i] = hand[s]
      BY <2>1, <2>3 DEF SkipDuplicate, Duplicate, Contains
    <3>2. runs[hand[s]] # <<>>
      BY <3>1 DEF SessionInv
    <3> QED BY <2>2, <2>3, <3>2 DEF SkipDuplicate, SessionInv, TypeInv
  <2>4. CASE SpawnMethod(s)
    <3>1. "pending" \in RunStates /\ Append(runs[hand[s]], "pending") # <<>>
      BY <2>1, AppendNotEmpty DEF RunStates
    <3>2. runs'[hand[s]] # <<>>
      BY <2>1, <2>4, <3>1 DEF SpawnMethod, TypeInv
    <3>3. prevMsgids'[s] = Remember(prevMsgids[s], hand[s])
      BY <2>4 DEF SpawnMethod, TypeInv
    <3>4. ASSUME NEW i \in DOMAIN prevMsgids'[s] PROVE runs'[prevMsgids'[s][i]] # <<>>
      <4>1. CASE prevMsgids'[s][i] = hand[s]
        BY <3>2, <4>1
      <4>2. ASSUME NEW j \in DOMAIN prevMsgids[s], prevMsgids'[s][i] = prevMsgids[s][j]
            PROVE  runs'[prevMsgids'[s][i]] # <<>>
        <5>1. prevMsgids[s][j] \in Calls /\ runs[prevMsgids[s][j]] # <<>>
          BY <2>1, <4>2 DEF SessionInv
        <5> QED BY <4>2, <5>1, RunsStay
      <4> QED BY <2>1, <3>3, <3>4, <4>1, <4>2, RememberRange
    <3> QED BY <2>2, <3>2, <3>4 DEF SessionInv
  <2> QED BY <1>4, <2>3, <2>4 DEF Callback
<1>5. CASE Acknowledge(s)
  BY <1>5 DEF Acknowledge, SessionInv, TypeInv
<1>6. CASE SessionLost(s)
  <2>1. hand' = hand /\ stage' = stage /\ prevMsgids' = prevMsgids /\ unacked'[s] = None
    BY <1>6 DEF SessionLost, Detach, engineVars, TypeInv
  <2> QED BY <2>1, SessionStays
<1>7. CASE Crash(s)
  BY <1>7 DEF Crash, Detach, SessionInv, TypeInv
<1>8. \/ UNCHANGED <<hand, stage, prevMsgids, unacked>>
      \/ \E z \in Servers : Fetch(z) \/ Callback(z) \/ Acknowledge(z) \/ SessionLost(z)
                            \/ Crash(z)
  BY DEF Next, vars, callerVars, topicVars, engineVars, replyVars, CallerStep,
         ConsumerStep, ThreadStep, Failure, Multicall, TopicSend, TopicSendRaises,
         TopicResend, Publish, Hear, GiveUp, Deliver, DeliverUnacked, ReplySessionLost,
         ReplyReconnect, Reconnect, RunMethod, SendReply, ResendReply, SendReplyRaises
<1> QED BY <1>1, <1>2, <1>3, <1>4, <1>5, <1>6, <1>7, <1>8

\* A published request moves from the queue to a session, back, or to a run.
LEMMA KeptStays ==
  ASSUME TypeInv, [Next]_vars, HoldInv, "unbind" \notin Faults, NEW c \in Calls, Kept(c)
  PROVE  Kept(c)'
<1>queue. queue \in Seq(Calls) /\ unacked \in [Servers -> Calls \cup {None}]
  BY DEF TypeInv
<1>1. CASE runs[c] # <<>>
  BY <1>1, RunsStay DEF Kept
<1>2. CASE queue' = queue /\ unacked' = unacked /\ runs[c] = <<>>
  BY <1>2 DEF Kept
<1>3. ASSUME NEW d \in Calls, Publish(d), runs[c] = <<>> PROVE Kept(c)'
  <2>1. unacked' = unacked /\ queue' = Append(queue, d)
    BY <1>3 DEF Publish, HoldInv
  <2>2. Range(queue) \subseteq Range(queue')
    BY <1>queue, <2>1, RangeAppend
  <2> QED BY <1>3, <2>1, <2>2 DEF Kept
<1>4. ASSUME NEW s \in Servers, Fetch(s), runs[c] = <<>> PROVE Kept(c)'
  <2>1. unacked[s] = None
    BY <1>4 DEF Fetch, HoldInv, SessionInv, TypeInv
  <2>2. queue # <<>> /\ queue' = Tail(queue)
        /\ unacked' = [unacked EXCEPT ![s] = Head(queue)]
    BY <1>4 DEF Fetch
  <2>3. CASE c \in Range(queue)
    <3>1. c = Head(queue) \/ c \in Range(queue')
      BY <1>queue, <2>2, <2>3, RangeTail
    <3>2. c = Head(queue) => unacked'[s] = c
      BY <1>queue, <2>2
    <3> QED BY <3>1, <3>2 DEF Kept
  <2>4. ASSUME NEW z \in Servers, unacked[z] = c PROVE Kept(c)'
    <3>1. z # s
      BY <2>1, <2>4 DEF RpcAssumption
    <3>2. unacked'[z] = c
      BY <1>queue, <2>2, <2>4, <3>1
    <3> QED BY <3>2 DEF Kept
  <2> QED BY <1>4, <2>3, <2>4 DEF Kept
<1>5. ASSUME NEW s \in Servers, Acknowledge(s), runs[c] = <<>> PROVE Kept(c)'
  <2>1. queue' = queue /\ unacked' = [unacked EXCEPT ![s] = None]
    BY <1>5 DEF Acknowledge
  <2>2. unacked[s] # c
    <3>1. unacked[s] \in {hand[s], None} /\ runs[hand[s]] # <<>>
      BY <1>5 DEF Acknowledge, HoldInv, SessionInv
    <3> QED BY <1>5, <3>1 DEF RpcAssumption
  <2> QED BY <1>queue, <1>5, <2>1, <2>2 DEF Kept
<1>6. ASSUME NEW s \in Servers, Detach(s), runs[c] = <<>> PROVE Kept(c)'
  <2>1. /\ unacked' = [unacked EXCEPT ![s] = None]
        /\ queue' = (IF unacked[s] = None THEN <<>> ELSE <<unacked[s]>>) \o queue
    BY <1>6 DEF Detach
  <2>2. Range(queue) \subseteq Range(queue') /\ (unacked[s] = c => c \in Range(queue'))
    <3>1. CASE unacked[s] = None
      <4>1. queue' = queue
        BY <1>queue, <2>1, <3>1
      <4> QED BY <3>1, <4>1 DEF RpcAssumption
    <3>2. CASE unacked[s] # None
      <4>1. unacked[s] \in Calls /\ queue' = <<unacked[s]>> \o queue
        BY <1>queue, <2>1, <3>2
      <4> QED BY <1>queue, <4>1, RangePutBack
    <3> QED BY <3>1, <3>2
  <2>3. \A z \in Servers : z # s => unacked'[z] = unacked[z]
    BY <1>queue, <2>1
  <2> QED BY <1>6, <2>2, <2>3 DEF Kept
<1>7. \/ queue' = queue /\ unacked' = unacked
      \/ \E d \in Calls : Publish(d)
      \/ \E s \in Servers : Fetch(s) \/ Acknowledge(s) \/ Detach(s)
  BY DEF Next, vars, callerVars, topicVars, engineVars, replyVars, CallerStep,
         ConsumerStep, ThreadStep, Failure, Multicall, TopicSend, TopicSendRaises,
         TopicResend, Hear, GiveUp, Deliver, DeliverUnacked, ReplySessionLost,
         ReplyReconnect, Callback, Reconnect, SessionLost, Crash, RunMethod, SendReply,
         ResendReply, SendReplyRaises
<1> QED BY <1>1, <1>2, <1>3, <1>4, <1>5, <1>6, <1>7

\* A call is published when it starts to wait.
LEMMA PublishedWhenWaiting ==
  ASSUME TypeInv, [Next]_vars, HoldInv, NEW c \in Calls, pc'[c] \in {"wait", "done"}
  PROVE  pc[c] \in {"wait", "done"} \/ c \in Range(queue')
<1>1. CASE UNCHANGED pc
  BY <1>1
<1>2. ASSUME NEW d \in Calls, TopicSend(d) \/ TopicSendRaises(d)
      PROVE  pc[c] \in {"wait", "done"} \/ c \in Range(queue')
  <2>1. d # c => pc'[c] = pc[c]
    BY <1>2 DEF TopicSend, TopicSendRaises, TypeInv
  <2>2. queue' = Append(queue, d) /\ queue \in Seq(Calls)
    BY <1>2 DEF TopicSend, TopicSendRaises, Publish, HoldInv, TypeInv
  <2>3. d \in Range(queue')
    BY <2>2, RangeAppend
  <2> QED BY <2>1, <2>3
<1>3. ASSUME NEW d \in Calls, Multicall(d) PROVE pc[c] \in {"wait", "done"}
  BY <1>3 DEF Multicall, TypeInv
<1>4. ASSUME NEW d \in Calls, Hear(d) \/ GiveUp(d) PROVE pc[c] \in {"wait", "done"}
  BY <1>4 DEF Hear, GiveUp, HearDuplicate, HearResult, HearEnd, End, TypeInv
<1>5. \/ UNCHANGED pc
      \/ \E d \in Calls : TopicSend(d) \/ TopicSendRaises(d) \/ Multicall(d)
                         \/ Hear(d) \/ GiveUp(d)
  BY DEF Next, vars, callerVars, CallerStep, ConsumerStep, ThreadStep, Failure,
         TopicResend, Deliver, DeliverUnacked, ReplySessionLost, ReplyReconnect,
         Fetch, Callback, Acknowledge, Reconnect, SessionLost, Crash, RunMethod,
         SendReply, ResendReply, SendReplyRaises
<1> QED BY <1>1, <1>2, <1>3, <1>4, <1>5

LEMMA NextHold ==
  ASSUME "unbind" \notin Faults
  PROVE  TypeInv /\ HoldInv /\ [Next]_vars => HoldInv'
<1> SUFFICES ASSUME TypeInv, HoldInv, [Next]_vars PROVE HoldInv'
  OBVIOUS
<1>1. bound' = TRUE
  BY DEF HoldInv, Next, vars, callerVars, topicVars, engineVars, replyVars, CallerStep,
         ConsumerStep, ThreadStep, Failure, Multicall, TopicSend, TopicSendRaises,
         TopicResend, Publish, Hear, GiveUp, Deliver, DeliverUnacked, ReplySessionLost,
         ReplyReconnect, Fetch, Callback, Acknowledge, Reconnect, SessionLost, Crash,
         Detach, RunMethod, SendReply, ResendReply, SendReplyRaises
<1>2. \A s \in Servers : SessionInv(s)'
  BY NextSessions DEF HoldInv
<1>3. ASSUME NEW c \in Calls, pc'[c] \in {"wait", "done"} PROVE Kept(c)'
  <2>1. CASE pc[c] \in {"wait", "done"}
    <3>1. Kept(c)
      BY <2>1 DEF HoldInv, NoRequestLost, Kept
    <3> QED BY <3>1, KeptStays
  <2>2. CASE c \in Range(queue')
    BY <2>2 DEF Kept
  <2> QED BY <1>3, <2>1, <2>2, PublishedWhenWaiting
<1>4. NoRequestLost'
  BY <1>3 DEF NoRequestLost, Kept
<1> QED BY <1>1, <1>2, <1>4 DEF HoldInv

\* While the topic's queue is kept, a published request is in it, unacknowledged,
\* or taken up, whatever sessions are lost and engines die (the acknowledgement
\* after the callback, impl_qpid.py:145-155).
THEOREM RequestsKept ==
  ASSUME "unbind" \notin Faults
  PROVE  Spec => []NoRequestLost
<1>1. TypeInv /\ HoldInv /\ [Next]_vars => (TypeInv /\ HoldInv)'
  BY NextType, NextHold
<1>2. HoldInv => NoRequestLost
  BY DEF HoldInv
<1> QED BY InitType, InitHold, <1>1, <1>2, PTL DEF Spec
-----------------------------------------------------------------------------
(* A caller is told the truth, as long as no reset raises. *)

LEMMA InitTruth == Init => TruthInv
BY DEF Init, TruthInv, RunsApart, GotTrue, ToldTheTruth

\* What a step does to the threads and to the runs.
TaskSteps ==
    \/ UNCHANGED runs /\ \A z \in Servers : tasks'[z] \subseteq tasks[z]
    \/ \E s \in Servers : SpawnMethod(s) /\ hand[s] \in Calls
    \/ \E s \in Servers : \E t \in tasks[s] :
          \/ RunMethod(s, t)
          \/ UNCHANGED runs /\ t.at = "result" /\ MoveTo(s, t, "ending")

LEMMA NextTasks ==
  ASSUME TypeInv, [Next]_vars, "reset" \notin Faults
  PROVE  TaskSteps
<1>1. CASE UNCHANGED <<tasks, runs>>
  BY <1>1 DEF TaskSteps
<1>2. ASSUME NEW s \in Servers, Callback(s) PROVE TaskSteps
  BY <1>2 DEF Callback, SkipDuplicate, TypeInv, TaskSteps
<1>3. ASSUME NEW s \in Servers, Crash(s) PROVE TaskSteps
  BY <1>3 DEF Crash, TypeInv, TaskSteps
<1>4. ASSUME NEW s \in Servers, NEW t \in tasks[s], RunMethod(s, t) PROVE TaskSteps
  BY <1>4 DEF TaskSteps
<1>5. ASSUME NEW s \in Servers, NEW t \in tasks[s], SendReply(s, t) PROVE TaskSteps
  <2>1. UNCHANGED runs
    BY <1>5 DEF SendReply
  <2>2. CASE t.at = "result"
    BY <1>5, <2>1, <2>2 DEF SendReply, TaskSteps
  <2>3. CASE t.at # "result"
    <3>1. tasks' = [tasks EXCEPT ![s] = @ \ {t}]
      BY <1>5, <2>3 DEF SendReply, Finish
    <3>2. \A z \in Servers : tasks'[z] \subseteq tasks[z]
      BY <3>1 DEF TypeInv
    <3> QED BY <2>1, <3>2 DEF TaskSteps
  <2> QED BY <2>2, <2>3
<1>6. \/ UNCHANGED <<tasks, runs>>
      \/ \E s \in Servers : Callback(s) \/ Crash(s)
      \/ \E s \in Servers : \E t \in tasks[s] : RunMethod(s, t) \/ SendReply(s, t)
  BY DEF Next, vars, callerVars, topicVars, engineVars, replyVars, CallerStep,
         ConsumerStep, ThreadStep, Failure, Multicall, TopicSend, TopicSendRaises,
         TopicResend, Hear, GiveUp, Deliver, DeliverUnacked, ReplySessionLost,
         ReplyReconnect, Fetch, Acknowledge, Reconnect, SessionLost, ResendReply,
         SendReplyRaises, Fault
<1> QED BY <1>1, <1>2, <1>3, <1>4, <1>5, <1>6

\* A thread that executes its method: the run was pending and is decided.
LEMMA RunMethodRuns ==
  ASSUME TypeInv, NEW s \in Servers, NEW t \in tasks[s], RunMethod(s, t),
         TaskTrue(t)
  PROVE  /\ t.call \in Calls /\ t.run \in DOMAIN runs[t.call]
         /\ runs[t.call][t.run] = "pending"
         /\ \/ runs'[t.call][t.run] = "ok" /\ MoveTo(s, t, "result")
            \/ runs'[t.call][t.run] = "raised" /\ MoveTo(s, t, "failure")
         /\ \A c \in Calls : /\ DOMAIN runs'[c] = DOMAIN runs[c]
                             /\ \A n \in DOMAIN runs[c] :
                                  ~(c = t.call /\ n = t.run) => runs'[c][n] = runs[c][n]
<1>1. t.call \in Calls /\ t.at = "run"
  BY DEF TypeInv, Task, RunMethod
<1>2. t.run \in DOMAIN runs[t.call] /\ runs[t.call][t.run] = "pending"
  BY <1>1 DEF TaskTrue, Says
<1>3. PICK o \in {"ok", "raised"} :
        /\ runs' = [runs EXCEPT ![t.call] = [runs[t.call] EXCEPT ![t.run] = o]]
        /\ MoveTo(s, t, IF o = "ok" THEN "result" ELSE "failure")
  BY DEF RunMethod
<1>4. runs'[t.call] = [runs[t.call] EXCEPT ![t.run] = o]
      /\ \A c \in Calls : c # t.call => runs'[c] = runs[c]
  BY <1>1, <1>3 DEF TypeInv
<1>5. runs[t.call] \in Seq(RunStates)
  BY <1>1 DEF TypeInv
<1>6. /\ DOMAIN runs'[t.call] = DOMAIN runs[t.call]
      /\ runs'[t.call][t.run] = o
      /\ \A n \in DOMAIN runs[t.call] : n # t.run => runs'[t.call][n] = runs[t.call][n]
  BY <1>2, <1>4, <1>5
<1>7. \A c \in Calls : /\ DOMAIN runs'[c] = DOMAIN runs[c]
                      /\ \A n \in DOMAIN runs[c] :
                           ~(c = t.call /\ n = t.run) => runs'[c][n] = runs[c][n]
  BY <1>4, <1>6
<1> QED BY <1>1, <1>2, <1>3, <1>6, <1>7

\* A new thread: its run is the next of its call, and pending.
LEMMA SpawnMethodRuns ==
  ASSUME TypeInv, NEW s \in Servers, SpawnMethod(s), hand[s] \in Calls
  PROVE  LET c == hand[s] IN
         /\ DOMAIN runs'[c] = DOMAIN runs[c] \cup {Len(runs[c]) + 1}
         /\ Len(runs[c]) + 1 \notin DOMAIN runs[c]
         /\ runs'[c][Len(runs[c]) + 1] = "pending"
         /\ \A n \in DOMAIN runs[c] : runs'[c][n] = runs[c][n]
         /\ \A d \in Calls : d # c => runs'[d] = runs[d]
         /\ tasks'[s] = tasks[s] \cup {[call |-> c, run |-> Len(runs[c]) + 1, at |-> "run"]}
         /\ \A z \in Servers : z # s => tasks'[z] = tasks[z]
<1> DEFINE c == hand[s]
<1>1. runs[c] \in Seq(RunStates) /\ "pending" \in RunStates
  BY DEF TypeInv, RunStates
<1>2. runs'[c] = Append(runs[c], "pending") /\ \A d \in Calls : d # c => runs'[d] = runs[d]
  BY DEF SpawnMethod, TypeInv
<1>3. /\ tasks'[s] = tasks[s] \cup {[call |-> c, run |-> Len(runs[c]) + 1, at |-> "run"]}
      /\ \A z \in Servers : z # s => tasks'[z] = tasks[z]
  BY DEF SpawnMethod, TypeInv
<1>4. /\ DOMAIN Append(runs[c], "pending") = DOMAIN runs[c] \cup {Len(runs[c]) + 1}
      /\ Len(runs[c]) + 1 \notin DOMAIN runs[c]
      /\ Append(runs[c], "pending")[Len(runs[c]) + 1] = "pending"
      /\ \A n \in DOMAIN runs[c] : Append(runs[c], "pending")[n] = runs[c][n]
  BY <1>1
<1> QED BY <1>2, <1>3, <1>4

\* What a run has come to is never taken back.
LEMMA DecidedStays ==
  ASSUME TypeInv, TruthInv, TaskSteps, NEW c \in Calls, NEW n \in DOMAIN runs[c],
         runs[c][n] # "pending"
  PROVE  n \in DOMAIN runs'[c] /\ runs'[c][n] = runs[c][n]
<1>1. CASE UNCHANGED runs
  BY <1>1
<1>2. ASSUME NEW s \in Servers, SpawnMethod(s), hand[s] \in Calls
      PROVE  n \in DOMAIN runs'[c] /\ runs'[c][n] = runs[c][n]
  BY <1>2, SpawnMethodRuns
<1>3. ASSUME NEW s \in Servers, NEW t \in tasks[s], RunMethod(s, t)
      PROVE  n \in DOMAIN runs'[c] /\ runs'[c][n] = runs[c][n]
  <2>1. TaskTrue(t)
    BY DEF TruthInv
  <2> QED BY <1>3, <2>1, RunMethodRuns
<1> QED BY <1>1, <1>2, <1>3 DEF TaskSteps

\* What a reply says stays true.
LEMMA ReplyStaysTrue ==
  ASSUME TypeInv, TruthInv, TaskSteps, NEW r \in Reply, ReplyTrue(r)
  PROVE  ReplyTrue(r)'
<1>1. r.call \in Calls /\ r.run \in DOMAIN runs[r.call]
      /\ runs[r.call][r.run] = (IF r.kind = "failure" THEN "raised" ELSE "ok")
  BY DEF Reply, Kinds, ReplyTrue, Says
<1>2. r.run \in DOMAIN runs'[r.call] /\ runs'[r.call][r.run] = runs[r.call][r.run]
  BY <1>1, DecidedStays
<1> QED BY <1>1, <1>2 DEF Reply, Kinds, ReplyTrue, Says

\* A thread that goes on, and one whose reply is next.
LEMMA MoveToTasks ==
  ASSUME TypeInv, NEW s \in Servers, NEW t \in tasks[s], NEW at, MoveTo(s, t, at)
  PROVE  LET u == [t EXCEPT !.at = at] IN
         /\ u.call = t.call /\ u.run = t.run /\ u.at = at
         /\ tasks'[s] = (tasks[s] \ {t}) \cup {u}
         /\ \A z \in Servers : z # s => tasks'[z] = tasks[z]
<1>1. t \in Task
  BY DEF TypeInv
<1> QED BY <1>1 DEF MoveTo, TypeInv, Task

LEMMA TaskStaysTrue ==
  ASSUME TypeInv, TruthInv, TaskSteps,
         NEW z \in Servers, NEW u \in tasks[z], u \in tasks'[z]
  PROVE  TaskTrue(u)'
<1>1. u \in Task /\ u.call \in Calls /\ TaskTrue(u)
  BY DEF TypeInv, Task, TruthInv
<1>2. u.run \in DOMAIN runs[u.call]
      /\ runs[u.call][u.run] = (CASE u.at = "failure" -> "raised"
                                 [] u.at \in {"result", "ending"} -> "ok"
                                 [] OTHER -> "pending")
  BY <1>1 DEF TaskTrue, Says
<1>3. SUFFICES u.run \in DOMAIN runs'[u.call] /\ runs'[u.call][u.run] = runs[u.call][u.run]
  BY <1>2 DEF TaskTrue, Says
<1>4. CASE runs[u.call][u.run] # "pending"
  BY <1>1, <1>2, <1>4, DecidedStays
<1>5. CASE runs[u.call][u.run] = "pending"
  <2>1. CASE UNCHANGED runs
    BY <1>2, <2>1
  <2>2. ASSUME NEW s \in Servers, SpawnMethod(s), hand[s] \in Calls
        PROVE  u.run \in DOMAIN runs'[u.call] /\ runs'[u.call][u.run] = runs[u.call][u.run]
    <3>1. /\ \A n \in DOMAIN runs[hand[s]] : runs'[hand[s]][n] = runs[hand[s]][n]
          /\ DOMAIN runs[hand[s]] \subseteq DOMAIN runs'[hand[s]]
          /\ \A d \in Calls : d # hand[s] => runs'[d] = runs[d]
      BY <2>2, SpawnMethodRuns
    <3> QED BY <1>1, <1>2, <3>1
  <2>3. ASSUME NEW s \in Servers, NEW t \in tasks[s], RunMethod(s, t)
        PROVE  u.run \in DOMAIN runs'[u.call] /\ runs'[u.call][u.run] = runs[u.call][u.run]
    <3>1. TaskTrue(t)
      BY DEF TruthInv
    <3>2. ~(u.call = t.call /\ u.run = t.run)
      <4>1. SUFFICES ASSUME u.call = t.call, u.run = t.run PROVE FALSE
        OBVIOUS
      <4>2. z = s /\ u = t
        BY <4>1 DEF TruthInv, RunsApart
      <4>3. \E at \in {"result", "failure"} : MoveTo(s, t, at)
        BY <2>3 DEF RunMethod
      <4>4. PICK at \in {"result", "failure"} :
              tasks'[s] = (tasks[s] \ {t}) \cup {[t EXCEPT !.at = at]}
              /\ [t EXCEPT !.at = at].at = at
        BY <4>3, MoveToTasks
      <4>5. t.at = "run"
        BY <2>3 DEF RunMethod
      <4>6. t \notin tasks'[s]
        BY <4>4, <4>5
      <4> QED BY <4>2, <4>6
    <3> QED BY <1>1, <1>2, <2>3, <3>1, <3>2, RunMethodRuns
  <2> QED BY <2>1, <2>2, <2>3 DEF TaskSteps
<1> QED BY <1>4, <1>5

LEMMA NextTaskTrue ==
  ASSUME TypeInv, TruthInv, TaskSteps, NEW z \in Servers, NEW u \in tasks'[z]
  PROVE  TaskTrue(u)'
<1>1. CASE u \in tasks[z]
  BY <1>1, TaskStaysTrue
<1>2. CASE u \notin tasks[z]
  <2>1. ASSUME NEW s \in Servers, SpawnMethod(s), hand[s] \in Calls PROVE TaskTrue(u)'
    <3> DEFINE new == [call |-> hand[s], run |-> Len(runs[hand[s]]) + 1, at |-> "run"]
    <3>1. u = new
      BY <1>2, <2>1, SpawnMethodRuns
    <3>2. new.run \in DOMAIN runs'[new.call] /\ runs'[new.call][new.run] = "pending"
          /\ new.at = "run"
      BY <2>1, SpawnMethodRuns
    <3> QED BY <3>1, <3>2 DEF TaskTrue, Says
  <2>2. ASSUME NEW s \in Servers, NEW t \in tasks[s], RunMethod(s, t) PROVE TaskTrue(u)'
    <3>1. TaskTrue(t)
      BY DEF TruthInv
    <3>2. /\ t.run \in DOMAIN runs'[t.call]
          /\ \/ runs'[t.call][t.run] = "ok" /\ MoveTo(s, t, "result")
             \/ runs'[t.call][t.run] = "raised" /\ MoveTo(s, t, "failure")
      BY <2>2, <3>1, RunMethodRuns
    <3>3. ASSUME MoveTo(s, t, "result")
          PROVE  u.call = t.call /\ u.run = t.run /\ u.at = "result"
      <4> DEFINE v == [t EXCEPT !.at = "result"]
      <4>1. /\ v.call = t.call /\ v.run = t.run /\ v.at = "result"
            /\ tasks'[s] = (tasks[s] \ {t}) \cup {v}
            /\ \A y \in Servers : y # s => tasks'[y] = tasks[y]
        BY <3>3, MoveToTasks
      <4> HIDE DEF v
      <4> QED BY <1>2, <4>1
    <3>4. ASSUME MoveTo(s, t, "failure")
          PROVE  u.call = t.call /\ u.run = t.run /\ u.at = "failure"
      <4> DEFINE v == [t EXCEPT !.at = "failure"]
      <4>1. /\ v.call = t.call /\ v.run = t.run /\ v.at = "failure"
            /\ tasks'[s] = (tasks[s] \ {t}) \cup {v}
            /\ \A y \in Servers : y # s => tasks'[y] = tasks[y]
        BY <3>4, MoveToTasks
      <4> HIDE DEF v
      <4> QED BY <1>2, <4>1
    <3> QED BY <3>2, <3>3, <3>4 DEF TaskTrue, Says
  <2>3. ASSUME NEW s \in Servers, NEW t \in tasks[s], UNCHANGED runs, t.at = "result",
               MoveTo(s, t, "ending")
        PROVE  TaskTrue(u)'
    <3>1. u.call = t.call /\ u.run = t.run /\ u.at = "ending"
      <4> DEFINE v == [t EXCEPT !.at = "ending"]
      <4>1. /\ v.call = t.call /\ v.run = t.run /\ v.at = "ending"
            /\ tasks'[s] = (tasks[s] \ {t}) \cup {v}
            /\ \A y \in Servers : y # s => tasks'[y] = tasks[y]
        BY <2>3, MoveToTasks
      <4> HIDE DEF v
      <4> QED BY <1>2, <4>1
    <3>2. TaskTrue(t)
      BY DEF TruthInv
    <3> QED BY <2>3, <3>1, <3>2 DEF TaskTrue, Says
  <2> QED BY <1>2, <2>1, <2>2, <2>3 DEF TaskSteps
<1> QED BY <1>1, <1>2

LEMMA MoveToApart ==
  ASSUME TypeInv, RunsApart, NEW s \in Servers, NEW t \in tasks[s], NEW at,
         MoveTo(s, t, at)
  PROVE  RunsApart'
<1> DEFINE v == [t EXCEPT !.at = at]
<1>1. /\ v.call = t.call /\ v.run = t.run
      /\ tasks'[s] = (tasks[s] \ {t}) \cup {v}
      /\ \A z \in Servers : z # s => tasks'[z] = tasks[z]
  BY MoveToTasks
<1> HIDE DEF v
<1> SUFFICES ASSUME NEW y \in Servers, NEW z \in Servers, NEW a \in tasks'[y],
                    NEW b \in tasks'[z], a.call = b.call, a.run = b.run
             PROVE  y = z /\ a = b
  BY DEF RunsApart
<1>2. (a \in tasks[y] /\ ~(y = s /\ a = t)) \/ (y = s /\ a = v)
  BY <1>1
<1>3. (b \in tasks[z] /\ ~(z = s /\ b = t)) \/ (z = s /\ b = v)
  BY <1>1
<1>4. CASE (y = s /\ a = v) /\ (z = s /\ b = v)
  BY <1>4
<1>5. CASE (y = s /\ a = v) /\ b \in tasks[z] /\ ~(z = s /\ b = t)
  <2>1. b.call = t.call /\ b.run = t.run
    BY <1>1, <1>5
  <2> QED BY <1>5, <2>1 DEF RunsApart
<1>6. CASE (z = s /\ b = v) /\ a \in tasks[y] /\ ~(y = s /\ a = t)
  <2>1. a.call = t.call /\ a.run = t.run
    BY <1>1, <1>6
  <2> QED BY <1>6, <2>1 DEF RunsApart
<1>7. CASE a \in tasks[y] /\ b \in tasks[z]
  BY <1>7 DEF RunsApart
<1> QED BY <1>2, <1>3, <1>4, <1>5, <1>6, <1>7

LEMMA NextApart ==
  ASSUME TypeInv, TruthInv, TaskSteps
  PROVE  RunsApart'
<1>1. RunsApart
  BY DEF TruthInv
<1>2. ASSUME \A z \in Servers : tasks'[z] \subseteq tasks[z] PROVE RunsApart'
  <2> SUFFICES ASSUME NEW y \in Servers, NEW z \in Servers, NEW a \in tasks'[y],
                      NEW b \in tasks'[z], a.call = b.call, a.run = b.run
               PROVE  y = z /\ a = b
    BY DEF RunsApart
  <2>1. a \in tasks[y] /\ b \in tasks[z]
    BY <1>2
  <2> QED BY <1>1, <2>1 DEF RunsApart
<1>3. ASSUME NEW s \in Servers, SpawnMethod(s), hand[s] \in Calls PROVE RunsApart'
  <2> DEFINE v == [call |-> hand[s], run |-> Len(runs[hand[s]]) + 1, at |-> "run"]
  <2>1. /\ tasks'[s] = tasks[s] \cup {v}
        /\ \A z \in Servers : z # s => tasks'[z] = tasks[z]
        /\ v.run \notin DOMAIN runs[v.call]
    BY <1>3, SpawnMethodRuns
  <2>2. \A z \in Servers : \A u \in tasks[z] : u.run \in DOMAIN runs[u.call]
    BY DEF TruthInv, TaskTrue, Says
  <2> HIDE DEF v
  <2> SUFFICES ASSUME NEW y \in Servers, NEW z \in Servers, NEW a \in tasks'[y],
                      NEW b \in tasks'[z], a.call = b.call, a.run = b.run
               PROVE  y = z /\ a = b
    BY DEF RunsApart
  <2>3. (a \in tasks[y] \/ (y = s /\ a = v)) /\ (b \in tasks[z] \/ (z = s /\ b = v))
    BY <2>1
  <2>4. \A u : u.call = v.call /\ u.run = v.run => ~\E w \in Servers : u \in tasks[w]
    BY <2>1, <2>2
  <2>5. CASE a \in tasks[y] /\ b \in tasks[z]
    BY <1>1, <2>5 DEF RunsApart
  <2>6. CASE a \in tasks[y] /\ b = v
    BY <2>4, <2>6
  <2>7. CASE b \in tasks[z] /\ a = v
    BY <2>4, <2>7
  <2> QED BY <2>3, <2>5, <2>6, <2>7
<1>4. ASSUME NEW s \in Servers, NEW t \in tasks[s], RunMethod(s, t) PROVE RunsApart'
  <2>1. MoveTo(s, t, "result") \/ MoveTo(s, t, "failure")
    BY <1>4 DEF RunMethod
  <2> QED BY <1>1, <2>1, MoveToApart
<1>5. ASSUME NEW s \in Servers, NEW t \in tasks[s], MoveTo(s, t, "ending") PROVE RunsApart'
  BY <1>1, <1>5, MoveToApart
<1> QED BY <1>2, <1>3, <1>4, <1>5 DEF TaskSteps

\* What a step adds to the reply queue is what a thread was to send.
ReplyOf(t) == [call |-> t.call, run |-> t.run, kind |-> t.at]

LEMMA RepliesFrom ==
  ASSUME TypeInv, [Next]_vars, NEW i \in DOMAIN replies'
  PROVE  \/ \E j \in DOMAIN replies : replies'[i] = replies[j]
         \/ \E s \in Servers : \E t \in tasks[s] : replies'[i] = ReplyOf(t) /\ t.at \in Kinds
<1>1. CASE replies' = replies
  BY <1>1
<1>2. CASE replies' = <<>>
  BY <1>2
<1>3. CASE Deliver
  <2>1. replies \in Seq(Reply) /\ replies # <<>> /\ replies' = Tail(replies)
    BY <1>3 DEF Deliver, TypeInv
  <2>2. i + 1 \in DOMAIN replies /\ replies'[i] = replies[i + 1]
    BY <2>1
  <2> QED BY <2>2
<1>4. ASSUME NEW s \in Servers, NEW t \in tasks[s], DirectSend(t), replies' # replies
      PROVE  \/ \E j \in DOMAIN replies : replies'[i] = replies[j]
             \/ replies'[i] = ReplyOf(t) /\ t.at \in Kinds
  <2>1. t \in Task /\ t.at \in Kinds
    BY <1>4 DEF TypeInv, DirectSend
  <2>2. ReplyOf(t) \in Reply
    BY <2>1 DEF Task, Reply, ReplyOf
  <2>3. replies' = Append(replies, ReplyOf(t)) /\ replies \in Seq(Reply)
    BY <1>4 DEF DirectSend, TypeInv, ReplyOf
  <2>4. (i \in DOMAIN replies /\ replies'[i] = replies[i]) \/ replies'[i] = ReplyOf(t)
    BY <2>2, <2>3
  <2> QED BY <2>1, <2>4
<1>5. \/ replies' = replies \/ replies' = <<>> \/ Deliver
      \/ \E s \in Servers : \E t \in tasks[s] : DirectSend(t)
  BY StepCases DEF vars, callerVars, topicVars, engineVars, replyVars, Multicall, TopicSend,
         TopicSendRaises, TopicResend, Hear, GiveUp, DeliverUnacked, ReplySessionLost,
         ReplyReconnect, Fetch, Callback, Acknowledge, Reconnect, SessionLost, Crash,
         RunMethod, SendReply, ResendReply, SendReplyRaises
<1> QED BY <1>1, <1>2, <1>3, <1>4, <1>5

\* And to a waiter's queue, what was in the reply queue for it.
LEMMA InboxFrom ==
  ASSUME TypeInv, [Next]_vars, NEW c \in Calls, NEW i \in DOMAIN inbox'[c]
  PROVE  \/ \E j \in DOMAIN inbox[c] : inbox'[c][i] = inbox[c][j]
         \/ \E j \in DOMAIN replies : inbox'[c][i] = replies[j] /\ replies[j].call = c
<1>0. inbox[c] \in Seq(Reply) /\ replies \in Seq(Reply)
  BY DEF TypeInv
<1>1. CASE inbox' = inbox
  BY <1>1
<1>2. CASE Route(Head(replies)) /\ replies # <<>>
  <2>1. 1 \in DOMAIN replies /\ Head(replies) = replies[1] /\ replies[1] \in Reply
    BY <1>0, <1>2
  <2>2. replies[1].call \in Calls
    BY <2>1 DEF Reply
  <2>3. \/ inbox'[c] = inbox[c]
        \/ inbox'[c] = Append(inbox[c], replies[1]) /\ replies[1].call = c
    BY <1>2, <2>1, <2>2 DEF Route, TypeInv
  <2>4. inbox'[c] = Append(inbox[c], replies[1]) =>
           (i \in DOMAIN inbox[c] /\ inbox'[c][i] = inbox[c][i]) \/ inbox'[c][i] = replies[1]
    BY <1>0, <2>1
  <2> QED BY <2>1, <2>3, <2>4
<1>3. ASSUME NEW d \in Calls, Hear(d)
      PROVE  \E j \in DOMAIN inbox[c] : inbox'[c][i] = inbox[c][j]
  <2>1. CASE inbox'[c] = inbox[c]
    BY <2>1
  <2>2. CASE inbox[c] # <<>> /\ inbox'[c] = Tail(inbox[c])
    <3>1. i + 1 \in DOMAIN inbox[c] /\ inbox'[c][i] = inbox[c][i + 1]
      BY <1>0, <2>2
    <3> QED BY <3>1
  <2> QED BY <1>3, <2>1, <2>2 DEF Hear, TypeInv
<1>4. inbox' = inbox \/ (Route(Head(replies)) /\ replies # <<>>) \/ \E d \in Calls : Hear(d)
  BY StepCases DEF vars, Multicall, TopicSend, TopicSendRaises, TopicResend, GiveUp, Deliver,
         DeliverUnacked, ReplySessionLost, ReplyReconnect, Fetch, Callback, Acknowledge,
         Reconnect, SessionLost, Crash, RunMethod, SendReply, ResendReply, SendReplyRaises
<1> QED BY <1>1, <1>2, <1>3, <1>4

\* What is in the reply queue is the truth.
LEMMA NextReplies ==
  ASSUME TypeInv, TruthInv, [Next]_vars, TaskSteps, NEW i \in DOMAIN replies'
  PROVE  \E r \in Reply : r = replies'[i] /\ ReplyTrue(r)'
<1>1. ASSUME NEW j \in DOMAIN replies, replies'[i] = replies[j]
      PROVE  \E r \in Reply : r = replies'[i] /\ ReplyTrue(r)'
  <2>1. PICK r \in Reply : r = replies[j] /\ ReplyTrue(r)
    BY DEF TypeInv, TruthInv
  <2> QED BY <1>1, <2>1, ReplyStaysTrue
<1>2. ASSUME NEW s \in Servers, NEW t \in tasks[s], replies'[i] = ReplyOf(t), t.at \in Kinds
      PROVE  \E r \in Reply : r = replies'[i] /\ ReplyTrue(r)'
  <2>1. t \in Task /\ TaskTrue(t)
    BY DEF TypeInv, TruthInv
  <2>2. PICK r \in Reply : r = ReplyOf(t)
    BY <1>2, <2>1 DEF Task, Reply, ReplyOf
  <2>3. ReplyTrue(r)
    BY <1>2, <2>1, <2>2 DEF Kinds, TaskTrue, ReplyTrue, Says, ReplyOf
  <2> QED BY <1>2, <2>2, <2>3, ReplyStaysTrue
<1> QED BY <1>1, <1>2, RepliesFrom

\* What is in a waiter's queue is the truth about its own call.
LEMMA NextInbox ==
  ASSUME TypeInv, TruthInv, [Next]_vars, TaskSteps,
         NEW c \in Calls, NEW i \in DOMAIN inbox'[c]
  PROVE  \E r \in Reply : r = inbox'[c][i] /\ r.call = c /\ ReplyTrue(r)'
<1>1. ASSUME NEW j \in DOMAIN inbox[c], inbox'[c][i] = inbox[c][j]
      PROVE  \E r \in Reply : r = inbox'[c][i] /\ r.call = c /\ ReplyTrue(r)'
  <2>1. PICK r \in Reply : r = inbox[c][j] /\ r.call = c /\ ReplyTrue(r)
    BY DEF TypeInv, TruthInv
  <2> QED BY <1>1, <2>1, ReplyStaysTrue
<1>2. ASSUME NEW j \in DOMAIN replies, inbox'[c][i] = replies[j], replies[j].call = c
      PROVE  \E r \in Reply : r = inbox'[c][i] /\ r.call = c /\ ReplyTrue(r)'
  <2>1. PICK r \in Reply : r = replies[j] /\ ReplyTrue(r)
    BY DEF TypeInv, TruthInv
  <2> QED BY <1>2, <2>1, ReplyStaysTrue
<1> QED BY <1>1, <1>2, InboxFrom

\* What TruthInv says of the caller of c.
Told(c) ==
    /\ GotTrue(c)
    /\ outcome[c] = "result" => got[c] # 0
    /\ outcome[c] = "failure" => \E n \in DOMAIN runs[c] : runs[c][n] = "raised"

LEMMA ToldStays ==
  ASSUME TypeInv, TruthInv, TaskSteps, NEW c \in Calls,
         got'[c] = got[c], outcome'[c] = outcome[c] \/ outcome'[c] \notin {"result", "failure"}
  PROVE  Told(c)'
<1>1. Told(c)
  BY DEF Told, TruthInv, ToldTheTruth
<1>2. GotTrue(c)'
  BY <1>1, DecidedStays DEF Told, GotTrue
<1>3. ASSUME outcome'[c] = "failure"
      PROVE  \E n \in DOMAIN runs'[c] : runs'[c][n] = "raised"
  <2>1. PICK n \in DOMAIN runs[c] : runs[c][n] = "raised"
    BY <1>1, <1>3 DEF Told
  <2>2. n \in DOMAIN runs'[c] /\ runs'[c][n] = "raised"
    BY <2>1, DecidedStays
  <2> QED BY <2>2
<1>4. outcome'[c] = "result" => got'[c] # 0
  BY <1>1 DEF Told
<1> QED BY <1>2, <1>3, <1>4 DEF Told

LEMMA NextTold ==
  ASSUME TypeInv, TruthInv, [Next]_vars, TaskSteps, NEW c \in Calls
  PROVE  Told(c)'
<1>1. CASE UNCHANGED <<got, outcome>>
  BY <1>1, ToldStays
<1>2. ASSUME NEW d \in Calls,
             Hear(d) \/ TopicSendRaises(d) \/ GiveUp(d), d # c
      PROVE  Told(c)'
  <2>1. got'[c] = got[c] /\ outcome'[c] = outcome[c]
    BY <1>2 DEF Hear, HearDuplicate, HearResult, HearEnd, End, TopicSendRaises, GiveUp,
                TypeInv
  <2> QED BY <2>1, ToldStays
<1>3. CASE TopicSendRaises(c) \/ GiveUp(c)
  <2>1. got' = got /\ outcome'[c] \in {"unsent", "timeout"}
    BY <1>3 DEF TopicSendRaises, GiveUp, End, TypeInv
  <2> QED BY <2>1, ToldStays
<1>4. CASE Hear(c)
  <2>1. PICK r : r = Head(inbox[c])
    OBVIOUS
  <2>2. r \in Reply /\ r.call = c /\ ReplyTrue(r) /\ runs' = runs
    <3>1. inbox[c] \in Seq(Reply) /\ 1 \in DOMAIN inbox[c] /\ r = inbox[c][1]
      BY <1>4, <2>1 DEF Hear, TypeInv
    <3> QED BY <1>4, <3>1 DEF Hear, TruthInv, engineVars
  <2>3. CASE HearDuplicate(c, r)
    <3>1. got' = got /\ outcome'[c] = "duplicate"
      BY <2>3 DEF HearDuplicate, End, TypeInv
    <3> QED BY <3>1, ToldStays
  <2>4. CASE HearResult(c, r)
    <3>1. outcome' = outcome /\ got'[c] = r.run
      BY <2>4 DEF HearResult, TypeInv
    <3>2. r.run \in DOMAIN runs[c] /\ runs[c][r.run] = "ok" /\ r.run # 0
      <4>1. runs[c] \in Seq(RunStates) /\ r.kind = "result"
        BY <2>4 DEF HearResult, TypeInv
      <4> QED BY <2>2, <4>1 DEF ReplyTrue, Says
    <3>3. outcome[c] = "failure" => \E n \in DOMAIN runs[c] : runs[c][n] = "raised"
      BY DEF TruthInv, ToldTheTruth
    <3> QED BY <2>2, <3>1, <3>2, <3>3 DEF Told, GotTrue
  <2>5. CASE HearEnd(c, r)
    <3>1. /\ got' = got
          /\ outcome'[c] = (CASE r.kind = "failure" -> "failure"
                             [] r.kind = "ending" /\ got[c] = 0 -> "empty"
                             [] OTHER -> "result")
          /\ r.kind \in {"ending", "failure"}
      BY <2>2, <2>5 DEF HearEnd, End, TypeInv, Reply, Kinds
    <3>2. GotTrue(c)
      BY DEF TruthInv
    <3>3. CASE r.kind = "failure"
      <4>1. r.run \in DOMAIN runs[c] /\ runs[c][r.run] = "raised"
        BY <2>2, <3>3 DEF ReplyTrue, Says
      <4>2. outcome'[c] = "failure"
        BY <3>1, <3>3
      <4> QED BY <2>2, <3>1, <3>2, <4>1, <4>2 DEF Told, GotTrue
    <3>4. CASE r.kind = "ending"
      <4>1. outcome'[c] \in {"empty", "result"} /\ (outcome'[c] = "result" => got[c] # 0)
        BY <3>1, <3>4
      <4> QED BY <2>2, <3>1, <3>2, <4>1 DEF Told, GotTrue
    <3> QED BY <3>1, <3>3, <3>4
  <2> QED BY <1>4, <2>1, <2>3, <2>4, <2>5 DEF Hear
<1>5. \/ UNCHANGED <<got, outcome>>
      \/ \E d \in Calls : Hear(d) \/ TopicSendRaises(d) \/ GiveUp(d)
  BY DEF Next, vars, callerVars, CallerStep, ConsumerStep, ThreadStep, Failure, Multicall,
         TopicSend, TopicResend, Deliver, DeliverUnacked, ReplySessionLost,
         ReplyReconnect, Fetch, Callback, Acknowledge, Reconnect, SessionLost, Crash,
         RunMethod, SendReply, ResendReply, SendReplyRaises
<1> QED BY <1>1, <1>2, <1>3, <1>4, <1>5

LEMMA NextTruth ==
  ASSUME "reset" \notin Faults
  PROVE  TypeInv /\ TruthInv /\ [Next]_vars => TruthInv'
<1> SUFFICES ASSUME TypeInv, TruthInv, [Next]_vars PROVE TruthInv'
  OBVIOUS
<1>1. TaskSteps
  BY NextTasks
<1>2. \A s \in Servers : \A t \in tasks'[s] : TaskTrue(t)'
  BY <1>1, NextTaskTrue
<1>3. RunsApart'
  BY <1>1, NextApart
<1>4. \A i \in DOMAIN replies' : \E r \in Reply : r = replies'[i] /\ ReplyTrue(r)'
  BY <1>1, NextReplies
<1>5. \A c \in Calls : \A i \in DOMAIN inbox'[c] :
        \E r \in Reply : r = inbox'[c][i] /\ r.call = c /\ ReplyTrue(r)'
  BY <1>1, NextInbox
<1>6. \A c \in Calls : Told(c)'
  BY <1>1, NextTold
<1>7. ToldTheTruth'
  BY <1>6 DEF Told, GotTrue, ToldTheTruth
<1>8. \A i \in DOMAIN replies' : ReplyTrue(replies[i])'
  BY <1>4 DEF ReplyTrue, Says
<1>9. \A c \in Calls : \A i \in DOMAIN inbox'[c] :
        inbox'[c][i].call = c /\ ReplyTrue(inbox[c][i])'
  BY <1>5 DEF ReplyTrue, Says
<1> QED BY <1>2, <1>3, <1>6, <1>7, <1>8, <1>9 DEF TruthInv, Told

\* A caller is told a result only when the run it heard of returned, and a
\* failure only when a run raised (amqp.py:412-444, 470-503), whatever is sent
\* or delivered twice, lost, or cut short by an engine's death.
THEOREM CallersToldTheTruth ==
  ASSUME "reset" \notin Faults
  PROVE  Spec => []ToldTheTruth
<1>1. TypeInv /\ TruthInv /\ [Next]_vars => (TypeInv /\ TruthInv)'
  BY NextType, NextTruth
<1>2. TruthInv => ToldTheTruth
  BY DEF TruthInv
<1> QED BY InitType, InitTruth, <1>1, <1>2, PTL DEF Spec
-----------------------------------------------------------------------------
(* Sizes, and what is known of the runs, whatever fails. *)

\* A run that there has been is never forgotten.
LEMMA RunsGrow ==
  ASSUME TypeInv, [Next]_vars, NEW c \in Calls
  PROVE  /\ Len(runs[c]) \in Nat /\ Len(runs'[c]) \in Nat /\ Len(runs[c]) <= Len(runs'[c])
         /\ DOMAIN runs[c] \subseteq DOMAIN runs'[c]
<1>0. runs[c] \in Seq(RunStates) /\ runs'[c] \in Seq(RunStates)
  BY NextType DEF TypeInv
<1>1. CASE UNCHANGED runs
  BY <1>0, <1>1
<1>2. ASSUME NEW s \in Servers, SpawnMethod(s), hand[s] \in Calls
      PROVE  Len(runs[c]) <= Len(runs'[c])
  <2>1. "pending" \in RunStates
    BY DEF RunStates
  <2>2. runs'[c] = (IF c = hand[s] THEN Append(runs[c], "pending") ELSE runs[c])
    BY <1>2 DEF SpawnMethod, TypeInv
  <2>3. Len(Append(runs[c], "pending")) = Len(runs[c]) + 1
    BY <1>0, <2>1
  <2> QED BY <1>0, <2>2, <2>3
<1>3. ASSUME NEW s \in Servers, NEW t \in tasks[s], RunMethod(s, t)
      PROVE  Len(runs[c]) <= Len(runs'[c])
  <2>1. t.call \in Calls
    BY DEF TypeInv, Task
  <2>2. PICK o \in RunStates : runs' = [runs EXCEPT ![t.call] = [runs[t.call] EXCEPT ![t.run] = o]]
    BY <1>3 DEF RunMethod, RunStates
  <2>3. runs'[c] = runs[c] \/ runs'[c] = [runs[c] EXCEPT ![t.run] = o]
    BY <2>1, <2>2 DEF TypeInv
  <2>4. Len([runs[c] EXCEPT ![t.run] = o]) = Len(runs[c])
    BY <1>0, SeqExcept
  <2> QED BY <1>0, <2>3, <2>4
<1>4. \/ UNCHANGED runs
      \/ \E s \in Servers : SpawnMethod(s) /\ stage[s] = "callback"
      \/ \E s \in Servers : \E t \in tasks[s] : RunMethod(s, t)
  BY StepCases DEF vars, callerVars, topicVars, engineVars, replyVars, Multicall, TopicSend,
         TopicSendRaises, TopicResend, Hear, GiveUp, Deliver, DeliverUnacked, ReplySessionLost,
         ReplyReconnect, Fetch, Callback, SkipDuplicate, Acknowledge, Reconnect,
         SessionLost, Crash, SendReply, ResendReply, SendReplyRaises
<1>5. \A s \in Servers : stage[s] = "callback" => hand[s] \in Calls
  BY DEF TypeInv
<1>6. Len(runs[c]) <= Len(runs'[c])
  BY <1>0, <1>1, <1>2, <1>3, <1>4, <1>5
<1>7. Len(runs[c]) \in Nat /\ Len(runs'[c]) \in Nat
  BY <1>0
<1>8. DOMAIN runs[c] = 1 .. Len(runs[c]) /\ DOMAIN runs'[c] = 1 .. Len(runs'[c])
  BY <1>0
<1> QED BY <1>6, <1>7, <1>8

LEMMA KnownStays ==
  ASSUME TypeInv, [Next]_vars, NEW x, x.call \in Calls, Known(x)
  PROVE  Known(x)'
BY RunsGrow DEF Known

\* What becomes of an engine's threads.
LEMMA TasksMove ==
  ASSUME TypeInv, [Next]_vars, NEW z \in Servers
  PROVE  \/ tasks'[z] \subseteq tasks[z]
         \/ \E s \in Servers : SpawnMethod(s) /\ hand[s] \in Calls
         \/ \E s \in Servers : \E t \in tasks[s] : \E at : MoveTo(s, t, at)
<1>1. ASSUME NEW s \in Servers, NEW t \in tasks[s],
             RunMethod(s, t) \/ SendReply(s, t) \/ ResendReply(s, t) \/ SendReplyRaises(s, t)
      PROVE  tasks'[z] \subseteq tasks[z] \/ \E at : MoveTo(s, t, at)
  <2>1. Finish(s, t) => tasks'[z] \subseteq tasks[z]
    BY DEF Finish, TypeInv
  <2>2. \/ Finish(s, t) \/ tasks' = tasks \/ MoveTo(s, t, "result") \/ MoveTo(s, t, "failure")
        \/ MoveTo(s, t, "ending")
    BY <1>1 DEF RunMethod, SendReply, ResendReply, SendReplyRaises, engineVars
  <2> QED BY <2>1, <2>2
<1>2. ASSUME NEW s \in Servers, Callback(s) PROVE SpawnMethod(s) \/ tasks' = tasks
  BY <1>2 DEF Callback, SkipDuplicate
<1>3. ASSUME NEW s \in Servers, Callback(s) PROVE hand[s] \in Calls
  BY <1>3 DEF Callback, TypeInv
<1>4. ASSUME NEW s \in Servers, Crash(s) PROVE tasks'[z] \subseteq tasks[z]
  BY <1>4 DEF Crash, TypeInv
<1>5. \/ tasks' = tasks
      \/ \E s \in Servers : Callback(s) \/ Crash(s)
      \/ \E s \in Servers : \E t \in tasks[s] :
            RunMethod(s, t) \/ SendReply(s, t) \/ ResendReply(s, t) \/ SendReplyRaises(s, t)
  BY StepCases DEF vars, engineVars, Multicall, TopicSend, TopicSendRaises, TopicResend, Hear,
         GiveUp, Deliver, DeliverUnacked, ReplySessionLost, ReplyReconnect, Fetch, Acknowledge,
         Reconnect, SessionLost
<1> QED BY <1>1, <1>2, <1>3, <1>4, <1>5

\* A thread is one that there was, at another point, or that of the call's last run.
LEMMA TasksFrom ==
  ASSUME TypeInv, [Next]_vars, NEW z \in Servers, NEW u \in tasks'[z]
  PROVE  \/ \E t \in tasks[z] : u.call = t.call /\ u.run = t.run
         \/ u.call \in Calls /\ u.run \in DOMAIN runs'[u.call]
<1>1. CASE tasks'[z] \subseteq tasks[z]
  BY <1>1
<1>2. ASSUME NEW s \in Servers, SpawnMethod(s), hand[s] \in Calls
      PROVE  \/ \E t \in tasks[z] : u.call = t.call /\ u.run = t.run
             \/ u.call \in Calls /\ u.run \in DOMAIN runs'[u.call]
  <2>1. \/ u \in tasks[z]
        \/ u = [call |-> hand[s], run |-> Len(runs[hand[s]]) + 1, at |-> "run"]
    BY <1>2, SpawnMethodRuns
  <2>2. Len(runs[hand[s]]) + 1 \in DOMAIN runs'[hand[s]]
    BY <1>2, SpawnMethodRuns
  <2> QED BY <1>2, <2>1, <2>2
<1>3. ASSUME NEW s \in Servers, NEW t \in tasks[s], NEW at, MoveTo(s, t, at)
      PROVE  \E v \in tasks[z] : u.call = v.call /\ u.run = v.run
  <2>1. \/ u \in tasks[z]
        \/ z = s /\ u = [t EXCEPT !.at = at]
    BY <1>3, MoveToTasks
  <2>2. [t EXCEPT !.at = at].call = t.call /\ [t EXCEPT !.at = at].run = t.run
    BY <1>3, MoveToTasks
  <2> QED BY <2>1, <2>2
<1> QED BY <1>1, <1>2, <1>3, TasksMove

LEMMA InitKnown == Init => KnownInv
BY DEF Init, KnownInv

LEMMA NextKnown == TypeInv /\ KnownInv /\ [Next]_vars => KnownInv'
<1> SUFFICES ASSUME TypeInv, KnownInv, [Next]_vars PROVE KnownInv'
  OBVIOUS
<1>1. ASSUME NEW s \in Servers, NEW t \in tasks[s] PROVE t.call \in Calls /\ Known(t)
  BY DEF TypeInv, Task, KnownInv
<1>2. ASSUME NEW j \in DOMAIN replies PROVE replies[j].call \in Calls /\ Known(replies[j])
  <2>1. replies[j] \in Reply
    BY DEF TypeInv
  <2> QED BY <2>1 DEF Reply, KnownInv
<1>3. ASSUME NEW c \in Calls, NEW j \in DOMAIN inbox[c]
      PROVE  inbox[c][j].call = c /\ Known(inbox[c][j])
  BY DEF KnownInv
<1>4. ASSUME NEW z \in Servers, NEW u \in tasks'[z] PROVE u.run \in DOMAIN runs'[u.call]
  <2>1. ASSUME NEW t \in tasks[z], u.call = t.call, u.run = t.run
        PROVE  u.run \in DOMAIN runs'[u.call]
    BY <1>1, <2>1, RunsGrow DEF Known
  <2> QED BY <2>1, TasksFrom
<1>5. ASSUME NEW i \in DOMAIN replies' PROVE replies'[i].run \in DOMAIN runs'[replies'[i].call]
  <2>1. ASSUME NEW j \in DOMAIN replies, replies'[i] = replies[j]
        PROVE  replies'[i].run \in DOMAIN runs'[replies'[i].call]
    BY <1>2, <2>1, RunsGrow DEF Known
  <2>2. ASSUME NEW s \in Servers, NEW t \in tasks[s], replies'[i] = ReplyOf(t)
        PROVE  replies'[i].run \in DOMAIN runs'[replies'[i].call]
    BY <1>1, <2>2, RunsGrow DEF Known, ReplyOf
  <2> QED BY <2>1, <2>2, RepliesFrom
<1>6. ASSUME NEW c \in Calls, NEW i \in DOMAIN inbox'[c]
      PROVE  inbox'[c][i].call = c /\ inbox'[c][i].run \in DOMAIN runs'[inbox'[c][i].call]
  <2>1. ASSUME NEW j \in DOMAIN inbox[c], inbox'[c][i] = inbox[c][j]
        PROVE  inbox'[c][i].call = c /\ inbox'[c][i].run \in DOMAIN runs'[inbox'[c][i].call]
    BY <1>3, <2>1, RunsGrow DEF Known
  <2>2. ASSUME NEW j \in DOMAIN replies, inbox'[c][i] = replies[j], replies[j].call = c
        PROVE  inbox'[c][i].call = c /\ inbox'[c][i].run \in DOMAIN runs'[inbox'[c][i].call]
    BY <1>2, <2>2, RunsGrow DEF Known
  <2> QED BY <2>1, <2>2, InboxFrom
<1>7. ASSUME NEW c \in Calls PROVE got'[c] \in 0 .. Len(runs'[c])
  <2>1. got[c] \in 0 .. Len(runs[c]) /\ runs[c] \in Seq(RunStates)
    BY DEF KnownInv, TypeInv
  <2>2. CASE got'[c] = got[c]
    BY <2>1, <2>2, RunsGrow
  <2>3. ASSUME NEW d \in Calls, Hear(d), got'[c] # got[c] PROVE got'[c] \in 0 .. Len(runs[c])
    <3>1. inbox[d] # <<>> /\ HearResult(d, Head(inbox[d]))
      BY <2>3 DEF Hear, HearDuplicate, HearEnd
    <3>2. d = c /\ got'[c] = Head(inbox[c]).run
      BY <2>3, <3>1 DEF HearResult, TypeInv
    <3>3. 1 \in DOMAIN inbox[c] /\ Head(inbox[c]) = inbox[c][1]
      BY <3>1, <3>2 DEF TypeInv
    <3>4. inbox[c][1].call = c /\ inbox[c][1].run \in DOMAIN runs[c]
      BY <1>3, <3>3 DEF Known
    <3> QED BY <2>1, <3>2, <3>3, <3>4
  <2>4. got' = got \/ \E d \in Calls : Hear(d)
    BY StepCases DEF vars, callerVars, Multicall, TopicSend, TopicSendRaises, TopicResend,
         GiveUp, End, Deliver, DeliverUnacked, ReplySessionLost, ReplyReconnect, Fetch, Callback,
         Acknowledge, Reconnect, SessionLost, Crash, RunMethod, SendReply, ResendReply,
         SendReplyRaises
  <2> QED BY <2>1, <2>2, <2>3, <2>4, RunsGrow
<1> QED BY <1>4, <1>5, <1>6, <1>7 DEF KnownInv, Known

\* A cache forgets before it is beyond its size.
LEMMA RememberSize ==
  ASSUME NEW S, NEW q \in Seq(S), NEW e \in S, Len(q) <= DupMsgCheckSize
  PROVE  Len(Remember(q, e)) <= DupMsgCheckSize
<1>1. CASE Len(q) < DupMsgCheckSize
  <2>1. Remember(q, e) = Append(q, e)
    BY <1>1 DEF Remember
  <2>2. Len(Append(q, e)) = Len(q) + 1 /\ Len(q) \in Nat
    OBVIOUS
  <2> QED BY <1>1, <2>1, <2>2 DEF RpcAssumption
<1>2. CASE ~(Len(q) < DupMsgCheckSize)
  <2>1. Remember(q, e) = Append(Tail(q), e)
    BY <1>2 DEF Remember
  <2>2. Len(q) = DupMsgCheckSize /\ Len(q) > 0
    BY <1>2 DEF RpcAssumption
  <2>3. Tail(q) \in Seq(S) /\ Len(Tail(q)) = Len(q) - 1
    BY <2>2, Tailed
  <2>4. Len(Append(Tail(q), e)) = Len(Tail(q)) + 1
    BY <2>3
  <2> QED BY <2>1, <2>2, <2>3, <2>4 DEF RpcAssumption
<1> QED BY <1>1, <1>2

LEMMA SwapSize ==
  ASSUME NEW S, IsFiniteSet(S), NEW t \in S, NEW u
  PROVE  LET U == (S \ {t}) \cup {u} IN IsFiniteSet(U) /\ Cardinality(U) <= Cardinality(S)
<1> DEFINE W == S \ {t}
<1>1. IsFiniteSet(W) /\ Cardinality(W) = Cardinality(S) - 1 /\ Cardinality(S) \in Nat
  BY FS_RemoveElement, FS_CardinalityType
<1>2. IsFiniteSet(W \cup {u})
      /\ Cardinality(W \cup {u}) \in {Cardinality(W), Cardinality(W) + 1}
  BY <1>1, FS_AddElement
<1> QED BY <1>1, <1>2

\* A pool takes a thread only while it has a place.
LEMMA NextPool ==
  ASSUME TypeInv, SizeInv, [Next]_vars, NEW z \in Servers
  PROVE  IsFiniteSet(tasks'[z]) /\ Cardinality(tasks'[z]) <= ThreadPoolSize
<1>0. IsFiniteSet(tasks[z]) /\ Cardinality(tasks[z]) <= ThreadPoolSize
      /\ Cardinality(tasks[z]) \in Nat
  BY FS_CardinalityType DEF SizeInv
<1>1. CASE tasks'[z] \subseteq tasks[z]
  <2>1. IsFiniteSet(tasks'[z]) /\ Cardinality(tasks'[z]) <= Cardinality(tasks[z])
    BY <1>0, <1>1, FS_Subset
  <2>2. Cardinality(tasks'[z]) \in Nat
    BY <2>1, FS_CardinalityType
  <2> QED BY <1>0, <2>1, <2>2 DEF RpcAssumption
<1>2. ASSUME NEW s \in Servers, SpawnMethod(s), hand[s] \in Calls
      PROVE  IsFiniteSet(tasks'[z]) /\ Cardinality(tasks'[z]) <= ThreadPoolSize
  <2>1. CASE z # s
    BY <1>0, <1>2, <2>1, SpawnMethodRuns
  <2>2. CASE z = s
    <3> DEFINE v == [call |-> hand[s], run |-> Len(runs[hand[s]]) + 1, at |-> "run"]
    <3>1. tasks'[s] = tasks[s] \cup {v}
      BY <1>2, SpawnMethodRuns
    <3>2. Cardinality(tasks[s]) < ThreadPoolSize
      BY <1>2 DEF SpawnMethod
    <3> HIDE DEF v
    <3>3. IsFiniteSet(tasks[s] \cup {v})
          /\ Cardinality(tasks[s] \cup {v}) \in {Cardinality(tasks[s]), Cardinality(tasks[s]) + 1}
      BY <1>0, <2>2, FS_AddElement
    <3> QED BY <1>0, <2>2, <3>1, <3>2, <3>3 DEF RpcAssumption
  <2> QED BY <2>1, <2>2
<1>3. ASSUME NEW s \in Servers, NEW t \in tasks[s], NEW at, MoveTo(s, t, at)
      PROVE  IsFiniteSet(tasks'[z]) /\ Cardinality(tasks'[z]) <= ThreadPoolSize
  <2>1. CASE z # s
    BY <1>0, <1>3, <2>1, MoveToTasks
  <2>2. CASE z = s
    <3> DEFINE v == [t EXCEPT !.at = at]
    <3>1. tasks'[s] = (tasks[s] \ {t}) \cup {v}
      BY <1>3, MoveToTasks
    <3> HIDE DEF v
    <3>2. IsFiniteSet((tasks[s] \ {t}) \cup {v})
          /\ Cardinality((tasks[s] \ {t}) \cup {v}) <= Cardinality(tasks[s])
      BY <1>0, <2>2, SwapSize
    <3>3. Cardinality((tasks[s] \ {t}) \cup {v}) \in Nat
      BY <3>2, FS_CardinalityType
    <3> QED BY <1>0, <2>2, <3>1, <3>2, <3>3 DEF RpcAssumption
  <2> QED BY <2>1, <2>2
<1>4. \/ tasks'[z] \subseteq tasks[z]
      \/ \E s \in Servers : SpawnMethod(s) /\ hand[s] \in Calls
      \/ \E s \in Servers : \E t \in tasks[s] : \E at : MoveTo(s, t, at)
  BY TasksMove
<1> QED BY <1>1, <1>2, <1>3, <1>4

LEMMA NextUnacked ==
  ASSUME TypeInv, SizeInv, [Next]_vars, NEW z \in Servers
  PROVE  unacked'[z] \in {hand'[z], None}
<1>0. unacked[z] \in {hand[z], None}
  BY DEF SizeInv
<1>1. ASSUME NEW s \in Servers, Fetch(s) \/ Acknowledge(s) \/ SessionLost(s) \/ Crash(s)
      PROVE  unacked'[z] \in {hand'[z], None}
  <2>1. CASE s = z
    <3>1. Fetch(z) => unacked'[z] = hand'[z]
      BY DEF Fetch, TypeInv
    <3>2. Acknowledge(z) \/ SessionLost(z) \/ Crash(z) => unacked'[z] = None
      BY DEF Acknowledge, SessionLost, Crash, Detach, TypeInv
    <3> QED BY <1>1, <2>1, <3>1, <3>2
  <2>2. CASE s # z
    BY <1>0, <1>1, <2>2 DEF Fetch, Acknowledge, SessionLost, Crash, Detach, engineVars, TypeInv
  <2> QED BY <2>1, <2>2
<1>2. \/ UNCHANGED <<hand, unacked>>
      \/ \E s \in Servers : Fetch(s) \/ Acknowledge(s) \/ SessionLost(s) \/ Crash(s)
  BY StepCases DEF vars, topicVars, engineVars, Multicall, TopicSend, TopicSendRaises, TopicResend,
         Publish, Hear, GiveUp, Deliver, DeliverUnacked, ReplySessionLost, ReplyReconnect,
         Callback, Reconnect, RunMethod, SendReply, ResendReply, SendReplyRaises
<1> QED BY <1>0, <1>1, <1>2

LEMMA NextCaches ==
  ASSUME TypeInv, SizeInv, [Next]_vars
  PROVE  /\ \A c \in Calls : Len(heard'[c]) <= DupMsgCheckSize
         /\ \A s \in Servers : Len(prevMsgids'[s]) <= DupMsgCheckSize
<1>0. /\ \A c \in Calls : heard[c] \in Seq(Reply) /\ Len(heard[c]) <= DupMsgCheckSize
      /\ \A s \in Servers : /\ prevMsgids[s] \in Seq(Calls)
                            /\ Len(prevMsgids[s]) <= DupMsgCheckSize
  BY DEF SizeInv, TypeInv
<1>1. ASSUME NEW c \in Calls PROVE Len(heard'[c]) <= DupMsgCheckSize
  <2>1. CASE heard'[c] = heard[c]
    BY <1>0, <2>1
  <2>2. ASSUME NEW r \in Reply, heard'[c] = Remember(heard[c], r)
        PROVE  Len(heard'[c]) <= DupMsgCheckSize
    BY <1>0, <2>2, RememberSize
  <2>3. ASSUME NEW d \in Calls, Hear(d)
        PROVE  heard'[c] = heard[c] \/ \E r \in Reply : heard'[c] = Remember(heard[c], r)
    <3>1. Head(inbox[d]) \in Reply
      BY <2>3 DEF Hear, TypeInv
    <3> QED BY <2>3, <3>1 DEF Hear, HearDuplicate, HearResult, HearEnd, TypeInv
  <2>4. heard' = heard \/ \E d \in Calls : Hear(d)
    BY StepCases DEF vars, callerVars, Multicall, TopicSend, TopicSendRaises, TopicResend,
         GiveUp, Deliver, DeliverUnacked, ReplySessionLost, ReplyReconnect, Fetch, Callback,
         Acknowledge, Reconnect, SessionLost, Crash, RunMethod, SendReply, ResendReply,
         SendReplyRaises
  <2> QED BY <2>1, <2>2, <2>3, <2>4
<1>2. ASSUME NEW s \in Servers PROVE Len(prevMsgids'[s]) <= DupMsgCheckSize
  <2>1. CASE prevMsgids'[s] = prevMsgids[s]
    BY <1>0, <2>1
  <2>2. CASE prevMsgids'[s] = <<>>
    <3>1. Len(<<>>) = 0
      OBVIOUS
    <3> QED BY <2>2, <3>1 DEF RpcAssumption
  <2>3. CASE hand[s] \in Calls /\ prevMsgids'[s] = Remember(prevMsgids[s], hand[s])
    BY <1>0, <2>3, RememberSize
  <2>4. ASSUME NEW z \in Servers, Callback(z)
        PROVE  \/ prevMsgids'[s] = prevMsgids[s]
               \/ hand[s] \in Calls /\ prevMsgids'[s] = Remember(prevMsgids[s], hand[s])
    BY <2>4 DEF Callback, SkipDuplicate, SpawnMethod, TypeInv
  <2>5. ASSUME NEW z \in Servers, Crash(z)
        PROVE  prevMsgids'[s] = prevMsgids[s] \/ prevMsgids'[s] = <<>>
    BY <2>5 DEF Crash, TypeInv
  <2>6. prevMsgids' = prevMsgids \/ \E z \in Servers : Callback(z) \/ Crash(z)
    BY StepCases DEF vars, engineVars, Multicall, TopicSend, TopicSendRaises, TopicResend, Hear,
         GiveUp, Deliver, DeliverUnacked, ReplySessionLost, ReplyReconnect, Fetch, Acknowledge,
         Reconnect, SessionLost, RunMethod, SendReply, ResendReply, SendReplyRaises
  <2> QED BY <2>1, <2>2, <2>3, <2>4, <2>5, <2>6
<1> QED BY <1>1, <1>2

LEMMA InitSize == Init => SizeInv
<1> SUFFICES ASSUME Init PROVE SizeInv
  OBVIOUS
<1>1. Len(<<>>) = 0
  OBVIOUS
<1>2. IsFiniteSet({}) /\ Cardinality({}) = 0
  BY FS_EmptySet
<1> QED BY <1>1, <1>2 DEF Init, SizeInv, RpcAssumption

LEMMA NextSize == TypeInv /\ SizeInv /\ [Next]_vars => SizeInv'
<1> SUFFICES ASSUME TypeInv, SizeInv, [Next]_vars PROVE SizeInv'
  OBVIOUS
<1>1. faults' = faults \/ (faults < MaxFaults /\ faults' = faults + 1)
  BY StepCases DEF vars, Fault, Multicall, TopicSend, TopicSendRaises, TopicResend, Hear, GiveUp,
         Deliver, DeliverUnacked, ReplySessionLost, ReplyReconnect, Fetch, Callback, Acknowledge,
         Reconnect, SessionLost, Crash, RunMethod, SendReply, ResendReply, SendReplyRaises
<1>2. faults \in 0 .. MaxFaults /\ MaxFaults \in Nat
  BY DEF SizeInv, RpcAssumption
<1>3. faults' \in 0 .. MaxFaults
  BY <1>1, <1>2
<1> QED BY <1>3, NextPool, NextUnacked, NextCaches DEF SizeInv

\* Types, the caches and pools within their sizes, and a session with at most one
\* message to acknowledge (impl_qpid.py:123-127), whatever sessions are lost,
\* engines die and replies are lost or repeated.
THEOREM RpcSizesCorrect == Spec => []TypeOK
<1>1. TypeInv /\ KnownInv /\ SizeInv /\ [Next]_vars => (TypeInv /\ KnownInv /\ SizeInv)'
  BY NextType, NextKnown, NextSize
<1>2. TypeInv /\ KnownInv /\ SizeInv => TypeOK
  <2> SUFFICES ASSUME TypeInv, KnownInv, SizeInv PROVE TypeOK
    OBVIOUS
  <2>1. ASSUME NEW S, NEW q \in Seq(S) PROVE Range(q) \subseteq S
    BY DEF Range
  <2>2. /\ \A c \in Calls : /\ Range(inbox[c]) \subseteq Reply /\ Range(heard[c]) \subseteq Reply
                            /\ Range(runs[c]) \subseteq RunStates
        /\ \A s \in Servers : Range(prevMsgids[s]) \subseteq Calls /\ Range(taken[s]) \subseteq Calls
        /\ Range(queue) \subseteq Calls /\ Range(replies) \subseteq Reply
    BY <2>1 DEF TypeInv
  <2> QED BY <2>2 DEF TypeInv, KnownInv, SizeInv, TypeOK
<1> QED BY InitType, InitKnown, InitSize, <1>1, <1>2, PTL DEF Spec
-----------------------------------------------------------------------------
(* One engine that goes on living. *)

\* How the runs of a call change.
LEMMA RunsChange ==
  ASSUME TypeInv, [Next]_vars, NEW c \in Calls, runs'[c] # runs[c]
  PROVE  \/ \E s \in Servers : /\ Callback(s) /\ SpawnMethod(s) /\ hand[s] = c
                               /\ runs'[c] = Append(runs[c], "pending")
         \/ \E s \in Servers : \E t \in tasks[s] : RunMethod(s, t) /\ t.call = c
<1>1. ASSUME NEW s \in Servers, Callback(s), SpawnMethod(s)
      PROVE  hand[s] = c /\ runs'[c] = Append(runs[c], "pending")
  <2>1. hand[s] \in Calls
    BY <1>1 DEF Callback, TypeInv
  <2> QED BY <1>1, <2>1 DEF SpawnMethod, TypeInv
<1>2. ASSUME NEW s \in Servers, NEW t \in tasks[s], RunMethod(s, t) PROVE t.call = c
  BY <1>2 DEF RunMethod, TypeInv
<1>3. \/ UNCHANGED runs
      \/ \E s \in Servers : Callback(s) /\ SpawnMethod(s)
      \/ \E s \in Servers : \E t \in tasks[s] : RunMethod(s, t)
  BY StepCases DEF vars, callerVars, topicVars, engineVars, replyVars, Multicall, TopicSend,
         TopicSendRaises, TopicResend, Hear, GiveUp, Deliver, DeliverUnacked, ReplySessionLost,
         ReplyReconnect, Fetch, Callback, SkipDuplicate, Acknowledge, Reconnect,
         SessionLost, Crash, SendReply, ResendReply, SendReplyRaises
<1> QED BY <1>1, <1>2, <1>3

\* Where a request in the queue comes from.
LEMMA QueueFrom ==
  ASSUME TypeInv, [Next]_vars, NEW c \in Calls, c \in Range(queue')
  PROVE  \/ c \in Range(queue) \/ pc[c] = "send"
         \/ \E s \in Servers : unacked[s] = c
<1>0. queue \in Seq(Calls) /\ unacked \in [Servers -> Calls \cup {None}] /\ c # None
  BY DEF TypeInv, RpcAssumption
<1>1. CASE queue' = queue
  BY <1>1
<1>2. ASSUME NEW d \in Calls, Publish(d), pc[d] = "send" PROVE c \in Range(queue) \/ pc[c] = "send"
  <2>1. queue' = queue \/ queue' = Append(queue, d)
    BY <1>2 DEF Publish
  <2>2. PICK i \in DOMAIN queue' : queue'[i] = c
    BY DEF Range
  <2>3. CASE queue' = Append(queue, d)
    <3>1. (i \in DOMAIN queue /\ queue'[i] = queue[i]) \/ queue'[i] = d
      BY <1>0, <2>2, <2>3
    <3> QED BY <1>2, <2>2, <3>1 DEF Range
  <2> QED BY <2>1, <2>3
<1>3. ASSUME NEW s \in Servers, Fetch(s) PROVE c \in Range(queue)
  <2>1. queue # <<>> /\ queue' = Tail(queue)
    BY <1>3 DEF Fetch
  <2>2. PICK i \in DOMAIN queue' : queue'[i] = c
    BY DEF Range
  <2>3. i + 1 \in DOMAIN queue /\ queue[i + 1] = c
    BY <1>0, <2>1, <2>2
  <2> QED BY <2>3 DEF Range
<1>4. ASSUME NEW s \in Servers, Detach(s) PROVE c \in Range(queue) \/ unacked[s] = c
  <2>1. PICK i \in DOMAIN queue' : queue'[i] = c
    BY DEF Range
  <2>2. queue' # <<>>
    BY <2>1
  <2>3. queue' = (IF unacked[s] = None THEN <<>> ELSE <<unacked[s]>>) \o queue
    BY <1>4, <2>2, Zenon DEF Detach
  <2>4. CASE unacked[s] = None
    <3>1. queue' = queue
      BY <1>0, <2>3, <2>4
    <3> QED BY <3>1
  <2>5. CASE unacked[s] # None
    <3>1. unacked[s] \in Calls /\ queue' = <<unacked[s]>> \o queue
      BY <1>0, <2>3, <2>5
    <3>2. queue'[i] = unacked[s] \/ (i - 1 \in DOMAIN queue /\ queue'[i] = queue[i - 1])
      BY <1>0, <2>1, <3>1
    <3> QED BY <2>1, <3>2 DEF Range
  <2> QED BY <2>4, <2>5
<1>5. \/ queue' = queue
      \/ \E d \in Calls : Publish(d) /\ pc[d] = "send"
      \/ \E s \in Servers : Fetch(s) \/ Detach(s)
  BY StepCases DEF vars, topicVars, Multicall, TopicSend, TopicSendRaises, TopicResend, Hear,
         GiveUp, Deliver, DeliverUnacked, ReplySessionLost, ReplyReconnect, Callback, Acknowledge,
         Reconnect, SessionLost, Crash, RunMethod, SendReply, ResendReply, SendReplyRaises
<1> QED BY <1>1, <1>2, <1>3, <1>4, <1>5

LEMMA InitNew == Init => NewInv
BY DEF Init, NewInv, Range, RpcAssumption

LEMMA NextNew == TypeInv /\ SizeInv /\ KnownInv /\ NewInv /\ [Next]_vars => NewInv'
<1> SUFFICES ASSUME TypeInv, SizeInv, KnownInv, NewInv, [Next]_vars, NEW c \in Calls, pc'[c] = "new"
             PROVE  /\ runs'[c] = <<>> /\ c \notin Range(queue')
                    /\ \A s \in Servers : hand'[s] # c
  BY DEF NewInv
<1>0. c # None
  BY DEF RpcAssumption
<1>1. pc[c] = "new"
  <2>1. ASSUME NEW d \in Calls, Multicall(d) \/ TopicSend(d) \/ TopicSendRaises(d) PROVE pc[c] = "new"
    BY <2>1 DEF Multicall, TopicSend, TopicSendRaises, TypeInv
  <2>2. ASSUME NEW d \in Calls, Hear(d) \/ GiveUp(d) PROVE pc[c] = "new"
    BY <2>2 DEF Hear, GiveUp, HearDuplicate, HearResult, HearEnd, End, TypeInv
  <2>3. \/ UNCHANGED pc
        \/ \E d \in Calls : Multicall(d) \/ TopicSend(d) \/ TopicSendRaises(d) \/ Hear(d) \/ GiveUp(d)
    BY StepCases DEF vars, callerVars, TopicResend, Deliver, DeliverUnacked, ReplySessionLost,
         ReplyReconnect, Fetch, Callback, Acknowledge, Reconnect, SessionLost, Crash, RunMethod,
         SendReply, ResendReply, SendReplyRaises
  <2> QED BY <2>1, <2>2, <2>3
<1>2. runs[c] = <<>> /\ c \notin Range(queue) /\ \A s \in Servers : hand[s] # c
  BY <1>1 DEF NewInv
<1>3. runs'[c] = <<>>
  <2>1. ASSUME NEW s \in Servers, NEW t \in tasks[s], t.call = c PROVE FALSE
    BY <1>2, <2>1 DEF KnownInv, Known
  <2> QED BY <1>2, <2>1, RunsChange
<1>4. c \notin Range(queue')
  <2>1. \A s \in Servers : unacked[s] # c
    BY <1>0, <1>2 DEF SizeInv
  <2> QED BY <1>1, <1>2, <2>1, QueueFrom
<1>5. ASSUME NEW s \in Servers PROVE hand'[s] # c
  <2>1. ASSUME NEW z \in Servers, Fetch(z) PROVE hand'[s] # c
    <3>1. queue # <<>> /\ hand' = [hand EXCEPT ![z] = Head(queue)]
      BY <2>1 DEF Fetch
    <3>2. Head(queue) \in Range(queue)
      <4>1. 1 \in DOMAIN queue /\ Head(queue) = queue[1]
        BY <3>1 DEF TypeInv
      <4> QED BY <4>1 DEF Range
    <3> QED BY <1>2, <3>1, <3>2 DEF TypeInv
  <2>2. ASSUME NEW z \in Servers, Acknowledge(z) \/ Crash(z) PROVE hand'[s] # c
    BY <1>0, <1>2, <2>2 DEF Acknowledge, Crash, TypeInv
  <2>3. hand' = hand \/ \E z \in Servers : Fetch(z) \/ Acknowledge(z) \/ Crash(z)
    BY StepCases DEF vars, engineVars, Multicall, TopicSend, TopicSendRaises, TopicResend, Hear,
         GiveUp, Deliver, DeliverUnacked, ReplySessionLost, ReplyReconnect, Callback, Reconnect,
         SessionLost, RunMethod, SendReply, ResendReply, SendReplyRaises
  <2> QED BY <1>2, <2>1, <2>2, <2>3
<1> QED BY <1>3, <1>4, <1>5

\* The end of t of length n.
LEMMA EndOfAppended ==
  ASSUME NEW q \in Seq(Calls), NEW t \in Seq(Calls), NEW h \in Calls, Len(q) <= Len(t),
         \A i \in 1 .. Len(q) : q[i] = t[(Len(t) - Len(q)) + i]
  PROVE  LET p == Append(q, h)
             u == Append(t, h)
         IN  /\ p \in Seq(Calls) /\ Len(p) = Len(q) + 1 /\ Len(u) = Len(t) + 1
             /\ \A i \in 1 .. Len(p) : p[i] = u[(Len(u) - Len(p)) + i]
<1> DEFINE p == Append(q, h)
           u == Append(t, h)
<1>1. /\ p \in Seq(Calls) /\ Len(p) = Len(q) + 1 /\ p[Len(q) + 1] = h
      /\ \A i \in 1 .. Len(q) : p[i] = q[i]
      /\ u \in Seq(Calls) /\ Len(u) = Len(t) + 1 /\ u[Len(t) + 1] = h
      /\ \A i \in 1 .. Len(t) : u[i] = t[i]
  BY Appended
<1>2. Len(q) \in Nat /\ Len(t) \in Nat
  OBVIOUS
<1> HIDE DEF p, u
<1>3. ASSUME NEW i \in 1 .. Len(p) PROVE p[i] = u[(Len(u) - Len(p)) + i]
  <2>1. (Len(u) - Len(p)) + i = (Len(t) - Len(q)) + i
    BY <1>1, <1>2
  <2>2. CASE i \in 1 .. Len(q)
    <3>1. (Len(t) - Len(q)) + i \in 1 .. Len(t)
      BY <1>2, <2>2
    <3> QED BY <1>1, <2>1, <2>2, <3>1
  <2>3. CASE i = Len(q) + 1
    <3>1. (Len(t) - Len(q)) + i = Len(t) + 1
      BY <1>2, <2>3
    <3> QED BY <1>1, <2>1, <2>3, <3>1
  <2> QED BY <1>1, <1>2, <2>2, <2>3
<1> QED BY <1>1, <1>3 DEF p, u

\* The last of what is taken up stay the cache as one more is.
LEMMA RememberLast ==
  ASSUME NEW q \in Seq(Calls), NEW t \in Seq(Calls), LastOf(q, t), NEW h \in Calls
  PROVE  LastOf(Remember(q, h), Append(t, h))
<1> DEFINE M == Len(q)
           L == Len(t)
<1>0. /\ M \in Nat /\ L \in Nat /\ M <= DupMsgCheckSize /\ M <= L
      /\ (M = DupMsgCheckSize) \/ (M = L)
      /\ DupMsgCheckSize \in Nat /\ DupMsgCheckSize > 0
  BY DEF LastOf, RpcAssumption
<1>1. \A i \in 1 .. Len(q) : q[i] = t[(Len(t) - Len(q)) + i]
  BY DEF LastOf
<1>2. CASE Len(q) < DupMsgCheckSize
  <2>1. Remember(q, h) = Append(q, h) /\ Len(q) = Len(t)
    BY <1>0, <1>2 DEF Remember
  <2>2. /\ Append(q, h) \in Seq(Calls) /\ Len(Append(q, h)) = Len(q) + 1
        /\ Len(Append(t, h)) = Len(t) + 1
        /\ \A i \in 1 .. Len(Append(q, h)) :
              Append(q, h)[i] = Append(t, h)[(Len(Append(t, h)) - Len(Append(q, h))) + i]
    BY <1>0, <1>1, EndOfAppended
  <2>3. DOMAIN Append(q, h) = 1 .. Len(Append(q, h))
    BY <2>2
  <2>4. Len(q) + 1 <= DupMsgCheckSize /\ Len(q) + 1 = Len(t) + 1 /\ Len(q) + 1 <= Len(t) + 1
    BY <1>0, <1>2, <2>1
  <2> QED BY <2>1, <2>2, <2>3, <2>4, Zenon DEF LastOf
<1>3. CASE Len(q) = DupMsgCheckSize
  <2> DEFINE k == Tail(q)
  <2>1. /\ k \in Seq(Calls) /\ Len(k) = Len(q) - 1
        /\ \A i \in 1 .. Len(q) - 1 : k[i] = q[i + 1]
    BY <1>0, <1>3, Tailed
  <2>2. Remember(q, h) = Append(k, h)
    BY <1>0, <1>3 DEF Remember
  <2> HIDE DEF k
  <2>3. ASSUME NEW i \in 1 .. Len(k) PROVE k[i] = t[(Len(t) - Len(k)) + i]
    <3>1. i + 1 \in 1 .. Len(q) /\ (Len(t) - Len(q)) + (i + 1) = (Len(t) - Len(k)) + i
      BY <1>0, <2>1
    <3>2. i \in 1 .. Len(q) - 1
      BY <2>1
    <3> QED BY <1>1, <2>1, <3>1, <3>2
  <2>4. Len(k) <= Len(t)
    BY <1>0, <2>1
  <2>5. /\ Append(k, h) \in Seq(Calls) /\ Len(Append(k, h)) = Len(k) + 1
        /\ Len(Append(t, h)) = Len(t) + 1
        /\ \A i \in 1 .. Len(Append(k, h)) :
              Append(k, h)[i] = Append(t, h)[(Len(Append(t, h)) - Len(Append(k, h))) + i]
    <3>1. k \in Seq(Calls)
      BY <2>1
    <3>2. \A i \in 1 .. Len(k) : k[i] = t[(Len(t) - Len(k)) + i]
      BY <2>3
    <3> QED BY <3>1, <3>2, <2>4, EndOfAppended
  <2>6. DOMAIN Append(k, h) = 1 .. Len(Append(k, h))
    BY <2>5
  <2>7. /\ Len(k) + 1 <= DupMsgCheckSize /\ Len(k) + 1 = DupMsgCheckSize
        /\ Len(k) + 1 <= Len(t) + 1
    BY <1>0, <1>3, <2>1
  <2> DEFINE p == Append(k, h)
             u == Append(t, h)
  <2>8. /\ Len(p) <= DupMsgCheckSize /\ Len(p) <= Len(u) /\ Len(p) = DupMsgCheckSize
        /\ DOMAIN p = 1 .. Len(p) /\ \A i \in 1 .. Len(p) : p[i] = u[(Len(u) - Len(p)) + i]
    BY <2>5, <2>6, <2>7
  <2> HIDE DEF p, u
  <2>9. LastOf(p, u)
    BY <2>8 DEF LastOf
  <2> QED BY <2>2, <2>9 DEF p, u
<1> QED BY <1>0, <1>2, <1>3

\* What was taken up lately is a duplicate.
LEMMA LatelyIsDuplicate ==
  ASSUME NEW q \in Seq(Calls), NEW t \in Seq(Calls), LastOf(q, t),
         NEW i \in DOMAIN t, i + DupMsgCheckSize > Len(t)
  PROVE  Duplicate(q, t[i])
<1> DEFINE j == i - (Len(t) - Len(q))
<1>1. /\ Len(q) \in Nat /\ Len(t) \in Nat /\ i \in 1 .. Len(t) /\ Len(q) <= Len(t)
      /\ (Len(q) = DupMsgCheckSize) \/ (Len(q) = Len(t))
      /\ DupMsgCheckSize \in Nat
  BY DEF LastOf, RpcAssumption
<1>2. j \in 1 .. Len(q) /\ (Len(t) - Len(q)) + j = i
  BY <1>1
<1>3. \A k \in 1 .. Len(q) : q[k] = t[(Len(t) - Len(q)) + k]
  BY DEF LastOf
<1>4. q[j] = t[i]
  BY <1>2, <1>3
<1> QED BY <1>1, <1>2, <1>4 DEF Duplicate, Contains

\* What an engine takes up in a step is what its consumer thread has in hand.
LEMMA TakenChange ==
  ASSUME TypeInv, [Next]_vars, NEW s \in Servers
  PROVE  \/ UNCHANGED <<prevMsgids[s], taken[s]>>
         \/ "crash" \in Faults /\ prevMsgids'[s] = <<>> /\ taken'[s] = <<>>
         \/ /\ stage[s] = "callback" /\ hand[s] \in Calls /\ SpawnMethod(s)
            /\ prevMsgids'[s] = Remember(prevMsgids[s], hand[s])
            /\ taken'[s] = Append(taken[s], hand[s])
<1>1. ASSUME NEW z \in Servers, Callback(z)
      PROVE  \/ UNCHANGED <<prevMsgids[s], taken[s]>>
             \/ /\ stage[s] = "callback" /\ hand[s] \in Calls /\ SpawnMethod(s)
                /\ prevMsgids'[s] = Remember(prevMsgids[s], hand[s])
                /\ taken'[s] = Append(taken[s], hand[s])
  <2>1. hand[z] \in Calls /\ stage[z] = "callback"
    BY <1>1 DEF Callback, TypeInv
  <2>2. CASE SkipDuplicate(z)
    BY <2>2 DEF SkipDuplicate
  <2>3. CASE SpawnMethod(z) /\ z = s
    BY <2>1, <2>3 DEF SpawnMethod, TypeInv
  <2>4. CASE SpawnMethod(z) /\ z # s
    BY <2>4 DEF SpawnMethod, TypeInv
  <2> QED BY <1>1, <2>2, <2>3, <2>4 DEF Callback
<1>2. ASSUME NEW z \in Servers, Crash(z)
      PROVE  \/ UNCHANGED <<prevMsgids[s], taken[s]>>
             \/ "crash" \in Faults /\ prevMsgids'[s] = <<>> /\ taken'[s] = <<>>
  BY <1>2 DEF Crash, Fault, TypeInv
<1>3. \/ UNCHANGED <<prevMsgids, taken>>
      \/ \E z \in Servers : Callback(z) \/ Crash(z)
  BY StepCases DEF vars, engineVars, Multicall, TopicSend, TopicSendRaises, TopicResend, Hear,
       GiveUp, Deliver, DeliverUnacked, ReplySessionLost, ReplyReconnect, Fetch, Acknowledge,
       Reconnect, SessionLost, RunMethod, SendReply, ResendReply, SendReplyRaises
<1> QED BY <1>1, <1>2, <1>3

LEMMA InitCache == Init => CacheInv
BY DEF Init, CacheInv, LastOf, RpcAssumption

LEMMA NextCache == TypeInv /\ CacheInv /\ [Next]_vars => CacheInv'
<1> SUFFICES ASSUME TypeInv, CacheInv, [Next]_vars, NEW s \in Servers
             PROVE  LastOf(prevMsgids[s], taken[s])'
  BY DEF CacheInv
<1>1. /\ prevMsgids[s] \in Seq(Calls) /\ taken[s] \in Seq(Calls)
      /\ LastOf(prevMsgids[s], taken[s])
  BY DEF TypeInv, CacheInv
<1>2. LastOf(<<>>, <<>>)
  BY DEF LastOf, RpcAssumption
<1>3. hand[s] \in Calls => LastOf(Remember(prevMsgids[s], hand[s]), Append(taken[s], hand[s]))
  BY <1>1, RememberLast
<1>4. LastOf(prevMsgids'[s], taken'[s])
  BY <1>1, <1>2, <1>3, TakenChange
<1> QED BY <1>4 DEF LastOf

\* An engine takes up again only what it took up DupMsgCheckSize calls ago.
LEMMA SpawnedIsNotRecent ==
  ASSUME TypeInv, CacheInv, NEW s \in Servers, SpawnMethod(s),
         NEW i \in DOMAIN taken[s], taken[s][i] = hand[s]
  PROVE  ~(i + DupMsgCheckSize > Len(taken[s]))
<1>1. /\ prevMsgids[s] \in Seq(Calls) /\ taken[s] \in Seq(Calls)
      /\ LastOf(prevMsgids[s], taken[s])
  BY DEF TypeInv, CacheInv
<1>2. ~Duplicate(prevMsgids[s], taken[s][i])
  BY DEF SpawnMethod
<1> QED BY <1>1, <1>2, LatelyIsDuplicate

LEMMA InitOnce == Init => OnceInv
<1>1. Len(<<>>) = 0
  OBVIOUS
<1> QED BY <1>1 DEF Init, OnceInv

LEMMA NextOnce ==
  ASSUME OneEngine
  PROVE  TypeInv /\ KnownInv /\ CacheInv /\ OnceInv /\ InTime /\ [Next]_vars => OnceInv'
<1> SUFFICES ASSUME TypeInv, KnownInv, CacheInv, OnceInv, InTime, [Next]_vars, NEW c \in Calls
             PROVE  /\ Len(runs'[c]) <= 1
                    /\ runs'[c] # <<>> => \A z \in Servers : c \in Range(taken'[z])
  BY DEF OnceInv
<1>0. /\ runs[c] \in Seq(RunStates) /\ Len(runs[c]) <= 1
      /\ \A z \in Servers : runs[c] # <<>> => c \in Range(taken[z])
      /\ \A z \in Servers : taken[z] \in Seq(Calls)
  BY DEF TypeInv, OnceInv
<1>1. ASSUME NEW z \in Servers, c \in Range(taken[z]) PROVE c \in Range(taken'[z])
  <2>1. hand[z] \in Calls => Range(taken[z]) \subseteq Range(Append(taken[z], hand[z]))
    BY <1>0, RangeAppend
  <2>2. taken'[z] = taken[z] \/ (hand[z] \in Calls /\ taken'[z] = Append(taken[z], hand[z]))
    BY TakenChange DEF OneEngine
  <2> QED BY <1>1, <2>1, <2>2
<1>2. CASE runs'[c] = runs[c]
  BY <1>0, <1>1, <1>2
<1>3. ASSUME NEW s \in Servers, SpawnMethod(s), Callback(s), hand[s] = c,
             runs'[c] = Append(runs[c], "pending")
      PROVE  Len(runs'[c]) <= 1 /\ \A z \in Servers : c \in Range(taken'[z])
  <2>1. stage[s] = "callback" /\ taken'[s] = Append(taken[s], c)
    BY <1>3 DEF Callback, SpawnMethod, TypeInv
  <2>2. ASSUME NEW i \in DOMAIN taken[s], taken[s][i] = c PROVE FALSE
    BY <1>3, <2>1, <2>2, SpawnedIsNotRecent DEF InTime
  <2>3. runs[c] = <<>>
    BY <1>0, <2>2 DEF Range
  <2>4. "pending" \in RunStates
    BY DEF RunStates
  <2>5. Len(Append(runs[c], "pending")) = Len(runs[c]) + 1 /\ Len(<<>>) = 0
    BY <1>0, <2>4
  <2>6. c \in Range(taken'[s])
    BY <1>0, <2>1, RangeAppend
  <2>7. \A z \in Servers : z = s
    BY DEF OneEngine
  <2> QED BY <1>3, <2>3, <2>5, <2>6, <2>7
<1>4. ASSUME NEW s \in Servers, NEW t \in tasks[s], RunMethod(s, t), t.call = c
      PROVE  Len(runs'[c]) <= 1 /\ \A z \in Servers : c \in Range(taken'[z])
  <2>1. PICK o \in RunStates : runs' = [runs EXCEPT ![t.call] = [runs[t.call] EXCEPT ![t.run] = o]]
    BY <1>4 DEF RunMethod, RunStates
  <2>2. runs'[c] = [runs[c] EXCEPT ![t.run] = o]
    BY <1>4, <2>1 DEF TypeInv
  <2>3. Len(runs'[c]) = Len(runs[c])
    BY <1>0, <2>2, SeqExcept
  <2>4. runs[c] # <<>>
    BY <1>4 DEF KnownInv, Known
  <2> QED BY <1>0, <1>1, <2>3, <2>4
<1> QED BY <1>2, <1>3, <1>4, RunsChange

LEMMA InitOpen == Init => OpenInv
BY DEF Init, OpenInv

LEMMA NextOpen ==
  ASSUME OneEngine
  PROVE  TypeInv /\ OpenInv /\ [Next]_vars => OpenInv'
<1> SUFFICES ASSUME TypeInv, OpenInv, [Next]_vars PROVE OpenInv'
  OBVIOUS
<1>0. pc \in [Calls -> {"new", "send", "wait", "done"}] /\ outcome \in [Calls -> Outcomes]
  BY DEF TypeInv
<1>1. CASE UNCHANGED <<pc, outcome, replyQ>>
  BY <1>1 DEF OpenInv
<1>2. ASSUME NEW c \in Calls, Multicall(c) PROVE OpenInv'
  BY <1>0, <1>2 DEF Multicall, OpenInv
<1>3. ASSUME NEW c \in Calls, TopicSend(c) PROVE OpenInv'
  BY <1>0, <1>3 DEF TopicSend, OpenInv, replyVars
<1>4. ASSUME NEW c \in Calls, pc[c] = "wait", NEW o, o # "none", End(c, o), replyQ' = replyQ
      PROVE  OpenInv'
  BY <1>0, <1>4 DEF End, OpenInv
<1>5. ASSUME NEW c \in Calls, Hear(c) PROVE OpenInv'
  <2>1. replyQ' = replyQ /\ pc[c] = "wait"
    BY <1>5 DEF Hear, replyVars
  <2>2. UNCHANGED <<pc, outcome>> \/ \E o : o # "none" /\ End(c, o)
    BY <1>5 DEF Hear, HearDuplicate, HearResult, HearEnd
  <2> QED BY <1>1, <1>4, <2>1, <2>2
<1>6. ASSUME NEW c \in Calls, GiveUp(c) PROVE OpenInv'
  BY <1>4, <1>6 DEF GiveUp, replyVars
<1>7. \/ UNCHANGED <<pc, outcome, replyQ>>
      \/ \E c \in Calls : Multicall(c) \/ TopicSend(c) \/ Hear(c) \/ GiveUp(c)
  <2> USE DEF OneEngine, Fault, callerVars, replyVars
  <2>1. ASSUME UNCHANGED vars \/ \E c \in Calls : TopicSendRaises(c) \/ TopicResend(c)
        PROVE  UNCHANGED <<pc, outcome, replyQ>>
    BY <2>1 DEF vars, TopicSendRaises, TopicResend
  <2>2. ASSUME Deliver \/ DeliverUnacked \/ ReplySessionLost \/ ReplyReconnect
        PROVE  UNCHANGED <<pc, outcome, replyQ>>
    BY <1>0, <2>2 DEF OpenInv, Deliver, DeliverUnacked, ReplySessionLost, ReplyReconnect
  <2>3. ASSUME NEW s \in Servers, \/ Fetch(s) \/ Callback(s) \/ Acknowledge(s) \/ Reconnect(s)
                                  \/ SessionLost(s) \/ Crash(s)
        PROVE  UNCHANGED <<pc, outcome, replyQ>>
    BY <2>3 DEF Fetch, Callback, Acknowledge, Reconnect, SessionLost, Crash
  <2>4. ASSUME NEW s \in Servers, NEW t \in tasks[s],
               RunMethod(s, t) \/ SendReply(s, t) \/ ResendReply(s, t) \/ SendReplyRaises(s, t)
        PROVE  UNCHANGED <<pc, outcome, replyQ>>
    BY <2>4 DEF RunMethod, SendReply, ResendReply, SendReplyRaises, DirectSend
  <2> QED BY <2>1, <2>2, <2>3, <2>4, StepCases
<1> QED BY <1>1, <1>2, <1>3, <1>5, <1>6, <1>7
-----------------------------------------------------------------------------
(* What ends an answer comes after its result. *)

LEMMA InitOrder == Init => OrderInv
BY DEF Init, OrderInv, NothingHeard

\* The call c goes on without having heard a result.
GoesOn(c) == NothingHeard(c) /\ InboxOrder(c) /\ ReplyOrder(c) /\ TaskOrder(c) /\ c \in waiters

LEMMA NothingHeardBefore ==
  ASSUME TypeInv, WaiterInv, KnownInv, OrderInv, [Next]_vars, NEW c \in Calls, NothingHeard(c)'
  PROVE  Multicall(c) \/ (GoesOn(c) /\ ~Hear(c))
<1>1. ASSUME Hear(c) PROVE FALSE
  <2> DEFINE r == Head(inbox[c])
  <2>1. 1 \in DOMAIN inbox[c] /\ r = inbox[c][1]
    BY <1>1 DEF Hear, TypeInv
  <2>2. r.run # 0
    <3>1. r.run \in DOMAIN runs[c] /\ runs[c] \in Seq(RunStates)
      BY <2>1 DEF KnownInv, Known, TypeInv
    <3> QED BY <3>1
  <2>3. CASE HearResult(c, r)
    <3>1. got'[c] = r.run
      BY <2>3 DEF HearResult, TypeInv
    <3> QED BY <2>2, <3>1 DEF NothingHeard
  <2>4. CASE HearDuplicate(c, r) \/ HearEnd(c, r)
    <3>1. pc'[c] = "done"
      BY <2>4 DEF HearDuplicate, HearEnd, End, TypeInv
    <3> QED BY <3>1 DEF NothingHeard
  <2> QED BY <1>1, <2>3, <2>4 DEF Hear
<1>2. ASSUME pc[c] \in {"send", "wait"}, got[c] = 0 PROVE GoesOn(c)
  BY <1>2 DEF OrderInv, NothingHeard, GoesOn, WaiterInv, WaitersAreOpenCalls
<1>3. ASSUME NEW d \in Calls, d # c, Hear(d) PROVE pc'[c] = pc[c] /\ got'[c] = got[c]
  BY <1>3 DEF Hear, HearDuplicate, HearResult, HearEnd, End, TypeInv
<1>4. ASSUME NEW d \in Calls, d # c, Multicall(d) PROVE pc'[c] = pc[c] /\ got'[c] = got[c]
  BY <1>4 DEF Multicall, TypeInv
<1>5. ASSUME NEW d \in Calls, TopicSend(d) \/ TopicSendRaises(d) \/ GiveUp(d), pc'[c] # "done"
      PROVE  (pc'[c] = pc[c] \/ pc[c] = "send") /\ got'[c] = got[c]
  BY <1>5 DEF TopicSend, TopicSendRaises, GiveUp, End, TypeInv
<1>6. \/ UNCHANGED <<pc, got>>
      \/ \E d \in Calls : Multicall(d) \/ TopicSend(d) \/ TopicSendRaises(d) \/ Hear(d) \/ GiveUp(d)
  BY StepCases DEF vars, callerVars, TopicResend, Deliver, DeliverUnacked, ReplySessionLost,
         ReplyReconnect, Fetch, Callback, Acknowledge, Reconnect, SessionLost, Crash, RunMethod,
         SendReply, ResendReply, SendReplyRaises
<1>7. pc'[c] \in {"send", "wait"} /\ got'[c] = 0
  BY DEF NothingHeard
<1> QED BY <1>1, <1>2, <1>3, <1>4, <1>5, <1>6, <1>7

\* A call that is made: nothing has been said of it.
LEMMA OrderMade ==
  ASSUME TypeInv, KnownInv, NewInv, NEW c \in Calls, Multicall(c)
  PROVE  (InboxOrder(c) /\ ReplyOrder(c) /\ TaskOrder(c))'
<1>1. runs[c] = <<>>
  BY DEF NewInv, Multicall
<1>2. ASSUME NEW x, x.call = c, Known(x) PROVE FALSE
  BY <1>1, <1>2 DEF Known
<1>3. inbox' = inbox /\ replies' = replies /\ tasks' = tasks
  BY DEF Multicall, engineVars
<1>4. InboxOrder(c)'
  BY <1>2, <1>3 DEF InboxOrder, KnownInv
<1>5. ReplyOrder(c)'
  BY <1>2, <1>3 DEF ReplyOrder, KnownInv
<1>6. TaskOrder(c)'
  BY <1>2, <1>3 DEF TaskOrder, KnownInv
<1> QED BY <1>4, <1>5, <1>6

\* The ReplyProxy hands the next reply on.
LEMMA OrderDelivered ==
  ASSUME TypeInv, NEW c \in Calls, GoesOn(c), Deliver
  PROVE  (InboxOrder(c) /\ ReplyOrder(c) /\ TaskOrder(c))'
<1> DEFINE r == replies[1]
<1>0. inbox[c] \in Seq(Reply) /\ replies \in Seq(Reply) /\ Len(replies) > 0 /\ r \in Reply
  BY DEF TypeInv, Deliver
<1>1. /\ replies' = Tail(replies) /\ tasks' = tasks
      /\ Len(replies') = Len(replies) - 1 /\ DOMAIN replies' = 1 .. Len(replies')
      /\ \A i \in 1 .. Len(replies) - 1 : replies'[i] = replies[i + 1]
  BY <1>0, Tailed DEF Deliver, engineVars
<1>2. inbox'[c] = IF r.call = c THEN Append(inbox[c], r) ELSE inbox[c]
  <2>1. r.call \in Calls /\ Head(replies) = r
    BY <1>0 DEF Reply
  <2>2. c \in waiters
    BY DEF GoesOn
  <2>3. inbox' = IF r.call \in waiters
                 THEN [inbox EXCEPT ![r.call] = Append(inbox[r.call], r)] ELSE inbox
    BY <2>1 DEF Deliver, Route
  <2>4. DOMAIN inbox = Calls
    BY DEF TypeInv
  <2> HIDE DEF r
  <2>5. CASE r.call = c
    BY <2>2, <2>3, <2>4, <2>5
  <2>6. CASE r.call # c
    BY <2>1, <2>3, <2>4, <2>6
  <2> QED BY <2>5, <2>6
<1>3. /\ \A i \in DOMAIN inbox[c] : i \in DOMAIN inbox'[c] /\ inbox'[c][i] = inbox[c][i]
      /\ r.call = c => Len(inbox[c]) + 1 \in DOMAIN inbox'[c] /\ inbox'[c][Len(inbox[c]) + 1] = r
      /\ \A i \in DOMAIN inbox'[c] :
            i \in DOMAIN inbox[c] \/ (r.call = c /\ i = Len(inbox[c]) + 1)
  <2>1. CASE r.call = c
    BY <1>0, <1>2, <2>1
  <2>2. CASE r.call # c
    BY <1>2, <2>2
  <2> QED BY <2>1, <2>2
<1>4. DOMAIN inbox[c] = 1 .. Len(inbox[c]) /\ DOMAIN replies = 1 .. Len(replies)
      /\ Len(replies) \in Nat /\ Len(inbox[c]) \in Nat
  BY <1>0
<1>5. (InInbox(c) => InInbox(c)') /\ (ResultOf(r, c) => InInbox(c)')
  BY <1>3 DEF InInbox, ResultOf
<1> HIDE DEF r
<1>6. ASSUME NEW i \in DOMAIN inbox'[c], inbox'[c][i].kind = "ending"
      PROVE  \E j \in 1 .. i - 1 : inbox'[c][j].kind = "result"
  <2>1. CASE i \in DOMAIN inbox[c]
    <3>1. PICK j \in 1 .. i - 1 : inbox[c][j].kind = "result"
      BY <1>3, <1>6, <2>1 DEF GoesOn, InboxOrder
    <3>2. j \in DOMAIN inbox[c]
      BY <1>4, <2>1
    <3> QED BY <1>3, <3>1, <3>2
  <2>2. CASE r.call = c /\ i = Len(inbox[c]) + 1
    <3>1. r.kind = "ending"
      BY <1>3, <1>6, <2>2
    <3>2. InInbox(c)
      <4>1. 1 \in DOMAIN replies /\ ~\E j \in 1 .. 1 - 1 : TRUE
        BY <1>0, <1>4
      <4> QED BY <2>2, <3>1, <4>1 DEF GoesOn, ReplyOrder, r
    <3>3. PICK j \in DOMAIN inbox[c] : inbox[c][j].kind = "result"
      BY <3>2 DEF InInbox
    <3>4. j \in 1 .. i - 1
      BY <1>4, <2>2
    <3> QED BY <1>3, <3>3, <3>4
  <2> QED BY <1>3, <2>1, <2>2
<1>7. ASSUME NEW i \in DOMAIN replies', replies'[i].call = c, replies'[i].kind = "ending"
      PROVE  InInbox(c)' \/ \E j \in 1 .. i - 1 : ResultOf(replies'[j], c)
  <2>0. i \in Nat /\ i \in 1 .. Len(replies) - 1
    BY <1>1, <1>4
  <2>1. i + 1 \in DOMAIN replies /\ replies'[i] = replies[i + 1] /\ (i + 1) - 1 = i
    BY <1>1, <1>4, <2>0
  <2>2. InInbox(c) \/ \E j \in 1 .. i : ResultOf(replies[j], c)
    BY <1>7, <2>1 DEF GoesOn, ReplyOrder
  <2>3. ASSUME NEW j \in 1 .. i, ResultOf(replies[j], c), j # 1
        PROVE  \E k \in 1 .. i - 1 : ResultOf(replies'[k], c)
    <3>1. j - 1 \in 1 .. i - 1 /\ j - 1 \in 1 .. Len(replies) - 1 /\ (j - 1) + 1 = j
      BY <2>0, <2>3
    <3>2. replies'[j - 1] = replies[j]
      BY <1>1, <3>1
    <3> QED BY <2>3, <3>1, <3>2
  <2> QED BY <1>5, <2>2, <2>3 DEF r
<1>8. ASSUME NEW s \in Servers, NEW t \in tasks[s], t.call = c, t.at = "ending"
      PROVE  InInbox(c)' \/ \E j \in DOMAIN replies' : ResultOf(replies'[j], c)
  <2>1. InInbox(c) \/ \E j \in DOMAIN replies : ResultOf(replies[j], c)
    BY <1>8 DEF GoesOn, TaskOrder
  <2>2. ASSUME NEW j \in DOMAIN replies, ResultOf(replies[j], c), j # 1
        PROVE  \E k \in DOMAIN replies' : ResultOf(replies'[k], c)
    <3>1. j - 1 \in 1 .. Len(replies) - 1 /\ (j - 1) + 1 = j
      BY <1>4, <2>2
    <3>2. replies'[j - 1] = replies[j] /\ j - 1 \in DOMAIN replies'
      BY <1>1, <3>1
    <3> QED BY <2>2, <3>2
  <2> QED BY <1>5, <2>1, <2>2 DEF r
<1>9. InboxOrder(c)'
  BY <1>6 DEF InboxOrder
<1>10. ReplyOrder(c)'
  BY <1>7 DEF ReplyOrder
<1>11. TaskOrder(c)'
  BY <1>1, <1>8 DEF TaskOrder
<1> QED BY <1>9, <1>10, <1>11

\* A thread sends a reply: what ends an answer follows its result.
LEMMA OrderSent ==
  ASSUME TypeInv, NEW c \in Calls, GoesOn(c), replyQ = "up",
         NEW s \in Servers, NEW t \in tasks[s], SendReply(s, t) \/ ResendReply(s, t)
  PROVE  (InboxOrder(c) /\ ReplyOrder(c) /\ TaskOrder(c))'
<1> DEFINE r == ReplyOf(t)
<1>0. t \in Task /\ t.at \in Kinds /\ DirectSend(t) /\ inbox' = inbox
  BY DEF TypeInv, SendReply, ResendReply, DirectSend
<1>1. r \in Reply /\ r.call = t.call /\ r.kind = t.at
  BY <1>0 DEF Task, Reply, ReplyOf
<1>2. replies \in Seq(Reply) /\ replies' = Append(replies, r)
  BY <1>0 DEF TypeInv, DirectSend, ReplyOf
<1> HIDE DEF r
<1>3. /\ \A i \in DOMAIN replies : i \in DOMAIN replies' /\ replies'[i] = replies[i]
      /\ Len(replies) + 1 \in DOMAIN replies' /\ replies'[Len(replies) + 1] = r
      /\ \A i \in DOMAIN replies' : i \in DOMAIN replies \/ i = Len(replies) + 1
      /\ DOMAIN replies = 1 .. Len(replies) /\ Len(replies) \in Nat
  BY <1>1, <1>2
<1>4. InInbox(c)' <=> InInbox(c)
  BY <1>0 DEF InInbox
<1>5. InboxOrder(c)'
  BY <1>0 DEF GoesOn, InboxOrder
<1>6. ASSUME NEW i \in DOMAIN replies', replies'[i].call = c, replies'[i].kind = "ending"
      PROVE  InInbox(c)' \/ \E j \in 1 .. i - 1 : ResultOf(replies'[j], c)
  <2>1. CASE i \in DOMAIN replies
    <3>1. InInbox(c) \/ \E j \in 1 .. i - 1 : ResultOf(replies[j], c)
      BY <1>3, <1>6, <2>1 DEF GoesOn, ReplyOrder
    <3>2. \A j \in 1 .. i - 1 : j \in DOMAIN replies
      BY <1>3, <2>1
    <3> QED BY <1>3, <1>4, <3>1, <3>2
  <2>2. CASE i = Len(replies) + 1
    <3>1. t.call = c /\ t.at = "ending"
      BY <1>1, <1>3, <1>6, <2>2
    <3>2. InInbox(c) \/ \E j \in DOMAIN replies : ResultOf(replies[j], c)
      BY <3>1 DEF GoesOn, TaskOrder
    <3>3. \A j \in DOMAIN replies : j \in 1 .. i - 1
      BY <1>3, <2>2
    <3> QED BY <1>3, <1>4, <3>2, <3>3
  <2> QED BY <1>3, <2>1, <2>2
<1>7. ASSUME NEW z \in Servers, NEW u \in tasks'[z], u.call = c, u.at = "ending"
      PROVE  InInbox(c)' \/ \E j \in DOMAIN replies' : ResultOf(replies'[j], c)
  <2>1. CASE u \in tasks[z]
    <3>1. InInbox(c) \/ \E j \in DOMAIN replies : ResultOf(replies[j], c)
      BY <1>7, <2>1 DEF GoesOn, TaskOrder
    <3> QED BY <1>3, <1>4, <3>1
  <2>2. CASE u \notin tasks[z]
    <3>1. t.at = "result" /\ MoveTo(s, t, "ending")
      <4>1. Finish(s, t) => tasks'[z] \subseteq tasks[z]
        BY DEF Finish, TypeInv
      <4> QED BY <2>2, <4>1 DEF SendReply, ResendReply, engineVars
    <3> DEFINE v == [t EXCEPT !.at = "ending"]
    <3>2. /\ v.call = t.call /\ tasks'[s] = (tasks[s] \ {t}) \cup {v}
          /\ \A y \in Servers : y # s => tasks'[y] = tasks[y]
      BY <3>1, MoveToTasks
    <3> HIDE DEF v
    <3>3. t.call = c
      BY <1>7, <2>2, <3>2
    <3>4. ResultOf(r, c)
      BY <1>1, <3>1, <3>3 DEF ResultOf
    <3> QED BY <1>3, <3>4
  <2> QED BY <2>1, <2>2
<1>8. ReplyOrder(c)'
  BY <1>6 DEF ReplyOrder
<1>9. TaskOrder(c)'
  BY <1>7 DEF TaskOrder
<1> QED BY <1>5, <1>8, <1>9

\* Every other step.
LEMMA OrderKept ==
  ASSUME TypeInv, NEW c \in Calls, GoesOn(c), inbox'[c] = inbox[c], replies' = replies,
         \A z \in Servers : \A u \in tasks'[z] : u.at = "ending" => u \in tasks[z]
  PROVE  (InboxOrder(c) /\ ReplyOrder(c) /\ TaskOrder(c))'
<1>1. InInbox(c)' <=> InInbox(c)
  BY DEF InInbox
<1>2. InboxOrder(c)'
  BY DEF GoesOn, InboxOrder
<1>3. ReplyOrder(c)'
  BY <1>1 DEF GoesOn, ReplyOrder
<1>4. TaskOrder(c)'
  BY <1>1 DEF GoesOn, TaskOrder
<1> QED BY <1>2, <1>3, <1>4

LEMMA NextOrder ==
  ASSUME OneEngine
  PROVE  TypeInv /\ WaiterInv /\ KnownInv /\ NewInv /\ OpenInv /\ OrderInv /\ [Next]_vars
            => OrderInv'
<1> SUFFICES ASSUME TypeInv, WaiterInv, KnownInv, NewInv, OpenInv, OrderInv, [Next]_vars,
                    NEW c \in Calls, NothingHeard(c)'
             PROVE  (InboxOrder(c) /\ ReplyOrder(c) /\ TaskOrder(c))'
  BY DEF OrderInv
<1>1. CASE Multicall(c)
  BY <1>1, OrderMade
<1>2. CASE GoesOn(c) /\ ~Hear(c)
  <2>1. replyQ = "up"
    BY <1>2 DEF OpenInv, GoesOn, NothingHeard
  <2>2. CASE Deliver
    BY <1>2, <2>2, OrderDelivered
  <2>3. ASSUME NEW s \in Servers, NEW t \in tasks[s], SendReply(s, t) \/ ResendReply(s, t)
        PROVE  (InboxOrder(c) /\ ReplyOrder(c) /\ TaskOrder(c))'
    BY <1>2, <2>1, <2>3, OrderSent
  <2>4. CASE inbox'[c] = inbox[c] /\ UNCHANGED <<replies, tasks>>
    BY <1>2, <2>4, OrderKept
  <2>5. ASSUME NEW s \in Servers, Callback(s) PROVE (InboxOrder(c) /\ ReplyOrder(c) /\ TaskOrder(c))'
    <3>1. ASSUME SpawnMethod(s), hand[s] \in Calls, NEW z \in Servers, NEW u \in tasks'[z],
                 u.at = "ending"
          PROVE  u \in tasks[z]
      BY <3>1, SpawnMethodRuns
    <3>2. hand[s] \in Calls
      BY <2>5 DEF Callback, TypeInv
    <3>3. SpawnMethod(s) \/ tasks' = tasks
      BY <2>5 DEF Callback, SkipDuplicate
    <3>4. inbox' = inbox /\ replies' = replies
      BY <2>5 DEF Callback, replyVars
    <3> QED BY <1>2, <3>1, <3>2, <3>3, <3>4, OrderKept
  <2>6. ASSUME NEW s \in Servers, NEW t \in tasks[s], RunMethod(s, t)
        PROVE  (InboxOrder(c) /\ ReplyOrder(c) /\ TaskOrder(c))'
    <3>1. ASSUME NEW at, at # "ending", MoveTo(s, t, at), NEW z \in Servers, NEW u \in tasks'[z],
                 u.at = "ending"
          PROVE  u \in tasks[z]
      <4> DEFINE v == [t EXCEPT !.at = at]
      <4>1. /\ v.at = at /\ tasks'[s] = (tasks[s] \ {t}) \cup {v}
            /\ \A y \in Servers : y # s => tasks'[y] = tasks[y]
        BY <3>1, MoveToTasks
      <4> HIDE DEF v
      <4> QED BY <3>1, <4>1
    <3>2. MoveTo(s, t, "result") \/ MoveTo(s, t, "failure")
      BY <2>6 DEF RunMethod
    <3>3. inbox' = inbox /\ replies' = replies
      BY <2>6 DEF RunMethod, replyVars
    <3> QED BY <1>2, <3>1, <3>2, <3>3, OrderKept
  <2>7. ASSUME NEW d \in Calls, Hear(d) PROVE inbox'[c] = inbox[c] /\ UNCHANGED <<replies, tasks>>
    BY <1>2, <2>7 DEF Hear, TypeInv, replyVars, engineVars
  <2>8. \/ UNCHANGED <<inbox, replies, tasks>> \/ Deliver
        \/ \E d \in Calls : Hear(d)
        \/ \E s \in Servers : Callback(s)
        \/ \E s \in Servers : \E t \in tasks[s] :
              RunMethod(s, t) \/ SendReply(s, t) \/ ResendReply(s, t)
    BY StepCases DEF OneEngine, Fault, vars, engineVars, replyVars, Multicall, TopicSend,
         TopicSendRaises, TopicResend, GiveUp, DeliverUnacked, ReplySessionLost, ReplyReconnect,
         Fetch, Acknowledge, Reconnect, SessionLost, Crash, SendReplyRaises
  <2> QED BY <2>2, <2>3, <2>4, <2>5, <2>6, <2>7, <2>8
<1> QED BY <1>1, <1>2, NothingHeardBefore
-----------------------------------------------------------------------------
(* RpcCall implements RpcRepeats. *)

IInv == /\ TypeInv /\ WaiterInv /\ TruthInv /\ KnownInv /\ SizeInv
        /\ NewInv /\ CacheInv /\ OpenInv /\ OrderInv

LEMMA InitIInv == Init => IInv
BY InitType, InitWaiter, InitTruth, InitKnown, InitSize, InitNew, InitCache, InitOpen, InitOrder
DEF IInv

LEMMA NextIInv ==
  ASSUME OneEngine
  PROVE  IInv /\ [Next]_vars => IInv'
<1>1. "reset" \notin Faults
  BY DEF OneEngine
<1> QED BY <1>1, NextType, NextWaiter, NextTruth, NextKnown, NextSize, NextNew, NextCache,
           NextOpen, NextOrder DEF IInv

\* One of the runs of c came to r.
CameTo(c, r) == \E n \in DOMAIN runs[c] : runs[c][n] = r

\* How a call may end.
EndsAs(c, o) == \/ o \in {"timeout", "duplicate"}
                \/ o = "result" /\ CameTo(c, "ok")
                \/ o = "failure" /\ CameTo(c, "raised")

Ends(c) == pc[c] = "wait" /\ \E o \in Outcomes : End(c, o) /\ EndsAs(c, o)

LEMMA HearEnds ==
  ASSUME IInv, NEW c \in Calls, Hear(c)
  PROVE  UNCHANGED <<pc, outcome>> \/ Ends(c)
<1> DEFINE r == Head(inbox[c])
<1>0. pc[c] = "wait" /\ 1 \in DOMAIN inbox[c] /\ r = inbox[c][1] /\ r \in Reply
  BY DEF Hear, IInv, TypeInv
<1>1. r.call = c /\ ReplyTrue(r)
  BY <1>0 DEF IInv, TruthInv
<1> HIDE DEF r
<1>2. CASE HearDuplicate(c, r)
  BY <1>0, <1>2 DEF HearDuplicate, Ends, EndsAs, Outcomes
<1>3. CASE HearResult(c, r)
  BY <1>3 DEF HearResult
<1>4. CASE HearEnd(c, r)
  <2>1. CASE r.kind = "failure"
    <3>1. CameTo(c, "raised")
      BY <1>1, <2>1 DEF ReplyTrue, Says, CameTo
    <3>2. End(c, "failure")
      BY <1>4, <2>1 DEF HearEnd
    <3> QED BY <1>0, <3>1, <3>2 DEF Ends, EndsAs, Outcomes
  <2>2. CASE r.kind = "ending"
    <3>1. got[c] # 0
      <4>1. SUFFICES ASSUME got[c] = 0 PROVE FALSE
        OBVIOUS
      <4>2. InboxOrder(c)
        BY <1>0, <4>1 DEF IInv, OrderInv, NothingHeard
      <4> QED BY <1>0, <2>2, <4>2 DEF InboxOrder
    <3>2. CameTo(c, "ok")
      BY <3>1 DEF IInv, TruthInv, GotTrue, CameTo
    <3>3. End(c, "result")
      BY <1>4, <2>2, <3>1 DEF HearEnd
    <3> QED BY <1>0, <3>2, <3>3 DEF Ends, EndsAs, Outcomes
  <2>3. r.kind \in Kinds /\ r.kind # "result"
    BY <1>0, <1>4 DEF Reply, HearEnd
  <2> QED BY <2>1, <2>2, <2>3 DEF Kinds
<1> QED BY <1>2, <1>3, <1>4 DEF Hear, r

\* What the callers see of a step.
LEMMA CallerSteps ==
  ASSUME OneEngine, IInv, [Next]_vars
  PROVE  \/ UNCHANGED <<askedBar, toldBar>>
         \/ /\ UNCHANGED <<runs, taken>>
            /\ \E c \in Calls : Multicall(c) \/ Ends(c)
<1>1. ASSUME NEW c \in Calls, Multicall(c) PROVE UNCHANGED <<runs, taken>>
  BY <1>1 DEF Multicall, engineVars
<1>2. ASSUME NEW c \in Calls, Hear(c)
      PROVE  UNCHANGED <<runs, taken>> /\ (UNCHANGED <<pc, outcome>> \/ Ends(c))
  BY <1>2, HearEnds DEF Hear, engineVars
<1>3. ASSUME NEW c \in Calls, GiveUp(c) PROVE UNCHANGED <<runs, taken>> /\ Ends(c)
  BY <1>3 DEF GiveUp, Ends, EndsAs, Outcomes, engineVars
<1>4. ASSUME NEW c \in Calls, TopicSend(c) PROVE UNCHANGED <<askedBar, toldBar>>
  BY <1>4 DEF TopicSend, askedBar, toldBar, IInv, TypeInv
<1>5. \/ UNCHANGED <<pc, outcome>>
      \/ \E c \in Calls : Multicall(c) \/ TopicSend(c) \/ Hear(c) \/ GiveUp(c)
  BY StepCases DEF OneEngine, Fault, vars, callerVars, TopicSendRaises, TopicResend, Deliver,
       DeliverUnacked, ReplySessionLost, ReplyReconnect, Fetch, Callback, Acknowledge, Reconnect,
       SessionLost, Crash, RunMethod, SendReply, ResendReply, SendReplyRaises
<1>6. UNCHANGED <<pc, outcome>> => UNCHANGED <<askedBar, toldBar>>
  BY DEF askedBar, toldBar
<1> QED BY <1>1, <1>2, <1>3, <1>4, <1>5, <1>6

LEMMA MulticallAsks ==
  ASSUME IInv, NEW c \in Calls, Multicall(c)
  PROVE  c \notin askedBar /\ askedBar' = askedBar \cup {c} /\ UNCHANGED toldBar
BY DEF Multicall, askedBar, toldBar, IInv, TypeInv

ToldOf(o) == CASE o \in {"timeout", "duplicate", "unsent"} -> "nothing" [] OTHER -> o

LEMMA ToldIs ==
  /\ toldBar = [c \in Calls |-> ToldOf(outcome[c])]
  /\ toldBar' = [c \in Calls |-> ToldOf(outcome'[c])]
BY DEF toldBar, ToldOf

LEMMA EndTells ==
  ASSUME IInv, NEW c \in Calls, Ends(c)
  PROVE  /\ c \in askedBar /\ askedBar' = askedBar /\ toldBar[c] = "none"
         /\ \/ toldBar' = [toldBar EXCEPT ![c] = "nothing"]
            \/ CameTo(c, "ok") /\ toldBar' = [toldBar EXCEPT ![c] = "result"]
            \/ CameTo(c, "raised") /\ toldBar' = [toldBar EXCEPT ![c] = "failure"]
<1>0. PICK o \in Outcomes : End(c, o) /\ EndsAs(c, o)
  BY DEF Ends
<1>1. askedBar' = askedBar /\ c \in askedBar
  BY <1>0 DEF Ends, End, askedBar, IInv, TypeInv
<1>2. outcome[c] = "none" /\ outcome' = [outcome EXCEPT ![c] = o]
  BY <1>0 DEF IInv, OpenInv, Ends, End
<1>3. toldBar[c] = "none"
  BY <1>2, ToldIs DEF ToldOf
<1>4. toldBar' = [toldBar EXCEPT ![c] = ToldOf(o)]
  <2>1. \A d \in Calls : outcome'[d] = IF d = c THEN o ELSE outcome[d]
    BY <1>2 DEF IInv, TypeInv
  <2> QED BY <2>1, ToldIs
<1>5. \/ ToldOf(o) = "nothing"
      \/ ToldOf(o) = "result" /\ CameTo(c, "ok")
      \/ ToldOf(o) = "failure" /\ CameTo(c, "raised")
  BY <1>0 DEF EndsAs, ToldOf
<1> QED BY <1>1, <1>3, <1>4, <1>5

\* The engine of OneEngine.
LEMMA OnlyEngine ==
  ASSUME OneEngine
  PROVE  TheEngine \in Servers /\ \A s \in Servers : s = TheEngine
BY DEF OneEngine, TheEngine, RpcAssumption

Begun == taken[TheEngine]

LEMMA SpawnBegins ==
  ASSUME OneEngine, IInv, Callback(TheEngine), SpawnMethod(TheEngine),
         UNCHANGED <<askedBar, toldBar>>
  PROVE  Repeats!Next
<1> DEFINE s == TheEngine
           c == hand[s]
<1>0. s \in Servers /\ c \in Calls /\ stage[s] = "callback"
  BY OnlyEngine DEF Callback, IInv, TypeInv
<1>1. c \in askedBar
  BY <1>0 DEF IInv, NewInv, TypeInv, askedBar
<1>2. ~Repeats!Recent(c)
  BY <1>0, SpawnedIsNotRecent DEF Repeats!Recent, IInv
<1>3. /\ taken'[s] = Append(taken[s], c)
      /\ runs' = [runs EXCEPT ![c] = Append(runs[c], "pending")]
  BY <1>0 DEF SpawnMethod, IInv, TypeInv
<1> QED BY <1>0, <1>1, <1>2, <1>3 DEF Repeats!Next, Repeats!Begin

LEMMA RunEnds ==
  ASSUME OneEngine, IInv, NEW s \in Servers, NEW t \in tasks[s], RunMethod(s, t),
         UNCHANGED <<askedBar, toldBar>>
  PROVE  Repeats!Next
<1>1. t.call \in Calls /\ TaskTrue(t) /\ t.at = "run"
  BY DEF IInv, TypeInv, Task, TruthInv, RunMethod
<1>2. t.run \in DOMAIN runs[t.call] /\ runs[t.call][t.run] = "pending"
  BY <1>1 DEF TaskTrue, Says
<1>3. PICK o \in {"ok", "raised"} :
         runs' = [runs EXCEPT ![t.call] = [runs[t.call] EXCEPT ![t.run] = o]]
  BY DEF RunMethod
<1>4. taken' = taken
  BY DEF RunMethod
<1>5. Repeats!End(t.call)
  BY <1>2, <1>3, <1>4 DEF Repeats!End, Repeats!Runs
<1> QED BY <1>1, <1>5 DEF Repeats!Next

LEMMA RepeatsInit ==
  ASSUME OneEngine, Init PROVE Repeats!Init
<1>1. askedBar = {} /\ toldBar = [c \in Calls |-> "none"]
  BY DEF Init, askedBar, toldBar
<1>2. taken[TheEngine] = <<>>
  BY OnlyEngine DEF Init
<1> QED BY <1>1, <1>2 DEF Init, Repeats!Init

LEMMA RepeatsStep ==
  ASSUME OneEngine, IInv, [Next]_vars
  PROVE  [Repeats!Next]_<<askedBar, Begun, runs, toldBar>>
<1>1. CASE UNCHANGED <<askedBar, toldBar>>
  <2>1. ASSUME NEW s \in Servers, Callback(s), SpawnMethod(s) PROVE Repeats!Next
    BY <1>1, <2>1, OnlyEngine, SpawnBegins
  <2>2. ASSUME NEW s \in Servers, NEW t \in tasks[s], RunMethod(s, t) PROVE Repeats!Next
    BY <1>1, <2>2, RunEnds
  <2>3. \/ UNCHANGED <<runs, taken>>
        \/ \E s \in Servers : Callback(s) /\ SpawnMethod(s)
        \/ \E s \in Servers : \E t \in tasks[s] : RunMethod(s, t)
    BY StepCases DEF OneEngine, Fault, vars, callerVars, topicVars, engineVars, replyVars,
         Multicall, TopicSend, TopicSendRaises, TopicResend, Hear, GiveUp, Deliver,
         DeliverUnacked, ReplySessionLost, ReplyReconnect, Fetch, Callback, SkipDuplicate,
         Acknowledge, Reconnect, SessionLost, Crash, SendReply, ResendReply, SendReplyRaises
  <2> QED BY <1>1, <2>1, <2>2, <2>3 DEF Begun
<1>2. CASE UNCHANGED <<runs, taken>> /\ \E c \in Calls : Multicall(c) \/ Ends(c)
  <2>1. ASSUME NEW c \in Calls, Multicall(c) PROVE Repeats!Next
    <3>1. c \notin askedBar /\ askedBar' = askedBar \cup {c} /\ UNCHANGED toldBar
      BY <2>1, MulticallAsks DEF IInv
    <3> QED BY <1>2, <3>1 DEF Repeats!Next, Repeats!Ask
  <2>2. ASSUME NEW c \in Calls, Ends(c) PROVE Repeats!Next
    <3>1. Repeats!Tell(c)
      BY <1>2, <2>2, EndTells DEF Repeats!Tell, Repeats!CameTo, CameTo
    <3> QED BY <3>1 DEF Repeats!Next
  <2> QED BY <1>2, <2>1, <2>2
<1> QED BY <1>1, <1>2, CallerSteps

\* With one engine that goes on living, and for any number of calls and any size
\* of the caches, a call is what RpcRepeats says: a request published or delivered
\* again runs again only when DupMsgCheckSize others were taken up since, and a
\* caller is told the result or the failure of a run, or nothing (amqp.py:302-320,
\* 395-444, 470-503, 509-530).
THEOREM CallsKeepPromise ==
  ASSUME OneEngine
  PROVE  Spec => KeepsPromise
<1>1. IInv /\ [Next]_vars => [Repeats!Next]_<<askedBar, Begun, runs, toldBar>>
  BY RepeatsStep
<1>2. Init => Repeats!Init
  BY RepeatsInit
<1> QED BY InitIInv, NextIInv, <1>1, <1>2, PTL DEF KeepsPromise, Repeats!Spec, Begun, Spec
-----------------------------------------------------------------------------
(* RpcCall implements RpcPromise as long as the copies come in time. *)

LEMMA OneLong ==
  ASSUME NEW S, NEW q \in Seq(S), Len(q) <= 1, NEW n \in DOMAIN q
  PROVE  n = 1 /\ q = <<q[n]>>
<1>1. Len(q) \in Nat /\ DOMAIN q = 1 .. Len(q)
  OBVIOUS
<1>2. Len(q) = 1 /\ n = 1
  BY <1>1
<1>3. q \in [1 .. 1 -> S]
  BY <1>2
<1> QED BY <1>2, <1>3

\* The one run of a call, if it has been taken up.
LEMMA TheRun ==
  ASSUME TypeInv, OnceInv, NEW c \in Calls, NEW n \in DOMAIN runs[c]
  PROVE  n = 1 /\ runs[c] = <<runs[c][n]>> /\ runs[c] # <<>>
<1>1. runs[c] \in Seq(RunStates) /\ Len(runs[c]) <= 1
  BY DEF TypeInv, OnceInv
<1>2. Len(runs[c]) # 0
  BY <1>1
<1> QED BY <1>1, <1>2, OneLong

LEMMA CameOnce ==
  ASSUME IInv, OnceInv, NEW c \in Calls, NEW r, r # "pending", CameTo(c, r)
  PROVE  ranBar[c] = <<r>>
<1>1. PICK n \in DOMAIN runs[c] : runs[c][n] = r
  BY DEF CameTo
<1>2. runs[c] = <<r>>
  BY <1>1, TheRun DEF IInv
<1> QED BY <1>2 DEF ranBar

\* The steps of a promise.
LEMMA MayAsk ==
  ASSUME NEW c \in Calls, c \notin askedBar, askedBar' = askedBar \cup {c}, UNCHANGED <<ranBar, toldBar>>
  PROVE  Promise!Next
BY DEF Promise!Next, Promise!Ask

LEMMA MayRun ==
  ASSUME NEW c \in Calls, c \in askedBar, ranBar[c] = <<>>, NEW how \in {"ok", "raised"},
         ranBar' = [ranBar EXCEPT ![c] = <<how>>], UNCHANGED <<askedBar, toldBar>>
  PROVE  Promise!Next
BY DEF Promise!Next, Promise!Run, Promise!Runs

LEMMA MayTell ==
  ASSUME NEW c \in Calls, c \in askedBar, toldBar[c] = "none", NEW what,
         toldBar' = [toldBar EXCEPT ![c] = what],
         \/ what = "nothing"
         \/ what = "result" /\ ranBar[c] = <<"ok">>
         \/ what = "failure" /\ ranBar[c] = <<"raised">>,
         UNCHANGED <<askedBar, ranBar>>
  PROVE  Promise!Next
BY DEF Promise!Next, Promise!Tell

\* A method that has returned or raised is a run; one that is taken up is not yet.
LEMMA RanSame ==
  ASSUME OneEngine, IInv, OnceInv, OnceInv', [Next]_vars,
         \A s \in Servers : \A t \in tasks[s] : ~RunMethod(s, t)
  PROVE  ranBar' = ranBar
<1> SUFFICES ASSUME NEW c \in Calls
             PROVE  (IF runs'[c] = <<"pending">> THEN <<>> ELSE runs'[c])
                    = (IF runs[c] = <<"pending">> THEN <<>> ELSE runs[c])
  BY DEF ranBar
<1>1. ASSUME runs'[c] = Append(runs[c], "pending")
      PROVE  runs[c] = <<>> /\ runs'[c] = <<"pending">>
  <2>1. runs[c] \in Seq(RunStates) /\ "pending" \in RunStates
    BY DEF IInv, TypeInv, RunStates
  <2>2. Len(Append(runs[c], "pending")) <= 1
    BY <1>1 DEF OnceInv
  <2>3. runs[c] = <<>>
    BY <2>1, <2>2
  <2>4. Append(<<>>, "pending") = <<"pending">>
    OBVIOUS
  <2> QED BY <1>1, <2>3, <2>4, Zenon
<1>2. runs'[c] = runs[c] \/ (runs[c] = <<>> /\ runs'[c] = <<"pending">>)
  BY <1>1, RunsChange DEF IInv
<1>3. <<"pending">> # <<>>
  OBVIOUS
<1> QED BY <1>2, <1>3, Zenon

LEMMA RanMoves ==
  ASSUME IInv, OnceInv, NEW s \in Servers, NEW t \in tasks[s], RunMethod(s, t)
  PROVE  /\ t.call \in askedBar /\ ranBar[t.call] = <<>>
         /\ \E how \in {"ok", "raised"} : ranBar' = [ranBar EXCEPT ![t.call] = <<how>>]
<1> DEFINE c == t.call
<1>1. TaskTrue(t)
  BY DEF IInv, TruthInv
<1>2. /\ c \in Calls /\ t.run \in DOMAIN runs[c] /\ runs[c][t.run] = "pending"
      /\ runs'[c][t.run] \in {"ok", "raised"}
      /\ DOMAIN runs'[c] = DOMAIN runs[c]
      /\ \A d \in Calls : d # c => runs'[d] = runs[d]
  <2>1. t.call \in Calls
    BY DEF IInv, TypeInv, Task
  <2>2. \A d \in Calls : d # c => runs'[d] = runs[d]
    BY <2>1 DEF IInv, TypeInv, RunMethod
  <2> QED BY <1>1, <2>2, RunMethodRuns DEF IInv
<1>3. t.run = 1 /\ runs[c] = <<"pending">> /\ runs[c] # <<>>
  BY <1>2, TheRun DEF IInv
<1>4. PICK how \in {"ok", "raised"} : runs'[c] = <<how>>
  <2>1. PICK o \in RunStates : runs' = [runs EXCEPT ![c] = [runs[c] EXCEPT ![t.run] = o]]
    BY DEF RunMethod, RunStates
  <2>2. runs'[c] = [runs[c] EXCEPT ![1] = o]
    BY <1>2, <1>3, <2>1 DEF IInv, TypeInv
  <2>3. [<<"pending">> EXCEPT ![1] = o] = <<o>>
    OBVIOUS
  <2>4. runs'[c] = <<o>>
    BY <1>3, <2>2, <2>3, Zenon
  <2>5. o \in {"ok", "raised"}
    BY <1>2, <1>3, <2>4
  <2> QED BY <2>4, <2>5
<1>5. <<how>> # <<"pending">> /\ how # "pending"
  BY <1>4
<1>6. c \in askedBar
  BY <1>2, <1>3 DEF askedBar, IInv, NewInv
<1>7. ranBar[c] = <<>>
  BY <1>2, <1>3 DEF ranBar
<1>8. ranBar' = [ranBar EXCEPT ![c] = <<how>>]
  <2>1. ranBar' = [d \in Calls |-> IF runs'[d] = <<"pending">> THEN <<>> ELSE runs'[d]]
    BY DEF ranBar
  <2>2. ASSUME NEW d \in Calls
        PROVE  (IF runs'[d] = <<"pending">> THEN <<>> ELSE runs'[d])
               = (IF d = c THEN <<how>> ELSE ranBar[d])
    BY <1>2, <1>4, <1>5, Zenon DEF ranBar
  <2>3. ranBar \in [Calls -> {ranBar[d] : d \in Calls}]
    BY DEF ranBar
  <2> HIDE DEF c
  <2> QED BY <2>1, <2>2, <2>3
<1> QED BY <1>6, <1>7, <1>8

LEMMA PromiseInit ==
  ASSUME Init PROVE Promise!Init
<1>1. askedBar = {} /\ toldBar = [c \in Calls |-> "none"]
  BY DEF Init, askedBar, toldBar
<1>2. <<>> # <<"pending">>
  OBVIOUS
<1>3. ranBar = [c \in Calls |-> <<>>]
  BY <1>2 DEF Init, ranBar
<1> QED BY <1>1, <1>3 DEF Promise!Init

LEMMA PromiseStep ==
  ASSUME OneEngine, IInv, OnceInv, OnceInv', [Next]_vars
  PROVE  [Promise!Next]_<<askedBar, ranBar, toldBar>>
<1>1. ASSUME NEW s \in Servers, NEW t \in tasks[s], RunMethod(s, t) PROVE Promise!Next
  <2>1. UNCHANGED <<askedBar, toldBar>> /\ t.call \in Calls
    BY <1>1 DEF RunMethod, callerVars, askedBar, toldBar, IInv, TypeInv, Task
  <2> QED BY <1>1, <2>1, RanMoves, MayRun
<1>2. CASE \A s \in Servers : \A t \in tasks[s] : ~RunMethod(s, t)
  <2>0. ranBar' = ranBar
    BY <1>2, RanSame
  <2>1. ASSUME NEW c \in Calls, Multicall(c) PROVE Promise!Next
    <3>1. c \notin askedBar /\ askedBar' = askedBar \cup {c} /\ UNCHANGED toldBar
      BY <2>1, MulticallAsks
    <3> QED BY <2>0, <3>1, MayAsk
  <2>2. ASSUME NEW c \in Calls, Ends(c) PROVE Promise!Next
    <3>1. /\ CameTo(c, "ok") => ranBar[c] = <<"ok">>
          /\ CameTo(c, "raised") => ranBar[c] = <<"raised">>
      BY CameOnce
    <3> QED BY <2>0, <2>2, <3>1, EndTells, MayTell
  <2> QED BY <2>0, <2>1, <2>2, CallerSteps
<1> QED BY <1>1, <1>2

\* With one engine that goes on living, as long as no copy of a request comes after
\* DupMsgCheckSize others were taken up, a call is what RpcPromise says: it runs at
\* most once, and its caller is told the result or the failure of that run, or
\* nothing (amqp.py:302-320, 395-444, 470-503, 509-530).
THEOREM RunsOnceInTime ==
  ASSUME OneEngine
  PROVE  Spec /\ []InTime => Promise!Spec
<1>1. Init => IInv /\ OnceInv /\ Promise!Init
  BY InitIInv, InitOnce, PromiseInit
<1>2. IInv /\ OnceInv /\ InTime /\ [Next]_vars => IInv' /\ OnceInv'
  BY NextIInv, NextOnce DEF IInv
<1>3. IInv /\ OnceInv /\ OnceInv' /\ [Next]_vars => [Promise!Next]_<<askedBar, ranBar, toldBar>>
  BY PromiseStep
<1> QED BY <1>1, <1>2, <1>3, PTL DEF Promise!Spec, Spec
=============================================================================
