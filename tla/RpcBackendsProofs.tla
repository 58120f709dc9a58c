--------------------------- MODULE RpcBackendsProofs ---------------------------
(***************************************************************************)
(* What is proved of RpcBackends, for any hosts, threads, messages, sizes  *)
(* of backlog and pool, and any failures: both drivers keep RpcPromise, an *)
(* engine with heartbeats is listed, and a fanout of the fake driver       *)
(* misses no more consumers than it had called that were closed.           *)
(***************************************************************************)
EXTENDS RpcBackendsInv, SequenceLemmas, FiniteSetTheorems

(* Messages and their topics. *)

LEMMA MessageFacts ==
  /\ \A c \in Threads : /\ Request(c) \in Messages /\ Reply(c) \in Messages
                        /\ Request(c)[1] = c /\ Reply(c)[1] = c
                        /\ Request(c)[2] = "request" /\ Reply(c)[2] = "reply"
  /\ \A m \in Messages : m[1] \in Threads /\ m \in {Request(m[1]), Reply(m[1])}
BY DEF Messages, Request, Reply

LEMMA Distinct ==
  /\ \A c, d \in Threads : Request(c) # Reply(d)
  /\ \A c, d \in Threads : c # d => Request(c) # Request(d) /\ Reply(c) # Reply(d)
BY DEF Request, Reply

LEMMA TopicFacts ==
  ASSUME NEW m \in Messages
  PROVE  /\ TopicOf(m) \in Topics
         /\ TopicOf(m) = "replies" <=> m = Reply(m[1])
<1>1. CASE m[2] = "reply"
  <2>1. m = Reply(m[1])
    BY <1>1, MessageFacts
  <2> QED BY <1>1, <2>1 DEF TopicOf, Topics
<1>2. CASE m[2] # "reply"
  <2>1. m # Reply(m[1])
    BY <1>2, MessageFacts
  <2>2. TopicOf(m) \in {"notify", "fanout", "engine"}
    BY <1>2 DEF TopicOf
  <2> QED BY <2>1, <2>2 DEF Topics
<1> QED BY <1>1, <1>2

LEMMA TopicSame == UNCHANGED <<op, kind>> => \A m \in Messages : TopicOf(m)' = TopicOf(m)
BY DEF TopicOf, Redis

LEMMA QueueSet ==
  ASSUME queue \in [Hosts -> [Topics -> Seq(Messages)]],
         NEW h \in Hosts, NEW t \in Topics, NEW s \in Seq(Messages)
  PROVE  /\ [queue EXCEPT ![h][t] = s] \in [Hosts -> [Topics -> Seq(Messages)]]
         /\ \A g \in Hosts, u \in Topics :
               [queue EXCEPT ![h][t] = s][g][u] = IF g = h /\ u = t THEN s ELSE queue[g][u]
OBVIOUS

(* What the receiver's steps do to messages and backlogs. *)

LEMMA LoseFacts ==
  ASSUME WireTypeInv, NEW ms, NEW why, Lose(ms, why)
  PROVE  /\ place' \in [Messages -> {"none", "wire", "making", "queue", "inbox", "run", "done", "lost"}]
         /\ \A m \in Messages : place'[m] = IF m \in ms THEN "lost" ELSE place[m]
BY DEF Lose, WireTypeInv

LEMMA PutFacts ==
  ASSUME WireTypeInv, NEW h \in Hosts, NEW m \in Messages, Put(h, m)
  PROVE  /\ place' \in [Messages -> {"none", "wire", "making", "queue", "inbox", "run", "done", "lost"}]
         /\ queue' \in [Hosts -> [Topics -> Seq(Messages)]]
         /\ \A n \in Messages \ {m} : place'[n] = place[n]
         /\ \/ place'[m] = "lost" /\ queue' = queue
            \/ /\ place'[m] = "queue"
               /\ Len(queue[h][TopicOf(m)]) <= Backlog
               /\ \A g \in Hosts, u \in Topics :
                     queue'[g][u] = IF g = h /\ u = TopicOf(m) THEN Append(queue[g][u], m)
                                    ELSE queue[g][u]
<1>0. TopicOf(m) \in Topics
  BY TopicFacts
<1>1. CASE Lose({m}, "full") /\ UNCHANGED queue
  BY <1>1, LoseFacts DEF WireTypeInv
<1>2. CASE /\ Len(queue[h][TopicOf(m)]) <= Backlog
           /\ queue' = [queue EXCEPT ![h][TopicOf(m)] = Append(@, m)]
           /\ place' = [place EXCEPT ![m] = "queue"]
  <2>1. Append(queue[h][TopicOf(m)], m) \in Seq(Messages)
    BY <1>0, Appended DEF WireTypeInv
  <2>2. queue' = [queue EXCEPT ![h][TopicOf(m)] = Append(queue[h][TopicOf(m)], m)]
    BY <1>2
  <2>3. /\ queue' \in [Hosts -> [Topics -> Seq(Messages)]]
        /\ \A g \in Hosts, u \in Topics :
              queue'[g][u] = IF g = h /\ u = TopicOf(m) THEN Append(queue[h][TopicOf(m)], m)
                             ELSE queue[g][u]
    BY <1>0, <2>1, <2>2, QueueSet DEF WireTypeInv
  <2>4. /\ place' \in [Messages -> {"none", "wire", "making", "queue", "inbox", "run", "done", "lost"}]
        /\ place'[m] = "queue" /\ \A n \in Messages \ {m} : place'[n] = place[n]
    BY <1>2 DEF WireTypeInv
  <2> QED BY <1>2, <2>3, <2>4
<1> QED BY <1>1, <1>2 DEF Put

(* Which steps there are. *)

AsksOf(c) == AskLocalhost(c) \/ AskRing(c) \/ AskRedis(c) \/ Prune(c)

LEMMA StepOf ==
  ASSUME Next
  PROVE  \/ /\ Zmq /\ UNCHANGED <<backend, fakeVars>>
            /\ \/ \E c \in Threads : AsksOf(c) \/ Send(c) \/ Timeout(c) \/ Join(c)
               \/ \E h \in Hosts : Registry(h) \/ EngineEnds(h) \/ Listen(h) \/ ReceiverRestarts(h)
                                   \/ ReceiverDies(h)
               \/ \E h \in Hosts, m \in Messages :
                     Consume(h, m) \/ Made(h, m) \/ Read(h, m) \/ Process(h, m)
               \/ \E h \in Hosts, t \in Topics : Publish(h, t)
               \/ TimePasses
         \/ /\ ~Zmq /\ UNCHANGED <<backend, zmqVars>>
            /\ \/ \E c \in Threads : Fake!Spawn(c) \/ Fake!SpawnNext(c) \/ Fake!RunMethod(c)
                                     \/ Fake!Hear(c) \/ Fake!GiveUp(c)
               \/ \E k \in Connections : Fake!CreateConsumer(k) \/ Fake!CloseConnection(k)
BY DEF Next, ZmqNext, ClientStep, ReceiverStep, AsksOf, Zmq, Fake!FakeNext, Fake!CallerStep

(* Settings. *)

LEMMA FaultsLeft ==
  ASSUME faults \in Nat, faults > 0, NEW n, n = faults - 1
  PROVE  n \in Nat
OBVIOUS

LEMMA ConfigStep ==
  ASSUME SettingInv, Next
  PROVE  UNCHANGED config /\ faults' \in Nat
<1>1. CASE Zmq /\ UNCHANGED <<backend, fakeVars>>
  <2>1. ASSUME NEW c \in Threads, AsksOf(c) \/ Send(c) \/ Timeout(c) \/ Join(c)
        PROVE  UNCHANGED config /\ faults' \in Nat
    BY <2>1 DEF SettingInv, AsksOf, AskLocalhost, AskRing, AskRedis, Prune, Send, Timeout, Join
  <2>2. ASSUME NEW h \in Hosts, Registry(h) \/ Listen(h) \/ ReceiverRestarts(h)
        PROVE  UNCHANGED config /\ faults' \in Nat
    BY <2>2 DEF SettingInv, Registry, Listen, ReceiverRestarts
  <2>3. ASSUME NEW h \in Hosts, EngineEnds(h) \/ ReceiverDies(h)
        PROVE  UNCHANGED config /\ faults' \in Nat
    BY <2>3, FaultsLeft DEF SettingInv, EngineEnds, EngineGone, ReceiverDies
  <2>4. ASSUME NEW h \in Hosts, NEW m \in Messages,
               Consume(h, m) \/ Made(h, m) \/ Read(h, m) \/ Process(h, m)
        PROVE  UNCHANGED config /\ faults' \in Nat
    BY <2>4 DEF SettingInv, Consume, Made, Read, Process
  <2>5. ASSUME NEW h \in Hosts, NEW t \in Topics, Publish(h, t)
        PROVE  UNCHANGED config /\ faults' \in Nat
    BY <2>5 DEF SettingInv, Publish
  <2>6. ASSUME TimePasses PROVE UNCHANGED config /\ faults' \in Nat
    BY <2>6, FaultsLeft DEF SettingInv, TimePasses, Tick
  <2> QED BY <1>1, <2>1, <2>2, <2>3, <2>4, <2>5, <2>6, StepOf
<1>2. CASE UNCHANGED <<backend, zmqVars>>
  BY <1>2 DEF SettingInv, zmqVars
<1> QED BY <1>1, <1>2, StepOf

LEMMA SettingStep ==
  ASSUME SettingInv, Next
  PROVE  SettingInv'
BY ConfigStep, StepOf DEF SettingInv, Zmq, config

(* Who is registered. *)

LEMMA Reached == ASSUME NEW n \in Nat \ {0}, NEW i \in 1 .. n PROVE (i % n) + 1 \in 1 .. n
OBVIOUS

LEMMA KeyTypes == {None, Unset, Ttl} \subseteq None .. Ttl
BY MatchMakerAssumption DEF None, Unset

LEMMA KeySet ==
  ASSUME ttl \in [Hosts -> None .. Ttl], NEW h \in Hosts, NEW v \in {None, Unset, Ttl}
  PROVE  [ttl EXCEPT ![h] = v] \in [Hosts -> None .. Ttl]
BY KeyTypes

LEMMA RegistryType ==
  ASSUME MatchTypeInv, NEW h \in Hosts, MatchStep(h), UNCHANGED turn PROVE MatchTypeInv'
<1>1. ttl' \in [Hosts -> None .. Ttl]
  BY KeySet DEF MatchTypeInv, MatchStep, Register, Acknowledge, AckAlive, EngineUp, Heartbeat
<1>2. CASE Register(h)
  <2>1. step' \in [Hosts -> Nat]
    BY <1>2 DEF MatchTypeInv, Register
  <2> QED BY <1>1, <1>2, <2>1 DEF MatchTypeInv, Register
<1>3. CASE Acknowledge(h)
  BY <1>1, <1>3 DEF MatchTypeInv, Acknowledge, AckAlive
<1>4. CASE EngineUp(h)
  BY <1>1, <1>4 DEF MatchTypeInv, EngineUp
<1>5. CASE Heartbeat(h)
  <2>1. UNCHANGED <<members, engine, step>> /\ heart' \subseteq heart /\ beaten' \subseteq heart'
    BY <1>5 DEF MatchTypeInv, Heartbeat, AckAlive
  <2> QED BY <1>1, <2>1 DEF MatchTypeInv
<1> QED BY <1>2, <1>3, <1>4, <1>5 DEF MatchStep

LEMMA MatchTypeStep ==
  ASSUME SettingInv, MatchTypeInv, WireTypeInv, Next
  PROVE  MatchTypeInv'
<1> USE MatchMakerAssumption
<1>1. CASE UNCHANGED <<matchVars, turn>>
  BY <1>1 DEF MatchTypeInv, matchVars
<1>2. ASSUME NEW c \in Threads, AsksOf(c) PROVE MatchTypeInv'
  <2>1. CASE AskLocalhost(c)
    BY <1>1, <2>1 DEF AskLocalhost
  <2>2. CASE AskRing(c)
    <3>1. UNCHANGED turn \/ (Ring # <<>> /\ turn' = (turn % Len(Ring)) + 1)
      BY <2>2 DEF AskRing, NoMatch, Found
    <3>2. Ring # <<>> => Len(Ring) \in Nat \ {0}
      OBVIOUS
    <3>3. turn' \in Nat /\ (Ring # <<>> => turn' \in 1 .. Len(Ring))
      BY <3>1, <3>2, Reached DEF MatchTypeInv
    <3> QED BY <2>2, <3>3 DEF AskRing, MatchTypeInv, matchVars
  <2>3. CASE AskRedis(c)
    BY <2>3 DEF AskRedis, MatchTypeInv
  <2>4. CASE Prune(c)
    <3>1. chosen[c] \in Hosts
      BY DEF WireTypeInv
    <3>2. ttl' \in [Hosts -> None .. Ttl]
      BY <2>4, <3>1, KeySet DEF Prune, Expire, MatchTypeInv
    <3> QED BY <2>4, <3>2 DEF Prune, Expire, MatchTypeInv
  <2> QED BY <1>2, <2>1, <2>2, <2>3, <2>4 DEF AsksOf
<1>3. ASSUME NEW c \in Threads, Send(c) \/ Timeout(c) \/ Join(c) PROVE MatchTypeInv'
  BY <1>1, <1>3 DEF Send, Timeout, Join
<1>4. ASSUME NEW h \in Hosts, Registry(h) PROVE MatchTypeInv'
  BY <1>4, RegistryType DEF Registry, clientVars
<1>5. ASSUME NEW h \in Hosts, EngineEnds(h) PROVE MatchTypeInv'
  BY <1>5 DEF EngineEnds, EngineGone, clientVars, MatchTypeInv
<1>6. ASSUME NEW h \in Hosts, Listen(h) \/ ReceiverRestarts(h) \/ ReceiverDies(h) PROVE MatchTypeInv'
  BY <1>1, <1>6 DEF Listen, ReceiverRestarts, ReceiverDies, clientVars
<1>7. ASSUME NEW h \in Hosts, NEW m \in Messages,
             Consume(h, m) \/ Made(h, m) \/ Read(h, m) \/ Process(h, m)
      PROVE  MatchTypeInv'
  BY <1>1, <1>7 DEF Consume, Made, Read, Process, clientVars
<1>8. ASSUME NEW h \in Hosts, NEW t \in Topics, Publish(h, t) PROVE MatchTypeInv'
  BY <1>1, <1>8 DEF Publish
<1>9. ASSUME TimePasses PROVE MatchTypeInv'
  BY <1>9 DEF TimePasses, Tick, clientVars, MatchTypeInv, None
<1>10. CASE UNCHANGED zmqVars
  BY <1>1, <1>10 DEF zmqVars, clientVars
<1> QED BY <1>2, <1>3, <1>4, <1>5, <1>6, <1>7, <1>8, <1>9, <1>10, StepOf

(* Clients, messages and receivers. *)

LEMMA RingHosts == Ring # <<>> => \A i \in 1 .. Len(Ring) : Ring[i] \in Hosts
BY MatchMakerAssumption

LEMMA AskedHosts ==
  ASSUME MatchTypeInv, NEW c \in Threads, AsksOf(c)
  PROVE  chosen' = chosen \/ \E h \in Hosts : chosen' = [chosen EXCEPT ![c] = h]
<1>1. CASE AskRing(c)
  <2>1. CASE Ring = <<>> \/ op[c] = "notify"
    BY <1>1, <2>1 DEF AskRing, NoMatch
  <2>2. CASE ~(Ring = <<>> \/ op[c] = "notify")
    <3>1. Found(c, Ring[1]) \/ Found(c, Ring[turn])
      BY <1>1, <2>2 DEF AskRing
    <3>2. Ring[1] \in Hosts /\ Ring[turn] \in Hosts
      BY <2>2, MatchMakerAssumption, RingHosts DEF MatchTypeInv
    <3> QED BY <3>1, <3>2 DEF Found
  <2> QED BY <2>1, <2>2
<1>2. CASE AskLocalhost(c)
  BY <1>2, MatchMakerAssumption DEF AskLocalhost, Found
<1>3. CASE AskRedis(c)
  BY <1>3 DEF AskRedis, Found, NoMatch, MatchTypeInv
<1>4. CASE Prune(c)
  BY <1>4 DEF Prune
<1> QED BY <1>1, <1>2, <1>3, <1>4 DEF AsksOf

\* What a client does until it sends.
LEMMA AskFacts ==
  ASSUME WireTypeInv, NEW c \in Threads, AsksOf(c)
  PROVE  /\ pc[c] \in {"ask", "prune"}
         /\ \E to \in {"ask", "prune", "send", "done"} : pc' = [pc EXCEPT ![c] = to]
         /\ outcome' = outcome
            \/ (pc'[c] = "done" /\ outcome' = [outcome EXCEPT ![c] = "nomatch"])
         /\ UNCHANGED <<joined, wireVars, engineVars>>
<1>1. CASE AskLocalhost(c)
  BY <1>1 DEF AskLocalhost, Found
<1>2. CASE AskRing(c)
  BY <1>2 DEF AskRing, Found, NoMatch, WireTypeInv
<1>3. CASE AskRedis(c)
  BY <1>3 DEF AskRedis, Found, NoMatch, WireTypeInv
<1>4. CASE Prune(c)
  BY <1>4 DEF Prune
<1> QED BY <1>1, <1>2, <1>3, <1>4 DEF AsksOf

LEMMA PublishFacts ==
  ASSUME WireTypeInv, QueueInv, NEW h \in Hosts, NEW t \in Topics, Publish(h, t)
  PROVE  LET m == Head(queue[h][t]) IN
         /\ m \in Messages /\ m = queue[h][t][1] /\ queue[h][t] # <<>>
         /\ place[m] = "queue" /\ TopicOf(m) = t
         /\ queue' = [queue EXCEPT ![h][t] = Tail(queue[h][t])]
         /\ Tail(queue[h][t]) \in Seq(Messages)
         /\ \A n \in Messages \ {m} : place'[n] = place[n]
         /\ place' \in [Messages -> {"none", "wire", "making", "queue", "inbox", "run", "done", "lost"}]
         /\ \/ /\ m = Reply(m[1]) /\ m[1] \in joined
               /\ place'[m] = "done"
               /\ pc' = [pc EXCEPT ![m[1]] = "done"]
               /\ outcome' = [outcome EXCEPT ![m[1]] =
                                 IF Last(ran[m[1]]) = "ok" THEN "result" ELSE "failure"]
               /\ joined' = joined \ {m[1]}
            \/ /\ place'[m] \in {"inbox", "lost"}
               /\ place'[m] = "inbox" => m # Reply(m[1])
               /\ UNCHANGED <<pc, outcome, joined>>
<1> DEFINE m == Head(queue[h][t])
           P == {"none", "wire", "making", "queue", "inbox", "run", "done", "lost"}
<1>0. queue[h][t] \in Seq(Messages) /\ queue[h][t] # <<>>
  BY DEF Publish, WireTypeInv
<1>1. /\ m \in Messages /\ m = queue[h][t][1] /\ 1 \in 1 .. Len(queue[h][t])
      /\ Tail(queue[h][t]) \in Seq(Messages)
  BY <1>0
<1>2. place[m] = "queue" /\ TopicOf(m) = t
  BY <1>1 DEF QueueInv
<1>3. t = "replies" <=> m = Reply(m[1])
  BY <1>1, <1>2, TopicFacts
<1>4. place \in [Messages -> P]
  BY DEF WireTypeInv
<1>5. queue' = [queue EXCEPT ![h][t] = Tail(queue[h][t])]
  BY DEF Publish
<1>6. CASE t = "replies" /\ Listeners(h, m) # {}
  <2>1. Listeners(h, m) = {m[1]} \cap joined
    BY <1>2, <1>6 DEF Listeners
  <2>2. m[1] \in joined
    BY <1>6, <2>1
  <2>3. PICK c \in Listeners(h, m) :
            /\ place' = [place EXCEPT ![m] = "done"]
            /\ pc' = [pc EXCEPT ![c] = "done"]
            /\ outcome' = [outcome EXCEPT ![c] = IF Last(ran[m[1]]) = "ok" THEN "result" ELSE "failure"]
            /\ joined' = joined \ {c}
    BY <1>6 DEF Publish
  <2>4. c = m[1]
    BY <2>1, <2>3
  <2>5. /\ place'[m] = "done" /\ place' \in [Messages -> P]
        /\ \A n \in Messages \ {m} : place'[n] = place[n]
    BY <1>1, <1>4, <2>3
  <2> QED BY <1>0, <1>1, <1>2, <1>3, <1>5, <1>6, <2>2, <2>3, <2>4, <2>5
<1>7. CASE ~(t = "replies" /\ Listeners(h, m) # {})
  <2>1. /\ UNCHANGED <<pc, outcome, joined>>
        /\ \/ t = "engine" /\ place' = [place EXCEPT ![m] = "inbox"]
           \/ t = "fanout" /\ place' = [place EXCEPT ![m] = "inbox"]
           \/ Lose({m}, "nobody")
    BY <1>7 DEF Publish
  <2>2. CASE t \in {"engine", "fanout"} /\ place' = [place EXCEPT ![m] = "inbox"]
    <3>1. /\ place'[m] = "inbox" /\ place' \in [Messages -> P]
          /\ \A n \in Messages \ {m} : place'[n] = place[n]
      BY <1>1, <1>4, <2>2
    <3>2. m # Reply(m[1])
      BY <1>3, <2>2
    <3> QED BY <1>0, <1>1, <1>2, <1>5, <2>1, <3>1, <3>2
  <2>3. CASE Lose({m}, "nobody")
    <3>1. /\ place'[m] = "lost" /\ place' \in [Messages -> P]
          /\ \A n \in Messages \ {m} : place'[n] = place[n]
      BY <1>1, <2>3, LoseFacts
    <3> QED BY <1>0, <1>1, <1>2, <1>5, <2>1, <3>1
  <2> QED BY <2>1, <2>2, <2>3
<1> QED BY <1>6, <1>7

LEMMA ProcessFacts ==
  ASSUME SettingInv, WireTypeInv, CourseInv, NEW h \in Hosts, NEW m \in Messages, Process(h, m)
  PROVE  LET c == m[1] IN
         /\ c \in Threads /\ m = Request(c) /\ place[m] = "run" /\ dest[m] = h
         /\ place[Reply(c)] = "none" /\ ran[c] = <<>>
         /\ \E how \in Outcomes : ran' = [ran EXCEPT ![c] = <<how>>]
         /\ place' \in [Messages -> {"none", "wire", "making", "queue", "inbox", "run", "done", "lost"}]
         /\ place'[m] = "done" /\ place'[Reply(c)] \in {"none", "wire"}
         /\ dest' \in [Messages -> Hosts]
         /\ \A n \in Messages \ {m, Reply(c)} : place'[n] = place[n]
         /\ \A n \in Messages \ {Reply(c)} : dest'[n] = dest[n]
         /\ UNCHANGED <<pc, outcome, joined, chosen, made, queue>>
<1> DEFINE c == m[1]
           P == {"none", "wire", "making", "queue", "inbox", "run", "done", "lost"}
<1>1. c \in Threads /\ m \in {Request(c), Reply(c)} /\ Reply(c) \in Messages /\ Request(c) # Reply(c)
  BY MessageFacts, Distinct
<1>2. place[m] = "run" /\ dest[m] = h /\ CourseOf(c)
  BY <1>1 DEF Process, CourseInv
<1>3. m = Request(c) /\ place[Reply(c)] = "none" /\ ran[c] = <<>>
  BY <1>1, <1>2 DEF CourseOf
<1>4. PICK how \in Outcomes : ran' = [ran EXCEPT ![c] = Append(@, how)]
  BY DEF Process, Outcomes
<1>5. ran' = [ran EXCEPT ![c] = <<how>>]
  BY <1>1, <1>3, <1>4 DEF WireTypeInv
<1>6. /\ \/ place' = [place EXCEPT ![m] = "done", ![Reply(c)] = "wire"]
            /\ dest' = [dest EXCEPT ![Reply(c)] = home[c]]
         \/ place' = [place EXCEPT ![m] = "done"] /\ UNCHANGED dest
      /\ UNCHANGED <<clientVars, made, queue>>
  BY DEF Process
<1>7. home[c] \in Hosts /\ dest \in [Messages -> Hosts] /\ place \in [Messages -> P]
  BY <1>1 DEF SettingInv, WireTypeInv
<1>8. /\ place' \in [Messages -> P] /\ place'[m] = "done" /\ place'[Reply(c)] \in {"none", "wire"}
      /\ \A n \in Messages \ {m, Reply(c)} : place'[n] = place[n]
  BY <1>1, <1>3, <1>6, <1>7
<1>9. dest' \in [Messages -> Hosts] /\ \A n \in Messages \ {Reply(c)} : dest'[n] = dest[n]
  BY <1>1, <1>6, <1>7
<1> QED BY <1>1, <1>2, <1>3, <1>5, <1>6, <1>8, <1>9 DEF clientVars

LEMMA WireTypeStep ==
  ASSUME SettingInv, MatchTypeInv, WireTypeInv, QueueInv, CourseInv, Next
  PROVE  WireTypeInv'
<1> DEFINE P == {"none", "wire", "making", "queue", "inbox", "run", "done", "lost"}
<1>1. CASE UNCHANGED <<clientVars, wireVars, engineVars>>
  BY <1>1 DEF WireTypeInv, clientVars, wireVars, engineVars
<1>2. ASSUME NEW c \in Threads, AsksOf(c) PROVE WireTypeInv'
  <2>1. /\ pc' \in [Threads -> {"ask", "prune", "send", "wait", "done"}]
        /\ outcome' \in [Threads -> {"none", "sent", "nomatch", "timeout", "result", "failure"}]
        /\ UNCHANGED <<joined, wireVars, engineVars>>
    <3>1. PICK to \in {"ask", "prune", "send", "done"} : pc' = [pc EXCEPT ![c] = to]
      BY <1>2, AskFacts
    <3>2. outcome' \in {outcome, [outcome EXCEPT ![c] = "nomatch"]}
          /\ UNCHANGED <<joined, wireVars, engineVars>>
      BY <1>2, AskFacts
    <3> QED BY <3>1, <3>2 DEF WireTypeInv
  <2>2. chosen' \in [Threads -> Hosts]
    BY <1>2, AskedHosts DEF WireTypeInv
  <2> QED BY <2>1, <2>2 DEF WireTypeInv, wireVars, engineVars
<1>3. ASSUME NEW c \in Threads, Send(c) PROVE WireTypeInv'
  <2>1. chosen[c] \in Hosts /\ Request(c) \in Messages
    BY MessageFacts DEF WireTypeInv
  <2>2. place' \in [Messages -> P] /\ dest' \in [Messages -> Hosts]
    BY <1>3, <2>1 DEF WireTypeInv, Send
  <2>3. /\ pc' \in [Threads -> {"ask", "prune", "send", "wait", "done"}]
        /\ outcome' \in [Threads -> {"none", "sent", "nomatch", "timeout", "result", "failure"}]
    BY <1>3 DEF WireTypeInv, Send
  <2> QED BY <1>3, <2>2, <2>3 DEF WireTypeInv, Send, engineVars
<1>4. ASSUME NEW c \in Threads, Timeout(c) \/ Join(c) PROVE WireTypeInv'
  BY <1>4 DEF WireTypeInv, Timeout, Join, wireVars, engineVars
<1>5. ASSUME NEW h \in Hosts, Registry(h) \/ Listen(h) \/ ReceiverRestarts(h) PROVE WireTypeInv'
  BY <1>5 DEF WireTypeInv, Registry, Listen, ReceiverRestarts, clientVars, wireVars, engineVars
<1>6. ASSUME NEW h \in Hosts, EngineEnds(h) PROVE WireTypeInv'
  <2>1. place' \in [Messages -> P]
    BY <1>6, LoseFacts DEF EngineEnds
  <2> QED BY <1>6, <2>1 DEF WireTypeInv, EngineEnds, clientVars
<1>7. ASSUME NEW h \in Hosts, ReceiverDies(h) PROVE WireTypeInv'
  <2>1. place' \in [Messages -> P]
    BY <1>7, LoseFacts DEF ReceiverDies
  <2>2. queue' \in [Hosts -> [Topics -> Seq(Messages)]]
    <3>1. [t \in Topics |-> <<>>] \in [Topics -> Seq(Messages)]
      OBVIOUS
    <3> QED BY <1>7, <3>1 DEF WireTypeInv, ReceiverDies
  <2>3. made' \in [Hosts -> SUBSET Topics] /\ joined' \subseteq Threads
    BY <1>7 DEF WireTypeInv, ReceiverDies
  <2> QED BY <1>7, <2>1, <2>2, <2>3 DEF WireTypeInv, ReceiverDies
<1>8. ASSUME NEW h \in Hosts, NEW m \in Messages, Consume(h, m) PROVE WireTypeInv'
  <2>1. CASE Put(h, m) /\ UNCHANGED made
    BY <1>8, <2>1, PutFacts DEF WireTypeInv, Consume, clientVars, engineVars
  <2>2. CASE /\ made' = [made EXCEPT ![h] = @ \cup {TopicOf(m)}]
             /\ place' = [place EXCEPT ![m] = "making"] /\ UNCHANGED queue
    <3>1. made' \in [Hosts -> SUBSET Topics] /\ place' \in [Messages -> P]
      BY <2>2, TopicFacts DEF WireTypeInv
    <3> QED BY <1>8, <2>2, <3>1 DEF WireTypeInv, Consume, clientVars, engineVars
  <2> QED BY <1>8, <2>1, <2>2 DEF Consume
<1>9. ASSUME NEW h \in Hosts, NEW m \in Messages, Made(h, m) PROVE WireTypeInv'
  BY <1>9, PutFacts DEF WireTypeInv, Made, clientVars, engineVars
<1>10. ASSUME NEW h \in Hosts, NEW m \in Messages, Read(h, m) PROVE WireTypeInv'
  <2>1. place' \in [Messages -> P]
    <3>1. CASE Lose({m}, "alien")
      BY <3>1, LoseFacts
    <3>2. CASE place' = [place EXCEPT ![m] = "run"]
      BY <3>2 DEF WireTypeInv
    <3> QED BY <1>10, <3>1, <3>2 DEF Read
  <2> QED BY <1>10, <2>1 DEF WireTypeInv, Read, clientVars
<1>11. ASSUME NEW h \in Hosts, NEW m \in Messages, Process(h, m) PROVE WireTypeInv'
  <2>1. PICK how \in Outcomes : ran' = [ran EXCEPT ![m[1]] = <<how>>]
    BY <1>11, ProcessFacts
  <2>2. <<how>> \in Seq(Outcomes)
    OBVIOUS
  <2>3. ran' \in [Threads -> Seq(Outcomes)]
    BY <2>1, <2>2 DEF WireTypeInv
  <2> QED BY <1>11, <2>3, ProcessFacts DEF WireTypeInv
<1>12. ASSUME NEW h \in Hosts, NEW t \in Topics, Publish(h, t) PROVE WireTypeInv'
  <2> DEFINE m == Head(queue[h][t])
  <2>1. queue' \in [Hosts -> [Topics -> Seq(Messages)]] /\ place' \in [Messages -> P]
    <3>1. /\ queue' = [queue EXCEPT ![h][t] = Tail(queue[h][t])]
          /\ Tail(queue[h][t]) \in Seq(Messages) /\ place' \in [Messages -> P]
      BY <1>12, PublishFacts
    <3>2. [queue EXCEPT ![h][t] = Tail(queue[h][t])] \in [Hosts -> [Topics -> Seq(Messages)]]
      BY <3>1, QueueSet DEF WireTypeInv
    <3> QED BY <3>1, <3>2
  <2>2. /\ pc' \in [Threads -> {"ask", "prune", "send", "wait", "done"}] /\ joined' \subseteq Threads
        /\ outcome' \in [Threads -> {"none", "sent", "nomatch", "timeout", "result", "failure"}]
    <3>1. \/ \E c \in Threads, what \in {"result", "failure"} :
                /\ pc' = [pc EXCEPT ![c] = "done"] /\ outcome' = [outcome EXCEPT ![c] = what]
                /\ joined' = joined \ {c}
          \/ UNCHANGED <<pc, outcome, joined>>
      <4>1. m[1] \in Threads
        BY <1>12, PublishFacts, MessageFacts
      <4>2. (IF Last(ran[m[1]]) = "ok" THEN "result" ELSE "failure") \in {"result", "failure"}
        OBVIOUS
      <4> QED BY <1>12, <4>1, <4>2, PublishFacts
    <3> QED BY <3>1 DEF WireTypeInv
  <2> QED BY <1>12, <2>1, <2>2 DEF WireTypeInv, Publish, engineVars
<1>13. ASSUME TimePasses PROVE WireTypeInv'
  BY <1>1, <1>13 DEF TimePasses
<1>14. CASE UNCHANGED zmqVars
  BY <1>1, <1>14 DEF zmqVars
<1> QED BY <1>2, <1>3, <1>4, <1>5, <1>6, <1>7, <1>8, <1>9, <1>10, <1>11, <1>12, <1>13, <1>14, StepOf

(* Engines that are registered are listed. *)

LEMMA ListStep ==
  ASSUME SettingInv, MatchTypeInv, WireTypeInv, ListInv, Next
  PROVE  ListInv'
<1>1. CASE UNCHANGED <<matchVars, kind>> /\ UNCHANGED <<pc, chosen>>
  BY <1>1 DEF ListInv, matchVars, Redis
<1>2. ASSUME NEW c \in Threads, AskLocalhost(c) \/ AskRing(c) PROVE ListInv'
  <2>1. UNCHANGED <<matchVars, kind>> /\ pc'[c] # "prune"
        /\ \A d \in Threads \ {c} : pc'[d] = pc[d] /\ chosen'[d] = chosen[d]
    BY <1>2 DEF AskLocalhost, AskRing, Found, NoMatch, config, WireTypeInv
  <2> QED BY <2>1 DEF ListInv, matchVars, Redis
<1>3. ASSUME NEW c \in Threads, AskRedis(c) PROVE ListInv'
  <2>1. UNCHANGED <<kind, members, engine, step, heart>> /\ stale \subseteq stale'
    BY <1>3 DEF AskRedis, config
  <2>2. /\ pc'[c] = "prune" => chosen'[c] \in stale'
        /\ \A d \in Threads \ {c} : pc'[d] = pc[d] /\ chosen'[d] = chosen[d]
    BY <1>3 DEF AskRedis, Found, NoMatch, Missing, WireTypeInv
  <2>3. \A d \in Threads : pc'[d] = "prune" => chosen'[d] \in stale'
    BY <2>1, <2>2 DEF ListInv
  <2> QED BY <2>1, <2>3 DEF ListInv, Redis
<1>4. ASSUME NEW c \in Threads, Prune(c) PROVE ListInv'
  <2>1. /\ chosen[c] \in stale /\ members' = members \ {chosen[c]}
        /\ UNCHANGED <<kind, engine, step, heart, stale, chosen>>
        /\ pc' = [pc EXCEPT ![c] = "ask"]
    BY <1>4 DEF Prune, Expire, ListInv, config
  <2> QED BY <2>1 DEF ListInv, Redis, WireTypeInv
<1>5. ASSUME NEW c \in Threads, Send(c) \/ Timeout(c) PROVE ListInv'
  <2>1. UNCHANGED <<matchVars, kind, chosen>> /\ \A d \in Threads : pc'[d] = "prune" => pc[d] = "prune"
    BY <1>5 DEF Send, Timeout, config, WireTypeInv
  <2> QED BY <2>1 DEF ListInv, matchVars, Redis
<1>6. ASSUME NEW c \in Threads, Join(c) PROVE ListInv'
  BY <1>1, <1>6 DEF Join, config
<1>7. ASSUME NEW h \in Hosts, Registry(h), Zmq PROVE ListInv'
  <2>0. UNCHANGED <<kind, topics, pc, chosen>> /\ MatchStep(h)
    BY <1>7 DEF Registry, config, clientVars
  <2>1. CASE Register(h)
    BY <2>0, <2>1 DEF Register, ListInv, Redis, MatchTypeInv
  <2>2. CASE Acknowledge(h)
    BY <2>0, <2>2 DEF Acknowledge, AckAlive, ListInv, Redis, MatchTypeInv
  <2>3. CASE EngineUp(h)
    <3>1. step[h] = Len(topics) /\ Len(topics) > 0
      BY <1>7, <2>3 DEF EngineUp, SettingInv
    <3>2. /\ UNCHANGED <<members, step, stale>> /\ engine[h] = "register"
          /\ engine' = [engine EXCEPT ![h] = "up"]
          /\ heart' \subseteq heart \cup {h} /\ (h \in heart' => h \in heart \/ Redis)
      BY <2>3 DEF EngineUp
    <3> QED BY <2>0, <3>1, <3>2 DEF ListInv, Redis, MatchTypeInv
  <2>4. CASE Heartbeat(h)
    <3>1. UNCHANGED <<members, engine, step, stale>> /\ heart' \subseteq heart
      BY <2>4 DEF Heartbeat, AckAlive
    <3> QED BY <2>0, <3>1 DEF ListInv, Redis
  <2> QED BY <2>0, <2>1, <2>2, <2>3, <2>4 DEF MatchStep
<1>8. ASSUME NEW h \in Hosts, EngineEnds(h) PROVE ListInv'
  <2>1. /\ UNCHANGED <<kind, pc, chosen, members, step, stale>>
        /\ engine' = [engine EXCEPT ![h] = "gone"] /\ heart' = heart \ {h}
    BY <1>8 DEF EngineEnds, EngineGone, config, clientVars
  <2> QED BY <2>1 DEF ListInv, Redis, MatchTypeInv
<1>9. ASSUME NEW h \in Hosts, Listen(h) \/ ReceiverRestarts(h) \/ ReceiverDies(h) PROVE ListInv'
  BY <1>1, <1>9 DEF Listen, ReceiverRestarts, ReceiverDies, clientVars, config
<1>10. ASSUME NEW h \in Hosts, NEW m \in Messages,
              Consume(h, m) \/ Made(h, m) \/ Read(h, m) \/ Process(h, m)
       PROVE  ListInv'
  BY <1>1, <1>10 DEF Consume, Made, Read, Process, clientVars, config
<1>11. ASSUME NEW h \in Hosts, NEW t \in Topics, Publish(h, t) PROVE ListInv'
  <2>1. UNCHANGED <<matchVars, kind, chosen>> /\ \A d \in Threads : pc'[d] = "prune" => pc[d] = "prune"
    BY <1>11 DEF Publish, config, WireTypeInv
  <2> QED BY <2>1 DEF ListInv, matchVars, Redis
<1>12. ASSUME TimePasses PROVE ListInv'
  BY <1>12 DEF TimePasses, Tick, clientVars, config, ListInv, Redis
<1>13. CASE UNCHANGED zmqVars
  BY <1>1, <1>13 DEF zmqVars, clientVars, config
<1> QED BY <1>2, <1>3, <1>4, <1>5, <1>6, <1>7, <1>8, <1>9, <1>10, <1>11, <1>12, <1>13, StepOf DEF AsksOf

(* The backlogs. *)

LEMMA QueueKept ==
  ASSUME WireTypeInv, QueueInv, UNCHANGED <<queue, op, kind>>,
         \A m \in Messages : place[m] = "queue" => place'[m] = "queue" /\ dest'[m] = dest[m]
  PROVE  QueueInv'
<1>1. SUFFICES ASSUME NEW h \in Hosts, NEW t \in Topics, NEW i \in 1 .. Len(queue[h][t])
               PROVE  /\ place'[queue[h][t][i]] = "queue" /\ dest'[queue[h][t][i]] = h
                      /\ TopicOf(queue[h][t][i])' = t
  BY DEF QueueInv
<1>2. queue[h][t][i] \in Messages
  BY DEF WireTypeInv
<1> QED BY <1>2, TopicSame DEF QueueInv

\* The backlogs after a step that changes them.
LEMMA QueueIs ==
  ASSUME UNCHANGED <<op, kind>>, queue' \in [Hosts -> [Topics -> Seq(Messages)]],
         \A g \in Hosts, w \in Topics :
            /\ Len(queue'[g][w]) <= Backlog + 1
            /\ \A i \in 1 .. Len(queue'[g][w]) :
                  /\ place'[queue'[g][w][i]] = "queue" /\ dest'[queue'[g][w][i]] = g
                  /\ TopicOf(queue'[g][w][i]) = w
            /\ \A i, j \in 1 .. Len(queue'[g][w]) : queue'[g][w][i] = queue'[g][w][j] => i = j
  PROVE  QueueInv'
<1>1. \A g \in Hosts, w \in Topics : \A i \in 1 .. Len(queue'[g][w]) : queue'[g][w][i] \in Messages
  OBVIOUS
<1> QED BY <1>1, TopicSame DEF QueueInv

\* put_nowait, when the message was in no backlog.
LEMMA QueuePut ==
  ASSUME WireTypeInv, QueueInv, UNCHANGED <<op, kind, dest>>, NEW h \in Hosts, NEW m \in Messages,
         place[m] # "queue", dest[m] = h, Put(h, m)
  PROVE  QueueInv'
<1> DEFINE u == TopicOf(m)
           q == queue[h][u]
<1>0. \A n \in Messages \ {m} : place'[n] = place[n]
  BY PutFacts
<1>1. CASE place'[m] = "lost" /\ queue' = queue
  BY <1>0, <1>1, QueueKept
<1>2. CASE /\ place'[m] = "queue" /\ Len(q) <= Backlog
           /\ \A g \in Hosts, w \in Topics :
                 queue'[g][w] = IF g = h /\ w = u THEN Append(queue[g][w], m) ELSE queue[g][w]
  <2>0. u \in Topics
    BY TopicFacts
  <2>1. \A g \in Hosts, w \in Topics : \A i \in 1 .. Len(queue[g][w]) :
           /\ queue[g][w][i] \in Messages \ {m} /\ place'[queue[g][w][i]] = "queue"
           /\ dest'[queue[g][w][i]] = g /\ TopicOf(queue[g][w][i]) = w
    <3> SUFFICES ASSUME NEW g \in Hosts, NEW w \in Topics, NEW i \in 1 .. Len(queue[g][w])
                 PROVE  /\ queue[g][w][i] \in Messages \ {m} /\ place'[queue[g][w][i]] = "queue"
                        /\ dest'[queue[g][w][i]] = g /\ TopicOf(queue[g][w][i]) = w
      OBVIOUS
    <3>1. queue[g][w][i] \in Messages
      BY DEF WireTypeInv
    <3> QED BY <1>0, <3>1 DEF QueueInv
  <2>2. /\ q \in Seq(Messages) /\ Len(Append(q, m)) = Len(q) + 1 /\ Append(q, m)[Len(q) + 1] = m
        /\ \A i \in 1 .. Len(q) : Append(q, m)[i] = q[i]
    <3>1. q \in Seq(Messages)
      BY <2>0 DEF WireTypeInv
    <3> QED BY <3>1, Appended
  <2>3. ASSUME NEW g \in Hosts, NEW w \in Topics, ~(g = h /\ w = u)
        PROVE  /\ queue'[g][w] = queue[g][w] /\ Len(queue[g][w]) <= Backlog + 1
               /\ \A i, j \in 1 .. Len(queue[g][w]) : queue[g][w][i] = queue[g][w][j] => i = j
    BY <1>2, <2>3 DEF QueueInv
  <2>4. /\ queue'[h][u] = Append(q, m)
        /\ Len(Append(q, m)) <= Backlog + 1
        /\ \A i \in 1 .. Len(q) + 1 : /\ place'[Append(q, m)[i]] = "queue"
                                      /\ dest'[Append(q, m)[i]] = h
                                      /\ TopicOf(Append(q, m)[i]) = u
    <3>1. Len(q) \in Nat /\ Backlog \in Nat
      BY <2>2, ZmqAssumption
    <3>2. ASSUME NEW i \in 1 .. Len(q) + 1
          PROVE  /\ place'[Append(q, m)[i]] = "queue" /\ dest'[Append(q, m)[i]] = h
                 /\ TopicOf(Append(q, m)[i]) = u
      <4>1. CASE i = Len(q) + 1
        <5> HIDE DEF q, u
        <5> QED BY <1>2, <2>2, <4>1 DEF u
      <4>2. CASE i # Len(q) + 1
        <5>1. i \in 1 .. Len(q)
          BY <3>1, <4>2
        <5> QED BY <2>0, <2>1, <2>2, <5>1
      <4> QED BY <4>1, <4>2
    <3>3. queue'[h][u] = Append(q, m) /\ Len(q) <= Backlog
      BY <1>2, <2>0
    <3> HIDE DEF q, u
    <3> QED BY <2>2, <3>1, <3>2, <3>3
  <2>5. \A i, j \in 1 .. Len(q) + 1 : Append(q, m)[i] = Append(q, m)[j] => i = j
    <3>1. \A i, j \in 1 .. Len(q) : q[i] = q[j] => i = j
      BY <2>0 DEF QueueInv
    <3>2. \A i \in 1 .. Len(q) : q[i] # m
      BY <2>0, <2>1
    <3>3. Len(q) \in Nat
      BY <2>2
    <3> SUFFICES ASSUME NEW i \in 1 .. Len(q) + 1, NEW j \in 1 .. Len(q) + 1,
                        Append(q, m)[i] = Append(q, m)[j]
                 PROVE  i = j
      OBVIOUS
    <3>4. i \in 1 .. Len(q) \/ i = Len(q) + 1
      BY <3>3
    <3>5. j \in 1 .. Len(q) \/ j = Len(q) + 1
      BY <3>3
    <3>6. /\ \A a \in 1 .. Len(q) : Append(q, m)[a] = q[a]
          /\ Append(q, m)[Len(q) + 1] = m
      BY <2>2
    <3> DEFINE p == Append(q, m)
    <3> HIDE DEF q, p
    <3>7. CASE i \in 1 .. Len(q) /\ j \in 1 .. Len(q)
      BY <3>1, <3>6, <3>7
    <3>8. CASE i = Len(q) + 1 \/ j = Len(q) + 1
      BY <3>2, <3>4, <3>5, <3>6, <3>8
    <3> QED BY <3>4, <3>5, <3>7, <3>8
  <2>6. SUFFICES ASSUME NEW g \in Hosts, NEW w \in Topics
        PROVE  /\ Len(queue'[g][w]) <= Backlog + 1
               /\ \A i \in 1 .. Len(queue'[g][w]) :
                     /\ place'[queue'[g][w][i]] = "queue" /\ dest'[queue'[g][w][i]] = g
                     /\ TopicOf(queue'[g][w][i]) = w
               /\ \A i, j \in 1 .. Len(queue'[g][w]) : queue'[g][w][i] = queue'[g][w][j] => i = j
    BY PutFacts, QueueIs
  <2>7. CASE g = h /\ w = u
    <3> HIDE DEF q, u
    <3>1. queue'[g][w] = Append(q, m) /\ g = h /\ w = u /\ Len(Append(q, m)) = Len(q) + 1
      BY <2>2, <2>4, <2>7
    <3>2. \A i, j \in 1 .. Len(queue'[g][w]) : queue'[g][w][i] = queue'[g][w][j] => i = j
      BY <2>5, <3>1
    <3>3. /\ Len(queue'[g][w]) <= Backlog + 1
          /\ \A i \in 1 .. Len(queue'[g][w]) :
                /\ place'[queue'[g][w][i]] = "queue" /\ dest'[queue'[g][w][i]] = g
                /\ TopicOf(queue'[g][w][i]) = w
      BY <2>4, <3>1
    <3> QED BY <3>2, <3>3
  <2>8. CASE ~(g = h /\ w = u)
    <3> HIDE DEF q, u
    <3> QED BY <2>1, <2>3, <2>8
  <2> QED BY <2>7, <2>8
<1> QED BY <1>1, <1>2, PutFacts

\* A publisher takes the first of its backlog.
LEMMA QueueTail ==
  ASSUME WireTypeInv, QueueInv, NEW h \in Hosts, NEW t \in Topics, Publish(h, t)
  PROVE  QueueInv'
<1> DEFINE m == Head(queue[h][t])
           q == queue[h][t]
<1>1. /\ m \in Messages /\ m = q[1] /\ Tail(q) \in Seq(Messages)
      /\ queue' = [queue EXCEPT ![h][t] = Tail(q)]
      /\ \A n \in Messages \ {m} : place'[n] = place[n]
      /\ q \in Seq(Messages) /\ q # <<>>
  BY PublishFacts DEF WireTypeInv
<1>2. UNCHANGED <<op, kind, dest>>
  BY DEF Publish, config
<1>3. \A g \in Hosts, w \in Topics :
         queue'[g][w] = IF g = h /\ w = t THEN Tail(q) ELSE queue[g][w]
  BY <1>1, QueueSet DEF WireTypeInv
<1>4. Len(q) \in Nat /\ Len(q) > 0 /\ Len(Tail(q)) = Len(q) - 1
      /\ \A i \in 1 .. Len(q) - 1 : Tail(q)[i] = q[i + 1]
  BY <1>1, Tailed
<1>5. /\ Len(q) <= Backlog + 1 /\ Backlog \in Nat
      /\ \A i, j \in 1 .. Len(q) : q[i] = q[j] => i = j
      /\ dest[m] = h /\ TopicOf(m) = t
  <2>1. 1 \in 1 .. Len(q)
    BY <1>4
  <2> QED BY <1>1, <2>1, ZmqAssumption DEF QueueInv
<1>6. ASSUME NEW g \in Hosts, NEW w \in Topics, NEW i \in 1 .. Len(queue[g][w]),
             ~(g = h /\ w = t) \/ i # 1
      PROVE  /\ place'[queue[g][w][i]] = "queue"
             /\ dest'[queue[g][w][i]] = g /\ TopicOf(queue[g][w][i]) = w
  <2>1. /\ queue[g][w][i] \in Messages
        /\ place[queue[g][w][i]] = "queue"
        /\ dest[queue[g][w][i]] = g /\ TopicOf(queue[g][w][i]) = w
    BY DEF WireTypeInv, QueueInv
  <2>2. queue[g][w][i] # m
    <3>1. CASE ~(g = h /\ w = t)
      BY <1>5, <2>1, <3>1
    <3>2. CASE (g = h /\ w = t) /\ i # 1
      <4>1. 1 \in 1 .. Len(q)
        BY <1>4
      <4> QED BY <1>1, <1>5, <3>2, <4>1
    <3> QED BY <1>6, <3>1, <3>2
  <2> QED BY <1>1, <1>2, <2>1, <2>2
<1>7. SUFFICES ASSUME NEW g \in Hosts, NEW w \in Topics
      PROVE  /\ Len(queue'[g][w]) <= Backlog + 1
             /\ \A i \in 1 .. Len(queue'[g][w]) :
                   /\ place'[queue'[g][w][i]] = "queue" /\ dest'[queue'[g][w][i]] = g
                   /\ TopicOf(queue'[g][w][i]) = w
             /\ \A i, j \in 1 .. Len(queue'[g][w]) : queue'[g][w][i] = queue'[g][w][j] => i = j
  <2>1. queue' \in [Hosts -> [Topics -> Seq(Messages)]]
    BY <1>1, QueueSet DEF WireTypeInv
  <2> QED BY <1>2, <2>1, QueueIs
<1>8. CASE g = h /\ w = t
  <2>1. queue'[g][w] = Tail(q)
    BY <1>3, <1>8
  <2>2. \A i \in 1 .. Len(q) - 1 : i + 1 \in 1 .. Len(q) /\ i + 1 # 1
    BY <1>4
  <2>3. \A i \in 1 .. Len(q) - 1 : /\ place'[Tail(q)[i]] = "queue" /\ dest'[Tail(q)[i]] = g
                                   /\ TopicOf(Tail(q)[i]) = w
    BY <1>4, <1>6, <1>8, <2>2
  <2>4. \A i, j \in 1 .. Len(q) - 1 : Tail(q)[i] = Tail(q)[j] => i = j
    <3> SUFFICES ASSUME NEW i \in 1 .. Len(q) - 1, NEW j \in 1 .. Len(q) - 1, Tail(q)[i] = Tail(q)[j]
                 PROVE  i = j
      OBVIOUS
    <3>1. q[i + 1] = q[j + 1] /\ i + 1 \in 1 .. Len(q) /\ j + 1 \in 1 .. Len(q)
      BY <1>4, <2>2
    <3>2. i + 1 = j + 1
      BY <1>5, <3>1
    <3> QED BY <3>2
  <2> HIDE DEF q
  <2> QED BY <1>4, <1>5, <2>1, <2>3, <2>4
<1>9. CASE ~(g = h /\ w = t)
  <2>1. queue'[g][w] = queue[g][w]
    BY <1>3, <1>9
  <2>2. \A i \in 1 .. Len(queue[g][w]) :
           /\ place'[queue[g][w][i]] = "queue"
           /\ dest'[queue[g][w][i]] = g /\ TopicOf(queue[g][w][i]) = w
    BY <1>6, <1>9
  <2> QED BY <2>1, <2>2 DEF QueueInv
<1> QED BY <1>8, <1>9

LEMMA QueueStep ==
  ASSUME SettingInv, WireTypeInv, QueueInv, CourseInv, Next
  PROVE  QueueInv'
<1>1. CASE UNCHANGED <<queue, op, kind, place, dest>>
  BY <1>1, QueueKept
<1>2. ASSUME NEW c \in Threads, AsksOf(c) PROVE QueueInv'
  <2>1. UNCHANGED config
    BY <1>2 DEF AsksOf, AskLocalhost, AskRing, AskRedis, Prune
  <2> QED BY <1>1, <1>2, <2>1, AskFacts DEF wireVars, config
<1>3. ASSUME NEW c \in Threads, Send(c) PROVE QueueInv'
  <2>1. place[Request(c)] = "none" /\ Request(c) \in Messages
    BY <1>3, MessageFacts DEF Send, CourseInv, CourseOf
  <2>2. UNCHANGED <<queue, op, kind>>
        /\ \A m \in Messages \ {Request(c)} : place'[m] = place[m] /\ dest'[m] = dest[m]
    BY <1>3 DEF Send, config, WireTypeInv
  <2> QED BY <2>1, <2>2, QueueKept
<1>4. ASSUME NEW c \in Threads, Timeout(c) \/ Join(c) PROVE QueueInv'
  BY <1>1, <1>4 DEF Timeout, Join, wireVars, config
<1>5. ASSUME NEW h \in Hosts, Registry(h) \/ Listen(h) \/ ReceiverRestarts(h) PROVE QueueInv'
  BY <1>1, <1>5 DEF Registry, Listen, ReceiverRestarts, wireVars, config
<1>6. ASSUME NEW h \in Hosts, EngineEnds(h) PROVE QueueInv'
  <2>1. \A m \in Messages : place[m] = "queue" => place'[m] = "queue"
    BY <1>6, LoseFacts DEF EngineEnds
  <2> QED BY <1>6, <2>1, QueueKept DEF EngineEnds, config
<1>7. ASSUME NEW h \in Hosts, ReceiverDies(h) PROVE QueueInv'
  <2>1. UNCHANGED <<op, kind, dest>>
        /\ queue' = [queue EXCEPT ![h] = [t \in Topics |-> <<>>]]
    BY <1>7 DEF ReceiverDies, config
  <2>2. \A m \in Messages : place[m] = "queue" /\ dest[m] # h => place'[m] = "queue"
    BY <1>7, LoseFacts DEF ReceiverDies
  <2>3. \A t \in Topics : queue'[h][t] = <<>>
    BY <2>1 DEF WireTypeInv
  <2>4. SUFFICES ASSUME NEW g \in Hosts, NEW w \in Topics
        PROVE  /\ Len(queue'[g][w]) <= Backlog + 1
               /\ \A i \in 1 .. Len(queue'[g][w]) :
                     /\ place'[queue'[g][w][i]] = "queue" /\ dest'[queue'[g][w][i]] = g
                     /\ TopicOf(queue'[g][w][i]) = w
               /\ \A i, j \in 1 .. Len(queue'[g][w]) : queue'[g][w][i] = queue'[g][w][j] => i = j
    <3>1. [t \in Topics |-> <<>>] \in [Topics -> Seq(Messages)]
      OBVIOUS
    <3>2. queue' \in [Hosts -> [Topics -> Seq(Messages)]]
      BY <2>1, <3>1 DEF WireTypeInv
    <3> QED BY <2>1, <3>2, QueueIs
  <2>5. CASE g = h
    <3>1. Len(queue'[g][w]) = 0
      BY <2>3, <2>5
    <3> QED BY <3>1, ZmqAssumption
  <2>6. CASE g # h
    <3>1. queue'[g][w] = queue[g][w]
      BY <2>1, <2>6 DEF WireTypeInv
    <3>2. \A i \in 1 .. Len(queue[g][w]) :
             /\ queue[g][w][i] \in Messages
             /\ place[queue[g][w][i]] = "queue" /\ dest[queue[g][w][i]] = g
             /\ TopicOf(queue[g][w][i]) = w
      BY DEF WireTypeInv, QueueInv
    <3>3. \A i \in 1 .. Len(queue[g][w]) :
             /\ place'[queue[g][w][i]] = "queue" /\ dest'[queue[g][w][i]] = g
             /\ TopicOf(queue[g][w][i]) = w
      BY <2>1, <2>2, <2>6, <3>2
    <3> QED BY <3>1, <3>3 DEF QueueInv
  <2> QED BY <2>5, <2>6
<1>8. ASSUME NEW h \in Hosts, NEW m \in Messages, Consume(h, m) PROVE QueueInv'
  <2>0. place[m] = "wire" /\ dest[m] = h /\ UNCHANGED <<op, kind, dest>>
    BY <1>8 DEF Consume, config
  <2>1. CASE Put(h, m)
    BY <2>0, <2>1, QueuePut
  <2>2. CASE place' = [place EXCEPT ![m] = "making"] /\ UNCHANGED queue
    BY <2>0, <2>2, QueueKept DEF WireTypeInv
  <2> QED BY <1>8, <2>1, <2>2 DEF Consume
<1>9. ASSUME NEW h \in Hosts, NEW m \in Messages, Made(h, m) PROVE QueueInv'
  BY <1>9, QueuePut DEF Made, config
<1>10. ASSUME NEW h \in Hosts, NEW m \in Messages, Read(h, m) PROVE QueueInv'
  <2>1. place[m] = "inbox" /\ \A n \in Messages \ {m} : place'[n] = place[n]
    <3>1. CASE Lose({m}, "alien")
      BY <1>10, <3>1, LoseFacts DEF Read
    <3>2. CASE place' = [place EXCEPT ![m] = "run"]
      BY <1>10, <3>2 DEF Read, WireTypeInv
    <3> QED BY <1>10, <3>1, <3>2 DEF Read
  <2> QED BY <1>10, <2>1, QueueKept DEF Read, config
<1>11. ASSUME NEW h \in Hosts, NEW m \in Messages, Process(h, m) PROVE QueueInv'
  <2>1. UNCHANGED <<op, kind>>
    BY <1>11 DEF Process, config
  <2> QED BY <1>11, <2>1, ProcessFacts, QueueKept
<1>12. ASSUME NEW h \in Hosts, NEW t \in Topics, Publish(h, t) PROVE QueueInv'
  BY <1>12, QueueTail
<1>13. ASSUME TimePasses PROVE QueueInv'
  BY <1>1, <1>13 DEF TimePasses, wireVars, config
<1>14. CASE UNCHANGED zmqVars
  BY <1>1, <1>14 DEF zmqVars, wireVars, config
<1> QED BY <1>2, <1>3, <1>4, <1>5, <1>6, <1>7, <1>8, <1>9, <1>10, <1>11, <1>12, <1>13, <1>14, StepOf

(* The pools. *)

LEMMA PoolKept ==
  ASSUME PoolInv, \A m \in Messages : place'[m] = "run" => place[m] = "run" /\ dest'[m] = dest[m]
  PROVE  PoolInv'
<1> SUFFICES ASSUME NEW h \in Hosts
             PROVE  IsFiniteSet(Running(h)') /\ Cardinality(Running(h)') <= PoolSize
  BY DEF PoolInv
<1>1. IsFiniteSet(Running(h)) /\ Cardinality(Running(h)) <= PoolSize
  BY DEF PoolInv
<1>2. Running(h)' \subseteq Running(h)
  BY DEF Running
<1>3. /\ IsFiniteSet(Running(h)') /\ Cardinality(Running(h)') <= Cardinality(Running(h))
      /\ Cardinality(Running(h)') \in Nat /\ Cardinality(Running(h)) \in Nat
  BY <1>1, <1>2, FS_Subset, FS_CardinalityType
<1> QED BY <1>1, <1>3, ZmqAssumption

LEMMA PoolStep ==
  ASSUME SettingInv, WireTypeInv, QueueInv, CourseInv, PoolInv, Next
  PROVE  PoolInv'
<1>1. CASE UNCHANGED <<place, dest>>
  BY <1>1, PoolKept
<1>2. ASSUME NEW c \in Threads, AsksOf(c) PROVE PoolInv'
  BY <1>1, <1>2, AskFacts DEF wireVars
<1>3. ASSUME NEW c \in Threads, Send(c) PROVE PoolInv'
  <2>1. \A m \in Messages : place'[m] = "run" => place[m] = "run" /\ dest'[m] = dest[m]
    BY <1>3 DEF Send, WireTypeInv
  <2> QED BY <2>1, PoolKept
<1>4. ASSUME NEW c \in Threads, Timeout(c) \/ Join(c) PROVE PoolInv'
  BY <1>1, <1>4 DEF Timeout, Join, wireVars
<1>5. ASSUME NEW h \in Hosts, Registry(h) \/ Listen(h) \/ ReceiverRestarts(h) PROVE PoolInv'
  BY <1>1, <1>5 DEF Registry, Listen, ReceiverRestarts, wireVars
<1>6. ASSUME NEW h \in Hosts, EngineEnds(h) \/ ReceiverDies(h) PROVE PoolInv'
  <2>1. UNCHANGED dest /\ \A m \in Messages : place'[m] = "run" => place[m] = "run"
    BY <1>6, LoseFacts DEF EngineEnds, ReceiverDies
  <2> QED BY <2>1, PoolKept
<1>7. ASSUME NEW h \in Hosts, NEW m \in Messages, Consume(h, m) \/ Made(h, m) PROVE PoolInv'
  <2>1. UNCHANGED dest /\ (Put(h, m) \/ place' = [place EXCEPT ![m] = "making"])
    BY <1>7 DEF Consume, Made
  <2>2. \A n \in Messages : place'[n] = "run" => place[n] = "run"
    <3>1. CASE Put(h, m)
      BY <3>1, PutFacts
    <3>2. CASE place' = [place EXCEPT ![m] = "making"]
      BY <3>2 DEF WireTypeInv
    <3> QED BY <2>1, <3>1, <3>2
  <2> QED BY <2>1, <2>2, PoolKept
<1>8. ASSUME NEW h \in Hosts, NEW m \in Messages, Read(h, m) PROVE PoolInv'
  <2>0. UNCHANGED dest /\ place[m] = "inbox" /\ dest[m] = h
    BY <1>8 DEF Read
  <2>1. CASE Lose({m}, "alien")
    BY <2>0, <2>1, LoseFacts, PoolKept
  <2>2. CASE Cardinality(Running(h)) < PoolSize /\ place' = [place EXCEPT ![m] = "run"]
    <3>1. \A g \in Hosts : Running(g)' = IF g = h THEN Running(h) \cup {m} ELSE Running(g)
      BY <2>0, <2>2 DEF Running, WireTypeInv
    <3>2. m \notin Running(h) /\ IsFiniteSet(Running(h))
      BY <2>0 DEF Running, PoolInv
    <3>3. IsFiniteSet(Running(h) \cup {m}) /\ Cardinality(Running(h) \cup {m}) = Cardinality(Running(h)) + 1
      BY <3>2, FS_AddElement
    <3>4. Cardinality(Running(h)) \in Nat
      BY <3>2, FS_CardinalityType
    <3>5. Cardinality(Running(h) \cup {m}) <= PoolSize
      BY <2>2, <3>3, <3>4, ZmqAssumption
    <3> SUFFICES ASSUME NEW g \in Hosts
                 PROVE  IsFiniteSet(Running(g)') /\ Cardinality(Running(g)') <= PoolSize
      BY DEF PoolInv
    <3>6. CASE g = h
      BY <3>1, <3>3, <3>5, <3>6
    <3>7. CASE g # h
      BY <3>1, <3>7 DEF PoolInv
    <3> QED BY <3>6, <3>7
  <2> QED BY <1>8, <2>1, <2>2 DEF Read
<1>9. ASSUME NEW h \in Hosts, NEW m \in Messages, Process(h, m) PROVE PoolInv'
  <2>1. m[1] \in Threads /\ Reply(m[1]) \in Messages
    BY MessageFacts
  <2>2. \A n \in Messages : place'[n] = "run" => place[n] = "run" /\ dest'[n] = dest[n]
    BY <1>9, <2>1, ProcessFacts
  <2> QED BY <2>2, PoolKept
<1>10. ASSUME NEW h \in Hosts, NEW t \in Topics, Publish(h, t) PROVE PoolInv'
  <2> DEFINE m == Head(queue[h][t])
  <2>1. /\ \A n \in Messages \ {m} : place'[n] = place[n]
        /\ place'[m] \in {"done", "inbox", "lost"}
    BY <1>10, PublishFacts
  <2>2. UNCHANGED dest
    BY <1>10 DEF Publish
  <2> QED BY <2>1, <2>2, PoolKept
<1>11. ASSUME TimePasses PROVE PoolInv'
  BY <1>1, <1>11 DEF TimePasses, wireVars
<1>12. CASE UNCHANGED zmqVars
  BY <1>1, <1>12 DEF zmqVars, wireVars
<1> QED BY <1>2, <1>3, <1>4, <1>5, <1>6, <1>7, <1>8, <1>9, <1>10, <1>11, <1>12, StepOf

(* Requests and answers on their way. *)

\* Messages move on, and no method is run.
LEMMA CourseMoves ==
  ASSUME CourseInv, UNCHANGED <<pc, outcome, ran, op>>, joined' \subseteq joined,
         \A m \in Messages :
            \/ place'[m] = place[m]
            \/ /\ place[m] \in {"wire", "making", "queue", "inbox", "run"}
               /\ place'[m] \in {"making", "queue", "inbox", "run", "lost"}
               /\ m = Reply(m[1]) => place'[m] \notin {"inbox", "run"}
  PROVE  CourseInv'
<1> SUFFICES ASSUME NEW c \in Threads PROVE CourseOf(c)'
  BY DEF CourseInv
<1>1. Request(c) \in Messages /\ Reply(c) \in Messages /\ Reply(c) = Reply(Reply(c)[1])
  BY MessageFacts
<1>2. CourseOf(c)
  BY DEF CourseInv
<1>3. \/ /\ place[Request(c)] \in {"wire", "making", "queue", "inbox", "run"}
         /\ place'[Request(c)] \notin {"none", "done"}
      \/ place'[Request(c)] = place[Request(c)]
  BY <1>1
<1>4. \/ place[Reply(c)] # "none" /\ place'[Reply(c)] \notin {"inbox", "run"}
      \/ place'[Reply(c)] = place[Reply(c)]
  BY <1>1
<1> QED BY <1>2, <1>3, <1>4 DEF CourseOf

\* The threads whose variables and messages a step leaves alone.
LEMMA CourseSame ==
  ASSUME CourseInv, NEW d \in Threads,
         UNCHANGED op, pc'[d] = pc[d], outcome'[d] = outcome[d], ran'[d] = ran[d],
         d \in joined' => d \in joined,
         place'[Request(d)] = place[Request(d)], place'[Reply(d)] = place[Reply(d)]
  PROVE  CourseOf(d)'
<1>1. CourseOf(d)
  BY DEF CourseInv
<1> QED BY <1>1 DEF CourseOf

LEMMA CourseStep ==
  ASSUME SettingInv, WireTypeInv, QueueInv, CourseInv, Next
  PROVE  CourseInv'
<1>0. UNCHANGED op
  BY ConfigStep DEF config
<1>1. ASSUME NEW c \in Threads, AsksOf(c) PROVE CourseInv'
  <2>0. CourseOf(c) /\ pc[c] \in {"ask", "prune"} /\ UNCHANGED <<joined, place, ran>>
    BY <1>1, AskFacts DEF CourseInv, wireVars, engineVars
  <2>1. PICK to \in {"ask", "prune", "send", "done"} : pc' = [pc EXCEPT ![c] = to]
    BY <1>1, AskFacts
  <2>2. outcome' = outcome \/ (pc'[c] = "done" /\ outcome' = [outcome EXCEPT ![c] = "nomatch"])
    BY <1>1, AskFacts
  <2>3. CourseOf(c)'
    BY <1>0, <2>0, <2>1, <2>2 DEF CourseOf, WireTypeInv
  <2>4. ASSUME NEW d \in Threads \ {c} PROVE CourseOf(d)'
    <3>1. pc'[d] = pc[d] /\ outcome'[d] = outcome[d]
      BY <2>1, <2>2 DEF WireTypeInv
    <3> QED BY <2>0, <3>1, <1>0, CourseSame
  <2> QED BY <2>3, <2>4 DEF CourseInv
<1>2. ASSUME NEW c \in Threads, Send(c) PROVE CourseInv'
  <2>0. CourseOf(c) /\ Request(c) \in Messages /\ Reply(c) # Request(c) /\ Reply(c) \in Messages
    BY MessageFacts, Distinct DEF CourseInv
  <2>1. /\ pc[c] = "send" /\ UNCHANGED <<joined, ran>>
        /\ place' = [place EXCEPT ![Request(c)] = "wire"]
        /\ \/ pc' = [pc EXCEPT ![c] = "wait"] /\ UNCHANGED outcome
           \/ pc' = [pc EXCEPT ![c] = "done"] /\ outcome' = [outcome EXCEPT ![c] = "sent"]
        /\ op[c] = "call" => pc' = [pc EXCEPT ![c] = "wait"]
    BY <1>2 DEF Send, engineVars
  <2>2. CourseOf(c)'
    BY <1>0, <2>0, <2>1 DEF CourseOf, WireTypeInv
  <2>3. ASSUME NEW d \in Threads \ {c} PROVE CourseOf(d)'
    <3>1. pc'[d] = pc[d] /\ outcome'[d] = outcome[d]
      BY <2>1 DEF WireTypeInv
    <3>2. place'[Request(d)] = place[Request(d)] /\ place'[Reply(d)] = place[Reply(d)]
      BY <2>1, MessageFacts, Distinct DEF WireTypeInv
    <3> QED BY <2>1, <3>1, <3>2, <1>0, CourseSame
  <2> QED BY <2>2, <2>3 DEF CourseInv
<1>3. ASSUME NEW c \in Threads, Timeout(c) PROVE CourseInv'
  <2>0. CourseOf(c) /\ UNCHANGED <<place, ran>>
    BY <1>3 DEF Timeout, CourseInv, wireVars, engineVars
  <2>1. /\ pc[c] = "wait" /\ pc' = [pc EXCEPT ![c] = "done"]
        /\ outcome' = [outcome EXCEPT ![c] = "timeout"] /\ joined' = joined \ {c}
    BY <1>3 DEF Timeout
  <2>2. CourseOf(c)'
    BY <1>0, <2>0, <2>1 DEF CourseOf, WireTypeInv
  <2>3. ASSUME NEW d \in Threads \ {c} PROVE CourseOf(d)'
    <3>1. pc'[d] = pc[d] /\ outcome'[d] = outcome[d]
      BY <2>1 DEF WireTypeInv
    <3> QED BY <2>0, <2>1, <3>1, <1>0, CourseSame
  <2> QED BY <2>2, <2>3 DEF CourseInv
<1>4. ASSUME NEW c \in Threads, Join(c) PROVE CourseInv'
  BY <1>0, <1>4 DEF Join, CourseInv, CourseOf, wireVars, engineVars
<1>5. ASSUME NEW h \in Hosts, Registry(h) \/ Listen(h) \/ ReceiverRestarts(h) PROVE CourseInv'
  <2>1. UNCHANGED <<pc, outcome, ran, joined, place>>
    BY <1>5 DEF Registry, Listen, ReceiverRestarts, wireVars, engineVars, clientVars
  <2> QED BY <2>1, <1>0, CourseMoves
<1>6. ASSUME NEW h \in Hosts, EngineEnds(h) \/ ReceiverDies(h) PROVE CourseInv'
  <2>1. UNCHANGED <<pc, outcome, ran>> /\ joined' \subseteq joined
    BY <1>6 DEF EngineEnds, ReceiverDies, clientVars
  <2>2. \A m \in Messages :
           \/ place'[m] = place[m]
           \/ place[m] \in {"queue", "making", "inbox", "run"} /\ place'[m] = "lost"
    <3> SUFFICES ASSUME NEW m \in Messages, place'[m] # place[m]
                 PROVE  place[m] \in {"queue", "making", "inbox", "run"} /\ place'[m] = "lost"
      OBVIOUS
    <3>1. CASE EngineEnds(h)
      <4>1. place'[m] = IF dest[m] = h /\ place[m] \in {"inbox", "run"} THEN "lost" ELSE place[m]
        BY <3>1 DEF EngineEnds, Lose
      <4> QED BY <4>1
    <3>2. CASE ReceiverDies(h)
      <4>1. place'[m] = IF place[m] \in {"queue", "making"} /\ dest[m] = h THEN "lost" ELSE place[m]
        BY <3>2 DEF ReceiverDies, Lose
      <4> QED BY <4>1
    <3> QED BY <1>6, <3>1, <3>2
  <2> QED BY <2>1, <2>2, <1>0, CourseMoves
<1>7. ASSUME NEW h \in Hosts, NEW m \in Messages, Consume(h, m) \/ Made(h, m) PROVE CourseInv'
  <2>1. /\ UNCHANGED <<pc, outcome, ran, joined>> /\ place[m] \in {"wire", "making"}
        /\ Put(h, m) \/ place' = [place EXCEPT ![m] = "making"]
    BY <1>7 DEF Consume, Made, clientVars, engineVars
  <2>2. /\ place'[m] \in {"making", "queue", "lost"}
        /\ \A n \in Messages \ {m} : place'[n] = place[n]
    <3>1. CASE Put(h, m)
      BY <3>1, PutFacts
    <3>2. CASE place' = [place EXCEPT ![m] = "making"]
      BY <3>2 DEF WireTypeInv
    <3> QED BY <2>1, <3>1, <3>2
  <2> QED BY <2>1, <2>2, <1>0, CourseMoves
<1>8. ASSUME NEW h \in Hosts, NEW m \in Messages, Read(h, m) PROVE CourseInv'
  <2>1. place[m] = "inbox" /\ UNCHANGED <<pc, outcome, ran, joined>>
    BY <1>8 DEF Read, clientVars
  <2>2. m # Reply(m[1])
    BY <2>1, MessageFacts DEF CourseInv, CourseOf
  <2>3. place'[m] \in {"run", "lost"} /\ \A n \in Messages \ {m} : place'[n] = place[n]
    <3>1. CASE Lose({m}, "alien")
      BY <3>1, LoseFacts
    <3>2. CASE place' = [place EXCEPT ![m] = "run"]
      BY <3>2 DEF WireTypeInv
    <3> QED BY <1>8, <3>1, <3>2 DEF Read
  <2> QED BY <2>1, <2>2, <2>3, <1>0, CourseMoves
<1>9. ASSUME NEW h \in Hosts, NEW m \in Messages, Process(h, m) PROVE CourseInv'
  <2> DEFINE c == m[1]
  <2>1. PICK how \in Outcomes : ran' = [ran EXCEPT ![c] = <<how>>]
    BY <1>9, ProcessFacts
  <2>2. /\ c \in Threads /\ m = Request(c) /\ place[m] = "run" /\ CourseOf(c)
        /\ place'[m] = "done" /\ place'[Reply(c)] \in {"none", "wire"}
        /\ \A n \in Messages \ {m, Reply(c)} : place'[n] = place[n]
        /\ UNCHANGED <<pc, outcome, joined>>
    BY <1>9, ProcessFacts DEF CourseInv
  <2>3. ran'[c] = <<how>> /\ Len(<<how>>) = 1 /\ \A d \in Threads \ {c} : ran'[d] = ran[d]
    BY <2>1, <2>2 DEF WireTypeInv
  <2>4. CourseOf(c)'
    <3> HIDE DEF c
    <3> QED BY <1>0, <2>2, <2>3 DEF CourseOf
  <2>5. ASSUME NEW d \in Threads \ {c} PROVE CourseOf(d)'
    <3>1. place'[Request(d)] = place[Request(d)] /\ place'[Reply(d)] = place[Reply(d)]
      BY <2>2, MessageFacts, Distinct
    <3> QED BY <2>2, <2>3, <3>1, <1>0, CourseSame
  <2> QED BY <2>4, <2>5 DEF CourseInv
<1>10. ASSUME NEW h \in Hosts, NEW t \in Topics, Publish(h, t) PROVE CourseInv'
  <2>0. PICK m \in Messages, c \in Threads :
           /\ c = m[1] /\ place[m] = "queue" /\ \A n \in Messages \ {m} : place'[n] = place[n]
           /\ UNCHANGED ran
           /\ \/ /\ m = Reply(c) /\ c \in joined /\ place'[m] = "done"
                 /\ pc' = [pc EXCEPT ![c] = "done"] /\ joined' = joined \ {c}
                 /\ \E what \in {"result", "failure"} : outcome' = [outcome EXCEPT ![c] = what]
              \/ /\ place'[m] \in {"inbox", "lost"} /\ (place'[m] = "inbox" => m # Reply(m[1]))
                 /\ UNCHANGED <<pc, outcome, joined>>
    <3>1. UNCHANGED ran
      BY <1>10 DEF Publish, engineVars
    <3>2. (IF Last(ran[Head(queue[h][t])[1]]) = "ok" THEN "result" ELSE "failure") \in {"result", "failure"}
      OBVIOUS
    <3>3. Head(queue[h][t]) \in Messages /\ Head(queue[h][t])[1] \in Threads
      BY <1>10, PublishFacts, MessageFacts
    <3> QED BY <1>10, <3>1, <3>2, <3>3, PublishFacts
  <2>1. CASE /\ place'[m] \in {"inbox", "lost"} /\ (place'[m] = "inbox" => m # Reply(m[1]))
             /\ UNCHANGED <<pc, outcome, joined>>
    BY <2>0, <2>1, <1>0, CourseMoves
  <2>2. CASE /\ m = Reply(c) /\ c \in joined /\ place'[m] = "done"
             /\ pc' = [pc EXCEPT ![c] = "done"] /\ joined' = joined \ {c}
             /\ \E what \in {"result", "failure"} : outcome' = [outcome EXCEPT ![c] = what]
    <3>1. CourseOf(c) /\ Request(c) \in Messages \ {m}
      BY <2>0, <2>2, MessageFacts, Distinct DEF CourseInv
    <3>2. CourseOf(c)'
      <4>1. pc'[c] = "done" /\ place'[Request(c)] = place[Request(c)] /\ place'[Reply(c)] = "done"
            /\ c \notin joined' /\ place[Reply(c)] # "none" /\ ran'[c] = ran[c]
        BY <2>0, <2>2, <3>1 DEF WireTypeInv
      <4> QED BY <1>0, <3>1, <4>1 DEF CourseOf
    <3>3. ASSUME NEW d \in Threads \ {c} PROVE CourseOf(d)'
      <4>1. place'[Request(d)] = place[Request(d)] /\ place'[Reply(d)] = place[Reply(d)]
        BY <2>0, <2>2, MessageFacts, Distinct
      <4>2. pc'[d] = pc[d] /\ outcome'[d] = outcome[d] /\ (d \in joined' => d \in joined)
        BY <2>2 DEF WireTypeInv
      <4> QED BY <2>0, <4>1, <4>2, <1>0, CourseSame
    <3> QED BY <3>2, <3>3 DEF CourseInv
  <2> QED BY <2>0, <2>1, <2>2
<1>11. ASSUME TimePasses PROVE CourseInv'
  BY <1>11, <1>0, CourseMoves DEF TimePasses, wireVars, engineVars, clientVars
<1>12. CASE UNCHANGED zmqVars
  BY <1>12, <1>0, CourseMoves DEF zmqVars, wireVars, engineVars, clientVars
<1> QED BY <1>1, <1>2, <1>3, <1>4, <1>5, <1>6, <1>7, <1>8, <1>9, <1>10, <1>11, <1>12, StepOf

(* The fake driver. *)

LEMMA FakeKept ==
  ASSUME UNCHANGED fakeVars
  PROVE  /\ FakeTypeInv => FakeTypeInv'
         /\ CallerInv => CallerInv'
         /\ FanoutInv => FanoutInv'
BY DEF fakeVars, FakeTypeInv, CallerInv, CallerOf, FanoutInv, FanoutOf, Before

\* The consumers there were are finitely many, and so are any of them.
LEMMA ConsumerFacts ==
  ASSUME FakeTypeInv
  PROVE  /\ Len(owner) \in Nat /\ DOMAIN owner = 1 .. Len(owner)
         /\ \A S \in SUBSET (1 .. Len(owner)) : IsFiniteSet(S) /\ Cardinality(S) \in Nat
         /\ \A S \in SUBSET (1 .. Len(owner)) : \A T \in SUBSET S : Cardinality(T) <= Cardinality(S)
<1>1. Len(owner) \in Nat /\ DOMAIN owner = 1 .. Len(owner)
  BY DEF FakeTypeInv
<1>2. IsFiniteSet(1 .. Len(owner))
  BY <1>1, FS_Interval
<1>3. \A S \in SUBSET (1 .. Len(owner)) : IsFiniteSet(S)
  BY <1>2, FS_Subset
<1> QED BY <1>1, <1>3, FS_Subset, FS_CardinalityType

\* The driver counts as FiniteSets does.
LEMMA CountsSame == \A S : Fake!Cardinality(S) = Cardinality(S)
BY DEF Fake!Cardinality, Cardinality

LEMMA CallNextFacts ==
  ASSUME FakeTypeInv, NEW c \in Threads, Fake!CallNext(c)
  PROVE  \E i \in consumers :
            /\ Cardinality(Before(i)) = next[c] - 1 /\ i \in 1 .. Len(owner)
            /\ reached' = [reached EXCEPT ![c] = reached[c] \cup {i}]
            /\ at' = [at EXCEPT ![c] = "wait"]
            /\ task' = [task EXCEPT ![c] = "run"]
            /\ next' = [next EXCEPT ![c] = next[c] + 1]
<1>1. PICK i \in consumers : /\ Cardinality({j \in consumers : j < i}) = next[c] - 1
                            /\ reached' = [reached EXCEPT ![c] = reached[c] \cup {i}]
  BY CountsSame DEF Fake!CallNext
<1>2. i \in 1 .. Len(owner)
  BY DEF FakeTypeInv
<1> QED BY <1>1, <1>2 DEF Fake!CallNext, Before

LEMMA FakeTypeStep ==
  ASSUME FakeTypeInv, CallerInv, Next
  PROVE  FakeTypeInv'
<1>1. ASSUME NEW c \in Threads, Fake!Spawn(c) PROVE FakeTypeInv'
  BY <1>1 DEF FakeTypeInv, Fake!Spawn, Fake!Finish, Fake!fakeConfig
<1>2. ASSUME NEW c \in Threads, Fake!SpawnNext(c) PROVE FakeTypeInv'
  <2>1. CASE Fake!Finish(c, "none") /\ UNCHANGED <<task, next, reached>>
    BY <1>2, <2>1 DEF FakeTypeInv, Fake!SpawnNext, Fake!Finish, Fake!fakeConfig
  <2>2. CASE Fake!CallNext(c) /\ UNCHANGED told
    <3>1. PICK i \in 1 .. Len(owner) :
             /\ reached' = [reached EXCEPT ![c] = reached[c] \cup {i}]
             /\ at' = [at EXCEPT ![c] = "wait"]
             /\ task' = [task EXCEPT ![c] = "run"]
             /\ next' = [next EXCEPT ![c] = next[c] + 1]
      BY <2>2, CallNextFacts
    <3>2. reached' \in [Threads -> SUBSET (1 .. Len(owner))]
      BY <3>1 DEF FakeTypeInv
    <3>3. /\ next' \in [Threads -> Nat \ {0}]
          /\ at' \in [Threads -> {"start", "wait", "done"}]
          /\ task' \in [Threads -> {"none", "run", "ok", "raised", "killed"}]
      BY <3>1 DEF FakeTypeInv
    <3> QED BY <1>2, <2>2, <3>2, <3>3 DEF FakeTypeInv, Fake!SpawnNext, Fake!fakeConfig
  <2> QED BY <1>2, <2>1, <2>2 DEF Fake!SpawnNext
<1>3. ASSUME NEW c \in Threads, Fake!RunMethod(c) PROVE FakeTypeInv'
  <2>1. PICK how \in Outcomes :
            /\ task' = [task EXCEPT ![c] = how]
            /\ ended' = [ended EXCEPT ![c] = IF does[c] = "fanout" THEN @ ELSE Append(@, how)]
    BY <1>3 DEF Fake!RunMethod, Outcomes
  <2>2. ended' \in [Threads -> Seq(Outcomes)]
    <3>1. ended[c] \in Seq(Outcomes)
      BY DEF FakeTypeInv
    <3>2. Append(ended[c], how) \in Seq(Outcomes)
      BY <3>1, Appended
    <3> QED BY <2>1, <3>1, <3>2 DEF FakeTypeInv
  <2>3. task' \in [Threads -> {"none", "run", "ok", "raised", "killed"}]
    BY <2>1 DEF FakeTypeInv, Outcomes
  <2> QED BY <1>3, <2>2, <2>3 DEF FakeTypeInv, Fake!RunMethod, Fake!fakeConfig
<1>4. ASSUME NEW c \in Threads, Fake!Hear(c) PROVE FakeTypeInv'
  BY <1>4 DEF FakeTypeInv, Fake!Hear, Fake!Finish, Fake!fakeConfig
<1>5. ASSUME NEW c \in Threads, Fake!GiveUp(c) PROVE FakeTypeInv'
  BY <1>5 DEF FakeTypeInv, Fake!GiveUp, Fake!Finish, Fake!fakeConfig
<1>6. ASSUME NEW k \in Connections, Fake!CloseConnection(k) PROVE FakeTypeInv'
  <2>1. changes' \in Nat
    BY <1>6 DEF FakeTypeInv, Fake!CloseConnection
  <2>2. consumers' \subseteq consumers
    BY <1>6 DEF Fake!CloseConnection
  <2> QED BY <1>6, <2>1, <2>2 DEF FakeTypeInv, Fake!CloseConnection, Fake!fakeConfig
<1>7. ASSUME NEW k \in Connections, Fake!CreateConsumer(k) PROVE FakeTypeInv'
  <2>1. /\ owner' \in Seq(Connections) /\ Len(owner') = Len(owner) + 1 /\ Len(owner) \in Nat
    BY <1>7, Appended DEF FakeTypeInv, Fake!CreateConsumer
  <2>2. changes' \in Nat
    BY <1>7 DEF FakeTypeInv, Fake!CreateConsumer
  <2>3. consumers' \subseteq 1 .. Len(owner')
    <3>1. consumers \subseteq 1 .. Len(owner) /\ consumers' = consumers \cup {Len(owner) + 1}
      BY <1>7 DEF FakeTypeInv, Fake!CreateConsumer
    <3>2. \A n \in Nat : 1 .. n \cup {n + 1} \subseteq 1 .. n + 1
      OBVIOUS
    <3> QED BY <2>1, <3>1, <3>2
  <2>4. reached' \in [Threads -> SUBSET (1 .. Len(owner'))]
    <3>1. 1 .. Len(owner) \subseteq 1 .. Len(owner')
      BY <2>1
    <3> QED BY <1>7, <3>1 DEF FakeTypeInv, Fake!CreateConsumer
  <2> QED BY <1>7, <2>1, <2>2, <2>3, <2>4 DEF FakeTypeInv, Fake!CreateConsumer, Fake!fakeConfig
<1> QED BY <1>1, <1>2, <1>3, <1>4, <1>5, <1>6, <1>7, FakeKept, StepOf

\* The callers that a step leaves alone.
LEMMA CallerSame ==
  ASSUME CallerInv, NEW c \in Threads, UNCHANGED does,
         \A d \in Threads \ {c} :
            at'[d] = at[d] /\ told'[d] = told[d] /\ task'[d] = task[d] /\ ended'[d] = ended[d],
         CallerOf(c)'
  PROVE  CallerInv'
<1> SUFFICES ASSUME NEW d \in Threads PROVE CallerOf(d)'
  BY DEF CallerInv
<1>1. CallerOf(d)
  BY DEF CallerInv
<1> QED BY <1>1 DEF CallerOf

\* A caller moves on, and no method ends.
LEMMA CallerMoves ==
  ASSUME NEW c \in Threads, CallerOf(c), UNCHANGED <<does, ended>>,
         does[c] # "fanout" /\ task'[c] # task[c] => task[c] \notin Outcomes /\ task'[c] \notin Outcomes,
         at'[c] # "done" => at[c] # "done" /\ told'[c] = told[c],
         at'[c] = "wait" => task'[c] # "none",
         at'[c] = "start" => does[c] = "fanout"
  PROVE  CallerOf(c)'
<1>1. ended'[c] = IF does'[c] # "fanout" /\ task'[c] \in Outcomes THEN <<task'[c]>> ELSE <<>>
  <2>1. CASE does[c] # "fanout" /\ task[c] \in Outcomes
    BY <2>1 DEF CallerOf
  <2>2. CASE ~(does[c] # "fanout" /\ task[c] \in Outcomes)
    BY <2>2 DEF CallerOf
  <2> QED BY <2>1, <2>2
<1> QED BY <1>1 DEF CallerOf

LEMMA CallerStep ==
  ASSUME FakeTypeInv, CallerInv, Next
  PROVE  CallerInv'
<1>1. ASSUME NEW c \in Threads,
             Fake!Spawn(c) \/ Fake!SpawnNext(c) \/ Fake!Hear(c) \/ Fake!GiveUp(c)
      PROVE  CallerInv'
  <2>0. CallerOf(c) /\ UNCHANGED <<does, ended>>
    BY <1>1 DEF CallerInv, Fake!Spawn, Fake!SpawnNext, Fake!Hear, Fake!GiveUp, Fake!fakeConfig
  <2>1. \A d \in Threads \ {c} : at'[d] = at[d] /\ told'[d] = told[d] /\ task'[d] = task[d]
    BY <1>1 DEF FakeTypeInv, Fake!Spawn, Fake!SpawnNext, Fake!Hear, Fake!GiveUp, Fake!Finish,
               Fake!CallNext
  <2>2. ASSUME Fake!Spawn(c) PROVE CallerOf(c)'
    <3>1. at[c] = "start" /\ does[c] # "fanout"
      BY <2>2 DEF Fake!Spawn
    <3>2. \/ at'[c] = "done" /\ task'[c] = task[c]
          \/ at'[c] = "wait" /\ task'[c] = "run" /\ told'[c] = told[c]
      BY <2>2 DEF FakeTypeInv, Fake!Spawn, Fake!Finish
    <3>3. task[c] \notin Outcomes /\ task'[c] \notin Outcomes
      BY <2>0, <3>1, <3>2 DEF CallerOf, Outcomes
    <3> QED BY <2>0, <3>1, <3>2, <3>3, CallerMoves
  <2>3. ASSUME Fake!SpawnNext(c) PROVE CallerOf(c)'
    <3>1. at[c] = "start" /\ does[c] = "fanout"
      BY <2>3 DEF Fake!SpawnNext
    <3>2. \/ at'[c] = "done" /\ task'[c] = task[c]
          \/ at'[c] = "wait" /\ task'[c] = "run" /\ told'[c] = told[c]
      BY <2>3 DEF FakeTypeInv, Fake!SpawnNext, Fake!Finish, Fake!CallNext
    <3> QED BY <2>0, <3>1, <3>2, CallerMoves
  <2>4. ASSUME Fake!Hear(c) PROVE CallerOf(c)'
    <3>1. at[c] = "wait" /\ task[c] \in Outcomes /\ task'[c] = task[c]
      BY <2>4 DEF Fake!Hear, Outcomes
    <3>2. \/ at'[c] = "done"
          \/ does[c] = "fanout" /\ at'[c] = "start" /\ told'[c] = told[c]
      BY <2>4 DEF FakeTypeInv, Fake!Hear, Fake!Finish
    <3> QED BY <2>0, <3>1, <3>2, CallerMoves
  <2>5. ASSUME Fake!GiveUp(c) PROVE CallerOf(c)'
    <3>1. at'[c] = "done" /\ task'[c] = IF task[c] = "run" THEN "killed" ELSE task[c]
      BY <2>5 DEF FakeTypeInv, Fake!GiveUp, Fake!Finish
    <3>2. task'[c] # task[c] => task[c] \notin Outcomes /\ task'[c] \notin Outcomes
      BY <3>1 DEF Outcomes
    <3> QED BY <2>0, <3>1, <3>2, CallerMoves
  <2> QED BY <1>1, <2>0, <2>1, <2>2, <2>3, <2>4, <2>5, CallerSame
<1>2. ASSUME NEW c \in Threads, Fake!RunMethod(c) PROVE CallerInv'
  <2>0. CallerOf(c) /\ task[c] = "run" /\ UNCHANGED <<does, at, told>>
    BY <1>2 DEF CallerInv, Fake!RunMethod, Fake!fakeConfig
  <2>1. PICK how \in Outcomes :
            /\ task' = [task EXCEPT ![c] = how]
            /\ ended' = [ended EXCEPT ![c] = IF does[c] = "fanout" THEN @ ELSE Append(@, how)]
    BY <1>2 DEF Fake!RunMethod, Outcomes
  <2>2. ended[c] = <<>>
    BY <2>0 DEF CallerOf, Outcomes
  <2>3. ended'[c] = IF does[c] = "fanout" THEN <<>> ELSE <<how>>
    BY <2>1, <2>2 DEF FakeTypeInv
  <2>4. task'[c] = how /\ \A d \in Threads \ {c} : task'[d] = task[d] /\ ended'[d] = ended[d]
    BY <2>1 DEF FakeTypeInv
  <2>5. CallerOf(c)'
    BY <2>0, <2>3, <2>4 DEF CallerOf, Outcomes
  <2> QED BY <2>0, <2>4, <2>5, CallerSame
<1>3. ASSUME NEW k \in Connections, Fake!CreateConsumer(k) \/ Fake!CloseConnection(k)
      PROVE  CallerInv'
  BY <1>3 DEF CallerInv, CallerOf, Fake!CreateConsumer, Fake!CloseConnection, Fake!fakeConfig
<1> QED BY <1>1, <1>2, <1>3, FakeKept, StepOf

(* The loop of a fanout over the list that changes. *)

\* Who is before a consumer in the list is never more, whoever closes.
LEMMA FanoutClose ==
  ASSUME FakeTypeInv, FanoutInv, NEW k \in Connections, Fake!CloseConnection(k)
  PROVE  FanoutInv'
<1>1. consumers' \subseteq consumers /\ UNCHANGED <<next, reached>>
  BY DEF Fake!CloseConnection
<1>2. ASSUME NEW i \in consumers'
      PROVE  /\ Cardinality(Before(i)') <= Cardinality(Before(i))
             /\ Cardinality(Before(i)) \in Nat /\ Cardinality(Before(i)') \in Nat
  <2>1. Before(i) \subseteq 1 .. Len(owner) /\ Before(i)' \subseteq Before(i)
    BY <1>1 DEF Before, FakeTypeInv
  <2> QED BY <2>1, ConsumerFacts
<1> SUFFICES ASSUME NEW c \in Threads PROVE FanoutOf(c)'
  BY DEF FanoutInv
<1>3. FanoutOf(c) /\ next[c] \in Nat
  BY DEF FanoutInv, FakeTypeInv
<1>4. ASSUME NEW i \in reached'[c] \cap consumers' PROVE Cardinality(Before(i)') < next'[c] - 1
  <2>1. Cardinality(Before(i)) < next[c] - 1
    BY <1>1, <1>3, <1>4 DEF FanoutOf
  <2> QED BY <1>1, <1>2, <1>3, <1>4, <2>1
<1> QED BY <1>1, <1>3, <1>4 DEF FanoutOf

\* A new consumer is the last of the list.
LEMMA FanoutCreate ==
  ASSUME FakeTypeInv, FanoutInv, NEW k \in Connections, Fake!CreateConsumer(k)
  PROVE  FanoutInv'
<1>1. consumers' = consumers \cup {Len(owner) + 1} /\ UNCHANGED <<next, reached>>
  BY DEF Fake!CreateConsumer
<1>2. ASSUME NEW i \in 1 .. Len(owner) PROVE Before(i)' = Before(i)
  BY <1>1, ConsumerFacts DEF Before
<1> SUFFICES ASSUME NEW c \in Threads PROVE FanoutOf(c)'
  BY DEF FanoutInv
<1>3. FanoutOf(c) /\ reached[c] \subseteq 1 .. Len(owner) /\ Len(owner) \in Nat
  BY ConsumerFacts DEF FanoutInv, FakeTypeInv
<1>4. ASSUME NEW i \in reached'[c] \cap consumers'
      PROVE  i \in reached[c] \cap consumers /\ i \in 1 .. Len(owner)
  BY <1>1, <1>3, <1>4
<1> QED BY <1>1, <1>2, <1>3, <1>4 DEF FanoutOf

\* The consumer a fanout calls is one it has not called, as those are before it.
LEMMA FanoutCalls ==
  ASSUME FakeTypeInv, FanoutInv, NEW c \in Threads, Fake!CallNext(c), UNCHANGED consumers
  PROVE  FanoutInv'
<1>0. PICK i \in consumers :
            /\ Cardinality(Before(i)) = next[c] - 1 /\ i \in 1 .. Len(owner)
            /\ reached' = [reached EXCEPT ![c] = reached[c] \cup {i}]
            /\ next' = [next EXCEPT ![c] = next[c] + 1]
  BY CallNextFacts
<1>1. /\ reached'[c] = reached[c] \cup {i} /\ next'[c] = next[c] + 1 /\ next[c] \in Nat
      /\ reached[c] \in SUBSET (1 .. Len(owner))
      /\ \A d \in Threads \ {c} : reached'[d] = reached[d] /\ next'[d] = next[d]
  BY <1>0 DEF FakeTypeInv
<1>2. FanoutOf(c) /\ \A d \in Threads : FanoutOf(d)
  BY DEF FanoutInv
<1>3. i \notin reached[c]
  <2> SUFFICES ASSUME i \in reached[c] PROVE FALSE
    OBVIOUS
  <2>1. Cardinality(Before(i)) < next[c] - 1
    BY <1>2 DEF FanoutOf
  <2> QED BY <1>0, <1>1, <2>1
<1>4. Cardinality(reached'[c]) = next'[c] - 1
  <2>1. IsFiniteSet(reached[c])
    BY <1>1, ConsumerFacts
  <2>2. Cardinality(reached[c] \cup {i}) = Cardinality(reached[c]) + 1
    BY <1>3, <2>1, FS_AddElement
  <2>3. Cardinality(reached[c]) = next[c] - 1
    BY <1>2 DEF FanoutOf
  <2> QED BY <1>1, <2>2, <2>3
<1>5. ASSUME NEW j \in reached'[c] \cap consumers' PROVE Cardinality(Before(j)') < next'[c] - 1
  <2>1. Before(j)' = Before(j)
    BY DEF Before
  <2>2. CASE j = i
    BY <1>0, <1>1, <2>1, <2>2
  <2>3. CASE j \in reached[c]
    <3>1. Cardinality(Before(j)) < next[c] - 1 /\ Cardinality(Before(j)) \in Nat
      <4>1. Before(j) \subseteq 1 .. Len(owner)
        BY DEF Before, FakeTypeInv
      <4> QED BY <1>2, <1>5, <2>3, <4>1, ConsumerFacts DEF FanoutOf
    <3> QED BY <1>1, <2>1, <3>1
  <2> QED BY <1>1, <1>5, <2>2, <2>3
<1>6. ASSUME NEW d \in Threads \ {c} PROVE FanoutOf(d)'
  BY <1>1, <1>2, <1>6 DEF FanoutOf, Before
<1> QED BY <1>4, <1>5, <1>6 DEF FanoutInv, FanoutOf

LEMMA FanoutStep ==
  ASSUME FakeTypeInv, FanoutInv, Next
  PROVE  FanoutInv'
<1>1. ASSUME UNCHANGED <<consumers, next, reached>> PROVE FanoutInv'
  BY <1>1 DEF FanoutInv, FanoutOf, Before
<1>2. ASSUME NEW c \in Threads,
             Fake!Spawn(c) \/ Fake!RunMethod(c) \/ Fake!Hear(c) \/ Fake!GiveUp(c)
      PROVE  FanoutInv'
  BY <1>1, <1>2 DEF Fake!Spawn, Fake!RunMethod, Fake!Hear, Fake!GiveUp
<1>3. ASSUME NEW c \in Threads, Fake!SpawnNext(c) PROVE FanoutInv'
  <2>1. UNCHANGED consumers /\ (UNCHANGED <<next, reached>> \/ Fake!CallNext(c))
    BY <1>3 DEF Fake!SpawnNext
  <2> QED BY <1>1, <2>1, FanoutCalls
<1> QED BY <1>2, <1>3, FanoutClose, FanoutCreate, FakeKept, StepOf

(* The invariant is inductive. *)

LEMMA InitInv == Init => IInv
<1> SUFFICES ASSUME NEW s \in Settings, backend = s.backend, ZmqInit(s), Fake!FakeInit(s)
             PROVE  IInv
  BY DEF Init
<1>0. /\ s.backend \in {"zmq", "fake"} /\ s.patience \in BOOLEAN /\ s.consumers \in Seq(Connections)
      /\ s.kind \in {"localhost", "ring", "redis"} /\ s.topics \in Seq({"topic", "node"})
      /\ s.engines \subseteq Hosts /\ s.op \in [Threads -> Ops] /\ s.home \in [Threads -> Hosts]
      /\ s.faults \in Nat /\ (s.backend = "zmq" => s.topics # <<>>)
  BY BackendsAssumption
<1>1. SettingInv
  BY <1>0 DEF SettingInv, ZmqInit, MatchInit, Zmq
<1>2. MatchTypeInv
  BY MatchMakerAssumption DEF MatchTypeInv, ZmqInit, MatchInit, None
<1>3. WireTypeInv
  <2>1. [t \in Topics |-> <<>>] \in [Topics -> Seq(Messages)]
    OBVIOUS
  <2>2. queue \in [Hosts -> [Topics -> Seq(Messages)]]
    BY <2>1 DEF ZmqInit
  <2>3. ran \in [Threads -> Seq(Outcomes)]
    BY DEF ZmqInit
  <2> QED BY <2>2, <2>3, MatchMakerAssumption DEF WireTypeInv, ZmqInit
<1>4. ListInv
  BY DEF ListInv, ZmqInit, MatchInit
<1>5. QueueInv
  <2> SUFFICES ASSUME NEW h \in Hosts, NEW t \in Topics PROVE Len(queue[h][t]) = 0
    BY ZmqAssumption DEF QueueInv
  <2> QED BY DEF ZmqInit
<1>6. PoolInv
  <2>1. \A h \in Hosts : Running(h) = {}
    BY DEF Running, ZmqInit
  <2> QED BY <2>1, FS_EmptySet, ZmqAssumption DEF PoolInv
<1>7. CourseInv
  BY MessageFacts DEF CourseInv, CourseOf, ZmqInit
<1>8. FakeTypeInv
  <2>1. [c \in Threads |-> "none"] \in [Threads -> Ops]
    BY DEF Ops
  <2>2. does \in [Threads -> Ops] /\ owner \in Seq(Connections)
    BY <1>0, <2>1 DEF Fake!FakeInit
  <2>4. consumers \subseteq 1 .. Len(owner)
    BY <2>2 DEF Fake!FakeInit
  <2>3. ended \in [Threads -> Seq(Outcomes)]
    BY DEF Fake!FakeInit
  <2> QED BY <1>0, <2>2, <2>3, <2>4 DEF FakeTypeInv, Fake!FakeInit
<1>9. CallerInv
  BY DEF CallerInv, CallerOf, Fake!FakeInit, Outcomes
<1>10. FanoutInv
  <2>1. \A c \in Threads : reached[c] = {} /\ next[c] = 1
    BY DEF Fake!FakeInit
  <2> QED BY <2>1, FS_EmptySet DEF FanoutInv, FanoutOf
<1> QED BY <1>1, <1>2, <1>3, <1>4, <1>5, <1>6, <1>7, <1>8, <1>9, <1>10 DEF IInv

LEMMA StutterInv ==
  ASSUME IInv, UNCHANGED vars PROVE IInv'
<1>1. UNCHANGED <<backend, config, faults, matchVars, clientVars, wireVars, engineVars, fakeVars>>
  BY DEF vars, zmqVars
<1>2. SettingInv'
  BY <1>1 DEF IInv, SettingInv, Zmq, config
<1>3. MatchTypeInv'
  BY <1>1 DEF IInv, MatchTypeInv, matchVars, clientVars
<1>4. WireTypeInv'
  BY <1>1 DEF IInv, WireTypeInv, clientVars, wireVars, engineVars
<1>5. ListInv'
  BY <1>1 DEF IInv, ListInv, Redis, config, matchVars, clientVars
<1>6. QueueInv'
  BY <1>1, QueueKept DEF IInv, config, wireVars
<1>7. PoolInv'
  BY <1>1, PoolKept DEF IInv, wireVars
<1>8. CourseInv'
  BY <1>1, CourseMoves DEF IInv, config, clientVars, wireVars, engineVars
<1> QED BY <1>1, <1>2, <1>3, <1>4, <1>5, <1>6, <1>7, <1>8, FakeKept DEF IInv

LEMMA NextInv ==
  ASSUME IInv, [Next]_vars PROVE IInv'
<1>1. CASE Next
  BY <1>1, SettingStep, MatchTypeStep, WireTypeStep, ListStep, QueueStep, PoolStep, CourseStep,
     FakeTypeStep, CallerStep, FanoutStep DEF IInv
<1>2. CASE UNCHANGED vars
  BY <1>2, StutterInv
<1> QED BY <1>1, <1>2

LEMMA Inductive == Spec => []IInv
BY InitInv, NextInv, PTL DEF Spec

\* Every message, engine and thread is somewhere the code knows, a topic's
\* backlog holds rpc_zmq_topic_backlog messages and the one being published
\* (impl_zmq.py:438-499), and an engine runs no more requests than its pool has
\* threads for (impl_zmq.py:402-411).
THEOREM BackendsTypeCorrect == Spec => []TypeOK
<1>1. IInv => TypeOK
  BY DEF IInv, MatchTypeInv, WireTypeInv, QueueInv, PoolInv, TypeOK
<1> QED BY <1>1, Inductive, PTL

\* An engine whose heartbeats go on is in the set of its topic, unless somebody
\* has seen its key missing (matchmaker_redis.py:115-138).
THEOREM EnginesAreListed == Spec => []Listed
<1>1. IInv => Listed
  BY DEF IInv, MatchTypeInv, ListInv, Listed
<1> QED BY <1>1, Inductive, PTL

\* fanout_cast loops over a list that create_consumer and close change
\* (impl_fake.py:191, 108-118): however many consumers a connection has and
\* whenever it closes, no consumer is called twice, and of those in the list at
\* the end it misses no more than it had called that were closed.
THEOREM FanoutMissesFew == Spec => FanoutMisses
<1>1. ASSUME IInv, Next, NEW c \in Threads, does[c] = "fanout", at[c] # "done", at'[c] = "done"
      PROVE  /\ Cardinality(reached[c]) = next[c] - 1
             /\ Cardinality(consumers \ reached[c]) <= Cardinality(reached[c] \ consumers)
  <2>1. FakeTypeInv /\ FanoutOf(c)
    BY <1>1 DEF IInv, FanoutInv
  <2>2. next[c] > Cardinality(consumers)
    <3>1. PICK d \in Threads : Fake!Spawn(d) \/ Fake!SpawnNext(d) \/ Fake!Hear(d) \/ Fake!GiveUp(d)
      BY <1>1, StepOf DEF fakeVars, Fake!RunMethod, Fake!CreateConsumer, Fake!CloseConnection
    <3>2. at'[d] # at[d] /\ d = c
      BY <1>1, <2>1, <3>1 DEF FakeTypeInv, Fake!Spawn, Fake!SpawnNext, Fake!Hear, Fake!GiveUp,
                             Fake!Finish, Fake!CallNext
    <3>3. ~Fake!Spawn(c) /\ ~Fake!GiveUp(c) /\ ~Fake!Hear(c)
      BY <1>1, <2>1 DEF FakeTypeInv, Fake!Spawn, Fake!Hear, Fake!GiveUp
    <3>4. ~Fake!CallNext(c)
      BY <1>1, <2>1 DEF FakeTypeInv, Fake!CallNext
    <3>5. Fake!SpawnNext(c)
      BY <3>1, <3>2, <3>3
    <3>6. Cardinality(consumers) \in Nat /\ next[c] \in Nat
      BY <2>1, ConsumerFacts DEF FakeTypeInv
    <3> QED BY <3>4, <3>5, <3>6, CountsSame DEF Fake!SpawnNext
  <2>3. Cardinality(reached[c]) = next[c] - 1 /\ next[c] \in Nat
    BY <2>1 DEF FanoutOf, FakeTypeInv
  <2>4. /\ IsFiniteSet(consumers) /\ IsFiniteSet(reached[c])
        /\ Cardinality(consumers) \in Nat /\ Cardinality(consumers \cap reached[c]) \in Nat
    <3>1. /\ consumers \in SUBSET (1 .. Len(owner)) /\ reached[c] \in SUBSET (1 .. Len(owner))
          /\ consumers \cap reached[c] \in SUBSET (1 .. Len(owner))
      BY <2>1 DEF FakeTypeInv
    <3> QED BY <2>1, <3>1, ConsumerFacts
  <2>5. Cardinality(consumers \ reached[c])
            = Cardinality(consumers) - Cardinality(consumers \cap reached[c])
    BY <2>4, FS_Difference
  <2>6. Cardinality(reached[c] \ consumers)
            = Cardinality(reached[c]) - Cardinality(consumers \cap reached[c])
    <3>1. reached[c] \cap consumers = consumers \cap reached[c]
      OBVIOUS
    <3> QED BY <2>4, <3>1, FS_Difference
  <2> QED BY <2>2, <2>3, <2>4, <2>5, <2>6
<1>2. ASSUME IInv, [Next]_vars
      PROVE  [\A c \in Threads : does[c] = "fanout" /\ at[c] # "done" /\ at'[c] = "done"
               => /\ Cardinality(reached[c]) = next[c] - 1
                  /\ Cardinality(consumers \ reached[c]) <= Cardinality(reached[c] \ consumers)]_vars
  BY <1>1, <1>2
<1> QED BY <1>2, Inductive, PTL DEF Spec, FanoutMisses

(* Both drivers implement RpcPromise. *)

LEMMA ToldFacts ==
  /\ ToldOf("none") = "none" /\ ToldOf("sent") = "none" /\ ToldOf("nomatch") = "none"
  /\ ToldOf("unserved") = "none" /\ ToldOf("timeout") = "nothing" /\ ToldOf("nothing") = "nothing"
  /\ ToldOf("result") = "result" /\ ToldOf("failure") = "failure"
BY DEF ToldOf

LEMMA ToldIs ==
  ASSUME UNCHANGED backend
  PROVE  /\ Told = [c \in Threads |-> ToldOf(IF Zmq THEN outcome[c] ELSE told[c])]
         /\ Told' = [c \in Threads |-> ToldOf(IF Zmq THEN outcome'[c] ELSE told'[c])]
         /\ Zmq' <=> Zmq
BY DEF Told, ToldOf, Zmq

\* The steps of a promise.
LEMMA MayAsk ==
  ASSUME NEW c \in Threads, c \notin Asked, Asked' = Asked \cup {c}, UNCHANGED <<Ended, Told>>
  PROVE  Promise!Next
BY DEF Promise!Next, Promise!Ask

LEMMA MayRun ==
  ASSUME NEW c \in Threads, c \in Asked, Ended[c] = <<>>, NEW how \in Outcomes,
         Ended' = [Ended EXCEPT ![c] = <<how>>], UNCHANGED <<Asked, Told>>
  PROVE  Promise!Next
BY DEF Promise!Next, Promise!Run, Promise!Runs, Outcomes

LEMMA MayTell ==
  ASSUME NEW c \in Threads, c \in Asked, Told[c] = "none", NEW what, Told' = [Told EXCEPT ![c] = what],
         \/ what = "nothing"
         \/ what = "result" /\ Ended[c] = <<"ok">>
         \/ what = "failure" /\ Ended[c] = <<"raised">>,
         UNCHANGED <<Asked, Ended>>
  PROVE  Promise!Next
BY DEF Promise!Next, Promise!Tell

\* What one thread was told changes, or none.
LEMMA ToldMoves ==
  ASSUME UNCHANGED backend, NEW c \in Threads, NEW what,
         ToldOf(IF Zmq THEN outcome'[c] ELSE told'[c]) = what,
         \A d \in Threads \ {c} : outcome'[d] = outcome[d] /\ told'[d] = told[d]
  PROVE  Told' = [Told EXCEPT ![c] = what]
<1>1. ASSUME NEW d \in Threads PROVE Told'[d] = [Told EXCEPT ![c] = what][d]
  <2>1. CASE d = c
    BY <2>1, ToldIs
  <2>2. CASE d # c
    BY <2>2, ToldIs
  <2> QED BY <2>1, <2>2
<1>2. DOMAIN Told' = Threads /\ DOMAIN [Told EXCEPT ![c] = what] = Threads
  BY ToldIs
<1>3. Told' = [d \in Threads |-> Told'[d]] /\ [Told EXCEPT ![c] = what] = [d \in Threads |-> [Told EXCEPT ![c] = what][d]]
  BY ToldIs
<1> QED BY <1>1, <1>3

LEMMA ToldSame ==
  ASSUME UNCHANGED backend,
         \A d \in Threads : ToldOf(IF Zmq THEN outcome'[d] ELSE told'[d]) = ToldOf(IF Zmq THEN outcome[d] ELSE told[d])
  PROVE  UNCHANGED Told
BY ToldIs

\* A call has run at most once, and to one of two ends.
LEMMA RanOnce ==
  ASSUME NEW s \in Seq(Outcomes), Len(s) = 1
  PROVE  /\ Last(s) = "ok" => s = <<"ok">>
         /\ Last(s) # "ok" => s = <<"raised">>
<1>1. s = <<s[1]>> /\ s[1] \in Outcomes /\ Last(s) = s[1]
  BY DEF Last
<1> QED BY <1>1 DEF Outcomes

\* A step over zmq that only moves messages on is none of the promise's.
LEMMA ZmqQuiet ==
  ASSUME Zmq, UNCHANGED <<backend, ran>>,
         \A c \in Threads : place'[Request(c)] = "none" <=> place[Request(c)] = "none",
         \A c \in Threads : ToldOf(outcome'[c]) = ToldOf(outcome[c])
  PROVE  UNCHANGED <<Asked, Ended, Told>>
<1>1. Zmq' /\ UNCHANGED Told
  BY ToldSame, ToldIs
<1>2. UNCHANGED Asked
  BY <1>1 DEF Asked
<1>3. UNCHANGED Ended
  BY <1>1 DEF Ended
<1> QED BY <1>1, <1>2, <1>3

\* What the promise's state is over zmq.
LEMMA ZmqState ==
  ASSUME Zmq, UNCHANGED backend
  PROVE  /\ Asked = {c \in Threads : place[Request(c)] # "none"}
         /\ Asked' = {c \in Threads : place'[Request(c)] # "none"}
         /\ Ended = ran /\ Ended' = ran'
         /\ Told = [c \in Threads |-> ToldOf(outcome[c])]
BY DEF Asked, Ended, Told, Zmq

LEMMA ZmqRefines ==
  ASSUME IInv, Next, Zmq, UNCHANGED <<backend, fakeVars>>
  PROVE  Promise!Next \/ UNCHANGED <<Asked, Ended, Told>>
<1>0. /\ SettingInv /\ MatchTypeInv /\ WireTypeInv /\ QueueInv /\ CourseInv
      /\ \A c \in Threads : CourseOf(c) /\ Request(c) \in Messages /\ Reply(c) \in Messages
      /\ UNCHANGED told
  BY MessageFacts DEF IInv, CourseInv, fakeVars
<1>1. ASSUME NEW c \in Threads, AsksOf(c) PROVE UNCHANGED <<Asked, Ended, Told>>
  <2>1. UNCHANGED <<place, ran>>
    BY <1>0, <1>1, AskFacts DEF wireVars, engineVars
  <2>2. outcome' \in {outcome, [outcome EXCEPT ![c] = "nomatch"]} /\ pc[c] # "done"
    BY <1>0, <1>1, AskFacts
  <2>3. \A d \in Threads : ToldOf(outcome'[d]) = ToldOf(outcome[d])
    <3>1. outcome[c] = "none" /\ outcome'[c] \in {"none", "nomatch"}
          /\ \A d \in Threads \ {c} : outcome'[d] = outcome[d]
      BY <1>0, <2>2 DEF CourseOf, WireTypeInv
    <3> QED BY <3>1, ToldFacts
  <2> QED BY <2>1, <2>3, ZmqQuiet
<1>2. ASSUME NEW c \in Threads, Send(c) PROVE Promise!Next
  <2>1. /\ pc[c] = "send" /\ place' = [place EXCEPT ![Request(c)] = "wire"] /\ UNCHANGED ran
        /\ outcome' \in {outcome, [outcome EXCEPT ![c] = "sent"]}
    BY <1>2 DEF Send, engineVars
  <2>2. c \notin Asked /\ Asked' = Asked \cup {c}
    <3>1. place[Request(c)] = "none" /\ place'[Request(c)] = "wire"
      BY <1>0, <2>1 DEF CourseOf, WireTypeInv
    <3>2. \A d \in Threads \ {c} : place'[Request(d)] = place[Request(d)]
      BY <1>0, <2>1, Distinct DEF WireTypeInv
    <3> QED BY <3>1, <3>2, ZmqState
  <2>3. \A d \in Threads : ToldOf(outcome'[d]) = ToldOf(outcome[d])
    <3>1. outcome[c] = "none" /\ outcome'[c] \in {"none", "sent"}
          /\ \A d \in Threads \ {c} : outcome'[d] = outcome[d]
      BY <1>0, <2>1 DEF CourseOf, WireTypeInv
    <3> QED BY <3>1, ToldFacts
  <2>4. UNCHANGED <<Ended, Told>>
    <3>1. UNCHANGED Told
      BY <2>3, ToldSame
    <3> QED BY <2>1, <3>1, ZmqState
  <2> QED BY <2>2, <2>4, MayAsk
<1>3. ASSUME NEW c \in Threads, Timeout(c) PROVE Promise!Next
  <2>1. pc[c] = "wait" /\ outcome' = [outcome EXCEPT ![c] = "timeout"] /\ UNCHANGED <<place, ran>>
    BY <1>3 DEF Timeout, wireVars, engineVars
  <2>2. c \in Asked /\ UNCHANGED <<Asked, Ended>>
    BY <1>0, <2>1, ZmqState DEF CourseOf
  <2>3. Told[c] = "none"
    BY <1>0, <2>1, ToldFacts, ZmqState DEF CourseOf
  <2>4. Told' = [Told EXCEPT ![c] = "nothing"]
    <3>1. outcome'[c] = "timeout" /\ \A d \in Threads \ {c} : outcome'[d] = outcome[d] /\ told'[d] = told[d]
      BY <1>0, <2>1 DEF WireTypeInv
    <3>2. ToldOf(IF Zmq THEN outcome'[c] ELSE told'[c]) = "nothing"
      BY <3>1, ToldFacts
    <3> QED BY <3>1, <3>2, ToldMoves
  <2> QED BY <2>2, <2>3, <2>4, MayTell
<1>4. ASSUME UNCHANGED <<place, ran, outcome>> PROVE UNCHANGED <<Asked, Ended, Told>>
  BY <1>4, ZmqQuiet
<1>5. ASSUME NEW c \in Threads, Join(c) PROVE UNCHANGED <<Asked, Ended, Told>>
  BY <1>4, <1>5 DEF Join, wireVars, engineVars
<1>6. ASSUME NEW h \in Hosts, Registry(h) \/ Listen(h) \/ ReceiverRestarts(h)
      PROVE  UNCHANGED <<Asked, Ended, Told>>
  BY <1>4, <1>6 DEF Registry, Listen, ReceiverRestarts, clientVars, wireVars, engineVars
<1>7. ASSUME NEW h \in Hosts, EngineEnds(h) \/ ReceiverDies(h)
      PROVE  UNCHANGED <<Asked, Ended, Told>>
  <2>1. UNCHANGED <<outcome, ran>>
    BY <1>7 DEF EngineEnds, ReceiverDies, clientVars
  <2>2. \A m \in Messages : place'[m] = "none" <=> place[m] = "none"
    <3> SUFFICES ASSUME NEW m \in Messages PROVE place'[m] = "none" <=> place[m] = "none"
      OBVIOUS
    <3>1. CASE EngineEnds(h)
      <4>1. place'[m] = IF dest[m] = h /\ place[m] \in {"inbox", "run"} THEN "lost" ELSE place[m]
        BY <3>1 DEF EngineEnds, Lose
      <4> QED BY <4>1
    <3>2. CASE ReceiverDies(h)
      <4>1. place'[m] = IF place[m] \in {"queue", "making"} /\ dest[m] = h THEN "lost" ELSE place[m]
        BY <3>2 DEF ReceiverDies, Lose
      <4> QED BY <4>1
    <3> QED BY <1>7, <3>1, <3>2
  <2> QED BY <1>0, <2>1, <2>2, ZmqQuiet
<1>8. ASSUME NEW h \in Hosts, NEW m \in Messages, Consume(h, m) \/ Made(h, m) \/ Read(h, m)
      PROVE  UNCHANGED <<Asked, Ended, Told>>
  <2>1. place[m] # "none" /\ UNCHANGED <<outcome, ran>>
    BY <1>8 DEF Consume, Made, Read, clientVars, engineVars
  <2>2. \/ Put(h, m)
        \/ place' = [place EXCEPT ![m] = "making"] \/ place' = [place EXCEPT ![m] = "run"]
        \/ Lose({m}, "alien")
    BY <1>8 DEF Consume, Made, Read
  <2>3. place'[m] # "none" /\ \A n \in Messages \ {m} : place'[n] = place[n]
    <3>1. CASE Put(h, m)
      BY <1>0, <3>1, PutFacts
    <3>2. CASE place' = [place EXCEPT ![m] = "making"] \/ place' = [place EXCEPT ![m] = "run"]
      BY <1>0, <3>2 DEF WireTypeInv
    <3>3. CASE Lose({m}, "alien")
      BY <1>0, <3>3, LoseFacts
    <3> QED BY <2>2, <3>1, <3>2, <3>3
  <2> QED BY <1>0, <2>1, <2>3, ZmqQuiet
<1>9. ASSUME NEW h \in Hosts, NEW m \in Messages, Process(h, m) PROVE Promise!Next
  <2> DEFINE c == m[1]
  <2>1. PICK how \in Outcomes : ran' = [ran EXCEPT ![c] = <<how>>]
    BY <1>0, <1>9, ProcessFacts
  <2>2. /\ c \in Threads /\ m = Request(c) /\ place[m] = "run" /\ ran[c] = <<>>
        /\ place'[m] = "done" /\ \A n \in Messages \ {m, Reply(c)} : place'[n] = place[n]
        /\ UNCHANGED outcome
    BY <1>0, <1>9, ProcessFacts
  <2>3. UNCHANGED Asked /\ c \in Asked
    <3>1. \A d \in Threads : place'[Request(d)] = "none" <=> place[Request(d)] = "none"
      BY <1>0, <2>2, Distinct
    <3> QED BY <2>2, <3>1, ZmqState
  <2>4. UNCHANGED Told
    BY <2>2, <1>0, ToldSame
  <2>5. Ended[c] = <<>> /\ Ended' = [Ended EXCEPT ![c] = <<how>>]
    BY <2>1, <2>2, ZmqState
  <2> QED BY <2>2, <2>3, <2>4, <2>5, MayRun
<1>10. ASSUME NEW h \in Hosts, NEW t \in Topics, Publish(h, t)
       PROVE  Promise!Next \/ UNCHANGED <<Asked, Ended, Told>>
  <2>0. PICK m \in Messages, c \in Threads, what \in {"result", "failure"} :
           /\ c = m[1] /\ place[m] = "queue" /\ \A n \in Messages \ {m} : place'[n] = place[n]
           /\ place'[m] \in {"done", "inbox", "lost"} /\ UNCHANGED ran
           /\ what = (IF Last(ran[c]) = "ok" THEN "result" ELSE "failure")
           /\ \/ /\ m = Reply(c) /\ c \in joined
                 /\ outcome' = [outcome EXCEPT ![c] = what]
              \/ UNCHANGED outcome
    <3>1. UNCHANGED ran
      BY <1>10 DEF Publish, engineVars
    <3>2. (IF Last(ran[Head(queue[h][t])[1]]) = "ok" THEN "result" ELSE "failure") \in {"result", "failure"}
      OBVIOUS
    <3>3. Head(queue[h][t]) \in Messages /\ Head(queue[h][t])[1] \in Threads
      BY <1>0, <1>10, PublishFacts, MessageFacts
    <3> QED BY <1>0, <1>10, <3>1, <3>2, <3>3, PublishFacts
  <2>1. \A d \in Threads : place'[Request(d)] = "none" <=> place[Request(d)] = "none"
    BY <1>0, <2>0
  <2>2. CASE UNCHANGED outcome
    BY <2>0, <2>1, <2>2, ZmqQuiet
  <2>3. CASE /\ m = Reply(c) /\ c \in joined /\ outcome' = [outcome EXCEPT ![c] = what]
    <3>1. /\ place[Request(c)] = "done" /\ Len(ran[c]) = 1 /\ outcome[c] = "none"
      BY <1>0, <2>0, <2>3 DEF CourseOf
    <3>2. c \in Asked /\ UNCHANGED <<Asked, Ended>> /\ Told[c] = "none" /\ Ended[c] = ran[c]
      BY <2>0, <2>1, <3>1, ZmqState, ToldFacts
    <3>3. Told' = [Told EXCEPT ![c] = what]
      <4>1. outcome'[c] = what /\ \A d \in Threads \ {c} : outcome'[d] = outcome[d] /\ told'[d] = told[d]
        BY <1>0, <2>3 DEF WireTypeInv
      <4>2. ToldOf(IF Zmq THEN outcome'[c] ELSE told'[c]) = what
        BY <4>1, <2>0, ToldFacts
      <4> QED BY <4>1, <4>2, ToldMoves
    <3>4. \/ what = "result" /\ Ended[c] = <<"ok">>
          \/ what = "failure" /\ Ended[c] = <<"raised">>
      <4>1. ran[c] \in Seq(Outcomes)
        BY <1>0 DEF WireTypeInv
      <4> QED BY <2>0, <3>1, <3>2, <4>1, RanOnce
    <3> QED BY <3>2, <3>3, <3>4, MayTell
  <2> QED BY <2>0, <2>2, <2>3
<1>11. ASSUME TimePasses PROVE UNCHANGED <<Asked, Ended, Told>>
  BY <1>4, <1>11 DEF TimePasses, clientVars, wireVars, engineVars
<1> QED BY <1>1, <1>2, <1>3, <1>5, <1>6, <1>7, <1>8, <1>9, <1>10, <1>11, StepOf

\* What the promise's state is with the fake driver.
LEMMA FakeState ==
  ASSUME ~Zmq, UNCHANGED backend
  PROVE  /\ Asked = {c \in Threads : task[c] # "none"}
         /\ Asked' = {c \in Threads : task'[c] # "none"}
         /\ Ended = ended /\ Ended' = ended'
         /\ Told = [c \in Threads |-> ToldOf(told[c])]
BY DEF Asked, Ended, Told, Zmq

LEMMA FakeRefines ==
  ASSUME IInv, Next, ~Zmq, UNCHANGED <<backend, zmqVars>>
  PROVE  Promise!Next \/ UNCHANGED <<Asked, Ended, Told>>
<1>0. /\ FakeTypeInv /\ CallerInv /\ UNCHANGED outcome
      /\ \A c \in Threads : CallerOf(c)
  BY DEF IInv, CallerInv, zmqVars, clientVars
<1>1. ASSUME NEW c \in Threads, UNCHANGED ended,
             ToldOf(told'[c]) = ToldOf(told[c]), task'[c] # "none" \/ task'[c] = task[c],
             \A d \in Threads \ {c} : told'[d] = told[d] /\ task'[d] = task[d]
      PROVE  Promise!Next \/ UNCHANGED <<Asked, Ended, Told>>
  <2>1. UNCHANGED <<Ended, Told>>
    BY <1>0, <1>1, FakeState, ToldSame
  <2>2. Asked' = Asked \/ (c \notin Asked /\ Asked' = Asked \cup {c})
    BY <1>1, FakeState
  <2> QED BY <2>1, <2>2, MayAsk
<1>2. ASSUME NEW c \in Threads, Fake!Spawn(c) \/ Fake!SpawnNext(c)
      PROVE  Promise!Next \/ UNCHANGED <<Asked, Ended, Told>>
  <2>1. /\ at[c] = "start" /\ UNCHANGED ended
        /\ told' \in {told, [told EXCEPT ![c] = "unserved"], [told EXCEPT ![c] = "none"]}
        /\ task' \in {task, [task EXCEPT ![c] = "run"]}
    BY <1>2 DEF Fake!Spawn, Fake!SpawnNext, Fake!Finish, Fake!CallNext
  <2>2. told[c] = "none"
    BY <1>0, <2>1 DEF CallerOf
  <2>3. /\ told'[c] \in {"none", "unserved"} /\ (task'[c] # "none" \/ task'[c] = task[c])
        /\ \A d \in Threads \ {c} : told'[d] = told[d] /\ task'[d] = task[d]
    BY <1>0, <2>1, <2>2 DEF FakeTypeInv
  <2>4. ToldOf(told'[c]) = ToldOf(told[c])
    BY <2>2, <2>3, ToldFacts
  <2> QED BY <1>1, <2>1, <2>3, <2>4
<1>3. ASSUME NEW c \in Threads, Fake!RunMethod(c)
      PROVE  Promise!Next \/ UNCHANGED <<Asked, Ended, Told>>
  <2>1. PICK how \in Outcomes :
            /\ task' = [task EXCEPT ![c] = how]
            /\ ended' = [ended EXCEPT ![c] = IF does[c] = "fanout" THEN @ ELSE Append(@, how)]
    BY <1>3 DEF Fake!RunMethod, Outcomes
  <2>2. task[c] = "run" /\ UNCHANGED told
    BY <1>3 DEF Fake!RunMethod
  <2>3. ended[c] = <<>>
    BY <1>0, <2>2 DEF CallerOf, Outcomes
  <2>4. task'[c] # "none" /\ \A d \in Threads \ {c} : task'[d] = task[d]
    BY <1>0, <2>1 DEF FakeTypeInv, Outcomes
  <2>5. UNCHANGED <<Asked, Told>> /\ c \in Asked
    BY <1>0, <2>2, <2>4, FakeState, ToldSame
  <2>6. CASE does[c] = "fanout"
    <3>1. ended' = ended
      BY <1>0, <2>1, <2>6 DEF FakeTypeInv
    <3> QED BY <2>5, <3>1, FakeState
  <2>7. CASE does[c] # "fanout"
    <3>1. ended' = [ended EXCEPT ![c] = <<how>>]
      BY <1>0, <2>1, <2>3, <2>7 DEF FakeTypeInv
    <3> QED BY <2>3, <2>5, <3>1, FakeState, MayRun
  <2> QED BY <2>6, <2>7
<1>4. ASSUME NEW c \in Threads, Fake!Hear(c) \/ Fake!GiveUp(c)
      PROVE  Promise!Next \/ UNCHANGED <<Asked, Ended, Told>>
  <2>1. /\ at[c] = "wait" /\ UNCHANGED ended
        /\ task[c] # "none" /\ told[c] = "none"
    BY <1>0, <1>4 DEF CallerOf, Fake!Hear, Fake!GiveUp
  <2>2. \A d \in Threads \ {c} : told'[d] = told[d] /\ task'[d] = task[d]
    BY <1>0, <1>4 DEF FakeTypeInv, Fake!Hear, Fake!GiveUp, Fake!Finish
  <2>3. task'[c] # "none"
    BY <1>0, <1>4, <2>1 DEF FakeTypeInv, Fake!Hear, Fake!GiveUp
  <2>4. \/ told'[c] = "none"
        \/ told'[c] = "nothing"
        \/ told'[c] = "result" /\ does[c] # "fanout" /\ task[c] = "ok"
        \/ told'[c] = "failure" /\ does[c] # "fanout" /\ task[c] = "raised"
    <3>1. CASE Fake!GiveUp(c)
      BY <1>0, <3>1 DEF FakeTypeInv, Fake!GiveUp, Fake!Finish
    <3>2. CASE Fake!Hear(c) /\ does[c] = "fanout"
      BY <2>1, <3>2 DEF Fake!Hear
    <3>3. CASE Fake!Hear(c) /\ does[c] = "cast"
      BY <1>0, <3>3 DEF FakeTypeInv, Fake!Hear, Fake!Finish
    <3>4. CASE Fake!Hear(c) /\ does[c] \notin {"cast", "fanout"}
      BY <1>0, <3>4 DEF FakeTypeInv, Fake!Hear, Fake!Finish
    <3> QED BY <1>4, <3>1, <3>2, <3>3, <3>4
  <2>5. CASE told'[c] = "none"
    BY <1>1, <2>1, <2>2, <2>3, <2>5
  <2>6. CASE told'[c] # "none"
    <3>1. ToldOf(told'[c]) = told'[c] /\ told'[c] \in {"nothing", "result", "failure"}
      BY <2>4, <2>6, ToldFacts
    <3>2. Told' = [Told EXCEPT ![c] = told'[c]]
      BY <1>0, <2>2, <3>1, ToldMoves
    <3>3. c \in Asked /\ UNCHANGED <<Asked, Ended>> /\ Told[c] = "none" /\ Ended[c] = ended[c]
      BY <2>1, <2>2, <2>3, FakeState, ToldFacts
    <3>4. \/ told'[c] = "nothing"
          \/ told'[c] = "result" /\ Ended[c] = <<"ok">>
          \/ told'[c] = "failure" /\ Ended[c] = <<"raised">>
      BY <1>0, <2>4, <2>6, <3>3 DEF CallerOf, Outcomes
    <3> QED BY <3>2, <3>3, <3>4, MayTell
  <2> QED BY <2>5, <2>6
<1>5. ASSUME NEW k \in Connections, Fake!CreateConsumer(k) \/ Fake!CloseConnection(k)
      PROVE  UNCHANGED <<Asked, Ended, Told>>
  <2>1. UNCHANGED <<task, ended, told>>
    BY <1>5 DEF Fake!CreateConsumer, Fake!CloseConnection
  <2> QED BY <1>0, <2>1, FakeState, ToldSame
<1> QED BY <1>2, <1>3, <1>4, <1>5, StepOf

LEMMA PromiseInit ==
  ASSUME IInv, Init PROVE Promise!Init
<1>1. /\ \A c \in Threads : place[Request(c)] = "none" /\ task[c] = "none"
      /\ \A c \in Threads : outcome[c] = "none" /\ told[c] = "none"
      /\ ran = [c \in Threads |-> <<>>] /\ ended = [c \in Threads |-> <<>>]
  BY MessageFacts DEF Init, ZmqInit, Fake!FakeInit
<1>2. Asked = {} /\ Ended = [c \in Threads |-> <<>>]
  BY <1>1 DEF Asked, Ended
<1>3. Told = [c \in Threads |-> "none"]
  <2>1. \A c \in Threads : ToldOf(IF Zmq THEN outcome[c] ELSE told[c]) = "none"
    BY <1>1, ToldFacts
  <2> QED BY <2>1 DEF Told
<1> QED BY <1>2, <1>3 DEF Promise!Init

LEMMA PromiseStep ==
  ASSUME IInv, [Next]_vars PROVE [Promise!Next]_<<Asked, Ended, Told>>
<1>1. CASE Next
  BY <1>1, ZmqRefines, FakeRefines, StepOf
<1>2. CASE UNCHANGED vars
  BY <1>2 DEF vars, zmqVars, clientVars, wireVars, engineVars, fakeVars, Asked, Ended, Told, ToldOf, Zmq
<1> QED BY <1>1, <1>2

\* Whatever the drivers without a broker lose, drop or repeat, a call's method
\* runs at most once, and the caller is told what its own run came to, or that
\* nothing is known (impl_zmq.py:672-734, impl_fake.py:60-99): both implement
\* RpcPromise.
THEOREM BackendsKeepPromise == Spec => KeepsPromise
<1>1. Init => Promise!Init
  BY InitInv, PromiseInit
<1> QED BY <1>1, PromiseStep, Inductive, PTL DEF KeepsPromise, Promise!Spec, Spec
=============================================================================
