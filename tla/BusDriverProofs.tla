---------------------------- MODULE BusDriverProofs ----------------------------
(***************************************************************************)
(* What is proved of BusDriver, for any number of engines, threads, pooled *)
(* connections and hosts, and any failures: the pool and the reply proxy   *)
(* are shared safely, no connection is lost without a caller's being told, *)
(* an engine that waits for messages waits on all its queues, and each     *)
(* message goes where its kind says.                                       *)
(***************************************************************************)
EXTENDS BusDriverInv, FiniteSetTheorems, TLAPS

LEMMA PoolSizeType == PoolSize \in Nat
BY BusAssumption, FS_CardinalityType DEF PoolSize

\* A sequence with one more element before the first.
PutAt1(x, q) == <<x>> \o q

LEMMA PutFirst ==
  ASSUME NEW S, NEW q \in Seq(S), NEW x \in S
  PROVE  /\ PutAt1(x, q) \in Seq(S)
         /\ Len(PutAt1(x, q)) = Len(q) + 1
         /\ Range(PutAt1(x, q)) = Range(q) \cup {x}
         /\ IsInjective(q) /\ x \notin Range(q) => IsInjective(PutAt1(x, q))
<1> DEFINE p == <<x>> \o q
<1>1. p \in Seq(S) /\ Len(p) = Len(q) + 1 /\ Len(q) \in Nat
  OBVIOUS
<1>2. p[1] = x /\ \A i \in 1 .. Len(q) : p[i + 1] = q[i]
  OBVIOUS
<1>3. \A j \in 1 .. Len(p) : j = 1 \/ (j - 1 \in 1 .. Len(q) /\ p[j] = q[j - 1])
  BY <1>1, <1>2
<1>4. DOMAIN p = 1 .. Len(p) /\ DOMAIN q = 1 .. Len(q)
  BY <1>1
<1>5. Range(p) = Range(q) \cup {x}
  <2>1. ASSUME NEW y \in Range(p) PROVE y \in Range(q) \cup {x}
    BY <1>2, <1>3, <1>4 DEF Range
  <2>2. ASSUME NEW y \in Range(q) PROVE y \in Range(p)
    <3>1. PICK i \in 1 .. Len(q) : y = q[i]
      BY <1>4 DEF Range
    <3>2. i + 1 \in 1 .. Len(p) /\ p[i + 1] = y
      BY <1>1, <1>2, <3>1
    <3> QED BY <1>4, <3>2 DEF Range
  <2>3. x \in Range(p)
    BY <1>1, <1>2, <1>4 DEF Range
  <2> QED BY <2>1, <2>2, <2>3
<1>6. ASSUME IsInjective(q), x \notin Range(q) PROVE IsInjective(p)
  <2> SUFFICES ASSUME NEW i \in 1 .. Len(p), NEW j \in 1 .. Len(p), p[i] = p[j] PROVE i = j
    BY <1>4 DEF IsInjective
  <2>1. \A k \in 1 .. Len(q) : q[k] # x
    BY <1>4, <1>6 DEF Range
  <2>2. CASE i = 1 \/ j = 1
    BY <1>2, <1>3, <2>1, <2>2
  <2>3. CASE i # 1 /\ j # 1
    <3>1. /\ i - 1 \in 1 .. Len(q) /\ j - 1 \in 1 .. Len(q)
          /\ q[i - 1] = q[j - 1]
      BY <1>3, <2>3
    <3>2. i - 1 = j - 1
      BY <1>4, <1>6, <3>1 DEF IsInjective
    <3> QED BY <3>2
  <2> QED BY <2>2, <2>3
<1> QED BY <1>1, <1>5, <1>6 DEF PutAt1

\* The elements of a sequence whose first has been taken.
LEMMA TakeFirst ==
  ASSUME NEW S, NEW q \in Seq(S), q # <<>>
  PROVE  /\ Head(q) \in S /\ Head(q) \in Range(q)
         /\ Tail(q) \in Seq(S) /\ Len(Tail(q)) = Len(q) - 1
         /\ Range(Tail(q)) \subseteq Range(q)
         /\ IsInjective(q) => IsInjective(Tail(q)) /\ Head(q) \notin Range(Tail(q))
<1>1. Len(q) \in Nat /\ Len(q) # 0 /\ Head(q) = q[1] /\ Head(q) \in S
  OBVIOUS
<1>2. /\ Tail(q) \in Seq(S) /\ Len(Tail(q)) = Len(q) - 1
      /\ \A i \in 1 .. Len(Tail(q)) : i + 1 \in 1 .. Len(q) /\ Tail(q)[i] = q[i + 1]
  BY <1>1
<1>3. DOMAIN q = 1 .. Len(q) /\ DOMAIN Tail(q) = 1 .. Len(Tail(q))
  BY <1>2
<1>4. Head(q) \in Range(q)
  BY <1>1, <1>3 DEF Range
<1>5. Range(Tail(q)) \subseteq Range(q)
  BY <1>2, <1>3 DEF Range
<1>6. ASSUME IsInjective(q) PROVE IsInjective(Tail(q)) /\ Head(q) \notin Range(Tail(q))
  <2>1. \A i, j \in 1 .. Len(q) : q[i] = q[j] => i = j
    BY <1>3, <1>6 DEF IsInjective
  <2>2. ASSUME NEW i \in 1 .. Len(Tail(q)), NEW j \in 1 .. Len(Tail(q)), Tail(q)[i] = Tail(q)[j]
        PROVE  i = j
    BY <1>1, <1>2, <2>1, <2>2
  <2>3. ASSUME NEW i \in 1 .. Len(Tail(q)) PROVE Tail(q)[i] # Head(q)
    BY <1>1, <1>2, <2>1
  <2> QED BY <1>3, <2>2, <2>3 DEF IsInjective, Range
<1> QED BY <1>1, <1>2, <1>4, <1>5, <1>6
-----------------------------------------------------------------------------
\* How the counts of LeaksAreTold change when a thread is added or removed.
LEMMA CountsChange ==
  ASSUME NEW S \in SUBSET Threads
  PROVE  /\ Cardinality(S) \in Nat
         /\ \A t \in Threads : t \notin S => Cardinality(S \cup {t}) = Cardinality(S) + 1
         /\ \A t \in S : Cardinality(S \ {t}) = Cardinality(S) - 1
<1>1. IsFiniteSet(S)
  BY BusAssumption, FS_Subset
<1>2. Cardinality(S) \in Nat
  BY <1>1, FS_CardinalityType
<1>3. \A t \in Threads : t \notin S => Cardinality(S \cup {t}) = Cardinality(S) + 1
  BY <1>1, FS_AddElement
<1>4. \A t \in S : Cardinality(S \ {t}) = Cardinality(S) - 1
  BY <1>1, FS_RemoveElement
<1> QED BY <1>2, <1>3, <1>4

\* The client is where its threads and their connections are concerned left
\* alone, and no connection is unmade.
Quiet ==
    /\ UNCHANGED clientVars
    /\ at' \in [Conns -> Where]
    /\ \A c \in Conns : at[c] # "none" => at'[c] # "none"

LEMMA OpenIsMade ==
  ASSUME at \in [Conns -> Where], NEW k \in Conns, NEW w \in Where \ {"none"}, Go(k, w)
  PROVE  /\ at' \in [Conns -> Where]
         /\ at'[k] # "none"
         /\ \A c \in Conns : at[c] # "none" => at'[c] # "none"
BY DEF Go

LEMMA KombuFailedAttemptIsQuiet ==
  ASSUME at \in [Conns -> Where], NEW k \in Conns, KombuFailedAttempt(k)
  PROVE  /\ at' \in [Conns -> Where]
         /\ \A c \in Conns : at[c] # "none" => at'[c] # "none"
<1>1. CASE at' = [c \in Conns |-> IF c \in ProcessOf(k) THEN "exited" ELSE at[c]]
  BY <1>1 DEF Where
<1>2. CASE Go(k, "connect")
  BY <1>2, OpenIsMade DEF Where
<1> QED BY <1>1, <1>2 DEF KombuFailedAttempt

LEMMA ConnStepIsQuiet ==
  ASSUME at \in [Conns -> Where], NEW k \in Conns, ConnStep(k)
  PROVE  Quiet
<1>1. CASE KombuTryHost(k)
  <2>1. CASE Go(k, IF consumers[k] = {} THEN "ready" ELSE "declare again")
    BY <1>1, <2>1, OpenIsMade DEF Where, KombuTryHost, Quiet
  <2>2. CASE KombuFailedAttempt(k)
    BY <1>1, <2>2, KombuFailedAttemptIsQuiet DEF KombuTryHost, Quiet
  <2> QED BY <1>1, <2>1, <2>2 DEF KombuTryHost
<1>2. CASE KombuDeclareAgain(k)
  BY <1>2, OpenIsMade DEF Where, KombuDeclareAgain, Quiet
<1>3. CASE KombuDeclareAgainFails(k)
  BY <1>3, KombuFailedAttemptIsQuiet DEF KombuDeclareAgainFails, Quiet
<1>4. CASE KombuLost(k)
  BY <1>4, OpenIsMade DEF Where, KombuLost, Quiet
<1>5. CASE KombuDeclare(k)
  BY <1>5 DEF KombuDeclare, Quiet
<1>6. CASE KombuConsume(k)
  BY <1>6 DEF KombuConsume, Quiet
<1>7. CASE QpidTryHost(k)
  BY <1>7, OpenIsMade DEF Where, QpidTryHost, Quiet
<1>8. CASE QpidDeclareAgain(k)
  BY <1>8, OpenIsMade DEF Where, QpidDeclareAgain, Quiet
<1>9. CASE QpidDeclareAgainFails(k)
  BY <1>9, OpenIsMade DEF Where, QpidDeclareAgainFails, Quiet
<1>10. CASE QpidLost(k)
  BY <1>10, OpenIsMade DEF Where, QpidLost, Quiet
<1>11. CASE QpidDeclare(k)
  BY <1>11 DEF QpidDeclare, Quiet
<1> QED
  BY <1>1, <1>2, <1>3, <1>4, <1>5, <1>6, <1>7, <1>8, <1>9, <1>10, <1>11 DEF ConnStep

LEMMA FailureIsQuiet ==
  ASSUME at \in [Conns -> Where], Failure
  PROVE  Quiet
<1>1. ASSUME NEW h \in up, HostDown(h) PROVE Quiet
  BY <1>1 DEF HostDown, Quiet
<1>2. ASSUME NEW k \in Conns, LinkLost(k) PROVE Quiet
  BY <1>2 DEF LinkLost, Quiet
<1>3. ASSUME NEW e \in Engines, Close(e) PROVE Quiet
  <2>1. e \in Conns
    BY DEF Conns
  <2> QED BY <1>3, <2>1, OpenIsMade DEF Where, Close, Quiet
<1> QED BY <1>1, <1>2, <1>3 DEF Failure

LEMMA QuietKeeps ==
  ASSUME ClientInv, LeaksAreTold, Quiet
  PROVE  ClientInv' /\ LeaksAreTold'
<1> USE DEF Quiet, ClientInv, clientVars, poolVars
<1>1. ClientTypes'
  BY DEF ClientTypes
<1>2. HoldsInv'
  BY DEF HoldsInv
<1>3. MadeInv'
  <2>1. Range(idle) \subseteq PoolConns /\ PoolConns \subseteq Conns
    BY DEF ClientTypes, Range, Conns
  <2> QED BY <2>1 DEF MadeInv
<1>4. SemInv'
  BY DEF SemInv
<1>5. SharedSafely'
  BY DEF SharedSafely
<1>6. LeaksAreTold'
  BY DEF LeaksAreTold, Leaked
<1> QED BY <1>1, <1>2, <1>3, <1>4, <1>5, <1>6
-----------------------------------------------------------------------------
\* The facts each action of a thread starts from.
LEMMA ThreadFacts ==
  ASSUME ClientInv
  PROVE  /\ Range(idle) \subseteq PoolConns /\ PoolConns \subseteq Conns
         /\ Threads \subseteq Conns /\ Reply \in Conns
         /\ \A t \in Threads : t \notin PoolConns /\ t # None
         /\ None \notin PoolConns
         /\ Holders \subseteq Threads /\ Raised \subseteq Threads
         /\ Len(idle) \in Nat
         /\ PoolSize \in Nat
<1>1. Range(idle) \subseteq PoolConns /\ Len(idle) \in Nat
  BY DEF ClientInv, ClientTypes, Range
<1> QED BY <1>1, BusAssumption, PoolSizeType DEF Conns, Holders, Raised

\* What becomes of the counts when one thread's connection and place change.
LEMMA CountsOfOne ==
  ASSUME ClientInv, NEW t \in Threads, NEW k \in PoolConns \cup Threads \cup {None},
         NEW where \in Pcs,
         mine' = [mine EXCEPT ![t] = k], pc' = [pc EXCEPT ![t] = where], pc[t] # "raised"
  PROVE  /\ Cardinality(Holders) \in Nat /\ Cardinality(Raised) \in Nat
         /\ (k \in PoolConns <=> mine[t] \in PoolConns)
               => Cardinality(Holders') = Cardinality(Holders)
         /\ k \in PoolConns /\ mine[t] \notin PoolConns
               => Cardinality(Holders') = Cardinality(Holders) + 1
         /\ k \notin PoolConns /\ mine[t] \in PoolConns
               => Cardinality(Holders') = Cardinality(Holders) - 1
         /\ where # "raised" => Cardinality(Raised') = Cardinality(Raised)
         /\ where = "raised" => Cardinality(Raised') = Cardinality(Raised) + 1
<1> USE DEF ClientInv, ClientTypes
<1>1. Holders' = (IF k \in PoolConns THEN Holders \cup {t} ELSE Holders \ {t})
  BY DEF Holders
<1>2. Raised' = (IF where = "raised" THEN Raised \cup {t} ELSE Raised)
  BY DEF Raised
<1>3. t \notin Raised /\ (t \in Holders <=> mine[t] \in PoolConns)
  BY DEF Raised, Holders
<1>4. Holders \in SUBSET Threads /\ Raised \in SUBSET Threads
  BY DEF Raised, Holders
<1>5. /\ Cardinality(Holders) \in Nat
      /\ t \notin Holders => Cardinality(Holders \cup {t}) = Cardinality(Holders) + 1
      /\ t \in Holders => Cardinality(Holders \ {t}) = Cardinality(Holders) - 1
  BY <1>4, CountsChange
<1>6. /\ Cardinality(Raised) \in Nat
      /\ Cardinality(Raised \cup {t}) = Cardinality(Raised) + 1
  BY <1>3, <1>4, CountsChange
<1>7. (k \in PoolConns <=> mine[t] \in PoolConns) => Holders' = Holders
  BY <1>1, <1>3
<1>8. /\ k \in PoolConns /\ mine[t] \notin PoolConns
            => Cardinality(Holders') = Cardinality(Holders) + 1
      /\ k \notin PoolConns /\ mine[t] \in PoolConns
            => Cardinality(Holders') = Cardinality(Holders) - 1
  BY <1>1, <1>3, <1>5
<1>9. /\ where # "raised" => Raised' = Raised
      /\ where = "raised" => Cardinality(Raised') = Cardinality(Raised) + 1
  BY <1>2, <1>6
<1> QED BY <1>5, <1>6, <1>7, <1>8, <1>9

LEMMA EnterProxyKeeps ==
  ASSUME ClientInv, LeaksAreTold, NEW t \in Threads, EnterProxy(t)
  PROVE  ClientInv' /\ LeaksAreTold'
<1> USE DEF ClientInv, poolVars
<1>0. /\ pc[t] = "proxy" /\ sem = None /\ UNCHANGED <<idle, size, proxies, mine>>
      /\ \/ proxies > 0 /\ pc' = [pc EXCEPT ![t] = "get"] /\ UNCHANGED <<at, sem>>
         \/ proxies = 0 /\ sem' = t /\ pc' = [pc EXCEPT ![t] = "make proxy"] /\ Go(Reply, "connect")
  BY DEF EnterProxy, PcTo, Open, NotOpened
<1>1. /\ at' \in [Conns -> Where]
      /\ \A c \in Conns : at[c] # "none" => at'[c] # "none"
  BY <1>0, ThreadFacts, OpenIsMade DEF ClientTypes, Where
<1>2. ClientTypes'
  BY <1>0, <1>1 DEF ClientTypes, Pcs
<1>3. mine[t] = None
  BY <1>0 DEF HoldsInv
<1>4. HoldsInv'
  BY <1>0, <1>3 DEF HoldsInv, ClientTypes
<1>5. MadeInv'
  BY <1>0, <1>1, ThreadFacts DEF MadeInv, ClientTypes
<1>6. \A u \in Threads : pc[u] # "make proxy"
  BY <1>0, ThreadFacts DEF SemInv
<1>7. SemInv'
  <2>1. CASE proxies > 0 /\ pc' = [pc EXCEPT ![t] = "get"] /\ UNCHANGED sem
    <3>1. \A u \in Threads : pc'[u] # "make proxy" /\ sem' # u
      BY <1>0, <1>6, <2>1, ThreadFacts DEF ClientTypes
    <3> QED BY <1>0, <2>1, <3>1 DEF SemInv, ClientTypes
  <2>2. CASE proxies = 0 /\ sem' = t /\ pc' = [pc EXCEPT ![t] = "make proxy"]
    <3>1. \A u \in Threads : pc'[u] = "make proxy" <=> u = t
      BY <1>6, <2>2 DEF ClientTypes
    <3> QED BY <1>0, <2>2, <3>1 DEF SemInv
  <2> QED BY <1>0, <2>1, <2>2
<1>8. SharedSafely'
  BY <1>0, <1>6 DEF SharedSafely, ClientTypes
<1>9. mine' = [mine EXCEPT ![t] = None]
  BY <1>0, <1>3 DEF ClientTypes
<1>10. /\ Cardinality(Holders') = Cardinality(Holders)
       /\ Cardinality(Raised') = Cardinality(Raised)
  <2>1. PICK w \in {"get", "make proxy"} : pc' = [pc EXCEPT ![t] = w]
    BY <1>0
  <2>2. w \in Pcs /\ w # "raised" /\ pc[t] # "raised" /\ None \in PoolConns \cup Threads \cup {None}
    BY <1>0 DEF Pcs
  <2>3. None \notin PoolConns /\ mine[t] \notin PoolConns
    BY <1>3, ThreadFacts
  <2> QED BY <1>9, <2>1, <2>2, <2>3, CountsOfOne, ThreadFacts
<1>11. LeaksAreTold'
  BY <1>0, <1>10 DEF LeaksAreTold, Leaked, Holders, Raised
<1> QED BY <1>2, <1>4, <1>5, <1>7, <1>8, <1>11

LEMMA MadeProxyKeeps ==
  ASSUME ClientInv, LeaksAreTold, NEW t \in Threads, MadeProxy(t)
  PROVE  ClientInv' /\ LeaksAreTold'
<1> USE DEF ClientInv, poolVars
<1>0. /\ pc[t] = "make proxy" /\ sem' = None
      /\ pc' = [pc EXCEPT ![t] = "get"]
      /\ UNCHANGED <<at, idle, size, mine>>
  BY DEF MadeProxy, PcTo, connVars
<1>1. proxies = 0 /\ mine[t] = None
  BY <1>0, ThreadFacts DEF SemInv, HoldsInv
<1>11. proxies' = 1
  <2>1. proxies' = proxies + 1
    BY DEF MadeProxy
  <2>2. proxies = 0
    BY <1>1
  <2> QED BY <2>1, <2>2
<1>2. ClientTypes'
  <2>1. pc' \in [Threads -> Pcs] /\ sem' \in Threads \cup {None}
    BY <1>0 DEF ClientTypes, Pcs
  <2> QED BY <1>0, <1>11, <2>1 DEF ClientTypes
<1>3. HoldsInv'
  BY <1>0, <1>1 DEF HoldsInv, ClientTypes
<1>4. MadeInv'
  BY <1>0 DEF MadeInv
<1>5. \A u \in Threads : pc'[u] # "make proxy" /\ u # None
  BY <1>0, ThreadFacts DEF SemInv, ClientTypes
<1>6. SemInv'
  BY <1>0, <1>5 DEF SemInv
<1>7. SharedSafely'
  <2>1. proxies' <= 1
    BY <1>11
  <2> QED BY <1>0, <1>5, <2>1 DEF SharedSafely
<1>8. mine' = [mine EXCEPT ![t] = None]
  BY <1>0, <1>1 DEF ClientTypes
<1>9. /\ Cardinality(Holders') = Cardinality(Holders)
      /\ Cardinality(Raised') = Cardinality(Raised)
  BY <1>0, <1>1, <1>8, CountsOfOne, ThreadFacts DEF Pcs
<1>10. LeaksAreTold'
  BY <1>0, <1>9 DEF LeaksAreTold, Leaked, Holders, Raised
<1> QED BY <1>2, <1>3, <1>4, <1>6, <1>7, <1>10

LEMMA GetIdleKeeps ==
  ASSUME ClientInv, LeaksAreTold, NEW t \in Threads, GetIdle(t)
  PROVE  ClientInv' /\ LeaksAreTold'
<1> USE DEF ClientInv
<1> DEFINE k == Head(idle)
<1>0. /\ pc[t] = "get" /\ idle # <<>> /\ idle' = Tail(idle)
      /\ mine' = [mine EXCEPT ![t] = k]
      /\ pc' = [pc EXCEPT ![t] = "send"]
      /\ UNCHANGED <<at, size, proxies, sem>>
  BY DEF GetIdle, PcTo, connVars
<1>1. mine[t] = None
  BY <1>0 DEF HoldsInv
<1>2. /\ k \in PoolConns /\ k \in Range(idle)
      /\ idle' \in Seq(PoolConns) /\ Len(idle') = Len(idle) - 1
      /\ Range(idle') \subseteq Range(idle)
      /\ IsInjective(idle') /\ k \notin Range(idle')
  BY <1>0, TakeFirst DEF ClientTypes, SharedSafely
<1> HIDE DEF k
<1>3. ClientTypes'
  BY <1>0, <1>2 DEF ClientTypes, Pcs
<1>4. HoldsInv'
  BY <1>0, <1>2, ThreadFacts DEF HoldsInv, ClientTypes
<1>5. MadeInv'
  BY <1>0, <1>2 DEF MadeInv, ClientTypes
<1>6. SemInv'
  BY <1>0 DEF SemInv, ClientTypes
<1>7. SharedSafely'
  <2>0. \A u \in Threads : mine[u] \notin Range(idle)
    BY DEF SharedSafely
  <2>1. \A u \in Threads : mine[u] # k
    BY <1>2, <2>0
  <2>2. \A u, v \in Threads : mine'[u] # None /\ mine'[u] = mine'[v] => u = v
    BY <1>0, <2>1 DEF SharedSafely, ClientTypes
  <2>3. \A u \in Threads : mine'[u] \notin Range(idle')
    BY <1>0, <1>2, <2>0 DEF ClientTypes
  <2>4. \A u \in Threads : pc'[u] = "make proxy" => pc[u] = "make proxy"
    BY <1>0 DEF ClientTypes
  <2> QED BY <1>0, <1>2, <2>2, <2>3, <2>4 DEF SharedSafely
<1>8. /\ Cardinality(Holders) \in Nat /\ Cardinality(Raised) \in Nat
      /\ Cardinality(Holders') = Cardinality(Holders) + 1
      /\ Cardinality(Raised') = Cardinality(Raised)
  BY <1>0, <1>1, <1>2, CountsOfOne, ThreadFacts DEF Pcs
<1>9. LeaksAreTold'
  BY <1>0, <1>2, <1>8, ThreadFacts DEF LeaksAreTold, Leaked, Holders, Raised, ClientTypes
<1> QED BY <1>3, <1>4, <1>5, <1>6, <1>7, <1>9

LEMMA CreateKeeps ==
  ASSUME ClientInv, LeaksAreTold, NEW t \in Threads, Create(t)
  PROVE  ClientInv' /\ LeaksAreTold'
<1> USE DEF ClientInv
<1>0. PICK k \in PoolConns :
        /\ pc[t] = "get" /\ size < PoolSize /\ size' = size + 1
        /\ at[k] = "none" /\ Go(k, "connect")
        /\ mine' = [mine EXCEPT ![t] = k]
        /\ pc' = [pc EXCEPT ![t] = "send"]
        /\ UNCHANGED <<idle, proxies, sem>>
  BY DEF Create, PcTo, Open
<1>1. mine[t] = None
  BY <1>0 DEF HoldsInv
<1>2. /\ at' \in [Conns -> Where] /\ at'[k] # "none"
      /\ \A c \in Conns : at[c] # "none" => at'[c] # "none"
  BY <1>0, ThreadFacts, OpenIsMade DEF ClientTypes, Where
<1>3. ClientTypes'
  <2>1. size' \in Nat
    <3>1. size' = size + 1 /\ size \in Nat
      BY <1>0 DEF ClientTypes
    <3> QED BY <3>1
  <2>2. /\ mine' \in [Threads -> PoolConns \cup Threads \cup {None}]
        /\ pc' \in [Threads -> Pcs]
    BY <1>0 DEF ClientTypes, Pcs
  <2> QED BY <1>0, <1>2, <2>1, <2>2 DEF ClientTypes
<1>4. HoldsInv'
  BY <1>0, ThreadFacts DEF HoldsInv, ClientTypes
<1>5. MadeInv'
  BY <1>0, <1>2, ThreadFacts DEF MadeInv, ClientTypes
<1>6. SemInv'
  BY <1>0 DEF SemInv, ClientTypes
<1>7. SharedSafely'
  <2>1. (\A u \in Threads : mine[u] # k) /\ k \notin Range(idle)
    BY <1>0 DEF MadeInv
  <2>2. \A u, v \in Threads : mine'[u] # None /\ mine'[u] = mine'[v] => u = v
    BY <1>0, <2>1 DEF SharedSafely, ClientTypes
  <2>3. \A u \in Threads : mine'[u] \notin Range(idle)
    BY <1>0, <2>1 DEF SharedSafely, ClientTypes
  <2>4. \A u \in Threads : pc'[u] = "make proxy" => pc[u] = "make proxy"
    BY <1>0 DEF ClientTypes
  <2>5. size' <= PoolSize
    BY <1>0, ThreadFacts DEF ClientTypes
  <2> QED BY <1>0, <2>2, <2>3, <2>4, <2>5 DEF SharedSafely
<1>8. /\ Cardinality(Holders) \in Nat /\ Cardinality(Raised) \in Nat
      /\ Cardinality(Holders') = Cardinality(Holders) + 1
      /\ Cardinality(Raised') = Cardinality(Raised)
  BY <1>0, <1>1, CountsOfOne, ThreadFacts DEF Pcs
<1>9. LeaksAreTold'
  BY <1>0, <1>8, ThreadFacts DEF LeaksAreTold, Leaked, Holders, Raised, ClientTypes
<1> QED BY <1>3, <1>4, <1>5, <1>6, <1>7, <1>9

LEMMA CreateOwnKeeps ==
  ASSUME ClientInv, LeaksAreTold, NEW t \in Threads, CreateOwn(t)
  PROVE  ClientInv' /\ LeaksAreTold'
<1> USE DEF ClientInv, poolVars
<1>0. /\ pc[t] = "get" /\ Go(t, "connect")
      /\ mine' = [mine EXCEPT ![t] = t]
      /\ pc' = [pc EXCEPT ![t] = "send"]
      /\ UNCHANGED <<idle, size, proxies, sem>>
  BY DEF CreateOwn, PcTo, Open
<1>1. mine[t] = None
  BY <1>0 DEF HoldsInv
<1>2. /\ at' \in [Conns -> Where]
      /\ \A c \in Conns : at[c] # "none" => at'[c] # "none"
  BY <1>0, ThreadFacts, OpenIsMade DEF ClientTypes, Where
<1>3. ClientTypes'
  BY <1>0, <1>2 DEF ClientTypes, Pcs
<1>4. HoldsInv'
  BY <1>0, ThreadFacts DEF HoldsInv, ClientTypes
<1>5. MadeInv'
  BY <1>0, <1>2, ThreadFacts DEF MadeInv, ClientTypes
<1>6. SemInv'
  BY <1>0 DEF SemInv, ClientTypes
<1>7. SharedSafely'
  <2>1. (\A u \in Threads : u # t => mine[u] # t) /\ t \notin Range(idle)
    BY <1>1, ThreadFacts DEF HoldsInv
  <2>2. \A u, v \in Threads : mine'[u] # None /\ mine'[u] = mine'[v] => u = v
    BY <1>0, <2>1 DEF SharedSafely, ClientTypes
  <2>3. \A u \in Threads : mine'[u] \notin Range(idle)
    BY <1>0, <2>1 DEF SharedSafely, ClientTypes
  <2>4. \A u \in Threads : pc'[u] = "make proxy" => pc[u] = "make proxy"
    BY <1>0 DEF ClientTypes
  <2> QED BY <1>0, <2>2, <2>3, <2>4 DEF SharedSafely
<1>8. /\ Cardinality(Holders') = Cardinality(Holders)
      /\ Cardinality(Raised') = Cardinality(Raised)
  BY <1>0, <1>1, CountsOfOne, ThreadFacts DEF Pcs
<1>9. LeaksAreTold'
  BY <1>0, <1>8 DEF LeaksAreTold, Leaked, Holders, Raised
<1> QED BY <1>3, <1>4, <1>5, <1>6, <1>7, <1>9

LEMMA PublishKeeps ==
  ASSUME ClientInv, LeaksAreTold, NEW t \in Threads, Publish(t)
  PROVE  ClientInv' /\ LeaksAreTold'
<1> USE DEF ClientInv, poolVars, connVars
<1>0. /\ pc[t] = "send"
      /\ pc' = [pc EXCEPT ![t] = "put back"]
      /\ UNCHANGED <<at, mine, idle, size, proxies, sem>>
  BY DEF Publish, PcTo
<1>1. ClientTypes'
  BY <1>0 DEF ClientTypes, Pcs
<1>2. HoldsInv'
  BY <1>0 DEF HoldsInv, ClientTypes
<1>3. MadeInv'
  BY <1>0 DEF MadeInv
<1>4. SemInv'
  BY <1>0 DEF SemInv, ClientTypes
<1>5. SharedSafely'
  <2>1. \A u \in Threads : pc'[u] = "make proxy" => pc[u] = "make proxy"
    BY <1>0 DEF ClientTypes
  <2> QED BY <1>0, <2>1 DEF SharedSafely
<1>6. Holders' = Holders /\ Raised' = Raised
  BY <1>0 DEF Holders, Raised, ClientTypes
<1>7. LeaksAreTold'
  BY <1>0, <1>6 DEF LeaksAreTold, Leaked, Holders, Raised
<1> QED BY <1>1, <1>2, <1>3, <1>4, <1>5, <1>7

LEMMA PutBackKeeps ==
  ASSUME ClientInv, LeaksAreTold, NEW t \in Threads, PutBack(t)
  PROVE  ClientInv' /\ LeaksAreTold'
<1> USE DEF ClientInv, connVars
<1>0. /\ pc[t] = "put back" /\ mine[t] \in PoolConns
      /\ UNCHANGED <<at, size, proxies, sem>>
  BY DEF PutBack
<1>1. CASE /\ idle' = <<mine[t]>> \o idle
           /\ mine' = [mine EXCEPT ![t] = None]
           /\ pc' = [pc EXCEPT ![t] = "sent"]
  <2> DEFINE k == mine[t]
  <2>0. \A u \in Threads : mine[u] \notin Range(idle)
    BY DEF SharedSafely
  <2>1. /\ idle' \in Seq(PoolConns) /\ Len(idle') = Len(idle) + 1
        /\ Range(idle') = Range(idle) \cup {k}
        /\ IsInjective(idle')
    <3>1. idle \in Seq(PoolConns) /\ IsInjective(idle) /\ k \notin Range(idle)
      BY <2>0 DEF ClientTypes, SharedSafely
    <3>2. k \in PoolConns /\ idle' = PutAt1(k, idle)
      BY <1>0, <1>1 DEF PutAt1
    <3> HIDE DEF k
    <3>3. /\ PutAt1(k, idle) \in Seq(PoolConns) /\ Len(PutAt1(k, idle)) = Len(idle) + 1
          /\ Range(PutAt1(k, idle)) = Range(idle) \cup {k} /\ IsInjective(PutAt1(k, idle))
      <4>1. ASSUME NEW q \in Seq(PoolConns), NEW x \in PoolConns, IsInjective(q), x \notin Range(q)
            PROVE  /\ PutAt1(x, q) \in Seq(PoolConns) /\ Len(PutAt1(x, q)) = Len(q) + 1
                   /\ Range(PutAt1(x, q)) = Range(q) \cup {x} /\ IsInjective(PutAt1(x, q))
        BY <4>1, PutFirst
      <4> QED BY <3>1, <3>2, <4>1, Zenon
    <3> QED BY <3>2, <3>3
  <2>2. ClientTypes'
    BY <1>0, <1>1, <2>1 DEF ClientTypes, Pcs
  <2>3. HoldsInv'
    BY <1>1, ThreadFacts DEF HoldsInv, ClientTypes
  <2>4. MadeInv'
    BY <1>0, <1>1, <2>1, ThreadFacts DEF MadeInv, ClientTypes
  <2>5. SemInv'
    BY <1>0, <1>1 DEF SemInv, ClientTypes
  <2>6. SharedSafely'
    <3>1. \A u, v \in Threads : mine'[u] # None /\ mine'[u] = mine'[v] => u = v
      BY <1>1 DEF SharedSafely, ClientTypes
    <3>2. \A u \in Threads : u # t => mine[u] # k
      BY <1>0, ThreadFacts DEF SharedSafely
    <3>3. \A u \in Threads : mine'[u] \notin Range(idle')
      <4>1. mine'[t] = None /\ None \notin Range(idle')
        BY <1>0, <1>1, <2>1, ThreadFacts DEF ClientTypes
      <4>2. \A u \in Threads : u # t => mine'[u] = mine[u]
        BY <1>1 DEF ClientTypes
      <4> QED BY <2>0, <2>1, <3>2, <4>1, <4>2
    <3>4. \A u \in Threads : pc'[u] = "make proxy" => pc[u] = "make proxy"
      BY <1>1 DEF ClientTypes
    <3> QED BY <1>0, <2>1, <3>1, <3>3, <3>4 DEF SharedSafely
  <2>7. /\ Cardinality(Holders) \in Nat /\ Cardinality(Raised) \in Nat
        /\ Cardinality(Holders') = Cardinality(Holders) - 1
        /\ Cardinality(Raised') = Cardinality(Raised)
    BY <1>0, <1>1, CountsOfOne, ThreadFacts DEF Pcs
  <2>8. LeaksAreTold'
    <3>1. size' = size /\ size \in Nat /\ Len(idle) \in Nat
      BY <1>0, ThreadFacts DEF ClientTypes
    <3>2. size - Len(idle) - Cardinality(Holders) <= Cardinality(Raised)
      BY DEF LeaksAreTold, Leaked, Holders, Raised
    <3>3. size' - Len(idle') - Cardinality(Holders') <= Cardinality(Raised')
      BY <2>1, <2>7, <3>1, <3>2
    <3> QED BY <3>3 DEF LeaksAreTold, Leaked, Holders, Raised
  <2> QED BY <2>2, <2>3, <2>4, <2>5, <2>6, <2>8
<1>2. CASE pc' = [pc EXCEPT ![t] = "finalize"] /\ UNCHANGED <<idle, mine>>
  <2>1. ClientTypes'
    BY <1>0, <1>2 DEF ClientTypes, Pcs
  <2>2. HoldsInv'
    BY <1>0, <1>2 DEF HoldsInv, ClientTypes
  <2>3. MadeInv'
    BY <1>0, <1>2 DEF MadeInv
  <2>4. SemInv'
    BY <1>0, <1>2 DEF SemInv, ClientTypes
  <2>5. SharedSafely'
    <3>1. \A u \in Threads : pc'[u] = "make proxy" => pc[u] = "make proxy"
      BY <1>2 DEF ClientTypes
    <3> QED BY <1>0, <1>2, <3>1 DEF SharedSafely
  <2>6. Holders' = Holders /\ Raised' = Raised
    BY <1>0, <1>2 DEF Holders, Raised, ClientTypes
  <2>7. LeaksAreTold'
    BY <1>0, <1>2, <2>6 DEF LeaksAreTold, Leaked, Holders, Raised
  <2> QED BY <2>1, <2>2, <2>3, <2>4, <2>5, <2>7
<1> QED BY <1>1, <1>2 DEF PutBack, PcTo

LEMMA FinalizeKeeps ==
  ASSUME ClientInv, LeaksAreTold, NEW t \in Threads, Finalize(t)
  PROVE  ClientInv' /\ LeaksAreTold'
<1> USE DEF ClientInv, connVars
<1> DEFINE k == mine[t]
<1>0. /\ pc[t] = "finalize" /\ k \in PoolConns
      /\ mine' = [mine EXCEPT ![t] = None]
      /\ pc' = [pc EXCEPT ![t] = "raised"]
      /\ UNCHANGED <<at, size, proxies, sem>>
  BY DEF Finalize, PcTo, HoldsInv
<1>1. \A u \in Threads : mine[u] \notin Range(idle)
  BY DEF SharedSafely
<1>2. /\ idle' \in Seq(PoolConns)
      /\ Len(idle') = Len(idle) \/ Len(idle') = Len(idle) + 1
      /\ Range(idle') \subseteq Range(idle) \cup {k}
      /\ IsInjective(idle')
  <2>1. CASE idle' = idle
    BY <2>1 DEF ClientTypes, SharedSafely
  <2>2. CASE idle' = <<k>> \o idle
    <3>1. idle \in Seq(PoolConns) /\ IsInjective(idle) /\ k \notin Range(idle)
      BY <1>1 DEF ClientTypes, SharedSafely
    <3>2. k \in PoolConns /\ idle' = PutAt1(k, idle)
      BY <1>0, <2>2 DEF PutAt1
    <3> HIDE DEF k
    <3> QED BY <3>1, <3>2, PutFirst
  <2> QED BY <2>1, <2>2 DEF Finalize
<1>3. ClientTypes'
  BY <1>0, <1>2 DEF ClientTypes, Pcs
<1>4. HoldsInv'
  BY <1>0, ThreadFacts DEF HoldsInv, ClientTypes
<1>5. MadeInv'
  BY <1>0, <1>2, ThreadFacts DEF MadeInv, ClientTypes
<1>6. SemInv'
  BY <1>0 DEF SemInv, ClientTypes
<1>7. SharedSafely'
  <2>1. \A u, v \in Threads : mine'[u] # None /\ mine'[u] = mine'[v] => u = v
    BY <1>0 DEF SharedSafely, ClientTypes
  <2>2. \A u \in Threads : u # t => mine[u] # k
    BY <1>0, ThreadFacts DEF SharedSafely
  <2>3. \A u \in Threads : mine'[u] \notin Range(idle')
    <3>1. mine'[t] = None /\ None \notin Range(idle')
      BY <1>0, <1>2, ThreadFacts DEF ClientTypes
    <3>2. \A u \in Threads : u # t => mine'[u] = mine[u]
      BY <1>0 DEF ClientTypes
    <3> QED BY <1>1, <1>2, <2>2, <3>1, <3>2
  <2>4. \A u \in Threads : pc'[u] = "make proxy" => pc[u] = "make proxy"
    BY <1>0 DEF ClientTypes
  <2> QED BY <1>0, <1>2, <2>1, <2>3, <2>4 DEF SharedSafely
<1>8. /\ Cardinality(Holders) \in Nat /\ Cardinality(Raised) \in Nat
      /\ Cardinality(Holders') = Cardinality(Holders) - 1
      /\ Cardinality(Raised') = Cardinality(Raised) + 1
  BY <1>0, CountsOfOne, ThreadFacts DEF Pcs
<1>9. LeaksAreTold'
  BY <1>0, <1>2, <1>8, ThreadFacts DEF LeaksAreTold, Leaked, Holders, Raised, ClientTypes
<1> QED BY <1>3, <1>4, <1>5, <1>6, <1>7, <1>9

LEMMA CloseOwnKeeps ==
  ASSUME ClientInv, LeaksAreTold, NEW t \in Threads, CloseOwn(t)
  PROVE  ClientInv' /\ LeaksAreTold'
<1> USE DEF ClientInv, poolVars
<1>0. /\ pc[t] = "put back" /\ mine[t] = t /\ Go(t, "closed")
      /\ mine' = [mine EXCEPT ![t] = None]
      /\ pc' = [pc EXCEPT ![t] = "sent"]
      /\ UNCHANGED <<idle, size, proxies, sem>>
  BY DEF CloseOwn, PcTo
<1>1. /\ at' \in [Conns -> Where]
      /\ \A c \in Conns : at[c] # "none" => at'[c] # "none"
  BY <1>0, ThreadFacts, OpenIsMade DEF ClientTypes, Where
<1>2. ClientTypes'
  BY <1>0, <1>1 DEF ClientTypes, Pcs
<1>3. HoldsInv'
  BY <1>0, ThreadFacts DEF HoldsInv, ClientTypes
<1>4. MadeInv'
  BY <1>0, <1>1, ThreadFacts DEF MadeInv, ClientTypes
<1>5. SemInv'
  BY <1>0 DEF SemInv, ClientTypes
<1>6. SharedSafely'
  <2>1. \A u, v \in Threads : mine'[u] # None /\ mine'[u] = mine'[v] => u = v
    BY <1>0 DEF SharedSafely, ClientTypes
  <2>2. \A u \in Threads : mine'[u] \notin Range(idle)
    BY <1>0, ThreadFacts DEF SharedSafely, ClientTypes
  <2>3. \A u \in Threads : pc'[u] = "make proxy" => pc[u] = "make proxy"
    BY <1>0 DEF ClientTypes
  <2> QED BY <1>0, <2>1, <2>2, <2>3 DEF SharedSafely
<1>7. /\ Cardinality(Holders') = Cardinality(Holders)
      /\ Cardinality(Raised') = Cardinality(Raised)
  BY <1>0, CountsOfOne, ThreadFacts DEF Pcs
<1>8. LeaksAreTold'
  BY <1>0, <1>7 DEF LeaksAreTold, Leaked, Holders, Raised
<1> QED BY <1>2, <1>3, <1>4, <1>5, <1>6, <1>8
-----------------------------------------------------------------------------
LEMMA InitClient == Init => ClientInv /\ LeaksAreTold
<1> SUFFICES ASSUME Init PROVE ClientInv /\ LeaksAreTold
  OBVIOUS
<1>0. /\ at \in [Conns -> Where]
      /\ pc \in [Threads -> {"idle", "proxy", "get"}]
      /\ mine = [t \in Threads |-> None]
      /\ idle = <<>> /\ size = 0 /\ proxies = 0 /\ sem = None
  BY DEF Init, Where
<1>1. \A t \in Threads : t # None /\ None \notin PoolConns
  BY BusAssumption DEF Conns
<1>2. Range(idle) = {} /\ IsInjective(idle)
  BY <1>0 DEF Range, IsInjective
<1>3. ClientTypes
  <2>1. /\ pc \in [Threads -> Pcs]
        /\ mine \in [Threads -> PoolConns \cup Threads \cup {None}]
    BY <1>0 DEF Pcs
  <2>2. idle \in Seq(PoolConns)
    BY <1>0
  <2>3. size \in Nat /\ proxies \in Nat
    BY <1>0
  <2> QED BY <1>0, <2>1, <2>2, <2>3 DEF ClientTypes
<1>4. HoldsInv
  BY <1>0, <1>1 DEF HoldsInv
<1>5. MadeInv
  BY <1>0, <1>1, <1>2 DEF MadeInv
<1>6. SemInv
  BY <1>0, <1>1 DEF SemInv
<1>7. SharedSafely
  <2>1. size <= PoolSize /\ proxies <= 1
    <3>1. size = 0 /\ proxies = 0
      BY <1>0
    <3> QED BY <3>1, PoolSizeType
  <2>2. \A t \in Threads : mine[t] = None /\ pc[t] # "make proxy" /\ mine[t] \notin Range(idle)
    BY <1>0, <1>2
  <2> QED BY <1>2, <2>1, <2>2 DEF SharedSafely
<1>8. LeaksAreTold
  <2>1. Holders = {} /\ Len(idle) = 0
    BY <1>0, <1>1 DEF Holders
  <2>2. Cardinality(Holders) = 0
    BY <2>1, FS_EmptySet
  <2>3. Cardinality(Raised) \in Nat
    BY CountsChange DEF Raised
  <2> QED BY <1>0, <2>1, <2>2, <2>3 DEF LeaksAreTold, Leaked, Holders, Raised
<1> QED BY <1>3, <1>4, <1>5, <1>6, <1>7, <1>8 DEF ClientInv

LEMMA NextKeeps == ClientInv /\ LeaksAreTold /\ [Next]_vars => ClientInv' /\ LeaksAreTold'
<1> SUFFICES ASSUME ClientInv, LeaksAreTold, [Next]_vars PROVE ClientInv' /\ LeaksAreTold'
  OBVIOUS
<1>0. at \in [Conns -> Where]
  BY DEF ClientInv, ClientTypes
<1>1. ASSUME NEW k \in Conns, ConnStep(k) PROVE ClientInv' /\ LeaksAreTold'
  BY <1>0, <1>1, ConnStepIsQuiet, QuietKeeps
<1>2. ASSUME NEW e \in Engines, Deliver(e) PROVE ClientInv' /\ LeaksAreTold'
  <2>1. Quiet
    BY <1>0, <1>2 DEF Deliver, Quiet, connVars
  <2> QED BY <2>1, QuietKeeps
<1>3. ASSUME NEW t \in Threads, ThreadStep(t) PROVE ClientInv' /\ LeaksAreTold'
  BY <1>3, EnterProxyKeeps, MadeProxyKeeps, GetIdleKeeps, CreateKeeps, CreateOwnKeeps,
     PublishKeeps, PutBackKeeps, FinalizeKeeps, CloseOwnKeeps DEF ThreadStep
<1>4. ASSUME NEW h \in Range(Hosts), HostUp(h) PROVE ClientInv' /\ LeaksAreTold'
  <2>1. Quiet
    BY <1>0, <1>4 DEF HostUp, Quiet, connVars
  <2> QED BY <2>1, QuietKeeps
<1>5. CASE Failure
  BY <1>0, <1>5, FailureIsQuiet, QuietKeeps
<1>6. CASE UNCHANGED vars
  <2>1. Quiet
    BY <1>0, <1>6 DEF vars, Quiet, connVars
  <2> QED BY <2>1, QuietKeeps
<1> QED BY <1>1, <1>2, <1>3, <1>4, <1>5, <1>6 DEF Next

LEMMA ClientInvariant == Spec => [](ClientInv /\ LeaksAreTold)
BY InitClient, NextKeeps, PTL DEF Spec

\* The pool makes no more connections than its size, hands none to two threads
\* or to one while it is idle, and calls that start together share one reply
\* proxy: however many threads of however many messages there are, and whatever
\* fails (amqp.py:49-62, 102-134, 511-526).
THEOREM ClientSharesSafely == Spec => []SharedSafely
<1>1. ClientInv => SharedSafely
  BY DEF ClientInv
<1> QED BY <1>1, ClientInvariant, PTL

\* Each connection the pool has lost was lost to a thread whose caller was told
\* that it failed (amqp.py:123-128, 140-142).
THEOREM NoLeakIsSilent == Spec => []LeaksAreTold
BY ClientInvariant, PTL
-----------------------------------------------------------------------------
\* A sequence with one more element after the last.
PutLast(s, x) == s \o <<x>>

LEMMA Longer ==
  ASSUME NEW S, NEW s \in Seq(S), NEW x \in S
  PROVE  /\ PutLast(s, x) \in Seq(S)
         /\ Len(PutLast(s, x)) = Len(s) + 1
         /\ PutLast(s, x)[Len(s) + 1] = x
BY DEF PutLast

\* The names of an engine's queues.
LEMMA NameShapes ==
  ASSUME NEW k \in Conns
  PROVE  /\ Len(Topic) = 1 /\ Topic[1] = "engine"
         /\ Len(Topic \o <<k>>) = 2 /\ (Topic \o <<k>>)[2] = k
         /\ Len(FanoutExchange(Topic) \o <<k>>) = 3 /\ (FanoutExchange(Topic) \o <<k>>)[3] = k
<1> DEFINE S == {"engine", "fanout", k}
<1>1. Topic \in Seq(S) /\ Len(Topic) = 1 /\ Topic[1] = "engine"
  BY DEF Topic
<1>2. k \in S /\ "fanout" \in S
  OBVIOUS
<1> HIDE DEF S
<1>3. Len(PutLast(Topic, k)) = 2 /\ PutLast(Topic, k)[2] = k
  <2>1. ASSUME NEW f \in Seq(S), Len(f) = 1
        PROVE  Len(PutLast(f, k)) = 2 /\ PutLast(f, k)[2] = k
    <3>1. Len(PutLast(f, k)) = Len(f) + 1 /\ PutLast(f, k)[Len(f) + 1] = k
      BY <1>2, Longer
    <3> QED BY <2>1, <3>1
  <2> QED BY <1>1, <2>1
<1>4. PutLast(Topic, "fanout") \in Seq(S) /\ Len(PutLast(Topic, "fanout")) = 2
  <2>1. /\ PutLast(Topic, "fanout") \in Seq(S)
        /\ Len(PutLast(Topic, "fanout")) = Len(Topic) + 1
    BY <1>1, <1>2, Longer
  <2> QED BY <1>1, <2>1
<1>5. /\ Len(PutLast(PutLast(Topic, "fanout"), k)) = 3
      /\ PutLast(PutLast(Topic, "fanout"), k)[3] = k
  <2>1. ASSUME NEW f \in Seq(S), Len(f) = 2
        PROVE  Len(PutLast(f, k)) = 3 /\ PutLast(f, k)[3] = k
    <3>1. Len(PutLast(f, k)) = Len(f) + 1 /\ PutLast(f, k)[Len(f) + 1] = k
      BY <1>2, Longer
    <3> QED BY <2>1, <3>1
  <2> QED BY <1>4, <2>1
<1>6. /\ Topic \o <<k>> = PutLast(Topic, k)
      /\ FanoutExchange(Topic) \o <<k>> = PutLast(PutLast(Topic, "fanout"), k)
  BY DEF PutLast, FanoutExchange
<1> QED BY <1>1, <1>3, <1>5, <1>6

\* The queues a connection wants, told apart by their names.
LEMMA WantedShape ==
  ASSUME NEW k \in Conns
  PROVE  \/ /\ k = Reply /\ Len(Wanted(k)) = 1
            /\ Len(Wanted(k)[1].name) = 1 /\ Wanted(k)[1].name[1] = "reply"
         \/ /\ k # Reply /\ Len(Wanted(k)) = 3
            /\ Len(Wanted(k)[1].name) = 1 /\ Wanted(k)[1].name[1] = "engine"
            /\ Len(Wanted(k)[2].name) = 2
            /\ Len(Wanted(k)[3].name) = 3 /\ Wanted(k)[3].name[3] = k
            /\ Kombu => Wanted(k)[1].autoDelete = FALSE /\ Wanted(k)[2].autoDelete = FALSE
<1>1. CASE k = Reply
  <2>1. Wanted(k) = <<DirectConsumer(<<"reply">>)>>
    BY <1>1 DEF Wanted
  <2>2. DirectConsumer(<<"reply">>).name = <<"reply">>
    BY DEF DirectConsumer, KombuDirectConsumer, QpidDirectConsumer, Queue
  <2>3. Len(<<"reply">>) = 1 /\ <<"reply">>[1] = "reply"
    OBVIOUS
  <2>4. Len(Wanted(k)) = 1 /\ Wanted(k)[1] = DirectConsumer(<<"reply">>)
    BY <2>1
  <2> QED BY <1>1, <2>2, <2>3, <2>4
<1>2. CASE k # Reply
  <2>1. Wanted(k) = <<TopicConsumer(Topic), TopicConsumer(Topic \o <<k>>), FanoutConsumer(Topic, k)>>
    BY <1>2 DEF Wanted
  <2>2. /\ Len(Wanted(k)) = 3
        /\ Wanted(k)[1] = TopicConsumer(Topic)
        /\ Wanted(k)[2] = TopicConsumer(Topic \o <<k>>)
        /\ Wanted(k)[3] = FanoutConsumer(Topic, k)
    BY <2>1
  <2>3. \A n : TopicConsumer(n).name = n /\ (Kombu => TopicConsumer(n).autoDelete = FALSE)
    BY DEF TopicConsumer, KombuTopicConsumer, QpidTopicConsumer, Queue
  <2>4. FanoutConsumer(Topic, k).name = FanoutExchange(Topic) \o <<k>>
    BY DEF FanoutConsumer, KombuFanoutConsumer, QpidFanoutConsumer, Queue
  <2>5. Wanted(k)[1].name = Topic /\ Wanted(k)[2].name = Topic \o <<k>>
    BY <2>2, <2>3
  <2>6. Wanted(k)[3].name = FanoutExchange(Topic) \o <<k>>
    BY <2>2, <2>4
  <2>7. Kombu => Wanted(k)[1].autoDelete = FALSE /\ Wanted(k)[2].autoDelete = FALSE
    BY <2>2, <2>3
  <2>8. /\ Len(Wanted(k)[1].name) = 1 /\ Wanted(k)[1].name[1] = "engine"
        /\ Len(Wanted(k)[2].name) = 2
    BY <2>5, NameShapes
  <2>9. Len(Wanted(k)[3].name) = 3 /\ Wanted(k)[3].name[3] = k
    BY <2>6, NameShapes
  <2> QED BY <1>2, <2>2, <2>7, <2>8, <2>9
<1> QED BY <1>1, <1>2

LEMMA WantedDiffer ==
  ASSUME NEW k \in Conns
  PROVE  /\ Len(Wanted(k)) \in 1 .. 3
         /\ \A i, j \in 1 .. Len(Wanted(k)) : Wanted(k)[i] = Wanted(k)[j] => i = j
<1>1. CASE k = Reply
  <2>1. Len(Wanted(k)) = 1
    BY <1>1, WantedShape
  <2> QED BY <2>1
<1>2. CASE k # Reply
  <2>1. Len(Wanted(k)) = 3
    BY <1>2, WantedShape
  <2>2. \A i \in 1 .. 3 : Len(Wanted(k)[i].name) = i
    <3>1. /\ Len(Wanted(k)[1].name) = 1 /\ Len(Wanted(k)[2].name) = 2
          /\ Len(Wanted(k)[3].name) = 3
      BY <1>2, WantedShape
    <3>2. \A i \in 1 .. 3 : i = 1 \/ i = 2 \/ i = 3
      OBVIOUS
    <3> QED BY <3>1, <3>2
  <2>3. ASSUME NEW i \in 1 .. 3, NEW j \in 1 .. 3, Wanted(k)[i] = Wanted(k)[j] PROVE i = j
    BY <2>2, <2>3
  <2> QED BY <2>1, <2>3
<1> QED BY <1>1, <1>2

\* With kombu a queue that is deleted automatically is one connection's only.
LEMMA OwnQueue ==
  ASSUME Kombu, NEW k \in Conns, NEW j \in Conns, NEW q \in QueuesOf(k), NEW p \in QueuesOf(j),
         q.autoDelete, p.name = q.name
  PROVE  j = k
<1>1. PICK i \in 1 .. Len(Wanted(k)) : q = Wanted(k)[i]
  BY DEF QueuesOf, FirstQueues
<1>2. PICK m \in 1 .. Len(Wanted(j)) : p = Wanted(j)[m]
  BY DEF QueuesOf, FirstQueues
<1>3. \/ k # Reply /\ q.name[3] = k /\ Len(q.name) = 3
      \/ k = Reply /\ Len(q.name) = 1 /\ q.name[1] = "reply"
  <2>1. CASE k = Reply
    <3>1. Len(Wanted(k)) = 1 /\ Len(Wanted(k)[1].name) = 1 /\ Wanted(k)[1].name[1] = "reply"
      BY <2>1, WantedShape
    <3>2. i = 1
      BY <3>1
    <3> QED BY <1>1, <2>1, <3>1, <3>2
  <2>2. CASE k # Reply
    <3>1. /\ Len(Wanted(k)) = 3
          /\ Len(Wanted(k)[3].name) = 3 /\ Wanted(k)[3].name[3] = k
          /\ Wanted(k)[1].autoDelete = FALSE /\ Wanted(k)[2].autoDelete = FALSE
      BY <2>2, WantedShape
    <3>2. i = 1 \/ i = 2 \/ i = 3
      BY <3>1
    <3> QED BY <1>1, <2>2, <3>1, <3>2
  <2> QED BY <2>1, <2>2
<1>4. \/ j = Reply /\ Len(p.name) = 1 /\ p.name[1] = "reply"
      \/ j # Reply /\ Len(p.name) = 1 /\ p.name[1] = "engine"
      \/ j # Reply /\ Len(p.name) = 2
      \/ j # Reply /\ Len(p.name) = 3 /\ p.name[3] = j
  <2>1. CASE j = Reply
    <3>1. Len(Wanted(j)) = 1 /\ Len(Wanted(j)[1].name) = 1 /\ Wanted(j)[1].name[1] = "reply"
      BY <2>1, WantedShape
    <3>2. m = 1
      BY <3>1
    <3> QED BY <1>2, <2>1, <3>1, <3>2
  <2>2. CASE j # Reply
    <3>1. /\ Len(Wanted(j)) = 3
          /\ Len(Wanted(j)[1].name) = 1 /\ Wanted(j)[1].name[1] = "engine"
          /\ Len(Wanted(j)[2].name) = 2
          /\ Len(Wanted(j)[3].name) = 3 /\ Wanted(j)[3].name[3] = j
      BY <2>2, WantedShape
    <3>2. m = 1 \/ m = 2 \/ m = 3
      BY <3>1
    <3> QED BY <1>2, <2>2, <3>1, <3>2
  <2> QED BY <2>1, <2>2
<1> QED BY <1>3, <1>4
-----------------------------------------------------------------------------
\* Nothing of a connection itself changes.
SameConn(c) == /\ link'[c] = link[c] /\ at'[c] = at[c] /\ consumers'[c] = consumers[c]
               /\ todo'[c] = todo[c] /\ num'[c] = num[c] /\ consuming'[c] = consuming[c]

GoodConn(c) == ConsumersInv(c) /\ LinkInv(c) /\ BrokerInv(c)

LEMMA WantedStays ==
  ASSUME UNCHANGED driver
  PROVE  /\ Kombu' <=> Kombu
         /\ \A k : Wanted(k)' = Wanted(k) /\ QueuesOf(k)' = QueuesOf(k)
         /\ \A k, n : FirstQueues(k, n)' = FirstQueues(k, n)
BY DEF Kombu, Wanted, QueuesOf, FirstQueues, TopicConsumer, FanoutConsumer, DirectConsumer

LEMMA ConnFacts ==
         /\ Threads \subseteq Conns /\ Engines \subseteq Conns /\ PoolConns \subseteq Conns
         /\ Reply \in Conns /\ None \notin Conns /\ Reply \notin Threads /\ Reply \notin Engines
         /\ \A e \in Engines : e \notin Threads
BY BusAssumption DEF Conns

LEMMA ConsumersSame ==
  ASSUME NEW c \in Conns, ConsumersInv(c), UNCHANGED driver, at'[c] = at[c],
         consumers'[c] = consumers[c], todo'[c] = todo[c], num'[c] = num[c]
  PROVE  ConsumersInv(c)'
BY WantedStays DEF ConsumersInv, AllConsumers, Declared

LEMMA OneInOnes == \A n \in Nat : 1 \in 1 .. n + 1
OBVIOUS

\* A connection that is left alone by a step that takes nothing from the broker.
LEMMA SameKeeps ==
  ASSUME NEW c \in Conns, GoodConn(c), SameConn(c), UNCHANGED driver,
         queues \subseteq queues', subs \subseteq subs'
  PROVE  GoodConn(c)'
<1> USE DEF GoodConn, SameConn
<1>1. ConsumersInv(c)'
  BY ConsumersSame
<1>2. LinkInv(c)'
  BY WantedStays DEF LinkInv, Started, Declared
<1>3. BrokerInv(c)'
  BY WantedStays DEF BrokerInv
<1> QED BY <1>1, <1>2, <1>3

\* Subscriptions to queues that exist are added, and no link is lost.
LEMMA SubsGrow ==
  ASSUME SubsInv, UNCHANGED driver, NEW k \in Conns, NEW Q \in SUBSET (QueuesOf(k) \cap queues'),
         subs' = subs \cup {<<k, q.name>> : q \in Q}, queues \subseteq queues',
         \A c \in Conns : link[c] # None => link'[c] # None, link'[k] # None
  PROVE  SubsInv'
<1> SUFFICES ASSUME NEW s \in subs'
             PROVE  /\ s[1] \in Conns /\ s = <<s[1], s[2]>> /\ link'[s[1]] # None
                    /\ \E q \in QueuesOf(s[1])' \cap queues' : q.name = s[2]
  BY DEF SubsInv
<1>1. CASE s \in subs
  BY <1>1, WantedStays DEF SubsInv
<1>2. CASE s \notin subs
  <2>1. PICK q \in Q : s = <<k, q.name>>
    BY <1>2
  <2>2. s[1] = k /\ s[2] = q.name
    BY <2>1
  <2> QED BY <2>1, <2>2, WantedStays
<1> QED BY <1>1, <1>2

LEMMA SubsStay ==
  ASSUME SubsInv, UNCHANGED <<driver, subs>>, queues \subseteq queues',
         \A c \in Conns : link[c] # None => link'[c] # None
  PROVE  SubsInv'
<1> SUFFICES ASSUME NEW s \in subs
             PROVE  /\ s[1] \in Conns /\ s = <<s[1], s[2]>> /\ link'[s[1]] # None
                    /\ \E q \in QueuesOf(s[1])' \cap queues' : q.name = s[2]
  BY DEF SubsInv
<1> QED BY WantedStays DEF SubsInv

\* What the broker and the other connections keep when links are lost.
LEMMA Detached ==
  ASSUME ConnTypes, SubsInv, UNCHANGED driver, NEW K \in SUBSET Conns, Detach(K)
  PROVE  /\ link' \in [Conns -> Range(Hosts) \cup {Cell, None}]
         /\ \A c \in K : link'[c] = None
         /\ \A c \in Conns \ K : link'[c] = link[c]
         /\ SubsInv'
         /\ \A c \in Conns \ K : SameConn(c) /\ GoodConn(c) => GoodConn(c)'
<1> DEFINE left == {s \in subs : s[1] \notin K}
           served(ss, q) == \E s \in ss : s[2] = q.name
           gone == {q \in queues : q.autoDelete /\ served(subs, q) /\ ~served(left, q)}
<1>1. /\ link' = [c \in Conns |-> IF c \in K THEN None ELSE link[c]]
      /\ subs' = left /\ queues' = queues \ gone
  BY DEF Detach
<1>2. /\ link' \in [Conns -> Range(Hosts) \cup {Cell, None}]
      /\ \A c \in K : link'[c] = None
      /\ \A c \in Conns \ K : link'[c] = link[c]
  BY <1>1 DEF ConnTypes
<1>3. SubsInv'
  <2> SUFFICES ASSUME NEW s \in left
               PROVE  /\ s[1] \in Conns /\ s = <<s[1], s[2]>> /\ link'[s[1]] # None
                      /\ \E q \in QueuesOf(s[1])' \cap queues' : q.name = s[2]
    BY <1>1 DEF SubsInv
  <2>1. s[1] \in Conns \ K /\ s = <<s[1], s[2]>> /\ link[s[1]] # None
    BY DEF SubsInv
  <2>2. PICK q \in QueuesOf(s[1]) \cap queues : q.name = s[2]
    BY DEF SubsInv
  <2>3. q \notin gone
    BY <2>2
  <2> QED BY <1>1, <1>2, <2>1, <2>2, <2>3, WantedStays
<1>4. ASSUME NEW c \in Conns \ K, SameConn(c), GoodConn(c) PROVE GoodConn(c)'
  <2>1. ConsumersInv(c)'
    BY <1>4, ConsumersSame DEF SameConn, GoodConn
  <2>2. LinkInv(c)'
    BY <1>4, WantedStays DEF LinkInv, Started, Declared, SameConn, GoodConn
  <2>3. ASSUME link[c] # None, Kombu, NEW d \in consumers[c] \ todo[c] PROVE d.queue \notin gone
    <3> SUFFICES ASSUME d.queue \in gone PROVE FALSE
      OBVIOUS
    <3>1. d.queue \in QueuesOf(c)
      <4>1. d \in [queue : QueuesOf(c), tag : 1 .. 3]
        BY <1>4 DEF GoodConn, ConsumersInv, AllConsumers
      <4> QED BY <4>1
    <3>2. PICK s \in subs : s[2] = d.queue.name
      OBVIOUS
    <3>3. s[1] \in Conns
      BY DEF SubsInv
    <3>4. PICK p \in QueuesOf(s[1]) : p.name = s[2]
      BY DEF SubsInv
    <3>5. d.queue.autoDelete
      OBVIOUS
    <3>6. s[1] = c
      BY <2>3, <3>1, <3>2, <3>3, <3>4, <3>5, OwnQueue
    <3>7. s \in left
      BY <3>6
    <3> QED BY <3>2, <3>7
  <2>4. BrokerInv(c)'
    <3>1. link'[c] = link[c] /\ consumers'[c] = consumers[c] /\ todo'[c] = todo[c]
          /\ consuming'[c] = consuming[c] /\ (Kombu' <=> Kombu)
      BY <1>4, WantedStays DEF SameConn
    <3>2. ASSUME link[c] # None, Kombu, NEW d \in consumers[c] \ todo[c] PROVE d.queue \in queues'
      BY <1>1, <1>4, <2>3, <3>2 DEF GoodConn, BrokerInv
    <3>3. ASSUME link[c] # None, Kombu => consuming[c], NEW d \in consumers[c]
          PROVE  <<c, d.queue.name>> \in subs'
      <4>1. <<c, d.queue.name>> \in subs
        BY <1>4, <3>3 DEF GoodConn, BrokerInv
      <4> QED BY <1>1, <4>1
    <3> QED BY <3>1, <3>2, <3>3 DEF BrokerInv
  <2> QED BY <2>1, <2>2, <2>4 DEF GoodConn
<1> QED BY <1>2, <1>3, <1>4
-----------------------------------------------------------------------------
\* A step that opens no connection, and does not bring the process back.
LEMMA OpenStays ==
  ASSUME OpenInv, UNCHANGED <<proxies, sem, pc>>,
         ClientUp' => ClientUp /\ \A c \in Threads \cup {Reply} : at[c] = "none" => at'[c] = "none"
  PROVE  OpenInv'
<1> SUFFICES ASSUME ClientUp'
             PROVE  /\ proxies' = 0 /\ sem' = None => at'[Reply] = "none"
                    /\ \A t \in Threads : pc'[t] \in {"idle", "proxy", "make proxy", "get"}
                                             => at'[t] = "none"
  BY DEF OpenInv
<1>1. ClientUp /\ \A c \in Threads \cup {Reply} : at[c] = "none" => at'[c] = "none"
  OBVIOUS
<1> QED BY <1>1 DEF OpenInv

LEMMA GoStays ==
  ASSUME OpenInv, at \in [Conns -> Where], UNCHANGED <<proxies, sem, pc>>,
         NEW k \in Conns, NEW w, Go(k, w), at[k] \notin {"none", "exited"}
  PROVE  OpenInv'
<1>1. at' = [at EXCEPT ![k] = w]
  BY DEF Go
<1>2. \A c \in Threads \cup {Reply} : at[c] = "none" => at'[c] = "none"
  BY <1>1, ConnFacts
<1>3. ClientUp' => ClientUp
  BY <1>1, ConnFacts DEF ClientUp
<1> QED BY <1>2, <1>3, OpenStays

\* A step of one connection only that takes nothing from the broker.
LEMMA OneConn ==
  ASSUME ConnInv, NEW k \in Conns, \A c \in Conns \ {k} : SameConn(c), UNCHANGED driver,
         queues \subseteq queues', subs \subseteq subs',
         ConnTypes', SubsInv', OpenInv', GoodConn(k)'
  PROVE  ConnInv'
<1>1. ASSUME NEW c \in Conns PROVE GoodConn(c)'
  <2>1. CASE c = k
    BY <2>1
  <2>2. CASE c # k
    <3>1. GoodConn(c)
      BY DEF ConnInv, GoodConn
    <3> QED BY <2>2, <3>1, SameKeeps
  <2> QED BY <2>1, <2>2
<1> QED BY <1>1 DEF ConnInv, GoodConn

\* A step that loses the links of some connections, and of these ends some.
LEMMA LossKeeps ==
  ASSUME ConnInv, at \in [Conns -> Where], NEW K \in SUBSET Conns, Detach(K),
         UNCHANGED <<driver, consumers, num, consuming>>,
         up' \subseteq Range(Hosts) \cup {Cell}, faults' \in Nat,
         todo' = [c \in Conns |-> todo'[c]],
         \A c \in Conns \ K : at'[c] = at[c] /\ todo'[c] = todo[c],
         \A c \in K : \/ at'[c] = at[c] /\ todo'[c] = todo[c]
                      \/ at'[c] \in {"closed", "exited"} /\ todo'[c] \subseteq todo[c],
         OpenInv'
  PROVE  ConnInv'
<1>1. /\ link' \in [Conns -> Range(Hosts) \cup {Cell, None}]
      /\ \A c \in K : link'[c] = None
      /\ \A c \in Conns \ K : link'[c] = link[c]
      /\ SubsInv'
      /\ \A c \in Conns \ K : SameConn(c) /\ GoodConn(c) => GoodConn(c)'
  BY Detached DEF ConnInv
<1>2. ConnTypes'
  BY <1>1 DEF ConnInv, ConnTypes
<1>3. \A c \in Conns : GoodConn(c)
  BY DEF ConnInv, GoodConn
<1>4. ASSUME NEW c \in Conns PROVE GoodConn(c)'
  <2>1. CASE c \notin K
    BY <1>1, <1>3, <2>1 DEF SameConn
  <2>2. CASE c \in K
    <3>1. link'[c] = None /\ BrokerInv(c)'
      BY <1>1, <2>2 DEF BrokerInv
    <3>2. LinkInv(c)'
      <4>1. at'[c] = at[c] \/ at'[c] \in {"closed", "exited"}
        BY <2>2
      <4> QED BY <1>3, <3>1, <4>1, WantedStays DEF LinkInv, GoodConn, Started, Declared
    <3>3. ConsumersInv(c)'
      <4>1. CASE at'[c] = at[c] /\ todo'[c] = todo[c]
        <5>1. ConsumersInv(c)
          BY <1>3 DEF GoodConn
        <5>2. consumers'[c] = consumers[c] /\ num'[c] = num[c]
          OBVIOUS
        <5> QED BY <4>1, <5>1, <5>2, ConsumersSame
      <4>2. CASE at'[c] \in {"closed", "exited"} /\ todo'[c] \subseteq todo[c]
        <5>1. AllConsumers(c)' \subseteq AllConsumers(c)
          BY <4>2 DEF AllConsumers
        <5>2. /\ IsFiniteSet(AllConsumers(c)')
              /\ Cardinality(AllConsumers(c)') <= Cardinality(AllConsumers(c))
              /\ Cardinality(AllConsumers(c)') \in Nat /\ Cardinality(AllConsumers(c)) \in Nat
          BY <1>3, <5>1, FS_Subset, FS_CardinalityType DEF ConsumersInv, GoodConn
        <5>3. Len(Wanted(c)) \in Nat
          BY WantedDiffer
        <5>4. Cardinality(AllConsumers(c)) <= Len(Wanted(c))
          BY <1>3 DEF ConsumersInv, GoodConn
        <5>5. Cardinality(AllConsumers(c)') <= Len(Wanted(c))
          BY <5>2, <5>3, <5>4
        <5> QED BY <1>3, <4>2, <5>1, <5>2, <5>5, WantedStays DEF ConsumersInv, GoodConn, Declared
      <4> QED BY <2>2, <4>1, <4>2
    <3> QED BY <3>1, <3>2, <3>3 DEF GoodConn
  <2> QED BY <2>1, <2>2
<1> QED BY <1>1, <1>2, <1>4 DEF ConnInv, GoodConn

LEMMA KombuFailedAttemptKeeps ==
  ASSUME ConnInv, at \in [Conns -> Where], UNCHANGED <<proxies, sem, pc>>,
         NEW k \in Conns, KombuFailedAttempt(k),
         at[k] \in {"connect", "declare again"}, link[k] = None, Kombu,
         UNCHANGED <<driver, up, consumers, consuming, faults, num>>,
         todo' = todo \/ todo' = [todo EXCEPT ![k] = {}],
         at[k] = "connect" => todo' = todo,
         at[k] = "declare again" => todo' = [todo EXCEPT ![k] = {}]
  PROVE  ConnInv'
<1>0. /\ todo = [c \in Conns |-> todo[c]] /\ up \subseteq Range(Hosts) \cup {Cell} /\ faults \in Nat
  BY DEF ConnInv, ConnTypes
<1>1. CASE at' = [c \in Conns |-> IF c \in ProcessOf(k) THEN "exited" ELSE at[c]] /\ Detach(ProcessOf(k))
  <2>1. ProcessOf(k) \in SUBSET Conns /\ k \in ProcessOf(k)
    BY DEF ProcessOf, Conns
  <2>2. /\ todo' = [c \in Conns |-> todo'[c]]
        /\ \A c \in Conns \ ProcessOf(k) : at'[c] = at[c] /\ todo'[c] = todo[c]
        /\ \A c \in ProcessOf(k) : at'[c] = "exited" /\ todo'[c] \subseteq todo[c]
    BY <1>0, <1>1, <2>1
  <2>3. OpenInv'
    <3>1. CASE k \in Engines
      <4>1. \A c \in Threads \cup {Reply} : at'[c] = at[c]
        BY <1>1, <3>1, ConnFacts DEF ProcessOf
      <4> QED BY <4>1, OpenStays DEF ConnInv, ClientUp
    <3>2. CASE k \notin Engines
      <4>1. at'[Reply] = "exited"
        BY <1>1, <3>2, ConnFacts DEF ProcessOf
      <4> QED BY <4>1, OpenStays DEF ConnInv, ClientUp
    <3> QED BY <3>1, <3>2
  <2> QED BY <1>0, <1>1, <2>1, <2>2, <2>3, LossKeeps
<1>2. CASE Go(k, "connect") /\ UNCHANGED <<link, queues, subs>>
  <2>1. at' = [at EXCEPT ![k] = "connect"]
    BY <1>2 DEF Go
  <2>2. \A c \in Conns \ {k} : SameConn(c)
    BY <1>0, <1>2, <2>1 DEF SameConn
  <2>3. ConnTypes' /\ SubsInv'
    BY <1>0, <1>2, SubsStay DEF ConnInv, ConnTypes
  <2>4. OpenInv'
    BY <1>2, GoStays DEF ConnInv
  <2>5. GoodConn(k)
    BY DEF ConnInv, GoodConn
  <2>6. todo'[k] = {} /\ at'[k] = "connect" /\ link'[k] = None
    BY <1>0, <1>2, <2>1, <2>5 DEF GoodConn, ConsumersInv
  <2>7. AllConsumers(k)' = AllConsumers(k)
    BY <2>5, <2>6 DEF GoodConn, ConsumersInv, AllConsumers
  <2>8. ConsumersInv(k)'
    BY <2>5, <2>6, <2>7, WantedStays DEF GoodConn, ConsumersInv, Declared
  <2>9. LinkInv(k)' /\ BrokerInv(k)'
    BY <2>5, <2>6 DEF GoodConn, LinkInv, BrokerInv
  <2> QED BY <1>2, <2>2, <2>3, <2>4, <2>8, <2>9, OneConn DEF GoodConn
<1> QED BY <1>1, <1>2 DEF KombuFailedAttempt

LEMMA KombuTryHostKeeps ==
  ASSUME ConnInv, at \in [Conns -> Where], NEW k \in Conns, KombuTryHost(k)
  PROVE  ConnInv'
<1>0. /\ Kombu /\ at[k] = "connect" /\ UNCHANGED <<driver, up, consumers, consuming, faults>>
      /\ UNCHANGED <<proxies, sem, pc>>
  BY DEF KombuTryHost, config, clientVars
<1>1. GoodConn(k) /\ ConnTypes
  BY DEF ConnInv, GoodConn
<1>2. link[k] = None /\ todo[k] = {} /\ AllConsumers(k) = consumers[k] /\ consuming[k] = FALSE
  BY <1>0, <1>1 DEF GoodConn, LinkInv, ConsumersInv, AllConsumers, ConnTypes
<1>3. CASE /\ HostAt(k) \in up
           /\ link' = [link EXCEPT ![k] = HostAt(k)]
           /\ num' = [num EXCEPT ![k] = 1]
           /\ todo' = [todo EXCEPT ![k] = consumers[k]]
           /\ Go(k, IF consumers[k] = {} THEN "ready" ELSE "declare again")
           /\ UNCHANGED <<queues, subs>>
  <2>1. PICK w \in {"ready", "declare again"} : /\ at' = [at EXCEPT ![k] = w]
                                                /\ w = "ready" => consumers[k] = {}
    BY <1>3 DEF Go
  <2>2. \A c \in Conns \ {k} : SameConn(c)
    BY <1>0, <1>1, <1>3, <2>1 DEF SameConn, ConnTypes
  <2>3. HostAt(k) \in Range(Hosts) \cup {Cell}
    BY <1>1, <1>3 DEF ConnTypes
  <2>4. ConnTypes' /\ SubsInv'
    <3>1. ConnTypes'
      BY <1>0, <1>1, <1>3, <2>3 DEF ConnTypes
    <3>2. \A c \in Conns : link[c] # None => link'[c] # None
      BY <1>1, <1>2, <1>3 DEF ConnTypes
    <3> QED BY <1>0, <1>3, <3>1, <3>2, SubsStay DEF ConnInv
  <2>5. OpenInv'
    BY <1>0, <1>3, GoStays DEF ConnInv
  <2>6. /\ at'[k] = w /\ todo'[k] = consumers[k] /\ num'[k] = 1
        /\ AllConsumers(k)' = AllConsumers(k) /\ consuming'[k] = FALSE
    BY <1>0, <1>1, <1>2, <1>3, <2>1 DEF AllConsumers, ConnTypes
  <2>7. ConsumersInv(k)'
    <3>1. Cardinality(consumers[k]) \in Nat
      BY <1>1, <1>2, FS_CardinalityType DEF GoodConn, ConsumersInv
    <3>2. num'[k] \in 1 .. Cardinality(consumers[k]) + 1
      <4>1. 1 \in 1 .. Cardinality(consumers[k]) + 1
        BY <3>1, OneInOnes
      <4> QED BY <2>6, <4>1
    <3> QED BY <1>0, <1>1, <1>2, <2>1, <2>6, <3>2, WantedStays DEF GoodConn, ConsumersInv, Declared
  <2>8. LinkInv(k)' /\ BrokerInv(k)'
    BY <1>0, <2>1, <2>6, WantedStays DEF LinkInv, BrokerInv
  <2> QED BY <1>0, <1>3, <2>2, <2>4, <2>5, <2>7, <2>8, OneConn DEF GoodConn
<1>4. CASE KombuFailedAttempt(k) /\ UNCHANGED <<num, todo>>
  BY <1>0, <1>2, <1>4, KombuFailedAttemptKeeps
<1> QED BY <1>3, <1>4 DEF KombuTryHost

LEMMA KombuDeclareAgainKeeps ==
  ASSUME ConnInv, at \in [Conns -> Where], NEW k \in Conns, KombuDeclareAgain(k)
  PROVE  ConnInv'
<1>0. /\ Kombu /\ at[k] = "declare again" /\ link[k] # None
      /\ UNCHANGED <<driver, up, subs, link, consumers, num, consuming, faults>>
      /\ UNCHANGED <<proxies, sem, pc>>
  BY DEF KombuDeclareAgain, config, clientVars
<1>1. GoodConn(k) /\ ConnTypes
  BY DEF ConnInv, GoodConn
<1>2. PICK c \in todo[k] : /\ todo' = [todo EXCEPT ![k] = @ \ {c}]
                           /\ queues' = queues \cup {c.queue}
                           /\ Go(k, IF todo[k] = {c} THEN "ready" ELSE at[k])
  BY DEF KombuDeclareAgain
<1>3. PICK w \in {"ready", "declare again"} : /\ at' = [at EXCEPT ![k] = w]
                                              /\ w = "ready" => todo[k] = {c}
  BY <1>0, <1>2 DEF Go
<1>4. \A d \in Conns \ {k} : SameConn(d)
  BY <1>0, <1>1, <1>2, <1>3 DEF SameConn, ConnTypes
<1>5. /\ at'[k] = w /\ todo'[k] = todo[k] \ {c}
      /\ w = "ready" => todo'[k] = {}
      /\ queues \subseteq queues'
  BY <1>1, <1>2, <1>3 DEF ConnTypes
<1>6. AllConsumers(k)' = AllConsumers(k)
  BY <1>0, <1>1, <1>5 DEF AllConsumers, GoodConn, ConsumersInv
<1>7. ConnTypes' /\ SubsInv'
  BY <1>0, <1>1, <1>2, <1>5, SubsStay DEF ConnInv, ConnTypes
<1>8. OpenInv'
  BY <1>0, <1>3, GoStays DEF ConnInv, Go
<1>9. ConsumersInv(k)'
  BY <1>0, <1>1, <1>3, <1>5, <1>6, WantedStays DEF GoodConn, ConsumersInv, Declared
<1>10. LinkInv(k)'
  BY <1>0, <1>1, <1>3, <1>5, WantedStays DEF GoodConn, LinkInv
<1>11. BrokerInv(k)'
  <2>1. \A d \in consumers[k] \ todo'[k] : d.queue \in queues'
    BY <1>0, <1>1, <1>2, <1>5 DEF GoodConn, BrokerInv
  <2>2. consuming[k] = FALSE
    BY <1>0, <1>1 DEF GoodConn, LinkInv, ConnTypes
  <2> QED BY <1>0, <2>1, <2>2, WantedStays DEF BrokerInv
<1> QED BY <1>0, <1>4, <1>5, <1>7, <1>8, <1>9, <1>10, <1>11, OneConn DEF GoodConn

LEMMA KombuDeclareAgainFailsKeeps ==
  ASSUME ConnInv, at \in [Conns -> Where], NEW k \in Conns, KombuDeclareAgainFails(k)
  PROVE  ConnInv'
BY KombuFailedAttemptKeeps DEF KombuDeclareAgainFails, config, clientVars

LEMMA KombuLostKeeps ==
  ASSUME ConnInv, at \in [Conns -> Where], NEW k \in Conns, KombuLost(k)
  PROVE  ConnInv'
<1>0. /\ Kombu /\ at[k] = "ready" /\ link[k] = None /\ at' = [at EXCEPT ![k] = "connect"]
      /\ consuming' = [consuming EXCEPT ![k] = FALSE]
      /\ UNCHANGED <<driver, up, queues, subs, link, consumers, num, todo, faults>>
      /\ UNCHANGED <<proxies, sem, pc>>
  BY DEF KombuLost, NotUsable, Go, config, clientVars, brokerVars
<1>1. GoodConn(k) /\ ConnTypes
  BY DEF ConnInv, GoodConn
<1>2. \A d \in Conns \ {k} : SameConn(d)
  BY <1>0, <1>1 DEF SameConn, ConnTypes
<1>3. at'[k] = "connect" /\ consuming'[k] = FALSE
  BY <1>0, <1>1 DEF ConnTypes
<1>4. ConnTypes' /\ SubsInv'
  BY <1>0, <1>1, SubsStay DEF ConnInv, ConnTypes
<1>5. OpenInv'
  BY <1>0, GoStays DEF ConnInv, Go
<1>6. ConsumersInv(k)'
  BY <1>0, <1>1, <1>3, WantedStays DEF GoodConn, ConsumersInv, AllConsumers, Declared
<1>7. LinkInv(k)' /\ BrokerInv(k)'
  BY <1>0, <1>3 DEF LinkInv, BrokerInv
<1> QED BY <1>0, <1>2, <1>4, <1>5, <1>6, <1>7, OneConn DEF GoodConn

\* The next queue is declared.
NextConsumer(k, tag) == [queue |-> Wanted(k)[Declared(k) + 1], tag |-> tag]

LEMMA NextDeclared ==
  ASSUME NEW k \in Conns, ConsumersInv(k), at[k] = "ready", k \in Consumes, ~Started(k),
         NEW tag \in 1 .. 3, NEW cs, cs = consumers[k] \cup {NextConsumer(k, tag)}
  PROVE  /\ todo[k] = {} /\ Declared(k) \in Nat /\ Declared(k) + 1 \in 1 .. Len(Wanted(k))
         /\ cs \subseteq [queue : QueuesOf(k), tag : 1 .. 3]
         /\ IsFiniteSet(cs) /\ Cardinality(cs) = Declared(k) + 1
         /\ {c.queue : c \in cs} = FirstQueues(k, Declared(k) + 1)
<1> DEFINE n == Declared(k)
           q == Wanted(k)[n + 1]
<1>1. /\ todo[k] = {} /\ AllConsumers(k) = consumers[k]
      /\ consumers[k] \subseteq [queue : QueuesOf(k), tag : 1 .. 3] /\ IsFiniteSet(consumers[k])
      /\ n <= Len(Wanted(k))
      /\ {c.queue : c \in consumers[k]} = FirstQueues(k, n)
  <2>1. todo[k] = {} /\ AllConsumers(k) = consumers[k]
    BY DEF ConsumersInv, AllConsumers
  <2> QED BY <2>1 DEF ConsumersInv, Declared
<1>2. n \in Nat /\ Len(Wanted(k)) \in 1 .. 3
  BY <1>1, FS_CardinalityType, WantedDiffer DEF Declared
<1>3. n # Len(Wanted(k))
  BY DEF Started
<1>4. n + 1 \in 1 .. Len(Wanted(k))
  BY <1>1, <1>2, <1>3
<1>5. NextConsumer(k, tag) \in [queue : QueuesOf(k), tag : 1 .. 3] /\ NextConsumer(k, tag).queue = q
  BY <1>4 DEF NextConsumer, QueuesOf, FirstQueues
<1>6. q \notin FirstQueues(k, n)
  <2> SUFFICES ASSUME NEW i \in 1 .. n, q = Wanted(k)[i] PROVE FALSE
    BY DEF FirstQueues
  <2>1. i \in 1 .. Len(Wanted(k)) /\ i # n + 1
    BY <1>2, <1>4
  <2> QED BY <1>4, <2>1, WantedDiffer
<1>7. NextConsumer(k, tag) \notin consumers[k]
  BY <1>1, <1>5, <1>6
<1>8. IsFiniteSet(cs) /\ Cardinality(cs) = n + 1
  BY <1>1, <1>7, FS_AddElement DEF Declared
<1>9. {c.queue : c \in cs} = {c.queue : c \in consumers[k]} \cup {q}
  BY <1>5
<1>10. FirstQueues(k, n + 1) = FirstQueues(k, n) \cup {q}
  <2>1. 1 .. n + 1 = (1 .. n) \cup {n + 1}
    BY <1>2
  <2> QED BY <2>1 DEF FirstQueues
<1> QED BY <1>1, <1>2, <1>4, <1>5, <1>8, <1>9, <1>10

\* With its link there, the one connection that declares keeps all that holds of it.
LEMMA DeclaredKeeps ==
  ASSUME ConnInv, NEW k \in Conns, at[k] = "ready", k \in Consumes, ~Started(k), link[k] # None,
         NEW tag \in 1 .. 3, UNCHANGED driver,
         consumers'[k] = consumers[k] \cup {NextConsumer(k, tag)},
         queues' = queues \cup {Wanted(k)[Declared(k) + 1]},
         subs \subseteq subs', ~Kombu => <<k, Wanted(k)[Declared(k) + 1].name>> \in subs',
         link'[k] = link[k], at'[k] = at[k], todo'[k] = todo[k], consuming'[k] = consuming[k],
         num'[k] \in 1 .. Declared(k) + 2, ~Kombu => num'[k] = 1
  PROVE  GoodConn(k)' /\ queues \subseteq queues'
<1>1. GoodConn(k) /\ ConnTypes
  BY DEF ConnInv, GoodConn
<1> DEFINE cs == consumers[k] \cup {NextConsumer(k, tag)}
<1>2. /\ todo[k] = {} /\ Declared(k) \in Nat /\ Declared(k) + 1 \in 1 .. Len(Wanted(k))
      /\ cs \subseteq [queue : QueuesOf(k), tag : 1 .. 3]
      /\ IsFiniteSet(cs) /\ Cardinality(cs) = Declared(k) + 1
      /\ {c.queue : c \in cs} = FirstQueues(k, Declared(k) + 1)
  BY <1>1, NextDeclared DEF GoodConn
<1>3. AllConsumers(k)' = cs /\ Declared(k)' = Declared(k) + 1 /\ todo'[k] = {}
  BY <1>2 DEF AllConsumers, Declared
<1>4. Declared(k) + 2 = (Declared(k) + 1) + 1 /\ Declared(k) + 1 <= Len(Wanted(k))
  BY <1>2
<1>5. ConsumersInv(k)'
  <2>1. /\ QueuesOf(k)' = QueuesOf(k) /\ Wanted(k)' = Wanted(k) /\ (Kombu' <=> Kombu)
        /\ \A n : FirstQueues(k, n)' = FirstQueues(k, n)
    BY WantedStays
  <2> HIDE DEF cs
  <2> QED BY <1>2, <1>3, <1>4, <2>1 DEF ConsumersInv
<1>6. ~consuming[k]
  BY <1>1 DEF GoodConn, LinkInv
<1>7. LinkInv(k)'
  BY <1>6 DEF LinkInv
<1>8. BrokerInv(k)'
  <2>1. NextConsumer(k, tag).queue = Wanted(k)[Declared(k) + 1]
    BY DEF NextConsumer
  <2>2. \A c \in cs : Kombu => c.queue \in queues'
    BY <1>1, <1>2, <2>1 DEF GoodConn, BrokerInv
  <2>3. \A c \in cs : ~Kombu => <<k, c.queue.name>> \in subs'
    BY <1>1, <2>1 DEF GoodConn, BrokerInv
  <2> QED BY <1>3, <1>6, <2>2, <2>3, WantedStays DEF BrokerInv
<1> QED BY <1>5, <1>7, <1>8 DEF GoodConn

LEMMA TagBound ==
  ASSUME NEW d \in Nat, NEW l \in 1 .. 3, d + 1 \in 1 .. l, NEW n \in 1 .. d + 1
  PROVE  n \in 1 .. 3 /\ n + 1 \in 1 .. d + 2
OBVIOUS

LEMMA KombuDeclareKeeps ==
  ASSUME ConnInv, at \in [Conns -> Where], NEW k \in Conns, KombuDeclare(k)
  PROVE  ConnInv'
<1> DEFINE q == Wanted(k)[Declared(k) + 1]
<1>0. /\ Kombu /\ at[k] = "ready" /\ link[k] # None /\ k \in Consumes /\ ~Started(k)
      /\ consumers' = [consumers EXCEPT ![k] = @ \cup {[queue |-> q, tag |-> num[k]]}]
      /\ queues' = queues \cup {q}
      /\ num' = [num EXCEPT ![k] = @ + 1]
      /\ UNCHANGED <<driver, up, subs, link, at, todo, consuming, faults>>
      /\ UNCHANGED <<proxies, sem, pc>>
  BY DEF KombuDeclare, Usable, config, clientVars
<1>1. GoodConn(k) /\ ConnTypes
  BY DEF ConnInv, GoodConn
<1>2. num[k] \in 1 .. 3 /\ num[k] + 1 \in 1 .. Declared(k) + 2
  <2>1. Declared(k) \in Nat /\ Declared(k) + 1 \in 1 .. Len(Wanted(k)) /\ Len(Wanted(k)) \in 1 .. 3
    BY <1>0, <1>1, NextDeclared, WantedDiffer DEF GoodConn
  <2>2. num[k] \in 1 .. Declared(k) + 1
    BY <1>1 DEF GoodConn, ConsumersInv
  <2> QED BY <2>1, <2>2, TagBound
<1>3. /\ consumers'[k] = consumers[k] \cup {NextConsumer(k, num[k])}
      /\ num'[k] = num[k] + 1
  BY <1>0, <1>1 DEF ConnTypes, NextConsumer
<1>4. GoodConn(k)' /\ queues \subseteq queues'
  BY <1>0, <1>2, <1>3, DeclaredKeeps
<1>5. \A c \in Conns \ {k} : SameConn(c)
  BY <1>0, <1>1 DEF SameConn, ConnTypes
<1>6. ConnTypes' /\ SubsInv' /\ OpenInv'
  BY <1>0, <1>1, <1>4, SubsStay, OpenStays DEF ConnInv, ConnTypes, ClientUp
<1> QED BY <1>0, <1>4, <1>5, <1>6, OneConn

LEMMA KombuConsumeKeeps ==
  ASSUME ConnInv, at \in [Conns -> Where], NEW k \in Conns, KombuConsume(k)
  PROVE  ConnInv'
<1>0. /\ Kombu /\ at[k] = "ready" /\ link[k] # None /\ Started(k)
      /\ UNCHANGED <<driver, up, at, consumers, todo, num, faults>>
      /\ UNCHANGED <<proxies, sem, pc>>
  BY DEF KombuConsume, Usable, config, clientVars
<1>1. GoodConn(k) /\ ConnTypes
  BY DEF ConnInv, GoodConn
<1>2. OpenInv'
  BY <1>0, OpenStays DEF ConnInv, ClientUp
<1>3. CASE /\ Subscribe(k, {c.queue : c \in consumers[k]})
           /\ consuming' = [consuming EXCEPT ![k] = TRUE]
           /\ UNCHANGED <<link, queues, held>>
  <2> DEFINE Q == {c.queue : c \in consumers[k]}
  <2>1. todo[k] = {}
    BY <1>0, <1>1 DEF GoodConn, ConsumersInv
  <2>2. Q \in SUBSET (QueuesOf(k) \cap queues')
    <3>1. \A c \in consumers[k] : c \in [queue : QueuesOf(k), tag : 1 .. 3]
      BY <1>1 DEF GoodConn, ConsumersInv, AllConsumers
    <3>2. \A c \in consumers[k] : c.queue \in queues
      BY <1>0, <1>1, <2>1 DEF GoodConn, BrokerInv
    <3> QED BY <1>3, <3>1, <3>2
  <2>3. subs' = subs \cup {<<k, q.name>> : q \in Q}
    BY <1>3 DEF Subscribe
  <2> HIDE DEF Q
  <2>4. SubsInv'
    BY <1>0, <1>3, <2>2, <2>3, SubsGrow DEF ConnInv
  <2>5. \A c \in Conns \ {k} : SameConn(c)
    BY <1>0, <1>1, <1>3 DEF SameConn, ConnTypes
  <2>6. ConnTypes'
    BY <1>0, <1>1, <1>3 DEF ConnTypes
  <2>7. \A c \in consumers[k] : <<k, c.queue.name>> \in subs'
    BY <2>3 DEF Q
  <2>8. ConsumersInv(k)'
    BY <1>0, <1>1, ConsumersSame DEF GoodConn
  <2>9. LinkInv(k)'
    BY <1>0, <1>3, WantedStays DEF LinkInv, Started, Declared
  <2>10. BrokerInv(k)'
    <3>1. \A c \in consumers[k] : Kombu => c.queue \in queues'
      BY <1>0, <1>1, <1>3, <2>1 DEF GoodConn, BrokerInv
    <3> QED BY <1>0, <2>7, <3>1 DEF BrokerInv
  <2> QED BY <1>0, <1>2, <1>3, <2>3, <2>4, <2>5, <2>6, <2>8, <2>9, <2>10, OneConn DEF GoodConn
<1>4. CASE Detach({k}) /\ UNCHANGED consuming
  <2>1. {k} \in SUBSET Conns /\ up' \subseteq Range(Hosts) \cup {Cell} /\ faults' \in Nat
        /\ todo' = [c \in Conns |-> todo'[c]]
    BY <1>0, <1>1 DEF ConnTypes
  <2> QED BY <1>0, <1>2, <1>4, <2>1, LossKeeps
<1> QED BY <1>3, <1>4 DEF KombuConsume

LEMMA QpidTryHostKeeps ==
  ASSUME ConnInv, at \in [Conns -> Where], NEW k \in Conns, QpidTryHost(k)
  PROVE  ConnInv'
<1>0. /\ ~Kombu /\ at[k] = "connect" /\ UNCHANGED <<driver, up, queues, subs, num, consuming, faults>>
      /\ UNCHANGED <<proxies, sem, pc>>
  BY DEF QpidTryHost, config, clientVars, brokerVars
<1>1. GoodConn(k) /\ ConnTypes
  BY DEF ConnInv, GoodConn
<1>2. link[k] = None /\ todo[k] = {} /\ AllConsumers(k) = consumers[k] /\ consuming[k] = FALSE
  BY <1>0, <1>1 DEF GoodConn, LinkInv, ConsumersInv, AllConsumers, ConnTypes
<1>3. CASE /\ HostAt(k) \in up
           /\ link' = [link EXCEPT ![k] = HostAt(k)]
           /\ todo' = [todo EXCEPT ![k] = consumers[k]]
           /\ consumers' = [consumers EXCEPT ![k] = {}]
           /\ Go(k, IF consumers[k] = {} THEN "ready" ELSE "declare again")
  <2>1. PICK w \in {"ready", "declare again"} : /\ at' = [at EXCEPT ![k] = w]
                                                /\ w = "ready" => consumers[k] = {}
    BY <1>3 DEF Go
  <2>2. \A c \in Conns \ {k} : SameConn(c)
    BY <1>0, <1>1, <1>3, <2>1 DEF SameConn, ConnTypes
  <2>3. HostAt(k) \in Range(Hosts) \cup {Cell}
    BY <1>1, <1>3 DEF ConnTypes
  <2>4. ConnTypes' /\ SubsInv'
    <3>1. ConnTypes'
      BY <1>0, <1>1, <1>3, <2>3 DEF ConnTypes
    <3>2. \A c \in Conns : link[c] # None => link'[c] # None
      BY <1>1, <1>2, <1>3 DEF ConnTypes
    <3> QED BY <1>0, <1>3, <3>1, <3>2, SubsStay DEF ConnInv
  <2>5. OpenInv'
    BY <1>0, <1>3, GoStays DEF ConnInv
  <2>6. /\ at'[k] = w /\ todo'[k] = consumers[k] /\ consumers'[k] = {}
        /\ AllConsumers(k)' = AllConsumers(k) /\ consuming'[k] = FALSE
    BY <1>0, <1>1, <1>2, <1>3, <2>1 DEF AllConsumers, ConnTypes
  <2>7. ConsumersInv(k)'
    <3>1. num'[k] = 1
      BY <1>0, <1>1 DEF GoodConn, ConsumersInv
    <3>2. num'[k] \in 1 .. Declared(k)' + 1
      <4>1. Declared(k)' = 0
        BY <2>6, FS_EmptySet DEF Declared
      <4>2. 1 \in 1 .. 0 + 1
        BY OneInOnes
      <4> QED BY <3>1, <4>1, <4>2
    <3>3. w = "ready" => todo'[k] = {}
      BY <2>1, <2>6
    <3>4. /\ AllConsumers(k) \subseteq [queue : QueuesOf(k), tag : 1 .. 3]
          /\ IsFiniteSet(AllConsumers(k)) /\ Cardinality(AllConsumers(k)) <= Len(Wanted(k))
          /\ {c.queue : c \in AllConsumers(k)} = FirstQueues(k, Cardinality(AllConsumers(k)))
      BY <1>0, <1>1 DEF GoodConn, ConsumersInv
    <3>5. /\ QueuesOf(k)' = QueuesOf(k) /\ Wanted(k)' = Wanted(k) /\ ~Kombu'
          /\ \A n : FirstQueues(k, n)' = FirstQueues(k, n)
      BY <1>0, WantedStays
    <3> QED BY <2>1, <2>6, <3>1, <3>2, <3>3, <3>4, <3>5 DEF ConsumersInv
  <2>8. LinkInv(k)' /\ BrokerInv(k)'
    BY <1>0, <2>1, <2>6, WantedStays DEF LinkInv, BrokerInv
  <2> QED BY <1>0, <1>3, <2>2, <2>4, <2>5, <2>7, <2>8, OneConn DEF GoodConn
<1>4. CASE UNCHANGED <<link, todo, consumers, at>>
  <2>1. \A c \in Conns : SameConn(c)
    BY <1>0, <1>4 DEF SameConn
  <2>2. ConnTypes' /\ SubsInv' /\ OpenInv'
    BY <1>0, <1>1, <1>4, SubsStay, OpenStays DEF ConnInv, ConnTypes, ClientUp
  <2>3. GoodConn(k)'
    BY <1>0, <1>1, <2>1, SameKeeps
  <2> QED BY <1>0, <2>1, <2>2, <2>3, OneConn
<1> QED BY <1>3, <1>4 DEF QpidTryHost

LEMMA QpidDeclareAgainKeeps ==
  ASSUME ConnInv, at \in [Conns -> Where], NEW k \in Conns, QpidDeclareAgain(k)
  PROVE  ConnInv'
<1>0. /\ ~Kombu /\ at[k] = "declare again" /\ link[k] # None
      /\ UNCHANGED <<driver, up, link, num, consuming, faults>>
      /\ UNCHANGED <<proxies, sem, pc>>
  BY DEF QpidDeclareAgain, config, clientVars
<1>1. GoodConn(k) /\ ConnTypes
  BY DEF ConnInv, GoodConn
<1>2. PICK c \in todo[k] : /\ todo' = [todo EXCEPT ![k] = @ \ {c}]
                           /\ queues' = queues \cup {c.queue}
                           /\ Subscribe(k, {c.queue})
                           /\ consumers' = [consumers EXCEPT ![k] = @ \cup {c}]
                           /\ Go(k, IF todo[k] = {c} THEN "ready" ELSE at[k])
  BY DEF QpidDeclareAgain
<1>3. PICK w \in {"ready", "declare again"} : /\ at' = [at EXCEPT ![k] = w]
                                              /\ w = "ready" => todo[k] = {c}
  BY <1>0, <1>2 DEF Go
<1>4. \A d \in Conns \ {k} : SameConn(d)
  BY <1>0, <1>1, <1>2, <1>3 DEF SameConn, ConnTypes
<1>5. /\ at'[k] = w /\ todo'[k] = todo[k] \ {c} /\ consumers'[k] = consumers[k] \cup {c}
      /\ w = "ready" => todo'[k] = {}
      /\ queues \subseteq queues'
  BY <1>1, <1>2, <1>3 DEF ConnTypes
<1>6. AllConsumers(k)' = AllConsumers(k)
  BY <1>5 DEF AllConsumers
<1>7. c.queue \in QueuesOf(k) /\ subs' = subs \cup {<<k, c.queue.name>>}
  <2>1. c \in [queue : QueuesOf(k), tag : 1 .. 3]
    BY <1>1 DEF GoodConn, ConsumersInv, AllConsumers
  <2>2. {<<k, q.name>> : q \in {c.queue}} = {<<k, c.queue.name>>}
    OBVIOUS
  <2> QED BY <1>2, <2>1, <2>2 DEF Subscribe
<1>8. ConnTypes' /\ SubsInv'
  <2>1. {c.queue} \in SUBSET (QueuesOf(k) \cap queues')
        /\ subs' = subs \cup {<<k, q.name>> : q \in {c.queue}}
    BY <1>2, <1>7 DEF Subscribe
  <2>2. SubsInv'
    BY <1>0, <1>5, <2>1, SubsGrow DEF ConnInv
  <2> QED BY <1>0, <1>1, <1>2, <2>2 DEF ConnTypes
<1>9. OpenInv'
  BY <1>0, <1>3, GoStays DEF ConnInv, Go
<1>10. ConsumersInv(k)'
  <2>1. num'[k] = 1
    BY <1>0, <1>1 DEF GoodConn, ConsumersInv
  <2>2. Declared(k)' \in Nat
    <3>1. IsFiniteSet(AllConsumers(k)) /\ consumers'[k] \subseteq AllConsumers(k)
      BY <1>1, <1>5 DEF GoodConn, ConsumersInv, AllConsumers
    <3>2. IsFiniteSet(consumers'[k])
      BY <3>1, FS_Subset
    <3> QED BY <3>2, FS_CardinalityType DEF Declared
  <2>3. num'[k] \in 1 .. Declared(k)' + 1
    BY <2>1, <2>2, OneInOnes
  <2> QED BY <1>0, <1>1, <1>3, <1>5, <1>6, <2>1, <2>3, WantedStays DEF GoodConn, ConsumersInv
<1>11. LinkInv(k)'
  BY <1>0, <1>1, <1>3, <1>5, WantedStays DEF GoodConn, LinkInv
<1>12. BrokerInv(k)'
  <2>1. \A d \in consumers[k] : <<k, d.queue.name>> \in subs
    BY <1>0, <1>1 DEF GoodConn, BrokerInv
  <2>2. \A d \in consumers'[k] : <<k, d.queue.name>> \in subs'
    BY <1>5, <1>7, <2>1
  <2> QED BY <1>0, <2>2, WantedStays DEF BrokerInv
<1> QED BY <1>0, <1>4, <1>5, <1>7, <1>8, <1>9, <1>10, <1>11, <1>12, OneConn DEF GoodConn

LEMMA QpidDeclareAgainFailsKeeps ==
  ASSUME ConnInv, at \in [Conns -> Where], NEW k \in Conns, QpidDeclareAgainFails(k)
  PROVE  ConnInv'
<1>0. /\ ~Kombu /\ at[k] = "declare again" /\ link[k] = None
      /\ at' = [at EXCEPT ![k] = "dead"] /\ todo' = [todo EXCEPT ![k] = {}]
      /\ UNCHANGED <<driver, up, queues, subs, link, consumers, num, consuming, faults>>
      /\ UNCHANGED <<proxies, sem, pc>>
  BY DEF QpidDeclareAgainFails, Go, config, clientVars, brokerVars
<1>1. GoodConn(k) /\ ConnTypes
  BY DEF ConnInv, GoodConn
<1>2. \A d \in Conns \ {k} : SameConn(d)
  BY <1>0, <1>1 DEF SameConn, ConnTypes
<1>3. at'[k] = "dead" /\ todo'[k] = {}
  BY <1>0, <1>1 DEF ConnTypes
<1>4. ConnTypes' /\ SubsInv'
  BY <1>0, <1>1, SubsStay DEF ConnInv, ConnTypes
<1>5. OpenInv'
  BY <1>0, GoStays DEF ConnInv, Go
<1>6. ConsumersInv(k)'
  <2>1. AllConsumers(k)' = consumers[k] /\ consumers[k] \subseteq AllConsumers(k)
    BY <1>0, <1>3 DEF AllConsumers
  <2>2. /\ IsFiniteSet(consumers[k]) /\ Cardinality(consumers[k]) \in Nat
        /\ Cardinality(consumers[k]) <= Cardinality(AllConsumers(k))
        /\ Cardinality(AllConsumers(k)) \in Nat
    BY <1>1, <2>1, FS_Subset, FS_CardinalityType DEF GoodConn, ConsumersInv
  <2>3. Len(Wanted(k)) \in Nat
    BY WantedDiffer
  <2>4. Cardinality(AllConsumers(k)) <= Len(Wanted(k))
    BY <1>1 DEF GoodConn, ConsumersInv
  <2>5. Cardinality(consumers[k]) <= Len(Wanted(k))
    BY <2>2, <2>3, <2>4
  <2> QED BY <1>0, <1>1, <1>3, <2>1, <2>2, <2>5, WantedStays DEF GoodConn, ConsumersInv, Declared
<1>7. LinkInv(k)' /\ BrokerInv(k)'
  <2>1. ~consuming[k]
    BY <1>0, <1>1 DEF GoodConn, LinkInv
  <2> QED BY <1>0, <1>3, <2>1 DEF LinkInv, BrokerInv
<1> QED BY <1>0, <1>2, <1>4, <1>5, <1>6, <1>7, OneConn DEF GoodConn

LEMMA QpidLostKeeps ==
  ASSUME ConnInv, at \in [Conns -> Where], NEW k \in Conns, QpidLost(k)
  PROVE  ConnInv'
<1>0. /\ ~Kombu /\ at[k] = "ready" /\ link[k] = None
      /\ UNCHANGED <<driver, up, queues, subs, link, consumers, num, todo, consuming, faults>>
      /\ UNCHANGED <<proxies, sem, pc>>
      /\ Go(k, "failed") \/ Go(k, "connect")
  BY DEF QpidLost, NotUsable, config, clientVars, brokerVars
<1>1. GoodConn(k) /\ ConnTypes
  BY DEF ConnInv, GoodConn
<1>2. PICK w \in {"failed", "connect"} : at' = [at EXCEPT ![k] = w]
  BY <1>0 DEF Go
<1>3. \A d \in Conns \ {k} : SameConn(d)
  BY <1>0, <1>2 DEF SameConn
<1>4. at'[k] = w
  BY <1>2
<1>5. ConnTypes' /\ SubsInv'
  BY <1>0, <1>1, SubsStay DEF ConnInv, ConnTypes
<1>6. OpenInv'
  BY <1>0, <1>2, GoStays DEF ConnInv, Go
<1>7. ConsumersInv(k)'
  BY <1>0, <1>1, <1>4, WantedStays DEF GoodConn, ConsumersInv, AllConsumers, Declared
<1>8. LinkInv(k)' /\ BrokerInv(k)'
  <2>1. ~consuming[k]
    BY <1>0, <1>1 DEF GoodConn, LinkInv
  <2> QED BY <1>0, <2>1 DEF LinkInv, BrokerInv
<1> QED BY <1>0, <1>3, <1>5, <1>6, <1>7, <1>8, OneConn DEF GoodConn

LEMMA QpidDeclareKeeps ==
  ASSUME ConnInv, at \in [Conns -> Where], NEW k \in Conns, QpidDeclare(k)
  PROVE  ConnInv'
<1> DEFINE q == Wanted(k)[Declared(k) + 1]
<1>0. /\ ~Kombu /\ at[k] = "ready" /\ link[k] # None /\ k \in Consumes /\ ~Started(k)
      /\ consumers' = [consumers EXCEPT ![k] = @ \cup {[queue |-> q, tag |-> 1]}]
      /\ queues' = queues \cup {q}
      /\ Subscribe(k, {q})
      /\ UNCHANGED <<driver, up, link, at, todo, num, consuming, faults>>
      /\ UNCHANGED <<proxies, sem, pc>>
  BY DEF QpidDeclare, Usable, config, clientVars
<1>1. GoodConn(k) /\ ConnTypes
  BY DEF ConnInv, GoodConn
<1>2. Declared(k) \in Nat /\ Declared(k) + 1 \in 1 .. Len(Wanted(k)) /\ num[k] = 1
  <2>1. 1 \in 1 .. 3
    OBVIOUS
  <2>2. Declared(k) \in Nat /\ Declared(k) + 1 \in 1 .. Len(Wanted(k))
    BY <1>0, <1>1, <2>1, NextDeclared DEF GoodConn
  <2> QED BY <1>0, <1>1, <2>2 DEF GoodConn, ConsumersInv
<1>3. consumers'[k] = consumers[k] \cup {NextConsumer(k, 1)} /\ num'[k] \in 1 .. Declared(k) + 2
  BY <1>0, <1>1, <1>2 DEF ConnTypes, NextConsumer
<1>4. subs' = subs \cup {<<k, p.name>> : p \in {q}} /\ subs \subseteq subs' /\ <<k, q.name>> \in subs'
  BY <1>0 DEF Subscribe
<1>5. 1 \in 1 .. 3 /\ num'[k] = 1
  BY <1>0, <1>2
<1>6. GoodConn(k)' /\ queues \subseteq queues'
  BY <1>0, <1>3, <1>4, <1>5, DeclaredKeeps
<1>7. \A c \in Conns \ {k} : SameConn(c)
  BY <1>0, <1>1 DEF SameConn, ConnTypes
<1>8. SubsInv'
  <2>1. {q} \in SUBSET (QueuesOf(k) \cap queues')
    BY <1>0, <1>2 DEF QueuesOf, FirstQueues
  <2> QED BY <1>0, <1>4, <1>6, <2>1, SubsGrow DEF ConnInv
<1>9. ConnTypes' /\ OpenInv'
  BY <1>0, <1>1, OpenStays DEF ConnInv, ConnTypes, ClientUp
<1> QED BY <1>0, <1>4, <1>6, <1>7, <1>8, <1>9, OneConn

LEMMA ConnStepKeeps ==
  ASSUME ConnInv, at \in [Conns -> Where], NEW k \in Conns, ConnStep(k)
  PROVE  ConnInv'
BY KombuTryHostKeeps, KombuDeclareAgainKeeps, KombuDeclareAgainFailsKeeps, KombuLostKeeps,
   KombuDeclareKeeps, KombuConsumeKeeps, QpidTryHostKeeps, QpidDeclareAgainKeeps,
   QpidDeclareAgainFailsKeeps, QpidLostKeeps, QpidDeclareKeeps DEF ConnStep
-----------------------------------------------------------------------------
\* A step that leaves every connection alone and takes nothing from the broker.
LEMMA NoConn ==
  ASSUME ConnInv, UNCHANGED <<driver, subs, link, at, consumers, todo, num, consuming>>,
         queues \subseteq queues', up' \subseteq Range(Hosts) \cup {Cell}, faults' \in Nat, OpenInv'
  PROVE  ConnInv'
<1>1. \A c \in Conns : GoodConn(c) /\ SameConn(c)
  BY DEF ConnInv, GoodConn, SameConn
<1>2. \A c \in Conns : GoodConn(c)'
  BY <1>1, SameKeeps
<1>3. ConnTypes' /\ SubsInv'
  BY SubsStay DEF ConnInv, ConnTypes
<1> QED BY <1>2, <1>3 DEF ConnInv, GoodConn

\* A connection is opened for the first time.
LEMMA OpenedKeeps ==
  ASSUME ConnInv, at \in [Conns -> Where], NEW k \in Conns, at[k] = "none", Open(k),
         UNCHANGED <<driver, up, queues, subs, link, consumers, todo, num, consuming, faults>>, OpenInv'
  PROVE  ConnInv'
<1>1. GoodConn(k) /\ ConnTypes
  BY DEF ConnInv, GoodConn
<1>2. at' = [at EXCEPT ![k] = "connect"]
  BY DEF Open, Go
<1>3. at'[k] = "connect" /\ link'[k] = None /\ ~consuming'[k]
  BY <1>1, <1>2 DEF GoodConn, LinkInv
<1>4. \A c \in Conns \ {k} : SameConn(c)
  BY <1>2 DEF SameConn
<1>5. ConsumersInv(k)'
  BY <1>1, <1>3, WantedStays DEF GoodConn, ConsumersInv, AllConsumers, Declared
<1>6. LinkInv(k)' /\ BrokerInv(k)'
  BY <1>3 DEF LinkInv, BrokerInv
<1>7. ConnTypes' /\ SubsInv'
  BY <1>1, SubsStay DEF ConnInv, ConnTypes
<1> QED BY <1>4, <1>5, <1>6, <1>7, OneConn DEF GoodConn

\* What OpenInv needs of a thread's step.
Early == {"idle", "proxy", "make proxy", "get"}

LEMMA ThreadKeepsOpen ==
  ASSUME OpenInv, ClientUp, NEW t \in Threads, NEW w, pc \in [Threads -> Pcs],
         pc' = [pc EXCEPT ![t] = w], \A u \in Threads \ {t} : at'[u] = at[u],
         w \in Early => pc[t] \in Early /\ at'[t] = at[t],
         proxies' = 0 /\ sem' = None => proxies = 0 /\ sem = None /\ at'[Reply] = at[Reply]
  PROVE  OpenInv'
<1>1. \A u \in Threads : pc[u] \in Early => at[u] = "none"
  BY DEF OpenInv, Early
<1>2. \A u \in Threads : pc'[u] \in Early => at'[u] = "none"
  BY <1>1
<1>3. proxies' = 0 /\ sem' = None => at'[Reply] = "none"
  BY DEF OpenInv
<1> QED BY <1>2, <1>3 DEF OpenInv, Early

LEMMA ThreadStepKeeps ==
  ASSUME ConnInv, ClientInv, NEW t \in Threads, ThreadStep(t)
  PROVE  ConnInv'
<1>0. /\ OpenInv /\ ConnTypes /\ up \subseteq Range(Hosts) \cup {Cell} /\ faults \in Nat
      /\ at \in [Conns -> Where] /\ pc \in [Threads -> Pcs] /\ proxies \in Nat
      /\ mine \in [Threads -> PoolConns \cup Threads \cup {None}]
  BY DEF ConnInv, ConnTypes, ClientInv, ClientTypes
<1>1. CASE EnterProxy(t)
  <2>0. /\ ClientUp /\ pc[t] = "proxy" /\ sem = None /\ proxies' = proxies
        /\ UNCHANGED <<driver, up, queues, subs, link, consumers, todo, num, consuming, faults>>
    BY <1>1 DEF EnterProxy, config, brokerVars
  <2>1. CASE proxies > 0 /\ PcTo(t, "get") /\ NotOpened /\ UNCHANGED sem
    <3>1. OpenInv'
      <4>1. pc' = [pc EXCEPT ![t] = "get"] /\ at' = at /\ proxies' # 0 /\ "get" \in Early /\ pc[t] \in Early
        BY <1>0, <2>0, <2>1 DEF PcTo, NotOpened, Early
      <4> QED BY <1>0, <2>0, <4>1, ThreadKeepsOpen
    <3> QED BY <1>0, <2>0, <2>1, <3>1, NoConn DEF NotOpened
  <2>2. CASE proxies = 0 /\ sem' = t /\ PcTo(t, "make proxy") /\ Open(Reply)
    <3>1. at[Reply] = "none"
      BY <1>0, <2>0, <2>2 DEF OpenInv
    <3>2. OpenInv'
      <4>1. /\ pc' = [pc EXCEPT ![t] = "make proxy"] /\ \A u \in Threads : at'[u] = at[u]
            /\ sem' # None /\ "make proxy" \in Early /\ pc[t] \in Early
        BY <1>0, <2>0, <2>2, ConnFacts, ThreadFacts DEF PcTo, Open, Go, Early
      <4> QED BY <1>0, <2>0, <4>1, ThreadKeepsOpen
    <3> QED BY <1>0, <2>0, <2>2, <3>1, <3>2, ConnFacts, OpenedKeeps
  <2> QED BY <1>1, <2>1, <2>2 DEF EnterProxy
<1>2. CASE MadeProxy(t)
  <2>1. /\ ClientUp /\ pc[t] = "make proxy" /\ proxies' # 0 /\ pc' = [pc EXCEPT ![t] = "get"]
        /\ UNCHANGED <<driver, up, queues, subs, connVars, faults>>
    <3>1. proxies' = proxies + 1
      BY <1>2 DEF MadeProxy
    <3>2. \A n \in Nat : n + 1 # 0
      OBVIOUS
    <3>3. proxies' # 0
      BY <1>0, <3>1, <3>2
    <3> QED BY <1>2, <3>3 DEF MadeProxy, PcTo, config, brokerVars
  <2>2. OpenInv'
    <3>1. "get" \in Early /\ pc[t] \in Early /\ at' = at
      BY <2>1 DEF Early, connVars
    <3> QED BY <1>0, <2>1, <3>1, ThreadKeepsOpen
  <2> QED BY <1>0, <2>1, <2>2, NoConn DEF connVars
<1>3. CASE GetIdle(t) \/ Publish(t) \/ PutBack(t) \/ Finalize(t)
  <2>1. PICK w \in Pcs \ Early : pc' = [pc EXCEPT ![t] = w]
    BY <1>3 DEF GetIdle, Publish, PutBack, Finalize, PcTo, Pcs, Early
  <2>2. /\ ClientUp /\ UNCHANGED <<driver, up, subs, connVars, proxies, sem, faults>>
        /\ queues \subseteq queues'
    BY <1>3 DEF GetIdle, Publish, PutBack, Finalize, config, brokerVars
  <2>3. at' = at /\ w \notin Early
    BY <2>2 DEF connVars
  <2>4. OpenInv'
    BY <1>0, <2>1, <2>2, <2>3, ThreadKeepsOpen
  <2> QED BY <1>0, <2>2, <2>4, NoConn DEF connVars
<1>4. CASE Create(t)
  <2>0. /\ ClientUp /\ UNCHANGED <<driver, up, queues, subs, link, consumers, todo, num, consuming,
                                   proxies, sem, faults>>
        /\ pc' = [pc EXCEPT ![t] = "send"]
    BY <1>4 DEF Create, PcTo, config, brokerVars
  <2>1. PICK k \in PoolConns : at[k] = "none" /\ Open(k)
    BY <1>4 DEF Create
  <2>2. k \in Conns /\ k # Reply /\ k \notin Threads
    BY ConnFacts, BusAssumption
  <2>3. (\A u \in Threads : at'[u] = at[u]) /\ at'[Reply] = at[Reply]
    BY <1>0, <2>1, <2>2, ConnFacts DEF Open, Go
  <2>4. "send" \notin Early
    BY DEF Early
  <2>5. OpenInv'
    BY <1>0, <2>0, <2>3, <2>4, ThreadKeepsOpen
  <2> QED BY <1>0, <2>0, <2>1, <2>2, <2>5, OpenedKeeps
<1>5. CASE CreateOwn(t)
  <2>0. /\ ClientUp /\ UNCHANGED <<driver, up, queues, subs, link, consumers, todo, num, consuming,
                                   proxies, sem, faults>>
        /\ pc[t] = "get" /\ pc' = [pc EXCEPT ![t] = "send"] /\ Open(t)
    BY <1>5 DEF CreateOwn, PcTo, config, brokerVars
  <2>1. at[t] = "none" /\ t \in Conns /\ t # Reply
    BY <1>0, <2>0, ConnFacts DEF OpenInv
  <2>2. (\A u \in Threads \ {t} : at'[u] = at[u]) /\ at'[Reply] = at[Reply]
    BY <1>0, <2>0, <2>1, ConnFacts DEF Open, Go
  <2>3. "send" \notin Early
    BY DEF Early
  <2>4. OpenInv'
    BY <1>0, <2>0, <2>2, <2>3, ThreadKeepsOpen
  <2> QED BY <1>0, <2>0, <2>1, <2>4, OpenedKeeps
<1>6. CASE CloseOwn(t)
  <2>0. /\ ClientUp /\ UNCHANGED <<driver, up, consumers, todo, num, consuming, proxies, sem, faults>>
        /\ pc' = [pc EXCEPT ![t] = "sent"] /\ at' = [at EXCEPT ![t] = "closed"] /\ Detach({t})
    BY <1>6 DEF CloseOwn, PcTo, Go, config
  <2>1. t \in Conns /\ t # Reply /\ "sent" \notin Early
    BY ConnFacts DEF Early
  <2>2. (\A c \in Conns \ {t} : at'[c] = at[c]) /\ at'[t] = "closed"
    BY <1>0, <2>0, <2>1
  <2>3. OpenInv'
    BY <1>0, <2>0, <2>1, <2>2, ConnFacts, ThreadKeepsOpen
  <2>4. {t} \in SUBSET Conns /\ todo' = [c \in Conns |-> todo'[c]]
    BY <1>0, <2>0, <2>1 DEF ConnTypes
  <2> QED BY <1>0, <2>0, <2>2, <2>3, <2>4, LossKeeps
<1> QED BY <1>1, <1>2, <1>3, <1>4, <1>5, <1>6 DEF ThreadStep

LEMMA FailureKeeps ==
  ASSUME ConnInv, at \in [Conns -> Where], Failure
  PROVE  ConnInv'
<1>0. /\ OpenInv /\ up \subseteq Range(Hosts) \cup {Cell} /\ faults \in Nat
      /\ todo = [c \in Conns |-> todo[c]]
  BY DEF ConnInv, ConnTypes
<1>1. ASSUME NEW kind, Fault(kind) PROVE faults' \in Nat
  BY <1>0, <1>1 DEF Fault
<1>2. ASSUME NEW h \in up, HostDown(h) PROVE ConnInv'
  <2> DEFINE K == {k \in Conns : link[k] = h}
  <2>1. /\ Detach(K) /\ K \in SUBSET Conns /\ up' \subseteq up
        /\ UNCHANGED <<driver, at, consumers, todo, num, consuming, proxies, sem, pc>>
    BY <1>2 DEF HostDown, config, clientVars
  <2>2. OpenInv'
    BY <1>0, <2>1, OpenStays DEF ClientUp
  <2> HIDE DEF K
  <2>3. faults' \in Nat
    BY <1>1, <1>2 DEF HostDown
  <2> QED BY <1>0, <2>1, <2>2, <2>3, LossKeeps
<1>3. ASSUME NEW k \in Conns, LinkLost(k) PROVE ConnInv'
  <2>1. /\ Detach({k}) /\ {k} \in SUBSET Conns
        /\ UNCHANGED <<driver, up, at, consumers, todo, num, consuming, proxies, sem, pc>>
    BY <1>3 DEF LinkLost, config, clientVars
  <2>2. OpenInv'
    BY <1>0, <2>1, OpenStays DEF ClientUp
  <2>3. faults' \in Nat
    BY <1>1, <1>3 DEF LinkLost
  <2> QED BY <1>0, <2>1, <2>2, <2>3, LossKeeps
<1>4. ASSUME NEW e \in Engines, Close(e) PROVE ConnInv'
  <2>1. /\ Detach({e}) /\ {e} \in SUBSET Conns /\ at' = [at EXCEPT ![e] = "closed"]
        /\ UNCHANGED <<driver, up, consumers, todo, num, consuming, proxies, sem, pc>>
    BY <1>4, ConnFacts DEF Close, Go, config, clientVars
  <2>2. (\A c \in Conns \ {e} : at'[c] = at[c]) /\ at'[e] = "closed"
    BY <2>1
  <2>3. OpenInv'
    BY <1>0, <2>1, <2>2, ConnFacts, OpenStays DEF ClientUp
  <2>4. faults' \in Nat
    BY <1>1, <1>4 DEF Close
  <2> QED BY <1>0, <2>1, <2>2, <2>3, <2>4, LossKeeps
<1> QED BY <1>2, <1>3, <1>4 DEF Failure

LEMMA InitConn == Init => ConnInv
<1> SUFFICES ASSUME Init PROVE ConnInv
  OBVIOUS
<1>1. PICK s \in Settings : /\ faults = s.faults
                            /\ at = [k \in Conns |-> IF k \in s.engines THEN "connect" ELSE "none"]
  BY DEF Init
<1>2. /\ up = Range(Hosts) \cup {Cell} /\ queues = {} /\ subs = {}
      /\ link = [k \in Conns |-> None] /\ consumers = [k \in Conns |-> {}]
      /\ todo = [k \in Conns |-> {}] /\ num = [k \in Conns |-> 1]
      /\ consuming = [k \in Conns |-> FALSE] /\ sem = None
  BY DEF Init
<1>3. faults \in Nat /\ s.engines \subseteq Engines
  <2>1. s \in [driver : {"kombu", "qpid"}, retries : Nat, engines : SUBSET Engines,
               op : [Threads -> Ops], faults : Nat]
    BY BusAssumption
  <2> QED BY <1>1, <2>1
<1>4. ConnTypes /\ SubsInv
  BY <1>2, <1>3 DEF ConnTypes, SubsInv
<1>5. OpenInv
  BY <1>1, <1>3, ConnFacts DEF OpenInv
<1>6. ASSUME NEW k \in Conns PROVE GoodConn(k)
  <2>1. AllConsumers(k) = {} /\ consumers[k] = {} /\ todo[k] = {} /\ link[k] = None
        /\ num[k] = 1 /\ consuming[k] = FALSE
    BY <1>2 DEF AllConsumers
  <2>2. IsFiniteSet({}) /\ Cardinality({}) = 0
    BY FS_EmptySet
  <2>3. Declared(k) = 0 /\ Cardinality(AllConsumers(k)) = 0 /\ Len(Wanted(k)) \in 1 .. 3
    BY <2>1, <2>2, WantedDiffer DEF Declared
  <2>4. {c.queue : c \in {}} = FirstQueues(k, 0)
    BY DEF FirstQueues
  <2>5. 1 \in 1 .. 0 + 1 /\ 0 <= Len(Wanted(k))
    BY <2>3, OneInOnes
  <2>6. ConsumersInv(k)
    BY <2>1, <2>2, <2>3, <2>4, <2>5 DEF ConsumersInv
  <2>7. LinkInv(k) /\ BrokerInv(k)
    BY <2>1 DEF LinkInv, BrokerInv
  <2> QED BY <2>6, <2>7 DEF GoodConn
<1> QED BY <1>4, <1>5, <1>6 DEF ConnInv, GoodConn

LEMMA NextConn == ConnInv /\ ClientInv /\ [Next]_vars => ConnInv'
<1> SUFFICES ASSUME ConnInv, ClientInv, [Next]_vars PROVE ConnInv'
  OBVIOUS
<1>0. /\ at \in [Conns -> Where] /\ OpenInv
      /\ up \subseteq Range(Hosts) \cup {Cell} /\ faults \in Nat
  BY DEF ConnInv, ConnTypes, ClientInv, ClientTypes
<1>1. ASSUME NEW k \in Conns, ConnStep(k) PROVE ConnInv'
  BY <1>0, <1>1, ConnStepKeeps
<1>2. ASSUME NEW t \in Threads, ThreadStep(t) PROVE ConnInv'
  BY <1>2, ThreadStepKeeps
<1>3. CASE Failure
  BY <1>0, <1>3, FailureKeeps
<1>4. ASSUME \/ \E e \in Engines : Deliver(e)
             \/ \E h \in Range(Hosts) : HostUp(h)
             \/ UNCHANGED vars
      PROVE  ConnInv'
  <2>1. /\ UNCHANGED <<driver, queues, subs, connVars, proxies, sem, pc, faults>>
        /\ up' \subseteq Range(Hosts) \cup {Cell}
    BY <1>0, <1>4 DEF Deliver, HostUp, vars, config, brokerVars, clientVars
  <2>2. OpenInv'
    BY <1>0, <2>1, OpenStays DEF ClientUp, connVars
  <2> QED BY <1>0, <2>1, <2>2, NoConn DEF connVars
<1> QED BY <1>1, <1>2, <1>3, <1>4 DEF Next

LEMMA ConnInvariant == Spec => [](ConnInv /\ ClientInv)
<1>1. ClientInv /\ LeaksAreTold => ClientInv
  OBVIOUS
<1> QED BY <1>1, InitConn, NextConn, ClientInvariant, PTL DEF Spec

\* Every variable keeps its type, for any number of engines, threads and hosts:
\* no connection declares more than its queues, a tag is never beyond the third,
\* only a connection with a link is subscribed, and only to queues that exist.
THEOREM BusTypeCorrect == Spec => []TypeOK
<1>1. ConnInv /\ ClientInv => TypeOK
  <2> SUFFICES ASSUME ConnInv, ClientInv PROVE TypeOK
    OBVIOUS
  <2>1. /\ up \subseteq Range(Hosts) \cup {Cell}
        /\ link \in [Conns -> Range(Hosts) \cup {Cell, None}]
        /\ at \in [Conns -> Where] /\ faults \in Nat
        /\ mine \in [Threads -> PoolConns \cup Threads \cup {None}]
        /\ Range(idle) \subseteq PoolConns
    BY ThreadFacts DEF ConnInv, ConnTypes, ClientInv, ClientTypes
  <2>2. ASSUME NEW k \in Conns
        PROVE  /\ at[k] \in {"none", "connect", "closed", "exited"} => link[k] = None
               /\ Declared(k) <= Len(Wanted(k))
               /\ todo[k] \subseteq [queue : {Wanted(k)[i] : i \in 1 .. Len(Wanted(k))}, tag : 1 .. 3]
    <3>1. ConsumersInv(k) /\ LinkInv(k)
      BY DEF ConnInv
    <3>2. /\ Cardinality(consumers[k]) <= Cardinality(AllConsumers(k))
          /\ Cardinality(consumers[k]) \in Nat /\ Cardinality(AllConsumers(k)) \in Nat
      <4>1. IsFiniteSet(AllConsumers(k)) /\ consumers[k] \subseteq AllConsumers(k)
        BY <3>1 DEF ConsumersInv, AllConsumers
      <4> QED BY <4>1, FS_Subset, FS_CardinalityType
    <3>3. Cardinality(AllConsumers(k)) <= Len(Wanted(k)) /\ Len(Wanted(k)) \in Nat
      <4>1. Len(Wanted(k)) \in Nat
        BY WantedDiffer
      <4> QED BY <3>1, <4>1 DEF ConsumersInv
    <3>4. Declared(k) <= Len(Wanted(k))
      BY <3>2, <3>3 DEF Declared
    <3>5. todo[k] \subseteq [queue : {Wanted(k)[i] : i \in 1 .. Len(Wanted(k))}, tag : 1 .. 3]
      BY <3>1 DEF ConsumersInv, AllConsumers, QueuesOf, FirstQueues
    <3> QED BY <3>1, <3>4, <3>5 DEF LinkInv
  <2>3. \A s \in subs : link[s[1]] # None /\ \E q \in queues : q.name = s[2]
    BY DEF ConnInv, SubsInv
  <2> QED BY <2>1, <2>2, <2>3 DEF TypeOK
<1> QED BY <1>1, ConnInvariant, PTL

\* Whoever waits for messages has all its queues declared, so all are subscribed.
LEMMA ServesOfConn == ConnInv => ServesAllItsQueues
<1> SUFFICES ASSUME ConnInv, NEW k \in Consumes, Serving(k), NEW i \in 1 .. Len(Wanted(k))
             PROVE  <<k, Wanted(k)[i].name>> \in subs
  BY DEF ServesAllItsQueues
<1>1. k \in Conns
  BY ConnFacts DEF Consumes
<1>2. at[k] = "ready" /\ link[k] # None /\ Started(k) /\ (Kombu => consuming[k])
  BY DEF Serving, Usable
<1>3. ConsumersInv(k) /\ BrokerInv(k)
  BY <1>1 DEF ConnInv
<1>4. {c.queue : c \in consumers[k]} = FirstQueues(k, Len(Wanted(k)))
  <2>1. AllConsumers(k) = consumers[k] /\ Cardinality(consumers[k]) = Len(Wanted(k))
    BY <1>2, <1>3 DEF ConsumersInv, AllConsumers, Started, Declared
  <2> QED BY <1>2, <1>3, <2>1 DEF ConsumersInv
<1>5. PICK c \in consumers[k] : c.queue = Wanted(k)[i]
  BY <1>4 DEF FirstQueues
<1>6. <<k, c.queue.name>> \in subs
  BY <1>2, <1>3 DEF BrokerInv
<1> QED BY <1>5, <1>6

\* However often its link is lost while it declares, reconnects and declares
\* again, an engine whose thread waits for messages is subscribed to every one of
\* its queues on its present link (impl_kombu.py:501-502, 636-644;
\* impl_qpid.py:410-416).
THEOREM ServesAll == Spec => []ServesAllItsQueues
BY ServesOfConn, ConnInvariant, PTL
-----------------------------------------------------------------------------
\* The threads that have sent their message.
Later == {"put back", "finalize", "sent", "raised"}

\* A queue that a consumer may have declared.
Known(q) == q = KombuNotifyQueue(Notifications) \/ \E k \in Conns : q \in QueuesOf(k)

\* A step that sends nothing: no message comes, only known queues do, and who
\* has sent has sent.
LEMMA RoutesStay ==
  ASSUME RouteInv, held' \subseteq held, UNCHANGED driver,
         \A q \in queues' : q \in queues \/ Known(q),
         \A t \in Threads : pc[t] \in Later => pc'[t] \in Later
  PROVE  RouteInv'
<1>1. \A q \in queues' : Known(q)
  BY DEF RouteInv, Known
<1>2. \A q : Known(q)' <=> Known(q)
  BY WantedStays DEF Known
<1> QED BY <1>1, <1>2 DEF RouteInv, Known, Later

LEMMA ConnStepRoutes ==
  ASSUME ConnInv, RouteInv, NEW k \in Conns, ConnStep(k)
  PROVE  RouteInv'
<1>1. UNCHANGED <<driver, pc>>
  BY DEF ConnStep, KombuTryHost, KombuDeclareAgain, KombuDeclareAgainFails, KombuLost,
         KombuDeclare, KombuConsume, QpidTryHost, QpidDeclareAgain, QpidDeclareAgainFails,
         QpidLost, QpidDeclare, config, clientVars
<1>2. ASSUME NEW c \in todo[k] PROVE Known(c.queue)
  BY DEF ConnInv, ConsumersInv, AllConsumers, Known
<1>3. ASSUME at[k] = "ready", k \in Consumes, ~Started(k) PROVE Known(Wanted(k)[Declared(k) + 1])
  <2>1. 1 \in 1 .. 3 /\ ConsumersInv(k)
    BY DEF ConnInv
  <2>2. Declared(k) + 1 \in 1 .. Len(Wanted(k))
    BY <1>3, <2>1, NextDeclared
  <2> QED BY <2>2 DEF Known, QueuesOf, FirstQueues
<1>4. held' \subseteq held /\ \A q \in queues' : q \in queues \/ Known(q)
  <2>1. CASE KombuTryHost(k)
    BY <2>1 DEF KombuTryHost, KombuFailedAttempt, Detach
  <2>2. CASE KombuDeclareAgain(k)
    BY <1>2, <2>2 DEF KombuDeclareAgain
  <2>3. CASE KombuDeclareAgainFails(k)
    BY <2>3 DEF KombuDeclareAgainFails, KombuFailedAttempt, Detach
  <2>4. CASE KombuLost(k) \/ QpidLost(k) \/ QpidTryHost(k) \/ QpidDeclareAgainFails(k)
    BY <2>4 DEF KombuLost, QpidLost, QpidTryHost, QpidDeclareAgainFails, brokerVars
  <2>5. CASE KombuDeclare(k)
    BY <1>3, <2>5 DEF KombuDeclare, Usable
  <2>6. CASE KombuConsume(k)
    BY <2>6 DEF KombuConsume, Detach
  <2>7. CASE QpidDeclareAgain(k)
    BY <1>2, <2>7 DEF QpidDeclareAgain
  <2>8. CASE QpidDeclare(k)
    BY <1>3, <2>8 DEF QpidDeclare, Usable
  <2> QED BY <2>1, <2>2, <2>3, <2>4, <2>5, <2>6, <2>7, <2>8 DEF ConnStep
<1> QED BY <1>1, <1>4, RoutesStay

\* A thread's step that is not the sending.
LEMMA ThreadRoutes ==
  ASSUME RouteInv, pc \in [Threads -> Pcs], NEW t \in Threads, ThreadStep(t), ~Publish(t)
  PROVE  RouteInv' /\ pc[t] # "send" /\ \A u \in Threads \ {t} : pc'[u] = pc[u]
<1>1. /\ UNCHANGED driver /\ held' \subseteq held /\ queues' \subseteq queues
      /\ \E w \in Pcs : /\ pc' = [pc EXCEPT ![t] = w] /\ pc[t] # "send"
                        /\ pc[t] \in Later => w \in Later
  <2> USE DEF PcTo, Pcs, Later, config, brokerVars
  <2>1. CASE EnterProxy(t)
    BY <2>1 DEF EnterProxy
  <2>2. CASE MadeProxy(t)
    BY <2>2 DEF MadeProxy
  <2>3. CASE GetIdle(t)
    BY <2>3 DEF GetIdle
  <2>4. CASE Create(t)
    BY <2>4 DEF Create
  <2>5. CASE CreateOwn(t)
    BY <2>5 DEF CreateOwn
  <2>6. CASE PutBack(t)
    BY <2>6 DEF PutBack
  <2>7. CASE Finalize(t)
    BY <2>7 DEF Finalize
  <2>8. CASE CloseOwn(t)
    BY <2>8 DEF CloseOwn, Detach
  <2> QED BY <2>1, <2>2, <2>3, <2>4, <2>5, <2>6, <2>7, <2>8 DEF ThreadStep
<1>2. \A u \in Threads : pc[u] \in Later => pc'[u] \in Later
  BY <1>1
<1> QED BY <1>1, <1>2, RoutesStay

\* The message of a thread is in those queues that its publisher reaches.
Reached(t) == IF op[t] = "server" THEN {}
              ELSE {q.name : q \in {p \in queues' : Reaches(PublisherOf(t), p)}}

LEMMA PublishRoutes ==
  ASSUME RouteInv, pc \in [Threads -> Pcs], NEW t \in Threads, Publish(t)
  PROVE  /\ RouteInv'
         /\ {h[1] : h \in {h \in held' : h[2] = t}} = Reached(t)
         /\ \A u \in Threads \ {t} : pc'[u] = pc[u]
<1>1. /\ held' = held \cup (Reached(t) \X {t}) /\ pc[t] = "send" /\ UNCHANGED driver
      /\ pc' = [pc EXCEPT ![t] = "put back"]
      /\ \A q \in queues' : q \in queues \/ q = KombuNotifyQueue(Notifications)
  BY DEF Publish, Reached, PcTo, config
<1>2. \A h \in held : h[2] \in Threads /\ pc[h[2]] \in Later
  BY DEF RouteInv, Later
<1>3. {h \in held' : h[2] = t} = Reached(t) \X {t}
  BY <1>1, <1>2 DEF Later
<1>4. {h[1] : h \in Reached(t) \X {t}} = Reached(t)
  <2>1. \A r \in Reached(t) : <<r, t>> \in Reached(t) \X {t} /\ <<r, t>>[1] = r
    OBVIOUS
  <2>2. \A h \in Reached(t) \X {t} : h[1] \in Reached(t)
    OBVIOUS
  <2> HIDE DEF Reached
  <2> QED BY <2>1, <2>2
<1>5. \A h \in held' : h[2] \in Threads /\ pc'[h[2]] \in Later
  <2>1. \A u \in Threads : pc[u] \in Later \/ u = t => pc'[u] \in Later
    BY <1>1 DEF Later
  <2> QED BY <1>1, <1>2, <2>1
<1>6. \A q \in queues' : Known(q)
  BY <1>1 DEF RouteInv, Known
<1>7. \A q : Known(q)' <=> Known(q)
  BY <1>1, WantedStays DEF Known
<1>8. RouteInv'
  BY <1>5, <1>6, <1>7 DEF RouteInv, Known, Later
<1> QED BY <1>1, <1>3, <1>4, <1>8
-----------------------------------------------------------------------------
\* Names of one, two and three parts are not each other's.
LEMMA KeysDiffer ==
  ASSUME NEW k \in Conns
  PROVE  /\ Topic # NoKey /\ Topic \o <<k>> # NoKey /\ Topic \o <<k>> # Topic
         /\ Topic # Notifications /\ Topic \o <<k>> # Notifications
         /\ ControlExchange # <<"reply">> /\ FanoutExchange(Topic) # ControlExchange
         /\ FanoutExchange(Topic) # <<"reply">>
<1>1. /\ Len(Topic) = 1 /\ Topic[1] = "engine" /\ Len(Topic \o <<k>>) = 2
  BY NameShapes
<1>2. Len(NoKey) = 0 /\ Len(Notifications) = 1 /\ Notifications[1] = "notifications"
  BY DEF NoKey, Notifications
<1>3. /\ Len(ControlExchange) = 1 /\ ControlExchange[1] = "control"
      /\ Len(<<"reply">>) = 1 /\ <<"reply">>[1] = "reply"
  BY DEF ControlExchange
<1>4. Len(FanoutExchange(Topic)) = 2
  BY DEF FanoutExchange, Topic
<1>5. "engine" # "notifications" /\ "control" # "reply"
  OBVIOUS
<1> QED BY <1>1, <1>2, <1>3, <1>4, <1>5

\* What the queues of a connection are bound to.
LEMMA BoundTo ==
  ASSUME NEW k \in Conns, NEW q \in QueuesOf(k)
  PROVE  \/ k = Reply /\ q.exchange = <<"reply">> /\ q.name = <<"reply">>
         \/ q.exchange = ControlExchange /\ q.key = Topic /\ q.name = Topic
         \/ q.exchange = ControlExchange /\ q.key = Topic \o <<k>> /\ q.name = Topic \o <<k>>
         \/ q.exchange = FanoutExchange(Topic) /\ q.name = FanoutExchange(Topic) \o <<k>>
<1>1. PICK i \in 1 .. Len(Wanted(k)) : q = Wanted(k)[i]
  BY DEF QueuesOf, FirstQueues
<1>2. CASE k = Reply
  <2>1. Wanted(k) = <<DirectConsumer(<<"reply">>)>>
    BY <1>2 DEF Wanted
  <2>2. q = DirectConsumer(<<"reply">>)
    BY <1>1, <2>1
  <2> QED BY <1>2, <2>2 DEF DirectConsumer, KombuDirectConsumer, QpidDirectConsumer, Queue
<1>3. CASE k # Reply
  <2>1. Wanted(k) = <<TopicConsumer(Topic), TopicConsumer(Topic \o <<k>>), FanoutConsumer(Topic, k)>>
    BY <1>3 DEF Wanted
  <2>2. \/ q = TopicConsumer(Topic) \/ q = TopicConsumer(Topic \o <<k>>)
        \/ q = FanoutConsumer(Topic, k)
    <3> HIDE DEF TopicConsumer, FanoutConsumer
    <3> QED BY <1>1, <2>1
  <2>3. \A n : TopicConsumer(n).name = n /\ TopicConsumer(n).key = n
               /\ TopicConsumer(n).exchange = ControlExchange
    BY DEF TopicConsumer, KombuTopicConsumer, QpidTopicConsumer, Queue
  <2>4. /\ FanoutConsumer(Topic, k).name = FanoutExchange(Topic) \o <<k>>
        /\ FanoutConsumer(Topic, k).exchange = FanoutExchange(Topic)
    BY DEF FanoutConsumer, KombuFanoutConsumer, QpidFanoutConsumer, Queue
  <2> QED BY <2>2, <2>3, <2>4
<1> QED BY <1>2, <1>3

\* A queue of one engine's alone is consumed from by that engine only.
LEMMA ReadByOne ==
  ASSUME ConnInv, NEW k \in Conns, NEW s \in subs,
         s[2] = Topic \o <<k>> \/ s[2] = FanoutExchange(Topic) \o <<k>>
  PROVE  s[1] = k
<1>1. PICK q \in QueuesOf(s[1]) : q.name = s[2]
  BY DEF ConnInv, SubsInv
<1>2. s[1] \in Conns
  BY DEF ConnInv, SubsInv
<1> DEFINE j == s[1]
<1>3. \/ q.name = <<"reply">> \/ q.name = Topic \/ q.name = Topic \o <<j>>
      \/ q.name = FanoutExchange(Topic) \o <<j>>
  BY <1>1, <1>2, BoundTo
<1>4. /\ Len(<<"reply">>) = 1 /\ Len(Topic) = 1
      /\ Len(Topic \o <<j>>) = 2 /\ (Topic \o <<j>>)[2] = j
      /\ Len(FanoutExchange(Topic) \o <<j>>) = 3 /\ (FanoutExchange(Topic) \o <<j>>)[3] = j
      /\ Len(Topic \o <<k>>) = 2 /\ (Topic \o <<k>>)[2] = k
      /\ Len(FanoutExchange(Topic) \o <<k>>) = 3 /\ (FanoutExchange(Topic) \o <<k>>)[3] = k
  BY <1>2, NameShapes
<1> QED BY <1>1, <1>3, <1>4

\* The queues a message for a topic or for the node reaches.
LEMMA TopicReaches ==
  ASSUME NEW n \in Conns, NEW topic \in {Topic, Topic \o <<n>>}, NEW q,
         Known(q), Reaches(TopicPublisher(topic), q)
  PROVE  q.name = topic
<1>1. TopicPublisher(topic) = [exchange |-> ControlExchange, key |-> topic]
  BY DEF TopicPublisher, KombuTopicPublisher, QpidTopicPublisher, Publisher
<1>2. q.exchange = ControlExchange /\ q.key = topic
  <2>1. topic # NoKey
    BY KeysDiffer
  <2> QED BY <1>1, <2>1 DEF Reaches
<1>3. CASE q = KombuNotifyQueue(Notifications)
  <2>1. q.key = Notifications
    BY <1>3 DEF KombuNotifyQueue, KombuTopicConsumer, Queue
  <2> QED BY <1>2, <2>1, KeysDiffer
<1>4. ASSUME NEW k \in Conns, q \in QueuesOf(k) PROVE q.name = topic
  <2>1. \/ q.exchange = <<"reply">>
        \/ q.key = q.name
        \/ q.exchange = FanoutExchange(Topic)
    BY <1>4, BoundTo
  <2> QED BY <1>2, <2>1, KeysDiffer
<1> QED BY <1>3, <1>4 DEF Known

\* Every engine that is serving has a queue that a fanout reaches.
LEMMA FanoutReaches ==
  ASSUME ConnInv, NEW e \in Engines, Serving(e)
  PROVE  \E q \in queues : /\ q.name = FanoutExchange(Topic) \o <<e>>
                           /\ <<e, q.name>> \in subs /\ Reaches(FanoutPublisher(Topic), q)
<1>1. e \in Conns /\ e \in Consumes /\ e # Reply
  BY ConnFacts DEF Consumes
<1>2. 3 \in 1 .. Len(Wanted(e)) /\ Wanted(e)[3].name = FanoutExchange(Topic) \o <<e>>
  <2>1. Wanted(e) = <<TopicConsumer(Topic), TopicConsumer(Topic \o <<e>>), FanoutConsumer(Topic, e)>>
    BY <1>1 DEF Wanted
  <2>2. Wanted(e)[3] = FanoutConsumer(Topic, e) /\ Len(Wanted(e)) = 3
    BY <2>1
  <2>3. FanoutConsumer(Topic, e).name = FanoutExchange(Topic) \o <<e>>
    BY DEF FanoutConsumer, KombuFanoutConsumer, QpidFanoutConsumer, Queue
  <2> QED BY <2>2, <2>3
<1>3. <<e, FanoutExchange(Topic) \o <<e>>>> \in subs
  BY <1>1, <1>2, ServesOfConn DEF ServesAllItsQueues
<1>4. PICK q \in QueuesOf(e) \cap queues : q.name = FanoutExchange(Topic) \o <<e>>
  BY <1>3 DEF ConnInv, SubsInv
<1>5. q.exchange = FanoutExchange(Topic)
  <2>1. /\ Len(<<"reply">>) = 1 /\ Len(Topic) = 1 /\ Len(Topic \o <<e>>) = 2
        /\ Len(FanoutExchange(Topic) \o <<e>>) = 3
    BY <1>1, NameShapes
  <2> QED BY <1>1, <1>4, <2>1, BoundTo
<1>6. Reaches(FanoutPublisher(Topic), q)
  BY <1>5 DEF Reaches, FanoutPublisher, KombuFanoutPublisher, QpidFanoutPublisher, Publisher
<1> QED BY <1>3, <1>4, <1>6
-----------------------------------------------------------------------------
\* Where the message of one step goes.
Routed(t) ==
    LET to == {h[1] : h \in {h \in held' : h[2] = t}}
        readers(q) == {s[1] : s \in {s \in subs : s[2] = q}}
    IN  /\ op[t] = "fanout" =>
              \A e \in Engines : Serving(e) => \E q \in to : readers(q) = {e}
        /\ op[t] \in {"call", "cast"} => Cardinality(to) <= 1
        /\ op[t] = "node" => \A q \in to : readers(q) \subseteq {Node}

LEMMA PublishIsRouted ==
  ASSUME ConnInv, RouteInv, pc \in [Threads -> Pcs], NEW t \in Threads, Publish(t)
  PROVE  Routed(t)
<1> DEFINE to == {h[1] : h \in {h \in held' : h[2] = t}}
           readers(q) == {s[1] : s \in {s \in subs : s[2] = q}}
<1>1. to = Reached(t)
  BY PublishRoutes
<1>2. /\ queues \subseteq queues' /\ UNCHANGED driver
      /\ \A q \in queues' : Known(q)
  <2>1. queues \subseteq queues' /\ UNCHANGED driver
    BY DEF Publish, config
  <2>2. \A q \in queues' : q \in queues \/ q = KombuNotifyQueue(Notifications)
    BY DEF Publish
  <2> QED BY <2>1, <2>2 DEF RouteInv, Known
<1>3. ASSUME op[t] = "fanout", NEW e \in Engines, Serving(e)
      PROVE  \E q \in to : readers(q) = {e}
  <2>1. PICK q \in queues : /\ q.name = FanoutExchange(Topic) \o <<e>>
                            /\ <<e, q.name>> \in subs /\ Reaches(FanoutPublisher(Topic), q)
    BY <1>3, FanoutReaches
  <2>2. q.name \in to
    <3>1. PublisherOf(t) = FanoutPublisher(Topic)
      BY <1>3 DEF PublisherOf
    <3> QED BY <1>1, <1>2, <1>3, <2>1, <3>1 DEF Reached
  <2>3. \A s \in subs : s[2] = q.name => s[1] = e
    BY <2>1, ConnFacts, ReadByOne
  <2>4. e \in readers(q.name)
    <3>1. <<e, q.name>>[1] = e /\ <<e, q.name>>[2] = q.name
      OBVIOUS
    <3> QED BY <2>1, <3>1
  <2>5. readers(q.name) \subseteq {e}
    BY <2>3
  <2> HIDE DEF to, readers
  <2> QED BY <2>2, <2>4, <2>5
<1>4. ASSUME op[t] \in {"call", "cast"} PROVE Cardinality(to) <= 1
  <2>1. PublisherOf(t) = TopicPublisher(Topic) /\ op[t] # "server"
    BY <1>4 DEF PublisherOf
  <2>2. \A q \in queues' : Reaches(PublisherOf(t), q) => q.name = Topic
    BY <1>2, <2>1, ConnFacts, TopicReaches
  <2>3. to \subseteq {Topic}
    BY <1>1, <2>1, <2>2 DEF Reached
  <2>4. IsFiniteSet({Topic}) /\ Cardinality({Topic}) = 1
    BY FS_Singleton
  <2>5. Cardinality(to) <= Cardinality({Topic})
    BY <2>3, <2>4, FS_Subset
  <2> QED BY <2>4, <2>5
<1>5. ASSUME op[t] = "node", NEW q \in to PROVE readers(q) \subseteq {Node}
  <2>1. Node \in Engines /\ Node \in Conns
    <3>1. Node \in Engines
      BY BusAssumption DEF Node
    <3> QED BY <3>1, ConnFacts
  <2>2. PublisherOf(t) = TopicPublisher(Topic \o <<Node>>)
    BY <1>5 DEF PublisherOf
  <2>3. \A p \in queues' : Reaches(PublisherOf(t), p) => p.name = Topic \o <<Node>>
    BY <1>2, <2>1, <2>2, TopicReaches
  <2>4. q = Topic \o <<Node>>
    BY <1>1, <1>5, <2>3 DEF Reached
  <2>5. \A s \in subs : s[2] = q => s[1] = Node
    BY <2>1, <2>4, ReadByOne
  <2> QED BY <2>5
<1> QED BY <1>3, <1>4, <1>5 DEF Routed

LEMMA NextRoutes ==
  ASSUME ConnInv, ClientInv, RouteInv, [Next]_vars
  PROVE  /\ RouteInv'
         /\ \A t \in Threads : pc[t] = "send" /\ pc'[t] = "put back" => Routed(t)
<1>0. pc \in [Threads -> Pcs]
  BY DEF ClientInv, ClientTypes
<1> DEFINE Sent(t) == pc[t] = "send" /\ pc'[t] = "put back"
<1>1. ASSUME NEW k \in Conns, ConnStep(k) PROVE RouteInv' /\ \A t \in Threads : ~Sent(t)
  <2>1. Quiet
    BY <1>1, ConnStepIsQuiet DEF ClientInv, ClientTypes
  <2> QED BY <1>1, <2>1, ConnStepRoutes DEF Quiet, clientVars
<1>2. ASSUME NEW u \in Threads, ThreadStep(u)
      PROVE  RouteInv' /\ \A t \in Threads : Sent(t) => Routed(t)
  <2>1. CASE Publish(u)
    <3>1. RouteInv' /\ Routed(u) /\ \A t \in Threads \ {u} : pc'[t] = pc[t]
      BY <1>0, <2>1, PublishRoutes, PublishIsRouted
    <3>2. \A t \in Threads \ {u} : ~Sent(t)
      BY <3>1
    <3> HIDE DEF Sent
    <3> QED BY <3>1, <3>2
  <2>2. CASE ~Publish(u)
    <3>1. RouteInv' /\ pc[u] # "send" /\ \A t \in Threads \ {u} : pc'[t] = pc[t]
      BY <1>0, <1>2, <2>2, ThreadRoutes
    <3> QED BY <3>1
  <2> QED BY <2>1, <2>2
<1>3. ASSUME \/ Failure
             \/ \E e \in Engines : Deliver(e)
             \/ \E h \in Range(Hosts) : HostUp(h)
             \/ UNCHANGED vars
      PROVE  RouteInv' /\ \A t \in Threads : ~Sent(t)
  <2>1. /\ UNCHANGED <<driver, pc>> /\ queues' \subseteq queues /\ held' \subseteq held
    <3>1. CASE Failure
      BY <3>1 DEF Failure, HostDown, LinkLost, Close, Detach, config, clientVars
    <3>2. CASE \/ \E e \in Engines : Deliver(e)
               \/ \E h \in Range(Hosts) : HostUp(h)
               \/ UNCHANGED vars
      BY <3>2 DEF Deliver, HostUp, vars, config, brokerVars, clientVars
    <3> QED BY <1>3, <3>1, <3>2
  <2> QED BY <2>1, RoutesStay
<1> QED BY <1>1, <1>2, <1>3 DEF Next

LEMMA InitRoutes == Init => RouteInv
BY DEF Init, RouteInv

LEMMA RouteInvariant == Spec => [](ConnInv /\ ClientInv /\ RouteInv)
<1>1. ConnInv /\ ClientInv /\ RouteInv /\ [Next]_vars => RouteInv'
  BY NextRoutes
<1> QED BY <1>1, InitRoutes, ConnInvariant, PTL DEF Spec

\* Whatever links and hosts fail, a fanout is put in a queue of each engine that
\* is serving when it is sent, which that engine alone consumes from; a call or a
\* cast is put in one queue at most; and one for the node in none that another
\* consumes from (impl_kombu.py:218-285, 335-366; impl_qpid.py:179-215, 291-308;
\* rpc/service.py:51-59).
THEOREM RoutesMessages == Spec => MessagesAreRouted
<1> DEFINE Sendings == \A t \in Threads : pc[t] = "send" /\ pc'[t] = "put back" => Routed(t)
<1>1. ConnInv /\ ClientInv /\ RouteInv /\ [Next]_vars => [Sendings]_vars
  BY NextRoutes
<1> QED BY <1>1, RouteInvariant, PTL DEF Spec, MessagesAreRouted, Routed
=============================================================================
