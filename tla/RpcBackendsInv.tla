---------------------------- MODULE RpcBackendsInv ----------------------------
(***************************************************************************)
(* The inductive invariant from which RpcBackendsProofs derives TypeOK,    *)
(* FanoutMisses, Listed and KeepsPromise.                                  *)
(***************************************************************************)
EXTENDS RpcBackendsProps

Outcomes == {"ok", "raised"}

SettingInv ==
    /\ backend \in {"zmq", "fake"} /\ kind \in {"localhost", "ring", "redis"}
    /\ topics \in Seq({"topic", "node"}) /\ (Zmq => topics # <<>>)
    /\ op \in [Threads -> Ops] /\ home \in [Threads -> Hosts] /\ faults \in Nat

MatchTypeInv ==
    /\ ttl \in [Hosts -> None .. Ttl] /\ members \subseteq Hosts
    /\ engine \in [Hosts -> {"none", "register", "set", "up", "failed", "gone"}]
    /\ step \in [Hosts -> Nat] /\ heart \subseteq Hosts /\ beaten \subseteq heart
    /\ turn \in Nat /\ (Ring # <<>> => turn \in 1 .. Len(Ring))

WireTypeInv ==
    /\ pc \in [Threads -> {"ask", "prune", "send", "wait", "done"}]
    /\ chosen \in [Threads -> Hosts] /\ joined \subseteq Threads
    /\ outcome \in [Threads -> {"none", "sent", "nomatch", "timeout", "result", "failure"}]
    /\ place \in [Messages -> {"none", "wire", "making", "queue", "inbox", "run", "done", "lost"}]
    /\ dest \in [Messages -> Hosts]
    /\ made \in [Hosts -> SUBSET Topics]
    /\ queue \in [Hosts -> [Topics -> Seq(Messages)]]
    /\ ran \in [Threads -> Seq(Outcomes)]

\* A key that was once set is there, or somebody has seen that it is not; who
\* is about to prune a host has.
ListInv ==
    /\ \A h \in heart : Redis /\ engine[h] = "up" /\ step[h] > 0
    /\ Redis => \A h \in Hosts :
                  engine[h] \in {"register", "set", "up"} /\ step[h] > 0 => h \in members \cup stale
    /\ \A c \in Threads : pc[c] = "prune" => chosen[c] \in stale

\* The backlogs: a message is in at most one of them, and once.
QueueInv ==
    \A h \in Hosts, t \in Topics :
        /\ Len(queue[h][t]) <= Backlog + 1
        /\ \A i \in 1 .. Len(queue[h][t]) :
              /\ place[queue[h][t][i]] = "queue" /\ dest[queue[h][t][i]] = h
              /\ TopicOf(queue[h][t][i]) = t
        /\ \A i, j \in 1 .. Len(queue[h][t]) : queue[h][t][i] = queue[h][t][j] => i = j

PoolInv == \A h \in Hosts : IsFiniteSet(Running(h)) /\ Cardinality(Running(h)) <= PoolSize

\* What becomes of a thread's request and of its answer.
CourseOf(c) ==
    /\ pc[c] \in {"ask", "prune", "send"} => place[Request(c)] = "none"
    /\ pc[c] = "wait" => place[Request(c)] # "none"
    /\ pc[c] # "done" => outcome[c] = "none"
    /\ c \in joined => op[c] = "call" /\ pc[c] \in {"send", "wait"}
    /\ place[Reply(c)] # "none" => place[Request(c)] = "done"
    /\ place[Reply(c)] \notin {"inbox", "run"}
    /\ IF place[Request(c)] = "done" THEN Len(ran[c]) = 1 ELSE ran[c] = <<>>

CourseInv == \A c \in Threads : CourseOf(c)

(* The fake driver. *)
FakeTypeInv ==
    /\ does \in [Threads -> Ops] /\ patience \in BOOLEAN /\ changes \in Nat
    /\ owner \in Seq(Connections) /\ consumers \subseteq 1 .. Len(owner)
    /\ next \in [Threads -> Nat \ {0}]
    /\ at \in [Threads -> {"start", "wait", "done"}]
    /\ task \in [Threads -> {"none", "run", "ok", "raised", "killed"}]
    /\ ended \in [Threads -> Seq(Outcomes)]
    /\ reached \in [Threads -> SUBSET (1 .. Len(owner))]
    /\ told \in [Threads -> {"none", "unserved", "result", "failure", "nothing"}]

\* What becomes of a caller and of the method it waits for.
CallerOf(c) ==
    /\ at[c] # "done" => told[c] = "none"
    /\ at[c] = "wait" => task[c] # "none"
    /\ at[c] = "start" => does[c] = "fanout" \/ task[c] = "none"
    /\ ended[c] = IF does[c] # "fanout" /\ task[c] \in Outcomes THEN <<task[c]>> ELSE <<>>

CallerInv == \A c \in Threads : CallerOf(c)

\* Every call of a fanout is of another consumer: those it has called and that
\* are still in the list are at places it has passed.
Before(i) == {j \in consumers : j < i}
FanoutOf(c) ==
    /\ Cardinality(reached[c]) = next[c] - 1
    /\ \A i \in reached[c] \cap consumers : Cardinality(Before(i)) < next[c] - 1

FanoutInv == \A c \in Threads : FanoutOf(c)

IInv ==
    /\ SettingInv /\ MatchTypeInv /\ WireTypeInv /\ ListInv
    /\ QueueInv /\ PoolInv /\ CourseInv
    /\ FakeTypeInv /\ CallerInv /\ FanoutInv
=============================================================================
