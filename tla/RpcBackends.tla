------------------------------ MODULE RpcBackends ------------------------------
(***************************************************************************)
(* The drivers of rpc that need no broker, as rpc_backend chooses one: the *)
(* zmq driver with its receivers and matchmakers, or the fake driver.      *)
(* Both are to keep what RpcPromise says of a call.                        *)
(***************************************************************************)
EXTENDS ZmqDriver

CONSTANT Connections

\* Every engine registers a topic.
ASSUME BackendsAssumption ==
    /\ Settings \subseteq [backend : {"zmq", "fake"}, patience : BOOLEAN,
                          consumers : Seq(Connections), kind : {"localhost", "ring", "redis"},
                          topics : Seq({"topic", "node"}), engines : SUBSET Hosts,
                          op : [Threads -> Ops], home : [Threads -> Hosts], faults : Nat]
    /\ \A s \in Settings : s.backend = "zmq" => s.topics # <<>>

VARIABLES backend, does, patience, changes, owner, consumers, at, task, next, ended, reached, told

Fake == INSTANCE FakeDriver WITH Callers <- Threads

fakeVars == <<does, patience, changes, owner, consumers, at, task, next, ended, reached, told>>
vars == <<backend, zmqVars, fakeVars>>

Init ==
    \E s \in Settings : backend = s.backend /\ ZmqInit(s) /\ Fake!FakeInit(s)

Next ==
    \/ backend = "zmq" /\ ZmqNext /\ UNCHANGED <<backend, fakeVars>>
    \/ backend = "fake" /\ Fake!FakeNext /\ UNCHANGED <<backend, zmqVars>>

Spec == Init /\ [][Next]_vars
\* With one driver nothing of the other is enabled, except its faults.
FairSpec == Spec /\ ZmqFairness /\ Fake!FakeFairness

Zmq == backend = "zmq"

\* What a call was told: one that finds no host or no consumer was never made.
ToldOf(what) ==
    CASE what = "timeout" -> "nothing"
      [] what \in {"result", "failure", "nothing"} -> what
      [] OTHER -> "none"

Asked == IF Zmq THEN {c \in Threads : place[Request(c)] # "none"}
         ELSE {c \in Threads : task[c] # "none"}
Ended == IF Zmq THEN ran ELSE ended
Told  == [c \in Threads |-> ToldOf(IF Zmq THEN outcome[c] ELSE told[c])]

Promise == INSTANCE RpcPromise WITH Calls <- Threads, asked <- Asked, ran <- Ended, told <- Told
=============================================================================
