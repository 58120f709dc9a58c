----------------------------- MODULE MCRpcBackends -----------------------------
(* Instances of the drivers without a broker, for TLC. *)
EXTENDS RpcBackendsInv, TLC

CONSTANTS h1, h2, c1, c2, k1, k2, k3

TwoHosts == <<h1, h2>>

Load(k, ts, es, o1, o2, n) ==
    [backend |-> "zmq", patience |-> FALSE, consumers |-> <<>>, kind |-> k,
     topics |-> ts, engines |-> es, op |-> c1 :> o1 @@ c2 :> o2,
     home |-> c1 :> h1 @@ c2 :> h1, faults |-> n]

Fakes(ks, o1, o2, p, n) ==
    [backend |-> "fake", patience |-> p, consumers |-> ks, kind |-> "localhost",
     topics |-> <<>>, engines |-> {}, op |-> c1 :> o1 @@ c2 :> o2,
     home |-> c1 :> h1 @@ c2 :> h1, faults |-> n]

Node == <<"topic", "node", "topic">>   \* rpc.Service
Own  == <<"topic", "topic">>           \* a consumer of a topic and its fanout

MCSettings ==
    {Load("localhost", Node, {h1}, "call", "call", 1),
     Load("localhost", Node, {h1}, "call", "alien", 0),
     Load("localhost", Node, {h1}, "cast", "none", 1),
     Load("localhost", Node, {h1}, "notify", "notify", 0),
     Load("ring", Node, {h1, h2}, "cast", "cast", 0),
     Load("ring", Node, {h1, h2}, "fanout", "notify", 0),
     Load("ring", Node, {h1, h2}, "call", "call", 0),
     Load("redis", Node, {h1}, "cast", "none", 1),
     Load("redis", Own, {h1}, "cast", "none", 2),
     Load("redis", Own, {h1}, "fanout", "notify", 1),
     Load("redis", Own, {h1, h2}, "call", "none", 0),
     Fakes(<<k1, k1, k2, k3>>, "fanout", "call", FALSE, 2),
     Fakes(<<k1, k2, k1>>, "call", "fanout", TRUE, 2),
     Fakes(<<k1>>, "call", "cast", TRUE, 1)}
=============================================================================
