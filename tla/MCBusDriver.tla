------------------------------ MODULE MCBusDriver ------------------------------
(* Instances of the AMQP drivers for TLC. *)
EXTENDS BusDriverInv, TLC

CONSTANTS e1, e2, t1, t2, h1, h2, p1

TwoHosts == <<h1, h2>>
OneHost == <<h1>>

\* One message of each kind to one or two engines, two calls at once, and an
\* engine by itself; a rabbit that is tried for ever or three times.
Load(cs, es, o1, o2, n) ==
    {[driver |-> c[1], retries |-> c[2], engines |-> es,
      op |-> t1 :> o1 @@ t2 :> o2, faults |-> n] : c \in cs}
Rabbit == {<<"kombu", 0>>}
Both  == Rabbit \cup {<<"qpid", 0>>}
All   == Both \cup {<<"kombu", 3>>}
MCSettings ==
    Load(Both, {e1, e2}, "fanout", "none", 0)
    \cup Load(Both, {e1}, "fanout", "none", 1)
    \cup Load(Rabbit, {e1, e2}, "cast", "none", 0)
    \cup Load(Rabbit, {e1}, "node", "none", 2)
    \cup Load(Both, {e1}, "cast", "none", 1)
    \cup Load(Both, {e1}, "notify", "none", 1)
    \cup Load(Rabbit, {}, "server", "none", 1)
    \cup Load(Both, {}, "call", "call", 2)
    \cup Load(All, {e1}, "none", "none", 3)
=============================================================================
