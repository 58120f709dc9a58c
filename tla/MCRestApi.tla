------------------------------- MODULE MCRestApi -------------------------------
(***************************************************************************)
(* RestApi for TLC: one request of every kind, then three valid ones of    *)
(* two users and two tenants that interleave.                              *)
(***************************************************************************)
EXTENDS RestApiInv

MCMemberOf == [u \in {"ann", "bob"} |-> IF u = "ann" THEN {"t1"} ELSE {"t2", "v1team"}]

Segments == {"versions", "v1.0", "v2", "v1team", "t1", "t2", "rushes", "echo", ""} \cup Requests
MCVersionIn == [s \in Segments |-> CASE s \in {"v1.0", "v1team"} -> <<1, 0>>
                                     [] s = "v2"                 -> <<2, 0>>
                                     [] OTHER                    -> None]

MCImportable == {"TypeError", "AttributeError", "KeyError"}
MCRaises == {BuiltIn("TypeError"), [module |-> "sqlalchemy.exc", class |-> "OperationalError"]}

EngineService == {"echo", "get_list", "start_rush_stack", "stop_rush_stack", "get_rush"}
Engine(version, methods) == [namespace |-> None, version |-> version, methods |-> methods]

Asking(p, accept, method, b, u, token) ==
    [path |-> p, accept |-> accept, method |-> method, body |-> b, user |-> u, token |-> token]
AnyType     == [images |-> FALSE, rest |-> ""]
Images  == {[images |-> TRUE, rest |-> s] : s \in {"", "v1.0", "v2"}}

Rests == {<<"">>, <<"rushes">>, <<"rushes", "">>, <<"rushes", "echo">>, <<"rushes", "a">>}
Paths == {<<"">>, <<"versions">>, <<"v1.0">>, <<"v1.0", "">>, <<"v2", "t1", "rushes">>,
          <<"v1team", "rushes">>}
         \cup {<<"t1">> \o s : s \in Rests} \cup {<<"v1.0", t>> \o s : t \in {"t1", "t2"}, s \in Rests}

Alone == {[r \in Requests |-> IF r = "a" THEN i ELSE Asking(<<"versions">>, AnyType, "GET", "none", "ann", "t1")] :
             i \in {Asking(p, accept, m, b, "ann", "t1") :
                       p \in Paths, accept \in Images \cup {AnyType},
                       m \in {"GET", "PUT", "DELETE", "POST"}, b \in {"none", "full", "part", "broken"}}}

Valid(t, rest, method, b, u, token) ==
    Asking(<<"v1.0", t>> \o rest, AnyType, method, b, u, token)
Start(t, u, token) == Valid(t, <<"rushes">>, "PUT", "full", u, token)
List(t, u, token)  == Valid(t, <<"rushes">>, "GET", "none", u, token)
Stop(t, i, u, token) == Valid(t, <<"rushes", i>>, "DELETE", "none", u, token)

Together ==
    {[r \in Requests |-> CASE r = "a" -> Start("t1", "ann", "t1")
                           [] r = "b" -> y
                           [] r = "c" -> z] :
        y \in {Start(t, "bob", "t2") : t \in {"t1", "t2"}},
        z \in {List(t, "bob", "t2") : t \in {"t1", "t2"}} \cup {List("t1", "ann", "t1")}
              \cup {Stop(t, i, u, k) : t \in {"t1", "t2"}, i \in {"a", "b"},
                                       u \in {"ann", "bob"}, k \in {"t1", "t2"}}}

MCSettings ==
    {[pipeline |-> p, callbacks |-> <<Engine(<<1, 0>>, EngineService)>>, loads |-> l] :
        p \in {"standalone", "keystone"}, l \in {Alone, Together}}
    \cup {[pipeline |-> "keystone", callbacks |-> c, loads |-> Together] :
             c \in {<<Engine(<<2, 0>>, EngineService)>>,
                    <<Engine(<<1, 0>>, {"echo", "get_list"}), Engine(<<1, 1>>, EngineService)>>,
                    <<Engine(<<1, 0>>, {"echo", "get_list"})>>}}
=============================================================================
