------------------------------ MODULE RpcPromise ------------------------------
(***************************************************************************)
(* What rpc.call promises a caller: the method runs at most once, and the  *)
(* caller is told what that run came to, or that nothing is known.  A      *)
(* caller that is told nothing may still have its method run, before or    *)
(* after.                                                                  *)
(***************************************************************************)
EXTENDS Sequences

CONSTANT Calls

VARIABLES asked,  \* the calls made
          ran,    \* what the runs of each came to
          told    \* what each caller was told

Runs == {"ok", "raised"}

Init ==
    /\ asked = {}
    /\ ran = [c \in Calls |-> <<>>]
    /\ told = [c \in Calls |-> "none"]

Ask(c) ==
    /\ c \notin asked
    /\ asked' = asked \cup {c}
    /\ UNCHANGED <<ran, told>>

Run(c) ==
    /\ c \in asked
    /\ ran[c] = <<>>
    /\ \E r \in Runs : ran' = [ran EXCEPT ![c] = <<r>>]
    /\ UNCHANGED <<asked, told>>

Tell(c) ==
    /\ c \in asked
    /\ told[c] = "none"
    /\ \/ ran[c] = <<"ok">> /\ told' = [told EXCEPT ![c] = "result"]
       \/ ran[c] = <<"raised">> /\ told' = [told EXCEPT ![c] = "failure"]
       \/ told' = [told EXCEPT ![c] = "nothing"]
    /\ UNCHANGED <<asked, ran>>

Next == \E c \in Calls : Ask(c) \/ Run(c) \/ Tell(c)

Spec == Init /\ [][Next]_<<asked, ran, told>>
=============================================================================
