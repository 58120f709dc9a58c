------------------------------ MODULE RpcRepeats ------------------------------
(***************************************************************************)
(* What rpc.call promises over a bus that may deliver a request more than  *)
(* once: the engine that has taken a call up takes it up again only after  *)
(* Window others, and its caller is told what one of the runs came to, or  *)
(* that nothing is known.                                                  *)
(***************************************************************************)
EXTENDS Naturals, Sequences

CONSTANTS Calls,
          Window  \* how many calls are remembered

VARIABLES asked,  \* the calls made
          begun,  \* the calls taken up, in that order
          ran,    \* what the runs of each call came to
          told    \* what each caller was told

Runs == {"ok", "raised"}

Init ==
    /\ asked = {}
    /\ begun = <<>>
    /\ ran = [c \in Calls |-> <<>>]
    /\ told = [c \in Calls |-> "none"]

Ask(c) ==
    /\ c \notin asked
    /\ asked' = asked \cup {c}
    /\ UNCHANGED <<begun, ran, told>>

\* c is among the last Window calls that were taken up.
Recent(c) == \E i \in DOMAIN begun : begun[i] = c /\ i + Window > Len(begun)

Begin(c) ==
    /\ c \in asked
    /\ ~Recent(c)
    /\ begun' = Append(begun, c)
    /\ ran' = [ran EXCEPT ![c] = Append(@, "pending")]
    /\ UNCHANGED <<asked, told>>

End(c) ==
    /\ \E n \in DOMAIN ran[c], r \in Runs :
          /\ ran[c][n] = "pending"
          /\ ran' = [ran EXCEPT ![c][n] = r]
    /\ UNCHANGED <<asked, begun, told>>

CameTo(c, r) == \E n \in DOMAIN ran[c] : ran[c][n] = r

Tell(c) ==
    /\ c \in asked
    /\ told[c] = "none"
    /\ \/ CameTo(c, "ok") /\ told' = [told EXCEPT ![c] = "result"]
       \/ CameTo(c, "raised") /\ told' = [told EXCEPT ![c] = "failure"]
       \/ told' = [told EXCEPT ![c] = "nothing"]
    /\ UNCHANGED <<asked, begun, ran>>

Next == \E c \in Calls : Ask(c) \/ Begin(c) \/ End(c) \/ Tell(c)

Spec == Init /\ [][Next]_<<asked, begun, ran, told>>
=============================================================================
