---------------------------- MODULE RushLifecycle ----------------------------
(***************************************************************************)
(* What the engine promises about a rush, whatever its workers, Heat and   *)
(* the database do: the life of a rush goes one way, it is listed for one  *)
(* tenant only, and it is listed for that tenant only while the record     *)
(* that names its stack is there.                                          *)
(***************************************************************************)
CONSTANTS RushIds, Tenants, None

VARIABLES
    phase,     \* phase[r]: how far the rush r has got
    owner      \* owner[r]: the tenant r is listed for, None when it is not

Phases == {"unused", "recorded", "listed", "delisted", "removed"}

Init ==
    /\ phase = [r \in RushIds |-> "unused"]
    /\ owner = [r \in RushIds |-> None]

(***************************************************************************)
(* The stack of r has been recorded.                                       *)
(***************************************************************************)
Record(r) ==
    /\ phase[r] = "unused"
    /\ phase' = [phase EXCEPT ![r] = "recorded"]
    /\ UNCHANGED owner

(***************************************************************************)
(* r has been entered in the list of its tenant t.                         *)
(***************************************************************************)
Enlist(r, t) ==
    /\ phase[r] = "recorded"
    /\ phase' = [phase EXCEPT ![r] = "listed"]
    /\ owner' = [owner EXCEPT ![r] = t]

Delist(r) ==
    /\ phase[r] = "listed"
    /\ phase' = [phase EXCEPT ![r] = "delisted"]
    /\ owner' = [owner EXCEPT ![r] = None]

Remove(r) ==
    /\ phase[r] = "delisted"
    /\ phase' = [phase EXCEPT ![r] = "removed"]
    /\ UNCHANGED owner

Next ==
    \E r \in RushIds :
        \/ Record(r)
        \/ \E t \in Tenants : Enlist(r, t)
        \/ Delist(r)
        \/ Remove(r)

Spec == Init /\ [][Next]_<<phase, owner>>
=============================================================================
