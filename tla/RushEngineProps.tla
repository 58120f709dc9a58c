-------------------------- MODULE RushEngineProps --------------------------
(***************************************************************************)
(* The properties of the engine.                                           *)
(***************************************************************************)
EXTENDS RushEngine

(***************************************************************************)
(* A rush that is listed for a tenant has its record in rush_stack: the    *)
(* rows that stop_rush_stack, get_rush and get_list reach through          *)
(* rush_tenant are there, although nothing makes the two inserts of a      *)
(* start or the two deletes of a stop one transaction, whatever other      *)
(* requests, failures and crashes come between them.                       *)
(***************************************************************************)
TenantRowHasStack ==
    \A r \in RushIds : Owners(r) # {} => rushStack[r] # None

(***************************************************************************)
(* The stack a rush records is, and stays, the one that was created under  *)
(* the name of that rush and of the tenant it is listed for: the search by *)
(* name in start_rush_stack never picks another tenant's stack.            *)
(***************************************************************************)
RowRecordsOwnStack ==
    \A r \in RushIds : \A t \in Owners(r) :
        heat[rushStack[r].stack_id].name = StackName(t, rushStack[r].name)

(***************************************************************************)
(* No two rushes record the same stack, although a start learns the        *)
(* identifier of its stack by listing the stacks and not from the answer   *)
(* to its creation.  (Not so when stacks are deleted behind the engine's   *)
(* back, for the name is then free again before the listing.)              *)
(***************************************************************************)
StackRecordedOnce ==
    \A r1, r2 \in RushIds :
        /\ rushStack[r1] # None
        /\ rushStack[r2] # None
        /\ rushStack[r1].stack_id = rushStack[r2].stack_id
        => r1 = r2

(***************************************************************************)
(* When a stop deletes a stack, it is a stack of the tenant that asked,    *)
(* and no rush but the one it named records it, although the record was    *)
(* read two statements and a remote call earlier.                          *)
(***************************************************************************)
StopDeletesOwnStack ==
    [][\A w \in Workers : \A s \in StackIds :
          /\ pc[w] = "stop_heat"
          /\ pc'[w] # "stop_heat"
          /\ heat'[s] # heat[s]
          => /\ s \in TenantStacks(req[w].tenant)
             /\ \A r \in RushIds \ {rid[w]} :
                   rushStack[r] # None => rushStack[r].stack_id # s]_vars

(***************************************************************************)
(* In the absence of failures every stack that Heat is building or has     *)
(* built belongs to a listed rush, or a start that has yet to list it is   *)
(* still running: no interleaving of starts, stops and listings leaves a   *)
(* stack that nobody can find.                                             *)
(***************************************************************************)
Starting(w, s) ==
    /\ pc[w] \in {"start_list", "start_stack", "start_tenant"}
    /\ heat[s].name = MyStackName(w)

StacksAccounted ==
    \A s \in StackIds :
        heat[s].status \in Building =>
            \/ \E r \in RushIds : /\ rushStack[r] # None
                                  /\ rushStack[r].stack_id = s
                                  /\ Owners(r) # {}
            \/ \E w \in Workers : Starting(w, s)

(***************************************************************************)
(* A stop whose deletion Heat has accepted takes the rush out of both      *)
(* tables in the end, whoever else stops, lists or updates it meanwhile.   *)
(***************************************************************************)
StopCompletes ==
    \A r \in RushIds :
        (\E w \in Workers : pc[w] = "stop_tenant" /\ rid[w] = r)
            ~> Owners(r) = {} /\ rushStack[r] = None

-----------------------------------------------------------------------------
(***************************************************************************)
(* The refinement mapping to RushLifecycle.  A row of rush_tenant without  *)
(* its row of rush_stack, or with two owners, is no phase of a rush.       *)
(***************************************************************************)
phaseBar ==
    [r \in RushIds |->
        IF Owners(r) # {}
        THEN IF rushStack[r] # None THEN "listed" ELSE "dangling"
        ELSE IF r \in listed
             THEN IF rushStack[r] # None THEN "delisted" ELSE "removed"
             ELSE IF rushStack[r] # None THEN "recorded" ELSE "unused"]

ownerBar ==
    [r \in RushIds |->
        IF Owners(r) = {} THEN None ELSE CHOOSE t \in Tenants : t \in Owners(r)]

Lifecycle == INSTANCE RushLifecycle WITH phase <- phaseBar, owner <- ownerBar

(***************************************************************************)
(* The life of a rush goes one way: recorded, then listed for one tenant   *)
(* for good, then delisted, then removed, never to come back, whatever     *)
(* update of a stale row or second stop arrives late.                      *)
(***************************************************************************)
ImplementsLifecycle == Lifecycle!Spec

-----------------------------------------------------------------------------
(***************************************************************************)
(* What service.py says of its methods, and the code does not do.          *)
(***************************************************************************)

(***************************************************************************)
(* "Deletes the Rush service identified by rush_id for the tenant": a stop *)
(* of a rush that is listed for the tenant and whose stack is gone has     *)
(* deleted the rush, or another stop is about to.                          *)
(***************************************************************************)
StopDeletesRush ==
    [][\A w \in Workers :
          /\ pc[w] = "stop_heat"
          /\ pc'[w] = "idle"
          /\ reply'[w] = "HTTPNotFound"
          => \/ <<rid[w], req[w].tenant>> \notin rushTenant'
             \/ \E v \in Workers : /\ pc[v] \in {"stop_tenant", "stop_stack"}
                                   /\ rid[v] = rid[w]]_vars
=============================================================================
