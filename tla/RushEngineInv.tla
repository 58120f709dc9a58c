--------------------------- MODULE RushEngineInv ---------------------------
(***************************************************************************)
(* The inductive invariants behind the theorems: TypeInv and EngineInv     *)
(* behind TenantRowHasStack and ImplementsLifecycle, StackInv, of whose    *)
(* stack is whose, behind RowRecordsOwnStack, StackRecordedOnce and        *)
(* StopDeletesOwnStack, and AccountInv behind StacksAccounted.  TLC checks *)
(* them before they are proved.                                            *)
(***************************************************************************)
EXTENDS RushEngineProps

(***************************************************************************)
(* Which labels of a method lie where: a start that has drawn its rush_id, *)
(* one that has not recorded its stack yet, a stop past its tenant check,  *)
(* and the statements that read rid, row and info.                         *)
(***************************************************************************)
Unrecorded == {"start_create", "start_list", "start_stack"}
Drawn      == Unrecorded \cup {"start_tenant"}
Stopping   == {"stop_heat", "stop_tenant", "stop_stack"}

RowHeld  == Stopping \cup {"stop_check", "get_check", "get_resources",
                           "get_update", "list_stacks", "list_status",
                           "list_resources", "list_url"}
RidHeld  == Drawn \cup RowHeld \cup {"stop_get", "get_stack"}
InfoHeld == {"start_stack", "start_tenant", "list_status"}

LocalsOK(w) ==
    /\ pc[w] # "idle" => req[w] \in Requests
    /\ pc[w] \in Drawn => req[w].name \in RushNames
    /\ pc[w] \in RidHeld => rid[w] \in RushIds
    /\ pc[w] \in RowHeld => row[w] \in RushRow
    /\ pc[w] \in InfoHeld => info[w] \in StackInfo

WorkersOK == WorkersTypeOK /\ \A w \in Workers : LocalsOK(w)

TypeInv == TypeOK /\ WorkersOK

(***************************************************************************)
(* A start has drawn an identifier of its own, which no table mentions     *)
(* before the start writes it there.                                       *)
(***************************************************************************)
StartOK(w) ==
    /\ pc[w] \in Drawn => rid[w] \in issued \ listed
    /\ pc[w] \in Unrecorded => rushStack[rid[w]] = None
    /\ pc[w] = "start_tenant" => rushStack[rid[w]] # None

DrawnApart ==
    \A v, w \in Workers :
        v # w /\ pc[v] \in Drawn /\ pc[w] \in Drawn => rid[v] # rid[w]

(***************************************************************************)
(* A stop past its check deals with a rush that was listed, for nobody but *)
(* its own tenant, and by its last statement for nobody at all.            *)
(***************************************************************************)
StopOK(w) ==
    /\ pc[w] \in Stopping => rid[w] \in listed
    /\ pc[w] \in Stopping => Owners(rid[w]) \subseteq {req[w].tenant}
    /\ pc[w] = "stop_stack" => Owners(rid[w]) = {}

RushOK(r) ==
    /\ rushStack[r] # None => r \in issued
    /\ Owners(r) # {} => r \in listed /\ rushStack[r] # None
    /\ \A t, u \in Owners(r) : t = u

LifeInv ==
    /\ listed \subseteq issued
    /\ \A w \in Workers : StartOK(w) /\ StopOK(w)
    /\ DrawnApart
    /\ \A r \in RushIds : RushOK(r)

(***************************************************************************)
(* The inductive invariant.                                                *)
(***************************************************************************)
EngineInv == TypeInv /\ LifeInv
-----------------------------------------------------------------------------
\* A start between the creation of its stack and the record; a stop with its
\* copy of the record.
Making   == {"start_list", "start_stack"}
StopHeld == {"stop_check"} \cup Stopping

(***************************************************************************)
(* In Heat a stack has a name from its creation on, and no two that exist  *)
(* have the same.                                                          *)
(***************************************************************************)
NamesInv ==
    /\ \A s \in StackIds : heat[s].status = "UNBORN" <=> heat[s].name = None
    /\ \A s1, s2 \in StackIds :
          Exists(s1) /\ Exists(s2) /\ heat[s1].name = heat[s2].name => s1 = s2

\* No row of the table and nobody's copy of a row records s.
Fresh(s) ==
    /\ \A r \in RushIds : rushStack[r] # None => rushStack[r].stack_id # s
    /\ \A v \in Workers : pc[v] \in RowHeld => row[v].stack_id # s

\* s is the stack worker w has had created and will record.
MakesOwn(w, s) ==
    heat[s].name = MyStackName(w) /\ heat[s].status \in Building /\ Fresh(s)

(***************************************************************************)
(* A start records, and lists, the stack that has the name of its rush; if *)
(* nobody deletes stacks behind the engine's back, it is one of its own.   *)
(***************************************************************************)
StartsOwn(w) ==
    /\ pc[w] = "start_stack" => heat[info[w].id].name = MyStackName(w)
    /\ pc[w] = "start_tenant" =>
          heat[rushStack[rid[w]].stack_id].name =
              StackName(req[w].tenant, rushStack[rid[w]].name)
    /\ ~OperatorActs /\ pc[w] = "start_list" => \E s \in StackIds : MakesOwn(w, s)
    /\ ~OperatorActs /\ pc[w] = "start_stack" => MakesOwn(w, info[w].id)

NamesApart ==
    \A v, w \in Workers :
        v # w /\ pc[v] \in Making /\ pc[w] \in Making => MyStackName(v) # MyStackName(w)

SameRecord(a, b) == a.name = b.name /\ a.stack_id = b.stack_id

(***************************************************************************)
(* A copy of a row says what the row says, as long as there is one; a stop *)
(* past its check has a stack of its tenant; no other row has the stack.   *)
(***************************************************************************)
HoldsOwn(w) ==
    /\ pc[w] \in RowHeld => heat[row[w].stack_id].name # None
    /\ pc[w] \in StopHeld =>
          IF rushStack[rid[w]] = None THEN rid[w] \in listed
          ELSE SameRecord(row[w], rushStack[rid[w]])
    /\ pc[w] = "stop_heat" =>
          heat[row[w].stack_id].name = StackName(req[w].tenant, row[w].name)
    /\ ~OperatorActs /\ pc[w] \in RowHeld =>
          \A r \in RushIds \ {rid[w]} :
              rushStack[r] # None => rushStack[r].stack_id # row[w].stack_id

StackInv ==
    /\ NamesInv
    /\ \A w \in Workers : StartsOwn(w) /\ HoldsOwn(w)
    /\ ~OperatorActs => NamesApart
    /\ \A r \in RushIds : rushStack[r] # None => heat[rushStack[r].stack_id].name # None
    /\ RowRecordsOwnStack
    /\ ~OperatorActs => StackRecordedOnce

(***************************************************************************)
(* Where every method runs to its end: each stack that has been asked for  *)
(* is on record in a listed rush, or a start has it made and will find it  *)
(* by its name or has found it, or has it on record and will list it; a    *)
(* stop deletes rows only of a stack that is being deleted.                *)
(***************************************************************************)
Lists(r, s) ==
    rushStack[r] # None /\ rushStack[r].stack_id = s /\ Owners(r) # {}

Makes(w, s) ==
    /\ pc[w] \in Making
    /\ heat[s].name = MyStackName(w)
    /\ pc[w] = "start_stack" => info[w].id = s

Records(w, s) ==
    /\ pc[w] = "start_tenant"
    /\ rushStack[rid[w]].stack_id = s
    /\ rushStack[rid[w]].name = req[w].name

Accounted(s) ==
    \/ \E r \in RushIds : Lists(r, s)
    \/ \E w \in Workers : Makes(w, s) \/ Records(w, s)

StopsDeleted(w) ==
    pc[w] \in {"stop_tenant", "stop_stack"} /\ rushStack[rid[w]] # None =>
        heat[rushStack[rid[w]].stack_id].status \notin Building

AccountInv ==
    /\ \A s \in StackIds : heat[s].status \in Building => Accounted(s)
    /\ \A w \in Workers : StopsDeleted(w)
=============================================================================
