-------------------------- MODULE RushEngineProofs --------------------------
(***************************************************************************)
(* Proofs about the engine, for any workers, tenants, identifiers and      *)
(* names, with every kind of failure and without.                          *)
(***************************************************************************)
EXTENDS RushEngineInv, TLAPS

(***************************************************************************)
(* Initially every variable has its type, and no worker is in a method.    *)
(***************************************************************************)
LEMMA InitTypeInv == Init => TypeInv
<1> SUFFICES ASSUME Init PROVE TypeInv
  OBVIOUS
<1>1. HeatTypeOK /\ TablesTypeOK
  BY DEF Init, HeatInit, TablesInit, HeatTypeOK, TablesTypeOK
<1>2. WorkersTypeOK
  BY DEF Init, WorkersTypeOK, Labels, Replies
<1>3. \A w \in Workers : LocalsOK(w)
  BY DEF Init, LocalsOK, Drawn, Unrecorded, RidHeld, RowHeld, Stopping,
         InfoHeld
<1> QED
  BY <1>1, <1>2, <1>3 DEF Init, TypeInv, TypeOK, WorkersOK

(***************************************************************************)
(* Heat's own steps keep the type of heat.                                 *)
(***************************************************************************)
LEMMA HeatMovesType ==
  ASSUME HeatTypeOK, HeatMoves
  PROVE  HeatTypeOK'
<1>1. PICK s \in StackIds : HeatStep(s)
  BY DEF HeatMoves
<1> USE DEF HeatTypeOK, StackStatus, Building, Removing
<1>2. CASE Associate(s)
  BY <1>2 DEF Associate
<1>3. CASE Complete(s)
  BY <1>3 DEF Complete
<1>4. CASE FailCreate(s)
  BY <1>4 DEF FailCreate
<1>5. CASE Vanish(s)
  BY <1>5 DEF Vanish
<1>6. CASE FailDelete(s)
  BY <1>6 DEF FailDelete
<1>7. CASE OperatorDelete(s)
  BY <1>7 DEF OperatorDelete
<1> QED
  BY <1>1, <1>2, <1>3, <1>4, <1>5, <1>6, <1>7 DEF HeatStep

(***************************************************************************)
(* Answering leaves the worker idle with nothing in its locals.            *)
(***************************************************************************)
LEMMA AnswerOK ==
  ASSUME WorkersOK, NEW w \in Workers, NEW code \in Replies, Answer(w, code)
  PROVE  WorkersOK'
<1>1. WorkersTypeOK'
  BY DEF WorkersOK, WorkersTypeOK, Answer, Labels
<1>2. ASSUME NEW v \in Workers PROVE LocalsOK(v)'
  <2>1. CASE v = w
    BY <2>1 DEF WorkersOK, WorkersTypeOK, Answer, LocalsOK, Drawn, Unrecorded,
       RidHeld, RowHeld, Stopping, InfoHeld
  <2>2. CASE v # w
    BY <2>2 DEF WorkersOK, WorkersTypeOK, Answer, LocalsOK
  <2> QED
    BY <2>1, <2>2
<1> QED
  BY <1>1, <1>2 DEF WorkersOK

(***************************************************************************)
(* An update changes what a row holds, never which rows there are: it does *)
(* not bring back one that has been deleted.                               *)
(***************************************************************************)
LEMMA UpdateKeepsRows ==
  ASSUME TablesTypeOK, NEW r \in RushIds, NEW obj \in RushRow,
         NEW new \in RushRow, rush_stack_update(r, obj, new),
         UNCHANGED rushTenant
  PROVE  /\ TablesTypeOK'
         /\ \A q \in RushIds : rushStack'[q] = None <=> rushStack[q] = None
<1>1. CASE obj = new
  BY <1>1 DEF rush_stack_update, TablesTypeOK
<1>2. CASE obj # new
  <2>1. rushStack[r] \in RushRow
    BY <1>2 DEF rush_stack_update, StaleData, TablesTypeOK
  <2> DEFINE st == IF new.status # obj.status
                   THEN new.status ELSE rushStack[r].status
             ur == IF new.url # obj.url THEN new.url ELSE rushStack[r].url
             upd == [name |-> rushStack[r].name,
                     stack_id |-> rushStack[r].stack_id,
                     status |-> st, url |-> ur]
  <2>2. st \in StackStatus /\ ur \in StackIds \cup {None}
    BY <2>1 DEF RushRow
  <2>3. upd \in RushRow
    BY <2>1, <2>2 DEF RushRow
  <2>4. rushStack' = [rushStack EXCEPT ![r] = upd]
    BY <1>2, <2>1 DEF rush_stack_update, RushRow, TablesTypeOK
  <2> HIDE DEF upd
  <2>5. TablesTypeOK'
    BY <2>3, <2>4 DEF TablesTypeOK
  <2>6. rushStack' = [q \in RushIds |-> IF q = r THEN upd ELSE rushStack[q]]
    BY <2>4 DEF TablesTypeOK
  <2>7. upd # None /\ rushStack[r] # None
    BY <2>1, <2>3, RowAssumption
  <2> QED
    BY <2>5, <2>6, <2>7
<1> QED
  BY <1>1, <1>2

(***************************************************************************)
(* A listed stack of a tenant exists in Heat, under a name Heat can have.  *)
(***************************************************************************)
LEMMA InfoType ==
  ASSUME HeatTypeOK, NEW t \in Tenants, NEW s \in TenantStacks(t)
  PROVE  InfoOf(s) \in StackInfo
<1>1. heat[s].name \in StackNames
  BY EngineAssumption DEF TenantStacks
<1>2. heat[s].status \in StackStatus
  BY DEF TenantStacks, Exists
<1> QED
  BY <1>1, <1>2 DEF TenantStacks, InfoOf, StackInfo

(***************************************************************************)
(* A request comes in.                                                     *)
(***************************************************************************)
LEMMA ReceiveType ==
  ASSUME TypeInv, NEW w \in Workers, Receive(w)
  PROVE  TypeInv'
<1>1. PICK q \in Requests,
           label \in {"start_type", "stop_get", "get_stack", "list_tenants"} :
        /\ Accept(w, q, label)
        /\ label \in {"stop_get", "get_stack"} => q.rush \in RushIds
  <2>1. CASE Start(w)
    <3>1. PICK t \in Tenants, k \in TypeIds, n \in RushNames \cup {None} :
             Accept(w, [op |-> "start", tenant |-> t, type |-> k, name |-> n,
                        rush |-> None], "start_type")
      BY <2>1 DEF Start
    <3>2. [op |-> "start", tenant |-> t, type |-> k, name |-> n,
           rush |-> None] \in Requests
      BY DEF Requests, Ops
    <3> QED
      BY <3>1, <3>2
  <2>2. CASE Stop(w)
    <3>1. PICK t \in Tenants, r \in RushIds :
             Accept(w, [op |-> "stop", tenant |-> t, type |-> None,
                        name |-> None, rush |-> r], "stop_get")
      BY <2>2 DEF Stop
    <3>2. [op |-> "stop", tenant |-> t, type |-> None, name |-> None,
           rush |-> r] \in Requests
      BY DEF Requests, Ops
    <3> QED
      BY <3>1, <3>2
  <2>3. CASE Get(w)
    <3>1. PICK t \in Tenants, r \in RushIds :
             Accept(w, [op |-> "get", tenant |-> t, type |-> None,
                        name |-> None, rush |-> r], "get_stack")
      BY <2>3 DEF Get
    <3>2. [op |-> "get", tenant |-> t, type |-> None, name |-> None,
           rush |-> r] \in Requests
      BY DEF Requests, Ops
    <3> QED
      BY <3>1, <3>2
  <2>4. CASE List(w)
    <3>1. PICK t \in Tenants :
             Accept(w, [op |-> "list", tenant |-> t, type |-> None,
                        name |-> None, rush |-> None], "list_tenants")
      BY <2>4 DEF List
    <3>2. [op |-> "list", tenant |-> t, type |-> None, name |-> None,
           rush |-> None] \in Requests
      BY DEF Requests, Ops
    <3> QED
      BY <3>1, <3>2
  <2> QED
    BY <2>1, <2>2, <2>3, <2>4 DEF Receive
<1>2. WorkersTypeOK'
  BY <1>1 DEF TypeInv, WorkersOK, WorkersTypeOK, Accept, Labels, Replies,
     Requests
<1>3. ASSUME NEW v \in Workers PROVE LocalsOK(v)'
  <2>1. CASE v = w
    BY <1>1, <2>1 DEF TypeInv, WorkersOK, WorkersTypeOK, Accept, LocalsOK,
       Drawn, Unrecorded, RidHeld, RowHeld, Stopping, InfoHeld
  <2>2. CASE v # w
    BY <1>1, <2>2 DEF TypeInv, WorkersOK, WorkersTypeOK, Accept, LocalsOK
  <2> QED
    BY <2>1, <2>2
<1>4. UNCHANGED <<heat, tables, history>>
  BY <1>1 DEF Accept
<1> QED
  BY <1>2, <1>3, <1>4 DEF TypeInv, TypeOK, WorkersOK, HeatTypeOK,
     TablesTypeOK, tables, history

(***************************************************************************)
(* Going on to another label with the locals as they are.                  *)
(***************************************************************************)
LEMMA GotoOK ==
  ASSUME WorkersOK, NEW w \in Workers, NEW label \in Labels, Goto(w, label),
         UNCHANGED locals, pc[w] # "idle",
         label \in Drawn => pc[w] \in Drawn,
         label \in RidHeld => pc[w] \in RidHeld,
         label \in RowHeld => pc[w] \in RowHeld,
         label \in InfoHeld => pc[w] \in InfoHeld
  PROVE  WorkersOK'
<1>1. WorkersTypeOK'
  BY DEF WorkersOK, WorkersTypeOK, Goto, locals
<1>2. ASSUME NEW v \in Workers PROVE LocalsOK(v)'
  BY DEF WorkersOK, WorkersTypeOK, Goto, locals, LocalsOK
<1> QED
  BY <1>1, <1>2 DEF WorkersOK

(***************************************************************************)
(* Reading the record of the rush at hand into row.                        *)
(***************************************************************************)
LEMMA ReadRowOK ==
  ASSUME TypeInv, NEW w \in Workers, NEW label \in Labels, Goto(w, label),
         NEW r \in RushIds, rushStack[r] # None,
         rid' = [rid EXCEPT ![w] = r],
         row' = [row EXCEPT ![w] = rushStack[r]],
         UNCHANGED <<info, todo>>, pc[w] # "idle",
         label \notin Drawn, label \notin InfoHeld
  PROVE  WorkersOK'
<1>1. rushStack[r] \in RushRow
  BY DEF TypeInv, TypeOK, TablesTypeOK
<1>2. WorkersTypeOK'
  BY <1>1 DEF TypeInv, WorkersOK, WorkersTypeOK, Goto
<1>3. ASSUME NEW v \in Workers PROVE LocalsOK(v)'
  BY <1>1 DEF TypeInv, WorkersOK, WorkersTypeOK, Goto, LocalsOK
<1> QED
  BY <1>2, <1>3 DEF WorkersOK

(***************************************************************************)
(* A statement that writes neither Heat nor the tables has only the types  *)
(* of the worker's variables to keep.                                      *)
(***************************************************************************)
LEMMA ReadOnlyOK ==
  ASSUME TypeInv, WorkersOK', UNCHANGED <<heat, tables, history>>
  PROVE  TypeInv'
BY DEF TypeInv, TypeOK, WorkersOK, HeatTypeOK, TablesTypeOK, tables, history

(***************************************************************************)
(* Each statement of start_rush_stack keeps the types.                     *)
(***************************************************************************)
LEMMA StartType_Type ==
  ASSUME TypeInv, NEW w \in Workers, StartType(w)
  PROVE  TypeInv'
<1> USE DEF StartType
<1>1. WorkersOK'
  <2>1. ASSUME NEW code \in Replies, Answer(w, code) PROVE WorkersOK'
    BY <2>1, AnswerOK DEF TypeInv
  <2>2. CASE req[w].name = None
    BY <2>1, <2>2 DEF Replies
  <2>3. CASE req[w].name # None /\ req[w].type \notin RushTypes
    BY <2>1, <2>3 DEF Replies
  <2>4. CASE req[w].name # None /\ req[w].type \in RushTypes
    <3>1. PICK r \in RushIds : rid' = [rid EXCEPT ![w] = r]
      BY <2>4
    <3>2. Goto(w, "start_create") /\ UNCHANGED <<row, info, todo>>
      BY <2>4
    <3>3. WorkersTypeOK'
      BY <3>1, <3>2 DEF TypeInv, WorkersOK, WorkersTypeOK, Goto, Labels
    <3>4. req[w].name \in RushNames
      BY <2>4 DEF TypeInv, WorkersOK, LocalsOK, Requests
    <3>5. ASSUME NEW v \in Workers PROVE LocalsOK(v)'
      BY <3>1, <3>2, <3>4 DEF TypeInv, WorkersOK, WorkersTypeOK, LocalsOK,
         Goto, Drawn, Unrecorded, RidHeld, RowHeld, Stopping, InfoHeld
    <3> QED
      BY <3>3, <3>5 DEF WorkersOK
  <2> QED
    BY <2>2, <2>3, <2>4
<1>2. issued' \subseteq RushIds /\ UNCHANGED <<heat, tables, listed>>
  BY DEF TypeInv, TypeOK
<1> QED
  BY <1>1, <1>2 DEF TypeInv, TypeOK, WorkersOK, HeatTypeOK, TablesTypeOK,
     tables

LEMMA StartCreate_Type ==
  ASSUME TypeInv, NEW w \in Workers, StartCreate(w)
  PROVE  TypeInv'
<1> USE DEF StartCreate
<1>1. WorkersOK'
  <2>1. ASSUME NEW code \in Replies, Answer(w, code) PROVE WorkersOK'
    BY <2>1, AnswerOK DEF TypeInv
  <2>2. ASSUME Goto(w, "start_list"), UNCHANGED locals PROVE WorkersOK'
    BY <2>2, GotoOK DEF TypeInv, Labels, Drawn, Unrecorded, RidHeld, RowHeld,
       Stopping, InfoHeld
  <2> QED
    BY <2>1, <2>2 DEF Replies
<1>2. HeatTypeOK'
  <2>1. ASSUME NEW s \in StackIds, HeatCreate(s, MyStackName(w))
        PROVE  HeatTypeOK'
    <3>1. MyStackName(w) \in StackNames
      BY EngineAssumption DEF TypeInv, WorkersOK, LocalsOK, MyStackName,
         Requests, Drawn, Unrecorded
    <3> QED
      BY <2>1, <3>1 DEF TypeInv, TypeOK, HeatTypeOK, HeatCreate, StackStatus,
         Building
  <2> QED
    BY <2>1 DEF TypeInv, TypeOK, HeatTypeOK
<1> QED
  BY <1>1, <1>2 DEF TypeInv, TypeOK, WorkersOK, TablesTypeOK, tables, history

LEMMA StartList_Type ==
  ASSUME TypeInv, NEW w \in Workers, StartList(w)
  PROVE  TypeInv'
<1> USE DEF StartList
<1>1. WorkersOK'
  <2>1. ASSUME NEW code \in Replies, Answer(w, code) PROVE WorkersOK'
    BY <2>1, AnswerOK DEF TypeInv
  <2>2. ASSUME NEW s \in Named(req[w].tenant, req[w].name),
               info' = [info EXCEPT ![w] = InfoOf(s)],
               Goto(w, "start_stack"), UNCHANGED <<rid, row, todo>>
        PROVE  WorkersOK'
    <3>1. InfoOf(s) \in StackInfo
      BY <2>2, InfoType DEF TypeInv, TypeOK, WorkersOK, LocalsOK, Requests,
         Named
    <3>2. WorkersTypeOK'
      BY <2>2, <3>1 DEF TypeInv, WorkersOK, WorkersTypeOK, Goto, Labels
    <3>3. ASSUME NEW v \in Workers PROVE LocalsOK(v)'
      BY <2>2, <3>1 DEF TypeInv, WorkersOK, WorkersTypeOK, LocalsOK, Goto,
         Drawn, Unrecorded, RidHeld, RowHeld, Stopping, InfoHeld
    <3> QED
      BY <3>2, <3>3 DEF WorkersOK
  <2> QED
    BY <2>1, <2>2 DEF Replies
<1> QED
  BY <1>1 DEF TypeInv, TypeOK, WorkersOK, HeatTypeOK, TablesTypeOK, tables,
     history

LEMMA StartStack_Type ==
  ASSUME TypeInv, NEW w \in Workers, StartStack(w)
  PROVE  TypeInv'
<1> USE DEF StartStack
<1>1. WorkersOK'
  BY GotoOK DEF TypeInv, Labels, Drawn, Unrecorded, RidHeld, RowHeld,
     Stopping, InfoHeld
<1>2. TablesTypeOK'
  <2>1. /\ rid[w] \in RushIds
        /\ req[w].name \in RushNames
        /\ info[w] \in StackInfo
    BY DEF TypeInv, WorkersOK, LocalsOK, Drawn, Unrecorded, RidHeld, InfoHeld
  <2>2. [name |-> req[w].name, stack_id |-> info[w].id,
         status |-> info[w].status, url |-> None] \in RushRow
    BY <2>1 DEF RushRow, StackInfo
  <2> QED
    BY <2>1, <2>2 DEF TypeInv, TypeOK, TablesTypeOK, rush_stack_create
<1> QED
  BY <1>1, <1>2 DEF TypeInv, TypeOK, WorkersOK, HeatTypeOK, history

LEMMA StartTenant_Type ==
  ASSUME TypeInv, NEW w \in Workers, StartTenant(w)
  PROVE  TypeInv'
<1> USE DEF StartTenant
<1>1. WorkersOK'
  BY AnswerOK DEF TypeInv, Replies
<1>2. rid[w] \in RushIds /\ req[w].tenant \in Tenants
  BY DEF TypeInv, WorkersOK, LocalsOK, Drawn, Unrecorded, RidHeld, Requests
<1>3. TablesTypeOK' /\ listed' \subseteq RushIds
  BY <1>2 DEF TypeInv, TypeOK, TablesTypeOK, rush_tenant_create
<1> QED
  BY <1>1, <1>3 DEF TypeInv, TypeOK, WorkersOK, HeatTypeOK

(***************************************************************************)
(* Each statement of stop_rush_stack keeps the types.                      *)
(***************************************************************************)
LEMMA StopStep_Type ==
  ASSUME TypeInv, NEW w \in Workers, StopStep(w)
  PROVE  TypeInv'
<1>1. ASSUME NEW code \in Replies, Answer(w, code) PROVE WorkersOK'
  BY <1>1, AnswerOK DEF TypeInv
<1>2. CASE StopGet(w)
  <2>1. ASSUME rushStack[rid[w]] # None PROVE WorkersOK'
    <3>1. rid[w] \in RushIds /\ rid = [rid EXCEPT ![w] = rid[w]]
      BY <1>2 DEF StopGet, TypeInv, WorkersOK, WorkersTypeOK, LocalsOK,
         RidHeld
    <3>2. /\ pc[w] # "idle"
          /\ Goto(w, "stop_check")
          /\ row' = [row EXCEPT ![w] = rushStack[rid[w]]]
          /\ rid' = [rid EXCEPT ![w] = rid[w]]
          /\ UNCHANGED <<info, todo>>
      BY <1>2, <2>1, <3>1 DEF StopGet
    <3>3. "stop_check" \in Labels \ (Drawn \cup InfoHeld)
      BY DEF Labels, Drawn, Unrecorded, InfoHeld
    <3> QED
      BY <2>1, <3>1, <3>2, <3>3, ReadRowOK
  <2>2. WorkersOK'
    BY <1>1, <1>2, <2>1 DEF StopGet, Replies
  <2> QED
    BY <1>2, <2>2, ReadOnlyOK DEF StopGet
<1>3. CASE StopCheck(w)
  <2>1. WorkersOK'
    BY <1>1, <1>3, GotoOK DEF StopCheck, TypeInv, Replies, Labels, Drawn,
       Unrecorded, RidHeld, RowHeld, Stopping, InfoHeld
  <2> QED
    BY <1>3, <2>1, ReadOnlyOK DEF StopCheck
<1>4. CASE StopHeat(w)
  <2>1. ASSUME Goto(w, "stop_tenant"), UNCHANGED locals PROVE WorkersOK'
    BY <1>4, <2>1, GotoOK DEF StopHeat, TypeInv, Labels, Drawn,
       Unrecorded, RidHeld, RowHeld, Stopping, InfoHeld
  <2>2. WorkersOK'
    BY <1>1, <1>4, <2>1 DEF StopHeat, Replies
  <2>3. HeatTypeOK'
    BY <1>4 DEF StopHeat, HeatDelete, TypeInv, TypeOK, HeatTypeOK,
       StackStatus, Removing
  <2> QED
    BY <1>4, <2>2, <2>3 DEF StopHeat, TypeInv, TypeOK, WorkersOK,
       TablesTypeOK, tables, history
<1>5. CASE StopTenant(w)
  <2>1. WorkersOK'
    BY <1>5, GotoOK DEF StopTenant, TypeInv, Labels, Drawn,
       Unrecorded, RidHeld, RowHeld, Stopping, InfoHeld
  <2> QED
    BY <1>5, <2>1 DEF StopTenant, rush_tenant_delete, TypeInv, TypeOK,
       WorkersOK, HeatTypeOK, TablesTypeOK, history
<1>6. CASE StopStack(w)
  <2>1. WorkersOK'
    BY <1>1, <1>6 DEF StopStack, Replies
  <2> QED
    BY <1>6, <2>1 DEF StopStack, rush_stack_delete, TypeInv, TypeOK,
       WorkersOK, HeatTypeOK, TablesTypeOK, history
<1> QED
  BY <1>2, <1>3, <1>4, <1>5, <1>6 DEF StopStep

(***************************************************************************)
(* Writing the endpoint of the stack at hand keeps the tables' types.      *)
(***************************************************************************)
LEMMA EndpointKeepsRows ==
  ASSUME TypeInv, NEW w \in Workers, NEW ACTION done, Endpoint(w, done),
         pc[w] \in {"get_update", "list_url"}
  PROVE  /\ TablesTypeOK'
         /\ \A q \in RushIds : rushStack'[q] = None <=> rushStack[q] = None
<1>1. rid[w] \in RushIds /\ row[w] \in RushRow
  BY DEF TypeInv, WorkersOK, LocalsOK, RidHeld, RowHeld
<1>2. WithUrl(w) \in RushRow
  <2>1. WithUrl(w) = [name |-> row[w].name, stack_id |-> row[w].stack_id,
                      status |-> row[w].status, url |-> row[w].stack_id]
    BY <1>1 DEF WithUrl, RushRow
  <2> QED
    BY <1>1, <2>1 DEF RushRow
<1>3. CASE UNCHANGED rushStack
  BY <1>3 DEF Endpoint, TypeInv, TypeOK, TablesTypeOK
<1>4. CASE rush_stack_update(rid[w], row[w], WithUrl(w))
  BY <1>1, <1>2, <1>4, UpdateKeepsRows DEF Endpoint, TypeInv, TypeOK
<1> QED
  BY <1>3, <1>4 DEF Endpoint

(***************************************************************************)
(* Each statement of get_rush keeps the types.                             *)
(***************************************************************************)
LEMMA GetStep_Type ==
  ASSUME TypeInv, NEW w \in Workers, GetStep(w)
  PROVE  TypeInv'
<1>1. ASSUME NEW code \in Replies, Answer(w, code) PROVE WorkersOK'
  BY <1>1, AnswerOK DEF TypeInv
<1>2. CASE GetStack(w)
  <2>1. ASSUME rushStack[rid[w]] # None PROVE WorkersOK'
    <3>1. rid[w] \in RushIds /\ rid = [rid EXCEPT ![w] = rid[w]]
      BY <1>2 DEF GetStack, TypeInv, WorkersOK, WorkersTypeOK, LocalsOK,
         RidHeld
    <3>2. /\ pc[w] # "idle"
          /\ Goto(w, "get_check")
          /\ row' = [row EXCEPT ![w] = rushStack[rid[w]]]
          /\ rid' = [rid EXCEPT ![w] = rid[w]]
          /\ UNCHANGED <<info, todo>>
      BY <1>2, <2>1, <3>1 DEF GetStack
    <3>3. "get_check" \in Labels \ (Drawn \cup InfoHeld)
      BY DEF Labels, Drawn, Unrecorded, InfoHeld
    <3> QED
      BY <2>1, <3>1, <3>2, <3>3, ReadRowOK
  <2>2. WorkersOK'
    BY <1>1, <1>2, <2>1 DEF GetStack, Replies
  <2> QED
    BY <1>2, <2>2, ReadOnlyOK DEF GetStack
<1>3. CASE GetCheck(w)
  <2>1. WorkersOK'
    BY <1>1, <1>3, GotoOK DEF GetCheck, TypeInv, Replies, Labels, Drawn,
       Unrecorded, RidHeld, RowHeld, Stopping, InfoHeld
  <2> QED
    BY <1>3, <2>1, ReadOnlyOK DEF GetCheck
<1>4. CASE GetResources(w)
  <2>1. WorkersOK'
    BY <1>1, <1>4, GotoOK DEF GetResources, Resources, TypeInv, Replies,
       Labels, Drawn, Unrecorded, RidHeld, RowHeld, Stopping, InfoHeld
  <2> QED
    BY <1>4, <2>1, ReadOnlyOK DEF GetResources, Resources
<1>5. CASE GetUpdate(w)
  <2>1. WorkersOK'
    BY <1>1, <1>5 DEF GetUpdate, Endpoint, Replies
  <2>2. TablesTypeOK'
    BY <1>5, EndpointKeepsRows DEF GetUpdate
  <2> QED
    BY <1>5, <2>1, <2>2 DEF GetUpdate, Endpoint, TypeInv, TypeOK, WorkersOK,
       HeatTypeOK, history
<1> QED
  BY <1>2, <1>3, <1>4, <1>5 DEF GetStep

(***************************************************************************)
(* Going to the next row of a listing, or answering after the last one.    *)
(***************************************************************************)
LEMMA NextRowOK ==
  ASSUME TypeInv, NEW w \in Workers, NextRow(w), pc[w] # "idle"
  PROVE  WorkersOK'
<1>1. CASE Answer(w, "OK")
  BY <1>1, AnswerOK DEF TypeInv, Replies
<1>2. CASE /\ todo' = [todo EXCEPT ![w] = @ \ {rid[w]}]
           /\ rid' = [rid EXCEPT ![w] = None]
           /\ row' = [row EXCEPT ![w] = None]
           /\ Goto(w, "list_row")
           /\ UNCHANGED info
  <2>1. WorkersTypeOK'
    BY <1>2 DEF TypeInv, WorkersOK, WorkersTypeOK, Goto, Labels
  <2>2. ASSUME NEW v \in Workers PROVE LocalsOK(v)'
    BY <1>2 DEF TypeInv, WorkersOK, WorkersTypeOK, LocalsOK, Goto, Drawn,
       Unrecorded, RidHeld, RowHeld, Stopping, InfoHeld
  <2> QED
    BY <2>1, <2>2 DEF WorkersOK
<1> QED
  BY <1>1, <1>2 DEF NextRow

(***************************************************************************)
(* Each statement of get_list keeps the types.                             *)
(***************************************************************************)
LEMMA ListRead_Type ==
  ASSUME TypeInv, NEW w \in Workers,
         ListTenants(w) \/ ListRow(w) \/ ListStacks(w) \/ ListResources(w)
  PROVE  TypeInv'
<1>1. ASSUME NEW code \in Replies, Answer(w, code) PROVE WorkersOK'
  BY <1>1, AnswerOK DEF TypeInv
<1>2. CASE ListTenants(w)
  <2>1. ASSUME todo' = [todo EXCEPT ![w] = RushesOf(req[w].tenant)],
               Goto(w, "list_row"), UNCHANGED <<rid, row, info>>
        PROVE  WorkersOK'
    <3>1. WorkersTypeOK'
      BY <2>1 DEF TypeInv, WorkersOK, WorkersTypeOK, Goto, Labels, RushesOf
    <3>2. ASSUME NEW v \in Workers PROVE LocalsOK(v)'
      BY <1>2, <2>1 DEF ListTenants, TypeInv, WorkersOK, WorkersTypeOK,
         LocalsOK, Goto, Drawn, Unrecorded, RidHeld, RowHeld, Stopping,
         InfoHeld
    <3> QED
      BY <3>1, <3>2 DEF WorkersOK
  <2>2. WorkersOK'
    BY <1>1, <1>2, <2>1 DEF ListTenants, Replies
  <2> QED
    BY <1>2, <2>2, ReadOnlyOK DEF ListTenants
<1>3. CASE ListRow(w)
  <2>1. PICK r \in todo[w] :
           \/ Answer(w, "AttributeError")
           \/ /\ rushStack[r] # None
              /\ rid' = [rid EXCEPT ![w] = r]
              /\ row' = [row EXCEPT ![w] = rushStack[r]]
              /\ Goto(w, "list_stacks")
              /\ UNCHANGED <<info, todo>>
    BY <1>3 DEF ListRow
  <2>2. r \in RushIds /\ pc[w] # "idle"
    BY <1>3 DEF ListRow, TypeInv, WorkersOK, WorkersTypeOK
  <2>3. "list_stacks" \in Labels \ (Drawn \cup InfoHeld)
    BY DEF Labels, Drawn, Unrecorded, InfoHeld
  <2>4. WorkersOK'
    BY <1>1, <2>1, <2>2, <2>3, ReadRowOK DEF Replies
  <2> QED
    BY <1>3, <2>4, ReadOnlyOK DEF ListRow
<1>4. CASE ListStacks(w)
  <2>1. ASSUME NEW i \in LoopResult(w),
               info' = [info EXCEPT ![w] = i],
               Goto(w, IF i.name = RowStackName(w)
                       THEN "list_status" ELSE "list_resources"),
               UNCHANGED <<rid, row, todo>>
        PROVE  WorkersOK'
    <3>1. req[w].tenant \in Tenants
      BY <1>4 DEF ListStacks, TypeInv, WorkersOK, LocalsOK, Requests
    <3>2. i \in StackInfo
      BY <3>1, InfoType DEF LoopResult, Named, TypeInv, TypeOK, WorkersOK,
         WorkersTypeOK
    <3>3. WorkersTypeOK'
      BY <2>1, <3>2 DEF TypeInv, WorkersOK, WorkersTypeOK, Goto, Labels
    <3>4. ASSUME NEW v \in Workers PROVE LocalsOK(v)'
      BY <1>4, <2>1, <3>2 DEF ListStacks, TypeInv, WorkersOK, WorkersTypeOK,
         LocalsOK, Goto, Drawn, Unrecorded, RidHeld, RowHeld, Stopping,
         InfoHeld
    <3> QED
      BY <3>3, <3>4 DEF WorkersOK
  <2>2. WorkersOK'
    BY <1>1, <1>4, <2>1 DEF ListStacks, Replies
  <2> QED
    BY <1>4, <2>2, ReadOnlyOK DEF ListStacks
<1>5. CASE ListResources(w)
  <2>1. WorkersOK'
    BY <1>1, <1>5, GotoOK, NextRowOK DEF ListResources, Resources, TypeInv,
       Replies, Labels, Drawn, Unrecorded, RidHeld, RowHeld, Stopping,
       InfoHeld
  <2> QED
    BY <1>5, <2>1, ReadOnlyOK DEF ListResources, Resources
<1> QED
  BY <1>2, <1>3, <1>4, <1>5

LEMMA ListStatus_Type ==
  ASSUME TypeInv, NEW w \in Workers, ListStatus(w)
  PROVE  /\ TypeInv'
         /\ \A q \in RushIds : rushStack'[q] = None <=> rushStack[q] = None
<1> DEFINE new == [row[w] EXCEPT !.status = info[w].status]
<1>1. /\ rid[w] \in RushIds
      /\ row[w] \in RushRow
      /\ info[w] \in StackInfo
  BY DEF ListStatus, TypeInv, WorkersOK, LocalsOK, RidHeld, RowHeld, InfoHeld
<1>2. new \in RushRow
  <2>1. new = [name |-> row[w].name, stack_id |-> row[w].stack_id,
               status |-> info[w].status, url |-> row[w].url]
    BY <1>1 DEF RushRow
  <2> HIDE DEF new
  <2> QED
    BY <1>1, <2>1 DEF RushRow, StackInfo
<1>3. \/ /\ Answer(w, "StaleDataError")
         /\ UNCHANGED rushStack
      \/ /\ rush_stack_update(rid[w], row[w], new)
         /\ row' = [row EXCEPT ![w] = new]
         /\ Goto(w, "list_resources")
         /\ UNCHANGED <<rid, info, todo>>
  BY DEF ListStatus
<1>4. UNCHANGED <<heat, rushTenant, history>> /\ pc[w] = "list_status"
  BY DEF ListStatus
<1> HIDE DEF new
<1>5. /\ TablesTypeOK'
      /\ \A q \in RushIds : rushStack'[q] = None <=> rushStack[q] = None
  BY <1>1, <1>2, <1>3, <1>4, UpdateKeepsRows DEF TypeInv, TypeOK, TablesTypeOK
<1>6. WorkersOK'
  <2>1. CASE Answer(w, "StaleDataError")
    BY <2>1, AnswerOK DEF TypeInv, Replies
  <2>2. CASE /\ row' = [row EXCEPT ![w] = new]
             /\ Goto(w, "list_resources")
             /\ UNCHANGED <<rid, info, todo>>
    <3>1. WorkersTypeOK'
      BY <1>2, <2>2 DEF TypeInv, WorkersOK, WorkersTypeOK, Goto, Labels
    <3>2. ASSUME NEW v \in Workers PROVE LocalsOK(v)'
      BY <1>1, <1>2, <1>4, <2>2 DEF TypeInv, WorkersOK, WorkersTypeOK,
         LocalsOK, Goto, Drawn, Unrecorded, RidHeld, RowHeld, Stopping,
         InfoHeld
    <3> QED
      BY <3>1, <3>2 DEF WorkersOK
  <2> QED
    BY <1>3, <2>1, <2>2
<1> QED
  BY <1>4, <1>5, <1>6 DEF TypeInv, TypeOK, WorkersOK, HeatTypeOK, history

LEMMA ListUrl_Type ==
  ASSUME TypeInv, NEW w \in Workers, ListUrl(w)
  PROVE  TypeInv'
<1>1. WorkersOK'
  BY AnswerOK, NextRowOK DEF ListUrl, Endpoint, TypeInv, Replies
<1>2. TablesTypeOK'
  BY EndpointKeepsRows DEF ListUrl
<1> QED
  BY <1>1, <1>2 DEF ListUrl, Endpoint, TypeInv, TypeOK, WorkersOK,
     HeatTypeOK, history

(***************************************************************************)
(* A failed call and a crash leave the tables and Heat as they were.       *)
(***************************************************************************)
LEMMA Failure_Type ==
  ASSUME TypeInv, NEW w \in Workers, CallFails(w) \/ Crash(w)
  PROVE  TypeInv'
<1>1. WorkersOK'
  BY AnswerOK DEF CallFails, Crash, TypeInv, Replies
<1> QED
  BY <1>1, ReadOnlyOK DEF CallFails, Crash

(***************************************************************************)
(* Every step of the system keeps the types.                               *)
(***************************************************************************)
LEMMA NextTypeInv == TypeInv /\ [Next]_vars => TypeInv'
<1> SUFFICES ASSUME TypeInv, [Next]_vars PROVE TypeInv'
  OBVIOUS
<1>1. ASSUME NEW w \in Workers, Receive(w) PROVE TypeInv'
  BY <1>1, ReceiveType
<1>2. ASSUME NEW w \in Workers, StartStep(w) PROVE TypeInv'
  BY <1>2, StartType_Type, StartCreate_Type, StartList_Type, StartStack_Type,
     StartTenant_Type DEF StartStep
<1>3. ASSUME NEW w \in Workers, StopStep(w) PROVE TypeInv'
  BY <1>3, StopStep_Type
<1>4. ASSUME NEW w \in Workers, GetStep(w) PROVE TypeInv'
  BY <1>4, GetStep_Type
<1>5. ASSUME NEW w \in Workers, ListStep(w) PROVE TypeInv'
  BY <1>5, ListRead_Type, ListStatus_Type, ListUrl_Type DEF ListStep
<1>6. ASSUME NEW w \in Workers, CallFails(w) \/ Crash(w) PROVE TypeInv'
  BY <1>6, Failure_Type
<1>7. CASE HeatMoves
  <2>1. HeatTypeOK'
    BY <1>7, HeatMovesType DEF TypeInv, TypeOK
  <2>2. UNCHANGED <<tables, pc, req, reply, locals, history>>
    BY <1>7 DEF HeatMoves
  <2>3. TablesTypeOK' /\ issued' \subseteq RushIds /\ listed' \subseteq RushIds
    BY <2>2 DEF TypeInv, TypeOK, TablesTypeOK, tables, history
  <2>4. WorkersOK'
    BY <2>2 DEF TypeInv, WorkersOK, WorkersTypeOK, LocalsOK, locals
  <2> QED
    BY <2>1, <2>3, <2>4 DEF TypeInv, TypeOK, WorkersOK
<1>8. CASE UNCHANGED vars
  BY <1>8 DEF vars, tables, locals, history, TypeInv, TypeOK, WorkersOK,
     WorkersTypeOK, LocalsOK, HeatTypeOK, TablesTypeOK
<1> QED
  BY <1>1, <1>2, <1>3, <1>4, <1>5, <1>6, <1>7, <1>8 DEF Next, MethodStep

(***************************************************************************)
(* Every variable keeps its type, and the locals that a statement reads    *)
(* are bound when it runs.                                                 *)
(***************************************************************************)
THEOREM TypeCorrect == Spec => []TypeInv
<1> QED
  BY InitTypeInv, NextTypeInv, PTL DEF Spec

-----------------------------------------------------------------------------
(***************************************************************************)
(* The life of a rush.                                                     *)
(***************************************************************************)
LEMMA InitLifeInv == Init => LifeInv
BY DEF Init, TablesInit, LifeInv, StartOK, StopOK, DrawnApart, RushOK, Owners,
   Drawn, Unrecorded, Stopping

(***************************************************************************)
(* What a step of worker w leaves to the others.                           *)
(***************************************************************************)
OthersStay(w) ==
    \A v \in Workers \ {w} :
        pc'[v] = pc[v] /\ rid'[v] = rid[v] /\ req'[v] = req[v]

(***************************************************************************)
(* The tables have the same rows as before, whatever the rows hold.        *)
(***************************************************************************)
SameRows ==
    /\ UNCHANGED <<rushTenant, history>>
    /\ \A q \in RushIds : rushStack'[q] = None <=> rushStack[q] = None

(***************************************************************************)
(* A step that neither changes which rows there are nor takes its worker   *)
(* into a critical part of a start or of a stop.                           *)
(***************************************************************************)
LEMMA QuietOK ==
  ASSUME EngineInv, NEW w \in Workers, OthersStay(w), SameRows,
         pc'[w] \notin Drawn \cup Stopping
  PROVE  LifeInv'
<1>1. \A r \in RushIds : Owners(r)' = Owners(r)
  BY DEF SameRows, Owners
<1>2. \A r \in RushIds : RushOK(r)'
  BY <1>1 DEF SameRows, history, EngineInv, LifeInv, RushOK
<1>3. listed' \subseteq issued'
  BY DEF SameRows, history, EngineInv, LifeInv
<1>4. DrawnApart'
  BY DEF OthersStay, EngineInv, LifeInv, DrawnApart
<1>5. ASSUME NEW v \in Workers PROVE StartOK(v)' /\ StopOK(v)'
  <2>1. CASE v = w
    BY <2>1 DEF StartOK, StopOK, Drawn, Stopping
  <2>2. CASE v # w
    <3>1. pc'[v] = pc[v] /\ rid'[v] = rid[v] /\ req'[v] = req[v]
      BY <2>2 DEF OthersStay
    <3>2. pc[v] \in RidHeld => rid[v] \in RushIds
      BY DEF EngineInv, TypeInv, WorkersOK, LocalsOK
    <3>3. StartOK(v) /\ StopOK(v)
      BY DEF EngineInv, LifeInv
    <3>4. StartOK(v)'
      BY <3>1, <3>2, <3>3 DEF SameRows, history, StartOK, RidHeld, Drawn
    <3>5. StopOK(v)'
      BY <1>1, <3>1, <3>2, <3>3 DEF SameRows, history, StopOK, RidHeld,
         RowHeld, Stopping
    <3> QED
      BY <3>4, <3>5
  <2> QED
    BY <2>1, <2>2
<1> QED
  BY <1>2, <1>3, <1>4, <1>5 DEF LifeInv

(***************************************************************************)
(* A step that moves its worker on within a start before the record is     *)
(* written, or from the deletion in Heat to that of the rows.              *)
(***************************************************************************)
LEMMA OnwardOK ==
  ASSUME EngineInv, NEW w \in Workers, OthersStay(w),
         UNCHANGED <<tables, history>>,
         rid'[w] = rid[w], req'[w] = req[w],
         \/ pc[w] \in Unrecorded /\ pc'[w] \in Unrecorded
         \/ pc[w] = "stop_heat" /\ pc'[w] = "stop_tenant"
  PROVE  LifeInv'
<1>1. \A r \in RushIds : Owners(r)' = Owners(r)
  BY DEF tables, Owners
<1>2. \A r \in RushIds : RushOK(r)'
  BY <1>1 DEF tables, history, EngineInv, LifeInv, RushOK
<1>3. listed' \subseteq issued'
  BY DEF history, EngineInv, LifeInv
<1>4. DrawnApart'
  BY DEF OthersStay, EngineInv, LifeInv, DrawnApart, Drawn, Unrecorded
<1>5. ASSUME NEW v \in Workers PROVE StartOK(v)' /\ StopOK(v)'
  <2>1. rid'[v] = rid[v] /\ req'[v] = req[v]
    BY DEF OthersStay
  <2>2. pc'[v] = pc[v] \/ v = w
    BY DEF OthersStay
  <2>3. pc[v] \in RidHeld => rid[v] \in RushIds
    BY DEF EngineInv, TypeInv, WorkersOK, LocalsOK
  <2>4. StartOK(v) /\ StopOK(v)
    BY DEF EngineInv, LifeInv
  <2>5. StartOK(v)'
    BY <2>1, <2>2, <2>4 DEF tables, history, StartOK, Drawn, Unrecorded
  <2>6. StopOK(v)'
    BY <1>1, <2>1, <2>2, <2>3, <2>4 DEF history, StopOK, RidHeld, RowHeld,
       Stopping, Unrecorded
  <2> QED
    BY <2>5, <2>6
<1> QED
  BY <1>2, <1>3, <1>4, <1>5 DEF LifeInv

(***************************************************************************)
(* Answering is quiet when the tables keep their rows.                     *)
(***************************************************************************)
LEMMA AnswerStays ==
  ASSUME TypeInv, NEW w \in Workers, NEW code, Answer(w, code)
  PROVE  OthersStay(w) /\ pc'[w] = "idle"
BY DEF TypeInv, TypeOK, WorkersTypeOK, Answer, OthersStay

LEMMA GotoStays ==
  ASSUME TypeInv, NEW w \in Workers, NEW label, Goto(w, label), UNCHANGED rid
  PROVE  /\ OthersStay(w)
         /\ pc'[w] = label /\ rid'[w] = rid[w] /\ req'[w] = req[w]
BY DEF TypeInv, TypeOK, WorkersTypeOK, Goto, OthersStay

(***************************************************************************)
(* The steps that change which rows there are, or what a start or a stop   *)
(* knows about them.  First the start that draws its identifier.           *)
(***************************************************************************)
LEMMA StartType_Life ==
  ASSUME EngineInv, NEW w \in Workers, StartType(w)
  PROVE  LifeInv'
<1> TypeInv
  BY DEF EngineInv
<1>1. UNCHANGED <<tables, listed>>
  BY DEF StartType
<1>2. ASSUME NEW code, Answer(w, code), UNCHANGED issued PROVE LifeInv'
  <2>1. SameRows
    BY <1>1, <1>2 DEF SameRows, tables, history
  <2> QED
    BY <1>2, <2>1, AnswerStays, QuietOK DEF Drawn, Unrecorded, Stopping
<1>3. ASSUME NEW r \in RushIds \ issued, rid' = [rid EXCEPT ![w] = r],
             issued' = issued \cup {r}, Goto(w, "start_create")
      PROVE  LifeInv'
  <2>1. /\ rid'[w] = r /\ pc'[w] = "start_create"
        /\ \A v \in Workers \ {w} :
              pc'[v] = pc[v] /\ rid'[v] = rid[v] /\ req'[v] = req[v]
    BY <1>3 DEF TypeInv, TypeOK, WorkersTypeOK, Goto
  <2>2. \A q \in RushIds : Owners(q)' = Owners(q)
    BY <1>1 DEF tables, Owners
  <2>3. rushStack[r] = None /\ r \notin listed
    BY DEF EngineInv, LifeInv, RushOK
  <2>4. \A q \in RushIds : RushOK(q)'
    BY <1>1, <1>3, <2>2 DEF tables, EngineInv, LifeInv, RushOK
  <2>5. DrawnApart'
    <3>1. \A v \in Workers : pc[v] \in Drawn => rid[v] # r
      BY DEF EngineInv, LifeInv, StartOK
    <3> QED
      BY <2>1, <3>1 DEF EngineInv, LifeInv, DrawnApart
  <2>6. ASSUME NEW v \in Workers PROVE StartOK(v)' /\ StopOK(v)'
    <3>1. CASE v = w
      BY <1>1, <1>3, <2>1, <2>3, <3>1 DEF tables, StartOK, StopOK, Drawn,
         Unrecorded, Stopping
    <3>2. CASE v # w
      <4>1. pc'[v] = pc[v] /\ rid'[v] = rid[v] /\ req'[v] = req[v]
        BY <2>1, <3>2
      <4>2. pc[v] \in RidHeld => rid[v] \in RushIds
        BY DEF TypeInv, WorkersOK, LocalsOK
      <4>3. StartOK(v) /\ StopOK(v)
        BY DEF EngineInv, LifeInv
      <4>4. StartOK(v)'
        BY <1>1, <1>3, <4>1, <4>3 DEF tables, StartOK
      <4>5. StopOK(v)'
        BY <1>1, <2>2, <4>1, <4>2, <4>3 DEF StopOK, RidHeld, RowHeld,
           Stopping
      <4> QED
        BY <4>4, <4>5
    <3> QED
      BY <3>1, <3>2
  <2> QED
    BY <1>1, <1>3, <2>4, <2>5, <2>6 DEF EngineInv, LifeInv
<1> QED
  BY <1>2, <1>3 DEF StartType

(***************************************************************************)
(* The record is written, for the identifier that is the start's own.      *)
(***************************************************************************)
LEMMA StartStack_Life ==
  ASSUME EngineInv, NEW w \in Workers, StartStack(w)
  PROVE  /\ LifeInv'
         /\ rushStack[rid[w]] = None /\ rushStack'[rid[w]] # None
         /\ \A q \in RushIds \ {rid[w]} : rushStack'[q] = rushStack[q]
<1> TypeInv
  BY DEF EngineInv
<1>1. OthersStay(w) /\ pc'[w] = "start_tenant" /\ rid'[w] = rid[w]
  BY GotoStays DEF StartStack, locals
<1>2. pc[w] = "start_stack" /\ UNCHANGED <<rushTenant, history>>
  BY DEF StartStack
<1>3. rid[w] \in RushIds /\ rid[w] \in issued \ listed
  BY <1>2 DEF TypeInv, WorkersOK, LocalsOK, RidHeld, EngineInv, LifeInv,
     StartOK, Drawn, Unrecorded
<1>4. rushStack'[rid[w]] # None
  <2>1. TypeInv'
    BY StartStack_Type
  <2>2. req[w].name \in RushNames /\ info[w] \in StackInfo
    BY <1>2 DEF TypeInv, WorkersOK, LocalsOK, Drawn, Unrecorded, InfoHeld
  <2>3. [name |-> req[w].name, stack_id |-> info[w].id,
         status |-> info[w].status, url |-> None] \in RushRow
    BY <2>2 DEF RushRow, StackInfo
  <2> QED
    BY <1>3, <2>3, RowAssumption DEF StartStack, rush_stack_create, TypeInv,
       TypeOK, TablesTypeOK
<1>5. \A q \in RushIds \ {rid[w]} : rushStack'[q] = rushStack[q]
  BY DEF StartStack, rush_stack_create, TypeInv, TypeOK, TablesTypeOK
<1>6. rushStack[rid[w]] = None
  BY <1>2 DEF EngineInv, LifeInv, StartOK, Unrecorded
<1>7. \A q \in RushIds : Owners(q)' = Owners(q)
  BY <1>2 DEF Owners
<1>8. \A q \in RushIds : RushOK(q)'
  BY <1>2, <1>3, <1>4, <1>5, <1>7 DEF history, EngineInv, LifeInv, RushOK
<1>9. DrawnApart'
  BY <1>1, <1>2 DEF OthersStay, EngineInv, LifeInv, DrawnApart, Drawn,
     Unrecorded
<1>10. ASSUME NEW v \in Workers PROVE StartOK(v)' /\ StopOK(v)'
  <2>1. CASE v = w
    BY <1>1, <1>2, <1>3, <1>4, <2>1 DEF history, StartOK, StopOK, Unrecorded,
       Stopping
  <2>2. CASE v # w
    <3>1. pc'[v] = pc[v] /\ rid'[v] = rid[v] /\ req'[v] = req[v]
      BY <1>1, <2>2 DEF OthersStay
    <3>2. pc[v] \in RidHeld => rid[v] \in RushIds
      BY DEF TypeInv, WorkersOK, LocalsOK
    <3>3. StartOK(v) /\ StopOK(v)
      BY DEF EngineInv, LifeInv
    <3>4. pc[v] \in Drawn => rid[v] # rid[w]
      BY <1>2, <2>2 DEF EngineInv, LifeInv, DrawnApart, Drawn, Unrecorded
    <3>5. StartOK(v)'
      BY <1>2, <1>5, <3>1, <3>2, <3>3, <3>4 DEF history, StartOK, RidHeld,
         Drawn
    <3>6. StopOK(v)'
      BY <1>2, <1>7, <3>1, <3>2, <3>3 DEF history, StopOK, RidHeld, RowHeld,
         Stopping
    <3> QED
      BY <3>5, <3>6
  <2> QED
    BY <2>1, <2>2
<1> QED
  BY <1>2, <1>4, <1>5, <1>6, <1>8, <1>9, <1>10 DEF history, EngineInv,
     LifeInv

(***************************************************************************)
(* The rush is listed: nobody is stopping it yet.                          *)
(***************************************************************************)
LEMMA StartTenant_Life ==
  ASSUME EngineInv, NEW w \in Workers, StartTenant(w), NEW r, r = rid[w]
  PROVE  /\ LifeInv'
         /\ r \in RushIds \ listed
         /\ listed' = listed \cup {r}
         /\ rushStack[r] # None
         /\ Owners(r) = {} /\ Owners(r)' = {req[w].tenant}
         /\ \A q \in RushIds \ {r} : Owners(q)' = Owners(q)
<1> TypeInv
  BY DEF EngineInv
<1>1. OthersStay(w) /\ pc'[w] = "idle"
  BY AnswerStays DEF StartTenant
<1>2. /\ pc[w] = "start_tenant"
      /\ UNCHANGED <<rushStack, issued>>
      /\ listed' = listed \cup {r}
      /\ rushTenant' = rushTenant \cup {<<r, req[w].tenant>>}
  BY DEF StartTenant, rush_tenant_create
<1>3. /\ r \in RushIds /\ r \in issued \ listed
      /\ rushStack[r] # None
      /\ req[w].tenant \in Tenants
  BY <1>2 DEF TypeInv, WorkersOK, LocalsOK, RidHeld, EngineInv, LifeInv,
     StartOK, Drawn, Unrecorded, Requests
<1>4. Owners(r) = {}
  BY <1>3 DEF EngineInv, LifeInv, RushOK
<1>5. Owners(r)' = {req[w].tenant}
  BY <1>2, <1>3, <1>4 DEF Owners
<1>6. \A q \in RushIds \ {r} : Owners(q)' = Owners(q)
  BY <1>2 DEF Owners
<1>7. \A q \in RushIds : RushOK(q)'
  BY <1>2, <1>3, <1>5, <1>6 DEF EngineInv, LifeInv, RushOK
<1>8. DrawnApart'
  BY <1>1 DEF OthersStay, EngineInv, LifeInv, DrawnApart, Drawn, Unrecorded
<1>9. ASSUME NEW v \in Workers PROVE StartOK(v)' /\ StopOK(v)'
  <2>1. CASE v = w
    BY <1>1, <2>1 DEF StartOK, StopOK, Drawn, Unrecorded, Stopping
  <2>2. CASE v # w
    <3>1. pc'[v] = pc[v] /\ rid'[v] = rid[v] /\ req'[v] = req[v]
      BY <1>1, <2>2 DEF OthersStay
    <3>2. pc[v] \in RidHeld => rid[v] \in RushIds
      BY DEF TypeInv, WorkersOK, LocalsOK
    <3>3. StartOK(v) /\ StopOK(v)
      BY DEF EngineInv, LifeInv
    <3>4. pc[v] \in Drawn => rid[v] # r
      BY <1>2, <2>2 DEF EngineInv, LifeInv, DrawnApart, Drawn
    <3>5. pc[v] \in Stopping => rid[v] # r
      BY <1>3, <3>3 DEF StopOK
    <3>6. StartOK(v)'
      BY <1>2, <3>1, <3>3, <3>4 DEF StartOK
    <3>7. StopOK(v)'
      BY <1>2, <1>6, <3>1, <3>2, <3>3, <3>5 DEF StopOK, RidHeld, RowHeld,
         Stopping
    <3> QED
      BY <3>6, <3>7
  <2> QED
    BY <2>1, <2>2
<1> QED
  BY <1>2, <1>3, <1>4, <1>5, <1>6, <1>7, <1>8, <1>9 DEF EngineInv, LifeInv

(***************************************************************************)
(* The stop that passes its check deals with a listed rush of its tenant.  *)
(***************************************************************************)
LEMMA StopCheck_Life ==
  ASSUME EngineInv, NEW w \in Workers, StopCheck(w)
  PROVE  LifeInv' /\ SameRows
<1> TypeInv
  BY DEF EngineInv
<1>1. UNCHANGED <<tables, history>>
  BY DEF StopCheck
<1>2. SameRows
  BY <1>1 DEF SameRows, tables
<1>3. CASE Answer(w, "AttributeError")
  BY <1>2, <1>3, AnswerStays, QuietOK DEF Drawn, Unrecorded, Stopping
<1>4. CASE /\ <<rid[w], req[w].tenant>> \in rushTenant
           /\ Goto(w, "stop_heat")
           /\ UNCHANGED locals
  <2>1. /\ OthersStay(w) /\ pc'[w] = "stop_heat"
        /\ rid'[w] = rid[w] /\ req'[w] = req[w]
    BY <1>4, GotoStays DEF locals
  <2>2. \A q \in RushIds : Owners(q)' = Owners(q)
    BY <1>1 DEF tables, Owners
  <2>3. \A q \in RushIds : RushOK(q)'
    BY <1>1, <2>2 DEF tables, history, EngineInv, LifeInv, RushOK
  <2>4. DrawnApart'
    BY <2>1 DEF OthersStay, EngineInv, LifeInv, DrawnApart, Drawn, Unrecorded
  <2>5. rid[w] \in RushIds /\ req[w].tenant \in Owners(rid[w])
    BY <1>4 DEF StopCheck, TypeInv, WorkersOK, LocalsOK, RidHeld, RowHeld,
       Owners, Requests
  <2>6. rid[w] \in listed /\ Owners(rid[w]) \subseteq {req[w].tenant}
    BY <2>5 DEF EngineInv, LifeInv, RushOK
  <2>7. ASSUME NEW v \in Workers PROVE StartOK(v)' /\ StopOK(v)'
    <3>1. CASE v = w
      <4>1. rid'[v] = rid[w]
        BY <2>1, <3>1
      <4>2. Owners(rid[v])' = Owners(rid[w])
        BY <1>1, <4>1 DEF tables, Owners
      <4> QED
        BY <1>1, <2>1, <2>6, <3>1, <4>2 DEF history, StartOK, StopOK, Drawn,
           Unrecorded
    <3>2. CASE v # w
      <4>1. pc'[v] = pc[v] /\ rid'[v] = rid[v] /\ req'[v] = req[v]
        BY <2>1, <3>2 DEF OthersStay
      <4>2. pc[v] \in RidHeld => rid[v] \in RushIds
        BY DEF TypeInv, WorkersOK, LocalsOK
      <4>3. StartOK(v) /\ StopOK(v)
        BY DEF EngineInv, LifeInv
      <4>4. StartOK(v)'
        BY <1>1, <4>1, <4>3 DEF tables, history, StartOK
      <4>5. StopOK(v)'
        BY <1>1, <2>2, <4>1, <4>2, <4>3 DEF history, StopOK, RidHeld,
           RowHeld, Stopping
      <4> QED
        BY <4>4, <4>5
    <3> QED
      BY <3>1, <3>2
  <2> QED
    BY <1>1, <1>2, <2>3, <2>4, <2>7 DEF history, EngineInv, LifeInv
<1> QED
  BY <1>3, <1>4 DEF StopCheck

(***************************************************************************)
(* The row of rush_tenant is deleted: it was the only one of its rush.     *)
(***************************************************************************)
LEMMA StopTenant_Life ==
  ASSUME EngineInv, NEW w \in Workers, StopTenant(w), NEW r, r = rid[w]
  PROVE  /\ LifeInv'
         /\ r \in RushIds /\ r \in listed
         /\ Owners(r)' = {}
         /\ \A q \in RushIds \ {r} : Owners(q)' = Owners(q)
<1> TypeInv
  BY DEF EngineInv
<1>1. /\ OthersStay(w) /\ pc'[w] = "stop_stack"
      /\ rid'[w] = r /\ req'[w] = req[w]
  BY GotoStays DEF StopTenant, locals
<1>2. /\ pc[w] = "stop_tenant"
      /\ UNCHANGED <<rushStack, history>>
      /\ rushTenant' = rushTenant \ {<<r, req[w].tenant>>}
  BY DEF StopTenant, rush_tenant_delete
<1>3. r \in RushIds /\ r \in listed /\ Owners(r) \subseteq {req[w].tenant}
  BY <1>2 DEF TypeInv, WorkersOK, LocalsOK, RidHeld, RowHeld, Stopping,
     EngineInv, LifeInv, StopOK
<1>4. Owners(r)' = {}
  <2>1. \A t \in Tenants : <<r, t>> \in rushTenant => t = req[w].tenant
    BY <1>3 DEF Owners
  <2> QED
    BY <1>2, <2>1 DEF Owners
<1>5. \A q \in RushIds \ {r} : Owners(q)' = Owners(q)
  BY <1>2 DEF Owners
<1>6. \A q \in RushIds : RushOK(q)'
  BY <1>2, <1>4, <1>5 DEF history, EngineInv, LifeInv, RushOK
<1>7. DrawnApart'
  BY <1>1 DEF OthersStay, EngineInv, LifeInv, DrawnApart, Drawn, Unrecorded
<1>8. ASSUME NEW v \in Workers PROVE StartOK(v)' /\ StopOK(v)'
  <2>1. CASE v = w
    <3>1. Owners(rid[v])' = {}
      BY <1>1, <1>4, <2>1 DEF Owners
    <3> QED
      BY <1>1, <1>2, <1>3, <2>1, <3>1 DEF history, StartOK, StopOK, Drawn,
         Unrecorded
  <2>2. CASE v # w
    <3>1. pc'[v] = pc[v] /\ rid'[v] = rid[v] /\ req'[v] = req[v]
      BY <1>1, <2>2 DEF OthersStay
    <3>2. pc[v] \in RidHeld => rid[v] \in RushIds
      BY DEF TypeInv, WorkersOK, LocalsOK
    <3>3. StartOK(v) /\ StopOK(v)
      BY DEF EngineInv, LifeInv
    <3>4. StartOK(v)'
      BY <1>2, <3>1, <3>3 DEF history, StartOK
    <3>5. pc[v] \in Stopping => Owners(rid[v])' \subseteq Owners(rid[v])
      BY <1>2, <3>1 DEF Owners
    <3>6. StopOK(v)'
      BY <1>2, <3>1, <3>3, <3>5 DEF history, StopOK, Stopping
    <3> QED
      BY <3>4, <3>6
  <2> QED
    BY <2>1, <2>2
<1> QED
  BY <1>2, <1>3, <1>4, <1>5, <1>6, <1>7, <1>8 DEF history, EngineInv, LifeInv

(***************************************************************************)
(* The record is deleted: its rush is listed for nobody, and no start has  *)
(* its identifier.                                                         *)
(***************************************************************************)
LEMMA StopStack_Life ==
  ASSUME EngineInv, NEW w \in Workers, StopStack(w), NEW r, r = rid[w]
  PROVE  /\ LifeInv'
         /\ r \in RushIds /\ r \in listed /\ Owners(r) = {}
         /\ rushStack'[r] = None
         /\ \A q \in RushIds \ {r} : rushStack'[q] = rushStack[q]
<1> TypeInv
  BY DEF EngineInv
<1>1. OthersStay(w) /\ pc'[w] = "idle"
  BY AnswerStays DEF StopStack
<1>2. /\ pc[w] = "stop_stack"
      /\ UNCHANGED <<rushTenant, history>>
      /\ rushStack' = [rushStack EXCEPT ![r] = None]
  BY DEF StopStack, rush_stack_delete
<1>3. r \in RushIds /\ r \in listed /\ Owners(r) = {}
  BY <1>2 DEF TypeInv, WorkersOK, LocalsOK, RidHeld, RowHeld, Stopping,
     EngineInv, LifeInv, StopOK
<1>4. /\ rushStack'[r] = None
      /\ \A q \in RushIds \ {r} : rushStack'[q] = rushStack[q]
  BY <1>2, <1>3 DEF TypeInv, TypeOK, TablesTypeOK
<1>5. \A q \in RushIds : Owners(q)' = Owners(q)
  BY <1>2 DEF Owners
<1>6. \A q \in RushIds : RushOK(q)'
  BY <1>2, <1>3, <1>4, <1>5 DEF history, EngineInv, LifeInv, RushOK
<1>7. DrawnApart'
  BY <1>1 DEF OthersStay, EngineInv, LifeInv, DrawnApart, Drawn, Unrecorded
<1>8. ASSUME NEW v \in Workers PROVE StartOK(v)' /\ StopOK(v)'
  <2>1. CASE v = w
    BY <1>1, <2>1 DEF StartOK, StopOK, Drawn, Unrecorded, Stopping
  <2>2. CASE v # w
    <3>1. pc'[v] = pc[v] /\ rid'[v] = rid[v] /\ req'[v] = req[v]
      BY <1>1, <2>2 DEF OthersStay
    <3>2. pc[v] \in RidHeld => rid[v] \in RushIds
      BY DEF TypeInv, WorkersOK, LocalsOK
    <3>3. StartOK(v) /\ StopOK(v)
      BY DEF EngineInv, LifeInv
    <3>4. pc[v] \in Drawn => rid[v] # r
      BY <1>3, <3>3 DEF StartOK
    <3>5. StartOK(v)'
      BY <1>2, <1>4, <3>1, <3>2, <3>3, <3>4 DEF history, StartOK, RidHeld,
         Drawn
    <3>6. StopOK(v)'
      BY <1>2, <1>5, <3>1, <3>2, <3>3 DEF history, StopOK, RidHeld, RowHeld,
         Stopping
    <3> QED
      BY <3>5, <3>6
  <2> QED
    BY <2>1, <2>2
<1> QED
  BY <1>2, <1>3, <1>4, <1>6, <1>7, <1>8 DEF history, EngineInv, LifeInv

(***************************************************************************)
(* Every other step is quiet.                                              *)
(***************************************************************************)
LEMMA ReadingIsQuiet ==
  ASSUME EngineInv, NEW w \in Workers, OthersStay(w),
         UNCHANGED <<tables, history>>, pc'[w] \notin Drawn \cup Stopping
  PROVE  LifeInv' /\ SameRows
<1>1. SameRows
  BY DEF SameRows, tables
<1> QED
  BY <1>1, QuietOK

LEMMA Receive_Life ==
  ASSUME EngineInv, NEW w \in Workers, Receive(w)
  PROVE  LifeInv' /\ SameRows /\ OthersStay(w) /\ pc'[w] \notin Drawn \cup Stopping
<1>1. ASSUME NEW q,
             NEW label \in {"start_type", "stop_get", "get_stack",
                            "list_tenants"},
             Accept(w, q, label)
      PROVE  OthersStay(w) /\ UNCHANGED <<tables, history>> /\ pc'[w] = label
  BY <1>1 DEF Accept, OthersStay, EngineInv, TypeInv, TypeOK, WorkersTypeOK
<1>2. OthersStay(w) /\ UNCHANGED <<tables, history>>
      /\ pc'[w] \in {"start_type", "stop_get", "get_stack", "list_tenants"}
  BY <1>1 DEF Receive, Start, Stop, Get, List
<1> QED
  BY <1>2, ReadingIsQuiet DEF Drawn, Unrecorded, Stopping

LEMMA Onward_Life ==
  ASSUME EngineInv, NEW w \in Workers,
         StartCreate(w) \/ StartList(w) \/ StopHeat(w)
  PROVE  LifeInv' /\ SameRows
<1>1. UNCHANGED <<tables, history>>
  BY DEF StartCreate, StartList, StopHeat
<1>2. SameRows
  BY <1>1 DEF SameRows, tables
<1>3. ASSUME NEW code, Answer(w, code) PROVE LifeInv'
  BY <1>1, <1>3, AnswerStays, ReadingIsQuiet
     DEF EngineInv, Drawn, Unrecorded, Stopping
<1>4. ASSUME NEW label, Goto(w, label), UNCHANGED rid,
             \/ pc[w] \in Unrecorded /\ label \in Unrecorded
             \/ pc[w] = "stop_heat" /\ label = "stop_tenant"
      PROVE  LifeInv'
  BY <1>1, <1>4, GotoStays, OnwardOK DEF EngineInv
<1>5. CASE StartCreate(w)
  BY <1>2, <1>3, <1>4, <1>5 DEF StartCreate, Unrecorded, locals
<1>6. CASE StartList(w)
  BY <1>2, <1>3, <1>4, <1>6 DEF StartList, Unrecorded
<1>7. CASE StopHeat(w)
  BY <1>2, <1>3, <1>4, <1>7 DEF StopHeat, locals
<1> QED
  BY <1>5, <1>6, <1>7

LEMMA Failure_Life ==
  ASSUME EngineInv, NEW w \in Workers, CallFails(w) \/ Crash(w)
  PROVE  LifeInv' /\ SameRows
<1>1. OthersStay(w) /\ pc'[w] = "idle"
  BY AnswerStays DEF CallFails, Crash, EngineInv
<1>2. UNCHANGED <<tables, history>>
  BY DEF CallFails, Crash
<1> QED
  BY <1>1, <1>2, ReadingIsQuiet DEF Drawn, Unrecorded, Stopping

LEMMA StopGet_Life ==
  ASSUME EngineInv, NEW w \in Workers, StopGet(w)
  PROVE  LifeInv' /\ SameRows /\ OthersStay(w) /\ pc'[w] \notin Drawn \cup Stopping
<1>1. OthersStay(w) /\ pc'[w] \in {"idle", "stop_check"}
  BY AnswerStays, GotoStays DEF StopGet, EngineInv
<1>2. UNCHANGED <<tables, history>>
  BY DEF StopGet
<1> QED
  BY <1>1, <1>2, ReadingIsQuiet DEF Drawn, Unrecorded, Stopping

LEMMA GetStep_Life ==
  ASSUME EngineInv, NEW w \in Workers, GetStep(w)
  PROVE  LifeInv' /\ SameRows /\ OthersStay(w) /\ pc'[w] \notin Drawn \cup Stopping
<1>1. OthersStay(w)
      /\ pc'[w] \in {"idle", "get_check", "get_resources", "get_update"}
  BY AnswerStays, GotoStays DEF GetStep, GetStack, GetCheck, GetResources,
     GetUpdate, Resources, Endpoint, EngineInv, locals
<1>2. SameRows
  <2>1. CASE GetUpdate(w)
    BY <2>1, EndpointKeepsRows DEF GetUpdate, Endpoint, SameRows, EngineInv
  <2>2. CASE GetStack(w) \/ GetCheck(w) \/ GetResources(w)
    BY <2>2 DEF GetStack, GetCheck, GetResources, Resources, SameRows, tables
  <2> QED
    BY <2>1, <2>2 DEF GetStep
<1> QED
  BY <1>1, <1>2, QuietOK DEF Drawn, Unrecorded, Stopping

LEMMA ListStep_Life ==
  ASSUME EngineInv, NEW w \in Workers, ListStep(w)
  PROVE  LifeInv' /\ SameRows /\ OthersStay(w) /\ pc'[w] \notin Drawn \cup Stopping
<1> DEFINE Here == {"idle", "list_row", "list_stacks", "list_status",
                    "list_resources", "list_url"}
<1>1. ASSUME NEW label, pc' = [pc EXCEPT ![w] = label], UNCHANGED req,
             NEW r, rid' = [rid EXCEPT ![w] = r]
      PROVE  OthersStay(w) /\ pc'[w] = label
  BY <1>1 DEF OthersStay, EngineInv, TypeInv, TypeOK, WorkersTypeOK
<1>2. ASSUME NextRow(w) PROVE OthersStay(w) /\ pc'[w] \in Here
  BY <1>1, <1>2, AnswerStays DEF NextRow, Goto, EngineInv
<1>3. OthersStay(w) /\ pc'[w] \in Here
  <2>1. CASE ListTenants(w) \/ ListStacks(w) \/ ListStatus(w)
    BY <2>1, AnswerStays, GotoStays DEF ListTenants, ListStacks, ListStatus,
       EngineInv
  <2>2. CASE ListRow(w)
    BY <1>1, <2>2, AnswerStays DEF ListRow, Goto, EngineInv
  <2>3. CASE ListResources(w) \/ ListUrl(w)
    BY <1>2, <2>3, AnswerStays, GotoStays DEF ListResources, ListUrl,
       Resources, Endpoint, EngineInv, locals
  <2> QED
    BY <2>1, <2>2, <2>3 DEF ListStep
<1>4. SameRows
  <2>1. CASE ListStatus(w)
    BY <2>1, ListStatus_Type DEF ListStatus, SameRows, EngineInv
  <2>2. CASE ListUrl(w)
    BY <2>2, EndpointKeepsRows DEF ListUrl, Endpoint, SameRows, EngineInv
  <2>3. CASE ListTenants(w) \/ ListRow(w) \/ ListStacks(w) \/ ListResources(w)
    BY <2>3 DEF ListTenants, ListRow, ListStacks, ListResources, Resources,
       SameRows, tables
  <2> QED
    BY <2>1, <2>2, <2>3 DEF ListStep
<1> QED
  BY <1>3, <1>4, QuietOK DEF Drawn, Unrecorded, Stopping

LEMMA HeatMoves_Life ==
  ASSUME EngineInv, HeatMoves \/ UNCHANGED vars
  PROVE  LifeInv' /\ SameRows
<1>1. UNCHANGED <<tables, pc, req, rid, history>>
  BY DEF HeatMoves, vars, locals
<1>2. SameRows
  BY <1>1 DEF SameRows, tables
<1>3. \A r \in RushIds : Owners(r)' = Owners(r)
  BY <1>1 DEF tables, Owners
<1>4. \A r \in RushIds : RushOK(r)'
  BY <1>1, <1>3 DEF tables, history, EngineInv, LifeInv, RushOK
<1>5. DrawnApart' /\ listed' \subseteq issued'
  BY <1>1 DEF history, EngineInv, LifeInv, DrawnApart
<1>6. ASSUME NEW v \in Workers PROVE StartOK(v)' /\ StopOK(v)'
  BY <1>1 DEF tables, history, EngineInv, LifeInv, StartOK, StopOK, Owners
<1> QED
  BY <1>2, <1>4, <1>5, <1>6 DEF LifeInv

-----------------------------------------------------------------------------
LEMMA NextEngineInv == EngineInv /\ [Next]_vars => EngineInv'
<1> SUFFICES ASSUME EngineInv, [Next]_vars PROVE EngineInv'
  OBVIOUS
<1>1. TypeInv'
  BY NextTypeInv DEF EngineInv
<1>2. ASSUME NEW w \in Workers, StartStep(w) PROVE LifeInv'
  BY <1>2, StartType_Life, Onward_Life, StartStack_Life, StartTenant_Life
     DEF StartStep
<1>3. ASSUME NEW w \in Workers, StopStep(w) PROVE LifeInv'
  BY <1>3, StopGet_Life, StopCheck_Life, Onward_Life, StopTenant_Life,
     StopStack_Life DEF StopStep
<1>4. ASSUME NEW w \in Workers,
             \/ Receive(w) \/ GetStep(w) \/ ListStep(w)
             \/ CallFails(w) \/ Crash(w)
      PROVE  LifeInv'
  BY <1>4, Receive_Life, GetStep_Life, ListStep_Life, Failure_Life
<1>5. CASE HeatMoves \/ UNCHANGED vars
  BY <1>1, <1>5, HeatMoves_Life DEF EngineInv
<1> QED
  BY <1>1, <1>2, <1>3, <1>4, <1>5 DEF Next, MethodStep, EngineInv

(***************************************************************************)
(* The inductive invariant holds of every reachable state.                 *)
(***************************************************************************)
THEOREM EngineInvariant == Spec => []EngineInv
<1>1. Init => EngineInv
  BY InitTypeInv, InitLifeInv DEF EngineInv
<1> QED
  BY <1>1, NextEngineInv, PTL DEF Spec

(***************************************************************************)
(* A listed rush has its record, whatever fails and whoever crashes.       *)
(***************************************************************************)
THEOREM ListedHasRecord == Spec => []TenantRowHasStack
<1>1. EngineInv => TenantRowHasStack
  BY DEF EngineInv, LifeInv, RushOK, TenantRowHasStack
<1> QED
  BY <1>1, EngineInvariant, PTL

-----------------------------------------------------------------------------
(***************************************************************************)
(* RushEngine implements RushLifecycle: every step that changes which rows *)
(* there are is one step in the life of one rush, the others are none.     *)
(***************************************************************************)
PhaseFacts(r) ==
    /\ rushStack[r] # None /\ Owners(r) # {} => phaseBar[r] = "listed"
    /\ rushStack[r] # None /\ Owners(r) = {} =>
          phaseBar[r] = IF r \in listed THEN "delisted" ELSE "recorded"
    /\ rushStack[r] = None /\ Owners(r) = {} =>
          phaseBar[r] = IF r \in listed THEN "removed" ELSE "unused"
    /\ Owners(r) = {} => ownerBar[r] = None
    /\ \A t \in Tenants : Owners(r) = {t} => ownerBar[r] = t

LEMMA PhaseIs ==
  ASSUME NEW r \in RushIds
  PROVE  PhaseFacts(r) /\ PhaseFacts(r)'
<1>1. PhaseFacts(r)
  BY DEF phaseBar, ownerBar, PhaseFacts
<1>2. PhaseFacts(r)'
  BY DEF phaseBar, ownerBar, PhaseFacts
<1> QED
  BY <1>1, <1>2

(***************************************************************************)
(* A rush whose rows are as they were is where it was in its life.         *)
(***************************************************************************)
LEMMA PhaseStays ==
  ASSUME NEW r \in RushIds,
         Owners(r)' = Owners(r),
         rushStack'[r] = None <=> rushStack[r] = None,
         r \in listed' <=> r \in listed
  PROVE  phaseBar'[r] = phaseBar[r] /\ ownerBar'[r] = ownerBar[r]
BY DEF phaseBar, ownerBar

(***************************************************************************)
(* One rush goes to another phase and perhaps another owner, the rest      *)
(* stay.                                                                   *)
(***************************************************************************)
LEMMA OneMoves ==
  ASSUME NEW r \in RushIds, NEW p, NEW o,
         phaseBar'[r] = p, ownerBar'[r] = o,
         \A q \in RushIds \ {r} :
            phaseBar'[q] = phaseBar[q] /\ ownerBar'[q] = ownerBar[q]
  PROVE  /\ phaseBar' = [phaseBar EXCEPT ![r] = p]
         /\ ownerBar' = [ownerBar EXCEPT ![r] = o]
         /\ ownerBar[r] = o => ownerBar' = ownerBar
         /\ phaseBar[r] = p /\ ownerBar[r] = o =>
               phaseBar' = phaseBar /\ ownerBar' = ownerBar
<1>1. /\ phaseBar = [q \in RushIds |-> phaseBar[q]]
      /\ ownerBar = [q \in RushIds |-> ownerBar[q]]
  BY DEF phaseBar, ownerBar
<1>2. /\ phaseBar' = [q \in RushIds |-> phaseBar'[q]]
      /\ ownerBar' = [q \in RushIds |-> ownerBar'[q]]
  BY DEF phaseBar, ownerBar
<1> QED
  BY <1>1, <1>2

LEMMA SameRowsStutter ==
  ASSUME SameRows
  PROVE  UNCHANGED <<phaseBar, ownerBar>>
<1>1. \A r \in RushIds : Owners(r)' = Owners(r)
  BY DEF SameRows, Owners
<1>2. \A r \in RushIds :
         phaseBar'[r] = phaseBar[r] /\ ownerBar'[r] = ownerBar[r]
  BY <1>1, PhaseStays DEF SameRows, history
<1>3. /\ phaseBar = [q \in RushIds |-> phaseBar[q]]
      /\ ownerBar = [q \in RushIds |-> ownerBar[q]]
  BY DEF phaseBar, ownerBar
<1>4. /\ phaseBar' = [q \in RushIds |-> phaseBar'[q]]
      /\ ownerBar' = [q \in RushIds |-> ownerBar'[q]]
  BY DEF phaseBar, ownerBar
<1> QED
  BY <1>2, <1>3, <1>4

LEMMA StartStackRecords ==
  ASSUME EngineInv, NEW w \in Workers, StartStack(w)
  PROVE  Lifecycle!Next
<1> DEFINE r == rid[w]
<1>1. /\ rushStack[r] = None /\ rushStack'[r] # None
      /\ \A q \in RushIds \ {r} : rushStack'[q] = rushStack[q]
  BY StartStack_Life
<1>2. UNCHANGED <<rushTenant, history>> /\ pc[w] = "start_stack"
  BY DEF StartStack
<1>3. r \in RushIds /\ r \notin listed
  BY <1>2 DEF EngineInv, TypeInv, WorkersOK, LocalsOK, RidHeld, LifeInv,
     StartOK, Drawn, Unrecorded
<1>4. PICK id \in RushIds : id = r
  BY <1>3
<1> HIDE DEF r
<1>5. \A q \in RushIds : Owners(q)' = Owners(q)
  BY <1>2 DEF Owners
<1>6. Owners(id) = {}
  BY <1>3, <1>4 DEF EngineInv, LifeInv, RushOK
<1>7. /\ phaseBar[id] = "unused" /\ phaseBar'[id] = "recorded"
      /\ ownerBar[id] = None /\ ownerBar'[id] = None
  BY <1>1, <1>2, <1>3, <1>4, <1>5, <1>6, PhaseIs DEF history, PhaseFacts
<1>8. \A q \in RushIds \ {id} :
         phaseBar'[q] = phaseBar[q] /\ ownerBar'[q] = ownerBar[q]
  BY <1>1, <1>2, <1>4, <1>5, PhaseStays DEF history
<1> QED
  BY <1>7, <1>8, OneMoves DEF Lifecycle!Next, Lifecycle!Record

LEMMA StartTenantEnlists ==
  ASSUME EngineInv, NEW w \in Workers, StartTenant(w)
  PROVE  Lifecycle!Next
<1>1. PICK r \in RushIds :
         /\ r \notin listed
         /\ listed' = listed \cup {r}
         /\ rushStack[r] # None
         /\ Owners(r) = {} /\ Owners(r)' = {req[w].tenant}
         /\ \A q \in RushIds \ {r} : Owners(q)' = Owners(q)
  BY StartTenant_Life
<1>2. UNCHANGED rushStack
  BY DEF StartTenant
<1>3. req[w].tenant \in Tenants
  BY DEF StartTenant, EngineInv, TypeInv, WorkersOK, LocalsOK, Requests
<1>4. PICK t \in Tenants : t = req[w].tenant
  BY <1>3
<1>5. /\ phaseBar[r] = "recorded" /\ phaseBar'[r] = "listed"
      /\ ownerBar'[r] = t
  BY <1>1, <1>2, <1>4, PhaseIs DEF PhaseFacts
<1>6. \A q \in RushIds \ {r} :
         phaseBar'[q] = phaseBar[q] /\ ownerBar'[q] = ownerBar[q]
  BY <1>1, <1>2, PhaseStays
<1> QED
  BY <1>5, <1>6, OneMoves DEF Lifecycle!Next, Lifecycle!Enlist

LEMMA StopTenantDelists ==
  ASSUME EngineInv, NEW w \in Workers, StopTenant(w)
  PROVE  Lifecycle!Next \/ UNCHANGED <<phaseBar, ownerBar>>
<1>1. PICK r \in RushIds :
         /\ r \in listed
         /\ Owners(r)' = {}
         /\ \A q \in RushIds \ {r} : Owners(q)' = Owners(q)
  BY StopTenant_Life
<1>2. UNCHANGED <<rushStack, history>>
  BY DEF StopTenant
<1>3. \A q \in RushIds \ {r} :
         phaseBar'[q] = phaseBar[q] /\ ownerBar'[q] = ownerBar[q]
  BY <1>1, <1>2, PhaseStays DEF history
<1>4. CASE Owners(r) # {}
  <2>1. rushStack[r] # None
    BY <1>4 DEF EngineInv, LifeInv, RushOK
  <2>2. /\ phaseBar[r] = "listed" /\ phaseBar'[r] = "delisted"
        /\ ownerBar'[r] = None
    BY <1>1, <1>2, <1>4, <2>1, PhaseIs DEF history, PhaseFacts
  <2> QED
    BY <1>3, <2>2, OneMoves DEF Lifecycle!Next, Lifecycle!Delist
<1>5. CASE Owners(r) = {}
  <2>1. phaseBar'[r] = phaseBar[r] /\ ownerBar'[r] = ownerBar[r]
    BY <1>1, <1>2, <1>5, PhaseStays DEF history
  <2> QED
    BY <1>3, <2>1, OneMoves
<1> QED
  BY <1>4, <1>5

LEMMA StopStackRemoves ==
  ASSUME EngineInv, NEW w \in Workers, StopStack(w)
  PROVE  Lifecycle!Next \/ UNCHANGED <<phaseBar, ownerBar>>
<1>1. PICK r \in RushIds :
         /\ r \in listed /\ Owners(r) = {}
         /\ rushStack'[r] = None
         /\ \A q \in RushIds \ {r} : rushStack'[q] = rushStack[q]
  BY StopStack_Life
<1>2. UNCHANGED <<rushTenant, history>>
  BY DEF StopStack
<1>3. \A q \in RushIds : Owners(q)' = Owners(q)
  BY <1>2 DEF Owners
<1>4. \A q \in RushIds \ {r} :
         phaseBar'[q] = phaseBar[q] /\ ownerBar'[q] = ownerBar[q]
  BY <1>1, <1>2, <1>3, PhaseStays DEF history
<1>5. CASE rushStack[r] # None
  <2>1. /\ phaseBar[r] = "delisted" /\ phaseBar'[r] = "removed"
        /\ ownerBar[r] = None /\ ownerBar'[r] = None
    BY <1>1, <1>2, <1>3, <1>5, PhaseIs DEF history, PhaseFacts
  <2> QED
    BY <1>4, <2>1, OneMoves DEF Lifecycle!Next, Lifecycle!Remove
<1>6. CASE rushStack[r] = None
  <2>1. phaseBar'[r] = phaseBar[r] /\ ownerBar'[r] = ownerBar[r]
    BY <1>1, <1>2, <1>3, <1>6, PhaseStays DEF history
  <2> QED
    BY <1>4, <2>1, OneMoves
<1> QED
  BY <1>5, <1>6

(***************************************************************************)
(* Drawing an identifier changes nothing of any rush.                      *)
(***************************************************************************)
LEMMA StartTypeStutters ==
  ASSUME NEW w \in Workers, StartType(w)
  PROVE  UNCHANGED <<phaseBar, ownerBar>>
BY DEF StartType, tables, phaseBar, ownerBar, Owners

LEMMA StepImplements ==
  EngineInv /\ [Next]_vars => [Lifecycle!Next]_<<phaseBar, ownerBar>>
<1> SUFFICES ASSUME EngineInv, [Next]_vars
             PROVE  Lifecycle!Next \/ UNCHANGED <<phaseBar, ownerBar>>
  OBVIOUS
<1>1. ASSUME NEW w \in Workers, StartStep(w)
      PROVE  Lifecycle!Next \/ UNCHANGED <<phaseBar, ownerBar>>
  BY <1>1, StartTypeStutters, Onward_Life, SameRowsStutter,
     StartStackRecords, StartTenantEnlists DEF StartStep
<1>2. ASSUME NEW w \in Workers, StopStep(w)
      PROVE  Lifecycle!Next \/ UNCHANGED <<phaseBar, ownerBar>>
  BY <1>2, StopGet_Life, StopCheck_Life, Onward_Life, SameRowsStutter,
     StopTenantDelists, StopStackRemoves DEF StopStep
<1>3. ASSUME NEW w \in Workers,
             \/ Receive(w) \/ GetStep(w) \/ ListStep(w)
             \/ CallFails(w) \/ Crash(w)
      PROVE  UNCHANGED <<phaseBar, ownerBar>>
  BY <1>3, Receive_Life, GetStep_Life, ListStep_Life, Failure_Life,
     SameRowsStutter
<1>4. CASE HeatMoves \/ UNCHANGED vars
  BY <1>4, HeatMoves_Life, SameRowsStutter
<1> QED
  BY <1>1, <1>2, <1>3, <1>4 DEF Next, MethodStep

(***************************************************************************)
(* The engine implements the life of a rush: one way, for one tenant.      *)
(***************************************************************************)
THEOREM EngineImplementsLifecycle == Spec => ImplementsLifecycle
<1>1. Init => Lifecycle!Init
  BY DEF Init, TablesInit, Lifecycle!Init, phaseBar, ownerBar, Owners
<1> QED
  BY <1>1, EngineInvariant, StepImplements, PTL
     DEF Spec, ImplementsLifecycle, Lifecycle!Spec
=============================================================================
