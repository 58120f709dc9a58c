----------------------------- MODULE RushEngine -----------------------------
(***************************************************************************)
(* The engine service (rushstack/engine/service.py): its RPC methods       *)
(* start_rush_stack, stop_rush_stack, get_rush and get_list, run by green  *)
(* threads that interleave with one another, with other engine processes   *)
(* and with Heat at every remote call and every database statement.        *)
(*                                                                         *)
(* A worker is a green thread; it serves one request at a time and keeps   *)
(* the local variables of the method in rid, row, info and todo.           *)
(*                                                                         *)
(* An operator named after another one with a suffix (StopCheck_...) is    *)
(* that step with a plausible mistake in it.  Nothing uses these: each is  *)
(* put in the place of the right step to see a property fail.              *)
(***************************************************************************)
EXTENDS RushTables, FiniteSets

CONSTANTS
    Workers,             \* the green threads of all the engine processes
    TypeIds,             \* the type identifiers a request can carry
    RushTypes,           \* the rows of table rush_type
    Served,              \* the methods that clients call
    StackName(_, _),     \* tdaf_rush_prefix + tenant_id + "-" + rush_name
    Outages,             \* may a remote call or a database statement fail?
    Crashes              \* may an engine process die in the middle of a method?

Ops == {"start", "stop", "get", "list"}

ASSUME EngineAssumption ==
    /\ Served \subseteq Ops
    /\ RushTypes \subseteq TypeIds
    /\ \A t \in Tenants, n \in RushNames : StackName(t, n) \in StackNames
    /\ Outages \in BOOLEAN
    /\ Crashes \in BOOLEAN

VARIABLES
    pc,        \* pc[w]: the call worker w makes next, "idle" between requests
    req,       \* req[w]: the request w serves, None between requests
    reply,     \* reply[w]: how w answered its last request
    rid,       \* rid[w]: rush_id
    row,       \* row[w]: rsc or rush_entry, the object in w's session
    info,      \* info[w]: stack_info; None while the name is unbound
    todo,      \* todo[w]: the rows of rt the loop of get_list has left
    issued,    \* history: the identifiers generate_uuid has returned
    listed     \* history: the rushes that rush_tenant_create has inserted

locals  == <<rid, row, info, todo>>
history == <<issued, listed>>
tables  == <<rushStack, rushTenant>>
vars    == <<heat, tables, pc, req, reply, locals, history>>

Requests ==
    [op     : Ops,
     tenant : Tenants,
     type   : TypeIds \cup {None},
     name   : RushNames \cup {None},
     rush   : RushIds \cup {None}]

Labels ==
    {"idle",
     "start_type", "start_create", "start_list", "start_stack", "start_tenant",
     "stop_get", "stop_check", "stop_heat", "stop_tenant", "stop_stack",
     "get_stack", "get_check", "get_resources", "get_update",
     "list_tenants", "list_row", "list_stacks", "list_status",
     "list_resources", "list_url"}

(***************************************************************************)
(* "OK" is result True.  The rest is result False with that error code or  *)
(* with the text of that exception, except "Raised": the exception left    *)
(* the method.  "Lost" marks a request whose engine died.                  *)
(***************************************************************************)
Replies ==
    {"none", "OK", "Raised", "Lost",
     "STARTRUSHEX01", "STARTRUSHEX02", "STARTRUSHEX03", "STARTRUSHEX04",
     "STOPRUSHEX01", "GETRUSHEX02",
     "HTTPConflict", "HTTPNotFound", "ConnectionError", "DBError",
     "AttributeError", "UnboundLocalError", "StaleDataError"}

StackInfo == [id : StackIds, name : StackNames, status : StackStatus]

ASSUME InfoAssumption == None \notin StackInfo

WorkersTypeOK ==
    /\ pc \in [Workers -> Labels]
    /\ req \in [Workers -> Requests \cup {None}]
    /\ reply \in [Workers -> Replies]
    /\ rid \in [Workers -> RushIds \cup {None}]
    /\ row \in [Workers -> RushRow \cup {None}]
    /\ info \in [Workers -> StackInfo \cup {None}]
    /\ todo \in [Workers -> SUBSET RushIds]

TypeOK ==
    /\ HeatTypeOK
    /\ TablesTypeOK
    /\ WorkersTypeOK
    /\ issued \subseteq RushIds
    /\ listed \subseteq RushIds

Init ==
    /\ HeatInit
    /\ TablesInit
    /\ pc = [w \in Workers |-> "idle"]
    /\ req = [w \in Workers |-> None]
    /\ reply = [w \in Workers |-> "none"]
    /\ rid = [w \in Workers |-> None]
    /\ row = [w \in Workers |-> None]
    /\ info = [w \in Workers |-> None]
    /\ todo = [w \in Workers |-> {}]
    /\ issued = {}
    /\ listed = {}

-----------------------------------------------------------------------------

Goto(w, label) ==
    /\ pc' = [pc EXCEPT ![w] = label]
    /\ UNCHANGED <<req, reply>>

(***************************************************************************)
(* The method returns or raises: its local variables are gone.             *)
(***************************************************************************)
Answer(w, code) ==
    /\ pc' = [pc EXCEPT ![w] = "idle"]
    /\ reply' = [reply EXCEPT ![w] = code]
    /\ rid' = [rid EXCEPT ![w] = None]
    /\ row' = [row EXCEPT ![w] = None]
    /\ info' = [info EXCEPT ![w] = None]
    /\ todo' = [todo EXCEPT ![w] = {}]
    /\ req' = [req EXCEPT ![w] = None]

(***************************************************************************)
(* A request arrives: the RPC layer calls the method of that name.         *)
(***************************************************************************)
Accept(w, q, label) ==
    /\ pc[w] = "idle"
    /\ q.op \in Served
    /\ pc' = [pc EXCEPT ![w] = label]
    /\ req' = [req EXCEPT ![w] = q]
    /\ reply' = [reply EXCEPT ![w] = "none"]
    /\ rid' = [rid EXCEPT ![w] = q.rush]
    /\ UNCHANGED <<heat, tables, row, info, todo, history>>

(***************************************************************************)
(* A remote call or a statement fails and has had no effect.  Everything   *)
(* sits in a try block whose handler answers result False, except the      *)
(* first statement of stop_rush_stack and of get_rush.                     *)
(***************************************************************************)
Uncaught == {"stop_get", "get_stack"}
Remote == {"start_create", "start_list", "stop_heat", "get_resources",
           "list_row", "list_stacks", "list_resources"}
Statement == {"start_type", "start_stack", "start_tenant", "stop_get",
              "stop_check", "stop_tenant", "stop_stack", "get_stack",
              "get_check", "get_update", "list_tenants", "list_row",
              "list_status", "list_url"}

CallFails(w) ==
    /\ Outages
    /\ \/ pc[w] \in Remote /\ Answer(w, "ConnectionError")
       \/ pc[w] \in Statement \ Uncaught /\ Answer(w, "DBError")
       \/ pc[w] \in Uncaught /\ Answer(w, "Raised")
    /\ UNCHANGED <<heat, tables, history>>

(***************************************************************************)
(* The process dies.  The message was acknowledged when its thread was     *)
(* spawned, so nobody takes the request up again.                          *)
(***************************************************************************)
Crash(w) ==
    /\ Crashes
    /\ pc[w] # "idle"
    /\ Answer(w, "Lost")
    /\ UNCHANGED <<heat, tables, history>>

-----------------------------------------------------------------------------
(***************************************************************************)
(* start_rush_stack(tenant_id, rush_type_id, rush_name).  IdsLeft is a     *)
(* bound of the model: a start is served while the finite RushIds has an   *)
(* identifier left for it (StackIds has to be as large as RushIds).        *)
(***************************************************************************)
IdsLeft ==
    Cardinality({w \in Workers : pc[w] = "start_type"})
        < Cardinality(RushIds \ issued)

Start(w) ==
    /\ IdsLeft
    /\ \E t \in Tenants, k \in TypeIds, n \in RushNames \cup {None} :
          Accept(w, [op |-> "start", tenant |-> t, type |-> k, name |-> n,
                     rush |-> None], "start_type")

StartType_no_name_check(w) ==
    /\ pc[w] = "start_type"
    /\ req[w].type \in RushTypes
    /\ \E r \in RushIds \ issued :
          /\ rid' = [rid EXCEPT ![w] = r]
          /\ issued' = issued \cup {r}
    /\ Goto(w, "start_create")
    /\ UNCHANGED <<heat, tables, row, info, todo, listed>>

StartType(w) ==
    /\ pc[w] = "start_type"
    /\ \/ /\ req[w].name = None
          /\ Answer(w, "STARTRUSHEX01")
          /\ UNCHANGED issued
       \/ /\ req[w].name # None
          /\ req[w].type \notin RushTypes
          /\ Answer(w, "STARTRUSHEX02")
          /\ UNCHANGED issued
       \/ /\ req[w].name # None
          /\ req[w].type \in RushTypes
          /\ \E r \in RushIds \ issued :
                /\ rid' = [rid EXCEPT ![w] = r]
                /\ issued' = issued \cup {r}
          /\ Goto(w, "start_create")
          /\ UNCHANGED <<row, info, todo>>
    /\ UNCHANGED <<heat, tables, listed>>

MyStackName(w) == StackName(req[w].tenant, req[w].name)

StartCreate_conflict_ignored(w) ==
    /\ pc[w] = "start_create"
    /\ \/ NameTaken(MyStackName(w)) /\ UNCHANGED heat
       \/ \E s \in StackIds : HeatCreate(s, MyStackName(w))
    /\ Goto(w, "start_list")
    /\ UNCHANGED <<tables, locals, history>>

StartCreate(w) ==
    /\ pc[w] = "start_create"
    /\ \/ /\ NameTaken(MyStackName(w))
          /\ Answer(w, "HTTPConflict")
          /\ UNCHANGED heat
       \/ /\ \E s \in StackIds : HeatCreate(s, MyStackName(w))
          /\ Goto(w, "start_list")
          /\ UNCHANGED locals
       \/ /\ Outages        \* the stack is created, the answer is lost
          /\ \E s \in StackIds : HeatCreate(s, MyStackName(w))
          /\ Answer(w, "ConnectionError")
    /\ UNCHANGED <<tables, history>>

(***************************************************************************)
(* What the engine keeps of a stack it has listed (stack._info).           *)
(***************************************************************************)
InfoOf(s) == [id |-> s, name |-> heat[s].name, status |-> heat[s].status]

(***************************************************************************)
(* get_stack_list_for_tenant: the stacks whose name has the tenant's       *)
(* prefix.  Named(t, n) are those the loop over them stops at.             *)
(***************************************************************************)
TenantStacks(t) ==
    {s \in StackIds :
        Exists(s) /\ \E n \in RushNames : heat[s].name = StackName(t, n)}

Named_any(t, n) == TenantStacks(t)

Named(t, n) == {s \in TenantStacks(t) : heat[s].name = StackName(t, n)}

StartList(w) ==
    LET t     == req[w].tenant
        found == Named(t, req[w].name)
    IN  /\ pc[w] = "start_list"
        /\ \/ /\ TenantStacks(t) = {}
              /\ Answer(w, "STARTRUSHEX03")
           \/ /\ TenantStacks(t) # {}
              /\ found = {}
              /\ Answer(w, "STARTRUSHEX04")
           \/ /\ \E s \in found : info' = [info EXCEPT ![w] = InfoOf(s)]
              /\ Goto(w, "start_stack")
              /\ UNCHANGED <<rid, row, todo>>
        /\ UNCHANGED <<heat, tables, history>>

StartStack(w) ==
    /\ pc[w] = "start_stack"
    /\ rush_stack_create(rid[w], [name     |-> req[w].name,
                                  stack_id |-> info[w].id,
                                  status   |-> info[w].status,
                                  url      |-> None])
    /\ Goto(w, "start_tenant")
    /\ UNCHANGED <<heat, rushTenant, locals, history>>

StartTenant(w) ==
    /\ pc[w] = "start_tenant"
    /\ rush_tenant_create(rid[w], req[w].tenant)
    /\ listed' = listed \cup {rid[w]}
    /\ Answer(w, "OK")
    /\ UNCHANGED <<heat, rushStack, issued>>

-----------------------------------------------------------------------------
(***************************************************************************)
(* stop_rush_stack(tenant_id, rush_id)                                     *)
(***************************************************************************)
Stop(w) ==
    \E t \in Tenants, r \in RushIds :
        Accept(w, [op |-> "stop", tenant |-> t, type |-> None, name |-> None,
                   rush |-> r], "stop_get")

StopGet(w) ==
    /\ pc[w] = "stop_get"
    /\ \/ /\ rushStack[rid[w]] = None
          /\ Answer(w, "STOPRUSHEX01")
       \/ /\ rushStack[rid[w]] # None
          /\ row' = [row EXCEPT ![w] = rushStack[rid[w]]]
          /\ Goto(w, "stop_check")
          /\ UNCHANGED <<rid, info, todo>>
    /\ UNCHANGED <<heat, tables, history>>

StopCheck_no_tenant_check(w) ==
    /\ pc[w] = "stop_check"
    /\ Goto(w, "stop_heat")
    /\ UNCHANGED <<heat, tables, locals, history>>

StopCheck_heat_skipped(w) ==
    /\ pc[w] = "stop_check"
    /\ <<rid[w], req[w].tenant>> \in rushTenant
    /\ Goto(w, "stop_tenant")
    /\ UNCHANGED <<heat, tables, locals, history>>

(***************************************************************************)
(* "not rt" is never true of a query object, and rt.first() is None when   *)
(* the tenant does not own the rush: None.tenant_id raises.                *)
(***************************************************************************)
StopCheck(w) ==
    /\ pc[w] = "stop_check"
    /\ \/ /\ <<rid[w], req[w].tenant>> \notin rushTenant
          /\ Answer(w, "AttributeError")
       \/ /\ <<rid[w], req[w].tenant>> \in rushTenant
          /\ Goto(w, "stop_heat")
          /\ UNCHANGED locals
    /\ UNCHANGED <<heat, tables, history>>

StopHeat(w) ==
    /\ pc[w] = "stop_heat"
    /\ \/ /\ ~ Exists(row[w].stack_id)
          /\ Answer(w, "HTTPNotFound")
          /\ UNCHANGED heat
       \/ /\ HeatDelete(row[w].stack_id)
          /\ Goto(w, "stop_tenant")
          /\ UNCHANGED locals
       \/ /\ Outages        \* the deletion is accepted, the answer is lost
          /\ HeatDelete(row[w].stack_id)
          /\ Answer(w, "ConnectionError")
    /\ UNCHANGED <<tables, history>>

StopTenant_stack_first(w) ==
    /\ pc[w] = "stop_tenant"
    /\ rush_stack_delete(rid[w])
    /\ Goto(w, "stop_stack")
    /\ UNCHANGED <<heat, rushTenant, locals, history>>

StopTenant_is_last(w) ==
    /\ pc[w] = "stop_tenant"
    /\ rush_tenant_delete(rid[w], req[w].tenant)
    /\ Answer(w, "OK")
    /\ UNCHANGED <<heat, rushStack, history>>

StopTenant(w) ==
    /\ pc[w] = "stop_tenant"
    /\ rush_tenant_delete(rid[w], req[w].tenant)
    /\ Goto(w, "stop_stack")
    /\ UNCHANGED <<heat, rushStack, locals, history>>

StopStack(w) ==
    /\ pc[w] = "stop_stack"
    /\ rush_stack_delete(rid[w])
    /\ Answer(w, "OK")
    /\ UNCHANGED <<heat, rushTenant, history>>

-----------------------------------------------------------------------------
(***************************************************************************)
(* update_rush_endpointdata(stack_id, rush_id), common to get_rush and     *)
(* get_list: Resources lists the stack's resources, Endpoint writes the    *)
(* address found.  The methods differ in what they do next: with no        *)
(* address (noIp), and when the row has been brought up to date (done).    *)
(***************************************************************************)
Resources(w, noIp, withIp) ==
    /\ \/ /\ ~ Exists(row[w].stack_id)
          /\ Answer(w, "HTTPNotFound")
       \/ /\ Exists(row[w].stack_id)
          /\ ~ heat[row[w].stack_id].ip
          /\ noIp
       \/ /\ Exists(row[w].stack_id)
          /\ heat[row[w].stack_id].ip
          /\ Goto(w, withIp)
          /\ UNCHANGED locals
    /\ UNCHANGED <<heat, tables, history>>

WithUrl(w) == [row[w] EXCEPT !.url = row[w].stack_id]

Endpoint(w, done) ==
    /\ \/ /\ StaleData(rid[w], row[w], WithUrl(w))
          /\ Answer(w, "StaleDataError")
          /\ UNCHANGED rushStack
       \/ /\ rush_stack_update(rid[w], row[w], WithUrl(w))
          /\ done
    /\ UNCHANGED <<heat, rushTenant, history>>

-----------------------------------------------------------------------------
(***************************************************************************)
(* get_rush(tenant_id, rush_id)                                            *)
(***************************************************************************)
Get(w) ==
    \E t \in Tenants, r \in RushIds :
        Accept(w, [op |-> "get", tenant |-> t, type |-> None, name |-> None,
                   rush |-> r], "get_stack")

GetStack(w) ==
    /\ pc[w] = "get_stack"
    /\ \/ /\ rushStack[rid[w]] = None
          /\ Answer(w, "GETRUSHEX02")
       \/ /\ rushStack[rid[w]] # None
          /\ row' = [row EXCEPT ![w] = rushStack[rid[w]]]
          /\ Goto(w, "get_check")
          /\ UNCHANGED <<rid, info, todo>>
    /\ UNCHANGED <<heat, tables, history>>

(***************************************************************************)
(* The query is by tenant alone: any row of the tenant will do.            *)
(***************************************************************************)
GetCheck(w) ==
    /\ pc[w] = "get_check"
    /\ \/ /\ RushesOf(req[w].tenant) = {}
          /\ Answer(w, "AttributeError")
       \/ /\ RushesOf(req[w].tenant) # {}
          /\ row[w].url # None
          /\ Answer(w, "OK")
       \/ /\ RushesOf(req[w].tenant) # {}
          /\ row[w].url = None
          /\ Goto(w, "get_resources")
          /\ UNCHANGED locals
    /\ UNCHANGED <<heat, tables, history>>

GetResources(w) ==
    /\ pc[w] = "get_resources"
    /\ Resources(w, Answer(w, "OK"), "get_update")

GetUpdate(w) ==
    /\ pc[w] = "get_update"
    /\ Endpoint(w, Answer(w, "OK"))

-----------------------------------------------------------------------------
(***************************************************************************)
(* get_list(tenant_id): one query for the tenant's rows, then for each of  *)
(* them the row of rush_stack, a list of Heat's stacks, the status and the *)
(* endpoint.                                                               *)
(***************************************************************************)
List(w) ==
    \E t \in Tenants :
        Accept(w, [op |-> "list", tenant |-> t, type |-> None, name |-> None,
                   rush |-> None], "list_tenants")

ListTenants(w) ==
    /\ pc[w] = "list_tenants"
    /\ \/ /\ RushesOf(req[w].tenant) = {}
          /\ Answer(w, "OK")
       \/ /\ RushesOf(req[w].tenant) # {}
          /\ todo' = [todo EXCEPT ![w] = RushesOf(req[w].tenant)]
          /\ Goto(w, "list_row")
          /\ UNCHANGED <<rid, row, info>>
    /\ UNCHANGED <<heat, tables, history>>

ListRow(w) ==
    /\ pc[w] = "list_row"
    /\ \E r \in todo[w] :
          \/ /\ rushStack[r] = None
             /\ Answer(w, "AttributeError")
          \/ /\ rushStack[r] # None
             /\ rid' = [rid EXCEPT ![w] = r]
             /\ row' = [row EXCEPT ![w] = rushStack[r]]
             /\ Goto(w, "list_stacks")
             /\ UNCHANGED <<info, todo>>
    /\ UNCHANGED <<heat, tables, history>>

RowStackName(w) == StackName(req[w].tenant, row[w].name)

(***************************************************************************)
(* What stack_info can be once the loop over the listed stacks is over:    *)
(* the stack with the right name, else whichever was last, else, when      *)
(* nothing was listed, what an earlier iteration left in the variable.     *)
(***************************************************************************)
LoopResult(w) ==
    LET listing == TenantStacks(req[w].tenant)
        match   == Named(req[w].tenant, row[w].name)
    IN  IF match # {} THEN {InfoOf(s) : s \in match}
        ELSE IF listing # {} THEN {InfoOf(s) : s \in listing}
        ELSE {info[w]} \ {None}

ListStacks(w) ==
    /\ pc[w] = "list_stacks"
    /\ \/ /\ LoopResult(w) = {}
          /\ Answer(w, "UnboundLocalError")
       \/ \E i \in LoopResult(w) :
             /\ info' = [info EXCEPT ![w] = i]
             /\ Goto(w, IF i.name = RowStackName(w)
                        THEN "list_status" ELSE "list_resources")
             /\ UNCHANGED <<rid, row, todo>>
    /\ UNCHANGED <<heat, tables, history>>

ListStatus(w) ==
    LET new == [row[w] EXCEPT !.status = info[w].status]
    IN  /\ pc[w] = "list_status"
        /\ \/ /\ StaleData(rid[w], row[w], new)
              /\ Answer(w, "StaleDataError")
              /\ UNCHANGED rushStack
           \/ /\ rush_stack_update(rid[w], row[w], new)
              /\ row' = [row EXCEPT ![w] = new]
              /\ Goto(w, "list_resources")
              /\ UNCHANGED <<rid, info, todo>>
        /\ UNCHANGED <<heat, rushTenant, history>>

NextRow(w) ==
    \/ /\ todo[w] = {rid[w]}
       /\ Answer(w, "OK")
    \/ /\ todo[w] # {rid[w]}
       /\ todo' = [todo EXCEPT ![w] = @ \ {rid[w]}]
       /\ rid' = [rid EXCEPT ![w] = None]
       /\ row' = [row EXCEPT ![w] = None]
       /\ Goto(w, "list_row")
       /\ UNCHANGED info

ListResources(w) ==
    /\ pc[w] = "list_resources"
    /\ Resources(w, NextRow(w), "list_url")

ListUrl(w) ==
    /\ pc[w] = "list_url"
    /\ Endpoint(w, NextRow(w))

-----------------------------------------------------------------------------

Receive(w) == Start(w) \/ Stop(w) \/ Get(w) \/ List(w)

StartStep(w) ==
    \/ StartType(w)
    \/ StartCreate(w)
    \/ StartList(w)
    \/ StartStack(w)
    \/ StartTenant(w)

StopStep(w) ==
    \/ StopGet(w)
    \/ StopCheck(w)
    \/ StopHeat(w)
    \/ StopTenant(w)
    \/ StopStack(w)

GetStep(w) ==
    \/ GetStack(w)
    \/ GetCheck(w)
    \/ GetResources(w)
    \/ GetUpdate(w)

ListStep(w) ==
    \/ ListTenants(w)
    \/ ListRow(w)
    \/ ListStacks(w)
    \/ ListStatus(w)
    \/ ListResources(w)
    \/ ListUrl(w)

MethodStep(w) == StartStep(w) \/ StopStep(w) \/ GetStep(w) \/ ListStep(w)

HeatMoves ==
    /\ \E s \in StackIds : HeatStep(s)
    /\ UNCHANGED <<tables, pc, req, reply, locals, history>>

Next ==
    \/ \E w \in Workers :
          Receive(w) \/ MethodStep(w) \/ CallFails(w) \/ Crash(w)
    \/ HeatMoves

Spec == Init /\ [][Next]_vars

(***************************************************************************)
(* A green thread that is in a method goes on: eventlet's hub resumes it   *)
(* when its socket is ready.  Nothing makes a request arrive, a call fail  *)
(* or Heat finish what it is doing.                                        *)
(***************************************************************************)
FairSpec == Spec /\ \A w \in Workers : WF_vars(MethodStep(w))
=============================================================================
