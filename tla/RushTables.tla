----------------------------- MODULE RushTables -----------------------------
(***************************************************************************)
(* The two tables the engine writes (rushstack/db/sqlalchemy/models.py)    *)
(* and the statements of rushstack/db/sqlalchemy/api.py on them.  The      *)
(* session is in autocommit mode, so each statement is one atomic step and *)
(* nothing joins two of them.                                              *)
(***************************************************************************)
EXTENDS HeatStacks

CONSTANTS
    Tenants,       \* tenant identifiers
    RushNames,     \* the names tenants give to their rushes
    RushIds        \* the identifiers uuidutils.generate_uuid can return

ASSUME TablesAssumption ==
    /\ None \notin Tenants
    /\ None \notin RushNames
    /\ None \notin RushIds

VARIABLES
    rushStack,     \* table rush_stack, by primary key: a row or None
    rushTenant     \* table rush_tenant: its rows <<rush_id, tenant_id>>

(***************************************************************************)
(* A row of rush_stack.  The endpoint 'http://<address>:5001' of a stack   *)
(* is represented by the stack whose address it is.                        *)
(***************************************************************************)
RushRow == [name     : RushNames,
            stack_id : StackIds,
            status   : StackStatus,
            url      : StackIds \cup {None}]

ASSUME RowAssumption == None \notin RushRow

TablesTypeOK ==
    /\ rushStack \in [RushIds -> RushRow \cup {None}]
    /\ rushTenant \subseteq (RushIds \X Tenants)

TablesInit ==
    /\ rushStack = [r \in RushIds |-> None]
    /\ rushTenant = {}

Owners(r) == {t \in Tenants : <<r, t>> \in rushTenant}

RushesOf(t) == {r \in RushIds : <<r, t>> \in rushTenant}

rush_stack_create(r, row) == rushStack' = [rushStack EXCEPT ![r] = row]

rush_tenant_create(r, t) == rushTenant' = rushTenant \cup {<<r, t>>}

(***************************************************************************)
(* rush_stack_update: the object is in the session's identity map (the     *)
(* caller holds it), so "get" answers from there and never looks at the    *)
(* table.  Nothing is sent when no attribute changes; otherwise the        *)
(* changed column alone is updated, and StaleDataError is raised when the  *)
(* row is no longer there.  obj is the object held, new its new contents.  *)
(***************************************************************************)
StaleData(r, obj, new) == obj # new /\ rushStack[r] = None

rush_stack_update_upsert(r, obj, new) ==
    rushStack' = [rushStack EXCEPT ![r] = new]

rush_stack_update(r, obj, new) ==
    /\ ~ StaleData(r, obj, new)
    /\ IF obj = new
       THEN UNCHANGED rushStack
       ELSE rushStack' =
              [rushStack EXCEPT
                 ![r].status = IF new.status # obj.status THEN new.status ELSE @,
                 ![r].url    = IF new.url # obj.url THEN new.url ELSE @]

(***************************************************************************)
(* rt.delete(): a DELETE ... WHERE on rush_tenant.  rsc.delete(): the      *)
(* DELETE of one row, which is silent when the row is already gone.        *)
(***************************************************************************)
rush_tenant_delete(r, t) == rushTenant' = rushTenant \ {<<r, t>>}

rush_stack_delete(r) == rushStack' = [rushStack EXCEPT ![r] = None]
=============================================================================
