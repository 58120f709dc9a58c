----------------------------- MODULE HeatStacks -----------------------------
(***************************************************************************)
(* The orchestration service (Heat) as rushstack/engine/service.py uses    *)
(* it.  Heat is not part of the repository: what is modelled is what the   *)
(* engine relies on, namely that stacks.create returns while the stack is  *)
(* still being built, that a name is refused while a stack of that name    *)
(* exists, that stacks.delete is accepted at once and carried out later,   *)
(* and that a stack that is gone is an error to delete or to inspect.      *)
(***************************************************************************)
EXTENDS Naturals

CONSTANTS
    StackIds,      \* the identifiers Heat gives to stacks, one per creation
    StackNames,    \* the names a stack can be created under
    None,          \* Python's None
    HeatFails,     \* may Heat fail to create or to delete a stack?
    OperatorActs   \* may stacks be deleted in Heat without the engine?

ASSUME HeatAssumption ==
    /\ None \notin StackIds
    /\ None \notin StackNames
    /\ HeatFails \in BOOLEAN
    /\ OperatorActs \in BOOLEAN

VARIABLE heat      \* heat[s]: name, status and address of the stack s

(***************************************************************************)
(* "UNBORN" and "GONE" are not statuses of Heat: the identifier is not     *)
(* used yet, or the stack was deleted and Heat no longer knows it.         *)
(***************************************************************************)
Building == {"CREATE_IN_PROGRESS", "CREATE_COMPLETE", "CREATE_FAILED"}
Removing == {"DELETE_IN_PROGRESS", "DELETE_FAILED"}
StackStatus == Building \cup Removing

HeatTypeOK ==
    heat \in [StackIds -> [name   : StackNames \cup {None},
                           status : StackStatus \cup {"UNBORN", "GONE"},
                           ip     : BOOLEAN]]

HeatInit ==
    heat = [s \in StackIds |->
                [name |-> None, status |-> "UNBORN", ip |-> FALSE]]

Exists(s) == heat[s].status \in StackStatus

NameTaken(n) == \E s \in StackIds : Exists(s) /\ heat[s].name = n

(***************************************************************************)
(* heatclient.stacks.create: refused with HTTPConflict when NameTaken(n).  *)
(***************************************************************************)
HeatCreate(s, n) ==
    /\ heat[s].status = "UNBORN"
    /\ ~ NameTaken(n)
    /\ heat' = [heat EXCEPT ![s] = [name   |-> n,
                                    status |-> "CREATE_IN_PROGRESS",
                                    ip     |-> FALSE]]

(***************************************************************************)
(* heatclient.stacks.delete: HTTPNotFound unless Exists(s).                *)
(***************************************************************************)
HeatDelete(s) ==
    /\ Exists(s)
    /\ heat' = [heat EXCEPT ![s].status = "DELETE_IN_PROGRESS"]

(***************************************************************************)
(* What Heat does by itself: the template's EIPAssociation gets its        *)
(* address, the creation completes, fails or times out (timeout_mins), a   *)
(* deletion completes or fails.                                            *)
(***************************************************************************)
Associate(s) ==
    /\ heat[s].status = "CREATE_IN_PROGRESS"
    /\ ~ heat[s].ip
    /\ heat' = [heat EXCEPT ![s].ip = TRUE]

Complete(s) ==
    /\ heat[s].status = "CREATE_IN_PROGRESS"
    /\ heat[s].ip
    /\ heat' = [heat EXCEPT ![s].status = "CREATE_COMPLETE"]

FailCreate(s) ==
    /\ HeatFails
    /\ heat[s].status = "CREATE_IN_PROGRESS"
    /\ heat' = [heat EXCEPT ![s].status = "CREATE_FAILED"]

Vanish(s) ==
    /\ heat[s].status = "DELETE_IN_PROGRESS"
    /\ heat' = [heat EXCEPT ![s].status = "GONE", ![s].ip = FALSE]

FailDelete(s) ==
    /\ HeatFails
    /\ heat[s].status = "DELETE_IN_PROGRESS"
    /\ heat' = [heat EXCEPT ![s].status = "DELETE_FAILED"]

(***************************************************************************)
(* A stack deleted with Heat's own tools, behind the engine's back.        *)
(***************************************************************************)
OperatorDelete(s) ==
    /\ OperatorActs
    /\ heat[s].status \in Building
    /\ heat' = [heat EXCEPT ![s].status = "DELETE_IN_PROGRESS"]

HeatStep(s) ==
    \/ Associate(s)
    \/ Complete(s)
    \/ FailCreate(s)
    \/ Vanish(s)
    \/ FailDelete(s)
    \/ OperatorDelete(s)
=============================================================================
