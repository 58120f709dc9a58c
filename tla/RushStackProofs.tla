---------------------------- MODULE RushStackProofs ----------------------------
(***************************************************************************)
(* Whose stack is whose, for any workers, tenants, identifiers and names,  *)
(* with every kind of failure: a rush records the stack of its own name,   *)
(* two rushes never record one stack, and a stop deletes no other stack    *)
(* than its own.  The last two hold where nobody deletes stacks behind the *)
(* engine's back.  Where every method runs to its end, no stack leaks.     *)
(***************************************************************************)
EXTENDS RushEngineProofs

LEMMA InitStackInv == Init => StackInv
BY HeatAssumption
   DEF Init, HeatInit, TablesInit, StackInv, NamesInv, Exists, StackStatus, Building,
   Removing, StartsOwn, HoldsOwn, NamesApart, Making, StopHeld, Stopping, RowHeld,
   RowRecordsOwnStack, StackRecordedOnce, Owners

(***************************************************************************)
(* What a step other than one of a start leaves as it was.                 *)
(***************************************************************************)

\* A stack that has a name keeps it.
NamesKept ==
    \A s \in StackIds : heat[s].name # None => heat'[s].name = heat[s].name

\* A stack that a start is making stays.
FreshKept ==
    ~OperatorActs =>
        \A s \in StackIds :
            heat[s].status \in Building /\ Fresh(s) => heat'[s].status \in Building

\* A row keeps its name and its stack; one that was listed may go.
RowKept(r) ==
    \/ rushStack'[r] = None /\ (rushStack[r] = None \/ r \in listed')
    \/ rushStack[r] # None /\ rushStack'[r] # None /\ SameRecord(rushStack'[r], rushStack[r])

\* A row that becomes listed records the stack of its name.
ListedRight ==
    \A r \in RushIds, t \in Tenants :
        <<r, t>> \in rushTenant' =>
            \/ <<r, t>> \in rushTenant
            \/ heat[rushStack[r].stack_id].name = StackName(t, rushStack[r].name)

SameWorker(v) ==
    /\ pc'[v] = pc[v] /\ rid'[v] = rid[v] /\ row'[v] = row[v]
    /\ info'[v] = info[v] /\ req'[v] = req[v]

\* A worker reads a row, or goes on with the one it has.
Reads(v) ==
    /\ pc'[v] # "stop_heat"
    /\ rid'[v] \in RushIds /\ rushStack[rid'[v]] # None
    /\ row'[v] = rushStack[rid'[v]]

GoesOnWith(v) ==
    /\ pc[v] \in RowHeld
    /\ rid'[v] = rid[v] /\ SameRecord(row'[v], row[v]) /\ req'[v] = req[v]
    /\ pc'[v] \in StopHeld => pc[v] \in StopHeld
    /\ pc'[v] = "stop_heat" =>
          pc[v] = "stop_check" /\ <<rid[v], req[v].tenant>> \in rushTenant

MovesOn(v) ==
    /\ pc'[v] \notin Making \cup {"start_tenant"}
    /\ pc'[v] \in RowHeld => Reads(v) \/ GoesOnWith(v)

\* A start goes on with what is right for it.
StartsOn(v) == pc'[v] \notin RowHeld /\ StartsOwn(v)'

LEMMA StatusApart ==
  /\ \A x \in Building : x \in StackStatus /\ x # "UNBORN"
  /\ \A x \in StackStatus : x # "UNBORN"
BY DEF StackStatus, Building, Removing

LEMMA RowsOf ==
  ASSUME EngineInv
  PROVE  /\ \A r \in RushIds : rushStack[r] # None => rushStack[r].stack_id \in StackIds
         /\ \A w \in Workers : pc[w] \in RowHeld =>
               rid[w] \in RushIds /\ row[w].stack_id \in StackIds
         /\ \A w \in Workers : pc[w] = "start_stack" => info[w].id \in StackIds
         /\ \A w \in Workers : pc[w] = "start_tenant" => rid[w] \in RushIds
         /\ \A w \in Workers : pc[w] # "idle" => req[w].tenant \in Tenants
<1>1. \A r \in RushIds : rushStack[r] # None => rushStack[r].stack_id \in StackIds
  BY DEF EngineInv, TypeInv, TypeOK, TablesTypeOK, RushRow
<1>2. ASSUME NEW w \in Workers
      PROVE  /\ pc[w] \in RowHeld => rid[w] \in RushIds /\ row[w].stack_id \in StackIds
             /\ pc[w] = "start_stack" => info[w].id \in StackIds
             /\ pc[w] = "start_tenant" => rid[w] \in RushIds
             /\ pc[w] # "idle" => req[w].tenant \in Tenants
  <2>1. LocalsOK(w)
    BY DEF EngineInv, TypeInv, WorkersOK
  <2> QED
    BY <2>1 DEF LocalsOK, RidHeld, InfoHeld, Drawn, Unrecorded, RushRow, StackInfo, Requests
<1> QED
  BY <1>1, <1>2

(***************************************************************************)
(* A step that keeps all that keeps the invariant.                         *)
(***************************************************************************)
LEMMA StepKeeps ==
  ASSUME EngineInv, EngineInv', StackInv, NamesInv', NamesKept, FreshKept, ListedRight,
         \A r \in RushIds : RowKept(r), listed \subseteq listed',
         \A v \in Workers : SameWorker(v) \/ MovesOn(v) \/ StartsOn(v),
         ~OperatorActs => NamesApart'
  PROVE  StackInv'
<1>1. \A r \in RushIds : rushStack'[r] # None =>
          /\ rushStack[r] # None /\ SameRecord(rushStack'[r], rushStack[r])
          /\ heat[rushStack[r].stack_id].name # None
          /\ heat'[rushStack'[r].stack_id].name = heat[rushStack[r].stack_id].name
  BY RowsOf DEF RowKept, StackInv, SameRecord, NamesKept
<1>2. RowRecordsOwnStack'
  <2> SUFFICES ASSUME NEW r \in RushIds, NEW t \in Tenants, <<r, t>> \in rushTenant'
               PROVE  heat'[rushStack'[r].stack_id].name = StackName(t, rushStack'[r].name)
    BY DEF RowRecordsOwnStack, Owners
  <2>1. rushStack'[r] # None
    BY DEF EngineInv, LifeInv, RushOK, Owners
  <2>2. heat[rushStack[r].stack_id].name = StackName(t, rushStack[r].name)
    BY DEF ListedRight, StackInv, RowRecordsOwnStack, Owners
  <2> QED BY <1>1, <2>1, <2>2 DEF SameRecord
<1>3. ~OperatorActs => StackRecordedOnce'
  BY <1>1 DEF StackInv, StackRecordedOnce, SameRecord
<1>4. \A v \in Workers : pc'[v] \in RowHeld => Reads(v) \/ GoesOnWith(v) \/ SameWorker(v)
  BY DEF MovesOn, StartsOn
<1>5. \A s \in StackIds : Fresh(s) => Fresh(s)'
  <2> SUFFICES ASSUME NEW s \in StackIds, Fresh(s) PROVE Fresh(s)'
    OBVIOUS
  <2>1. \A r \in RushIds : rushStack'[r] # None => rushStack'[r].stack_id # s
    BY <1>1 DEF Fresh, SameRecord
  <2>2. \A v \in Workers : pc'[v] \in RowHeld => row'[v].stack_id # s
    BY <1>4 DEF Fresh, Reads, GoesOnWith, SameWorker, SameRecord
  <2> QED BY <2>1, <2>2 DEF Fresh
<1>6. ASSUME NEW v \in Workers PROVE StartsOwn(v)'
  <2>1. CASE SameWorker(v)
    <3> USE <2>1 DEF SameWorker
    <3>1. MyStackName(v)' = MyStackName(v)
      BY DEF MyStackName
    <3>2. StartsOwn(v)
      BY DEF StackInv
    <3>3. \A s \in StackIds : ~OperatorActs /\ MakesOwn(v, s) => MakesOwn(v, s)'
      <4> SUFFICES ASSUME NEW s \in StackIds, ~OperatorActs, MakesOwn(v, s)
                   PROVE  MakesOwn(v, s)'
        OBVIOUS
      <4>1. heat[s].name # None
        BY StatusApart DEF StackInv, NamesInv, MakesOwn
      <4> QED BY <1>5, <3>1, <4>1 DEF MakesOwn, NamesKept, FreshKept
    <3>4. pc[v] = "start_stack" => heat'[info[v].id].name = MyStackName(v)
      <4> SUFFICES ASSUME pc[v] = "start_stack" PROVE heat'[info[v].id].name = MyStackName(v)
        OBVIOUS
      <4>1. MyStackName(v) # None
        <5>1. req[v].tenant \in Tenants /\ req[v].name \in RushNames
          BY DEF EngineInv, TypeInv, WorkersOK, LocalsOK, Drawn, Unrecorded, Requests
        <5> QED BY <5>1, EngineAssumption, HeatAssumption DEF MyStackName
      <4> QED BY <3>2, <4>1, RowsOf DEF StartsOwn, NamesKept
    <3>5. pc[v] = "start_tenant" =>
            heat'[rushStack'[rid[v]].stack_id].name =
                StackName(req[v].tenant, rushStack'[rid[v]].name)
      <4> SUFFICES ASSUME pc[v] = "start_tenant"
                   PROVE  heat'[rushStack'[rid[v]].stack_id].name =
                            StackName(req[v].tenant, rushStack'[rid[v]].name)
        OBVIOUS
      <4>1. rid[v] \in RushIds /\ rushStack'[rid[v]] # None
        BY RowsOf DEF EngineInv, LifeInv, StartOK
      <4> QED BY <1>1, <3>2, <4>1 DEF StartsOwn, SameRecord
    <3>6. info[v].id \in StackIds \/ pc[v] # "start_stack"
      BY RowsOf
    <3> QED BY <3>1, <3>2, <3>3, <3>4, <3>5, <3>6 DEF StartsOwn
  <2>2. CASE MovesOn(v)
    BY <2>2 DEF MovesOn, StartsOwn, Making
  <2>3. CASE StartsOn(v)
    BY <2>3 DEF StartsOn
  <2> QED BY <2>1, <2>2, <2>3
<1>7. ASSUME NEW v \in Workers PROVE HoldsOwn(v)'
  <2>0. CASE pc'[v] \notin RowHeld
    BY <2>0 DEF HoldsOwn, StopHeld, Stopping, RowHeld
  <2>1. ASSUME pc'[v] \in RowHeld
        PROVE  \/ Reads(v)
               \/ /\ pc[v] \in RowHeld /\ rid'[v] = rid[v] /\ req'[v] = req[v]
                  /\ SameRecord(row'[v], row[v])
                  /\ pc'[v] \in StopHeld => pc[v] \in StopHeld
                  /\ pc'[v] = "stop_heat" =>
                        \/ pc[v] = "stop_heat"
                        \/ pc[v] = "stop_check" /\ <<rid[v], req[v].tenant>> \in rushTenant
    BY <1>4, <2>1 DEF GoesOnWith, SameWorker, SameRecord
  <2>2. CASE pc'[v] \in RowHeld /\ Reads(v)
    <3>1. rid'[v] \in RushIds /\ rushStack[rid'[v]] # None /\ row'[v] = rushStack[rid'[v]]
          /\ pc'[v] # "stop_heat"
      BY <2>2 DEF Reads
    <3>2. heat'[row'[v].stack_id].name # None
      BY <3>1, RowsOf DEF StackInv, NamesKept
    <3>3. IF rushStack'[rid'[v]] = None THEN rid'[v] \in listed'
          ELSE SameRecord(row'[v], rushStack'[rid'[v]])
      BY <3>1 DEF RowKept, SameRecord
    <3>4. ~OperatorActs => \A r \in RushIds \ {rid'[v]} :
             rushStack'[r] # None => rushStack'[r].stack_id # row'[v].stack_id
      BY <1>1, <3>1 DEF StackInv, StackRecordedOnce, SameRecord
    <3> QED BY <3>1, <3>2, <3>3, <3>4 DEF HoldsOwn
  <2>3. ASSUME pc'[v] \in RowHeld,
               pc[v] \in RowHeld, rid'[v] = rid[v], req'[v] = req[v], SameRecord(row'[v], row[v]),
               pc'[v] \in StopHeld => pc[v] \in StopHeld,
               pc'[v] = "stop_heat" =>
                        \/ pc[v] = "stop_heat"
                        \/ pc[v] = "stop_check" /\ <<rid[v], req[v].tenant>> \in rushTenant
        PROVE  HoldsOwn(v)'
    <3>1. HoldsOwn(v) /\ rid[v] \in RushIds /\ row[v].stack_id \in StackIds
      BY <2>3, RowsOf DEF StackInv
    <3>2. /\ heat[row[v].stack_id].name # None
          /\ heat'[row'[v].stack_id].name = heat[row[v].stack_id].name
      BY <2>3, <3>1 DEF HoldsOwn, NamesKept, SameRecord
    <3>3. pc'[v] \in StopHeld =>
             IF rushStack'[rid'[v]] = None THEN rid'[v] \in listed'
             ELSE SameRecord(row'[v], rushStack'[rid'[v]])
      <4>1. RowKept(rid[v])
        BY <3>1
      <4> QED BY <2>3, <3>1, <4>1 DEF RowKept, SameRecord, HoldsOwn
    <3>4. pc'[v] = "stop_heat" =>
             heat'[row'[v].stack_id].name = StackName(req'[v].tenant, row'[v].name)
      <4> SUFFICES ASSUME pc'[v] = "stop_heat"
                   PROVE  heat[row[v].stack_id].name = StackName(req[v].tenant, row[v].name)
        BY <2>3, <3>2 DEF SameRecord
      <4>1. CASE pc[v] = "stop_heat"
        BY <3>1, <4>1 DEF HoldsOwn
      <4>2. CASE pc[v] = "stop_check" /\ <<rid[v], req[v].tenant>> \in rushTenant
        <5>1. req[v].tenant \in Tenants
          BY <4>2, RowsOf
        <5>2. rushStack[rid[v]] # None
          BY <3>1, <4>2, <5>1 DEF EngineInv, LifeInv, RushOK, Owners
        <5>3. SameRecord(row[v], rushStack[rid[v]])
          BY <3>1, <4>2, <5>2 DEF HoldsOwn, StopHeld
        <5>4. heat[rushStack[rid[v]].stack_id].name =
                 StackName(req[v].tenant, rushStack[rid[v]].name)
          BY <3>1, <4>2, <5>1 DEF StackInv, RowRecordsOwnStack, Owners
        <5> QED BY <5>3, <5>4 DEF SameRecord
      <4> QED BY <2>3, <4>1, <4>2
    <3>5. ~OperatorActs => \A r \in RushIds \ {rid'[v]} :
             rushStack'[r] # None => rushStack'[r].stack_id # row'[v].stack_id
      BY <1>1, <2>3, <3>1 DEF HoldsOwn, SameRecord
    <3> QED BY <3>2, <3>3, <3>4, <3>5 DEF HoldsOwn
  <2> QED BY <2>0, <2>1, <2>2, <2>3
<1>8. \A r \in RushIds : rushStack'[r] # None => heat'[rushStack'[r].stack_id].name # None
  BY <1>1
<1> QED
  BY <1>2, <1>3, <1>6, <1>7, <1>8 DEF StackInv

(***************************************************************************)
(* What happens to Heat keeps the names of the stacks.                     *)
(***************************************************************************)
HeatKept == NamesInv' /\ NamesKept /\ FreshKept

LEMMA HeatStays ==
  ASSUME StackInv, UNCHANGED heat
  PROVE  HeatKept
BY DEF StackInv, NamesInv, Exists, HeatKept, NamesKept, FreshKept

LEMMA HeatCreateKeeps ==
  ASSUME EngineInv, StackInv, NEW s \in StackIds, NEW n \in StackNames, HeatCreate(s, n)
  PROVE  HeatKept
<1>1. heat'[s].name = n /\ heat'[s].status = "CREATE_IN_PROGRESS"
      /\ \A x \in StackIds \ {s} : heat'[x] = heat[x]
  BY DEF HeatCreate, EngineInv, TypeInv, TypeOK, HeatTypeOK
<1>2. n # None /\ heat[s].name = None
  BY HeatAssumption DEF HeatCreate, StackInv, NamesInv
<1>3. \A x \in StackIds : ~ (Exists(x) /\ heat[x].name = n)
  BY DEF HeatCreate, NameTaken
<1>4. NamesInv'
  BY <1>1, <1>2, <1>3 DEF StackInv, NamesInv, Exists
<1>5. NamesKept
  BY <1>1, <1>2 DEF NamesKept
<1>6. FreshKept
  BY <1>1, StatusApart DEF FreshKept, Building
<1> QED
  BY <1>4, <1>5, <1>6 DEF HeatKept

\* A change of the status alone of a stack that exists.
LEMMA HeatStatusKeeps ==
  ASSUME EngineInv, StackInv, NEW s \in StackIds, Exists(s),
         \A x \in StackIds \ {s} : heat'[x] = heat[x],
         heat'[s].name = heat[s].name,
         heat'[s].status \in StackStatus \cup {"GONE"},
         ~OperatorActs /\ heat[s].status \in Building /\ Fresh(s)
            => heat'[s].status \in Building
  PROVE  HeatKept
<1>1. heat[s].status # "UNBORN" /\ heat'[s].status # "UNBORN"
  BY StatusApart DEF Exists
<1>2. \A x \in StackIds : Exists(x)' => Exists(x)
  BY DEF Exists
<1>3. NamesInv'
  BY <1>1, <1>2 DEF StackInv, NamesInv
<1> QED
  BY <1>3 DEF HeatKept, NamesKept, FreshKept

LEMMA HeatMovesKeeps ==
  ASSUME EngineInv, StackInv, HeatMoves
  PROVE  HeatKept
<1>1. PICK s \in StackIds : HeatStep(s)
  BY DEF HeatMoves
<1>2. heat \in [StackIds -> [name : StackNames \cup {None},
                            status : StackStatus \cup {"UNBORN", "GONE"}, ip : BOOLEAN]]
  BY DEF EngineInv, TypeInv, TypeOK, HeatTypeOK
<1>3. /\ Exists(s)
      /\ \A x \in StackIds \ {s} : heat'[x] = heat[x]
      /\ heat'[s].name = heat[s].name
      /\ heat'[s].status \in StackStatus \cup {"GONE"}
      /\ ~OperatorActs /\ heat[s].status \in Building => heat'[s].status \in Building
  <2> USE DEF StackStatus, Building, Removing, Exists
  <2>1. CASE Associate(s)
    BY <1>2, <2>1 DEF Associate
  <2>2. CASE Complete(s)
    BY <1>2, <2>2 DEF Complete
  <2>3. CASE FailCreate(s)
    BY <1>2, <2>3 DEF FailCreate
  <2>4. CASE Vanish(s)
    BY <1>2, <2>4 DEF Vanish
  <2>5. CASE FailDelete(s)
    BY <1>2, <2>5 DEF FailDelete
  <2>6. CASE OperatorDelete(s)
    BY <1>2, <2>6 DEF OperatorDelete
  <2> QED
    BY <1>1, <2>1, <2>2, <2>3, <2>4, <2>5, <2>6 DEF HeatStep
<1> QED
  BY <1>3, HeatStatusKeeps

\* The stack a stop deletes is on record in its copy of the row.
LEMMA HeatDeleteKeeps ==
  ASSUME EngineInv, StackInv, NEW w \in Workers, pc[w] \in RowHeld,
         HeatDelete(row[w].stack_id)
  PROVE  HeatKept
<1> DEFINE s == row[w].stack_id
<1>1. s \in StackIds /\ ~ Fresh(s)
  BY RowsOf DEF Fresh
<1>2. /\ \A x \in StackIds \ {s} : heat'[x] = heat[x]
      /\ heat'[s].name = heat[s].name
      /\ heat'[s].status = "DELETE_IN_PROGRESS"
      /\ Exists(s)
  BY <1>1 DEF HeatDelete, EngineInv, TypeInv, TypeOK, HeatTypeOK
<1> HIDE DEF s
<1>3. heat'[s].status \in StackStatus
  BY <1>2 DEF StackStatus, Removing
<1> QED
  BY <1>1, <1>2, <1>3, HeatStatusKeeps

LEMMA ApartKept ==
  ASSUME StackInv,
         \A v \in Workers : pc'[v] \in Making => pc[v] \in Making /\ req'[v] = req[v]
  PROVE  ~OperatorActs => NamesApart'
BY DEF StackInv, NamesApart, MyStackName

(***************************************************************************)
(* A step of one worker that goes on with a row, reads one or answers.     *)
(***************************************************************************)
OthersSame(w) == \A v \in Workers \ {w} : SameWorker(v)

LEMMA AnswerMovesOn ==
  ASSUME EngineInv, NEW w \in Workers, NEW code, Answer(w, code)
  PROVE  OthersSame(w) /\ MovesOn(w) /\ pc'[w] = "idle"
<1>1. OthersSame(w) /\ pc'[w] = "idle"
  BY DEF Answer, OthersSame, SameWorker, EngineInv, TypeInv, TypeOK, WorkersTypeOK
<1> QED
  BY <1>1 DEF MovesOn, Making, RowHeld, Stopping

LEMMA MovesOnKeeps ==
  ASSUME EngineInv, EngineInv', StackInv, NEW w \in Workers, OthersSame(w), MovesOn(w),
         HeatKept, rushTenant' \subseteq rushTenant, listed' = listed,
         \A r \in RushIds : RowKept(r)
  PROVE  StackInv'
<1>1. ListedRight
  BY DEF ListedRight
<1>2. \A v \in Workers : pc'[v] \in Making => pc[v] \in Making /\ req'[v] = req[v]
  BY DEF OthersSame, SameWorker, MovesOn
<1>3. ~OperatorActs => NamesApart'
  BY <1>2, ApartKept
<1>4. \A v \in Workers : SameWorker(v) \/ MovesOn(v) \/ StartsOn(v)
  BY DEF OthersSame
<1> QED
  BY <1>1, <1>3, <1>4, StepKeeps DEF HeatKept

LEMMA RowsKept ==
  ASSUME UNCHANGED rushStack
  PROVE  \A r \in RushIds : RowKept(r)
BY DEF RowKept, SameRecord

\* The same for a step that writes nothing.
LEMMA ReadingKeeps ==
  ASSUME EngineInv, EngineInv', StackInv, NEW w \in Workers, OthersSame(w), MovesOn(w),
         UNCHANGED <<heat, tables, history>>
  PROVE  StackInv'
<1>1. UNCHANGED <<heat, rushStack, rushTenant, listed>>
  BY DEF tables, history
<1> QED
  BY <1>1, HeatStays, RowsKept, MovesOnKeeps

\* An update of a row changes neither its name nor its stack.
LEMMA UpdateRowsKept ==
  ASSUME EngineInv, NEW r \in RushIds, NEW obj \in RushRow, NEW new \in RushRow,
         rush_stack_update(r, obj, new), UNCHANGED rushTenant
  PROVE  \A q \in RushIds : RowKept(q)
<1>0. TablesTypeOK
  BY DEF EngineInv, TypeInv, TypeOK
<1>1. CASE obj = new
  BY <1>1, RowsKept DEF rush_stack_update
<1>2. CASE obj # new
  <2>1. rushStack[r] \in RushRow /\ rushStack \in [RushIds -> RushRow \cup {None}]
    BY <1>0, <1>2 DEF rush_stack_update, StaleData, TablesTypeOK
  <2>2. \A q \in RushIds : rushStack'[q] = None <=> rushStack[q] = None
    BY <1>0, UpdateKeepsRows
  <2> DEFINE st == IF new.status # obj.status THEN new.status ELSE rushStack[r].status
             ur == IF new.url # obj.url THEN new.url ELSE rushStack[r].url
             upd == [name |-> rushStack[r].name, stack_id |-> rushStack[r].stack_id,
                     status |-> st, url |-> ur]
  <2>3. rushStack' = [rushStack EXCEPT ![r] = upd]
    BY <1>2, <2>1 DEF rush_stack_update, RushRow
  <2>4. \A q \in RushIds \ {r} : rushStack'[q] = rushStack[q]
    BY <2>1, <2>3
  <2>5. rushStack'[r] = upd
    BY <2>1, <2>3
  <2>6. SameRecord(rushStack'[r], rushStack[r])
    BY <2>5 DEF SameRecord
  <2>7. rushStack[r] # None
    BY <2>1, RowAssumption
  <2> QED
    BY <2>2, <2>4, <2>6, <2>7 DEF RowKept, SameRecord
<1> QED
  BY <1>1, <1>2

LEMMA Apart ==
  /\ Making \cup {"start_tenant", "idle"} \subseteq Labels \ RowHeld
  /\ StopHeld \subseteq RowHeld /\ "stop_heat" \in StopHeld
BY DEF Making, Labels, RowHeld, StopHeld, Stopping

LEMMA GotoMovesOn ==
  ASSUME EngineInv, NEW w \in Workers, NEW label \in RowHeld, Goto(w, label),
         UNCHANGED <<rid, row, info>>,
         pc[w] \in RowHeld, label \in StopHeld => pc[w] \in StopHeld,
         label = "stop_heat" =>
            pc[w] = "stop_check" /\ <<rid[w], req[w].tenant>> \in rushTenant
  PROVE  OthersSame(w) /\ MovesOn(w)
<1>1. pc'[w] = label /\ OthersSame(w)
  BY DEF Goto, OthersSame, SameWorker, EngineInv, TypeInv, TypeOK, WorkersTypeOK
<1>2. GoesOnWith(w)
  BY <1>1 DEF GoesOnWith, SameRecord, Goto
<1> QED
  BY <1>1, <1>2, Apart DEF MovesOn

LEMMA ReadMovesOn ==
  ASSUME EngineInv, NEW w \in Workers, NEW label \in RowHeld \ {"stop_heat"},
         Goto(w, label), NEW r \in RushIds, rushStack[r] # None,
         rid' = [rid EXCEPT ![w] = r], row' = [row EXCEPT ![w] = rushStack[r]],
         UNCHANGED info
  PROVE  OthersSame(w) /\ MovesOn(w)
<1>1. pc'[w] = label /\ OthersSame(w) /\ Reads(w)
  BY DEF Goto, OthersSame, SameWorker, Reads, EngineInv, TypeInv, TypeOK, WorkersTypeOK
<1> QED
  BY <1>1, Apart DEF MovesOn

(***************************************************************************)
(* Each step of a worker.  First those that answer, fail or receive.       *)
(***************************************************************************)
LEMMA AnswerKeeps ==
  ASSUME EngineInv, EngineInv', StackInv, NEW w \in Workers, NEW code, Answer(w, code),
         UNCHANGED <<heat, tables, history>>
  PROVE  StackInv'
BY AnswerMovesOn, ReadingKeeps

LEMMA FailureKeeps ==
  ASSUME EngineInv, EngineInv', StackInv, NEW w \in Workers, CallFails(w) \/ Crash(w)
  PROVE  StackInv'
BY AnswerKeeps DEF CallFails, Crash

LEMMA ReceiveKeeps ==
  ASSUME EngineInv, EngineInv', StackInv, NEW w \in Workers, Receive(w)
  PROVE  StackInv'
<1>1. ASSUME NEW q, NEW label \in {"start_type", "stop_get", "get_stack", "list_tenants"},
             Accept(w, q, label)
      PROVE  StackInv'
  <2>1. OthersSame(w) /\ pc'[w] = label
    BY <1>1 DEF Accept, OthersSame, SameWorker, EngineInv, TypeInv, TypeOK, WorkersTypeOK
  <2>2. MovesOn(w)
    BY <1>1, <2>1 DEF MovesOn, Making, RowHeld, Stopping
  <2> QED
    BY <1>1, <2>1, <2>2, ReadingKeeps DEF Accept
<1> QED
  BY <1>1 DEF Receive, Start, Stop, Get, List

(***************************************************************************)
(* A stop deletes the stack of its copy of the row, then the rows.         *)
(***************************************************************************)
LEMMA StopStepKeeps ==
  ASSUME EngineInv, EngineInv', StackInv, NEW w \in Workers, StopStep(w)
  PROVE  StackInv'
<1> USE DEF RowHeld, StopHeld, Stopping
<1>1. CASE StopGet(w)
  <2>1. CASE Answer(w, "STOPRUSHEX01")
    BY <1>1, <2>1, AnswerKeeps DEF StopGet
  <2>2. CASE /\ rushStack[rid[w]] # None
             /\ row' = [row EXCEPT ![w] = rushStack[rid[w]]]
             /\ Goto(w, "stop_check")
             /\ UNCHANGED <<rid, info, todo>>
    <3>1. rid[w] \in RushIds /\ rid' = [rid EXCEPT ![w] = rid[w]]
      BY <1>1, <2>2 DEF StopGet, EngineInv, TypeInv, WorkersOK, WorkersTypeOK, LocalsOK,
         RidHeld
    <3>2. OthersSame(w) /\ MovesOn(w)
      BY <2>2, <3>1, ReadMovesOn
    <3> QED
      BY <1>1, <3>2, ReadingKeeps DEF StopGet
  <2> QED
    BY <1>1, <2>1, <2>2 DEF StopGet
<1>2. CASE StopCheck(w)
  <2>1. CASE Answer(w, "AttributeError")
    BY <1>2, <2>1, AnswerKeeps DEF StopCheck
  <2>2. CASE /\ <<rid[w], req[w].tenant>> \in rushTenant
             /\ Goto(w, "stop_heat")
             /\ UNCHANGED locals
    <3>1. OthersSame(w) /\ MovesOn(w)
      BY <1>2, <2>2, GotoMovesOn DEF StopCheck, locals
    <3> QED
      BY <1>2, <3>1, ReadingKeeps DEF StopCheck
  <2> QED
    BY <1>2, <2>1, <2>2 DEF StopCheck
<1>3. CASE StopHeat(w)
  <2>1. pc[w] = "stop_heat" /\ UNCHANGED <<rushStack, rushTenant, listed>>
    BY <1>3 DEF StopHeat, tables, history
  <2>2. HeatKept
    BY <1>3, <2>1, HeatStays, HeatDeleteKeeps DEF StopHeat
  <2>3. OthersSame(w) /\ MovesOn(w)
    BY <1>3, <2>1, AnswerMovesOn, GotoMovesOn DEF StopHeat, locals
  <2> QED
    BY <2>1, <2>2, <2>3, RowsKept, MovesOnKeeps
<1>4. CASE StopTenant(w)
  <2>1. UNCHANGED <<heat, rushStack, listed>> /\ rushTenant' \subseteq rushTenant
    BY <1>4 DEF StopTenant, rush_tenant_delete, history
  <2>2. OthersSame(w) /\ MovesOn(w)
    BY <1>4, GotoMovesOn DEF StopTenant, locals
  <2> QED
    BY <2>1, <2>2, HeatStays, RowsKept, MovesOnKeeps
<1>5. CASE StopStack(w)
  <2>1. UNCHANGED <<heat, rushTenant, listed>> /\ OthersSame(w) /\ MovesOn(w)
    BY <1>5, AnswerMovesOn DEF StopStack, history
  <2>2. rid[w] \in listed
    BY <1>5 DEF StopStack, EngineInv, LifeInv, StopOK
  <2>3. \A r \in RushIds : RowKept(r)
    BY <1>5, <2>1, <2>2 DEF StopStack, rush_stack_delete, RowKept, SameRecord,
       EngineInv, TypeInv, TypeOK, TablesTypeOK
  <2> QED
    BY <2>1, <2>3, HeatStays, MovesOnKeeps
<1> QED
  BY <1>1, <1>2, <1>3, <1>4, <1>5 DEF StopStep

(***************************************************************************)
(* The statements common to get_rush and get_list.                         *)
(***************************************************************************)
LEMMA ResourcesKeeps ==
  ASSUME EngineInv, EngineInv', StackInv, NEW w \in Workers, pc[w] \in RowHeld,
         NEW noIp, noIp => OthersSame(w) /\ MovesOn(w),
         NEW label \in RowHeld \ StopHeld, Resources(w, noIp, label)
  PROVE  StackInv'
<1>1. OthersSame(w) /\ MovesOn(w)
  BY Apart, AnswerMovesOn, GotoMovesOn DEF Resources, locals
<1> QED
  BY <1>1, ReadingKeeps DEF Resources

LEMMA EndpointRows ==
  ASSUME EngineInv, NEW w \in Workers, pc[w] \in RowHeld, NEW ACTION done, Endpoint(w, done)
  PROVE  \A r \in RushIds : RowKept(r)
<1>1. rid[w] \in RushIds /\ row[w] \in RushRow
  BY DEF EngineInv, TypeInv, WorkersOK, LocalsOK, RidHeld
<1>2. WithUrl(w) \in RushRow
  <2>1. WithUrl(w) = [name |-> row[w].name, stack_id |-> row[w].stack_id,
                      status |-> row[w].status, url |-> row[w].stack_id]
    BY <1>1 DEF WithUrl, RushRow
  <2> QED
    BY <1>1, <2>1 DEF RushRow
<1> QED
  BY <1>1, <1>2, RowsKept, UpdateRowsKept DEF Endpoint

LEMMA EndpointKeeps ==
  ASSUME EngineInv, EngineInv', StackInv, NEW w \in Workers, pc[w] \in RowHeld,
         NEW ACTION done, done => OthersSame(w) /\ MovesOn(w), Endpoint(w, done)
  PROVE  StackInv'
<1>1. UNCHANGED <<heat, rushTenant, listed>>
  BY DEF Endpoint, history
<1>2. \A r \in RushIds : RowKept(r)
  BY EndpointRows
<1>3. OthersSame(w) /\ MovesOn(w)
  BY AnswerMovesOn DEF Endpoint
<1> QED
  BY <1>1, <1>2, <1>3, HeatStays, MovesOnKeeps

LEMMA GetStepKeeps ==
  ASSUME EngineInv, EngineInv', StackInv, NEW w \in Workers, GetStep(w)
  PROVE  StackInv'
<1> USE DEF RowHeld, StopHeld, Stopping
<1>1. CASE GetStack(w)
  <2>1. CASE Answer(w, "GETRUSHEX02")
    BY <1>1, <2>1, AnswerKeeps DEF GetStack
  <2>2. CASE /\ rushStack[rid[w]] # None
             /\ row' = [row EXCEPT ![w] = rushStack[rid[w]]]
             /\ Goto(w, "get_check")
             /\ UNCHANGED <<rid, info, todo>>
    <3>1. rid[w] \in RushIds /\ rid' = [rid EXCEPT ![w] = rid[w]]
      BY <1>1, <2>2 DEF GetStack, EngineInv, TypeInv, WorkersOK, WorkersTypeOK, LocalsOK,
         RidHeld
    <3>2. OthersSame(w) /\ MovesOn(w)
      BY <2>2, <3>1, ReadMovesOn
    <3> QED
      BY <1>1, <3>2, ReadingKeeps DEF GetStack
  <2> QED
    BY <1>1, <2>1, <2>2 DEF GetStack
<1>2. CASE GetCheck(w)
  <2>1. OthersSame(w) /\ MovesOn(w)
    BY <1>2, AnswerMovesOn, GotoMovesOn DEF GetCheck, locals
  <2> QED
    BY <1>2, <2>1, ReadingKeeps DEF GetCheck
<1>3. CASE GetResources(w)
  <2>1. Answer(w, "OK") => OthersSame(w) /\ MovesOn(w)
    BY AnswerMovesOn
  <2> QED
    BY <1>3, <2>1, ResourcesKeeps DEF GetResources
<1>4. CASE GetUpdate(w)
  <2>1. Answer(w, "OK") => OthersSame(w) /\ MovesOn(w)
    BY AnswerMovesOn
  <2> QED
    BY <1>4, <2>1, EndpointKeeps DEF GetUpdate
<1> QED
  BY <1>1, <1>2, <1>3, <1>4 DEF GetStep

LEMMA NextRowMovesOn ==
  ASSUME EngineInv, NEW w \in Workers, NextRow(w)
  PROVE  OthersSame(w) /\ MovesOn(w)
<1>1. CASE Answer(w, "OK")
  BY <1>1, AnswerMovesOn
<1>2. CASE ~ Answer(w, "OK")
  <2>1. /\ Goto(w, "list_row") /\ UNCHANGED info
        /\ rid' = [rid EXCEPT ![w] = None] /\ row' = [row EXCEPT ![w] = None]
    BY <1>2 DEF NextRow
  <2>2. OthersSame(w) /\ pc'[w] = "list_row"
    BY <2>1 DEF Goto, OthersSame, SameWorker, EngineInv, TypeInv, TypeOK, WorkersTypeOK
  <2> QED
    BY <2>2 DEF MovesOn, Making, RowHeld, Stopping
<1> QED
  BY <1>1, <1>2

LEMMA StatusRows ==
  ASSUME EngineInv, NEW w \in Workers, ListStatus(w)
  PROVE  \A r \in RushIds : RowKept(r)
<1> DEFINE new == [row[w] EXCEPT !.status = info[w].status]
<1>1. rid[w] \in RushIds /\ row[w] \in RushRow /\ info[w] \in StackInfo
  BY DEF ListStatus, EngineInv, TypeInv, WorkersOK, LocalsOK, RidHeld, RowHeld, InfoHeld
<1>2. new = [name |-> row[w].name, stack_id |-> row[w].stack_id,
             status |-> info[w].status, url |-> row[w].url]
  BY <1>1 DEF RushRow
<1>3. UNCHANGED rushStack \/ rush_stack_update(rid[w], row[w], new)
  BY DEF ListStatus
<1>4. UNCHANGED rushTenant
  BY DEF ListStatus
<1> HIDE DEF new
<1>5. new \in RushRow
  BY <1>1, <1>2 DEF RushRow, StackInfo
<1> QED
  BY <1>1, <1>3, <1>4, <1>5, RowsKept, UpdateRowsKept

LEMMA ListStepKeeps ==
  ASSUME EngineInv, EngineInv', StackInv, NEW w \in Workers, ListStep(w)
  PROVE  StackInv'
<1>1. CASE ListTenants(w)
  <2>1. CASE Answer(w, "OK")
    BY <1>1, <2>1, AnswerKeeps DEF ListTenants
  <2>2. CASE Goto(w, "list_row") /\ UNCHANGED <<rid, row, info>>
    <3>1. OthersSame(w) /\ pc'[w] = "list_row"
      BY <2>2 DEF Goto, OthersSame, SameWorker, EngineInv, TypeInv, TypeOK, WorkersTypeOK
    <3>2. MovesOn(w)
      BY <3>1 DEF MovesOn, Making, RowHeld, Stopping
    <3> QED
      BY <1>1, <3>1, <3>2, ReadingKeeps DEF ListTenants
  <2> QED
    BY <1>1, <2>1, <2>2 DEF ListTenants
<1>2. CASE ListRow(w)
  <2>1. CASE Answer(w, "AttributeError")
    BY <1>2, <2>1, AnswerKeeps DEF ListRow
  <2>2. CASE \E r \in todo[w] :
                /\ rushStack[r] # None
                /\ rid' = [rid EXCEPT ![w] = r]
                /\ row' = [row EXCEPT ![w] = rushStack[r]]
                /\ Goto(w, "list_stacks")
                /\ UNCHANGED <<info, todo>>
    <3>1. todo[w] \subseteq RushIds
      BY DEF EngineInv, TypeInv, TypeOK, WorkersTypeOK
    <3>2. "list_stacks" \in RowHeld \ {"stop_heat"}
      BY DEF RowHeld
    <3>3. OthersSame(w) /\ MovesOn(w)
      BY <2>2, <3>1, <3>2, ReadMovesOn
    <3> QED
      BY <1>2, <3>3, ReadingKeeps DEF ListRow
  <2> QED
    BY <1>2, <2>1, <2>2 DEF ListRow
<1>3. CASE ListStacks(w)
  <2>1. CASE Answer(w, "UnboundLocalError")
    BY <1>3, <2>1, AnswerKeeps DEF ListStacks
  <2>2. CASE \E i \in LoopResult(w) :
                /\ info' = [info EXCEPT ![w] = i]
                /\ Goto(w, IF i.name = RowStackName(w)
                           THEN "list_status" ELSE "list_resources")
                /\ UNCHANGED <<rid, row, todo>>
    <3>1. PICK i \in LoopResult(w) :
                /\ info' = [info EXCEPT ![w] = i]
                /\ Goto(w, IF i.name = RowStackName(w)
                           THEN "list_status" ELSE "list_resources")
                /\ UNCHANGED <<rid, row, todo>>
      BY <2>2
    <3>2. pc[w] \in RowHeld
      BY <1>3 DEF ListStacks, RowHeld
    <3>3. OthersSame(w) /\ pc'[w] \in {"list_status", "list_resources"}
      BY <3>1 DEF Goto, OthersSame, SameWorker, EngineInv, TypeInv, TypeOK, WorkersTypeOK
    <3>4. GoesOnWith(w)
      BY <3>1, <3>2, <3>3 DEF GoesOnWith, Goto, SameRecord, StopHeld, Stopping
    <3>5. MovesOn(w)
      BY <3>3, <3>4 DEF MovesOn, Making
    <3> QED
      BY <1>3, <3>3, <3>5, ReadingKeeps DEF ListStacks
  <2> QED
    BY <1>3, <2>1, <2>2 DEF ListStacks
<1>4. CASE ListStatus(w)
  <2> DEFINE new == [row[w] EXCEPT !.status = info[w].status]
  <2>1. pc[w] = "list_status" /\ UNCHANGED <<heat, rushTenant, listed>>
    BY <1>4 DEF ListStatus, history
  <2>2. rid[w] \in RushIds /\ row[w] \in RushRow /\ info[w] \in StackInfo
    BY <2>1 DEF EngineInv, TypeInv, WorkersOK, LocalsOK, RidHeld, RowHeld, InfoHeld
  <2>3. new = [name |-> row[w].name, stack_id |-> row[w].stack_id,
               status |-> info[w].status, url |-> row[w].url]
    BY <2>2 DEF RushRow
  <2>4. SameRecord(new, row[w])
    BY <2>3 DEF SameRecord
  <2>5. \/ Answer(w, "StaleDataError") /\ UNCHANGED rushStack
        \/ /\ rush_stack_update(rid[w], row[w], new)
           /\ row' = [row EXCEPT ![w] = new]
           /\ Goto(w, "list_resources")
           /\ UNCHANGED <<rid, info, todo>>
    BY <1>4 DEF ListStatus
  <2> HIDE DEF new
  <2>6. \A r \in RushIds : RowKept(r)
    BY <1>4, StatusRows
  <2>7. OthersSame(w) /\ MovesOn(w)
    <3>1. CASE Answer(w, "StaleDataError")
      BY <3>1, AnswerMovesOn
    <3>2. CASE /\ row' = [row EXCEPT ![w] = new]
               /\ Goto(w, "list_resources")
               /\ UNCHANGED <<rid, info, todo>>
      <4>1. OthersSame(w) /\ pc'[w] = "list_resources" /\ row'[w] = new
        BY <3>2 DEF Goto, OthersSame, SameWorker, EngineInv, TypeInv, TypeOK, WorkersTypeOK
      <4>2. GoesOnWith(w)
        BY <2>1, <2>4, <3>2, <4>1 DEF GoesOnWith, Goto, StopHeld, RowHeld, Stopping
      <4> QED
        BY <4>1, <4>2 DEF MovesOn, Making
    <3> QED
      BY <2>5, <3>1, <3>2
  <2> QED
    BY <2>1, <2>6, <2>7, HeatStays, MovesOnKeeps
<1>5. CASE ListResources(w)
  BY <1>5, NextRowMovesOn, ResourcesKeeps DEF ListResources, RowHeld, StopHeld, Stopping
<1>6. CASE ListUrl(w)
  BY <1>6, NextRowMovesOn, EndpointKeeps DEF ListUrl, RowHeld
<1> QED
  BY <1>1, <1>2, <1>3, <1>4, <1>5, <1>6 DEF ListStep

(***************************************************************************)
(* The statements of a start.                                              *)
(***************************************************************************)
LEMMA MyName ==
  ASSUME EngineInv, NEW w \in Workers, pc[w] \in Drawn
  PROVE  MyStackName(w) \in StackNames /\ MyStackName(w) # None
<1>1. req[w].tenant \in Tenants /\ req[w].name \in RushNames
  BY DEF EngineInv, TypeInv, WorkersOK, LocalsOK, Drawn, Unrecorded, Requests
<1> QED
  BY <1>1, EngineAssumption, HeatAssumption DEF MyStackName

LEMMA StartTypeKeeps ==
  ASSUME EngineInv, EngineInv', StackInv, NEW w \in Workers, StartType(w)
  PROVE  StackInv'
<1>1. UNCHANGED <<heat, rushStack, rushTenant, listed>>
  BY DEF StartType, tables
<1>2. ASSUME NEW code, Answer(w, code) PROVE OthersSame(w) /\ MovesOn(w)
  BY <1>2, AnswerMovesOn
<1>3. ASSUME NEW r, rid' = [rid EXCEPT ![w] = r], Goto(w, "start_create"),
             UNCHANGED <<row, info>>
      PROVE  OthersSame(w) /\ MovesOn(w)
  <2>1. OthersSame(w) /\ pc'[w] = "start_create"
    BY <1>3 DEF Goto, OthersSame, SameWorker, EngineInv, TypeInv, TypeOK, WorkersTypeOK
  <2> QED
    BY <2>1 DEF MovesOn, Making, RowHeld, Stopping
<1>4. OthersSame(w) /\ MovesOn(w)
  BY <1>2, <1>3 DEF StartType
<1> QED
  BY <1>1, <1>4, HeatStays, RowsKept, MovesOnKeeps

\* A start under way has a stack of its name in Heat.
LEMMA MakingTakesName ==
  ASSUME EngineInv, StackInv, ~OperatorActs, NEW v \in Workers, pc[v] \in Making
  PROVE  NameTaken(MyStackName(v))
<1>1. PICK s \in StackIds : MakesOwn(v, s)
  BY RowsOf DEF Making, StackInv, StartsOwn
<1> QED
  BY <1>1 DEF MakesOwn, NameTaken, Exists, StackStatus

\* A stack that has no name yet is on no record.
LEMMA UnbornFresh ==
  ASSUME EngineInv, StackInv, NEW s \in StackIds, heat[s].name = None
  PROVE  Fresh(s)
BY DEF Fresh, StackInv, HoldsOwn

LEMMA StartCreateKeeps ==
  ASSUME EngineInv, EngineInv', StackInv, NEW w \in Workers, StartCreate(w)
  PROVE  StackInv'
<1>1. pc[w] = "start_create" /\ UNCHANGED <<rushStack, rushTenant, listed>>
  BY DEF StartCreate, tables, history
<1>2. MyStackName(w) \in StackNames /\ MyStackName(w) # None
  BY <1>1, MyName DEF Drawn, Unrecorded
<1>3. CASE Answer(w, "HTTPConflict") /\ UNCHANGED heat
  BY <1>3, AnswerKeeps DEF StartCreate
<1>4. ASSUME NEW s \in StackIds, HeatCreate(s, MyStackName(w)), Answer(w, "ConnectionError")
      PROVE  StackInv'
  <2>1. HeatKept /\ OthersSame(w) /\ MovesOn(w)
    BY <1>2, <1>4, HeatCreateKeeps, AnswerMovesOn
  <2> QED
    BY <1>1, <2>1, RowsKept, MovesOnKeeps
<1>5. ASSUME NEW s \in StackIds, HeatCreate(s, MyStackName(w)), Goto(w, "start_list"),
             UNCHANGED locals
      PROVE  StackInv'
  <2>1. HeatKept
    BY <1>2, <1>5, HeatCreateKeeps
  <2>2. /\ pc' = [pc EXCEPT ![w] = "start_list"]
        /\ UNCHANGED <<req, rid, row, info>>
        /\ pc \in [Workers -> Labels]
    BY <1>5 DEF Goto, locals, EngineInv, TypeInv, TypeOK, WorkersTypeOK
  <2>3. OthersSame(w) /\ pc'[w] = "start_list"
    BY <2>2 DEF OthersSame, SameWorker
  <2>4. heat'[s].name = MyStackName(w) /\ heat'[s].status = "CREATE_IN_PROGRESS"
    BY <1>5 DEF HeatCreate, EngineInv, TypeInv, TypeOK, HeatTypeOK
  <2>5. Fresh(s)'
    <3>1. Fresh(s)
      BY <1>5, UnbornFresh DEF HeatCreate, StackInv, NamesInv
    <3>2. \A v \in Workers : pc'[v] \in RowHeld => pc[v] \in RowHeld
      BY <2>2 DEF RowHeld, Stopping
    <3> QED
      BY <1>1, <2>2, <3>1, <3>2 DEF Fresh
  <2>6. StartsOn(w)
    <3>1. MyStackName(w)' = MyStackName(w)
      BY <2>2 DEF MyStackName
    <3>2. MakesOwn(w, s)'
      BY <2>4, <2>5, <3>1 DEF MakesOwn, Building
    <3>3. StartsOwn(w)'
      BY <2>3, <3>2 DEF StartsOwn
    <3> QED
      BY <2>3, <3>3, Apart DEF StartsOn, Making
  <2>7. ~OperatorActs => NamesApart'
    <3> SUFFICES ASSUME ~OperatorActs, NEW v \in Workers, NEW u \in Workers, v # u,
                        pc'[v] \in Making, pc'[u] \in Making
                 PROVE  MyStackName(v) # MyStackName(u)
      BY <2>2 DEF NamesApart, MyStackName
    <3>1. ASSUME NEW x \in Workers \ {w}, pc'[x] \in Making
          PROVE  pc[x] \in Making /\ MyStackName(x) # MyStackName(w)
      BY <1>5, <2>3, <3>1, MakingTakesName DEF HeatCreate, OthersSame, SameWorker
    <3> QED
      BY <3>1 DEF StackInv, NamesApart
  <2>8. ListedRight /\ listed \subseteq listed' /\ \A r \in RushIds : RowKept(r)
    BY <1>1, RowsKept DEF ListedRight
  <2>9. \A v \in Workers : SameWorker(v) \/ MovesOn(v) \/ StartsOn(v)
    BY <2>3, <2>6 DEF OthersSame
  <2> QED
    BY <2>1, <2>7, <2>8, <2>9, StepKeeps DEF HeatKept
<1> QED
  BY <1>3, <1>4, <1>5 DEF StartCreate

LEMMA StartListKeeps ==
  ASSUME EngineInv, EngineInv', StackInv, NEW w \in Workers, StartList(w)
  PROVE  StackInv'
<1>1. pc[w] = "start_list" /\ UNCHANGED <<heat, rushStack, rushTenant, listed>>
  BY DEF StartList, tables, history
<1>2. ASSUME NEW code, Answer(w, code) PROVE StackInv'
  BY <1>2, AnswerKeeps DEF StartList
<1>3. ASSUME NEW s \in Named(req[w].tenant, req[w].name), info' = [info EXCEPT ![w] = InfoOf(s)],
             Goto(w, "start_stack"), UNCHANGED <<rid, row>>
      PROVE  StackInv'
  <2>1. /\ pc' = [pc EXCEPT ![w] = "start_stack"]
        /\ UNCHANGED <<req, rid, row>>
        /\ pc \in [Workers -> Labels]
    BY <1>3 DEF Goto, EngineInv, TypeInv, TypeOK, WorkersTypeOK
  <2>2. OthersSame(w) /\ pc'[w] = "start_stack"
    BY <1>3, <2>1 DEF OthersSame, SameWorker, EngineInv, TypeInv, TypeOK, WorkersTypeOK
  <2>3. info'[w].id = s
    BY <1>3 DEF InfoOf, EngineInv, TypeInv, TypeOK, WorkersTypeOK
  <2>4. s \in StackIds /\ Exists(s) /\ heat[s].name = MyStackName(w)
    BY <1>3 DEF Named, TenantStacks, MyStackName
  <2>5. \A x \in StackIds : ~OperatorActs /\ MakesOwn(w, x) => x = s
    BY <2>4 DEF MakesOwn, StackInv, NamesInv, Exists, StackStatus
  <2>6. ~OperatorActs => MakesOwn(w, s)
    BY <1>1, <2>5 DEF StackInv, StartsOwn
  <2>7. Fresh(s) => Fresh(s)'
    <3>1. \A v \in Workers : pc'[v] \in RowHeld => pc[v] \in RowHeld
      BY <2>1 DEF RowHeld, Stopping
    <3> QED
      BY <1>1, <2>1, <3>1 DEF Fresh
  <2>8. StartsOn(w)
    <3>1. MyStackName(w)' = MyStackName(w)
      BY <2>1 DEF MyStackName
    <3>2. ~OperatorActs => MakesOwn(w, s)'
      BY <1>1, <2>6, <2>7, <3>1 DEF MakesOwn
    <3>3. StartsOwn(w)'
      BY <1>1, <2>2, <2>3, <2>4, <3>1, <3>2 DEF StartsOwn
    <3> QED
      BY <2>2, <3>3, Apart DEF StartsOn, Making
  <2>9. ~OperatorActs => NamesApart'
    <3>1. \A v \in Workers : pc'[v] \in Making => pc[v] \in Making /\ req'[v] = req[v]
      BY <1>1, <2>1 DEF Making
    <3> QED
      BY <3>1, ApartKept
  <2>10. ListedRight /\ listed \subseteq listed' /\ \A r \in RushIds : RowKept(r)
    BY <1>1, RowsKept DEF ListedRight
  <2>11. \A v \in Workers : SameWorker(v) \/ MovesOn(v) \/ StartsOn(v)
    BY <2>2, <2>8 DEF OthersSame
  <2>12. HeatKept
    BY <1>1, HeatStays
  <2> QED
    BY <2>9, <2>10, <2>11, <2>12, StepKeeps DEF HeatKept
<1> QED
  BY <1>2, <1>3 DEF StartList

LEMMA StartTenantKeeps ==
  ASSUME EngineInv, EngineInv', StackInv, NEW w \in Workers, StartTenant(w)
  PROVE  StackInv'
<1>1. /\ pc[w] = "start_tenant" /\ UNCHANGED <<heat, rushStack>>
      /\ rushTenant' = rushTenant \cup {<<rid[w], req[w].tenant>>}
      /\ listed \subseteq listed' /\ Answer(w, "OK")
  BY DEF StartTenant, rush_tenant_create
<1>2. ListedRight
  BY <1>1 DEF ListedRight, StackInv, StartsOwn
<1>3. OthersSame(w) /\ MovesOn(w)
  BY <1>1, AnswerMovesOn
<1>4. ~OperatorActs => NamesApart'
  <2>1. \A v \in Workers : pc'[v] \in Making => pc[v] \in Making /\ req'[v] = req[v]
    BY <1>3 DEF OthersSame, SameWorker, MovesOn
  <2> QED
    BY <2>1, ApartKept
<1>5. \A v \in Workers : SameWorker(v) \/ MovesOn(v) \/ StartsOn(v)
  BY <1>3 DEF OthersSame
<1>6. HeatKept /\ \A r \in RushIds : RowKept(r)
  BY <1>1, HeatStays, RowsKept
<1> QED
  BY <1>1, <1>2, <1>4, <1>5, <1>6, StepKeeps DEF HeatKept

(***************************************************************************)
(* The record of the stack: the one step that writes a new row.            *)
(***************************************************************************)
LEMMA StartStackKeeps ==
  ASSUME EngineInv, EngineInv', StackInv, NEW w \in Workers, StartStack(w)
  PROVE  StackInv'
<1> DEFINE q == rid[w]
           s == info[w].id
           new == [name |-> req[w].name, stack_id |-> s, status |-> info[w].status,
                   url |-> None]
<1>1. /\ pc[w] = "start_stack"
      /\ rushStack' = [rushStack EXCEPT ![q] = new]
      /\ pc' = [pc EXCEPT ![w] = "start_tenant"]
      /\ UNCHANGED <<heat, rushTenant, req, rid, row, info, listed>>
  BY DEF StartStack, rush_stack_create, Goto, locals, history
<1>2. q \in RushIds /\ s \in StackIds /\ rushStack[q] = None /\ q \notin listed
  BY <1>1, RowsOf DEF EngineInv, LifeInv, StartOK, Drawn, Unrecorded, TypeInv, WorkersOK,
     LocalsOK, RidHeld
<1>3. heat[s].name = MyStackName(w) /\ MyStackName(w) # None
  BY <1>1, MyName DEF StackInv, StartsOwn, Drawn, Unrecorded
<1>4. ~OperatorActs => Fresh(s)
  BY <1>1 DEF StackInv, StartsOwn, MakesOwn
<1>5. /\ rushStack'[q].name = req[w].name /\ rushStack'[q].stack_id = s
      /\ \A r \in RushIds \ {q} : rushStack'[r] = rushStack[r]
  BY <1>1, <1>2 DEF EngineInv, TypeInv, TypeOK, TablesTypeOK
<1>6. /\ pc'[w] = "start_tenant"
      /\ \A v \in Workers \ {w} : pc'[v] = pc[v]
      /\ \A v \in Workers : pc'[v] \in RowHeld => pc[v] \in RowHeld /\ v # w
  BY <1>1, Apart DEF EngineInv, TypeInv, TypeOK, WorkersTypeOK
<1> HIDE DEF q, s, new
<1>7. NamesInv'
  BY <1>1, HeatStays DEF HeatKept
<1>8. ~OperatorActs => NamesApart'
  <2>1. \A v \in Workers : pc'[v] \in Making => pc[v] \in Making /\ req'[v] = req[v]
    BY <1>1, <1>6 DEF Making
  <2> QED
    BY <2>1, ApartKept
<1>9. ASSUME NEW v \in Workers PROVE StartsOwn(v)'
  <2>1. MyStackName(v)' = MyStackName(v)
    BY <1>1 DEF MyStackName
  <2>2. CASE v = w
    <3>1. heat'[rushStack'[rid'[w]].stack_id].name =
             StackName(req'[w].tenant, rushStack'[rid'[w]].name)
      BY <1>1, <1>3, <1>5 DEF MyStackName, q
    <3> QED
      BY <1>6, <2>2, <3>1 DEF StartsOwn
  <2>3. CASE v # w
    <3>1. pc'[v] = pc[v] /\ StartsOwn(v)
      BY <1>6, <2>3 DEF StackInv
    <3>2. pc[v] = "start_tenant" => rushStack'[rid[v]] = rushStack[rid[v]]
      <4>1. pc[v] = "start_tenant" => rid[v] # q /\ rid[v] \in RushIds
        BY <1>1, <2>3, RowsOf DEF EngineInv, LifeInv, DrawnApart, Drawn, Unrecorded, q
      <4> QED
        BY <1>5, <4>1
    <3>3. ASSUME ~OperatorActs, NEW x \in StackIds, pc[v] \in Making, MakesOwn(v, x)
          PROVE  MakesOwn(v, x)'
      <4>1. x # s
        BY <1>1, <1>3, <2>3, <3>3 DEF MakesOwn, StackInv, NamesApart, Making
      <4>2. Fresh(x)'
        BY <1>1, <1>5, <1>6, <3>3, <4>1 DEF MakesOwn, Fresh
      <4> QED
        BY <1>1, <2>1, <3>3, <4>2 DEF MakesOwn
    <3>4. ~OperatorActs /\ pc[v] = "start_list" =>
             \E x \in StackIds : MakesOwn(v, x)'
      BY <3>1, <3>3 DEF StartsOwn, Making
    <3>5. ~OperatorActs /\ pc[v] = "start_stack" =>
             \A x \in StackIds : x = info[v].id => MakesOwn(v, x)'
      BY <3>1, <3>3 DEF StartsOwn, Making
    <3>6. ~OperatorActs /\ pc'[v] = "start_stack" => MakesOwn(v, info[v].id)'
      BY <1>1, <3>1, <3>5, RowsOf DEF MakesOwn
    <3> QED
      BY <1>1, <2>1, <3>1, <3>2, <3>4, <3>6 DEF StartsOwn
  <2> QED
    BY <2>2, <2>3
<1>10. ASSUME NEW v \in Workers PROVE HoldsOwn(v)'
  <2>1. CASE pc'[v] \notin RowHeld
    BY <2>1, Apart DEF HoldsOwn
  <2>2. CASE pc'[v] \in RowHeld
    <3>1. pc[v] \in RowHeld /\ pc'[v] = pc[v] /\ HoldsOwn(v) /\ rid[v] \in RushIds
      BY <1>6, <2>2, RowsOf DEF StackInv
    <3>2. pc[v] \in StopHeld => rid[v] # q
      BY <1>2, <3>1 DEF HoldsOwn
    <3>3. pc[v] \in StopHeld => rushStack'[rid[v]] = rushStack[rid[v]]
      BY <1>5, <3>1, <3>2
    <3>4. ~OperatorActs => row[v].stack_id # s
      BY <1>4, <3>1 DEF Fresh
    <3>5. ~OperatorActs =>
             \A r \in RushIds \ {rid[v]} :
                rushStack'[r] # None => rushStack'[r].stack_id # row[v].stack_id
      BY <1>5, <3>1, <3>4 DEF HoldsOwn
    <3> QED
      BY <1>1, <3>1, <3>3, <3>5 DEF HoldsOwn
  <2> QED
    BY <2>1, <2>2
<1>11. \A r \in RushIds : rushStack'[r] # None => heat'[rushStack'[r].stack_id].name # None
  BY <1>1, <1>3, <1>5 DEF StackInv
<1>12. RowRecordsOwnStack'
  <2> SUFFICES ASSUME NEW r \in RushIds, NEW t \in Tenants, <<r, t>> \in rushTenant
               PROVE  heat[rushStack'[r].stack_id].name = StackName(t, rushStack'[r].name)
    BY <1>1 DEF RowRecordsOwnStack, Owners
  <2>1. r # q
    BY <1>2 DEF EngineInv, LifeInv, RushOK, Owners
  <2> QED
    BY <1>5, <2>1 DEF StackInv, RowRecordsOwnStack, Owners
<1>13. ~OperatorActs => StackRecordedOnce'
  BY <1>4, <1>5 DEF StackInv, StackRecordedOnce, Fresh
<1> QED
  BY <1>7, <1>8, <1>9, <1>10, <1>11, <1>12, <1>13 DEF StackInv

(***************************************************************************)
(* Heat moves by itself.                                                   *)
(***************************************************************************)
LEMMA HeatMovesKeepsStacks ==
  ASSUME EngineInv, EngineInv', StackInv, HeatMoves \/ UNCHANGED vars
  PROVE  StackInv'
<1>1. UNCHANGED <<rushStack, rushTenant, pc, req, rid, row, info, listed>>
  BY DEF HeatMoves, vars, tables, locals, history
<1>2. HeatKept
  BY HeatMovesKeeps, HeatStays DEF vars
<1>3. ~OperatorActs => NamesApart'
  BY <1>1, ApartKept
<1>4. \A v \in Workers : SameWorker(v)
  BY <1>1 DEF SameWorker
<1>5. ListedRight /\ listed \subseteq listed' /\ \A r \in RushIds : RowKept(r)
  BY <1>1, RowsKept DEF ListedRight
<1> QED
  BY <1>2, <1>3, <1>4, <1>5, StepKeeps DEF HeatKept

LEMMA NextStackInv == EngineInv /\ EngineInv' /\ StackInv /\ [Next]_vars => StackInv'
<1> SUFFICES ASSUME EngineInv, EngineInv', StackInv, [Next]_vars PROVE StackInv'
  OBVIOUS
<1>1. ASSUME NEW w \in Workers, StartStep(w) PROVE StackInv'
  BY <1>1, StartTypeKeeps, StartCreateKeeps, StartListKeeps, StartStackKeeps,
     StartTenantKeeps DEF StartStep
<1>2. ASSUME NEW w \in Workers, MethodStep(w) PROVE StackInv'
  BY <1>1, <1>2, StopStepKeeps, GetStepKeeps, ListStepKeeps DEF MethodStep
<1>3. ASSUME NEW w \in Workers, Receive(w) \/ CallFails(w) \/ Crash(w) PROVE StackInv'
  BY <1>3, ReceiveKeeps, FailureKeeps
<1> QED
  BY <1>2, <1>3, HeatMovesKeepsStacks DEF Next

THEOREM StackInvariant == Spec => []StackInv
<1>1. Init => StackInv
  BY InitStackInv
<1> QED
  BY <1>1, EngineInvariant, NextStackInv, PTL DEF Spec

(***************************************************************************)
(* A listed rush records, for as long as it is listed, the stack that was  *)
(* created under its name and its tenant's (service.py:180-195), whoever   *)
(* deletes stacks meanwhile, and whatever fails.                           *)
(***************************************************************************)
THEOREM ListedRecordsOwn == Spec => []RowRecordsOwnStack
<1>1. StackInv => RowRecordsOwnStack
  BY DEF StackInv
<1> QED
  BY <1>1, StackInvariant, PTL

(***************************************************************************)
(* No two rows of rush_stack record one stack, as long as only the engine  *)
(* deletes stacks: the name a start has had a stack created under is its   *)
(* own until the stack is recorded, so that the listing finds no other.    *)
(***************************************************************************)
THEOREM StacksRecordedOnce ==
  ASSUME ~OperatorActs
  PROVE  Spec => []StackRecordedOnce
<1>1. StackInv => StackRecordedOnce
  BY DEF StackInv
<1> QED
  BY <1>1, StackInvariant, PTL

(***************************************************************************)
(* A stop deletes a stack of the tenant that asked, and one that no other  *)
(* rush records (service.py:208-223), on the same assumption.              *)
(***************************************************************************)
LEMMA StepDeletesOwn ==
  ASSUME ~OperatorActs, EngineInv, StackInv, Next, NEW w \in Workers, NEW s \in StackIds,
         pc[w] = "stop_heat", pc'[w] # "stop_heat", heat'[s] # heat[s]
  PROVE  /\ s \in TenantStacks(req[w].tenant)
         /\ \A r \in RushIds \ {rid[w]} :
               rushStack[r] # None => rushStack[r].stack_id # s
<1>1. PICK v \in Workers : Receive(v) \/ MethodStep(v) \/ CallFails(v) \/ Crash(v)
  BY DEF Next, HeatMoves
<1>2. StartCreate(v) \/ StopHeat(v)
  BY <1>1 DEF Receive, Start, Stop, Get, List, Accept, MethodStep, StartStep,
     StartType, StartList, StartStack, StartTenant, StopStep, StopGet,
     StopCheck, StopTenant, StopStack, GetStep, GetStack, GetCheck, GetResources,
     GetUpdate, Resources, Endpoint, ListStep, ListTenants, ListRow, ListStacks,
     ListStatus, ListResources, ListUrl, CallFails, Crash
<1>3. StopHeat(w)
  <2>1. \A x \in Workers \ {v} : pc'[x] = pc[x]
    BY <1>2 DEF StartCreate, StopHeat, Goto, Answer, EngineInv, TypeInv, TypeOK,
       WorkersTypeOK
  <2> QED
    BY <1>2, <2>1 DEF StartCreate
<1>4. HeatDelete(row[w].stack_id)
  BY <1>3 DEF StopHeat
<1>5. s = row[w].stack_id
  BY <1>4, RowsOf DEF HeatDelete, EngineInv, TypeInv, TypeOK, HeatTypeOK
<1>6. HoldsOwn(w) /\ row[w] \in RushRow
  BY DEF StackInv, EngineInv, TypeInv, WorkersOK, LocalsOK, RowHeld, Stopping
<1>7. s \in TenantStacks(req[w].tenant)
  BY <1>4, <1>5, <1>6 DEF HeatDelete, TenantStacks, HoldsOwn, RushRow
<1>8. \A r \in RushIds \ {rid[w]} :
         rushStack[r] # None => rushStack[r].stack_id # s
  BY <1>5, <1>6 DEF HoldsOwn, RowHeld, Stopping
<1> QED
  BY <1>7, <1>8

THEOREM StopsDeleteOwn ==
  ASSUME ~OperatorActs
  PROVE  Spec => StopDeletesOwnStack
<1> DEFINE Own ==
      \A w \in Workers : \A s \in StackIds :
          /\ pc[w] = "stop_heat"
          /\ pc'[w] # "stop_heat"
          /\ heat'[s] # heat[s]
          => /\ s \in TenantStacks(req[w].tenant)
             /\ \A r \in RushIds \ {rid[w]} :
                   rushStack[r] # None => rushStack[r].stack_id # s
<1>1. EngineInv /\ StackInv /\ [Next]_vars => [Own]_vars
  BY StepDeletesOwn
<1> QED
  BY <1>1, EngineInvariant, StackInvariant, PTL DEF Spec, StopDeletesOwnStack

-----------------------------------------------------------------------------
(***************************************************************************)
(* Every stack is accounted for, where every method runs to its end.  A    *)
(* step that neither creates a stack nor changes what the rows record      *)
(* keeps that, as long as the starts and the stops go on.                  *)
(***************************************************************************)
NoneBuilt ==
    \A s \in StackIds :
        heat'[s].status \in Building =>
            heat[s].status \in Building /\ heat'[s].name = heat[s].name

SameRecords ==
    /\ UNCHANGED rushTenant
    /\ \A r \in RushIds : rushStack'[r] = None <=> rushStack[r] = None
    /\ \A r \in RushIds : rushStack[r] # None => SameRecord(rushStack'[r], rushStack[r])

Deleting == {"stop_tenant", "stop_stack"}

StartGoesOn(v) ==
    /\ pc[v] \in Making => pc'[v] = pc[v] /\ info'[v] = info[v] /\ req'[v] = req[v]
    /\ pc[v] = "start_tenant" => pc'[v] = pc[v] /\ rid'[v] = rid[v] /\ req'[v] = req[v]

StopGoesOn(v) ==
    pc'[v] \in Deleting =>
        /\ pc[v] \in StopHeld /\ rid'[v] = rid[v]
        /\ \/ pc[v] \in Deleting
           \/ rushStack[rid[v]] # None =>
                 heat'[rushStack[rid[v]].stack_id].status \notin Building

LEMMA StopStays ==
  ASSUME EngineInv, AccountInv, NoneBuilt, SameRecords, NEW v \in Workers, StopGoesOn(v)
  PROVE  StopsDeleted(v)'
<1> SUFFICES ASSUME pc'[v] \in Deleting, rushStack'[rid'[v]] # None
             PROVE  heat'[rushStack'[rid'[v]].stack_id].status \notin Building
  BY DEF StopsDeleted, Deleting
<1>1. pc[v] \in StopHeld /\ rid'[v] = rid[v]
  BY DEF StopGoesOn
<1>2. rid[v] \in RushIds
  BY <1>1, RowsOf, Apart
<1>3. rushStack[rid[v]] # None /\ rushStack'[rid'[v]].stack_id = rushStack[rid[v]].stack_id
  BY <1>1, <1>2 DEF SameRecords, SameRecord
<1>4. rushStack[rid[v]].stack_id \in StackIds
  BY <1>2, <1>3, RowsOf
<1>5. CASE pc[v] \in Deleting
  <2>1. heat[rushStack[rid[v]].stack_id].status \notin Building
    BY <1>3, <1>5 DEF AccountInv, StopsDeleted, Deleting
  <2> QED
    BY <1>3, <1>4, <2>1 DEF NoneBuilt
<1> QED
  BY <1>3, <1>5 DEF StopGoesOn

LEMMA AccountKept ==
  ASSUME EngineInv, AccountInv, NoneBuilt, SameRecords,
         \A v \in Workers : StartGoesOn(v) /\ StopGoesOn(v)
  PROVE  AccountInv'
<1>1. ASSUME NEW s \in StackIds, heat'[s].status \in Building PROVE Accounted(s)'
  <2>1. Accounted(s) /\ heat'[s].name = heat[s].name
    BY <1>1 DEF AccountInv, NoneBuilt
  <2>2. ASSUME NEW r \in RushIds, Lists(r, s) PROVE Lists(r, s)'
    BY <2>2 DEF Lists, SameRecords, SameRecord, Owners
  <2>3. ASSUME NEW w \in Workers, Makes(w, s) PROVE Makes(w, s)'
    BY <2>1, <2>3 DEF Makes, StartGoesOn, MyStackName
  <2>4. ASSUME NEW w \in Workers, Records(w, s) PROVE Records(w, s)'
    <3>1. rid[w] \in RushIds /\ rushStack[rid[w]] # None
      BY <2>4, RowsOf DEF Records, EngineInv, LifeInv, StartOK
    <3> QED
      BY <2>4, <3>1 DEF Records, StartGoesOn, SameRecords, SameRecord
  <2> QED
    BY <2>1, <2>2, <2>3, <2>4 DEF Accounted
<1>2. \A v \in Workers : StopsDeleted(v)'
  BY StopStays
<1> QED
  BY <1>1, <1>2 DEF AccountInv

\* What the other workers have found of a stack stays.
InfoStays(w) == \A v \in Workers \ {w} : info'[v] = info[v]

LEMMA InfoOthers ==
  ASSUME EngineInv, NEW w \in Workers, Receive(w) \/ MethodStep(w)
  PROVE  InfoStays(w)
<1>1. ASSUME UNCHANGED info \/ \E x : info' = [info EXCEPT ![w] = x] PROVE InfoStays(w)
  BY <1>1 DEF InfoStays, EngineInv, TypeInv, TypeOK, WorkersTypeOK
<1>2. CASE Receive(w)
  BY <1>1, <1>2 DEF Receive, Start, Stop, Get, List, Accept
<1>3. CASE StartStep(w)
  BY <1>1, <1>3 DEF StartStep, StartType, StartCreate, StartList, StartStack, StartTenant,
     Answer, locals
<1>4. CASE StopStep(w)
  BY <1>1, <1>4 DEF StopStep, StopGet, StopCheck, StopHeat, StopTenant, StopStack,
     Answer, locals
<1>5. CASE GetStep(w)
  BY <1>1, <1>5 DEF GetStep, GetStack, GetCheck, GetResources, GetUpdate, Resources,
     Endpoint, Answer, locals
<1>6. CASE ListStep(w)
  BY <1>1, <1>6 DEF ListStep, ListTenants, ListRow, ListStacks, ListStatus, ListResources,
     ListUrl, Resources, Endpoint, NextRow, Answer, locals
<1> QED
  BY <1>2, <1>3, <1>4, <1>5, <1>6 DEF MethodStep

(***************************************************************************)
(* What a worker does that leaves Heat, and what the rows record, alone.   *)
(***************************************************************************)
LEMMA OneGoesOn ==
  ASSUME EngineInv, AccountInv, NEW w \in Workers, OthersStay(w), InfoStays(w),
         UNCHANGED heat, SameRecords,
         pc[w] \notin Making \cup {"start_tenant"}, pc'[w] \notin Deleting
  PROVE  AccountInv'
<1>1. ASSUME NEW v \in Workers PROVE StartGoesOn(v) /\ StopGoesOn(v)
  <2>1. CASE v = w
    BY <2>1 DEF StartGoesOn, StopGoesOn
  <2>2. CASE v # w
    BY <2>2, Apart DEF OthersStay, InfoStays, StartGoesOn, StopGoesOn, Deleting, StopHeld,
       Stopping
  <2> QED
    BY <2>1, <2>2
<1>2. NoneBuilt
  BY DEF NoneBuilt
<1> QED
  BY <1>1, <1>2, AccountKept

LEMMA SameTables ==
  ASSUME UNCHANGED tables
  PROVE  SameRecords
BY DEF tables, SameRecords, SameRecord

\* An update of a row is not one of what it records.
LEMMA UpdateRecords ==
  ASSUME SameRows, \A r \in RushIds : RowKept(r)
  PROVE  SameRecords
BY DEF SameRows, RowKept, SameRecords

LEMMA ReceiveAccounts ==
  ASSUME EngineInv, AccountInv, NEW w \in Workers, Receive(w)
  PROVE  AccountInv'
<1>1. OthersStay(w) /\ pc'[w] \notin Deleting
  BY Receive_Life DEF Deleting, Stopping
<1>2. UNCHANGED <<heat, tables>> /\ pc[w] = "idle"
  BY DEF Receive, Start, Stop, Get, List, Accept
<1> QED
  BY <1>1, <1>2, InfoOthers, SameTables, OneGoesOn DEF Making

LEMMA StartTypeAccounts ==
  ASSUME EngineInv, AccountInv, NEW w \in Workers, StartType(w)
  PROVE  AccountInv'
<1>1. OthersStay(w) /\ pc'[w] \in {"idle", "start_create"}
  BY DEF StartType, Answer, Goto, OthersStay, EngineInv, TypeInv, TypeOK, WorkersTypeOK
<1>2. UNCHANGED <<heat, tables>> /\ pc[w] = "start_type"
  BY DEF StartType
<1> QED
  BY <1>1, <1>2, InfoOthers, SameTables, OneGoesOn DEF Making, Deleting, MethodStep, StartStep

LEMMA GetStepAccounts ==
  ASSUME EngineInv, AccountInv, NEW w \in Workers, GetStep(w)
  PROVE  AccountInv'
<1>1. OthersStay(w) /\ SameRows /\ pc'[w] \notin Deleting
  BY GetStep_Life DEF Deleting, Stopping
<1>2. pc[w] \in {"get_stack", "get_check", "get_resources", "get_update"} /\ UNCHANGED heat
  BY DEF GetStep, GetStack, GetCheck, GetResources, GetUpdate, Resources, Endpoint
<1>3. CASE GetUpdate(w)
  <2>1. \A r \in RushIds : RowKept(r)
    BY <1>3, EndpointRows DEF GetUpdate, RowHeld
  <2> QED
    BY <1>1, <1>2, <2>1, InfoOthers, UpdateRecords, OneGoesOn DEF Making, MethodStep
<1>4. CASE GetStack(w) \/ GetCheck(w) \/ GetResources(w)
  <2>1. UNCHANGED tables
    BY <1>4 DEF GetStack, GetCheck, GetResources, Resources
  <2> QED
    BY <1>1, <1>2, <2>1, InfoOthers, SameTables, OneGoesOn DEF Making, MethodStep
<1> QED
  BY <1>3, <1>4 DEF GetStep

LEMMA ListStepAccounts ==
  ASSUME EngineInv, AccountInv, NEW w \in Workers, ListStep(w)
  PROVE  AccountInv'
<1>1. OthersStay(w) /\ SameRows /\ pc'[w] \notin Deleting
  BY ListStep_Life DEF Deleting, Stopping
<1>2. /\ pc[w] \in {"list_tenants", "list_row", "list_stacks", "list_status",
                   "list_resources", "list_url"}
      /\ UNCHANGED heat
  BY DEF ListStep, ListTenants, ListRow, ListStacks, ListStatus, ListResources, ListUrl,
     Resources, Endpoint
<1>3. CASE ListStatus(w) \/ ListUrl(w)
  <2>1. \A r \in RushIds : RowKept(r)
    BY <1>3, StatusRows, EndpointRows DEF ListUrl, RowHeld
  <2> QED
    BY <1>1, <1>2, <2>1, InfoOthers, UpdateRecords, OneGoesOn DEF Making, MethodStep
<1>4. CASE ListTenants(w) \/ ListRow(w) \/ ListStacks(w) \/ ListResources(w)
  <2>1. UNCHANGED tables
    BY <1>4 DEF ListTenants, ListRow, ListStacks, ListResources, Resources
  <2> QED
    BY <1>1, <1>2, <2>1, InfoOthers, SameTables, OneGoesOn DEF Making, MethodStep
<1> QED
  BY <1>3, <1>4 DEF ListStep

(***************************************************************************)
(* A stop has the stack deleted first, then takes the rows away.           *)
(***************************************************************************)
LEMMA StopHeatAccounts ==
  ASSUME ~Outages, EngineInv, StackInv, AccountInv, NEW w \in Workers, StopHeat(w)
  PROVE  AccountInv'
<1> DEFINE s == row[w].stack_id
<1>1. pc[w] = "stop_heat" /\ UNCHANGED tables
  BY DEF StopHeat
<1>2. SameRecords /\ InfoStays(w)
  BY <1>1, SameTables, InfoOthers DEF MethodStep, StopStep
<1>3. CASE Answer(w, "HTTPNotFound") /\ UNCHANGED heat
  <2>1. OthersStay(w) /\ pc'[w] = "idle"
    BY <1>3, AnswerStays DEF EngineInv
  <2> QED
    BY <1>1, <1>2, <1>3, <2>1, OneGoesOn DEF Making, Deleting
<1>4. CASE HeatDelete(s) /\ Goto(w, "stop_tenant") /\ UNCHANGED locals
  <2>1. OthersStay(w) /\ pc'[w] = "stop_tenant" /\ rid'[w] = rid[w]
    BY <1>4, GotoStays DEF EngineInv, locals
  <2>2. s \in StackIds /\ rid[w] \in RushIds
    BY <1>1, RowsOf, Apart
  <2>3. /\ heat'[s].status = "DELETE_IN_PROGRESS"
        /\ \A x \in StackIds \ {s} : heat'[x] = heat[x]
    BY <1>4, <2>2 DEF HeatDelete, EngineInv, TypeInv, TypeOK, HeatTypeOK
  <2>4. NoneBuilt /\ heat'[s].status \notin Building
    BY <2>3 DEF NoneBuilt, Building
  <2>5. rushStack[rid[w]] # None => rushStack[rid[w]].stack_id = s
    BY <1>1, Apart DEF StackInv, HoldsOwn, SameRecord
  <2>6. ASSUME NEW v \in Workers PROVE StartGoesOn(v) /\ StopGoesOn(v)
    <3>1. CASE v = w
      BY <1>1, <2>1, <2>4, <2>5, <3>1, Apart DEF StartGoesOn, StopGoesOn, Making
    <3>2. CASE v # w
      BY <1>2, <2>1, <3>2 DEF OthersStay, InfoStays, StartGoesOn, StopGoesOn,
         Deleting, StopHeld, Stopping
    <3> QED
      BY <3>1, <3>2
  <2> QED
    BY <1>2, <2>4, <2>6, AccountKept
<1> QED
  BY <1>3, <1>4 DEF StopHeat

\* Nobody in Making or with its stack on record is the worker that deletes rows.
LEMMA OthersStarts ==
  ASSUME NEW w \in Workers, OthersStay(w), InfoStays(w),
         pc[w] \notin Making \cup {"start_tenant"},
         NEW v \in Workers, pc[v] \in Making \cup {"start_tenant"}
  PROVE  /\ v # w /\ pc'[v] = pc[v] /\ rid'[v] = rid[v] /\ info'[v] = info[v]
         /\ req'[v] = req[v] /\ MyStackName(v)' = MyStackName(v)
BY DEF OthersStay, InfoStays, MyStackName

LEMMA StopTenantAccounts ==
  ASSUME EngineInv, StackInv, AccountInv, NEW w \in Workers, StopTenant(w)
  PROVE  AccountInv'
<1>1. /\ pc[w] = "stop_tenant" /\ UNCHANGED <<heat, rushStack>>
      /\ rushTenant' = rushTenant \ {<<rid[w], req[w].tenant>>}
      /\ OthersStay(w) /\ InfoStays(w) /\ pc'[w] = "stop_stack" /\ rid'[w] = rid[w]
  BY GotoStays, InfoOthers DEF StopTenant, rush_tenant_delete, locals, EngineInv, MethodStep,
     StopStep
<1>2. StopsDeleted(w)
  BY DEF AccountInv
<1>3. ASSUME NEW s \in StackIds, heat[s].status \in Building PROVE Accounted(s)'
  <2>1. Accounted(s)
    BY <1>3 DEF AccountInv
  <2>2. ASSUME NEW r \in RushIds, Lists(r, s) PROVE Lists(r, s)'
    <3>1. r # rid[w]
      BY <1>1, <1>2, <1>3, <2>2 DEF Lists, StopsDeleted
    <3> QED
      BY <1>1, <2>2, <3>1 DEF Lists, Owners
  <2>3. ASSUME NEW v \in Workers, Makes(v, s) \/ Records(v, s)
        PROVE  Makes(v, s)' \/ Records(v, s)'
    BY <1>1, <2>3, OthersStarts DEF Makes, Records, Making
  <2> QED
    BY <2>1, <2>2, <2>3 DEF Accounted
<1>4. ASSUME NEW v \in Workers PROVE StopsDeleted(v)'
  <2>1. StopsDeleted(v)
    BY DEF AccountInv
  <2> QED
    BY <1>1, <1>2, <2>1 DEF StopsDeleted, OthersStay
<1> QED
  BY <1>1, <1>3, <1>4 DEF AccountInv

LEMMA StopStackAccounts ==
  ASSUME EngineInv, StackInv, AccountInv, NEW w \in Workers, StopStack(w)
  PROVE  AccountInv'
<1> DEFINE q == rid[w]
<1>1. /\ pc[w] = "stop_stack" /\ UNCHANGED <<heat, rushTenant>>
      /\ OthersStay(w) /\ InfoStays(w) /\ pc'[w] = "idle"
  BY AnswerStays, InfoOthers DEF StopStack, EngineInv, MethodStep, StopStep
<1>2. q \in RushIds /\ Owners(q) = {} /\ q \in listed
  BY <1>1, RowsOf, Apart DEF EngineInv, LifeInv, StopOK, Stopping, StopHeld
<1>3. rushStack'[q] = None /\ \A r \in RushIds \ {q} : rushStack'[r] = rushStack[r]
  BY <1>2 DEF StopStack, rush_stack_delete, EngineInv, TypeInv, TypeOK, TablesTypeOK
<1> HIDE DEF q
<1>4. ASSUME NEW s \in StackIds, heat[s].status \in Building PROVE Accounted(s)'
  <2>1. Accounted(s)
    BY <1>4 DEF AccountInv
  <2>2. ASSUME NEW r \in RushIds, Lists(r, s) PROVE Lists(r, s)'
    <3>1. r # q
      BY <1>2, <2>2 DEF Lists
    <3> QED
      BY <1>1, <1>3, <2>2, <3>1 DEF Lists, Owners
  <2>3. ASSUME NEW v \in Workers, Makes(v, s) \/ Records(v, s)
        PROVE  Makes(v, s)' \/ Records(v, s)'
    <3>1. pc[v] = "start_tenant" => rid[v] # q /\ rid[v] \in RushIds
      BY <1>2, RowsOf DEF EngineInv, LifeInv, StartOK, Drawn
    <3> QED
      BY <1>1, <1>3, <2>3, <3>1, OthersStarts DEF Makes, Records, Making
  <2> QED
    BY <2>1, <2>2, <2>3 DEF Accounted
<1>5. ASSUME NEW v \in Workers PROVE StopsDeleted(v)'
  <2>1. StopsDeleted(v)
    BY DEF AccountInv
  <2>2. v # w /\ pc[v] \in Deleting => rid[v] \in RushIds
    BY RowsOf DEF Deleting, RowHeld, Stopping
  <2> QED
    BY <1>1, <1>3, <2>1, <2>2 DEF StopsDeleted, OthersStay, Deleting
<1> QED
  BY <1>1, <1>4, <1>5 DEF AccountInv

LEMMA StopStepAccounts ==
  ASSUME ~Outages, EngineInv, StackInv, AccountInv, NEW w \in Workers, StopStep(w)
  PROVE  AccountInv'
<1>1. CASE StopGet(w)
  <2>1. OthersStay(w) /\ pc'[w] \notin Deleting
    BY <1>1, StopGet_Life DEF Deleting, Stopping
  <2>2. UNCHANGED <<heat, tables>> /\ pc[w] = "stop_get"
    BY <1>1 DEF StopGet
  <2> QED
    BY <2>1, <2>2, InfoOthers, SameTables, OneGoesOn DEF Making, MethodStep
<1>2. CASE StopCheck(w)
  <2>1. OthersStay(w) /\ pc'[w] \in {"idle", "stop_heat"}
    BY <1>2, AnswerStays, GotoStays DEF StopCheck, locals, EngineInv
  <2>2. UNCHANGED <<heat, tables>> /\ pc[w] = "stop_check"
    BY <1>2 DEF StopCheck
  <2> QED
    BY <2>1, <2>2, InfoOthers, SameTables, OneGoesOn DEF Making, MethodStep, Deleting
<1>3. CASE StopHeat(w)
  BY <1>3, StopHeatAccounts
<1>4. CASE StopTenant(w)
  BY <1>4, StopTenantAccounts
<1>5. CASE StopStack(w)
  BY <1>5, StopStackAccounts
<1> QED
  BY <1>1, <1>2, <1>3, <1>4, <1>5 DEF StopStep

(***************************************************************************)
(* A start has the stack built, finds it by its name, records and lists it.*)
(***************************************************************************)
LEMMA StartCreateAccounts ==
  ASSUME ~Outages, EngineInv, StackInv, AccountInv, NEW w \in Workers, StartCreate(w)
  PROVE  AccountInv'
<1>1. pc[w] = "start_create" /\ UNCHANGED tables
  BY DEF StartCreate
<1>2. SameRecords /\ InfoStays(w)
  BY <1>1, SameTables, InfoOthers DEF MethodStep, StartStep
<1>3. CASE Answer(w, "HTTPConflict") /\ UNCHANGED heat
  <2>1. OthersStay(w) /\ pc'[w] = "idle"
    BY <1>3, AnswerStays DEF EngineInv
  <2> QED
    BY <1>1, <1>2, <1>3, <2>1, OneGoesOn DEF Making, Deleting
<1>4. ASSUME NEW s \in StackIds, HeatCreate(s, MyStackName(w)), Goto(w, "start_list"),
             UNCHANGED locals
      PROVE  AccountInv'
  <2>1. OthersStay(w) /\ pc'[w] = "start_list" /\ req'[w] = req[w]
    BY <1>4, GotoStays DEF EngineInv, locals
  <2>2. heat'[s].name = MyStackName(w) /\ \A x \in StackIds \ {s} : heat'[x] = heat[x]
    BY <1>4 DEF HeatCreate, EngineInv, TypeInv, TypeOK, HeatTypeOK
  <2>3. Makes(w, s)'
    BY <2>1, <2>2 DEF Makes, Making, MyStackName
  <2>4. ASSUME NEW x \in StackIds \ {s}, heat'[x].status \in Building PROVE Accounted(x)'
    <3>1. Accounted(x)
      BY <2>2, <2>4 DEF AccountInv
    <3>2. ASSUME NEW r \in RushIds, Lists(r, x) PROVE Lists(r, x)'
      BY <1>1, <3>2 DEF Lists, Owners, tables
    <3>3. ASSUME NEW v \in Workers, Makes(v, x) \/ Records(v, x)
          PROVE  Makes(v, x)' \/ Records(v, x)'
      BY <1>1, <1>2, <2>1, <2>2, <3>3, OthersStarts DEF Makes, Records, Making, tables
    <3> QED
      BY <3>1, <3>2, <3>3 DEF Accounted
  <2>5. ASSUME NEW v \in Workers PROVE StopsDeleted(v)'
    <3> SUFFICES ASSUME pc'[v] \in Deleting, rushStack[rid[v]] # None
                 PROVE  heat'[rushStack[rid[v]].stack_id].status \notin Building
      BY <1>1, <1>4 DEF StopsDeleted, Deleting, tables, locals
    <3>1. v # w /\ pc[v] \in Deleting
      BY <2>1 DEF OthersStay, Deleting
    <3>2. heat[rushStack[rid[v]].stack_id].status \notin Building
      BY <3>1 DEF AccountInv, StopsDeleted, Deleting
    <3>3. rid[v] \in RushIds
      BY <3>1, RowsOf DEF Deleting, RowHeld, Stopping
    <3>4. rushStack[rid[v]].stack_id \in StackIds \ {s}
      BY <1>4, <3>3, RowsOf DEF HeatCreate, StackInv, NamesInv
    <3> QED
      BY <2>2, <3>2, <3>4
  <2> QED
    BY <2>3, <2>4, <2>5 DEF AccountInv, Accounted
<1> QED
  BY <1>3, <1>4 DEF StartCreate

LEMMA StartListAccounts ==
  ASSUME EngineInv, StackInv, AccountInv, NEW w \in Workers, StartList(w)
  PROVE  AccountInv'
<1>1. pc[w] = "start_list" /\ UNCHANGED <<heat, tables>> /\ InfoStays(w)
  BY InfoOthers DEF StartList, MethodStep, StartStep
<1>2. OthersStay(w) /\ pc'[w] \in {"idle", "start_stack"}
  BY AnswerStays, GotoStays DEF StartList, EngineInv
<1>3. req[w].name \in RushNames
  BY <1>1 DEF EngineInv, TypeInv, WorkersOK, LocalsOK, Drawn, Unrecorded
<1>4. ASSUME NEW s \in StackIds, heat[s].status \in Building PROVE Accounted(s)'
  <2>1. Accounted(s)
    BY <1>4 DEF AccountInv
  <2>2. ASSUME NEW r \in RushIds, Lists(r, s) PROVE Lists(r, s)'
    BY <1>1, <2>2 DEF Lists, Owners, tables
  <2>3. ASSUME Makes(w, s) PROVE Makes(w, s)'
    <3>1. s \in Named(req[w].tenant, req[w].name)
      BY <1>3, <1>4, <2>3 DEF Makes, MyStackName, Named, TenantStacks, Exists, StackStatus
    <3>2. \A x \in Named(req[w].tenant, req[w].name) : x = s
      BY <3>1 DEF Named, TenantStacks, StackInv, NamesInv
    <3>3. info' = [info EXCEPT ![w] = InfoOf(s)] /\ Goto(w, "start_stack")
      BY <3>1, <3>2 DEF StartList, Named
    <3>4. info'[w].id = s /\ pc'[w] = "start_stack" /\ req'[w] = req[w]
      BY <3>3 DEF InfoOf, Goto, EngineInv, TypeInv, TypeOK, WorkersTypeOK
    <3> QED
      BY <1>1, <2>3, <3>4 DEF Makes, Making, MyStackName
  <2>4. ASSUME NEW v \in Workers \ {w}, Makes(v, s) \/ Records(v, s)
        PROVE  Makes(v, s)' \/ Records(v, s)'
    BY <1>1, <1>2, <2>4 DEF Makes, Records, OthersStay, InfoStays, MyStackName, tables
  <2>5. ~ Records(w, s)
    BY <1>1 DEF Records
  <2> QED
    BY <2>1, <2>2, <2>3, <2>4, <2>5 DEF Accounted
<1>5. ASSUME NEW v \in Workers PROVE StopsDeleted(v)'
  <2>1. StopsDeleted(v)
    BY DEF AccountInv
  <2> QED
    BY <1>1, <1>2, <2>1 DEF StopsDeleted, OthersStay, tables
<1> QED
  BY <1>1, <1>4, <1>5 DEF AccountInv

LEMMA StartStackAccounts ==
  ASSUME EngineInv, StackInv, AccountInv, NEW w \in Workers, StartStack(w)
  PROVE  AccountInv'
<1> DEFINE q == rid[w]
           new == [name |-> req[w].name, stack_id |-> info[w].id,
                   status |-> info[w].status, url |-> None]
<1>1. /\ pc[w] = "start_stack" /\ UNCHANGED <<heat, rushTenant>>
      /\ rushStack' = [rushStack EXCEPT ![q] = new]
      /\ OthersStay(w) /\ InfoStays(w)
      /\ pc'[w] = "start_tenant" /\ rid'[w] = q /\ req'[w] = req[w]
  BY GotoStays, InfoOthers DEF StartStack, rush_stack_create, locals, EngineInv, MethodStep,
     StartStep
<1>2. q \in RushIds /\ rushStack[q] = None /\ q \notin listed
  BY <1>1 DEF EngineInv, LifeInv, StartOK, Drawn, Unrecorded, TypeInv, WorkersOK,
     LocalsOK, RidHeld
<1>3. /\ rushStack'[q].name = req[w].name /\ rushStack'[q].stack_id = info[w].id
      /\ \A r \in RushIds \ {q} : rushStack'[r] = rushStack[r]
  BY <1>1, <1>2 DEF EngineInv, TypeInv, TypeOK, TablesTypeOK
<1> HIDE DEF q, new
<1>4. ASSUME NEW s \in StackIds, heat[s].status \in Building PROVE Accounted(s)'
  <2>1. Accounted(s)
    BY <1>4 DEF AccountInv
  <2>2. ASSUME NEW r \in RushIds, Lists(r, s) PROVE Lists(r, s)'
    <3>1. r # q
      BY <1>2, <2>2 DEF Lists
    <3> QED
      BY <1>1, <1>3, <2>2, <3>1 DEF Lists, Owners
  <2>3. ASSUME Makes(w, s) PROVE Records(w, s)'
    BY <1>1, <1>3, <2>3 DEF Makes, Records
  <2>4. ASSUME NEW v \in Workers \ {w}, Makes(v, s) \/ Records(v, s)
        PROVE  Makes(v, s)' \/ Records(v, s)'
    <3>1. /\ pc'[v] = pc[v] /\ rid'[v] = rid[v] /\ req'[v] = req[v]
          /\ info'[v] = info[v] /\ MyStackName(v)' = MyStackName(v)
      BY <1>1 DEF OthersStay, InfoStays, MyStackName
    <3>2. pc[v] = "start_tenant" => rid[v] # q /\ rid[v] \in RushIds
      BY <1>1, RowsOf DEF EngineInv, LifeInv, DrawnApart, Drawn, Unrecorded, q
    <3> QED
      BY <1>1, <1>3, <2>4, <3>1, <3>2 DEF Makes, Records
  <2>5. ~ Records(w, s)
    BY <1>1 DEF Records
  <2> QED
    BY <2>1, <2>2, <2>3, <2>4, <2>5 DEF Accounted
<1>5. ASSUME NEW v \in Workers PROVE StopsDeleted(v)'
  <2>1. pc[v] \in Deleting => rid[v] \in RushIds \ {q} /\ StopsDeleted(v)
    BY <1>2, RowsOf DEF Deleting, RowHeld, Stopping, EngineInv, LifeInv, StopOK, AccountInv
  <2>2. pc'[v] \in Deleting => pc[v] \in Deleting /\ rid'[v] = rid[v]
    BY <1>1 DEF OthersStay, Deleting
  <2> QED
    BY <1>1, <1>3, <2>1, <2>2 DEF StopsDeleted, Deleting
<1> QED
  BY <1>1, <1>4, <1>5 DEF AccountInv

LEMMA StartTenantAccounts ==
  ASSUME EngineInv, StackInv, AccountInv, NEW w \in Workers, StartTenant(w)
  PROVE  AccountInv'
<1>1. /\ pc[w] = "start_tenant" /\ UNCHANGED <<heat, rushStack>>
      /\ rushTenant' = rushTenant \cup {<<rid[w], req[w].tenant>>}
      /\ OthersStay(w) /\ InfoStays(w) /\ pc'[w] = "idle"
  BY AnswerStays, InfoOthers DEF StartTenant, rush_tenant_create, EngineInv, MethodStep,
     StartStep
<1>2. rid[w] \in RushIds /\ rushStack[rid[w]] # None /\ req[w].tenant \in Tenants
  BY <1>1, RowsOf DEF EngineInv, LifeInv, StartOK
<1>3. ASSUME NEW s \in StackIds, heat[s].status \in Building PROVE Accounted(s)'
  <2>1. Accounted(s)
    BY <1>3 DEF AccountInv
  <2>2. ASSUME NEW r \in RushIds, Lists(r, s) PROVE Lists(r, s)'
    BY <1>1, <2>2 DEF Lists, Owners
  <2>3. ASSUME Records(w, s) PROVE \E r \in RushIds : Lists(r, s)'
    <3>1. PICK r \in RushIds : r = rid[w]
      BY <1>2
    <3>2. req[w].tenant \in {t \in Tenants : <<r, t>> \in rushTenant'}
      BY <1>1, <1>2, <3>1
    <3>3. Lists(r, s)'
      BY <1>1, <1>2, <2>3, <3>1, <3>2 DEF Records, Lists, Owners
    <3> QED
      BY <3>3
  <2>4. ASSUME NEW v \in Workers \ {w}, Makes(v, s) \/ Records(v, s)
        PROVE  Makes(v, s)' \/ Records(v, s)'
    BY <1>1, <2>4 DEF Makes, Records, OthersStay, InfoStays, MyStackName
  <2>5. ~ Makes(w, s)
    BY <1>1 DEF Makes, Making
  <2> QED
    BY <1>2, <2>1, <2>2, <2>3, <2>4, <2>5 DEF Accounted
<1>4. ASSUME NEW v \in Workers PROVE StopsDeleted(v)'
  <2>1. StopsDeleted(v)
    BY DEF AccountInv
  <2> QED
    BY <1>1, <2>1 DEF StopsDeleted, OthersStay
<1> QED
  BY <1>1, <1>3, <1>4 DEF AccountInv

LEMMA HeatMovesAccounts ==
  ASSUME EngineInv, AccountInv, HeatMoves \/ UNCHANGED vars
  PROVE  AccountInv'
<1>1. UNCHANGED <<tables, pc, req, rid, info>>
  BY DEF HeatMoves, vars, locals
<1>2. NoneBuilt
  <2>1. CASE HeatMoves
    <3>1. PICK s \in StackIds : HeatStep(s)
      BY <2>1 DEF HeatMoves
    <3>2. heat \in [StackIds -> [name : StackNames \cup {None},
                                status : StackStatus \cup {"UNBORN", "GONE"}, ip : BOOLEAN]]
      BY DEF EngineInv, TypeInv, TypeOK, HeatTypeOK
    <3>3. /\ \A x \in StackIds \ {s} : heat'[x] = heat[x]
          /\ heat'[s].name = heat[s].name
          /\ heat'[s].status \in Building => heat[s].status \in Building
      BY <3>1, <3>2 DEF HeatStep, Associate, Complete, FailCreate, Vanish, FailDelete,
         OperatorDelete, Building
    <3> QED
      BY <3>3 DEF NoneBuilt
  <2>2. CASE UNCHANGED vars
    BY <2>2 DEF vars, NoneBuilt
  <2> QED
    BY <2>1, <2>2
<1>3. \A v \in Workers : StartGoesOn(v) /\ StopGoesOn(v)
  BY <1>1 DEF StartGoesOn, StopGoesOn, Deleting, StopHeld, Stopping
<1> QED
  BY <1>1, <1>2, <1>3, SameTables, AccountKept

LEMMA NextAccountInv ==
  ASSUME ~Outages, ~Crashes
  PROVE  EngineInv /\ StackInv /\ AccountInv /\ [Next]_vars => AccountInv'
<1> SUFFICES ASSUME EngineInv, StackInv, AccountInv, [Next]_vars PROVE AccountInv'
  OBVIOUS
<1>1. ASSUME NEW w \in Workers, StartStep(w) PROVE AccountInv'
  BY <1>1, StartTypeAccounts, StartCreateAccounts, StartListAccounts, StartStackAccounts,
     StartTenantAccounts DEF StartStep
<1>2. ASSUME NEW w \in Workers, MethodStep(w) PROVE AccountInv'
  BY <1>1, <1>2, StopStepAccounts, GetStepAccounts, ListStepAccounts DEF MethodStep
<1>3. ASSUME NEW w \in Workers, Receive(w) \/ CallFails(w) \/ Crash(w) PROVE AccountInv'
  BY <1>3, ReceiveAccounts DEF CallFails, Crash
<1> QED
  BY <1>2, <1>3, HeatMovesAccounts DEF Next

(***************************************************************************)
(* Nothing leaks: every stack that Heat has built, is building or has      *)
(* failed to build is found through a listed rush, or is in the hands of a *)
(* start that will list it (service.py:160-233), where the engine's calls  *)
(* do not fail and no engine dies, whoever else deletes stacks.  Both      *)
(* assumptions are needed: a start that a failed call ends, or that dies   *)
(* with its engine, leaves the stack it has had made.                      *)
(***************************************************************************)
THEOREM StacksAreAccounted ==
  ASSUME ~Outages, ~Crashes
  PROVE  Spec => []StacksAccounted
<1>1. Init => AccountInv
  BY DEF Init, HeatInit, AccountInv, Building, StopsDeleted
<1>2. EngineInv /\ StackInv /\ AccountInv => StacksAccounted
  <2> SUFFICES ASSUME EngineInv, StackInv, AccountInv,
                      NEW s \in StackIds, heat[s].status \in Building
               PROVE  \/ \E r \in RushIds : Lists(r, s)
                      \/ \E w \in Workers : Starting(w, s)
    BY DEF StacksAccounted, Lists
  <2>1. ASSUME NEW w \in Workers, Makes(w, s) PROVE Starting(w, s)
    BY <2>1 DEF Makes, Making, Starting
  <2>2. ASSUME NEW w \in Workers, Records(w, s) PROVE Starting(w, s)
    BY <2>2 DEF Records, Starting, StackInv, StartsOwn, MyStackName
  <2> QED
    BY <2>1, <2>2 DEF AccountInv, Accounted
<1> QED
  BY <1>1, <1>2, EngineInvariant, StackInvariant, NextAccountInv, PTL DEF Spec
=============================================================================
