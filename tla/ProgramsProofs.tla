---------------------------- MODULE ProgramsProofs ----------------------------
(***************************************************************************)
(* What is proved of Programs, for any number of processes, services and   *)
(* workers, any failures and any signals: a launcher leaves nobody behind  *)
(* and keeps to its limit of forks, and a group that is stopped misses at  *)
(* most half of its threads.                                               *)
(***************************************************************************)
EXTENDS ProgramsInv, SequenceLemmas, FiniteSetTheorems

(* Processes. *)

LEMMA PidFacts ==
  /\ MaxPid \in Nat /\ Root \in Pids /\ Nil \notin Pids /\ Nobody \in Process
  /\ Root # Nil
BY ProcessesAssumption DEF Root, Nil, Pids, Nobody, Process, Places

LEMMA ZombieType ==
  ASSUME NEW x \in Pids \cup {Nil}
  PROVE  [Nobody EXCEPT !.life = "zombie", !.parent = x] \in Process
BY PidFacts DEF Process

LEMMA ParentType ==
  ASSUME NEW r \in Process, NEW x \in Pids, NEW pc \in Places, NEW back \in {"none", "start", "test"}
  PROVE  /\ [r EXCEPT !.pc = pc, !.children = @ \cup {x}] \in Process
         /\ [r EXCEPT !.children = @ \ {x}, !.pc = pc] \in Process
         /\ [r EXCEPT !.parent = x, !.pc = pc, !.back = back] \in Process
<1>1. r.children \cup {x} \in SUBSET Pids /\ r.children \ {x} \in SUBSET Pids
  BY DEF Process
<1> QED BY <1>1 DEF Process

\* A process that ends, or whose parent ends, is still one of the modelled kind.
LEMMA EndedType ==
  ASSUME NEW f \in [Pids -> Process], NEW K \in SUBSET Pids, NEW how \in Places
  PROVE  Ended(f, K, how) \in [Pids -> Process]
<1> SUFFICES ASSUME NEW q \in Pids PROVE Ended(f, K, how)[q] \in Process
  BY DEF Ended
<1>1. CASE q \in K \cap {Root}
  BY <1>1, PidFacts DEF Ended, Nobody, Process
<1>2. CASE q \in K \ {Root}
  <2>1. Ended(f, K, how)[q] = IF f[q].parent \in K \cup {Nil} THEN Nobody
                ELSE [Nobody EXCEPT !.life = "zombie", !.parent = f[q].parent]
    BY <1>2 DEF Ended
  <2>2. f[q].parent \in Pids \cup {Nil}
    BY DEF Process
  <2> QED BY <2>1, <2>2, PidFacts, ZombieType
<1>3. CASE q \notin K
  <2>1. Ended(f, K, how)[q] \in {Nobody, f[q], [f[q] EXCEPT !.parent = Nil]}
    BY <1>3 DEF Ended
  <2> QED BY <2>1, PidFacts DEF Process
<1> QED BY <1>1, <1>2, <1>3

LEMMA GotoType ==
  ASSUME NEW f \in [Pids -> Process], NEW p \in Pids, NEW pc \in Places
  PROVE  [f EXCEPT ![p].pc = pc] \in [Pids -> Process]
BY DEF Process

LEMMA PutType ==
  ASSUME NEW f \in [Pids -> Process], NEW p \in Pids, NEW r \in Process
  PROVE  [f EXCEPT ![p] = r] \in [Pids -> Process]
OBVIOUS

\* What a process has that another step may change, its list of children aside.
Same(r, s) == r.life = s.life /\ r.parent = s.parent /\ r.running = s.running /\ r.term = s.term

LEMMA ForkedFacts ==
  ASSUME proc \in [Pids -> Process], NEW p \in Pids, Live(p), ~NoPid,
         NEW to \in Places, NEW back \in {"none", "start", "test"}
  PROVE  /\ NewPid \in Pids \ {Root, p} /\ proc[NewPid].life = "none"
         /\ Forked(p, to, back) \in [Pids -> Process]
         /\ Same(Forked(p, to, back)[p], proc[p]) /\ Forked(p, to, back)[p].pc = to
         /\ Forked(p, to, back)[p].children = proc[p].children \cup {NewPid}
         /\ Forked(p, to, back)[NewPid].parent = p
         /\ Forked(p, to, back)[NewPid].term = proc[p].term
         /\ \A q \in Pids \ {p, NewPid} : Forked(p, to, back)[q] = proc[q]
<1>1. NewPid \in FreePids
  BY DEF NewPid, NoPid
<1>2. NewPid \in Pids \ {Root, p} /\ proc[NewPid].life = "none"
  BY <1>1 DEF FreePids, Live
<1>3. Forked(p, to, back) = [q \in Pids |->
          IF q = p THEN [proc[p] EXCEPT !.pc = to, !.children = @ \cup {NewPid}]
          ELSE IF q = NewPid THEN [proc[p] EXCEPT !.parent = p, !.pc = "born", !.back = back]
          ELSE proc[q]]
  BY <1>2 DEF Forked, Process
<1>4. [proc[p] EXCEPT !.pc = to, !.children = @ \cup {NewPid}] \in Process
  BY <1>2, ParentType
<1>5. [proc[p] EXCEPT !.parent = p, !.pc = "born", !.back = back] \in Process
  BY ParentType DEF Places
<1>6. /\ Same([proc[p] EXCEPT !.pc = to, !.children = @ \cup {NewPid}], proc[p])
      /\ [proc[p] EXCEPT !.pc = to, !.children = @ \cup {NewPid}].pc = to
      /\ [proc[p] EXCEPT !.pc = to, !.children = @ \cup {NewPid}].children
            = proc[p].children \cup {NewPid}
  BY DEF Process, Same
<1>7. /\ [proc[p] EXCEPT !.parent = p, !.pc = "born", !.back = back].parent = p
      /\ [proc[p] EXCEPT !.parent = p, !.pc = "born", !.back = back].term = proc[p].term
  BY DEF Process
<1> QED BY <1>2, <1>3, <1>4, <1>5, <1>6, <1>7

LEMMA ReapedFacts ==
  ASSUME proc \in [Pids -> Process], NEW p \in Pids, NEW q \in Zombies(p), Live(p), NEW to \in Places
  PROVE  /\ q \in Pids \ {p} /\ proc[q].life = "zombie"
         /\ Reaped(p, q, to) \in [Pids -> Process]
         /\ Reaped(p, q, to)[q] = Nobody
         /\ Same(Reaped(p, q, to)[p], proc[p]) /\ Reaped(p, q, to)[p].pc = to
         /\ Reaped(p, q, to)[p].children = proc[p].children \ {q}
         /\ \A x \in Pids \ {p, q} : Reaped(p, q, to)[x] = proc[x]
<1>1. q \in Pids \ {p} /\ proc[q].life = "zombie"
  BY DEF Zombies, Live
<1>2. Reaped(p, q, to) = [x \in Pids |->
          IF x = p THEN [proc[p] EXCEPT !.children = @ \ {q}, !.pc = to]
          ELSE IF x = q THEN Nobody ELSE proc[x]]
  BY <1>1 DEF Reaped, Process
<1>3. [proc[p] EXCEPT !.children = @ \ {q}, !.pc = to] \in Process
  BY <1>1, ParentType
<1>4. /\ Same([proc[p] EXCEPT !.children = @ \ {q}, !.pc = to], proc[p])
      /\ [proc[p] EXCEPT !.children = @ \ {q}, !.pc = to].pc = to
      /\ [proc[p] EXCEPT !.children = @ \ {q}, !.pc = to].children = proc[p].children \ {q}
  BY DEF Process, Same
<1> QED BY <1>1, <1>2, <1>3, <1>4, PidFacts

LEMMA LauncherTermType ==
  ASSUME NEW f \in [Pids -> Process], NEW p \in Pids, f[p].term # "ignore"
  PROVE  LauncherTerm(f, p) \in [Pids -> Process]
<1>1. f[p] \in Process
  OBVIOUS
<1>2. LauncherTakes(f, p) \in [Pids -> Process]
  <2> DEFINE r == [f[p] EXCEPT !.running = FALSE, !.term = "default", !.deaf = p # Root,
                               !.pc = IF @ = "sleep" THEN "fork" ELSE @]
  <2>1. LauncherTakes(f, p) = [f EXCEPT ![p] = r]
    BY <1>1 DEF LauncherTakes, Process
  <2>2. r \in Process
    <3> DEFINE pc == IF f[p].pc = "sleep" THEN "fork" ELSE f[p].pc
    <3>1. pc \in Places
      BY <1>1 DEF Process, Places
    <3> DEFINE deaf == p # Root
    <3>2. r = [f[p] EXCEPT !.running = FALSE, !.term = "default", !.deaf = deaf, !.pc = pc]
      OBVIOUS
    <3>3. deaf \in BOOLEAN
      OBVIOUS
    <3> HIDE DEF pc, deaf
    <3>4. [f[p] EXCEPT !.running = FALSE, !.term = "default", !.deaf = deaf, !.pc = pc] \in Process
      BY <1>1, <3>1, <3>3 DEF Process
    <3> QED BY <3>2, <3>4
  <2> HIDE DEF r
  <2> QED BY <2>1, <2>2, PutType
<1>3. [f EXCEPT ![p].pc = "stop", ![p].term = "default"] \in [Pids -> Process]
  <2> DEFINE r == [f[p] EXCEPT !.pc = "stop", !.term = "default"]
  <2>1. [f EXCEPT ![p].pc = "stop", ![p].term = "default"] = [f EXCEPT ![p] = r]
    BY <1>1 DEF Process
  <2>2. r \in Process
    BY <1>1 DEF Process, Places
  <2> HIDE DEF r
  <2> QED BY <2>1, <2>2, PutType
<1>4. Ended(f, {p}, "killed") \in [Pids -> Process]
  BY EndedType DEF Places
<1>5. LauncherTerm(f, p) \in {f, LauncherTakes(f, p),
          [f EXCEPT ![p].pc = "stop", ![p].term = "default"], Ended(f, {p}, "killed")}
  BY <1>1 DEF LauncherTerm, Process
<1> QED BY <1>2, <1>3, <1>4, <1>5

(* Types. *)

\* No step changes what the program was started with.
LEMMA SettingSame ==
  ASSUME Next PROVE UNCHANGED setting
<1>1. CASE Signal
  BY <1>1 DEF Signal
<1>2. CASE EngineNext
  BY <1>2 DEF EngineNext, EngineStep, Await, Awoken, EngineStop, ServiceStart, ServiceEnds,
              ServiceFails, ServiceExits, osVars
<1>3. CASE LauncherNext
  BY <1>3 DEF LauncherNext, LauncherStep, WorkerStep, Fill, Limit, StartChild, LauncherWait,
              LauncherKill, LauncherReap, Tick, Settle, PipeWatcher, WorkerExit, WorkerFails
<1>4. CASE ServerNext
  BY <1>4 DEF ServerNext, ServerStep, PortFreed, Bind, BindGivesUp, ServerStart, ServerTest,
              ServerWait, ServerAgain, ChildBegins, ChildReturns, ChildFails, osVars
<1> QED BY <1>1, <1>2, <1>3, <1>4 DEF Next

LEMMA SettingStep ==
  ASSUME SettingInv, Next PROVE SettingInv'
<1>1. UNCHANGED <<program, workers, timers, failures>>
  BY SettingSame DEF setting
<1>2. CASE Signal
  <2>1. signals' \in Seq({"TERM", "HUP"})
    BY <1>2 DEF Signal, SettingInv
  <2>2. told' \in {"no", "early", "late", "HUP", "exit"}
    BY <1>2 DEF Signal, SettingInv
  <2> QED BY <1>1, <1>2, <2>1, <2>2 DEF Signal, SettingInv
<1>3. ASSUME UNCHANGED signals, told' \in {told, "exit"},
             UNCHANGED failed \/ (failed < failures /\ failed' = failed + 1)
      PROVE  SettingInv'
  BY <1>1, <1>3 DEF SettingInv
<1>4. CASE EngineNext
  BY <1>3, <1>4 DEF EngineNext, EngineStep, Await, Awoken, EngineStop, ServiceStart, ServiceEnds,
              ServiceFails, ServiceExits, osVars
<1>5. CASE LauncherNext
  BY <1>3, <1>5 DEF LauncherNext, LauncherStep, WorkerStep, Fill, Limit, StartChild, LauncherWait,
              LauncherKill, LauncherReap, Tick, Settle, PipeWatcher, WorkerExit, WorkerFails
<1>6. CASE ServerNext
  BY <1>3, <1>6 DEF ServerNext, ServerStep, PortFreed, Bind, BindGivesUp, ServerStart, ServerTest,
              ServerWait, ServerAgain, ChildBegins, ChildReturns, ChildFails, osVars
<1> QED BY <1>2, <1>4, <1>5, <1>6 DEF Next

LEMMA ThreadDoneType ==
  ASSUME GroupTypeInv, NEW s \in Services, ThreadDone(s)
  PROVE  /\ service' \in [Services -> {"new", "up", "done"}]
         /\ threads' \in Seq(Services)
<1>1. PICK i \in DOMAIN threads : threads' = RemoveAt(threads, i)
  BY DEF ThreadDone
<1>2. i \in 1 .. Len(threads)
  BY DEF GroupTypeInv
<1>3. threads' \in Seq(Services)
  BY <1>1, <1>2, Without DEF GroupTypeInv
<1> QED BY <1>3 DEF ThreadDone, GroupTypeInv

LEMMA GroupTypeStep ==
  ASSUME GroupTypeInv, Next, UNCHANGED timers PROVE GroupTypeInv'
<1>0. Services' = Services
  BY DEF Services
<1>1. ASSUME UNCHANGED groupVars PROVE GroupTypeInv'
  BY <1>0, <1>1 DEF groupVars, GroupTypeInv
<1>2. CASE EngineNext
  <2>1. CASE Await
    BY <1>0, <2>1 DEF Await, GroupTypeInv
  <2>2. CASE Awoken
    BY <1>0, <2>2 DEF Awoken, GroupTypeInv
  <2>3. CASE EngineStop
    <3>1. threads' \in Seq(Services)
      BY <2>3, Evens DEF EngineStop, GroupTypeInv
    <3>2. service' \in [Services -> {"new", "up", "done"}]
      BY <2>3 DEF EngineStop, GroupTypeInv
    <3> QED BY <1>0, <2>3, <3>1, <3>2 DEF EngineStop, GroupTypeInv
  <2>4. ASSUME NEW s \in Services, ServiceStart(s) PROVE GroupTypeInv'
    <3>1. /\ service' \in [Services -> {"new", "up", "done"}]
          /\ task' \in [Services -> {"none", "run", "done"}]
      BY <2>4 DEF ServiceStart, GroupTypeInv
    <3> QED BY <1>0, <2>4, <3>1 DEF ServiceStart, GroupTypeInv
  <2>5. ASSUME NEW s \in Services, ServiceEnds(s) PROVE GroupTypeInv'
    BY <1>0, <2>5, ThreadDoneType DEF ServiceEnds, GroupTypeInv
  <2>6. ASSUME NEW s \in Services, ServiceFails(s) PROVE GroupTypeInv'
    <3>1. CASE ThreadDone(s) /\ UNCHANGED task
      BY <1>0, <2>6, <3>1, ThreadDoneType DEF ServiceFails, GroupTypeInv
    <3>2. CASE task' = [task EXCEPT ![s] = "done"] /\ UNCHANGED <<service, threads>>
      BY <1>0, <2>6, <3>2 DEF ServiceFails, GroupTypeInv
    <3> QED BY <2>6, <3>1, <3>2 DEF ServiceFails
  <2>7. ASSUME NEW s \in Services, ServiceExits(s) PROVE GroupTypeInv'
    <3>1. CASE ThreadDone(s)
      BY <1>0, <2>7, <3>1, ThreadDoneType DEF ServiceExits, GroupTypeInv
    <3>2. CASE UNCHANGED <<service, threads>>
      BY <1>0, <2>7, <3>2 DEF ServiceExits, GroupTypeInv
    <3> QED BY <2>7, <3>1, <3>2 DEF ServiceExits
  <2> QED BY <1>2, <2>1, <2>2, <2>3, <2>4, <2>5, <2>6, <2>7 DEF EngineNext, EngineStep
<1> QED BY <1>1, <1>2 DEF Next, Signal

LEMMA ServerTermType ==
  ASSUME NEW f \in [Pids -> Process], f[Root].term # "worker"
  PROVE  ServerTerm(f, Root) \in [Pids -> Process]
<1>1. CASE f[Root].term = "default"
  BY <1>1, EndedType, PidFacts DEF ServerTerm, Places
<1>2. CASE f[Root].term = "ignore"
  BY <1>2 DEF ServerTerm
<1>3. CASE f[Root].term = "own"
  <2> DEFINE alive(how) == {q \in Pids : f[q].life = "live" /\ f[q].term = how}
             stopping == [q \in Pids |->
                                IF q \notin alive("own") THEN f[q]
                                ELSE [f[q] EXCEPT !.term = "ignore", !.running = FALSE,
                                                  !.pc = IF @ = "wait" THEN "test" ELSE @]]
  <2>1. stopping \in [Pids -> Process]
    <3> SUFFICES ASSUME NEW q \in Pids
                 PROVE  [f[q] EXCEPT !.term = "ignore", !.running = FALSE,
                                     !.pc = IF @ = "wait" THEN "test" ELSE @] \in Process
      OBVIOUS
    <3> DEFINE pc == IF f[q].pc = "wait" THEN "test" ELSE f[q].pc
    <3>1. pc \in Places /\ f[q] \in Process
      BY DEF Process, Places
    <3> HIDE DEF pc
    <3>2. [f[q] EXCEPT !.term = "ignore", !.running = FALSE, !.pc = pc] \in Process
      BY <3>1 DEF Process
    <3> QED BY <3>2 DEF pc
  <2>2. alive("default") \in SUBSET Pids
    OBVIOUS
  <2>3. ServerTerm(f, Root) = Ended(stopping, alive("default"), "killed")
    BY <1>3 DEF ServerTerm
  <2> HIDE DEF stopping, alive
  <2> QED BY <2>1, <2>2, <2>3, EndedType DEF Places
<1> QED BY <1>1, <1>2, <1>3, PidFacts DEF Process

LEMMA ServerHupType ==
  ASSUME NEW f \in [Pids -> Process]
  PROVE  ServerHup(f, Root) \in [Pids -> Process]
<1>1. CASE f[Root].hup = "own"
  <2> DEFINE pc == IF f[Root].pc = "wait" THEN "test" ELSE f[Root].pc
             r == [f[Root] EXCEPT !.hup = "ignore", !.running = FALSE, !.pc = pc]
  <2>1. pc \in Places /\ f[Root] \in Process
    BY PidFacts DEF Process, Places
  <2>2. ServerHup(f, Root) = [f EXCEPT ![Root] = r]
    BY <1>1, PidFacts DEF ServerHup, Process
  <2> HIDE DEF pc
  <2>3. r \in Process
    BY <2>1 DEF Process
  <2> HIDE DEF r
  <2> QED BY <2>2, <2>3, PutType, PidFacts
<1>2. CASE f[Root].hup # "own"
  <2>1. ServerHup(f, Root) \in {f, Ended(f, {Root}, "killed")}
    BY <1>2 DEF ServerHup
  <2> QED BY <2>1, EndedType, PidFacts DEF Places
<1> QED BY <1>1, <1>2

\* The processes after a step of the operator, an engine, a launcher, a server.
LEMMA SignalProc ==
  ASSUME TypeInv, ModeInv, Signal PROVE proc' \in [Pids -> Process]
<1>0. proc \in [Pids -> Process] /\ Root \in Pids /\ program \in {"engine", "workers", "api"}
  BY PidFacts DEF TypeInv, SettingInv
<1>1. CASE Engine
  <2>1. proc' = EngineTerm(proc, Root)
    BY <1>1 DEF Signal, Engine, Launching, Serving
  <2>2. CASE proc[Root].term = "own" /\ proc[Root].pc = "await"
    <3> DEFINE r == [proc[Root] EXCEPT !.term = "default", !.pc = "stop"]
    <3>1. proc' = [proc EXCEPT ![Root] = r]
      BY <1>0, <2>1, <2>2 DEF EngineTerm, Process
    <3>2. r \in Process
      <4>1. proc[Root] \in Process
        BY <1>0
      <4> QED BY <4>1 DEF Process, Places
    <3> QED BY <1>0, <3>1, <3>2, PutType
  <2>3. CASE ~(proc[Root].term = "own" /\ proc[Root].pc = "await")
    BY <1>0, <2>1, <2>3, EndedType DEF EngineTerm, Places
  <2> QED BY <2>2, <2>3
<1>2. CASE Launching
  <2>1. proc' = LauncherTerm(proc, Root)
    BY <1>2 DEF Signal, Engine, Launching, Serving
  <2> QED BY <1>0, <1>2, <2>1, LauncherTermType DEF ModeInv
<1>3. CASE Serving
  <2>1. proc' \in {ServerHup(proc, Root), ServerTerm(proc, Root)}
    BY <1>3 DEF Signal, Engine, Launching, Serving
  <2> QED BY <1>0, <1>3, <2>1, ServerHupType, ServerTermType DEF ModeInv
<1> QED BY <1>0, <1>1, <1>2, <1>3 DEF Engine, Launching, Serving

LEMMA EngineProc ==
  ASSUME TypeInv, EngineNext PROVE proc' \in [Pids -> Process]
<1>0. proc \in [Pids -> Process] /\ Root \in Pids
  BY PidFacts DEF TypeInv
<1>1. UNCHANGED proc \/ Goto(Root, "stop") \/ Exit(Root, "done") \/ Exit(Root, "killed")
  BY DEF EngineNext, EngineStep, Await, Awoken, EngineStop, ServiceStart, ServiceEnds,
         ServiceFails, ServiceExits, osVars
<1>2. CASE Goto(Root, "stop")
  BY <1>0, <1>2, GotoType DEF Goto, Places
<1>3. CASE Exit(Root, "done") \/ Exit(Root, "killed")
  BY <1>0, <1>3, EndedType DEF Exit, Places
<1> QED BY <1>0, <1>1, <1>2, <1>3

LEMMA LauncherProc ==
  ASSUME TypeInv, ModeInv, LauncherNext PROVE proc' \in [Pids -> Process]
<1>0. proc \in [Pids -> Process] /\ Root \in Pids
  BY PidFacts DEF TypeInv
<1>1. ASSUME NEW p \in Pids, NEW pc \in Places, Goto(p, pc) PROVE proc' \in [Pids -> Process]
  BY <1>0, <1>1, GotoType DEF Goto
<1>2. ASSUME NEW p \in Pids, NEW how \in Places, Exit(p, how) PROVE proc' \in [Pids -> Process]
  BY <1>0, <1>2, EndedType DEF Exit
<1>3. ASSUME Live(Root), NEW pc \in Places, WaitChild(pc) PROVE proc' \in [Pids -> Process]
  <2>1. PICK q \in Zombies(Root) : proc' = Reaped(Root, q, pc)
    BY <1>3 DEF WaitChild
  <2> QED BY <1>0, <1>3, <2>1, ReapedFacts
<1>4. CASE Fill
  BY <1>1, <1>0, <1>4 DEF Fill, Places
<1>5. CASE Limit
  BY <1>1, <1>0, <1>5 DEF Limit, Places
<1>6. CASE StartChild
  BY <1>0, <1>6, ForkedFacts DEF StartChild, At, Places
<1>7. CASE LauncherWait
  <2>1. Live(Root)
    BY <1>7 DEF LauncherWait, At
  <2> QED BY <1>0, <1>1, <1>3, <1>7, <2>1 DEF LauncherWait, Places
<1>8. CASE LauncherKill
  <2>1. Launching
    BY <1>8 DEF LauncherKill
  <2>2. [proc[Root] EXCEPT !.pc = "reap"] \in Process
    <3>1. proc[Root] \in Process
      BY <1>0
    <3> QED BY <3>1 DEF Process, Places
  <2>3. \A p \in Pids : LauncherTerm(proc, p)[p] \in Process
    BY <1>0, <2>1, LauncherTermType DEF ModeInv
  <2> QED BY <1>0, <1>8, <2>2, <2>3 DEF LauncherKill
<1>9. CASE LauncherReap
  <2>1. Live(Root)
    BY <1>9 DEF LauncherReap, At
  <2> QED BY <1>0, <1>2, <1>3, <1>9, <2>1 DEF LauncherReap, Places
<1>10. CASE Tick
  <2> DEFINE pc == IF proc[Root].pc = "sleep" THEN "fork" ELSE proc[Root].pc
  <2>1. pc \in Places
    BY <1>0 DEF Process, Places
  <2>2. proc' = [proc EXCEPT ![Root].pc = pc]
    BY <1>10 DEF Tick
  <2> HIDE DEF pc
  <2> QED BY <1>0, <2>1, <2>2, GotoType
<1>11. ASSUME NEW p \in Pids, Settle(p) PROVE proc' \in [Pids -> Process]
  <2> DEFINE r == [proc[p] EXCEPT !.pc = "serve", !.term = "worker", !.pipe = FALSE]
  <2>1. proc' = [proc EXCEPT ![p] = r]
    BY <1>0, <1>11 DEF Settle, Process
  <2>2. r \in Process
    <3>1. proc[p] \in Process
      BY <1>0
    <3> QED BY <3>1 DEF Process, Places
  <2> HIDE DEF r
  <2> QED BY <1>0, <2>1, <2>2, PutType
<1>12. ASSUME NEW p \in Pids, PipeWatcher(p) \/ WorkerFails(p) PROVE proc' \in [Pids -> Process]
  BY <1>1, <1>12 DEF PipeWatcher, WorkerFails, Places
<1>13. ASSUME NEW p \in Pids, WorkerExit(p) PROVE proc' \in [Pids -> Process]
  BY <1>2, <1>13 DEF WorkerExit, Places
<1> QED
  BY <1>4, <1>5, <1>6, <1>7, <1>8, <1>9, <1>10, <1>11, <1>12, <1>13
  DEF LauncherNext, LauncherStep, WorkerStep

LEMMA ServerProc ==
  ASSUME TypeInv, ServerNext PROVE proc' \in [Pids -> Process]
<1>0. proc \in [Pids -> Process] /\ Root \in Pids
  BY PidFacts DEF TypeInv
<1>1. ASSUME NEW p \in Pids, NEW pc \in Places, Goto(p, pc) PROVE proc' \in [Pids -> Process]
  BY <1>0, <1>1, GotoType DEF Goto
<1>2. ASSUME NEW p \in Pids, NEW how \in Places, Exit(p, how) PROVE proc' \in [Pids -> Process]
  BY <1>0, <1>2, EndedType DEF Exit
<1>3. ASSUME NEW p \in Pids, Live(p), NEW pc \in Places, NEW back \in {"start", "test"},
             RunChild(p, pc, back)
      PROVE  proc' \in [Pids -> Process]
  <2>1. CASE NoPid
    BY <1>0, <1>3, <2>1, EndedType DEF RunChild, Places
  <2>2. CASE ~NoPid
    BY <1>0, <1>3, <2>2, ForkedFacts DEF RunChild
  <2> QED BY <2>1, <2>2
<1>4. CASE PortFreed
  BY <1>0, <1>4 DEF PortFreed, osVars
<1>5. CASE Bind
  <2>1. CASE workers = 0
    BY <1>0, <1>5, <2>1, GotoType DEF Bind, Places
  <2>2. CASE workers # 0
    <3> DEFINE r == [proc[Root] EXCEPT !.pc = "start", !.term = "own", !.hup = "own"]
    <3>1. proc' = [proc EXCEPT ![Root] = r]
      BY <1>0, <1>5, <2>2 DEF Bind, Process
    <3>2. r \in Process
      <4>1. proc[Root] \in Process /\ "start" \in Places
        BY <1>0 DEF Places
      <4> QED BY <4>1 DEF Process
    <3> HIDE DEF r
    <3> QED BY <1>0, <3>1, <3>2, PutType
  <2> QED BY <2>1, <2>2
<1>6. CASE BindGivesUp
  BY <1>0, <1>2, <1>6 DEF BindGivesUp, Places
<1>7. ASSUME NEW p \in Pids, ServerStart(p) PROVE proc' \in [Pids -> Process]
  BY <1>1, <1>3, <1>7 DEF ServerStart, At, Places
<1>8. ASSUME NEW p \in Pids, ServerTest(p) PROVE proc' \in [Pids -> Process]
  BY <1>1, <1>2, <1>8 DEF ServerTest, Places
<1>9. ASSUME NEW p \in Pids, ServerWait(p) PROVE proc' \in [Pids -> Process]
  <2>1. ASSUME NEW q \in Zombies(p), proc' = Reaped(p, q, "again") PROVE proc' \in [Pids -> Process]
    BY <1>0, <1>9, <2>1, ReapedFacts DEF ServerWait, At, Places
  <2> QED BY <1>1, <1>9, <2>1 DEF ServerWait, Places
<1>10. ASSUME NEW p \in Pids, ServerAgain(p) PROVE proc' \in [Pids -> Process]
  BY <1>3, <1>10 DEF ServerAgain, At, Places
<1>11. ASSUME NEW p \in Pids, ChildBegins(p) PROVE proc' \in [Pids -> Process]
  <2> DEFINE r == [proc[p] EXCEPT !.pc = "serve", !.term = "default", !.hup = "default"]
  <2>1. proc' = [proc EXCEPT ![p] = r]
    BY <1>0, <1>11 DEF ChildBegins, Process
  <2>2. r \in Process
    <3>1. proc[p] \in Process /\ "serve" \in Places
      BY <1>0 DEF Places
    <3> QED BY <3>1 DEF Process
  <2> HIDE DEF r
  <2> QED BY <1>0, <2>1, <2>2, PutType
<1>12. ASSUME NEW p \in Pids, ChildReturns(p) PROVE proc' \in [Pids -> Process]
  <2>1. proc[p].back \in Places
    <3>1. proc[p] \in Process
      BY <1>0
    <3> QED BY <3>1 DEF Process, Places
  <2> QED BY <1>1, <1>12, <2>1 DEF ChildReturns
<1>13. ASSUME NEW p \in Pids, ChildFails(p) PROVE proc' \in [Pids -> Process]
  BY <1>2, <1>13 DEF ChildFails, Places
<1> QED
  BY <1>4, <1>5, <1>6, <1>7, <1>8, <1>9, <1>10, <1>11, <1>12, <1>13 DEF ServerNext, ServerStep

(* The lists of the launcher. *)

\* The ages after a second, of which recent drops those that are too old.
Older(s) == [i \in DOMAIN s |-> IF s[i] < workers THEN s[i] + 1 ELSE s[i]]

LEMMA OlderFacts ==
  ASSUME workers \in Nat, NEW s \in Seq(0 .. workers)
  PROVE  /\ Older(s) \in Seq(0 .. workers) /\ Len(Older(s)) = Len(s)
         /\ \A i \in 1 .. Len(s) : Older(s)[i] = IF s[i] < workers THEN s[i] + 1 ELSE s[i]
<1>1. Len(s) \in Nat /\ DOMAIN s = 1 .. Len(s) /\ \A i \in 1 .. Len(s) : s[i] \in 0 .. workers
  OBVIOUS
<1>2. Older(s) \in [1 .. Len(s) -> 0 .. workers]
  BY <1>1 DEF Older
<1>3. Older(s) \in Seq(0 .. workers) /\ Len(Older(s)) = Len(s)
  BY <1>1, <1>2
<1> QED BY <1>1, <1>3 DEF Older

\* What recent is after a Tick.
LEMMA RecentFacts ==
  ASSUME TypeInv, Tick
  PROVE  \E k \in 0 .. Len(recent) :
            /\ recent' \in Seq(0 .. workers - 1) /\ Len(recent') = Len(recent) - k
            /\ \A i \in 1 .. Len(recent) - k : recent'[i] = recent[i + k] + 1
            /\ \A i \in 1 .. k : recent[i] = workers - 1
<1> DEFINE o == Older(recent)
           n == Len(recent)
<1>0. /\ workers \in Nat /\ recent \in Seq(0 .. workers - 1) /\ n \in Nat
      /\ DOMAIN recent = 1 .. n
      /\ \A i \in 1 .. n : recent[i] \in 0 .. workers - 1
  BY DEF TypeInv, SettingInv
<1>1. recent \in Seq(0 .. workers)
  BY <1>0
<1>2. o \in Seq(0 .. workers) /\ Len(o) = n /\ \A i \in 1 .. n : o[i] = recent[i] + 1
  BY <1>0, <1>1, OlderFacts
<1>3. PICK k \in 0 .. n :
         /\ \A i \in 1 .. n : o[i] >= workers <=> i <= k
         /\ recent' = SubSeq(o, k + 1, n)
  BY <1>0 DEF Tick, Older
<1> HIDE DEF o, n
<1>4. /\ recent' \in Seq(0 .. workers) /\ Len(recent') = n - k
      /\ \A i \in 1 .. n - k : recent'[i] = o[i + k]
  BY <1>2, <1>3, Dropped
<1>5. ASSUME NEW i \in 1 .. n - k
      PROVE  recent'[i] = recent[i + k] + 1 /\ recent'[i] \in 0 .. workers - 1
  <2>1. i + k \in 1 .. n /\ ~(i + k <= k)
    BY <1>0
  <2>2. recent'[i] = recent[i + k] + 1 /\ recent[i + k] \in 0 .. workers - 1
    BY <1>0, <1>2, <1>4, <2>1
  <2>3. ~(recent'[i] >= workers)
    BY <1>3, <1>4, <2>1
  <2> QED BY <1>0, <2>2, <2>3
<1>6. recent' \in Seq(0 .. workers - 1)
  <2>1. \A i \in 1 .. Len(recent') : recent'[i] \in 0 .. workers - 1
    BY <1>4, <1>5
  <2> QED BY <1>4, <2>1, Narrowed
<1>7. \A i \in 1 .. k : recent[i] = workers - 1
  BY <1>0, <1>2, <1>3
<1> QED BY <1>3, <1>4, <1>5, <1>6, <1>7 DEF n

LEMMA ListTypeStep ==
  ASSUME IInv, Next
  PROVE  forktimes' \in Seq(0 .. workers) /\ recent' \in Seq(0 .. workers - 1)
<1>0. /\ workers \in Nat /\ recent \in Seq(0 .. workers - 1) /\ forktimes \in Seq(0 .. workers)
  BY DEF IInv, TypeInv, SettingInv
<1>1. CASE UNCHANGED launcherVars
  BY <1>0, <1>1 DEF launcherVars
<1>2. CASE Limit
  <2>1. CASE Len(forktimes) > workers
    <3>1. Len(forktimes) > 0
      BY <1>0, <2>1
    <3>2. Tail(forktimes) \in Seq(0 .. workers)
      BY <1>0, <3>1, Tailed
    <3> QED BY <1>0, <1>2, <2>1, <3>2 DEF Limit
  <2>2. CASE ~(Len(forktimes) > workers)
    BY <1>0, <1>2, <2>2 DEF Limit
  <2> QED BY <2>1, <2>2
<1>3. CASE Tick
  <2>1. forktimes' = Older(forktimes)
    BY <1>3 DEF Tick, Older
  <2>2. recent' \in Seq(0 .. workers - 1)
    BY <1>3, RecentFacts DEF IInv
  <2> QED BY <1>0, <2>1, <2>2, OlderFacts
<1>4. CASE StartChild
  <2>1. workers > 0
    BY <1>4 DEF StartChild, At, Live, IInv, FamilyInv, Asked
  <2>2. 0 \in 0 .. workers /\ 0 \in 0 .. workers - 1
    BY <1>0, <2>1
  <2>3. forktimes' = Append(forktimes, 0) /\ recent' = Append(recent, 0)
    BY <1>4 DEF StartChild
  <2>4. Append(forktimes, 0) \in Seq(0 .. workers)
    BY <1>0, <2>2
  <2>5. Append(recent, 0) \in Seq(0 .. workers - 1)
    BY <1>0, <2>2
  <2> QED BY <2>3, <2>4, <2>5
<1> QED
  BY <1>1, <1>2, <1>3, <1>4
  DEF Next, Signal, LauncherNext, LauncherStep, WorkerStep, Fill, LauncherWait, LauncherKill,
      LauncherReap, Settle, PipeWatcher, WorkerExit, WorkerFails

LEMMA TypeStep ==
  ASSUME IInv, Next PROVE TypeInv'
<1>1. SettingInv'
  BY SettingStep DEF IInv, TypeInv
<1>2. UNCHANGED <<timers, workers>>
  BY SettingSame DEF setting
<1>3. GroupTypeInv'
  BY <1>2, GroupTypeStep DEF IInv, TypeInv
<1>4. proc' \in [Pids -> Process]
  BY SignalProc, EngineProc, LauncherProc, ServerProc DEF IInv, Next
<1>5. port' \in {"busy", "free", "ours"} /\ shut' \in BOOLEAN
  <2>1. CASE UNCHANGED serverVars
    BY <2>1 DEF serverVars, IInv, TypeInv
  <2>2. CASE ServerNext
    BY <2>2 DEF ServerNext, ServerStep, PortFreed, Bind, BindGivesUp, ServerStart, ServerTest,
           ServerWait, ServerAgain, ChildBegins, ChildReturns, ChildFails, serverVars, IInv, TypeInv
  <2> QED BY <2>1, <2>2 DEF Next, Signal
<1>6. forktimes' \in Seq(0 .. workers') /\ recent' \in Seq(0 .. workers' - 1)
  BY <1>2, ListTypeStep
<1> QED BY <1>1, <1>3, <1>4, <1>5, <1>6 DEF TypeInv

(* Handlers. *)

LEMMA EndedTerm ==
  ASSUME NEW f \in [Pids -> Process], NEW K \in SUBSET Pids, NEW how \in Places, NEW q \in Pids
  PROVE  Ended(f, K, how)[q].term \in {f[q].term, "default"}
<1>1. Ended(f, K, how)[q].term \in {Nobody.term, f[q].term}
  BY DEF Ended, Nobody, Process
<1> QED BY <1>1 DEF Nobody

LEMMA LauncherTermTerm ==
  ASSUME NEW f \in [Pids -> Process], NEW p \in Pids, f[p].term # "ignore", NEW q \in Pids
  PROVE  LauncherTerm(f, p)[q].term \in {f[q].term, "default"}
<1>1. LauncherTakes(f, p)[q].term \in {f[q].term, "default"}
  BY DEF LauncherTakes, Process
<1>2. [f EXCEPT ![p].pc = "stop", ![p].term = "default"][q].term \in {f[q].term, "default"}
  BY DEF Process
<1>3. Ended(f, {p}, "killed")[q].term \in {f[q].term, "default"}
  BY EndedTerm DEF Places
<1>4. f[p].term \in {"default", "own", "worker"}
  BY DEF Process
<1> QED BY <1>1, <1>2, <1>3, <1>4 DEF LauncherTerm

\* The handlers of a launcher and its workers.
LEMMA LauncherModes ==
  ASSUME TypeInv, ModeInv, Launching, Signal \/ LauncherNext
  PROVE  /\ proc'[Root].term \in {"own", "default"}
         /\ \A p \in Pids : proc'[p].term # "ignore"
<1>0. /\ proc \in [Pids -> Process] /\ Root \in Pids
      /\ proc[Root].term \in {"own", "default"} /\ \A p \in Pids : proc[p].term # "ignore"
  BY PidFacts DEF TypeInv, ModeInv
<1> DEFINE Kept == \A p \in Pids : proc'[p].term \in {proc[p].term, "default"}
<1>1. ASSUME Kept PROVE /\ proc'[Root].term \in {"own", "default"}
                        /\ \A p \in Pids : proc'[p].term # "ignore"
  BY <1>0, <1>1
<1>2. ASSUME NEW p \in Pids, NEW pc \in Places, Goto(p, pc) PROVE Kept
  BY <1>0, <1>2 DEF Goto, Process
<1>3. ASSUME NEW p \in Pids, Exit(p, "done") PROVE Kept
  BY <1>0, <1>3, EndedTerm DEF Exit, Places
<1>4. ASSUME Live(Root), NEW pc \in Places, WaitChild(pc) PROVE Kept
  <2>1. PICK q \in Zombies(Root) : proc' = Reaped(Root, q, pc)
    BY <1>4 DEF WaitChild
  <2>2. /\ q \in Pids \ {Root} /\ proc'[q] = Nobody
        /\ Same(proc'[Root], proc[Root])
        /\ \A x \in Pids \ {Root, q} : proc'[x] = proc[x]
    BY <1>0, <1>4, <2>1, ReapedFacts
  <2> QED BY <1>0, <2>2 DEF Same, Nobody
<1>5. CASE Signal
  <2>1. proc' = LauncherTerm(proc, Root)
    BY <1>5 DEF Signal, Engine, Launching, Serving
  <2> QED BY <1>0, <1>1, <2>1, LauncherTermTerm
<1>6. CASE Fill \/ Limit
  BY <1>0, <1>1, <1>2, <1>6 DEF Fill, Limit, Places
<1>7. CASE StartChild
  <2>0. /\ NewPid \in Pids \ {Root}
        /\ Same(proc'[Root], proc[Root]) /\ proc'[NewPid].term = proc[Root].term
        /\ \A q \in Pids \ {Root, NewPid} : proc'[q] = proc[q]
    BY <1>0, <1>7, ForkedFacts DEF StartChild, At, Places
  <2>1. \A p \in Pids : proc'[p].term \in {proc[p].term, proc[Root].term}
    BY <1>0, <2>0 DEF Same
  <2>2. proc'[Root].term = proc[Root].term
    BY <1>0, <2>0 DEF Same
  <2> QED BY <1>0, <2>1, <2>2
<1>8. CASE LauncherWait
  BY <1>0, <1>1, <1>2, <1>4, <1>8 DEF LauncherWait, At, Places
<1>9. CASE LauncherKill
  <2>1. \A p \in Pids : LauncherTerm(proc, p)[p].term \in {proc[p].term, "default"}
    BY <1>0, LauncherTermTerm
  <2>2. [proc[Root] EXCEPT !.pc = "reap"].term = proc[Root].term
    BY <1>0 DEF Process
  <2> QED BY <1>0, <1>1, <1>9, <2>1, <2>2 DEF LauncherKill
<1>10. CASE LauncherReap
  BY <1>0, <1>1, <1>3, <1>4, <1>10 DEF LauncherReap, At, Places
<1>11. CASE Tick
  BY <1>0, <1>1, <1>11 DEF Tick, Process
<1>12. ASSUME NEW p \in Pids, Settle(p)
       PROVE  /\ proc'[Root].term \in {"own", "default"}
              /\ \A q \in Pids : proc'[q].term # "ignore"
  <2>1. \A q \in Pids : proc'[q].term \in {proc[q].term, "worker"}
    BY <1>0, <1>12 DEF Settle, Process
  <2>2. proc'[Root] = proc[Root]
    BY <1>0, <1>12 DEF Settle
  <2> QED BY <1>0, <2>1, <2>2
<1>13. ASSUME NEW p \in Pids, PipeWatcher(p) \/ WorkerFails(p) PROVE Kept
  BY <1>2, <1>13 DEF PipeWatcher, WorkerFails, Places
<1>14. ASSUME NEW p \in Pids, WorkerExit(p) PROVE Kept
  BY <1>3, <1>14 DEF WorkerExit
<1> HIDE DEF Kept
<1> QED
  BY <1>1, <1>5, <1>6, <1>7, <1>8, <1>9, <1>10, <1>11, <1>12, <1>13, <1>14
  DEF LauncherNext, LauncherStep, WorkerStep

\* The handlers of a server and its children.
LEMMA ServerModes ==
  ASSUME TypeInv, ModeInv, Serving, Signal \/ ServerNext
  PROVE  \A p \in Pids : proc'[p].term # "worker"
<1>0. proc \in [Pids -> Process] /\ Root \in Pids /\ \A p \in Pids : proc[p].term # "worker"
  BY PidFacts DEF TypeInv, ModeInv
<1> DEFINE Good == \A p \in Pids : proc'[p].term # "worker"
<1>1. ASSUME NEW p \in Pids, NEW pc \in Places, Goto(p, pc) PROVE Good
  BY <1>0, <1>1 DEF Goto, Process
<1>2. ASSUME NEW p \in Pids, NEW how \in Places, Exit(p, how) PROVE Good
  BY <1>0, <1>2, EndedTerm DEF Exit
<1>3. ASSUME NEW p \in Pids, Live(p), NEW pc \in Places, NEW back \in {"start", "test"},
             RunChild(p, pc, back)
      PROVE  Good
  <2>1. CASE NoPid
    BY <1>0, <1>3, <2>1, EndedTerm DEF RunChild, Places
  <2>2. CASE ~NoPid
    <3>1. /\ NewPid \in Pids \ {Root}
          /\ Same(proc'[p], proc[p]) /\ proc'[NewPid].term = proc[p].term
          /\ \A q \in Pids \ {p, NewPid} : proc'[q] = proc[q]
      BY <1>0, <1>3, <2>2, ForkedFacts DEF RunChild
    <3> QED BY <1>0, <3>1 DEF Same
  <2> QED BY <2>1, <2>2
<1>4. CASE Signal
  <2>1. proc' \in {ServerHup(proc, Root), ServerTerm(proc, Root)}
    BY <1>4 DEF Signal, Engine, Launching, Serving
  <2>2. CASE proc' = ServerHup(proc, Root)
    <3>1. CASE proc[Root].hup = "own"
      BY <1>0, <2>2, <3>1 DEF ServerHup, Process
    <3>2. CASE proc[Root].hup # "own"
      <4>1. proc' \in {proc, Ended(proc, {Root}, "killed")}
        BY <2>2, <3>2 DEF ServerHup
      <4> QED BY <1>0, <4>1, EndedTerm DEF Places
    <3> QED BY <3>1, <3>2
  <2>3. CASE proc' = ServerTerm(proc, Root)
    <3>1. CASE proc[Root].term = "default"
      BY <1>0, <2>3, <3>1, EndedTerm DEF ServerTerm, Places
    <3>2. CASE proc[Root].term = "ignore"
      BY <1>0, <2>3, <3>2 DEF ServerTerm
    <3>3. CASE proc[Root].term = "own"
      <4> DEFINE alive(how) == {q \in Pids : proc[q].life = "live" /\ proc[q].term = how}
                 K == alive("default")
                 stopping == [q \in Pids |->
                                IF q \notin alive("own") THEN proc[q]
                                ELSE [proc[q] EXCEPT !.term = "ignore", !.running = FALSE,
                                                     !.pc = IF @ = "wait" THEN "test" ELSE @]]
      <4>1. proc' = Ended(stopping, K, "killed")
        BY <2>3, <3>3 DEF ServerTerm
      <4>2. \A q \in Pids : stopping[q].term \in {proc[q].term, "ignore"}
        BY <1>0 DEF Process
      <4>3. \A q \in Pids : Ended(stopping, K, "killed")[q].term \in {stopping[q].term, "default"}
        <5> HIDE DEF stopping, K
        <5>1. \A q \in Pids : Ended(stopping, K, "killed")[q].term \in
                 {Nobody.term, [Nobody EXCEPT !.pc = "killed"].term,
                  [Nobody EXCEPT !.life = "zombie", !.parent = stopping[q].parent].term,
                  [stopping[q] EXCEPT !.parent = Nil].term, stopping[q].term}
          BY DEF Ended
        <5>2. \A q \in Pids : stopping[q] \in Process
          <6> SUFFICES ASSUME NEW q \in Pids PROVE stopping[q] \in Process
            OBVIOUS
          <6> DEFINE pc == IF proc[q].pc = "wait" THEN "test" ELSE proc[q].pc
          <6>1. pc \in Places /\ proc[q] \in Process
            BY <1>0 DEF Process, Places
          <6> HIDE DEF pc
          <6>2. [proc[q] EXCEPT !.term = "ignore", !.running = FALSE, !.pc = pc] \in Process
            BY <6>1 DEF Process
          <6> QED BY <6>1, <6>2 DEF stopping, pc
        <5>3. \A q \in Pids : [stopping[q] EXCEPT !.parent = Nil].term = stopping[q].term
          BY <5>2 DEF Process
        <5> QED BY <5>1, <5>3 DEF Nobody
      <4> HIDE DEF stopping, K
      <4> QED BY <1>0, <4>1, <4>2, <4>3
    <3>4. proc[Root].term \in {"default", "own", "ignore"}
      BY <1>0 DEF Process
    <3> QED BY <3>1, <3>2, <3>3, <3>4
  <2> QED BY <2>1, <2>2, <2>3
<1>5. CASE PortFreed
  BY <1>0, <1>5 DEF PortFreed, osVars
<1>6. CASE Bind
  <2>1. \A p \in Pids : proc'[p].term \in {proc[p].term, "own"}
    BY <1>0, <1>6 DEF Bind, Process
  <2> QED BY <1>0, <2>1
<1>7. CASE BindGivesUp
  BY <1>0, <1>2, <1>7 DEF BindGivesUp, Places
<1>8. ASSUME NEW p \in Pids, ServerStart(p) PROVE Good
  BY <1>1, <1>3, <1>8 DEF ServerStart, At, Places
<1>9. ASSUME NEW p \in Pids, ServerTest(p) PROVE Good
  BY <1>1, <1>2, <1>9 DEF ServerTest, Places
<1>10. ASSUME NEW p \in Pids, ServerWait(p) PROVE Good
  <2>1. ASSUME NEW q \in Zombies(p), proc' = Reaped(p, q, "again") PROVE Good
    <3>1. /\ proc'[q] = Nobody /\ Same(proc'[p], proc[p])
          /\ \A x \in Pids \ {p, q} : proc'[x] = proc[x]
      BY <1>0, <1>10, <2>1, ReapedFacts DEF ServerWait, At, Places
    <3> QED BY <1>0, <3>1 DEF Same, Nobody
  <2> QED BY <1>1, <1>10, <2>1 DEF ServerWait, Places
<1>11. ASSUME NEW p \in Pids, ServerAgain(p) PROVE Good
  BY <1>3, <1>11 DEF ServerAgain, At, Places
<1>12. ASSUME NEW p \in Pids, ChildBegins(p) PROVE Good
  <2>1. \A q \in Pids : proc'[q].term \in {proc[q].term, "default"}
    BY <1>0, <1>12 DEF ChildBegins, Process
  <2> QED BY <1>0, <2>1
<1>13. ASSUME NEW p \in Pids, ChildReturns(p) PROVE Good
  <2>1. proc[p].back \in Places
    <3>1. proc[p] \in Process
      BY <1>0
    <3> QED BY <3>1 DEF Process, Places
  <2> QED BY <1>1, <1>13, <2>1 DEF ChildReturns
<1>14. ASSUME NEW p \in Pids, ChildFails(p) PROVE Good
  BY <1>2, <1>14 DEF ChildFails, Places
<1> HIDE DEF Good
<1>15. Good
  BY <1>4, <1>5, <1>6, <1>7, <1>8, <1>9, <1>10, <1>11, <1>12, <1>13, <1>14
  DEF ServerNext, ServerStep, Good
<1> QED BY <1>15 DEF Good

\* What a step can be depends on the program.
LEMMA StepOf ==
  ASSUME Next
  PROVE  /\ Launching => Signal \/ (LauncherNext /\ UNCHANGED <<groupVars, serverVars>>)
         /\ Serving => Signal \/ (ServerNext /\ UNCHANGED <<groupVars, launcherVars>>)
         /\ Engine => Signal \/ (EngineNext /\ UNCHANGED <<launcherVars, serverVars>>)
<1>1. EngineNext => Engine
  BY DEF EngineNext, EngineStep, Await, Awoken, EngineStop, ServiceStart, ServiceEnds,
         ServiceFails, ServiceExits
<1>2. LauncherNext => Launching
  BY DEF LauncherNext, LauncherStep, WorkerStep, Fill, Limit, StartChild, LauncherWait,
         LauncherKill, LauncherReap, Tick, Settle, PipeWatcher, WorkerExit, WorkerFails
<1>3. ServerNext => Serving
  BY DEF ServerNext, ServerStep, PortFreed, Bind, BindGivesUp, ServerStart, ServerTest,
         ServerWait, ServerAgain, ChildBegins, ChildReturns, ChildFails
<1> QED BY <1>1, <1>2, <1>3 DEF Next, Engine, Launching, Serving

LEMMA ModeStep ==
  ASSUME IInv, Next PROVE ModeInv'
<1>1. UNCHANGED <<program, workers>>
  BY SettingSame DEF setting
<1>2. Launching' => /\ proc'[Root].term \in {"own", "default"}
                    /\ \A p \in Pids : proc'[p].term # "ignore"
  BY <1>1, StepOf, LauncherModes DEF IInv, Launching
<1>3. Serving' => \A p \in Pids : proc'[p].term # "worker"
  BY <1>1, StepOf, ServerModes DEF IInv, Serving
<1>4. ~Launching' => forktimes' = <<>> /\ recent' = <<>>
  <2>1. ASSUME ~Launching PROVE UNCHANGED launcherVars
    BY <2>1, StepOf DEF Signal, IInv, TypeInv, SettingInv, Engine, Launching, Serving
  <2> QED BY <1>1, <2>1 DEF Launching, launcherVars, IInv, ModeInv
<1> QED BY <1>2, <1>3, <1>4 DEF ModeInv, Launching, Serving

(* The group of threads. *)

LEMMA ThreadDoneGroup ==
  ASSUME TypeInv, Once, Listed, NEW s \in Services, ThreadDone(s)
  PROVE  /\ service[s] # "done" /\ service' = [service EXCEPT ![s] = "done"]
         /\ Len(threads') = Len(threads) - 1
         /\ \A i, j \in DOMAIN threads' : threads'[i] = threads'[j] => i = j
         /\ \A x \in Services : service'[x] # "done" <=> \E i \in DOMAIN threads' : threads'[i] = x
<1>0. /\ threads \in Seq(Services) /\ service \in [Services -> {"new", "up", "done"}]
      /\ Len(threads) \in Nat /\ DOMAIN threads = 1 .. Len(threads)
  BY DEF TypeInv, GroupTypeInv
<1>1. PICK k \in 1 .. Len(threads) : threads[k] = s /\ threads' = RemoveAt(threads, k)
  BY <1>0 DEF ThreadDone
<1>2. /\ Len(threads') = Len(threads) - 1 /\ DOMAIN threads' = 1 .. Len(threads) - 1
      /\ \A j \in 1 .. Len(threads) - 1 :
            threads'[j] = IF j < k THEN threads[j] ELSE threads[j + 1]
  <2>1. /\ threads' \in Seq(Services) /\ Len(threads') = Len(threads) - 1
        /\ \A j \in 1 .. Len(threads) - 1 :
              RemoveAt(threads, k)[j] = IF j < k THEN threads[j] ELSE threads[j + 1]
    BY <1>0, <1>1, Without
  <2> QED BY <1>1, <2>1
<1>3. service[s] # "done" /\ service' = [service EXCEPT ![s] = "done"]
  BY <1>0, <1>1 DEF Listed, ThreadDone
<1>4. ASSUME NEW i \in DOMAIN threads', NEW j \in DOMAIN threads', threads'[i] = threads'[j]
      PROVE  i = j
  <2> DEFINE at(x) == IF x < k THEN x ELSE x + 1
  <2>1. at(i) \in DOMAIN threads /\ at(j) \in DOMAIN threads /\ threads[at(i)] = threads[at(j)]
    BY <1>0, <1>1, <1>2, <1>4
  <2>2. at(i) = at(j)
    BY <2>1 DEF Once
  <2> QED BY <1>0, <1>1, <1>2, <2>2
<1>5. ASSUME NEW i \in DOMAIN threads' PROVE threads'[i] # s
  <2> DEFINE at == IF i < k THEN i ELSE i + 1
  <2>1. at \in DOMAIN threads /\ threads'[i] = threads[at] /\ at # k
    BY <1>0, <1>1, <1>2
  <2> QED BY <1>0, <1>1, <2>1 DEF Once
<1>6. ASSUME NEW x \in Services
      PROVE  service'[x] # "done" <=> \E i \in DOMAIN threads' : threads'[i] = x
  <2>1. CASE x = s
    BY <1>0, <1>3, <1>5, <2>1
  <2>2. CASE x # s
    <3>1. service'[x] = service[x]
      BY <1>0, <1>3, <2>2
    <3>2. ASSUME NEW i \in DOMAIN threads, threads[i] = x
          PROVE  \E j \in DOMAIN threads' : threads'[j] = x
      <4> DEFINE j == IF i < k THEN i ELSE i - 1
      <4>1. i # k
        BY <1>1, <2>2, <3>2
      <4>2. j \in 1 .. Len(threads) - 1 /\ threads'[j] = threads[i]
        BY <1>0, <1>1, <1>2, <4>1
      <4> QED BY <1>2, <3>2, <4>2
    <3>3. ASSUME NEW j \in DOMAIN threads', threads'[j] = x
          PROVE  \E i \in DOMAIN threads : threads[i] = x
      <4> DEFINE i == IF j < k THEN j ELSE j + 1
      <4>1. i \in DOMAIN threads /\ threads[i] = threads'[j]
        BY <1>0, <1>1, <1>2
      <4> QED BY <3>3, <4>1
    <3> QED BY <3>1, <3>2, <3>3 DEF Listed
  <2> QED BY <2>1, <2>2
<1> QED BY <1>2, <1>3, <1>4, <1>6

\* A thread that ends leaves the group's bounds as they were.
LEMMA ThreadDoneStep ==
  ASSUME IInv, Engine, Live(Root), NEW s \in Services, ThreadDone(s),
         UNCHANGED <<program, timers, next, awaited>>,
         At(Root, "stop")' /\ told' = "no" => At(Root, "stop") /\ told = "no",
         proc'[Root].pc # "done"
  PROVE  GroupInv'
<1>0. /\ threads \in Seq(Services) /\ Len(threads) \in Nat /\ next \in Nat /\ timers \in Seq(BOOLEAN)
      /\ Len(timers) \in Nat /\ awaited \in Services \cup {0}
      /\ service \in [Services -> {"new", "up", "done"}]
  BY DEF IInv, TypeInv, GroupTypeInv, SettingInv
<1>1. /\ service[s] # "done" /\ service' = [service EXCEPT ![s] = "done"]
      /\ Len(threads') = Len(threads) - 1
      /\ Once' /\ Listed'
  BY ThreadDoneGroup DEF IInv, GroupInv, Once, Listed, Services
<1>2. Waiting /\ awaited # s => Waiting'
  BY <1>0, <1>1 DEF Waiting
<1>3. Len(threads') + next' - 1 <= Len(timers') + (IF Waiting' THEN 1 ELSE 0)
  <2>1. Len(threads) + next - 1 <= Len(timers) + (IF Waiting THEN 1 ELSE 0)
    BY DEF IInv, GroupInv
  <2> QED BY <1>0, <1>1, <1>2, <2>1
<1>4. At(Root, "stop")' /\ told' = "no" => 2 * Len(threads') <= Len(timers')
  BY <1>0, <1>1 DEF IInv, GroupInv
<1> QED BY <1>0, <1>1, <1>3, <1>4 DEF IInv, GroupInv

LEMMA EngineStopStep ==
  ASSUME IInv, EngineStop, UNCHANGED <<program, timers>> PROVE GroupInv'
<1>0. /\ threads \in Seq(Services) /\ Len(threads) \in Nat /\ next \in Nat /\ timers \in Seq(BOOLEAN)
      /\ Len(timers) \in Nat /\ DOMAIN threads = 1 .. Len(threads)
      /\ service \in [Services -> {"new", "up", "done"}]
      /\ proc \in [Pids -> Process] /\ Root \in Pids /\ Engine
  BY PidFacts DEF IInv, TypeInv, GroupTypeInv, SettingInv, EngineStop
<1>1. /\ threads' \in Seq(Services) /\ 2 * Len(threads') <= Len(threads)
      /\ Len(threads) <= 2 * Len(threads') + 1
      /\ \A i \in 1 .. Len(threads') : 2 * i \in 1 .. Len(threads) /\ threads'[i] = threads[2 * i]
      /\ \A j \in 1 .. Len(threads) : j % 2 # 1 => \E i \in 1 .. Len(threads') : j = 2 * i
      /\ \A i \in 1 .. Len(threads') : (2 * i) % 2 # 1
  <2>1. threads' = Second(threads)
    BY DEF EngineStop, Second
  <2> QED BY <1>0, <2>1, Evens
<1>2. Len(threads') \in Nat /\ DOMAIN threads' = 1 .. Len(threads')
  BY <1>1
<1>3. Once /\ Listed /\ Len(threads) <= Len(timers)
  BY <1>0 DEF IInv, GroupInv
<1>4. Once'
  <2> SUFFICES ASSUME NEW i \in 1 .. Len(threads'), NEW j \in 1 .. Len(threads'),
                      threads'[i] = threads'[j]
               PROVE  i = j
    BY <1>2 DEF Once
  <2>1. /\ 2 * i \in DOMAIN threads /\ threads'[i] = threads[2 * i]
        /\ 2 * j \in DOMAIN threads /\ threads'[j] = threads[2 * j]
    BY <1>0, <1>1
  <2>2. 2 * i = 2 * j
    BY <1>3, <2>1 DEF Once
  <2> QED BY <2>2
<1>5. Listed'
  <2> DEFINE killed == {threads[i] : i \in {j \in DOMAIN threads : j % 2 = 1}}
  <2>1. service' = [s \in Services |-> IF s \in killed THEN "done" ELSE service[s]]
    BY DEF EngineStop
  <2> SUFFICES ASSUME NEW s \in Services
               PROVE  service'[s] # "done" <=> \E i \in 1 .. Len(threads') : threads'[i] = s
    BY <1>2 DEF Listed, Services
  <2>2. ASSUME service'[s] # "done" PROVE \E i \in 1 .. Len(threads') : threads'[i] = s
    <3>1. s \notin killed /\ service[s] # "done"
      BY <2>1, <2>2
    <3>2. PICK j \in 1 .. Len(threads) : threads[j] = s
      BY <1>0, <1>3, <3>1 DEF Listed
    <3>3. j % 2 # 1
      BY <1>0, <3>1, <3>2
    <3> QED BY <1>1, <3>2, <3>3
  <2>3. ASSUME NEW i \in 1 .. Len(threads'), threads'[i] = s PROVE service'[s] # "done"
    <3>1. 2 * i \in 1 .. Len(threads) /\ threads[2 * i] = s /\ (2 * i) % 2 # 1
      BY <1>1, <2>3
    <3>2. s \notin killed
      <4> SUFFICES ASSUME NEW j \in 1 .. Len(threads), j % 2 = 1, threads[j] = s PROVE FALSE
        BY <1>0
      <4>1. j = 2 * i
        BY <1>0, <1>3, <3>1 DEF Once
      <4> QED BY <3>1, <4>1
    <3>3. service[s] # "done"
      BY <1>0, <1>3, <3>1 DEF Listed
    <3> QED BY <2>1, <3>2, <3>3
  <2> QED BY <2>2, <2>3
<1>6. Len(threads') + next' - 1 <= Len(timers') + (IF Waiting' THEN 1 ELSE 0)
  <2>1. /\ Len(threads) + next - 1 <= Len(timers) + (IF Waiting THEN 1 ELSE 0)
        /\ next' = next /\ timers' = timers
    BY <1>0 DEF IInv, GroupInv, EngineStop
  <2>2. CASE Waiting
    <3>1. awaited \in Services /\ service[awaited] # "done"
      BY <2>2 DEF Waiting, IInv, TypeInv, GroupTypeInv
    <3>2. Len(threads) >= 1
      BY <1>0, <1>3, <3>1 DEF Listed
    <3> QED BY <1>0, <1>1, <1>2, <2>1, <3>2
  <2>3. CASE ~Waiting
    BY <1>0, <1>1, <1>2, <2>1, <2>3
  <2> QED BY <2>2, <2>3
<1>7. proc'[Root] = [Nobody EXCEPT !.pc = "done"]
  BY <1>0 DEF EngineStop, Exit, Ended
<1>8. proc'[Root].pc = "done" /\ ~Live(Root)'
  BY <1>7 DEF Live, Nobody
<1> QED BY <1>0, <1>1, <1>2, <1>3, <1>4, <1>5, <1>6, <1>8 DEF GroupInv, At

LEMMA GroupStep ==
  ASSUME IInv, Next PROVE GroupInv'
<1>0. /\ threads \in Seq(Services) /\ Len(threads) \in Nat /\ next \in Nat /\ timers \in Seq(BOOLEAN)
      /\ Len(timers) \in Nat /\ awaited \in Services \cup {0} /\ DOMAIN threads = 1 .. Len(threads)
      /\ service \in [Services -> {"new", "up", "done"}]
      /\ proc \in [Pids -> Process] /\ Root \in Pids
      /\ UNCHANGED <<program, timers>>
  BY PidFacts, SettingSame DEF IInv, TypeInv, GroupTypeInv, SettingInv, setting
<1> SUFFICES ASSUME Engine PROVE GroupInv'
  BY <1>0 DEF GroupInv, Engine
<1>1. GroupInv /\ Once /\ Listed
  BY DEF IInv, GroupInv
<1>2. Services' = Services /\ Engine'
  BY <1>0 DEF Services, Engine
<1>3. ASSUME UNCHANGED <<service, threads, next, awaited>>,
             At(Root, "stop")' /\ told' = "no" => At(Root, "stop") /\ told = "no",
             proc'[Root].pc # "done"
      PROVE  GroupInv'
  <2>1. Once' /\ Listed'
    BY <1>1, <1>2, <1>3 DEF Once, Listed
  <2>2. Waiting' <=> Waiting
    BY <1>3 DEF Waiting
  <2> QED BY <1>0, <1>1, <1>3, <2>1, <2>2 DEF GroupInv
<1>4. CASE Signal
  <2>1. /\ proc' = EngineTerm(proc, Root) /\ told' # "no" /\ Live(Root)
        /\ UNCHANGED <<service, threads, next, awaited>>
    BY <1>4 DEF Signal, Engine, Launching, Serving, groupVars, IInv, TypeInv, SettingInv
  <2>2. proc[Root].pc # "done"
    BY <1>1, <2>1 DEF GroupInv
  <2>3. proc'[Root].pc # "done"
    <3>1. CASE proc[Root].term = "own" /\ proc[Root].pc = "await"
      BY <1>0, <2>1, <3>1 DEF EngineTerm, Process
    <3>2. CASE ~(proc[Root].term = "own" /\ proc[Root].pc = "await")
      BY <1>0, <2>1, <3>2 DEF EngineTerm, Ended, Nobody
    <3> QED BY <3>1, <3>2
  <2> QED BY <1>3, <2>1, <2>3
<1>5. CASE Await
  <2>1. At(Root, "await") /\ awaited = 0 /\ ~Waiting /\ UNCHANGED <<service, threads, told>>
    BY <1>5 DEF Await, Waiting
  <2>2. Len(threads) + next - 1 <= Len(timers) /\ Len(threads) <= Len(timers)
    BY <1>1, <2>1 DEF GroupInv
  <2>3. Once' /\ Listed'
    BY <1>1, <1>2, <2>1 DEF Once, Listed
  <2>4. CASE next <= Len(threads)
    <3>1. awaited' = threads[next] /\ next' = next + 1 /\ UNCHANGED proc
      BY <1>5, <2>4 DEF Await
    <3>2. next \in 1 .. Len(threads) /\ threads[next] \in Services
      BY <1>0, <2>4 DEF IInv, TypeInv, GroupTypeInv
    <3>3. Waiting'
      <4>1. service[threads[next]] # "done"
        BY <1>0, <1>1, <3>2 DEF Listed
      <4>2. threads[next] # 0
        BY <1>0, <3>2 DEF Services
      <4> QED BY <2>1, <3>1, <4>1, <4>2 DEF Waiting
    <3>4. proc'[Root].pc = "await"
      BY <2>1, <3>1 DEF At
    <3> QED BY <1>0, <2>1, <2>2, <2>3, <3>1, <3>3, <3>4 DEF GroupInv, At
  <2>5. CASE ~(next <= Len(threads))
    <3>1. Goto(Root, "stop") /\ UNCHANGED <<awaited, next>>
      BY <1>5, <2>5 DEF Await
    <3>2. 2 * Len(threads) <= Len(timers)
      BY <1>0, <2>2, <2>5
    <3>3. proc'[Root].pc # "done"
      BY <1>0, <3>1 DEF Goto, Process
    <3> QED BY <1>0, <2>1, <2>2, <2>3, <3>1, <3>2, <3>3 DEF GroupInv
  <2> QED BY <2>4, <2>5
<1>6. CASE Awoken
  <2>1. ~Waiting /\ ~Waiting' /\ UNCHANGED <<service, threads, next, proc, told>>
    BY <1>6 DEF Awoken, Waiting, osVars
  <2>2. Once' /\ Listed'
    BY <1>1, <1>2, <2>1 DEF Once, Listed
  <2> QED BY <1>0, <1>1, <2>1, <2>2 DEF GroupInv, At, Live
<1>7. CASE EngineStop
  BY <1>0, <1>7, EngineStopStep
<1>8. ASSUME NEW s \in Services, ServiceStart(s) PROVE GroupInv'
  <2>1. /\ service[s] = "new" /\ service' = [service EXCEPT ![s] = "up"]
        /\ UNCHANGED <<threads, next, awaited, proc, told>>
    BY <1>8 DEF ServiceStart, osVars
  <2>2. \A x \in Services : service'[x] # "done" <=> service[x] # "done"
    BY <1>0, <2>1
  <2>3. Once' /\ Listed'
    BY <1>1, <1>2, <2>1, <2>2 DEF Once, Listed
  <2>4. Waiting' <=> Waiting
    BY <1>0, <2>1, <2>2 DEF Waiting
  <2> QED BY <1>0, <1>1, <2>1, <2>3, <2>4 DEF GroupInv, At, Live
<1>9. ASSUME NEW s \in Services, ServiceEnds(s) PROVE GroupInv'
  <2>1. Live(Root) /\ ThreadDone(s) /\ UNCHANGED <<told, proc, next, awaited>>
    BY <1>9 DEF ServiceEnds, osVars
  <2>2. proc[Root].pc # "done"
    BY <1>1, <2>1 DEF GroupInv
  <2> QED BY <1>0, <2>1, <2>2, ThreadDoneStep DEF At, Live
<1>10. ASSUME NEW s \in Services, ServiceFails(s) PROVE GroupInv'
  <2>1. Live(Root) /\ UNCHANGED <<told, proc, next, awaited>>
    BY <1>10 DEF ServiceFails
  <2>2. proc[Root].pc # "done"
    BY <1>1, <2>1 DEF GroupInv
  <2>3. CASE ThreadDone(s)
    BY <1>0, <2>1, <2>2, <2>3, ThreadDoneStep DEF At, Live
  <2>4. CASE UNCHANGED <<service, threads>>
    BY <1>3, <2>1, <2>2, <2>4 DEF At, Live
  <2> QED BY <1>10, <2>3, <2>4 DEF ServiceFails
<1>11. ASSUME NEW s \in Services, ServiceExits(s) PROVE GroupInv'
  <2>1. Live(Root) /\ told' # "no" /\ UNCHANGED <<next, awaited>>
    BY <1>11 DEF ServiceExits
  <2>2. proc'[Root].pc # "done"
    <3>1. CASE Goto(Root, "stop")
      BY <1>0, <3>1 DEF Goto, Process
    <3>2. CASE Exit(Root, "killed")
      BY <1>0, <3>2 DEF Exit, Ended, Nobody
    <3> QED BY <1>11, <3>1, <3>2 DEF ServiceExits
  <2>3. CASE ThreadDone(s)
    BY <1>0, <2>1, <2>2, <2>3, ThreadDoneStep
  <2>4. CASE UNCHANGED <<service, threads>>
    BY <1>3, <2>1, <2>2, <2>4
  <2> QED BY <1>11, <2>3, <2>4 DEF ServiceExits
<1> QED
  BY <1>4, <1>5, <1>6, <1>7, <1>8, <1>9, <1>10, <1>11, StepOf DEF EngineNext, EngineStep

\* A list with every unfinished service once is as long as there are such services.
LEMMA UnfinishedCount ==
  ASSUME TypeInv, Listed
  PROVE  Unfinished <= Len(threads) /\ Unfinished \in Nat
<1> DEFINE S == {s \in Services : service[s] # "done"}
           D == 1 .. Len(threads)
<1>1. Len(threads) \in Nat /\ DOMAIN threads = D
  BY DEF TypeInv, GroupTypeInv
<1>2. IsFiniteSet(D) /\ Cardinality(D) = Len(threads)
  <2>1. /\ IsFiniteSet(1 .. Len(threads))
        /\ Cardinality(1 .. Len(threads)) = IF 1 > Len(threads) THEN 0 ELSE Len(threads) - 1 + 1
    BY <1>1, FS_Interval
  <2> QED BY <1>1, <2>1
<1>3. \A s \in S : \E i \in D : threads[i] = s
  BY <1>1 DEF Listed
<1>4. \A i \in D : threads[i] \in S
  <2>1. \A i \in D : threads[i] \in Services
    BY <1>1 DEF TypeInv, GroupTypeInv
  <2>2. ASSUME NEW i \in D PROVE service[threads[i]] # "done"
    <3>1. \E j \in DOMAIN threads : threads[j] = threads[i]
      BY <1>1
    <3> QED BY <2>1, <3>1 DEF Listed
  <2> QED BY <2>1, <2>2
<1> DEFINE f == [i \in D |-> threads[i]]
<1>5. f \in Surjection(D, S)
  BY <1>3, <1>4 DEF Surjection
<1> HIDE DEF S, D, f
<1>6. IsFiniteSet(S) /\ Cardinality(S) <= Cardinality(D)
  BY <1>2, <1>5, FS_Surjection
<1>7. Cardinality(S) \in Nat
  BY <1>6, FS_CardinalityType
<1> QED BY <1>2, <1>6, <1>7 DEF Unfinished, S

(* The family of the launcher. *)

Kin == \A p \in Pids \ {Root} : proc[p].parent \in {Root, Nil}
Known ==
  \A p \in Pids \ {Root} :
      proc[p].life # "none" => proc[p].parent = Root /\ p \in proc[Root].children

\* A worker that ends is a zombie of the launcher's, and nothing else changes.
LEMMA WorkerEnded ==
  ASSUME proc \in [Pids -> Process], proc[Root].parent = Nil, Kin, NEW p \in Pids \ {Root},
         NEW how \in Places
  PROVE  /\ Ended(proc, {p}, how)[p].parent \in {proc[p].parent, Nil}
         /\ proc[p].parent = Root => Ended(proc, {p}, how)[p].parent = Root
         /\ Ended(proc, {p}, how)[p].life # "live"
         /\ \A q \in Pids \ {p} : Ended(proc, {p}, how)[q] = proc[q]
<1>1. p # Nil /\ Root \notin {p} /\ Nil \notin {p}
  BY PidFacts
<1>2. \A q \in Pids \ {p} : proc[q].parent \notin {p}
  BY <1>1 DEF Kin
<1>3. \A q \in Pids \ {p} : Ended(proc, {p}, how)[q] = proc[q]
  BY <1>2 DEF Ended
<1>4. Ended(proc, {p}, how)[p] = IF proc[p].parent \in {p} \cup {Nil} THEN Nobody
          ELSE [Nobody EXCEPT !.life = "zombie", !.parent = proc[p].parent]
  BY <1>1 DEF Ended
<1>5. proc[p].parent \in {Root, Nil}
  BY DEF Kin
<1>6. CASE proc[p].parent = Root
  <2>1. Ended(proc, {p}, how)[p] = [Nobody EXCEPT !.life = "zombie", !.parent = Root]
    BY <1>1, <1>4, <1>6, PidFacts
  <2> QED BY <1>3, <1>6, <2>1 DEF Nobody
<1>7. CASE proc[p].parent = Nil
  <2>1. Ended(proc, {p}, how)[p] = Nobody
    BY <1>4, <1>7
  <2> QED BY <1>3, <1>7, <2>1, PidFacts DEF Nobody
<1> QED BY <1>5, <1>6, <1>7

\* When the launcher ends without a child, nobody is left.
LEMMA LauncherEnded ==
  ASSUME proc \in [Pids -> Process], proc[Root].parent = Nil, Kin, NEW how \in Places
  PROVE  /\ Ended(proc, {Root}, how)[Root] = [Nobody EXCEPT !.pc = how]
         /\ \A q \in Pids \ {Root} : /\ Ended(proc, {Root}, how)[q].parent = Nil
                                     /\ Ended(proc, {Root}, how)[q].life \in {proc[q].life, "none"}
<1>1. Ended(proc, {Root}, how)[Root] = [Nobody EXCEPT !.pc = how]
  BY PidFacts DEF Ended
<1>2. ASSUME NEW q \in Pids \ {Root}
      PROVE  /\ Ended(proc, {Root}, how)[q].parent = Nil
             /\ Ended(proc, {Root}, how)[q].life \in {proc[q].life, "none"}
  <2>1. CASE proc[q].parent = Root
    <3>1. Ended(proc, {Root}, how)[q] =
             IF proc[q].life = "zombie" THEN Nobody ELSE [proc[q] EXCEPT !.parent = Nil]
      BY <2>1 DEF Ended
    <3>2. proc[q] \in Process
      OBVIOUS
    <3> QED BY <3>1, <3>2 DEF Nobody, Process
  <2>2. CASE proc[q].parent = Nil
    <3>1. Ended(proc, {Root}, how)[q] = proc[q]
      BY <2>2, PidFacts DEF Ended
    <3> QED BY <2>2, <3>1
  <2> QED BY <2>1, <2>2 DEF Kin
<1> QED BY <1>1, <1>2

\* A signal that the launcher, or a worker, takes.
LEMMA Taken ==
  ASSUME proc \in [Pids -> Process], NEW p \in Pids
  PROVE  /\ \A q \in Pids \ {p} : LauncherTakes(proc, p)[q] = proc[q]
         /\ LauncherTakes(proc, p)[p].life = proc[p].life
         /\ LauncherTakes(proc, p)[p].parent = proc[p].parent
         /\ LauncherTakes(proc, p)[p].children = proc[p].children
         /\ LauncherTakes(proc, p)[p].running = FALSE
         /\ LauncherTakes(proc, p)[p].pc = IF proc[p].pc = "sleep" THEN "fork" ELSE proc[p].pc
BY DEF LauncherTakes, Process

\* A launcher's process as it is, and the conjuncts of FamilyInv by name.
LEMMA FamilyFacts ==
  ASSUME IInv, Launching
  PROVE  /\ proc \in [Pids -> Process] /\ Root \in Pids /\ workers \in Nat
         /\ proc[Root].parent = Nil /\ Kin /\ (Live(Root) => Known)
         /\ proc[Root].term \in {"own", "default"}
BY PidFacts DEF IInv, TypeInv, SettingInv, ModeInv, FamilyInv, Kin, Known

\* The signal ends the launcher, or stops its loop.
LEMMA FamilySignal ==
  ASSUME IInv, Launching, Signal, UNCHANGED <<program, workers>> PROVE FamilyInv'
<1>0. /\ proc \in [Pids -> Process] /\ Root \in Pids /\ workers \in Nat
      /\ proc[Root].parent = Nil /\ Kin /\ Known /\ Live(Root)
      /\ proc[Root].term \in {"own", "default"} /\ FamilyInv
  BY FamilyFacts DEF IInv, Signal
<1>1. proc' = LauncherTerm(proc, Root) /\ told' # "no"
  BY DEF Signal, Engine, Launching, Serving, IInv, TypeInv, SettingInv
<1>2. CASE proc[Root].term = "own"
  <2>1. proc' = LauncherTakes(proc, Root)
    BY <1>0, <1>1, <1>2 DEF LauncherTerm, Live
  <2>2. /\ \A q \in Pids \ {Root} : proc'[q] = proc[q]
        /\ proc'[Root].life = proc[Root].life /\ proc'[Root].parent = Nil
        /\ proc'[Root].children = proc[Root].children /\ proc'[Root].running = FALSE
        /\ proc'[Root].pc = IF proc[Root].pc = "sleep" THEN "fork" ELSE proc[Root].pc
    BY <1>0, <2>1, Taken
  <2> QED BY <1>0, <1>1, <2>2 DEF FamilyInv, Live, AllGone, Asked, Launching
<1>3. CASE proc[Root].term = "default"
  <2>1. proc' = Ended(proc, {Root}, "killed")
    BY <1>0, <1>1, <1>3 DEF LauncherTerm, Live
  <2>2. /\ proc'[Root] = [Nobody EXCEPT !.pc = "killed"]
        /\ \A q \in Pids \ {Root} : proc'[q].parent = Nil
    BY <1>0, <2>1, LauncherEnded DEF Places
  <2>3. proc'[Root].parent = Nil /\ proc'[Root].life = "none" /\ proc'[Root].pc = "killed"
    BY <2>2 DEF Nobody
  <2> QED BY <1>0, <1>1, <2>2, <2>3 DEF FamilyInv, Live
<1> QED BY <1>0, <1>2, <1>3

\* A step of the launcher alone that does not change who there is.
LEMMA FamilyGoto ==
  ASSUME IInv, Launching, Live(Root), NEW pc \in Places, pc # "done",
         pc \in {"limit", "sleep", "fork"} => workers > 0,
         pc \in {"kill", "reap"} => ~proc[Root].running,
         Goto(Root, pc), UNCHANGED <<program, workers, told>>
  PROVE  FamilyInv'
<1>0. /\ proc \in [Pids -> Process] /\ Root \in Pids /\ workers \in Nat /\ FamilyInv
  BY FamilyFacts DEF IInv
<1>1. /\ \A q \in Pids \ {Root} : proc'[q] = proc[q]
      /\ proc'[Root].life = proc[Root].life /\ proc'[Root].parent = proc[Root].parent
      /\ proc'[Root].children = proc[Root].children
      /\ proc'[Root].running = proc[Root].running /\ proc'[Root].pc = pc
  BY <1>0 DEF Goto, Process
<1> QED BY <1>0, <1>1 DEF FamilyInv, Live, Asked, Running

LEMMA FamilyWaits ==
  ASSUME IInv, Launching, Live(Root), NEW pc \in Places, pc \in {"fill", "reap"},
         pc = "reap" => ~proc[Root].running,
         WaitChild(pc), UNCHANGED <<program, workers, told>>
  PROVE  FamilyInv'
<1>0. /\ proc \in [Pids -> Process] /\ Root \in Pids /\ workers \in Nat /\ FamilyInv
  BY FamilyFacts DEF IInv
<1>1. PICK q \in Zombies(Root) : proc' = Reaped(Root, q, pc)
  BY DEF WaitChild
<1>2. /\ q \in Pids \ {Root} /\ proc'[q] = Nobody
      /\ Same(proc'[Root], proc[Root]) /\ proc'[Root].pc = pc
      /\ proc'[Root].children = proc[Root].children \ {q}
      /\ \A x \in Pids \ {Root, q} : proc'[x] = proc[x]
  BY <1>0, <1>1, ReapedFacts
<1>3. Nobody.parent = Nil /\ Nobody.life = "none"
  BY DEF Nobody
<1> QED BY <1>0, <1>2, <1>3 DEF FamilyInv, Live, Asked, Running, Same

LEMMA FamilyForks ==
  ASSUME IInv, Launching, StartChild, UNCHANGED <<program, workers, told>>
  PROVE  FamilyInv'
<1>0. /\ proc \in [Pids -> Process] /\ Root \in Pids /\ workers \in Nat /\ FamilyInv
      /\ Live(Root) /\ ~NoPid /\ proc' = Forked(Root, "fill", "none")
  BY FamilyFacts DEF IInv, StartChild, At
<1>1. /\ NewPid \in Pids \ {Root}
      /\ Same(proc'[Root], proc[Root]) /\ proc'[Root].pc = "fill"
      /\ proc'[Root].children = proc[Root].children \cup {NewPid}
      /\ proc'[NewPid].parent = Root
      /\ \A q \in Pids \ {Root, NewPid} : proc'[q] = proc[q]
  BY <1>0, ForkedFacts DEF Places
<1> QED BY <1>0, <1>1 DEF FamilyInv, Live, Asked, Running, Same

\* The launcher tells its workers, who take the signal each in its own place.
LEMMA FamilyTells ==
  ASSUME IInv, LauncherKill, UNCHANGED <<program, workers, told>> PROVE FamilyInv'
<1>0. /\ proc \in [Pids -> Process] /\ Root \in Pids /\ workers \in Nat /\ FamilyInv /\ Launching
      /\ proc[Root].parent = Nil /\ Kin /\ Live(Root) /\ proc[Root].pc = "kill" /\ Known
      /\ ~proc[Root].running
  BY FamilyFacts DEF IInv, LauncherKill, At, FamilyInv
<1>1. proc' = [p \in Pids |-> IF p = Root THEN [proc[p] EXCEPT !.pc = "reap"]
                              ELSE IF p \in proc[Root].children THEN LauncherTerm(proc, p)[p]
                              ELSE proc[p]]
  BY DEF LauncherKill
<1>2. Same(proc'[Root], proc[Root]) /\ proc'[Root].pc = "reap"
      /\ proc'[Root].children = proc[Root].children
  <2>1. proc[Root] \in Process /\ proc'[Root] = [proc[Root] EXCEPT !.pc = "reap"]
    BY <1>0, <1>1
  <2> QED BY <2>1 DEF Same, Process
<1>3. ASSUME NEW p \in Pids \ {Root}
      PROVE  /\ proc'[p].parent = proc[p].parent \/ proc'[p].parent = Nil
             /\ proc'[p].life # "none" => proc[p].life # "none"
             /\ proc[p].parent = Root => proc'[p].parent = Root
  <2>1. CASE p \notin proc[Root].children
    BY <1>1, <2>1
  <2>2. CASE p \in proc[Root].children
    <3>1. proc'[p] = LauncherTerm(proc, p)[p]
      BY <1>1, <2>2
    <3>2. proc[p].term \in {"own", "default", "worker"}
      BY <1>0 DEF IInv, ModeInv, Process
    <3>3. CASE proc[p].life # "live"
      BY <3>1, <3>3 DEF LauncherTerm
    <3>4. CASE proc[p].life = "live" /\ proc[p].term = "own"
      <4>1. proc'[p] = LauncherTakes(proc, p)[p]
        BY <3>1, <3>4 DEF LauncherTerm
      <4> QED BY <1>0, <4>1, Taken
    <3>5. CASE proc[p].life = "live" /\ proc[p].term = "worker"
      <4>1. proc'[p] = [proc EXCEPT ![p].pc = "stop", ![p].term = "default"][p]
        BY <3>1, <3>5 DEF LauncherTerm
      <4> QED BY <1>0, <4>1 DEF Process
    <3>6. CASE proc[p].life = "live" /\ proc[p].term = "default"
      <4>1. proc'[p] = Ended(proc, {p}, "killed")[p]
        BY <3>1, <3>6 DEF LauncherTerm
      <4>2. /\ proc'[p].parent \in {proc[p].parent, Nil}
            /\ proc[p].parent = Root => proc'[p].parent = Root
        <5>1. "killed" \in Places
          BY DEF Places
        <5>2. /\ Ended(proc, {p}, "killed")[p].parent \in {proc[p].parent, Nil}
              /\ proc[p].parent = Root => Ended(proc, {p}, "killed")[p].parent = Root
          BY <1>0, <5>1, WorkerEnded
        <5> QED BY <4>1, <5>2
      <4> QED BY <3>6, <4>2
    <3> QED BY <3>2, <3>3, <3>4, <3>5, <3>6
  <2> QED BY <2>1, <2>2
<1> QED BY <1>0, <1>2, <1>3 DEF FamilyInv, Known, Kin, Live, Asked, Running, Same

\* A step of a worker's leaves the launcher and the others as they are.
LEMMA FamilyWorker ==
  ASSUME IInv, Launching, NEW p \in Pids \ {Root}, proc[p].life = "live",
         \A q \in Pids \ {p} : proc'[q] = proc[q],
         proc'[p].parent \in {proc[p].parent, Nil},
         proc[p].parent = Root => proc'[p].parent = Root,
         UNCHANGED <<program, workers, told>>
  PROVE  FamilyInv'
<1>0. /\ proc \in [Pids -> Process] /\ Root \in Pids /\ FamilyInv /\ Kin /\ proc'[Root] = proc[Root]
      /\ ~AllGone
  BY FamilyFacts DEF IInv, AllGone, Live
<1> QED BY <1>0 DEF FamilyInv, Kin, Live, AllGone, Asked, Running

LEMMA FamilyStep ==
  ASSUME IInv, Next PROVE FamilyInv'
<1>0. UNCHANGED <<program, workers>>
  BY SettingSame DEF setting
<1> SUFFICES ASSUME Launching PROVE FamilyInv'
  BY <1>0 DEF FamilyInv, Launching
<1>1. /\ proc \in [Pids -> Process] /\ Root \in Pids /\ workers \in Nat /\ FamilyInv
      /\ proc[Root].parent = Nil /\ Kin /\ (Live(Root) => Known)
  BY FamilyFacts DEF IInv
<1>2. ASSUME NEW p \in Pids \ {Root}, NEW pc \in Places, Goto(p, pc), Live(p),
             UNCHANGED told
      PROVE  FamilyInv'
  BY <1>0, <1>1, <1>2, FamilyWorker DEF Goto, Process, Live
<1>3. CASE Signal
  BY <1>0, <1>3, FamilySignal
<1>4. CASE Fill
  <2>1. Live(Root) /\ Goto(Root, IF ~MayFork THEN "loop" ELSE "limit") /\ UNCHANGED told
    BY <1>4 DEF Fill, At
  <2>2. MayFork => workers > 0
    <3>1. proc[Root].children \in SUBSET Pids
      BY <1>1 DEF Process
    <3>2. IsFiniteSet(Pids)
      BY PidFacts, FS_Interval DEF Pids
    <3>3. Cardinality(proc[Root].children) \in Nat
      BY <3>1, <3>2, FS_Subset, FS_CardinalityType
    <3> QED BY <1>1, <3>3 DEF MayFork
  <2>3. CASE MayFork
    BY <1>0, <2>1, <2>2, <2>3, FamilyGoto DEF Places
  <2>4. CASE ~MayFork
    BY <1>0, <2>1, <2>4, FamilyGoto DEF Places
  <2> QED BY <2>3, <2>4
<1>5. CASE Limit
  <2>1. Live(Root) /\ workers > 0 /\ Goto(Root, IF TooFast THEN "sleep" ELSE "fork") /\ UNCHANGED told
    BY <1>1, <1>5 DEF Limit, At, FamilyInv, Asked
  <2>2. CASE TooFast
    BY <1>0, <2>1, <2>2, FamilyGoto DEF Places
  <2>3. CASE ~TooFast
    BY <1>0, <2>1, <2>3, FamilyGoto DEF Places
  <2> QED BY <2>2, <2>3
<1>6. CASE StartChild
  BY <1>0, <1>6, FamilyForks DEF StartChild
<1>7. CASE LauncherWait
  <2>1. Live(Root) /\ UNCHANGED told
    BY <1>7 DEF LauncherWait, At
  <2>2. CASE proc[Root].running
    BY <1>0, <1>7, <2>1, <2>2, FamilyWaits DEF LauncherWait, Places
  <2>3. CASE ~proc[Root].running
    BY <1>0, <1>7, <2>1, <2>3, FamilyGoto DEF LauncherWait, Places
  <2> QED BY <2>2, <2>3
<1>8. CASE LauncherKill
  BY <1>0, <1>8, FamilyTells DEF LauncherKill
<1>9. CASE LauncherReap
  <2>1. Live(Root) /\ UNCHANGED told /\ proc[Root].pc = "reap" /\ ~proc[Root].running
    BY <1>1, <1>9 DEF LauncherReap, At, FamilyInv
  <2>2. CASE proc[Root].children # {}
    BY <1>0, <1>9, <2>1, <2>2, FamilyWaits DEF LauncherReap, Places
  <2>3. CASE proc[Root].children = {}
    <3>1. proc' = Ended(proc, {Root}, "done")
      BY <1>9, <2>3 DEF LauncherReap, Exit
    <3>2. \A p \in Pids \ {Root} : proc[p].life = "none"
      BY <1>1, <2>1, <2>3 DEF Known
    <3>3. /\ proc'[Root] = [Nobody EXCEPT !.pc = "done"]
          /\ \A q \in Pids \ {Root} : proc'[q].parent = Nil /\ proc'[q].life \in {proc[q].life, "none"}
      BY <1>1, <3>1, LauncherEnded DEF Places
    <3>4. proc'[Root].parent = Nil /\ proc'[Root].life = "none"
      BY <3>3 DEF Nobody
    <3>5. told # "no"
      BY <1>1, <2>1 DEF FamilyInv, Running
    <3> QED BY <1>1, <2>1, <3>2, <3>3, <3>4, <3>5 DEF FamilyInv, Live, AllGone
  <2> QED BY <2>2, <2>3
<1>10. CASE Tick
  <2> DEFINE pc == IF proc[Root].pc = "sleep" THEN "fork" ELSE proc[Root].pc
  <2>1. Live(Root) /\ UNCHANGED told /\ proc' = [proc EXCEPT ![Root].pc = pc]
    BY <1>10 DEF Tick
  <2>2. pc \in Places
    BY <1>1 DEF Process, Places
  <2>3. /\ pc # "done" /\ (pc \in {"limit", "sleep", "fork"} => workers > 0)
        /\ (pc \in {"kill", "reap"} => ~proc[Root].running)
    BY <1>1, <2>1 DEF FamilyInv, Asked
  <2> HIDE DEF pc
  <2> QED BY <1>0, <2>1, <2>2, <2>3, FamilyGoto DEF Goto
<1>11. ASSUME NEW p \in Pids, Settle(p) PROVE FamilyInv'
  <2>1. p # Root /\ Live(p) /\ UNCHANGED told
        /\ proc' = [proc EXCEPT ![p].pc = "serve", ![p].term = "worker", ![p].pipe = FALSE]
    BY <1>11 DEF Settle, At
  <2>2. proc'[p].parent = proc[p].parent /\ \A q \in Pids \ {p} : proc'[q] = proc[q]
    BY <1>1, <2>1 DEF Process
  <2> QED BY <1>0, <2>1, <2>2, FamilyWorker DEF Live
<1>12. ASSUME NEW p \in Pids, PipeWatcher(p) \/ WorkerFails(p) PROVE FamilyInv'
  <2>1. p # Root /\ Live(p) /\ UNCHANGED told /\ Goto(p, "stop")
    BY <1>12 DEF PipeWatcher, WorkerFails, At
  <2> QED BY <1>2, <2>1 DEF Places
<1>13. ASSUME NEW p \in Pids, WorkerExit(p) PROVE FamilyInv'
  <2>1. p \in Pids \ {Root} /\ Live(p) /\ UNCHANGED told /\ proc' = Ended(proc, {p}, "done")
    BY <1>13 DEF WorkerExit, Exit, At
  <2>2. /\ proc'[p].parent \in {proc[p].parent, Nil}
        /\ proc[p].parent = Root => proc'[p].parent = Root
        /\ \A q \in Pids \ {p} : proc'[q] = proc[q]
    BY <1>1, <2>1, WorkerEnded DEF Places
  <2> QED BY <1>0, <2>1, <2>2, FamilyWorker DEF Live
<1> QED
  BY <1>3, <1>4, <1>5, <1>6, <1>7, <1>8, <1>9, <1>10, <1>11, <1>12, <1>13, StepOf
  DEF LauncherNext, LauncherStep, WorkerStep

(* The limit of forks. *)

LEMMA ListFacts ==
  ASSUME IInv, Launching
  PROVE  /\ workers \in Nat /\ forktimes \in Seq(0 .. workers) /\ recent \in Seq(0 .. workers - 1)
         /\ Len(forktimes) \in Nat /\ Len(recent) \in Nat
         /\ DOMAIN recent = 1 .. Len(recent) /\ DOMAIN forktimes = 1 .. Len(forktimes)
         /\ \A i \in 1 .. Len(recent) : recent[i] \in 0 .. workers - 1
         /\ \A i \in 1 .. Len(forktimes) : forktimes[i] \in 0 .. workers
         /\ ListInv /\ RateInv
BY DEF IInv, TypeInv, SettingInv, LimitInv

\* Forks a second apart, all in the last `workers` seconds: with the first
\* `workers` of them, which may come at once, no more than twice as many.
LEMMA SpacedBound ==
  ASSUME IInv, Launching, Spaced PROVE Len(recent) <= 2 * workers
<1>0. /\ workers \in Nat /\ Len(recent) \in Nat /\ DOMAIN recent = 1 .. Len(recent)
      /\ \A i \in 1 .. Len(recent) : recent[i] \in 0 .. workers - 1
  BY ListFacts
<1>1. CASE Len(recent) > workers
  <2> DEFINE n == Len(recent)
  <2>1. workers + 1 \in 1 .. n /\ n \in 1 .. n /\ workers < workers + 1 /\ workers + 1 <= n
    BY <1>0, <1>1
  <2>2. recent[n] + (n - (workers + 1)) <= recent[workers + 1]
    BY <1>0, <2>1 DEF Spaced
  <2>3. recent[n] >= 0 /\ recent[n] \in Int
        /\ recent[workers + 1] <= workers - 1 /\ recent[workers + 1] \in Int
    BY <1>0, <2>1
  <2> QED BY <1>0, <2>2, <2>3
<1> QED BY <1>0, <1>1

\* The lists as they were: what matters is where the launcher goes.
LEMMA LimitKept ==
  ASSUME IInv, Launching, UNCHANGED <<program, workers, forktimes, recent>>,
         Live(Root)' => Live(Root) /\ (Resumes' <=> Resumes),
         Running' => Running,
         Running' /\ proc'[Root].pc = "fork" => proc[Root].pc = "fork",
         ~Running /\ Live(Root)' /\ Asked' => Live(Root) /\ Asked
  PROVE  LimitInv'
<1>0. ListInv /\ RateInv /\ workers \in Nat /\ Len(recent) \in Nat
  BY ListFacts
<1>1. ListInv'
  BY <1>0 DEF ListInv, SameAges, Sorted
<1>2. RateInv'
  <2>1. CASE Running'
    BY <1>0, <2>1 DEF RateInv, Spaced
  <2>2. CASE ~Running' /\ Running
    <3>1. Len(recent) <= 2 * workers
      BY <1>0, <2>2, SpacedBound DEF RateInv
    <3> QED BY <1>0, <2>2, <3>1 DEF RateInv
  <2>3. CASE ~Running' /\ ~Running
    BY <1>0, <2>3 DEF RateInv
  <2> QED BY <2>1, <2>2, <2>3
<1> QED BY <1>1, <1>2 DEF LimitInv

\* The launcher looks at its list: when it does not sleep, no more than
\* `workers` forks are recent.
LEMMA LimitLooks ==
  ASSUME IInv, Limit, UNCHANGED <<program, workers>> PROVE LimitInv'
<1>0. /\ Launching /\ workers \in Nat /\ ListInv /\ RateInv
      /\ Len(forktimes) \in Nat /\ Len(recent) \in Nat
      /\ forktimes \in Seq(0 .. workers)
      /\ \A i \in 1 .. Len(recent) : recent[i] \in 0 .. workers - 1
  BY ListFacts DEF Limit
<1>1. /\ proc \in [Pids -> Process] /\ Root \in Pids /\ Live(Root) /\ proc[Root].pc = "limit"
      /\ Goto(Root, IF TooFast THEN "sleep" ELSE "fork") /\ UNCHANGED recent
  BY <1>0, FamilyFacts DEF Limit, At
<1>2. /\ proc'[Root].pc = IF TooFast THEN "sleep" ELSE "fork"
      /\ proc'[Root].life = proc[Root].life /\ proc'[Root].running = proc[Root].running
  BY <1>1 DEF Goto, Process
<1>3. (Live(Root)' /\ Resumes') /\ (Running' <=> Running) /\ Asked /\ ~Resumes
  BY <1>1, <1>2 DEF Live, Resumes, Running, Asked
<1>4. CASE Len(forktimes) > workers
  <2>1. forktimes' = Tail(forktimes) /\ Len(forktimes) = workers + 1 /\ Len(forktimes) > 0
    BY <1>0, <1>4 DEF Limit, ListInv
  <2>2. /\ Len(forktimes') = workers
        /\ \A i \in 1 .. workers : forktimes'[i] = forktimes[i + 1]
    BY <1>0, <2>1, Tailed
  <2>3. SameAges'
    <3> SUFFICES ASSUME NEW k \in 0 .. workers, k < workers, k < Len(recent)
                 PROVE  forktimes'[workers - k] = recent[Len(recent) - k]
      BY <1>1, <2>2 DEF SameAges
    <3>1. forktimes[workers + 1 - k] = recent[Len(recent) - k]
      BY <1>0, <2>1 DEF ListInv, SameAges
    <3>2. workers - k \in 1 .. workers /\ workers - k + 1 = workers + 1 - k
      BY <1>0
    <3> QED BY <2>2, <3>1, <3>2
  <2>4. ListInv'
    BY <1>0, <1>1, <1>3, <2>2, <2>3 DEF ListInv, Sorted
  <2>5. ASSUME proc'[Root].pc = "fork" PROVE Len(recent) <= workers
    <3>1. ~TooFast
      BY <1>2, <2>5
    <3>2. ~(forktimes[1] < workers)
      BY <1>4, <3>1 DEF TooFast
    <3>3. Len(recent) > workers => forktimes[1] = recent[Len(recent) - workers]
                                   /\ Len(recent) - workers \in 1 .. Len(recent)
      BY <1>0, <2>1 DEF ListInv, SameAges
    <3> QED BY <1>0, <3>2, <3>3
  <2>6. RateInv'
    <3>1. CASE Running
      BY <1>0, <1>1, <1>2, <1>3, <2>5, <3>1 DEF RateInv, Spaced
    <3>2. CASE ~Running
      BY <1>0, <1>1, <1>3, <3>2 DEF RateInv
    <3> QED BY <3>1, <3>2
  <2> QED BY <2>4, <2>6 DEF LimitInv
<1>5. CASE ~(Len(forktimes) > workers)
  <2>1. forktimes' = forktimes /\ Len(recent) <= workers
    BY <1>0, <1>1, <1>3, <1>5 DEF Limit, ListInv
  <2>2. ListInv'
    BY <1>0, <1>1, <1>3, <1>5, <2>1 DEF ListInv, SameAges, Sorted
  <2>3. RateInv'
    <3>1. CASE Running
      BY <1>0, <1>1, <1>2, <1>3, <2>1, <3>1 DEF RateInv, Spaced
    <3>2. CASE ~Running
      BY <1>0, <1>1, <1>3, <3>2 DEF RateInv
    <3> QED BY <3>1, <3>2
  <2> QED BY <2>2, <2>3 DEF LimitInv
<1> QED BY <1>4, <1>5

\* A fork comes after at most `workers` recent ones, or a second after the last.
LEMMA LimitForks ==
  ASSUME IInv, StartChild, UNCHANGED <<program, workers>> PROVE LimitInv'
<1>0. /\ Launching /\ workers \in Nat /\ ListInv /\ RateInv
      /\ Len(forktimes) \in Nat /\ Len(recent) \in Nat /\ DOMAIN recent = 1 .. Len(recent)
      /\ forktimes \in Seq(0 .. workers) /\ recent \in Seq(0 .. workers - 1)
      /\ \A i \in 1 .. Len(recent) : recent[i] \in 0 .. workers - 1
  BY ListFacts DEF StartChild
<1>1. /\ proc \in [Pids -> Process] /\ Root \in Pids /\ Live(Root) /\ proc[Root].pc = "fork"
      /\ proc' = Forked(Root, "fill", "none") /\ ~NoPid
  BY <1>0, FamilyFacts DEF StartChild, At
<1>2. Same(proc'[Root], proc[Root]) /\ proc'[Root].pc = "fill"
  BY <1>1, ForkedFacts DEF Places
<1>3. Live(Root)' /\ ~Resumes' /\ ~Asked' /\ (Running' <=> Running) /\ Asked /\ Resumes
  BY <1>1, <1>2 DEF Live, Resumes, Running, Asked, Same
<1> DEFINE n == Len(recent)
           l == Len(forktimes)
<1>4. /\ Len(recent') = n + 1 /\ DOMAIN recent' = 1 .. n + 1
      /\ recent'[n + 1] = 0 /\ \A i \in 1 .. n : recent'[i] = recent[i]
  BY <1>0 DEF StartChild
<1>5. /\ Len(forktimes') = l + 1
      /\ forktimes'[l + 1] = 0 /\ \A i \in 1 .. l : forktimes'[i] = forktimes[i]
  BY <1>0 DEF StartChild
<1> HIDE DEF n, l
<1>6. n \in Nat /\ l \in Nat /\ DOMAIN recent = 1 .. n /\ l <= workers
  BY <1>0, <1>1, <1>3 DEF n, l, ListInv
<1>7. SameAges'
  <2>0. Len(forktimes') = l + 1 /\ Len(recent') = n + 1 /\ workers' = workers
    BY <1>4, <1>5
  <2> SUFFICES ASSUME NEW k \in 0 .. workers, k < l + 1, k < n + 1
               PROVE  forktimes'[l + 1 - k] = recent'[n + 1 - k]
    BY <1>6, <2>0 DEF SameAges
  <2>1. CASE k = 0
    BY <1>4, <1>5, <1>6, <2>1
  <2>2. CASE k # 0
    <3>1. k - 1 \in 0 .. workers /\ k - 1 < l /\ k - 1 < n
      BY <1>0, <1>6, <2>2
    <3>2. forktimes[l - (k - 1)] = recent[n - (k - 1)]
      BY <1>0, <3>1 DEF ListInv, SameAges, n, l
    <3>3. /\ l + 1 - k = l - (k - 1) /\ n + 1 - k = n - (k - 1)
          /\ l + 1 - k \in 1 .. l /\ n + 1 - k \in 1 .. n
      BY <1>6, <3>1
    <3> QED BY <1>4, <1>5, <3>2, <3>3
  <2> QED BY <2>1, <2>2
<1>8. Sorted'
  <2> SUFFICES ASSUME NEW i \in 1 .. n + 1, NEW j \in 1 .. n + 1, i <= j
               PROVE  recent'[j] <= recent'[i]
    BY <1>4 DEF Sorted
  <2>1. CASE j = n + 1
    BY <1>0, <1>4, <1>6, <2>1 DEF n
  <2>2. CASE j # n + 1
    <3>1. i \in 1 .. n /\ j \in 1 .. n
      BY <1>6, <2>2
    <3>2. recent[j] <= recent[i]
      BY <1>0, <1>6, <3>1 DEF ListInv, Sorted
    <3> QED BY <1>4, <3>1, <3>2
  <2> QED BY <2>1, <2>2
<1>9. ListInv'
  BY <1>0, <1>3, <1>4, <1>5, <1>6, <1>7, <1>8 DEF ListInv, n, l
<1>10. CASE Running
  <2>1. Spaced /\ (n > workers => recent[n] > 0)
    BY <1>0, <1>1, <1>10 DEF RateInv, n
  <2>2. Spaced'
    <3> SUFFICES ASSUME NEW i \in 1 .. n + 1, NEW j \in 1 .. n + 1, workers < i, i <= j
                 PROVE  recent'[j] + (j - i) <= recent'[i]
      BY <1>4 DEF Spaced
    <3>1. CASE j # n + 1
      <4>1. i \in 1 .. n /\ j \in 1 .. n
        BY <1>6, <3>1
      <4>2. recent[j] + (j - i) <= recent[i]
        BY <1>6, <2>1, <4>1 DEF Spaced
      <4> QED BY <1>4, <4>1, <4>2
    <3>2. CASE i = n + 1
      BY <1>4, <1>6, <3>2
    <3>3. CASE j = n + 1 /\ i # n + 1
      <4>1. i \in 1 .. n /\ n \in 1 .. n /\ n > workers
        BY <1>0, <1>6, <3>3
      <4>2. recent[n] + (n - i) <= recent[i] /\ recent[n] > 0
        BY <1>6, <2>1, <4>1 DEF Spaced
      <4>3. recent[n] \in Int /\ recent[i] \in Int
        BY <1>0, <4>1 DEF n
      <4> QED BY <1>4, <1>6, <3>3, <4>1, <4>2, <4>3
    <3> QED BY <3>1, <3>2, <3>3
  <2>3. proc'[Root].pc # "fork"
    BY <1>2
  <2> QED BY <1>3, <1>9, <1>10, <2>2, <2>3 DEF LimitInv, RateInv
<1>11. CASE ~Running
  <2>1. n <= 2 * workers
    BY <1>0, <1>1, <1>3, <1>11 DEF RateInv, n
  <2> QED BY <1>0, <1>3, <1>4, <1>6, <1>9, <1>11, <2>1 DEF LimitInv, RateInv
<1> QED BY <1>10, <1>11

\* A second passes: all forks are a second older, and the oldest are not
\* recent any more.
LEMMA LimitTicks ==
  ASSUME IInv, Tick, UNCHANGED <<program, workers>> PROVE LimitInv'
<1>0. /\ Launching /\ workers \in Nat /\ ListInv /\ RateInv
      /\ Len(forktimes) \in Nat /\ Len(recent) \in Nat /\ DOMAIN recent = 1 .. Len(recent)
      /\ forktimes \in Seq(0 .. workers)
      /\ \A i \in 1 .. Len(recent) : recent[i] \in 0 .. workers - 1
      /\ \A i \in 1 .. Len(forktimes) : forktimes[i] \in 0 .. workers
  BY ListFacts DEF Tick
<1>1. /\ proc \in [Pids -> Process] /\ Root \in Pids /\ Live(Root) /\ proc[Root].pc # "fork"
      /\ proc' = [proc EXCEPT ![Root].pc = IF @ = "sleep" THEN "fork" ELSE @]
  BY <1>0, FamilyFacts DEF Tick
<1>2. /\ proc'[Root].pc = IF proc[Root].pc = "sleep" THEN "fork" ELSE proc[Root].pc
      /\ proc'[Root].life = proc[Root].life /\ proc'[Root].running = proc[Root].running
  BY <1>1 DEF Process
<1>3. Live(Root)' /\ (Running' <=> Running) /\ (Resumes' <=> Resumes) /\ (Asked' <=> Asked)
  BY <1>1, <1>2 DEF Live, Resumes, Running, Asked
<1> DEFINE n == Len(recent)
           l == Len(forktimes)
<1>4. PICK k \in 0 .. n :
         /\ recent' \in Seq(0 .. workers - 1) /\ Len(recent') = n - k
         /\ \A i \in 1 .. n - k : recent'[i] = recent[i + k] + 1
         /\ \A i \in 1 .. k : recent[i] = workers - 1
  BY RecentFacts DEF IInv
<1>5. /\ Len(forktimes') = l
      /\ \A i \in 1 .. l : forktimes'[i] = IF forktimes[i] < workers THEN forktimes[i] + 1 ELSE forktimes[i]
  <2>1. forktimes' = Older(forktimes)
    BY DEF Tick, Older
  <2> QED BY <1>0, <2>1, OlderFacts
<1> HIDE DEF n, l
<1>6. /\ n \in Nat /\ l \in Nat /\ DOMAIN recent = 1 .. n /\ DOMAIN recent' = 1 .. n - k
      /\ \A i \in 1 .. n : recent[i] \in 0 .. workers - 1
  BY <1>0, <1>4 DEF n, l
<1>7. SameAges'
  <2>0. Len(forktimes') = l /\ Len(recent') = n - k /\ workers' = workers
    BY <1>4, <1>5
  <2> SUFFICES ASSUME NEW x \in 0 .. workers, x < l, x < n - k
               PROVE  forktimes'[l - x] = recent'[n - k - x]
    BY <2>0 DEF SameAges
  <2>1. /\ n - k - x \in 1 .. n - k /\ n - k - x + k = n - x /\ n - x \in 1 .. n
        /\ l - x \in 1 .. l /\ x < n
    BY <1>6
  <2>2. recent'[n - k - x] = recent[n - x] + 1
    BY <1>4, <2>1
  <2>3. forktimes[l - x] = recent[n - x]
    BY <1>0, <2>1 DEF ListInv, SameAges, n, l
  <2>4. recent[n - x] < workers
    BY <1>0, <1>6, <2>1
  <2> QED BY <1>5, <2>1, <2>2, <2>3, <2>4
<1>8. Sorted'
  <2> SUFFICES ASSUME NEW i \in 1 .. n - k, NEW j \in 1 .. n - k, i <= j
               PROVE  recent'[j] <= recent'[i]
    BY <1>6 DEF Sorted
  <2>1. i + k \in 1 .. n /\ j + k \in 1 .. n /\ i + k <= j + k
    BY <1>6
  <2>2. recent[j + k] <= recent[i + k]
    BY <1>0, <1>6, <2>1 DEF ListInv, Sorted
  <2> QED BY <1>4, <1>6, <2>1, <2>2
<1>9. ListInv'
  <2>1. Len(recent') <= n /\ Len(forktimes') = l /\ workers' = workers
    BY <1>4, <1>5, <1>6
  <2>2. /\ l <= workers + 1
        /\ l < workers => n <= l
        /\ Live(Root) /\ Resumes => l <= workers
        /\ Live(Root) /\ ~Resumes /\ l = workers => n <= workers
    BY <1>0 DEF ListInv, n, l
  <2>3. Len(recent') \in Nat
    BY <1>4, <1>6
  <2> QED BY <1>0, <1>1, <1>3, <1>6, <1>7, <1>8, <2>1, <2>2, <2>3 DEF ListInv
<1>10. CASE Running
  <2>1. Spaced
    BY <1>0, <1>10 DEF RateInv
  <2>2. Spaced'
    <3> SUFFICES ASSUME NEW i \in 1 .. n - k, NEW j \in 1 .. n - k, workers < i, i <= j
                 PROVE  recent'[j] + (j - i) <= recent'[i]
      BY <1>6 DEF Spaced
    <3>1. /\ i + k \in 1 .. n /\ j + k \in 1 .. n /\ i + k <= j + k /\ workers < i + k
          /\ (j + k) - (i + k) = j - i
      BY <1>0, <1>6
    <3>2. recent[j + k] + ((j + k) - (i + k)) <= recent[i + k]
      BY <1>6, <2>1, <3>1 DEF Spaced
    <3>3. /\ recent'[i] = recent[i + k] + 1 /\ recent'[j] = recent[j + k] + 1
          /\ recent[i + k] \in Nat /\ recent[j + k] \in Nat
      <4>1. recent[i + k] \in 0 .. workers - 1 /\ recent[j + k] \in 0 .. workers - 1
        BY <1>6, <3>1
      <4>2. recent'[i] = recent[i + k] + 1 /\ recent'[j] = recent[j + k] + 1
        BY <1>4
      <4> QED BY <4>1, <4>2
    <3>4. \A a, b \in Nat : \A d \in Int : b + d <= a => (b + 1) + d <= a + 1
      OBVIOUS
    <3>5. recent[j + k] + (j - i) <= recent[i + k] /\ j - i \in Int
      BY <3>1, <3>2
    <3> QED BY <3>3, <3>4, <3>5
  <2>3. Len(recent') > workers => recent'[Len(recent')] > 0
    <3> SUFFICES ASSUME n - k > workers PROVE recent'[n - k] > 0
      BY <1>4
    <3>1. n - k \in 1 .. n - k /\ n - k + k = n /\ n \in 1 .. n
      BY <1>0, <1>6
    <3> QED BY <1>4, <1>6, <3>1
  <2> QED BY <1>3, <1>9, <1>10, <2>2, <2>3 DEF LimitInv, RateInv
<1>11. CASE ~Running
  <2>1. n <= 2 * workers + (IF Live(Root) /\ Asked THEN 0 ELSE 1)
    BY <1>0, <1>11 DEF RateInv, n
  <2> QED BY <1>0, <1>1, <1>3, <1>4, <1>6, <1>9, <1>11, <2>1 DEF LimitInv, RateInv
<1> QED BY <1>10, <1>11

LEMMA LimitStep ==
  ASSUME IInv, Next PROVE LimitInv'
<1>0. UNCHANGED <<program, workers>>
  BY SettingSame DEF setting
<1> SUFFICES ASSUME Launching PROVE LimitInv'
  BY <1>0 DEF LimitInv, Launching
<1>1. /\ proc \in [Pids -> Process] /\ Root \in Pids /\ workers \in Nat /\ FamilyInv
      /\ proc[Root].parent = Nil /\ Kin /\ proc[Root].term \in {"own", "default"}
  BY FamilyFacts DEF IInv
\* A step of a worker's is none of the launcher's.
<1>2. ASSUME proc'[Root] = proc[Root], UNCHANGED launcherVars PROVE LimitInv'
  BY <1>0, <1>2, LimitKept DEF Live, Resumes, Running, Asked, launcherVars
\* Nor does it matter where else the launcher goes, as long as it goes on running.
<1>3. ASSUME Live(Root), ~Resumes, proc'[Root].pc \notin {"sleep", "fork"},
             proc'[Root].running = proc[Root].running,
             proc'[Root].pc = "limit" => proc[Root].running,
             UNCHANGED launcherVars
      PROVE  LimitInv'
  BY <1>0, <1>3, LimitKept DEF Live, Resumes, Running, Asked, launcherVars
<1>4. ASSUME ~Live(Root)', UNCHANGED launcherVars PROVE LimitInv'
  BY <1>0, <1>4, LimitKept DEF Running, launcherVars
<1>5. ASSUME NEW pc \in Places, Goto(Root, pc)
      PROVE  proc'[Root].pc = pc /\ proc'[Root].running = proc[Root].running
  BY <1>1, <1>5 DEF Goto, Process
<1>6. ASSUME Live(Root), NEW pc \in Places, WaitChild(pc)
      PROVE  proc'[Root].pc = pc /\ proc'[Root].running = proc[Root].running
  <2>1. PICK q \in Zombies(Root) : proc' = Reaped(Root, q, pc)
    BY <1>6 DEF WaitChild
  <2>2. Same(proc'[Root], proc[Root]) /\ proc'[Root].pc = pc
    BY <1>1, <1>6, <2>1, ReapedFacts
  <2> QED BY <2>2 DEF Same
<1>7. CASE Signal
  <2>1. proc' = LauncherTerm(proc, Root) /\ Live(Root) /\ UNCHANGED launcherVars
    BY <1>7 DEF Signal, Engine, Launching, Serving, IInv, TypeInv, SettingInv
  <2>2. CASE proc[Root].term = "own"
    <3>1. proc' = LauncherTakes(proc, Root)
      BY <2>1, <2>2 DEF LauncherTerm, Live
    <3>2. /\ proc'[Root].life = proc[Root].life /\ proc'[Root].running = FALSE
          /\ proc'[Root].pc = IF proc[Root].pc = "sleep" THEN "fork" ELSE proc[Root].pc
      BY <1>1, <3>1, Taken
    <3> QED BY <1>0, <2>1, <3>2, LimitKept DEF Live, Resumes, Running, Asked, launcherVars
  <2>3. CASE proc[Root].term = "default"
    <3>1. proc' = Ended(proc, {Root}, "killed")
      BY <2>1, <2>3 DEF LauncherTerm, Live
    <3>2. proc'[Root] = [Nobody EXCEPT !.pc = "killed"]
      BY <1>1, <3>1, LauncherEnded DEF Places
    <3> QED BY <1>4, <2>1, <3>2 DEF Live, Nobody
  <2> QED BY <1>1, <2>2, <2>3
<1>8. CASE Fill
  <2>1. Live(Root) /\ ~Resumes /\ UNCHANGED launcherVars
    BY <1>8 DEF Fill, At, Resumes
  <2>2. CASE MayFork
    <3>1. Goto(Root, "limit") /\ proc[Root].running
      BY <1>8, <2>2 DEF Fill, MayFork
    <3> QED BY <1>3, <1>5, <2>1, <3>1 DEF Places
  <2>3. CASE ~MayFork
    <3>1. Goto(Root, "loop")
      BY <1>8, <2>3 DEF Fill
    <3> QED BY <1>3, <1>5, <2>1, <3>1 DEF Places
  <2> QED BY <2>2, <2>3
<1>9. CASE Limit
  BY <1>0, <1>9, LimitLooks
<1>10. CASE StartChild
  BY <1>0, <1>10, LimitForks
<1>11. CASE LauncherWait
  <2>1. Live(Root) /\ ~Resumes /\ UNCHANGED launcherVars
    BY <1>11 DEF LauncherWait, At, Resumes
  <2>2. WaitChild("fill") \/ Goto(Root, "kill")
    BY <1>11 DEF LauncherWait
  <2> QED BY <1>3, <1>5, <1>6, <2>1, <2>2 DEF Places
<1>12. CASE LauncherKill
  <2>1. Live(Root) /\ ~Resumes /\ UNCHANGED launcherVars
        /\ proc'[Root] = [proc[Root] EXCEPT !.pc = "reap"]
    BY <1>1, <1>12 DEF LauncherKill, At, Resumes
  <2>2. proc'[Root].pc = "reap" /\ proc'[Root].running = proc[Root].running
    <3>1. proc[Root] \in Process
      BY <1>1
    <3> QED BY <2>1, <3>1 DEF Process
  <2> QED BY <1>3, <2>1, <2>2
<1>13. CASE LauncherReap
  <2>1. Live(Root) /\ ~Resumes /\ UNCHANGED launcherVars
    BY <1>13 DEF LauncherReap, At, Resumes
  <2>2. CASE WaitChild("reap")
    BY <1>3, <1>6, <2>1, <2>2 DEF Places
  <2>3. CASE Exit(Root, "done")
    <3>1. proc'[Root] = [Nobody EXCEPT !.pc = "done"]
      BY <1>1, <2>3, LauncherEnded DEF Exit, Places
    <3> QED BY <1>4, <2>1, <3>1 DEF Live, Nobody
  <2> QED BY <1>13, <2>2, <2>3 DEF LauncherReap
<1>14. CASE Tick
  BY <1>0, <1>14, LimitTicks
<1>15. ASSUME NEW p \in Pids, Settle(p) \/ PipeWatcher(p) \/ WorkerFails(p) PROVE LimitInv'
  <2>1. p # Root /\ UNCHANGED launcherVars /\ proc'[Root] = proc[Root]
    BY <1>1, <1>15 DEF Settle, PipeWatcher, WorkerFails, Goto
  <2> QED BY <1>2, <2>1
<1>16. ASSUME NEW p \in Pids, WorkerExit(p) PROVE LimitInv'
  <2>1. p \in Pids \ {Root} /\ UNCHANGED launcherVars /\ proc' = Ended(proc, {p}, "done")
    BY <1>16 DEF WorkerExit, Exit
  <2>2. proc'[Root] = proc[Root]
    <3>1. \A q \in Pids \ {p} : Ended(proc, {p}, "done")[q] = proc[q]
      BY <1>1, <2>1, WorkerEnded DEF Places
    <3> QED BY <1>1, <2>1, <3>1
  <2> QED BY <1>2, <2>1, <2>2
<1> QED
  BY <1>7, <1>8, <1>9, <1>10, <1>11, <1>12, <1>13, <1>14, <1>15, <1>16, StepOf
  DEF LauncherNext, LauncherStep, WorkerStep

(* The invariant, and what follows from it. *)

LEMMA InitInv ==
  ASSUME Init PROVE IInv
<1>1. PICK a \in Settings :
         /\ program = a.program /\ workers = a.workers /\ timers = a.timers
         /\ signals = a.signals /\ failures = a.failures /\ ServerInit(a.busy)
  BY DEF Init
<1>2. /\ program \in {"engine", "workers", "api"} /\ workers \in Nat /\ timers \in Seq(BOOLEAN)
      /\ signals \in Seq({"TERM", "HUP"}) /\ failures \in Nat
  BY <1>1, ProcessesAssumption
<1>3. failed = 0 /\ told = "no" /\ forktimes = <<>> /\ recent = <<>>
  BY DEF Init, LauncherInit
<1>4. /\ service = [s \in Services |-> "new"] /\ task = [s \in Services |-> "none"]
      /\ threads = [s \in Services |-> s] /\ next = 1 /\ awaited = 0
  BY DEF Init, GroupInit
<1>5. /\ Len(timers) \in Nat /\ Services = 1 .. Len(timers)
      /\ threads \in Seq(Services) /\ Len(threads) = Len(timers)
      /\ DOMAIN threads = Services /\ \A i \in Services : threads[i] = i
  BY <1>2, <1>4 DEF Services
<1>6. EngineProcess \in Process /\ Launcher \in Process /\ ServerProcess \in Process
  <2>0. Nobody \in Process /\ {"await", "fill", "bind"} \subseteq Places
    BY PidFacts DEF Places
  <2>1. EngineProcess \in Process
    BY <2>0 DEF EngineProcess, Process
  <2>2. Launcher \in Process
    BY <2>0 DEF Launcher, Process
  <2>3. ServerProcess \in Process
    BY <2>0 DEF ServerProcess, Process
  <2> QED BY <2>1, <2>2, <2>3
<1>7. /\ Engine => proc[Root] = EngineProcess
      /\ Launching => proc[Root] = Launcher
      /\ Serving => proc[Root] = ServerProcess
      /\ \A p \in Pids \ {Root} : proc[p] = Nobody
  BY <1>2, PidFacts DEF Init, Engine, Launching, Serving
<1>8. proc \in [Pids -> Process]
  <2>1. proc = [p \in Pids |-> IF p # Root THEN Nobody
                              ELSE CASE Engine    -> EngineProcess
                                     [] Launching -> Launcher
                                     [] Serving   -> ServerProcess]
    BY DEF Init
  <2>2. \A p \in Pids : proc[p] \in Process
    BY <1>2, <1>6, <1>7, PidFacts DEF Engine, Launching, Serving
  <2> QED BY <2>1, <2>2
<1>9. TypeInv
  <2>1. port \in {"busy", "free", "ours"} /\ shut \in BOOLEAN
    BY <1>1 DEF ServerInit
  <2>2. forktimes \in Seq(0 .. workers) /\ recent \in Seq(0 .. workers - 1)
    BY <1>3
  <2>3. SettingInv
    BY <1>2, <1>3 DEF SettingInv
  <2>4. GroupTypeInv
    BY <1>4, <1>5 DEF GroupTypeInv
  <2> QED BY <1>8, <2>1, <2>2, <2>3, <2>4 DEF TypeInv
<1>10. ModeInv
  <2>1. Nobody.term = "default" /\ Launcher.term = "own" /\ ServerProcess.term = "default"
    BY DEF Launcher, ServerProcess, Nobody
  <2>2. Launching => \A p \in Pids : proc[p].term \in {"own", "default"}
    BY <1>7, <2>1
  <2>3. Serving => \A p \in Pids : proc[p].term = "default"
    BY <1>7, <2>1
  <2> QED BY <1>3, <2>2, <2>3, PidFacts DEF ModeInv
<1>11. GroupInv
  <2>1. Once /\ Listed
    BY <1>4, <1>5 DEF Once, Listed
  <2>2. Engine => proc[Root].pc = "await"
    BY <1>7 DEF EngineProcess, Nobody
  <2> QED BY <1>4, <1>5, <2>1, <2>2 DEF GroupInv, At
<1>12. FamilyInv
  <2> SUFFICES ASSUME Launching PROVE FamilyInv
    BY DEF FamilyInv
  <2>1. /\ proc[Root].parent = Nil /\ proc[Root].life = "live" /\ proc[Root].running = TRUE
        /\ proc[Root].pc = "fill" /\ proc[Root].children = {}
    BY <1>7 DEF Launcher, Nobody
  <2>2. \A p \in Pids \ {Root} : proc[p].parent = Nil /\ proc[p].life = "none"
    BY <1>7 DEF Nobody
  <2> QED BY <2>1, <2>2 DEF FamilyInv, Live, Running, Asked
<1>13. LimitInv
  <2> SUFFICES ASSUME Launching PROVE LimitInv
    BY DEF LimitInv
  <2>1. Len(forktimes) = 0 /\ Len(recent) = 0
    BY <1>3
  <2>2. DOMAIN recent = {}
    BY <1>3
  <2>3. Live(Root) /\ proc[Root].pc = "fill"
    BY <1>7 DEF Launcher, Nobody, Live
  <2>4. ListInv
    BY <1>2, <2>1, <2>2, <2>3 DEF ListInv, SameAges, Sorted, Resumes
  <2>5. RateInv
    BY <1>2, <2>1, <2>2, <2>3 DEF RateInv, Spaced
  <2> QED BY <2>4, <2>5 DEF LimitInv
<1> QED BY <1>9, <1>10, <1>11, <1>12, <1>13 DEF IInv

LEMMA StutterInv ==
  ASSUME IInv, UNCHANGED vars PROVE IInv'
<1>1. /\ UNCHANGED <<program, workers, timers, failures, signals, failed, told, proc>>
      /\ UNCHANGED <<service, task, threads, next, awaited, forktimes, recent, port, shut>>
  BY DEF vars, osVars, setting, groupVars, launcherVars, serverVars
<1>2. TypeInv'
  BY <1>1 DEF IInv, TypeInv, SettingInv, GroupTypeInv, Services
<1>3. ModeInv'
  BY <1>1 DEF IInv, ModeInv, Launching, Serving
<1>4. GroupInv'
  BY <1>1 DEF IInv, GroupInv, Engine, Once, Listed, Services, Waiting, At, Live
<1>5. FamilyInv'
  BY <1>1 DEF IInv, FamilyInv, Launching, Live, AllGone, Asked, Running
<1>6. LimitInv'
  BY <1>1 DEF IInv, LimitInv, ListInv, RateInv, SameAges, Sorted, Spaced, Launching, Live,
              Asked, Resumes, Running
<1> QED BY <1>2, <1>3, <1>4, <1>5, <1>6 DEF IInv

LEMMA NextInv ==
  ASSUME IInv, [Next]_vars PROVE IInv'
<1>1. CASE Next
  BY <1>1, TypeStep, ModeStep, GroupStep, FamilyStep, LimitStep DEF IInv
<1>2. CASE UNCHANGED vars
  BY <1>2, StutterInv
<1> QED BY <1>1, <1>2

LEMMA Inductive == Spec => []IInv
BY InitInv, NextInv, PTL DEF Spec

\* Every process, list and mode is one the code distinguishes, and the list of
\* forks (service.py:195-206) keeps no more than workers + 1 of them.
THEOREM ProgramsTypeCorrect == Spec => []TypeOK
<1>1. ASSUME IInv PROVE TypeOK
  <2>1. Len(forktimes) <= workers + 1
    <3>1. CASE Launching
      BY <1>1, <3>1, ListFacts DEF ListInv
    <3>2. CASE ~Launching
      BY <1>1, <3>2 DEF IInv, ModeInv, TypeInv, SettingInv
    <3> QED BY <3>1, <3>2
  <2> QED BY <1>1, <2>1 DEF IInv, TypeInv, SettingInv, GroupTypeInv, TypeOK
<1> QED BY <1>1, Inductive, PTL

\* When ProcessLauncher.wait returns (service.py:303-307), none of the
\* processes it forked is left, for any number of workers that end or are
\* being forked when the signals come.
THEOREM NobodyIsLeft == Spec => []LauncherLeavesNobody
<1>1. ASSUME IInv PROVE LauncherLeavesNobody
  BY <1>1 DEF IInv, FamilyInv, LauncherLeavesNobody
<1> QED BY <1>1, Inductive, PTL

\* _start_child's limit (service.py:195-206): at most 2 * workers forks in
\* `workers` seconds, and one more when a signal cuts its last sleep short.
THEOREM ForksAreLimited == Spec => []ForkRate
<1>1. ASSUME IInv PROVE ForkRate
  <2>1. CASE Launching
    <3>1. workers \in Nat /\ Len(recent) \in Nat /\ RateInv
      BY <1>1, <2>1, ListFacts
    <3>2. CASE Running
      <4>1. Len(recent) <= 2 * workers
        BY <1>1, <2>1, <3>1, <3>2, SpacedBound DEF RateInv
      <4> QED BY <3>1, <4>1 DEF ForkRate
    <3>3. CASE ~Running
      <4>1. told # "no"
        BY <1>1, <2>1, <3>3 DEF IInv, FamilyInv
      <4> QED BY <3>1, <3>3, <4>1 DEF ForkRate, RateInv
    <3> QED BY <3>2, <3>3
  <2>2. CASE ~Launching
    BY <1>1, <2>2 DEF IInv, ModeInv, TypeInv, SettingInv, ForkRate
  <2> QED BY <2>1, <2>2
<1> QED BY <1>1, Inductive, PTL

\* ThreadGroup.wait and stop go over a list that gets shorter
\* (threadgroup.py:88-95 and 113-121); of any number of services they miss at
\* most every second one, whatever ends and fails meanwhile: wait unless a
\* signal or a SystemExit cut it short, stop whenever it has returned.
THEOREM HalfIsMissed == Spec => []MissesAtMostHalf
<1>1. ASSUME IInv PROVE MissesAtMostHalf
  <2> SUFFICES ASSUME Engine, (At(Root, "stop") /\ told = "no") \/ proc[Root].pc = "done"
               PROVE  2 * Unfinished <= Len(timers)
    BY DEF MissesAtMostHalf
  <2>1. Listed /\ 2 * Len(threads) <= Len(timers)
    BY <1>1 DEF IInv, GroupInv
  <2>2. Unfinished <= Len(threads) /\ Unfinished \in Nat
    BY <1>1, <2>1, UnfinishedCount DEF IInv
  <2>3. Len(threads) \in Nat /\ Len(timers) \in Nat
    BY <1>1 DEF IInv, TypeInv, SettingInv, GroupTypeInv
  <2> QED BY <2>1, <2>2, <2>3
<1> QED BY <1>1, Inductive, PTL
=============================================================================
