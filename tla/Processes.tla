------------------------------- MODULE Processes -------------------------------
(***************************************************************************)
(* The processes of one program of rushstack, as the operating system has  *)
(* them: fork, exit, signals, and a parent's waiting for its children.     *)
(* ServiceLauncher, ProcessLauncher and WsgiServer say what the three      *)
(* kinds of programs do with that; Programs puts them together.            *)
(*                                                                         *)
(* A forked process begins as a copy of its parent's memory and of its     *)
(* signal handlers.  Python runs a handler between two steps of the        *)
(* process, so a signal is handled where it is sent.                       *)
(***************************************************************************)
EXTENDS Naturals, Sequences, FiniteSets, SequencesExt

CONSTANTS
    MaxPid,    \* bound: the processes there may be at once
    Settings   \* the programs, signals and failures of this instance

Root == 0      \* the process the operator starts
Nil  == MaxPid + 1
Pids == 0 .. MaxPid

ASSUME ProcessesAssumption ==
    /\ MaxPid \in Nat
    /\ Settings \subseteq [program : {"engine", "workers", "api"}, workers : Nat,
                           timers : Seq(BOOLEAN), signals : Seq({"TERM", "HUP"}),
                           failures : Nat, busy : BOOLEAN]

VARIABLES
    program,    \* "engine", "workers" (with ProcessLauncher) or "api"
    workers,    \* how many children it is to have
    timers,     \* for each service of an engine: has it a looping call?
    signals,    \* what the operator still sends the root process, in this order
    failures,   \* bound: how many workers, services or tasks may fail
    failed,     \* how many have
    told,       \* the first signal sent: "no", "HUP", and for a TERM "late" once
                \* the program had started, else "early"; before any signal,
                \* "exit" when a SystemExit told an engine's main thread
    proc        \* the processes

setting == <<program, workers, timers, failures>>
osVars  == <<setting, signals, failed, told, proc>>

(* A process: who forked it, where it is, where run_child returns to, its  *)
(* copies of running and children, what it does with SIGTERM and SIGHUP,   *)
(* whether it holds the write end of the launcher's pipe, and (a history)  *)
(* whether a handler of its parent's took its SIGTERM.                     *)
Nobody == [life |-> "none", parent |-> Nil, pc |-> "none", back |-> "none", running |-> FALSE,
           children |-> {}, term |-> "default", hup |-> "default", pipe |-> FALSE, deaf |-> FALSE]

Live(p)    == proc[p].life = "live"
At(p, pc)  == Live(p) /\ proc[p].pc = pc
Zombies(p) == {q \in Pids : proc[q].life = "zombie" /\ proc[q].parent = p}
AllGone    == \A p \in Pids : ~Live(p)

\* f with the processes K ended: each a zombie until its parent waits for it.
\* Their children go to init, which waits for those that have ended.
Ended(f, K, how) ==
    [q \in Pids |->
        CASE q \in K \cap {Root} -> [Nobody EXCEPT !.pc = how]
          [] q \in K \ {Root} ->
                IF f[q].parent \in K \cup {Nil} THEN Nobody
                ELSE [Nobody EXCEPT !.life = "zombie", !.parent = f[q].parent]
          [] q \notin K /\ f[q].parent \in K ->
                IF f[q].life = "zombie" THEN Nobody ELSE [f[q] EXCEPT !.parent = Nil]
          [] OTHER -> f[q]]

Goto(p, pc) == proc' = [proc EXCEPT ![p].pc = pc]
Exit(p, how) == proc' = Ended(proc, {p}, how)

\* os.fork: the parent goes on with the child among its children, the child
\* with a copy of everything else.  Which free number it gets does not matter.
FreePids == {p \in Pids \ {Root} : proc[p].life = "none"}
NoPid    == FreePids = {}
NewPid   == CHOOSE q \in FreePids : TRUE
Forked(p, next, back) ==
    [proc EXCEPT ![p].pc = next, ![p].children = @ \cup {NewPid},
                 ![NewPid] = [proc[p] EXCEPT !.parent = p, !.pc = "born", !.back = back]]

\* os.wait and os.waitpid find a child that has ended.
Reaped(p, q, next) ==
    [proc EXCEPT ![p].pc = next, ![p].children = @ \ {q}, ![q] = Nobody]
=============================================================================
