---------------------------- MODULE ProcessLauncher ----------------------------
(***************************************************************************)
(* openstack/common/service.py's ProcessLauncher: a parent that forks the  *)
(* workers of a service, forks again for those that end, and ends them all *)
(* on SIGTERM (SIGINT is handled alike).  Time passes in whole seconds.    *)
(***************************************************************************)
EXTENDS Processes

VARIABLES
    forktimes,  \* wrap.forktimes, as ages in seconds
    recent      \* history: the ages of the forks of the last `workers` seconds

launcherVars == <<forktimes, recent>>
Launching == program = "workers"

LauncherInit == forktimes = <<>> /\ recent = <<>>

\* ProcessLauncher.__init__: the pipe and the handlers.
Launcher ==
    [Nobody EXCEPT !.life = "live", !.pc = "fill", !.running = TRUE, !.term = "own", !.pipe = TRUE]

\* _handle_signal, in the parent or in a child that has not set its own.
LauncherTakes(f, p) ==
    [f EXCEPT ![p].running = FALSE, ![p].term = "default", ![p].deaf = p # Root,
              ![p].pc = IF @ = "sleep" THEN "fork" ELSE @]

\* A SIGTERM to a process: _handle_signal, _sigterm or the default.
LauncherTerm(f, p) ==
    IF f[p].life # "live" THEN f
    ELSE CASE f[p].term = "own"      -> LauncherTakes(f, p)
           [] f[p].term = "worker"   -> [f EXCEPT ![p].pc = "stop", ![p].term = "default"]
           [] f[p].term = "default"  -> Ended(f, {p}, "killed")

\* The test of launch_service and wait, a step before the fork.
MayFork == proc[Root].running /\ Cardinality(proc[Root].children) < workers

Fill ==
    /\ Launching /\ At(Root, "fill")
    /\ Goto(Root, IF ~MayFork THEN "loop" ELSE "limit")
    /\ UNCHANGED <<setting, signals, failed, told, launcherVars>>

\* A mutant of TooFast: no limit.
TooFast_never == FALSE

TooFast == Len(forktimes) > workers /\ Head(forktimes) < workers

\* A mutant of Limit: the list keeps every fork.
Limit_no_pop ==
    /\ Launching /\ At(Root, "limit")
    /\ Goto(Root, IF TooFast THEN "sleep" ELSE "fork")
    /\ UNCHANGED <<setting, signals, failed, told, launcherVars>>

\* _start_child up to the fork: it may sleep, for one second.
Limit ==
    /\ Launching /\ At(Root, "limit")
    /\ Goto(Root, IF TooFast THEN "sleep" ELSE "fork")
    /\ forktimes' = IF Len(forktimes) > workers THEN Tail(forktimes) ELSE forktimes
    /\ UNCHANGED <<setting, signals, failed, told, recent>>

Tick ==
    /\ Launching /\ Live(Root)
    /\ proc[Root].pc # "fork"    \* a fork takes no time
    /\ LET older(s) == [i \in DOMAIN s |-> IF s[i] < workers THEN s[i] + 1 ELSE s[i]] IN
       /\ forktimes' = older(forktimes)
       /\ \E k \in 0 .. Len(recent) :    \* the first k are too old now
             /\ \A i \in DOMAIN recent : older(recent)[i] >= workers <=> i <= k
             /\ recent' = SubSeq(older(recent), k + 1, Len(recent))
    /\ proc' = [proc EXCEPT ![Root].pc = IF @ = "sleep" THEN "fork" ELSE @]
    /\ UNCHANGED <<setting, signals, failed, told>>

StartChild ==
    /\ Launching /\ At(Root, "fork") /\ ~NoPid
    /\ proc' = Forked(Root, "fill", "none")
    /\ forktimes' = Append(forktimes, 0)
    /\ recent' = Append(recent, 0)
    /\ UNCHANGED <<setting, signals, failed, told>>

\* _wait_child, when a child has ended.
WaitChild(next) == \E q \in Zombies(Root) : proc' = Reaped(Root, q, next)

\* The loop of wait.
LauncherWait ==
    /\ Launching /\ At(Root, "loop")
    /\ IF proc[Root].running THEN WaitChild("fill") ELSE Goto(Root, "kill")
    /\ UNCHANGED <<setting, signals, failed, told, launcherVars>>

\* A mutant of LauncherKill: the children are not told.
LauncherKill_nobody ==
    /\ Launching /\ At(Root, "kill") /\ Goto(Root, "reap")
    /\ UNCHANGED <<setting, signals, failed, told, launcherVars>>

\* Each child takes its signal; no worker has children of its own.
LauncherKill ==
    /\ Launching /\ At(Root, "kill")
    /\ proc' = [p \in Pids |-> IF p = Root THEN [proc[p] EXCEPT !.pc = "reap"]
                               ELSE IF p \in proc[Root].children THEN LauncherTerm(proc, p)[p]
                               ELSE proc[p]]
    /\ UNCHANGED <<setting, signals, failed, told, launcherVars>>

\* A mutant of LauncherReap: the children are told and not waited for.
LauncherReap_no_wait ==
    /\ Launching /\ At(Root, "reap") /\ Exit(Root, "done")
    /\ UNCHANGED <<setting, signals, failed, told, launcherVars>>

LauncherReap ==
    /\ Launching /\ At(Root, "reap")
    /\ IF proc[Root].children = {} THEN Exit(Root, "done") ELSE WaitChild("reap")
    /\ UNCHANGED <<setting, signals, failed, told, launcherVars>>

\* _child_process: its own handler, the write end closed, the service run.
Settle(p) ==
    /\ Launching /\ p # Root /\ At(p, "born")
    /\ proc' = [proc EXCEPT ![p].pc = "serve", ![p].term = "worker", ![p].pipe = FALSE]
    /\ UNCHANGED <<setting, signals, failed, told, launcherVars>>

\* A mutant of PipeWatcher: the children wait for their parent's TERM alone.
PipeWatcher_none(p) == FALSE /\ UNCHANGED <<osVars, launcherVars>>

\* _pipe_watcher: nobody has the write end any more.
PipeWatcher(p) ==
    /\ Launching /\ p # Root /\ At(p, "serve")
    /\ \A q \in Pids : Live(q) => ~proc[q].pipe
    /\ Goto(p, "stop")
    /\ UNCHANGED <<setting, signals, failed, told, launcherVars>>

\* _start_child's finally: the service is stopped, and os._exit.
WorkerExit(p) ==
    /\ Launching /\ p # Root /\ At(p, "stop")
    /\ Exit(p, "done")
    /\ UNCHANGED <<setting, signals, failed, told, launcherVars>>

\* A worker's service ends by an exception (or somebody kills it).
WorkerFails(p) ==
    /\ Launching /\ p # Root /\ At(p, "serve") /\ failed < failures
    /\ Goto(p, "stop")
    /\ failed' = failed + 1
    /\ UNCHANGED <<setting, signals, told, launcherVars>>

LauncherStep == Fill \/ Limit \/ StartChild \/ LauncherWait \/ LauncherKill \/ LauncherReap
WorkerStep(p) == Settle(p) \/ PipeWatcher(p) \/ WorkerExit(p)
LauncherNext == LauncherStep \/ Tick \/ \E p \in Pids : WorkerStep(p) \/ WorkerFails(p)
=============================================================================
