----------------------------- MODULE ProgramsProps -----------------------------
(* What the programs of rushstack promise the operator who runs them. *)
EXTENDS Programs

\* Where a process of an engine, of a launcher or of a server may be.
Places ==
    {"none", "killed", "done", "await", "stop"}
    \cup {"fill", "limit", "sleep", "fork", "loop", "kill", "reap", "born", "serve"}
    \cup {"bind", "single", "start", "test", "wait", "again"}

Process ==
    [life : {"none", "live", "zombie"}, parent : Pids \cup {Nil}, pc : Places,
     back : {"none", "start", "test"}, running : BOOLEAN, children : SUBSET Pids,
     term : {"default", "own", "worker", "ignore"}, hup : {"default", "own", "ignore"},
     pipe : BOOLEAN, deaf : BOOLEAN]

\* The processes, the launchers' lists and the modes the code distinguishes;
\* the launcher's list of forks does not grow.
TypeOK ==
    /\ proc \in [Pids -> Process]
    /\ told \in {"no", "early", "late", "HUP", "exit"} /\ failed \in 0 .. failures
    /\ forktimes \in Seq(0 .. workers) /\ Len(forktimes) <= workers + 1
    /\ recent \in Seq(0 .. workers - 1)
    /\ port \in {"busy", "free", "ours"} /\ shut \in BOOLEAN
    /\ service \in [Services -> {"new", "up", "done"}] /\ awaited \in Services \cup {0}

\* When the launcher's wait returns, none of the processes it forked is left
\* (service.py:303-307 "Wait for children to die"), whatever was forked, had
\* ended or was being started when the signal came.
LauncherLeavesNobody == Launching /\ proc[Root].pc = "done" => AllGone

\* However fast the workers die, no more than 2 * workers processes are
\* forked in a period of `workers` seconds (_start_child's limit; its comment
\* says one a second), and one more when a signal cuts the last sleep short.
ForkRate == Len(recent) <= 2 * workers + (IF told = "no" THEN 0 ELSE 1)

\* A launcher of services that waits, or stops, over a list that gets shorter
\* (threadgroup.py:88 and 113) misses at most every second of its services,
\* so none when there is one, as in rushstack-engine.  It has waited for them
\* when neither a signal nor a service's SystemExit (service.py:119-125) told
\* it to stop; once stop has returned it has missed no more, whoever told it.
Unfinished == Cardinality({s \in Services : service[s] # "done"})
MissesAtMostHalf ==
    Engine /\ ((At(Root, "stop") /\ told = "no") \/ proc[Root].pc = "done")
        => 2 * Unfinished <= Len(timers)

\* A program that is told to end by SIGTERM ends with all its processes, if
\* its server had started and no SIGTERM of the launcher's was taken by the
\* handler a child has from its parent (service.py:175, wsgi.py:234).
EndsWhenTold ==
    told = "late" ~> AllGone \/ (\E p \in Pids : proc[p].deaf)

\* The workers of a launcher do not outlive it, however it ended: the pipe's
\* end tells them (service.py:160-167).
OrphansExit == Launching /\ ~Live(Root) ~> AllGone

\* Workers that have died are replaced: from some time on, as long as nobody
\* stops the program, all of them serve.
WorkersRestored ==
    <>[](Engine \/ told # "no" \/ ~Live(Root)
         \/ Cardinality({p \in Pids \ {Root} : At(p, "serve")}) = workers)

\* A SIGHUP ends the server and all it has started (wsgi.py:179-181 "Shuts
\* down the server, but allows running requests to complete").
HupShutsDown == told = "HUP" ~> AllGone
=============================================================================
