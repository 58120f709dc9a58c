---------------------------- MODULE ServiceLauncher ----------------------------
(***************************************************************************)
(* openstack/common/service.py's ServiceLauncher as rushstack-engine runs  *)
(* it: one process whose green threads, in a ThreadGroup, each run a       *)
(* service.  A service waits for the looping call of its own ThreadGroup.  *)
(***************************************************************************)
EXTENDS Processes

VARIABLES
    service,  \* new, up, done: where the green thread of each service is
    task,     \* none, run, done: the looping call of each service
    threads,  \* the launcher's ThreadGroup.threads
    next,     \* how far the loop over threads is that the main thread is in
    awaited   \* the service the main thread waits for, 0 for none

groupVars == <<service, task, threads, next, awaited>>
Engine == program = "engine"
Services == DOMAIN timers

\* launch_service has added a thread for each service; wait has set the handler.
GroupInit ==
    /\ service = [s \in Services |-> "new"]
    /\ task = [s \in Services |-> "none"]
    /\ threads = [s \in Services |-> s]
    /\ next = 1 /\ awaited = 0

EngineProcess == [Nobody EXCEPT !.life = "live", !.pc = "await", !.term = "own"]

\* _handle_signal raises SignalExit in the main thread, which wait's try catches
\* and its finally does not.
EngineTerm(f, p) ==
    IF f[p].term = "own" /\ f[p].pc = "await"
    THEN [f EXCEPT ![p].term = "default", ![p].pc = "stop"]
    ELSE Ended(f, {p}, "killed")

\* The thread of a service ends: its link takes it out of the group.
ThreadDone(s) ==
    /\ service' = [service EXCEPT ![s] = "done"]
    /\ \E i \in DOMAIN threads : threads[i] = s /\ threads' = RemoveAt(threads, i)

\* run_service: start, which adds the looping call, and wait.
ServiceStart(s) ==
    /\ Engine /\ Live(Root) /\ service[s] = "new"
    /\ service' = [service EXCEPT ![s] = "up"]
    /\ task' = [task EXCEPT ![s] = IF timers[s] THEN "run" ELSE "none"]
    /\ UNCHANGED <<osVars, threads, next, awaited>>

\* start, or the function of the looping call, raises an exception.
ServiceFails(s) ==
    /\ Engine /\ Live(Root) /\ failed < failures
    /\ \/ service[s] = "new" /\ ThreadDone(s) /\ UNCHANGED task
       \/ task[s] = "run" /\ task' = [task EXCEPT ![s] = "done"] /\ UNCHANGED <<service, threads>>
    /\ failed' = failed + 1
    /\ UNCHANGED <<setting, signals, told, proc, next, awaited>>

\* start, the looping call or a thread of the service's calls sys.exit (the last
\* of kombu's retries does): eventlet raises the SystemExit in the main thread,
\* whatever it waits for, where ThreadGroup.wait does not catch it and
\* ServiceLauncher.wait stops; raised in its finally, it ends the process.
ServiceExits(s) ==
    /\ Engine /\ Live(Root) /\ failed < failures
    /\ \/ service[s] = "new" /\ ThreadDone(s)
       \/ service[s] = "up" /\ UNCHANGED <<service, threads>>
    /\ IF At(Root, "await") THEN Goto(Root, "stop") ELSE Exit(Root, "killed")
    /\ told' = IF told = "no" THEN "exit" ELSE told
    /\ failed' = failed + 1
    /\ UNCHANGED <<setting, signals, task, next, awaited>>

\* ThreadGroup.wait returns when no looping call is left.
ServiceEnds(s) ==
    /\ Engine /\ Live(Root) /\ service[s] = "up" /\ task[s] # "run"
    /\ ThreadDone(s)
    /\ UNCHANGED <<osVars, task, next, awaited>>

\* Launcher.wait goes over a list that gets shorter.
Await ==
    /\ Engine /\ At(Root, "await") /\ awaited = 0
    /\ IF next <= Len(threads)
       THEN awaited' = threads[next] /\ next' = next + 1 /\ UNCHANGED proc
       ELSE Goto(Root, "stop") /\ UNCHANGED <<awaited, next>>
    /\ UNCHANGED <<setting, signals, failed, told, service, task, threads>>

\* A mutant of Awoken: an exception of the service's ends the wait.
Awoken_raises ==
    /\ Engine /\ At(Root, "await") /\ awaited # 0 /\ service[awaited] = "done"
    /\ awaited' = 0
    /\ IF task[awaited] = "done" THEN Goto(Root, "stop") ELSE UNCHANGED proc
    /\ UNCHANGED <<setting, signals, failed, told, service, task, threads, next>>

Awoken ==
    /\ Engine /\ At(Root, "await") /\ awaited # 0 /\ service[awaited] = "done"
    /\ awaited' = 0
    /\ UNCHANGED <<osVars, service, task, threads, next>>

\* wait's finally: stop goes over the list that its kills make shorter, so it
\* kills the first thread, the third, ...; then the process is left.
EngineStop ==
    /\ Engine /\ At(Root, "stop")
    /\ LET killed == {threads[i] : i \in {j \in DOMAIN threads : j % 2 = 1}} IN
       /\ service' = [s \in Services |-> IF s \in killed THEN "done" ELSE service[s]]
       /\ threads' = [i \in 1 .. Len(threads) \div 2 |-> threads[2 * i]]
    /\ Exit(Root, "done")
    /\ UNCHANGED <<setting, signals, failed, told, task, next, awaited>>

EngineStep == Await \/ Awoken \/ EngineStop \/ \E s \in Services : ServiceStart(s) \/ ServiceEnds(s)
EngineNext == EngineStep \/ \E s \in Services : ServiceFails(s) \/ ServiceExits(s)
=============================================================================
