-------------------------------- MODULE Programs --------------------------------
(***************************************************************************)
(* The programs of rushstack: an engine, a launcher of worker processes or *)
(* the API server, with the operator that sends them signals.              *)
(***************************************************************************)
EXTENDS ServiceLauncher, ProcessLauncher, WsgiServer

vars == <<osVars, groupVars, launcherVars, serverVars>>

Init ==
    /\ \E s \in Settings :
          /\ program = s.program /\ workers = s.workers /\ timers = s.timers
          /\ signals = s.signals /\ failures = s.failures
          /\ ServerInit(s.busy)
    /\ failed = 0 /\ told = "no"
    /\ proc = [p \in Pids |-> IF p # Root THEN Nobody
                              ELSE CASE Engine    -> EngineProcess
                                     [] Launching -> Launcher
                                     [] Serving   -> ServerProcess]
    /\ GroupInit /\ LauncherInit

\* The operator signals the program's first process.
Signal ==
    /\ signals # <<>> /\ Live(Root)
    /\ signals' = Tail(signals)
    /\ proc' = CASE Engine    -> EngineTerm(proc, Root)
                 [] Launching -> LauncherTerm(proc, Root)
                 [] Serving   -> IF Head(signals) = "HUP" THEN ServerHup(proc, Root)
                                 ELSE ServerTerm(proc, Root)
    /\ told' = IF told \notin {"no", "exit"} THEN told
               ELSE IF Head(signals) = "HUP" THEN "HUP"
               ELSE IF Serving => HasStarted THEN "late" ELSE "early"
    /\ UNCHANGED <<setting, failed, groupVars, launcherVars, serverVars>>

Next ==
    \/ Signal
    \/ EngineNext /\ UNCHANGED <<launcherVars, serverVars>>
    \/ LauncherNext /\ UNCHANGED <<groupVars, serverVars>>
    \/ ServerNext /\ UNCHANGED <<groupVars, launcherVars>>

Spec == Init /\ [][Next]_vars

\* Every process and green thread goes on when it can, time passes, and the
\* program that has the port leaves or the server gives up.  Failures and
\* signals need not happen.
Fairness ==
    /\ WF_vars(EngineStep /\ UNCHANGED <<launcherVars, serverVars>>)
    /\ WF_vars(LauncherStep /\ UNCHANGED <<groupVars, serverVars>>)
    /\ WF_vars(Tick /\ UNCHANGED <<groupVars, serverVars>>)
    /\ WF_vars((Bind \/ BindGivesUp) /\ UNCHANGED <<groupVars, launcherVars>>)
    /\ \A p \in Pids :
          /\ WF_vars(WorkerStep(p) /\ UNCHANGED <<groupVars, serverVars>>)
          /\ WF_vars(ServerStep(p) /\ UNCHANGED <<groupVars, launcherVars>>)

FairSpec == Spec /\ Fairness
=============================================================================
