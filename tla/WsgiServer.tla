------------------------------ MODULE WsgiServer ------------------------------
(***************************************************************************)
(* openstack/common/wsgi.py's Server as rushstack-api runs it: alone, or   *)
(* with `workers` children that accept on one socket.  A child that stops  *)
(* accepting RETURNS from run_child, into the loop of its parent that it   *)
(* is a copy of.                                                           *)
(***************************************************************************)
EXTENDS Processes

VARIABLES
    port,    \* "busy" while another program has it, "free" or "ours"
    shut     \* the socket all the processes share has been shut down

serverVars == <<port, shut>>
Serving == program = "api"

ServerInit(busy) == port = (IF busy THEN "busy" ELSE "free") /\ shut = FALSE

ServerProcess == [Nobody EXCEPT !.life = "live", !.pc = "bind", !.running = TRUE]

\* kill_children: every other process of the group gets the SIGTERM too; a
\* child that has not set its handlers ignores later ones like its parent.
ServerTerm(f, p) ==
    CASE f[p].term = "default" -> Ended(f, {p}, "killed")
      [] f[p].term = "ignore"  -> f
      [] f[p].term = "own" ->
            LET alive(how) == {q \in Pids : f[q].life = "live" /\ f[q].term = how}
                stopping == [q \in Pids |->
                                IF q \notin alive("own") THEN f[q]
                                ELSE [f[q] EXCEPT !.term = "ignore", !.running = FALSE,
                                                  !.pc = IF @ = "wait" THEN "test" ELSE @]]
            IN Ended(stopping, alive("default"), "killed")

\* hup.
ServerHup(f, p) ==
    IF f[p].hup = "own" THEN [f EXCEPT ![p].hup = "ignore", ![p].running = FALSE,
                                       ![p].pc = IF @ = "wait" THEN "test" ELSE @]
    ELSE IF f[p].hup = "default" THEN Ended(f, {p}, "killed") ELSE f

\* Nobody is still in start, or in a child of start's without its handlers.
HasStarted ==
    /\ proc[Root].pc \notin {"bind", "start"}
    /\ \A p \in Pids : Live(p) => ~(proc[p].pc \in {"start", "born"} /\ proc[p].back = "start")

\* get_socket tries for 30 seconds, in which the other program may leave.
PortFreed ==
    /\ Serving /\ port = "busy" /\ port' = "free"
    /\ UNCHANGED <<osVars, shut>>
Bind ==
    /\ Serving /\ At(Root, "bind") /\ port = "free"
    /\ port' = "ours"
    /\ proc' = IF workers = 0 THEN [proc EXCEPT ![Root].pc = "single"]
               ELSE [proc EXCEPT ![Root].pc = "start", ![Root].term = "own", ![Root].hup = "own"]
    /\ UNCHANGED <<setting, signals, failed, told, shut>>
BindGivesUp ==
    /\ Serving /\ At(Root, "bind") /\ port = "busy"
    /\ Exit(Root, "killed")
    /\ UNCHANGED <<setting, signals, failed, told, serverVars>>

\* run_child, by the parent; when there can be no more processes the OSError
\* ends it.
RunChild(p, next, back) ==
    proc' = IF NoPid THEN Ended(proc, {p}, "killed") ELSE Forked(p, next, back)

\* The loop of start; then wait.
ServerStart(p) ==
    /\ Serving /\ At(p, "start")
    /\ IF Cardinality(proc[p].children) < workers THEN RunChild(p, "start", "start")
       ELSE Goto(p, "test")
    /\ UNCHANGED <<setting, signals, failed, told, serverVars>>

\* A mutant of ServerTest: the socket is closed for this process alone.
ServerTest_no_shutdown(p) ==
    /\ Serving /\ At(p, "test")
    /\ IF proc[p].running THEN Goto(p, "wait") ELSE Exit(p, "done")
    /\ UNCHANGED <<setting, signals, failed, told, serverVars>>

\* wait_on_children looks at running, or shuts the socket down and is done.
ServerTest(p) ==
    /\ Serving /\ At(p, "test")
    /\ IF proc[p].running THEN Goto(p, "wait") /\ UNCHANGED shut
       ELSE Exit(p, "done") /\ shut' = TRUE
    /\ UNCHANGED <<setting, signals, failed, told, port>>

\* A mutant of ServerWait: the dead child is not replaced.
ServerWait_no_child(p) ==
    /\ Serving /\ At(p, "wait")
    /\ \E q \in Zombies(p) : proc' = Reaped(p, q, "test")
    /\ UNCHANGED <<setting, signals, failed, told, serverVars>>

\* os.wait: a child has ended, or there is none (ECHILD).
ServerWait(p) ==
    /\ Serving /\ At(p, "wait")
    /\ \/ \E q \in Zombies(p) : proc' = Reaped(p, q, "again")
       \/ (\A q \in Pids : proc[q].parent # p) /\ Goto(p, "test")
    /\ UNCHANGED <<setting, signals, failed, told, serverVars>>
ServerAgain(p) ==
    /\ Serving /\ At(p, "again")
    /\ RunChild(p, "test", "test")
    /\ UNCHANGED <<setting, signals, failed, told, serverVars>>

\* run_child, by the child.
ChildBegins(p) ==
    /\ Serving /\ At(p, "born")
    /\ proc' = [proc EXCEPT ![p].pc = "serve", ![p].term = "default", ![p].hup = "default"]
    /\ UNCHANGED <<setting, signals, failed, told, serverVars>>

\* run_server's accept fails with EINVAL; its requests end; run_child returns.
ChildReturns(p) ==
    /\ Serving /\ At(p, "serve") /\ shut
    /\ Goto(p, proc[p].back)
    /\ UNCHANGED <<setting, signals, failed, told, serverVars>>

\* A child ends otherwise.
ChildFails(p) ==
    /\ Serving /\ At(p, "serve") /\ failed < failures
    /\ Exit(p, "killed")
    /\ failed' = failed + 1
    /\ UNCHANGED <<setting, signals, told, serverVars>>

ServerStep(p) ==
    \/ ServerStart(p) \/ ServerTest(p) \/ ServerWait(p) \/ ServerAgain(p)
    \/ ChildBegins(p) \/ ChildReturns(p)
ServerNext == PortFreed \/ Bind \/ BindGivesUp \/ \E p \in Pids : ServerStep(p) \/ ChildFails(p)
=============================================================================
