------------------------------- MODULE MCPrograms -------------------------------
(* Instances of the programs for TLC. *)
EXTENDS ProgramsInv

A(prog, n, ts, sigs, f, b) ==
    [program |-> prog, workers |-> n, timers |-> ts, signals |-> sigs, failures |-> f, busy |-> b]

\* One to three services, with and without something to wait for; a launcher
\* that is told twice to end, and one whose workers die quickly; a server
\* alone, with two children, and one that gets a SIGHUP and a SIGTERM.
MCSettings ==
    {A("engine", 0, ts, <<"TERM", "TERM">>, 2, FALSE) :
        ts \in {<<TRUE>>, <<FALSE>>, <<TRUE, FALSE>>, <<TRUE, TRUE, TRUE>>, <<TRUE, TRUE, FALSE, TRUE>>}}
    \cup {A("workers", n, <<>>, <<"TERM", "TERM">>, 2, FALSE) : n \in 1 .. 2}
    \cup {A("workers", 2, <<>>, <<"TERM">>, 4, FALSE)}
    \cup {A("api", n, <<>>, <<"TERM">>, 2, b) : n \in {0, 2}, b \in BOOLEAN}
    \cup {A("api", 1, <<>>, <<"HUP", "TERM">>, 1, FALSE)}

\* A server with one child and a SIGHUP, and room for three more processes.
HupSettings == {A("api", 1, <<>>, <<"HUP">>, 0, FALSE)}
=============================================================================
