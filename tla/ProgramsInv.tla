------------------------------ MODULE ProgramsInv ------------------------------
(***************************************************************************)
(* The inductive invariant from which ProgramsProofs derives TypeOK,       *)
(* LauncherLeavesNobody, ForkRate and MissesAtMostHalf.                    *)
(***************************************************************************)
EXTENDS ProgramsProps, Integers

SettingInv ==
    /\ program \in {"engine", "workers", "api"} /\ workers \in Nat
    /\ timers \in Seq(BOOLEAN) /\ failures \in Nat
    /\ signals \in Seq({"TERM", "HUP"}) /\ told \in {"no", "early", "late", "HUP", "exit"}
    /\ failed \in 0 .. failures

GroupTypeInv ==
    /\ service \in [Services -> {"new", "up", "done"}]
    /\ task \in [Services -> {"none", "run", "done"}]
    /\ threads \in Seq(Services) /\ next \in Nat \ {0} /\ awaited \in Services \cup {0}

TypeInv ==
    /\ SettingInv /\ GroupTypeInv
    /\ proc \in [Pids -> Process]
    /\ forktimes \in Seq(0 .. workers) /\ recent \in Seq(0 .. workers - 1)
    /\ port \in {"busy", "free", "ours"} /\ shut \in BOOLEAN

\* Which handlers of SIGTERM the processes of a program have.
ModeInv ==
    /\ Launching => /\ proc[Root].term \in {"own", "default"}
                    /\ \A p \in Pids : proc[p].term # "ignore"
    /\ Serving => \A p \in Pids : proc[p].term # "worker"
    /\ ~Launching => forktimes = <<>> /\ recent = <<>>

(* The engine: the group's list has each unfinished service once, and what *)
(* is left of it, with what wait has passed, is no more than there was.    *)
Waiting == awaited # 0 /\ service[awaited] # "done"
Listed  == \A s \in Services : service[s] # "done" <=> \E i \in DOMAIN threads : threads[i] = s
Once    == \A i, j \in DOMAIN threads : threads[i] = threads[j] => i = j

GroupInv ==
    Engine =>
        /\ Once /\ Listed
        /\ Len(threads) + next - 1 <= Len(timers) + (IF Waiting THEN 1 ELSE 0)
        /\ Len(threads) <= Len(timers)
        /\ At(Root, "stop") /\ told = "no" => 2 * Len(threads) <= Len(timers)
        /\ proc[Root].pc = "done" => ~Live(Root) /\ 2 * Len(threads) <= Len(timers)

(* The launcher: all it forked and has not waited for are its children,    *)
(* and it knows them.                                                      *)
Asked    == proc[Root].pc \in {"limit", "sleep", "fork"}
Resumes  == proc[Root].pc \in {"sleep", "fork"}
Running  == Live(Root) /\ proc[Root].running

FamilyInv ==
    Launching =>
        /\ proc[Root].parent = Nil
        /\ \A p \in Pids \ {Root} : proc[p].parent \in {Root, Nil}
        /\ Live(Root) =>
              /\ \A p \in Pids \ {Root} :
                    proc[p].life # "none" => proc[p].parent = Root /\ p \in proc[Root].children
              /\ Root \notin proc[Root].children
              /\ proc[Root].pc \in {"kill", "reap"} => ~proc[Root].running
              /\ proc[Root].pc # "done"
              /\ Asked => workers > 0
        /\ told = "no" => Running
        /\ proc[Root].pc = "done" => AllGone

(* The limit: forktimes ends like the history of forks does, which is      *)
(* sorted, and a fork made with more than `workers` others in the period   *)
(* came a second after the one before it.                                  *)
SameAges ==
    \A k \in 0 .. workers :
        k < Len(forktimes) /\ k < Len(recent)
            => forktimes[Len(forktimes) - k] = recent[Len(recent) - k]
Sorted == \A i, j \in DOMAIN recent : i <= j => recent[j] <= recent[i]
Spaced == \A i, j \in DOMAIN recent : workers < i /\ i <= j => recent[j] + (j - i) <= recent[i]

ListInv ==
    /\ SameAges /\ Sorted
    /\ Len(forktimes) <= workers + 1
    /\ Len(forktimes) < workers => Len(recent) <= Len(forktimes)
    /\ Live(Root) /\ Resumes => Len(forktimes) <= workers
    /\ Live(Root) /\ ~Resumes /\ Len(forktimes) = workers => Len(recent) <= workers

RateInv ==
    /\ Running =>
          /\ Spaced
          /\ proc[Root].pc = "fork" /\ Len(recent) > workers => recent[Len(recent)] > 0
    /\ ~Running => Len(recent) <= 2 * workers + (IF Live(Root) /\ Asked THEN 0 ELSE 1)

LimitInv == Launching => ListInv /\ RateInv

IInv == TypeInv /\ ModeInv /\ GroupInv /\ FamilyInv /\ LimitInv
=============================================================================
