---------------------------- MODULE MCRushEngine ----------------------------
(***************************************************************************)
(* Small instances of the engine for TLC.                                  *)
(***************************************************************************)
EXTENDS RushEngineInv, TLC

CONSTANTS w1, w2, t1, t2, n1, n2, k1, k2

MCWorkers == {w1, w2}
MCTenants == {t1, t2}
OneTenant == {t1}
MCRushNames == {n1}
TwoNames == {n1, n2}
MCTypeIds == {k1, k2}
MCRushTypes == {k1}

MCStackName(t, n) == <<t, n>>
MCStackNames == Tenants \X RushNames

WorkerSymmetry == Permutations(MCWorkers)
IdSymmetry == Permutations(RushIds) \cup Permutations(StackIds)
Symmetry == WorkerSymmetry \cup IdSymmetry
FullSymmetry ==
    Symmetry \cup Permutations(MCTenants) \cup Permutations(TwoNames)

(***************************************************************************)
(* No action reads reply, and the runs that use this view check nothing    *)
(* about it.                                                               *)
(***************************************************************************)
WithoutReplies == <<heat, tables, pc, req, locals, history>>
=============================================================================
