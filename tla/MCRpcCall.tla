------------------------------- MODULE MCRpcCall -------------------------------
(* Instances of RpcCall for TLC: a few calls, one or two engines. *)
EXTENDS RpcCallProps, TLC

CONSTANTS c1, c2, c3, s1, s2

Symmetry == Permutations(Calls) \cup Permutations(Servers)
=============================================================================
