----------------------------- MODULE MCRpcClient -----------------------------
(***************************************************************************)
(* Instances of RpcClient for TLC.                                         *)
(***************************************************************************)
EXTENDS RpcClient, TLC

\* Goroutines differ in nothing but their name.
Symmetry == Permutations(Callers)
=============================================================================
