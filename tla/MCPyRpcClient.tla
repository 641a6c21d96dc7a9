---------------------------- MODULE MCPyRpcClient ----------------------------
(***************************************************************************)
(* Instances of PyRpcClient for TLC.                                       *)
(***************************************************************************)
EXTENDS PyRpcClient, TLC

Symmetry == Permutations(Tasks)
=============================================================================
