-------------------------- MODULE MCSocketLifecycle --------------------------
(***************************************************************************)
(* Model values for SocketLifecycle.                                       *)
(***************************************************************************)
EXTENDS SocketLifecycle, TLC

Symmetry == Permutations(Agents)
=============================================================================
