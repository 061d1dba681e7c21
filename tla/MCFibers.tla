------------------------------- MODULE MCFibers -------------------------------
(***************************************************************************)
(* Fibers on small instances.                                             *)
(***************************************************************************)
EXTENDS FiberCoroutines, TLC

\* Every action treats the fibers alike.
Alike == Permutations(Fibers)
=============================================================================
