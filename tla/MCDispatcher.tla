---------------------------- MODULE MCDispatcher ----------------------------
(***************************************************************************)
(* Dispatcher for TLC.  The threads are alike, but a run may make use of   *)
(* that only when it checks no liveness property.                          *)
(***************************************************************************)
EXTENDS Dispatcher, TLC

Symmetry == Permutations(Worker)
=============================================================================
