------------------------------ MODULE MCNotifyPool ------------------------------
(***************************************************************************)
(* Instances of NotifyPool for TLC.  Connections are interchangeable; with *)
(* a liveness property TLC must not use the symmetry.                      *)
(***************************************************************************)
EXTENDS NotifyPool, TLC

Symmetry == Permutations(Procs) \cup Permutations(Conns)
=============================================================================
