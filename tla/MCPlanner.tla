------------------------------ MODULE MCPlanner ------------------------------
(***************************************************************************)
(* Planner for TLC: symmetry of the processes.                             *)
(***************************************************************************)
EXTENDS Planner, TLC

Symmetry == Permutations(Pcbs)

=============================================================================
