---------------------------- MODULE MCPlannerStop ----------------------------
(***************************************************************************)
(* PlannerStop for TLC: symmetry of the processes.                         *)
(***************************************************************************)
EXTENDS PlannerStop, TLC

Symmetry == Permutations(Pcbs)

=============================================================================
