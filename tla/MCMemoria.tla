----------------------------- MODULE MCMemoria -----------------------------
(***************************************************************************)
(* The memory server and its clients for TLC.                              *)
(***************************************************************************)
EXTENDS Memoria, TLC

\* The processes are interchangeable: nothing orders them.
Simetria == Permutations(Procesos)

=============================================================================
