----------------------------- MODULE MCSistema -----------------------------
(***************************************************************************)
(* Sistema for TLC: one console well configured, one perhaps not, and of   *)
(* that one the program may be empty.                                      *)
(***************************************************************************)
EXTENDS Sistema

CONSTANTS c1, c2
MCPuertos == [c \in Consolas |-> IF c = c1 THEN {"consolas"} ELSE Puertos]
MCProgramas ==
    [c \in Consolas |-> IF c = c1 THEN {"PROGRAM"} ELSE {"PROGRAM", "PROGRAM_VACIO"}]

=============================================================================
