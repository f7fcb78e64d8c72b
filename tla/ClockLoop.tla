----------------------------- MODULE ClockLoop -----------------------------
(***************************************************************************)
(* The two loops that choose a victim page (memoriaswap/src/tablas.c),     *)
(* turn by turn as the code runs them, over every state of the bits of one *)
(* process, against what module Clock says they find.                      *)
(***************************************************************************)
EXTENDS Clock

VARIABLES
    puntero,        \* puntero_marcos
    uso,            \* the bit of the page in each frame of the process
    modificado

vars == <<puntero, uso, modificado>>

Siguiente(i) == IF i + 1 = Marcos THEN 0 ELSE i + 1

RECURSIVE BucleClock(_, _)
BucleClock(i, u) ==
    IF ~u[i] THEN [puntero |-> i, uso |-> u]
    ELSE BucleClock(Siguiente(i), [u EXCEPT ![i] = FALSE])

\* The two for loops inside while (true): n counts the iterations of both.
RECURSIVE BucleClockM(_, _, _, _)
BucleClockM(i, u, m, n) ==
    IF n < Marcos
    THEN IF ~u[i] /\ ~m[i] THEN [puntero |-> i, uso |-> u]
         ELSE BucleClockM(Siguiente(i), u, m, n + 1)
    ELSE IF ~u[i] /\ m[i] THEN [puntero |-> i, uso |-> u]
         ELSE BucleClockM(Siguiente(i), [u EXCEPT ![i] = FALSE], m,
                          (n + 1) % (2 * Marcos))

Barrer(v) == [i \in Indices |-> uso[i] /\ i \notin v.barridos]

Init ==
    /\ puntero \in Indices
    /\ uso \in [Indices -> BOOLEAN]
    /\ modificado \in [Indices -> BOOLEAN]

\* A hit of the CPU.
Acceder(i, escribe) ==
    /\ uso' = [uso EXCEPT ![i] = TRUE]
    /\ modificado' = [modificado EXCEPT ![i] = @ \/ escribe]
    /\ UNCHANGED puntero

\* A page fault: the new page takes the place of the victim.
Reemplazar(v) ==
    /\ uso' = [Barrer(v) EXCEPT ![v.puntero] = TRUE]
    /\ modificado' = [modificado EXCEPT ![v.puntero] = FALSE]
    /\ puntero' = Siguiente(v.puntero)

Next ==
    \/ \E i \in Indices, escribe \in BOOLEAN : Acceder(i, escribe)
    \/ Reemplazar(VictimaClock(puntero, uso, modificado))
    \/ Reemplazar(VictimaClockM(puntero, uso, modificado))

Spec == Init /\ [][Next]_vars

\* Where the loops of the code stop, and the bits they leave, are what module Clock
\* says, for every pointer and all bits (so the loops also end): for CLOCK, and for
\* CLOCK-M, whose two alternating for loops find, in up to four turns, the first page
\* of the best class that has one.
VictimasDelBucle ==
    LET v == VictimaClock(puntero, uso, modificado)
        w == VictimaClockM(puntero, uso, modificado)
    IN  /\ BucleClock(puntero, uso) = [puntero |-> v.puntero, uso |-> Barrer(v)]
        /\ BucleClockM(puntero, uso, modificado, 0)
               = [puntero |-> w.puntero, uso |-> Barrer(w)]

=============================================================================
