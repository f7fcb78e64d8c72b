------------------------------- MODULE Clock -------------------------------
(***************************************************************************)
(* The choice of a victim page (memoriaswap/src/tablas.c), as what its     *)
(* loops find: seleccionar_pagina_victima_clock and                        *)
(* seleccionar_pagina_victima_clock_M walk the frames of one process from  *)
(* puntero_marcos on, around the circle, as many times as it takes. Module *)
(* ClockLoop has the loops themselves.                                     *)
(*                                                                         *)
(* uso and modificado give the bits of the frame of each index of          *)
(* paginas_asignadas. The answer says where the pointer stops, how many    *)
(* frames were passed from the pointer on before it stopped (Marcos for a  *)
(* whole turn or more), and which frames lost their bit uso.               *)
(***************************************************************************)
EXTENDS Naturals

CONSTANT Marcos     \* MARCOS_POR_PROCESO

ASSUME MarcosAssumption == Marcos \in Nat \ {0}

Indices == 0 .. Marcos - 1

\* The frame i places after the pointer, around the circle.
Desde(puntero, i) == (puntero + i) % Marcos

Primero(S) == CHOOSE i \in S : \A j \in S : i <= j

\* Stop at the first frame of the condition and clear uso on those passed.
Hasta(puntero, i) ==
    [puntero |-> Desde(puntero, i),
     barridos |-> {Desde(puntero, j) : j \in 0 .. i - 1}]

VueltaEntera(puntero, i) ==
    [puntero |-> Desde(puntero, i), barridos |-> Indices]

\* Slip: the pages in use are victims too.
VictimaFifo(puntero, uso, modificado) == Hasta(puntero, 0)

VictimaClock(puntero, uso, modificado) ==
    LET sinUso == {i \in Indices : ~uso[Desde(puntero, i)]}
    IN  IF sinUso # {} THEN Hasta(puntero, Primero(sinUso))
        ELSE VueltaEntera(puntero, 0)

\* First not in use and not modified (that turn clears nothing), then not in use
\* but modified, and after a turn that cleared every bit uso, the same again.
VictimaClockM(puntero, uso, modificado) ==
    LET Clase(u, m) == {i \in Indices : /\ uso[Desde(puntero, i)] = u
                                        /\ modificado[Desde(puntero, i)] = m}
        limpios == Clase(TRUE, FALSE)
    IN  IF Clase(FALSE, FALSE) # {}
        THEN [puntero |-> Desde(puntero, Primero(Clase(FALSE, FALSE))),
              barridos |-> {}]
        ELSE IF Clase(FALSE, TRUE) # {}
        THEN Hasta(puntero, Primero(Clase(FALSE, TRUE)))
        ELSE VueltaEntera(puntero, IF limpios # {} THEN Primero(limpios) ELSE 0)

=============================================================================
