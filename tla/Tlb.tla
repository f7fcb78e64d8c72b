-------------------------------- MODULE Tlb --------------------------------
(***************************************************************************)
(* The TLB of the CPU (cpu/src/tlb.c): a list of entries, the first of     *)
(* which is the next to go. FIFO and LRU replace the same entry; under LRU *)
(* a hit moves its entry to the end.                                       *)
(***************************************************************************)
EXTENDS Naturals, Sequences

CONSTANTS
    EntradasTlb,        \* ENTRADAS_TLB
    ReemplazoTlb        \* REEMPLAZO_TLB: "FIFO" or "LRU"

ASSUME TlbAssumption ==
    /\ EntradasTlb \in Nat \ {0}
    /\ ReemplazoTlb \in {"FIFO", "LRU"}

Acierto(tlb, pagina) == \E i \in 1 .. Len(tlb) : tlb[i].pagina = pagina

\* The entry of the page that the search from the start of the list finds.
Ubicacion(tlb, pagina) ==
    CHOOSE i \in 1 .. Len(tlb) :
        /\ tlb[i].pagina = pagina
        /\ \A j \in 1 .. i - 1 : tlb[j].pagina # pagina

AlFinal(tlb, i) ==
    SubSeq(tlb, 1, i - 1) \o SubSeq(tlb, i + 1, Len(tlb)) \o <<tlb[i]>>

\* The list buscar_marco leaves after a hit.
buscar_marco(tlb, pagina) ==
    IF ReemplazoTlb = "LRU" THEN AlFinal(tlb, Ubicacion(tlb, pagina)) ELSE tlb

\* Slip: the replacement of a full TLB adds and removes nothing.
ReemplazarSinQuitar(tlb, entrada) == Append(tlb, entrada)

reemplazar_entrada(tlb, entrada) ==
    Append(IF Len(tlb) < EntradasTlb THEN tlb ELSE Tail(tlb), entrada)

=============================================================================
