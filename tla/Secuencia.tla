----------------------------- MODULE Secuencia -----------------------------
(***************************************************************************)
(* What a list of shared/src/list.c promises: its elements in order, one   *)
(* put in or taken out at a time, and what the call answered.              *)
(***************************************************************************)
EXTENDS Naturals, Sequences, SequencesExt

CONSTANTS Datos, NULL
VARIABLES contenido, retorno

Init == contenido = <<>> /\ retorno = NULL

Agregar(i, d) ==
    /\ contenido' = InsertAt(contenido, i, d)
    /\ retorno' = 1

\* No memory, or a position that is not in the list.
NoAgregar == UNCHANGED contenido /\ retorno' = 0

Quitar(i) ==
    /\ contenido' = RemoveAt(contenido, i)
    /\ retorno' = contenido[i]

\* Nothing to take or to see: an empty list, or a position that is not in it.
NoQuitar == UNCHANGED contenido /\ retorno' = NULL

Ver(i) == UNCHANGED contenido /\ retorno' = contenido[i]

Vaciar == contenido' = <<>> /\ retorno' = NULL

Next ==
    \/ \E i \in 1..Len(contenido) + 1, d \in Datos : Agregar(i, d)
    \/ NoAgregar
    \/ \E i \in 1..Len(contenido) : Quitar(i) \/ Ver(i)
    \/ NoQuitar
    \/ Vaciar

Spec == Init /\ [][Next]_<<contenido, retorno>>

=============================================================================
