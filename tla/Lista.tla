------------------------------- MODULE Lista -------------------------------
(***************************************************************************)
(* The doubly linked list of shared/src/list.c, which holds the page       *)
(* tables of the memory server, over a heap of nodes.                      *)
(*                                                                         *)
(* An operation is run to its end: the callers hold the semaphore of the   *)
(* server.  A freed node may be given out again by the next malloc, and an *)
(* operation given an iterator may be given one that is not in the list    *)
(* any more, except where the code would go through NULL (pushiterlist on  *)
(* an empty list).  What a freed node holds is not kept: nothing reads it. *)
(***************************************************************************)
EXTENDS Naturals, Sequences

CONSTANTS
    Nodos,          \* the addresses malloc may give: bounds the heap
    Datos,
    NULL

\* malloc gives no node the address NULL.
ASSUME NodosAssumption == NULL \notin Nodos

VARIABLES
    lista,          \* first, last, size; the nodes, and those in use
    retorno         \* what the last call returned

varsLista == <<lista, retorno>>

Libre == [prev |-> NULL, next |-> NULL, data |-> NULL]

initlist == [first |-> NULL, last |-> NULL, size |-> 0,
             nodo |-> [n \in Nodos |-> Libre], en_uso |-> {}]

isemptylist(l) == l.size = 0

-----------------------------------------------------------------------------
(* The ends of the list. *)
createnode(l, n, data) ==
    [l EXCEPT !.en_uso = @ \cup {n}, !.nodo[n] = [Libre EXCEPT !.data = data]]

free(l, n) == [l EXCEPT !.en_uso = @ \ {n}, !.nodo[n] = Libre]

Crecer(l) == [l EXCEPT !.size = @ + 1]
Achicar(l, n) == [free(l, n) EXCEPT !.size = @ - 1]

pushfrontlist(l, n) ==
    Crecer(IF isemptylist(l) THEN [l EXCEPT !.first = n, !.last = n]
           ELSE [l EXCEPT !.nodo[n].next = l.first, !.nodo[l.first].prev = n,
                          !.first = n])

pushbacklist(l, n) ==
    Crecer(IF isemptylist(l) THEN [l EXCEPT !.first = n, !.last = n]
           ELSE [l EXCEPT !.nodo[n].prev = l.last, !.nodo[l.last].next = n,
                          !.last = n])

popfrontlist(l) ==
    LET segundo == l.nodo[l.first].next
    IN  Achicar(IF l.size = 1 THEN [l EXCEPT !.first = NULL, !.last = NULL]
                ELSE [l EXCEPT !.first = segundo, !.nodo[segundo].prev = NULL],
                l.first)

popbacklist(l) ==
    LET penultimo == l.nodo[l.last].prev
    IN  Achicar(IF l.size = 1 THEN [l EXCEPT !.first = NULL, !.last = NULL]
                ELSE [l EXCEPT !.last = penultimo, !.nodo[penultimo].next = NULL],
                l.last)

\* Slip: the next node does not point back to the new one.
EnlazarSinVuelta(l, n, aux) ==
    LET previo == l.nodo[aux].prev
    IN  Crecer([l EXCEPT !.nodo[n].next = aux, !.nodo[n].prev = previo,
                         !.nodo[previo].next = n])

\* Between two nodes.
EnlazarAntes(l, n, aux) ==
    LET previo == l.nodo[aux].prev
    IN  Crecer([l EXCEPT !.nodo[n].next = aux, !.nodo[n].prev = previo,
                         !.nodo[previo].next = n, !.nodo[aux].prev = n])

\* Slip: the previous node is linked past the next one.
DesenlazarDosNodos(l, n) ==
    LET previo == l.nodo[n].prev
        siguiente == l.nodo[n].next
    IN  Achicar([l EXCEPT !.nodo[siguiente].prev = previo,
                          !.nodo[previo].next = l.nodo[siguiente].next], n)

Desenlazar(l, n) ==
    LET previo == l.nodo[n].prev
        siguiente == l.nodo[n].next
    IN  Achicar([l EXCEPT !.nodo[siguiente].prev = previo,
                          !.nodo[previo].next = siguiente], n)

\* The nodes met from first by next, and from last by prev, size of them.
Siguiente(l, n) == IF n = NULL THEN NULL ELSE l.nodo[n].next
Anterior(l, n) == IF n = NULL THEN NULL ELSE l.nodo[n].prev
Recorrido(l) ==
    LET r[k \in 1..l.size] == IF k = 1 THEN l.first ELSE Siguiente(l, r[k - 1])
    IN  [k \in 1..l.size |-> r[k]]
RecorridoInverso(l) ==
    LET r[k \in 1..l.size] == IF k = 1 THEN l.last ELSE Anterior(l, r[k - 1])
    IN  [k \in 1..l.size |-> r[k]]
EnLista(l, n) == \E k \in 1..l.size : Recorrido(l)[k] = n

Dato(l, n) == IF n = NULL THEN NULL ELSE l.nodo[n].data

-----------------------------------------------------------------------------
(* By position, and by iterator: the loop finds the node or nothing. A node *)
(* that was created and finds no place is not freed.                       *)
pushatlist(l, index, n, data) ==
    LET c == createnode(l, n, data)
    IN  IF index = 0 THEN pushfrontlist(c, n)
        ELSE IF index = l.size THEN pushbacklist(c, n)
        ELSE IF index < l.size THEN EnlazarAntes(c, n, Recorrido(l)[index + 1])
        ELSE l

pushiterlist(l, iter, n, data) ==
    LET c == createnode(l, n, data)
    IN  IF iter = NULL THEN l
        ELSE IF iter = l.first THEN pushfrontlist(c, n)
        ELSE IF EnLista(l, iter) THEN EnlazarAntes(c, n, iter)
        ELSE c

\* No node, for a position that is not in the list.
atlist(l, index) ==
    IF index >= l.size THEN NULL
    ELSE IF index = 0 THEN l.first
    ELSE IF index = l.size - 1 THEN l.last
    ELSE Recorrido(l)[index + 1]

popatlist(l, index) ==
    IF index >= l.size THEN l
    ELSE IF index = 0 THEN popfrontlist(l)
    ELSE IF index = l.size - 1 THEN popbacklist(l)
    ELSE Desenlazar(l, Recorrido(l)[index + 1])

popiterlist(l, iter) ==
    IF isemptylist(l) \/ iter = NULL THEN l
    ELSE IF iter = l.first THEN popfrontlist(l)
    ELSE IF iter = l.last THEN popbacklist(l)
    ELSE IF EnLista(l, iter) THEN Desenlazar(l, iter)
    ELSE l

-----------------------------------------------------------------------------
InitLista == lista = initlist /\ retorno = NULL

\* malloc: any free node, or none.
SinMemoria == Nodos \ lista.en_uso = {}

Poner(l) == lista' = l /\ retorno' = IF l.size > lista.size THEN 1 ELSE 0

PushEnds ==
    \E n \in Nodos \ lista.en_uso, d \in Datos :
        \/ Poner(pushfrontlist(createnode(lista, n, d), n))
        \/ Poner(pushbacklist(createnode(lista, n, d), n))

PushAt ==
    \E n \in Nodos \ lista.en_uso, d \in Datos, index \in 0..lista.size + 1 :
        Poner(pushatlist(lista, index, n, d))

PushIter ==
    /\ ~isemptylist(lista)
    /\ \E n \in Nodos \ lista.en_uso, d \in Datos, iter \in Nodos \cup {NULL} :
          /\ iter # n
          /\ Poner(pushiterlist(lista, iter, n, d))

PushFails == SinMemoria /\ Poner(lista)

Sacar(n, l) ==
    /\ lista' = l
    /\ retorno' = IF l.size < lista.size THEN Dato(lista, n) ELSE NULL

PopAt ==
    \E index \in 0..lista.size + 1 :
        Sacar(atlist(lista, index), popatlist(lista, index))

PopIter ==
    \E iter \in Nodos \cup {NULL} : Sacar(iter, popiterlist(lista, iter))

\* popfrontlist or popbacklist of an empty list.
PopFails == isemptylist(lista) /\ Sacar(NULL, lista)

\* emptylist: every node is popped and its data freed.
EmptyList ==
    LET r[k \in 0..lista.size] == IF k = 0 THEN lista ELSE popfrontlist(r[k - 1])
    IN  lista' = r[lista.size] /\ retorno' = NULL

\* frontlist, backlist, atlist, and an iterator moved along the list.
Leer(n) == UNCHANGED lista /\ retorno' = Dato(lista, n)
AtList == \E index \in 0..lista.size + 1 : Leer(atlist(lista, index))

NextLista ==
    \/ PushEnds \/ PushAt \/ PushIter \/ PushFails
    \/ PopAt \/ PopIter \/ PopFails
    \/ EmptyList \/ AtList

SpecLista == InitLista /\ [][NextLista]_varsLista

-----------------------------------------------------------------------------
Contenido == [k \in 1..lista.size |-> Dato(lista, Recorrido(lista)[k])]

S == INSTANCE Secuencia WITH contenido <- Contenido

\* The list refines the sequence of its elements: whatever mix of calls by end, by
\* position and by iterator, with reused nodes, stale iterators and positions past the
\* end, each call puts in or takes out one element where it says, or none, and answers
\* what it did; the NULL of atlist is tablas.c's test for a page of no table.
EsUnaSecuencia == S!Spec

\* The prev links tell the same list as the next links, and the ends have no
\* neighbour: popbacklist and prevlist depend on links that only other calls wrote.
MismaAlReves ==
    /\ \A k \in 1..lista.size :
          RecorridoInverso(lista)[k] = Recorrido(lista)[lista.size + 1 - k]
    /\ Anterior(lista, lista.first) = NULL /\ Siguiente(lista, lista.last) = NULL

=============================================================================
