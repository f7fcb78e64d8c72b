------------------------------- MODULE Tablas -------------------------------
(***************************************************************************)
(* The page tables, the frames and the swap files of the memory server     *)
(* (memoriaswap/src/tablas.c). The state of the module is one record; each *)
(* function of the code is the operator that gives the state it leaves.    *)
(*                                                                         *)
(* A page is its number in the process and holds one datum: the two levels *)
(* of tables only matter where a table number is computed from a page      *)
(* number, and an offset inside a page never does.                         *)
(***************************************************************************)
EXTENDS Clock, Sequences, FiniteSets

CONSTANTS
    Procesos,           \* the processes, that is, their first-level tables
    NumPaginas,         \* the pages of each process
    EntradasPorTabla,   \* ENTRADAS_POR_TABLA
    NumMarcos,          \* TAM_MEMORIA / TAM_PAGINA
    AlgoritmoReemplazo, \* ALGORITMO_REEMPLAZO: "CLOCK" or "CLOCK-M"
    Datos,              \* the values of a datum
    Cero,               \* the datum of a page of a new swap file
    NADIE               \* no process

ASSUME TablasAssumption ==
    /\ NumPaginas \in Nat \ {0}
    /\ EntradasPorTabla \in Nat \ {0}
    /\ NumMarcos \in Nat \ {0}
    /\ AlgoritmoReemplazo \in {"CLOCK", "CLOCK-M"}
    /\ Cero \in Datos
    /\ NADIE \notin Procesos

Paginas == 0 .. NumPaginas - 1

MarcosFisicos == 0 .. NumMarcos - 1

numero_de_tabla(pagina) == pagina \div EntradasPorTabla
numero_de_pagina(pagina) == pagina % EntradasPorTabla

\* Where a page of a table is in the swap file, counted in pages.
PosicionSwap(tabla, pagina) == tabla * EntradasPorTabla + pagina

\* The positions the code computes: of reads, and of writes.
PosicionesSwap == 0 .. 2 * NumPaginas

PaginaNueva == [marco |-> 0, presencia |-> FALSE, uso |-> FALSE, modificado |-> FALSE]

TablaNueva == [paginas |-> [g \in Paginas |-> PaginaNueva],
               asignadas |-> <<>>, puntero |-> 0]

MemoriaInicial ==
    [tabla |-> [p \in Procesos |-> TablaNueva],
     registro |-> [f \in MarcosFisicos |->
                     [asignado |-> FALSE, tabla |-> NADIE, pagina |-> 0]],
     marco |-> [f \in MarcosFisicos |-> Cero],
     swap |-> [p \in Procesos |-> [s \in PosicionesSwap |-> Cero]]]

-----------------------------------------------------------------------------
\* iniciar_nuevo_proceso: new tables, none of whose pages is present, and a new
\* swap file.
iniciar_nuevo_proceso(m, p) ==
    [m EXCEPT !.tabla[p] = TablaNueva, !.swap[p] = [s \in PosicionesSwap |-> Cero]]

\* buscar_marco_libre, when there is a free frame.
buscar_marco_libre(m) ==
    Primero({f \in MarcosFisicos : ~m.registro[f].asignado})

leer_pagina_swap(m, p, tabla, pagina) == m.swap[p][PosicionSwap(tabla, pagina)]

\* The pages in paginas_asignadas are numbered in the whole process, not in their
\* table, and so is the page the code passes to escribir_pagina_swap.
EscribirEnSwap(m, p, pagina) ==
    [m.swap EXCEPT ![p][PosicionSwap(numero_de_tabla(pagina), pagina)] =
        m.marco[m.tabla[p].paginas[pagina].marco]]

\* Slip: the new page gets the content that the frame had.
CargarSinLeer(m, p, pagina, f) ==
    [m EXCEPT !.tabla[p].paginas[pagina] = [@ EXCEPT !.marco = f,
                                                     !.presencia = TRUE,
                                                     !.uso = TRUE],
              !.registro[f] = [asignado |-> TRUE, tabla |-> p, pagina |-> pagina]]

\* The page comes from swap into the frame.
Cargar(m, p, pagina, f) ==
    [m EXCEPT !.tabla[p].paginas[pagina] = [@ EXCEPT !.marco = f,
                                                     !.presencia = TRUE,
                                                     !.uso = TRUE],
              !.registro[f] = [asignado |-> TRUE, tabla |-> p, pagina |-> pagina],
              !.marco[f] = leer_pagina_swap(m, p, numero_de_tabla(pagina),
                                            numero_de_pagina(pagina))]

\* asignar_marco_y_cargar_pagina_de_swap.
asignar_marco(m, p, pagina) ==
    LET m1 == Cargar(m, p, pagina, buscar_marco_libre(m))
    IN  [m1 EXCEPT !.tabla[p].asignadas = Append(@, pagina),
                   !.tabla[p].puntero = Desde(@, 1)]

Bit(m, p, campo) ==
    [i \in Indices |-> LET t == m.tabla[p] IN t.paginas[t.asignadas[i + 1]][campo]]

SeleccionarVictima(m, p) ==
    LET puntero == m.tabla[p].puntero
        uso == Bit(m, p, "uso")
        modificado == Bit(m, p, "modificado")
    IN  IF AlgoritmoReemplazo = "CLOCK" THEN VictimaClock(puntero, uso, modificado)
        ELSE VictimaClockM(puntero, uso, modificado)

\* Slip: the victim is not written back.
ReemplazarSinEscribir(m, p, pagina) ==
    LET v == SeleccionarVictima(m, p)
        victima == m.tabla[p].asignadas[v.puntero + 1]
        m1 == [m EXCEPT !.tabla[p].paginas[victima].presencia = FALSE]
        m2 == Cargar(m1, p, pagina, m.tabla[p].paginas[victima].marco)
    IN  [m2 EXCEPT !.tabla[p].asignadas[v.puntero + 1] = pagina,
                   !.tabla[p].puntero = Desde(v.puntero, 1)]

\* reemplazar_pagina_de_swap_a_memoria: the victim is written back if it was
\* modified, and its frame gets the new page.
reemplazar_pagina(m, p, pagina) ==
    LET v == SeleccionarVictima(m, p)
        asignadas == m.tabla[p].asignadas
        victima == asignadas[v.puntero + 1]
        barridas == {asignadas[i + 1] : i \in v.barridos}
        m1 == [m EXCEPT
                  !.tabla[p].paginas = [g \in Paginas |->
                      IF g \in barridas THEN [@[g] EXCEPT !.uso = FALSE] ELSE @[g]],
                  !.swap = IF m.tabla[p].paginas[victima].modificado
                           THEN EscribirEnSwap(m, p, victima) ELSE @]
        m2 == [m1 EXCEPT !.tabla[p].paginas[victima] =
                  [@ EXCEPT !.modificado = FALSE, !.presencia = FALSE]]
        m3 == Cargar(m2, p, pagina, m.tabla[p].paginas[victima].marco)
    IN  [m3 EXCEPT !.tabla[p].asignadas[v.puntero + 1] = pagina,
                   !.tabla[p].puntero = Desde(v.puntero, 1)]

\* The page takes a free frame while the process has fewer than MARCOS_POR_PROCESO,
\* and else the frame of another of its pages.
cargar_pagina_de_swap_a_memoria(m, p, pagina) ==
    IF Len(m.tabla[p].asignadas) < Marcos THEN asignar_marco(m, p, pagina)
    ELSE reemplazar_pagina(m, p, pagina)

\* The state with the page in memory, brought there if it was not.
Presente(m, p, pagina) ==
    IF m.tabla[p].paginas[pagina].presencia THEN m
    ELSE cargar_pagina_de_swap_a_memoria(m, p, pagina)

MarcoDe(m, p, pagina) == m.tabla[p].paginas[pagina].marco

escribir_en_pagina(m, p, pagina, dato) ==
    LET m1 == Presente(m, p, pagina)
    IN  [m1 EXCEPT !.marco[MarcoDe(m1, p, pagina)] = dato,
                   !.tabla[p].paginas[pagina] = [@ EXCEPT !.uso = TRUE,
                                                          !.modificado = TRUE]]

\* The state leer_en_pagina leaves; its answer is the content of the page's frame.
leer_en_pagina(m, p, pagina) ==
    [Presente(m, p, pagina) EXCEPT !.tabla[p].paginas[pagina].uso = TRUE]

EnMarcos(m, p) == {g \in Paginas : \E i \in 1 .. Len(m.tabla[p].asignadas) :
                                        m.tabla[p].asignadas[i] = g}

Liberar(m, p) ==
    [f \in MarcosFisicos |->
        IF \E g \in EnMarcos(m, p) : MarcoDe(m, p, g) = f
        THEN [m.registro[f] EXCEPT !.asignado = FALSE] ELSE m.registro[f]]

\* Slip: the bits of the pages written to swap are left as they were.
SuspenderSinLimpiar(m, p) ==
    [m EXCEPT
        !.tabla[p] = [@ EXCEPT !.asignadas = <<>>, !.puntero = 0],
        !.registro = Liberar(m, p),
        !.swap[p] = [s \in PosicionesSwap |->
            IF \E g \in EnMarcos(m, p) : PosicionSwap(numero_de_tabla(g), g) = s
            THEN m.marco[MarcoDe(m, p, CHOOSE g \in EnMarcos(m, p) :
                            PosicionSwap(numero_de_tabla(g), g) = s)]
            ELSE @[s]]]

\* Slip: the frames are not given back.
SuspenderSinLiberar(m, p) ==
    [m EXCEPT !.tabla[p] = TablaNueva,
              !.swap[p] = [s \in PosicionesSwap |->
                  IF \E g \in EnMarcos(m, p) : PosicionSwap(numero_de_tabla(g), g) = s
                  THEN m.marco[MarcoDe(m, p, CHOOSE g \in EnMarcos(m, p) :
                                  PosicionSwap(numero_de_tabla(g), g) = s)]
                  ELSE @[s]]]

\* Every page in memory is written to swap, modified or not, and its frame freed.
suspender_proceso(m, p) ==
    [m EXCEPT
        !.tabla[p] = [paginas |-> [g \in Paginas |->
                                      IF g \in EnMarcos(m, p)
                                      THEN [PaginaNueva EXCEPT !.marco = MarcoDe(m, p, g)]
                                      ELSE @.paginas[g]],
                      asignadas |-> <<>>, puntero |-> 0],
        !.registro = Liberar(m, p),
        !.swap[p] = [s \in PosicionesSwap |->
            IF \E g \in EnMarcos(m, p) : PosicionSwap(numero_de_tabla(g), g) = s
            THEN m.marco[MarcoDe(m, p, CHOOSE g \in EnMarcos(m, p) :
                            PosicionSwap(numero_de_tabla(g), g) = s)]
            ELSE @[s]]]

\* Slip: the frames stay assigned.
FinalizarSinLiberar(m, p) == [m EXCEPT !.tabla[p].asignadas = <<>>]

finalizar_proceso(m, p) ==
    [m EXCEPT !.tabla[p].asignadas = <<>>, !.registro = Liberar(m, p)]

=============================================================================
