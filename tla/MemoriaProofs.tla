--------------------------- MODULE MemoriaProofs ---------------------------
(***************************************************************************)
(* Proofs about the memory server, for any set of processes, any number of *)
(* pages and frames, both replacement algorithms and both kinds of TLB.    *)
(***************************************************************************)
EXTENDS Memoria, FiniteSetTheorems, WellFoundedInduction, TLAPS

(***************************************************************************)
(* Numbers.                                                                *)
(***************************************************************************)
\* A non-empty set of natural numbers has a first one, which Primero gives. (The
\* initial segments 0 .. n are ordered by strict inclusion, which is well founded.)
LEMMA PrimeroDelConjunto ==
    ASSUME NEW S \in SUBSET Nat, S # {}
    PROVE  Primero(S) \in S /\ \A j \in S : Primero(S) <= j
<1> DEFINE R == StrictSubsetOrdering(Nat)
           Segmentos == {0 .. n : n \in S}
<1>1. IsWellFoundedOn(R, FiniteSubsetsOf(Nat))
  BY FS_StrictSubsetOrderingWellFounded
<1>2. Segmentos # {} /\ Segmentos \subseteq FiniteSubsetsOf(Nat)
  <2>1. \A n \in Nat : 0 .. n \in SUBSET Nat /\ IsFiniteSet(0 .. n)
    BY FS_Interval
  <2>2. \A n \in Nat : 0 .. n \in FiniteSubsetsOf(Nat)
    BY <2>1 DEF FiniteSubsetsOf
  <2> QED BY <2>2
<1> HIDE DEF R
<1>3. \E I \in Segmentos : \A J \in Segmentos : ~ (<<J, I>> \in R)
  <2> HIDE DEF Segmentos
  <2> QED BY <1>1, <1>2, WFMin
<1>4. PICK i \in S : \A j \in S : ~ (<<0 .. j, 0 .. i>> \in R)
  BY <1>3
<1>5. ASSUME NEW j \in S, j < i PROVE FALSE
  <2>1. 0 .. j \subseteq 0 .. i /\ i \in 0 .. i /\ i \notin 0 .. j
    BY <1>5
  <2>2. <<0 .. j, 0 .. i>> \in R
    BY <2>1 DEF R, StrictSubsetOrdering
  <2> QED BY <1>4, <2>2
<1>6. \E k \in S : \A j \in S : k <= j
  BY <1>5
<1> QED BY <1>6 DEF Primero

\* Around the circle of the frames of a process.
LEMMA DesdeTyped ==
    ASSUME NEW puntero \in Nat, NEW i \in Nat
    PROVE  Desde(puntero, i) \in Indices
<1>1. Marcos \in Nat /\ Marcos > 0 /\ puntero + i \in Nat
  BY MarcosAssumption
<1>2. (puntero + i) % Marcos \in 0 .. Marcos - 1
  BY <1>1
<1> QED BY <1>2 DEF Desde, Indices

\* seleccionar_pagina_victima_clock and seleccionar_pagina_victima_clock_M stop at a
\* frame of the process, and pass only frames of it.
LEMMA VictimaTyped ==
    ASSUME NEW m, NEW p, m.tabla[p].puntero \in Indices
    PROVE  /\ SeleccionarVictima(m, p).puntero \in Indices
           /\ SeleccionarVictima(m, p).barridos \subseteq Indices
<1> DEFINE puntero == m.tabla[p].puntero
           uso == Bit(m, p, "uso")
           modificado == Bit(m, p, "modificado")
<1>1. puntero \in Nat /\ Indices \subseteq Nat /\ 0 \in Indices
  BY MarcosAssumption DEF Indices
<1> HIDE DEF puntero, uso, modificado
<1>2. \A i \in Nat : /\ Hasta(puntero, i).puntero \in Indices
                     /\ Hasta(puntero, i).barridos \subseteq Indices
                     /\ VueltaEntera(puntero, i).puntero \in Indices
                     /\ VueltaEntera(puntero, i).barridos \subseteq Indices
  <2> TAKE i \in Nat
  <2>1. \A j \in 0 .. i - 1 : j \in Nat
    OBVIOUS
  <2> QED BY <1>1, <2>1, DesdeTyped DEF Hasta, VueltaEntera
<1>3. \A S \in SUBSET Indices : S # {} => Primero(S) \in Nat
  BY <1>1, PrimeroDelConjunto
<1>4. /\ VictimaClock(puntero, uso, modificado).puntero \in Indices
      /\ VictimaClock(puntero, uso, modificado).barridos \subseteq Indices
  <2> DEFINE sinUso == {i \in Indices : ~uso[Desde(puntero, i)]}
  <2>1. sinUso \in SUBSET Indices
    OBVIOUS
  <2>2. VictimaClock(puntero, uso, modificado)
           = IF sinUso # {} THEN Hasta(puntero, Primero(sinUso))
             ELSE VueltaEntera(puntero, 0)
    BY DEF VictimaClock
  <2> HIDE DEF sinUso
  <2> QED BY <1>2, <1>3, <2>1, <2>2
<1>5. /\ VictimaClockM(puntero, uso, modificado).puntero \in Indices
      /\ VictimaClockM(puntero, uso, modificado).barridos \subseteq Indices
  <2> DEFINE Clase(u, n) == {i \in Indices : /\ uso[Desde(puntero, i)] = u
                                             /\ modificado[Desde(puntero, i)] = n}
             a == Clase(FALSE, FALSE)
             b == Clase(FALSE, TRUE)
             c == Clase(TRUE, FALSE)
  <2>1. a \in SUBSET Indices /\ b \in SUBSET Indices /\ c \in SUBSET Indices
    OBVIOUS
  <2>2. VictimaClockM(puntero, uso, modificado)
           = IF a # {} THEN [puntero |-> Desde(puntero, Primero(a)), barridos |-> {}]
             ELSE IF b # {} THEN Hasta(puntero, Primero(b))
             ELSE VueltaEntera(puntero, IF c # {} THEN Primero(c) ELSE 0)
    BY DEF VictimaClockM
  <2> HIDE DEF a, b, c
  <2>3. CASE a # {}
    <3>1. Desde(puntero, Primero(a)) \in Indices
      BY <1>1, <1>3, <2>1, <2>3, DesdeTyped
    <3> QED BY <2>2, <2>3, <3>1
  <2>4. CASE a = {} /\ b # {}
    <3>1. Primero(b) \in Nat
      BY <1>3, <2>1, <2>4
    <3> QED BY <1>2, <2>2, <2>4, <3>1
  <2>5. CASE a = {} /\ b = {}
    <3>1. (IF c # {} THEN Primero(c) ELSE 0) \in Nat
      BY <1>3, <2>1
    <3> QED BY <1>2, <2>2, <2>5, <3>1
  <2> QED BY <2>3, <2>4, <2>5
<1> QED BY <1>4, <1>5 DEF SeleccionarVictima, puntero, uso, modificado

\* A page number is the place of the page in its table after the tables before it.
LEMMA PosicionDeLaPagina ==
    ASSUME NEW g \in Paginas
    PROVE  /\ PosicionSwap(numero_de_tabla(g), numero_de_pagina(g)) = g
           /\ g \in PosicionesSwap
<1>1. g \in Nat /\ EntradasPorTabla \in Nat /\ EntradasPorTabla > 0
      /\ NumPaginas \in Nat /\ g < NumPaginas
  BY TablasAssumption DEF Paginas
<1>2. (g \div EntradasPorTabla) * EntradasPorTabla + (g % EntradasPorTabla) = g
  BY <1>1
<1> QED BY <1>1, <1>2 DEF PosicionSwap, numero_de_tabla, numero_de_pagina,
                          PosicionesSwap

(***************************************************************************)
(* What the functions of tablas.c do, in terms of the entry of a page and  *)
(* of the assigned pages of a process.                                     *)
(***************************************************************************)
Pag(m, p, g) == m.tabla[p].paginas[g]

Asig(m, p) == m.tabla[p].asignadas

Entradas == [marco : MarcosFisicos, presencia : BOOLEAN, uso : BOOLEAN,
             modificado : BOOLEAN]

Registros == [asignado : BOOLEAN, tabla : Procesos \cup {NADIE}, pagina : Paginas]

Tabla == [paginas : [Paginas -> Entradas], asignadas : Seq(Paginas), puntero : Indices]

Memorias == [tabla : [Procesos -> Tabla], registro : [MarcosFisicos -> Registros],
             marco : [MarcosFisicos -> Datos],
             swap : [Procesos -> [PosicionesSwap -> Datos]]]

LEMMA PartesDeMemoria ==
    ASSUME NEW m \in Memorias, NEW p \in Procesos
    PROVE  /\ m.tabla \in [Procesos -> Tabla] /\ m.tabla[p] \in Tabla
           /\ m.tabla[p].paginas \in [Paginas -> Entradas]
           /\ Asig(m, p) \in Seq(Paginas) /\ m.tabla[p].puntero \in Indices
           /\ \A g \in Paginas : Pag(m, p, g) \in Entradas
           /\ m.registro \in [MarcosFisicos -> Registros]
           /\ m.marco \in [MarcosFisicos -> Datos]
           /\ m.swap \in [Procesos -> [PosicionesSwap -> Datos]]
BY DEF Memorias, Tabla, Pag, Asig

LEMMA LecturaTyped ==
    ASSUME NEW m \in Memorias, NEW p \in Procesos, NEW g \in Paginas
    PROVE  /\ leer_pagina_swap(m, p, numero_de_tabla(g), numero_de_pagina(g))
                 = m.swap[p][g]
           /\ m.swap[p][g] \in Datos
BY PartesDeMemoria, PosicionDeLaPagina DEF leer_pagina_swap

LEMMA PaginaNuevaTyped == PaginaNueva \in Entradas
BY TablasAssumption DEF PaginaNueva, Entradas, MarcosFisicos

LEMMA TablaNuevaTyped == TablaNueva \in Tabla
BY PaginaNuevaTyped, MarcosAssumption DEF TablaNueva, Tabla, Indices

\* Process p gets page g in frame f, which nobody else sees.
Entra(m, n, p, g, f) ==
    /\ \A q \in Procesos \ {p} : n.tabla[q] = m.tabla[q] /\ n.swap[q] = m.swap[q]
    /\ Pag(n, p, g).marco = f /\ Pag(n, p, g).presencia
    /\ Pag(n, p, g).modificado = Pag(m, p, g).modificado
    /\ n.registro[f] = [asignado |-> TRUE, tabla |-> p, pagina |-> g]
    /\ \A e \in MarcosFisicos \ {f} :
          n.registro[e] = m.registro[e] /\ n.marco[e] = m.marco[e]
    /\ n.marco[f] = n.swap[p][g]

\* A page that neither comes nor goes.
Queda(m, n, p, h) ==
    /\ Pag(n, p, h).presencia = Pag(m, p, h).presencia
    /\ Pag(n, p, h).marco = Pag(m, p, h).marco
    /\ Pag(n, p, h).modificado = Pag(m, p, h).modificado

LEMMA CargarTyped ==
    ASSUME NEW m \in Memorias, NEW p \in Procesos, NEW g \in Paginas,
           NEW f \in MarcosFisicos
    PROVE  /\ Cargar(m, p, g, f) \in Memorias
           /\ Entra(m, Cargar(m, p, g, f), p, g, f)
           /\ \A h \in Paginas \ {g} : Pag(Cargar(m, p, g, f), p, h) = Pag(m, p, h)
           /\ Asig(Cargar(m, p, g, f), p) = Asig(m, p)
           /\ Cargar(m, p, g, f).tabla[p].puntero = m.tabla[p].puntero
           /\ Cargar(m, p, g, f).swap = m.swap
<1> DEFINE n == Cargar(m, p, g, f)
           e == [Pag(m, p, g) EXCEPT !.marco = f, !.presencia = TRUE, !.uso = TRUE]
           d == leer_pagina_swap(m, p, numero_de_tabla(g), numero_de_pagina(g))
           r == [asignado |-> TRUE, tabla |-> p, pagina |-> g]
<1>1. /\ e \in Entradas /\ e.marco = f /\ e.presencia
      /\ e.modificado = Pag(m, p, g).modificado
  <2> DEFINE x == Pag(m, p, g)
  <2>1. x \in Entradas
    BY PartesDeMemoria
  <2> HIDE DEF x
  <2>2. [x EXCEPT !.marco = f, !.presencia = TRUE, !.uso = TRUE] \in Entradas
    BY <2>1, Zenon DEF Entradas
  <2>3. [x EXCEPT !.marco = f, !.presencia = TRUE, !.uso = TRUE].marco = f
    BY <2>1, Zenon DEF Entradas
  <2>4. [x EXCEPT !.marco = f, !.presencia = TRUE, !.uso = TRUE].presencia
    BY <2>1, Zenon DEF Entradas
  <2>5. [x EXCEPT !.marco = f, !.presencia = TRUE, !.uso = TRUE].modificado = x.modificado
    BY <2>1, Zenon DEF Entradas
  <2> QED BY <2>2, <2>3, <2>4, <2>5 DEF x, e
<1>2. d \in Datos /\ d = m.swap[p][g]
  BY LecturaTyped
<1>3. r \in Registros
  BY DEF Registros
<1>4. n = [m EXCEPT !.tabla[p].paginas[g] = e, !.registro[f] = r, !.marco[f] = d]
  BY DEF Cargar, Pag
<1> HIDE DEF n, e, d, r
<1>5. /\ n.tabla = [m.tabla EXCEPT ![p].paginas[g] = e]
      /\ n.registro = [m.registro EXCEPT ![f] = r]
      /\ n.marco = [m.marco EXCEPT ![f] = d]
      /\ n.swap = m.swap
      /\ n = [tabla |-> n.tabla, registro |-> n.registro, marco |-> n.marco,
              swap |-> n.swap]
  BY <1>4 DEF Memorias
<1>6. /\ n.tabla \in [Procesos -> Tabla]
      /\ n.tabla[p].paginas = [m.tabla[p].paginas EXCEPT ![g] = e]
      /\ n.tabla[p].asignadas = m.tabla[p].asignadas
      /\ n.tabla[p].puntero = m.tabla[p].puntero
      /\ \A q \in Procesos \ {p} : n.tabla[q] = m.tabla[q]
  <2>1. n.tabla = [m.tabla EXCEPT ![p] =
                      [m.tabla[p] EXCEPT !.paginas = [m.tabla[p].paginas EXCEPT ![g] = e]]]
    BY <1>5
  <2>2. [m.tabla[p].paginas EXCEPT ![g] = e] \in [Paginas -> Entradas]
    BY <1>1, PartesDeMemoria
  <2>3. n.tabla[p] = [m.tabla[p] EXCEPT !.paginas = [m.tabla[p].paginas EXCEPT ![g] = e]]
    BY <2>1, PartesDeMemoria
  <2>4. n.tabla[p] = [paginas |-> [m.tabla[p].paginas EXCEPT ![g] = e],
                      asignadas |-> m.tabla[p].asignadas, puntero |-> m.tabla[p].puntero]
    BY <2>3, PartesDeMemoria DEF Tabla
  <2>5. n.tabla[p] \in Tabla
    BY <2>2, <2>4, PartesDeMemoria DEF Tabla, Asig
  <2> QED BY <2>1, <2>4, <2>5, PartesDeMemoria
<1>7. n \in Memorias
  <2>1. n.registro \in [MarcosFisicos -> Registros] /\ n.marco \in [MarcosFisicos -> Datos]
    BY <1>2, <1>3, <1>5, PartesDeMemoria
  <2> QED BY <1>5, <1>6, <2>1, PartesDeMemoria DEF Memorias
<1>8. Pag(n, p, g) = e /\ \A h \in Paginas \ {g} : Pag(n, p, h) = Pag(m, p, h)
  BY <1>6, PartesDeMemoria DEF Pag
<1>9. Entra(m, n, p, g, f)
  BY <1>1, <1>2, <1>5, <1>6, <1>8, PartesDeMemoria DEF Entra, r
<1> QED BY <1>5, <1>6, <1>7, <1>8, <1>9 DEF n, Asig

\* Writing the assigned pages of a process and its pointer.
Reasignada(m, n, p, s) ==
    /\ n \in Memorias
    /\ Asig(n, p) = s
    /\ \A h \in Paginas : Pag(n, p, h) = Pag(m, p, h)
    /\ \A q \in Procesos \ {p} : n.tabla[q] = m.tabla[q]
    /\ n.registro = m.registro /\ n.marco = m.marco /\ n.swap = m.swap

LEMMA AsignadasTyped ==
    ASSUME NEW m \in Memorias, NEW p \in Procesos, NEW s \in Seq(Paginas),
           NEW k \in Indices
    PROVE  Reasignada(m, [m EXCEPT !.tabla[p].asignadas = s, !.tabla[p].puntero = k], p, s)
<1> DEFINE n == [m EXCEPT !.tabla[p].asignadas = s, !.tabla[p].puntero = k]
           t == [m.tabla[p] EXCEPT !.asignadas = s, !.puntero = k]
<1>0. n = [m EXCEPT !.tabla[p].asignadas = s, !.tabla[p].puntero = k]
  OBVIOUS
<1> HIDE DEF n
<1>1. /\ n.tabla = [m.tabla EXCEPT ![p].asignadas = s, ![p].puntero = k]
      /\ n.registro = m.registro /\ n.marco = m.marco /\ n.swap = m.swap
      /\ n = [tabla |-> n.tabla, registro |-> n.registro, marco |-> n.marco,
              swap |-> n.swap]
  BY <1>0 DEF Memorias
<1>2. t.paginas = m.tabla[p].paginas /\ t.asignadas = s
  BY PartesDeMemoria DEF Tabla
<1>3. t \in Tabla
  <2> DEFINE x == m.tabla[p]
  <2>1. x \in Tabla
    BY PartesDeMemoria
  <2> HIDE DEF x
  <2>2. [x EXCEPT !.asignadas = s, !.puntero = k] \in Tabla
    BY <2>1, Zenon DEF Tabla
  <2> QED BY <2>2 DEF x
<1>4. n.tabla = [m.tabla EXCEPT ![p] = t]
  BY <1>1, PartesDeMemoria
<1> HIDE DEF t
<1>5. n.tabla \in [Procesos -> Tabla] /\ n.tabla[p] = t
      /\ \A q \in Procesos \ {p} : n.tabla[q] = m.tabla[q]
  <2>1. m.tabla \in [Procesos -> Tabla]
    BY DEF Memorias
  <2> QED BY <1>3, <1>4, <2>1
<1>6. n \in Memorias
  BY <1>1, <1>5, PartesDeMemoria DEF Memorias
<1> QED BY <1>1, <1>2, <1>5, <1>6 DEF Asig, Pag, Reasignada, n

\* asignar_marco_y_cargar_pagina_de_swap.
LEMMA AsignarMarco ==
    ASSUME NEW m \in Memorias, NEW p \in Procesos, NEW g \in Paginas,
           buscar_marco_libre(m) \in MarcosFisicos
    PROVE  LET n == asignar_marco(m, p, g)
           IN  /\ n \in Memorias
               /\ Entra(m, n, p, g, buscar_marco_libre(m))
               /\ \A h \in Paginas \ {g} : Pag(n, p, h) = Pag(m, p, h)
               /\ Asig(n, p) = Append(Asig(m, p), g)
               /\ n.swap = m.swap
<1> DEFINE n == asignar_marco(m, p, g)
           f == buscar_marco_libre(m)
           m1 == Cargar(m, p, g, f)
           s == Append(m1.tabla[p].asignadas, g)
           k == Desde(m1.tabla[p].puntero, 1)
<1>1. n = [m1 EXCEPT !.tabla[p].asignadas = s, !.tabla[p].puntero = k]
  <2>1. n = [m1 EXCEPT !.tabla[p].asignadas = Append(@, g),
                       !.tabla[p].puntero = Desde(@, 1)]
    BY DEF asignar_marco
  <2>2. m1 \in Memorias
    BY CargarTyped
  <2> HIDE DEF m1, n
  <2> QED BY <2>1, <2>2, PartesDeMemoria DEF Memorias, Tabla
<1> HIDE DEF n, f
<1>2. /\ m1 \in Memorias /\ Entra(m, m1, p, g, f)
      /\ \A h \in Paginas \ {g} : Pag(m1, p, h) = Pag(m, p, h)
      /\ Asig(m1, p) = Asig(m, p) /\ m1.swap = m.swap
  BY CargarTyped DEF f
<1> HIDE DEF m1
<1>3. s \in Seq(Paginas) /\ s = Append(Asig(m, p), g)
  <2>1. Asig(m, p) \in Seq(Paginas) /\ m1.tabla[p].asignadas = Asig(m, p)
    BY <1>2, PartesDeMemoria DEF Asig
  <2> QED BY <2>1
<1>4. k \in Indices
  <2>1. m1.tabla[p].puntero \in Nat
    BY <1>2, PartesDeMemoria, MarcosAssumption DEF Indices
  <2> QED BY <2>1, DesdeTyped
<1> HIDE DEF s, k
<1>5. Reasignada(m1, n, p, s)
  BY <1>1, <1>2, <1>3, <1>4, AsignadasTyped
<1>6. Entra(m, n, p, g, f)
  BY <1>2, <1>5 DEF Entra, Reasignada
<1> QED BY <1>2, <1>3, <1>5, <1>6 DEF Reasignada, n, f

\* The bits of a page are written; it stays the entry of a page.
LEMMA EntradasEscritas ==
    ASSUME NEW x \in Entradas
    PROVE  /\ LET y == [x EXCEPT !.uso = FALSE]
              IN  /\ y \in Entradas /\ y.marco = x.marco
                  /\ y.presencia = x.presencia /\ y.modificado = x.modificado
           /\ LET y == [x EXCEPT !.uso = TRUE]
              IN  /\ y \in Entradas /\ y.marco = x.marco
                  /\ y.presencia = x.presencia /\ y.modificado = x.modificado
           /\ LET y == [x EXCEPT !.uso = TRUE, !.modificado = TRUE]
              IN  /\ y \in Entradas /\ y.marco = x.marco
                  /\ y.presencia = x.presencia /\ y.modificado
           /\ LET y == [x EXCEPT !.modificado = FALSE, !.presencia = FALSE]
              IN  y \in Entradas /\ ~y.presencia
<1>1. LET y == [x EXCEPT !.uso = FALSE]
      IN  /\ y \in Entradas /\ y.marco = x.marco
          /\ y.presencia = x.presencia /\ y.modificado = x.modificado
  BY Zenon DEF Entradas
<1>2. LET y == [x EXCEPT !.uso = TRUE]
      IN  /\ y \in Entradas /\ y.marco = x.marco
          /\ y.presencia = x.presencia /\ y.modificado = x.modificado
  BY Zenon DEF Entradas
<1>3. LET y == [x EXCEPT !.uso = TRUE, !.modificado = TRUE]
      IN  /\ y \in Entradas /\ y.marco = x.marco
          /\ y.presencia = x.presencia /\ y.modificado
  BY Zenon DEF Entradas
<1>4. LET y == [x EXCEPT !.modificado = FALSE, !.presencia = FALSE]
      IN  y \in Entradas /\ ~y.presencia
  BY Zenon DEF Entradas
<1> QED BY <1>1, <1>2, <1>3, <1>4

\* Writing the entries of the pages of a process.
Repaginada(m, n, p, ps) ==
    /\ n \in Memorias
    /\ n.tabla[p].paginas = ps /\ Asig(n, p) = Asig(m, p)
    /\ n.tabla[p].puntero = m.tabla[p].puntero
    /\ \A q \in Procesos \ {p} : n.tabla[q] = m.tabla[q]
    /\ n.registro = m.registro /\ n.marco = m.marco /\ n.swap = m.swap

LEMMA PaginasTyped ==
    ASSUME NEW m \in Memorias, NEW p \in Procesos, NEW ps \in [Paginas -> Entradas]
    PROVE  Repaginada(m, [m EXCEPT !.tabla[p].paginas = ps], p, ps)
<1> DEFINE n == [m EXCEPT !.tabla[p].paginas = ps]
           t == [m.tabla[p] EXCEPT !.paginas = ps]
<1>0. n = [m EXCEPT !.tabla[p].paginas = ps]
  OBVIOUS
<1> HIDE DEF n
<1>1. /\ n.tabla = [m.tabla EXCEPT ![p] = t]
      /\ n.registro = m.registro /\ n.marco = m.marco /\ n.swap = m.swap
      /\ n = [tabla |-> n.tabla, registro |-> n.registro, marco |-> n.marco,
              swap |-> n.swap]
  BY <1>0 DEF Memorias
<1>2. /\ t.paginas = ps /\ t.asignadas = m.tabla[p].asignadas
      /\ t.puntero = m.tabla[p].puntero
  BY PartesDeMemoria DEF Tabla
<1>3. t \in Tabla
  <2> DEFINE x == m.tabla[p]
  <2>1. x \in Tabla
    BY PartesDeMemoria
  <2> HIDE DEF x
  <2>2. [x EXCEPT !.paginas = ps] \in Tabla
    BY <2>1, Zenon DEF Tabla
  <2> QED BY <2>2 DEF x
<1> HIDE DEF t
<1>4. n.tabla \in [Procesos -> Tabla] /\ n.tabla[p] = t
      /\ \A q \in Procesos \ {p} : n.tabla[q] = m.tabla[q]
  <2>1. m.tabla \in [Procesos -> Tabla]
    BY DEF Memorias
  <2> QED BY <1>1, <1>3, <2>1
<1>5. n \in Memorias
  BY <1>1, <1>4, PartesDeMemoria DEF Memorias
<1> QED BY <1>1, <1>2, <1>4, <1>5 DEF Asig, Repaginada, n

\* reemplazar_pagina_de_swap_a_memoria: page g takes the frame of the page at place k.
Reemplaza(m, n, p, g, k) ==
    LET victima == Asig(m, p)[k]
        f == Pag(m, p, victima).marco
    IN  /\ n \in Memorias
        /\ Entra(m, n, p, g, f)
        /\ ~Pag(n, p, victima).presencia
        /\ \A h \in Paginas \ {g, victima} : Queda(m, n, p, h)
        /\ Asig(n, p) = [Asig(m, p) EXCEPT ![k] = g]
        /\ n.swap[p] = IF Pag(m, p, victima).modificado
                       THEN [m.swap[p] EXCEPT
                               ![PosicionSwap(numero_de_tabla(victima), victima)] =
                                   m.marco[f]]
                       ELSE m.swap[p]

LEMMA ReemplazarPagina ==
    ASSUME NEW m \in Memorias, NEW p \in Procesos, NEW g \in Paginas,
           Len(Asig(m, p)) = Marcos, \A i \in 1 .. Marcos : Asig(m, p)[i] # g
    PROVE  \E k \in 1 .. Marcos : Reemplaza(m, reemplazar_pagina(m, p, g), p, g, k)
<1> DEFINE v == SeleccionarVictima(m, p)
           k == v.puntero + 1
           w == Asig(m, p)[k]
           f == Pag(m, p, w).marco
           barridas == {Asig(m, p)[i + 1] : i \in v.barridos}
           ps1 == [h \in Paginas |-> IF h \in barridas
                                     THEN [m.tabla[p].paginas[h] EXCEPT !.uso = FALSE]
                                     ELSE m.tabla[p].paginas[h]]
           sw == IF Pag(m, p, w).modificado THEN EscribirEnSwap(m, p, w) ELSE m.swap
           m1 == [m EXCEPT !.tabla[p].paginas = ps1, !.swap = sw]
           e2 == [m1.tabla[p].paginas[w] EXCEPT !.modificado = FALSE, !.presencia = FALSE]
           ps2 == [m1.tabla[p].paginas EXCEPT ![w] = e2]
           m2 == [m1 EXCEPT !.tabla[p].paginas = ps2]
           m3 == Cargar(m2, p, g, f)
           s == [m3.tabla[p].asignadas EXCEPT ![k] = g]
           j == Desde(v.puntero, 1)
           n == reemplazar_pagina(m, p, g)
<1>1. n = [m3 EXCEPT !.tabla[p].asignadas = s, !.tabla[p].puntero = j]
  BY DEF reemplazar_pagina, Pag, Asig
<1>2. /\ v.puntero \in Nat /\ k \in 1 .. Marcos /\ w \in Paginas /\ w # g
      /\ f \in MarcosFisicos /\ j \in Indices
  <2>1. v.puntero \in Indices
    BY PartesDeMemoria, VictimaTyped
  <2> HIDE DEF v
  <2>2. v.puntero \in Nat /\ k \in 1 .. Marcos
    BY <2>1, MarcosAssumption DEF Indices
  <2>3. w \in Paginas /\ w # g
    BY <2>2, PartesDeMemoria
  <2> HIDE DEF w
  <2>4. f \in MarcosFisicos
    BY <2>3, PartesDeMemoria DEF Entradas
  <2>5. j \in Indices
    BY <2>2, DesdeTyped
  <2> QED BY <2>2, <2>3, <2>4, <2>5
<1> HIDE DEF v, k, w, f, barridas, n, j
<1>3. /\ ps1 \in [Paginas -> Entradas]
      /\ \A h \in Paginas : /\ ps1[h].marco = Pag(m, p, h).marco
                            /\ ps1[h].presencia = Pag(m, p, h).presencia
                            /\ ps1[h].modificado = Pag(m, p, h).modificado
  <2>1. \A h \in Paginas : Pag(m, p, h) \in Entradas /\ m.tabla[p].paginas[h] = Pag(m, p, h)
    BY PartesDeMemoria DEF Pag
  <2>2. ASSUME NEW h \in Paginas
        PROVE  /\ ps1[h] \in Entradas /\ ps1[h].marco = Pag(m, p, h).marco
               /\ ps1[h].presencia = Pag(m, p, h).presencia
               /\ ps1[h].modificado = Pag(m, p, h).modificado
    <3> DEFINE x == m.tabla[p].paginas[h]
    <3>1. x \in Entradas /\ x = Pag(m, p, h)
      BY <2>1
    <3>2. ps1[h] = IF h \in barridas THEN [x EXCEPT !.uso = FALSE] ELSE x
      OBVIOUS
    <3> HIDE DEF x, ps1
    <3>3. CASE h \in barridas
      <4>1. LET y == [x EXCEPT !.uso = FALSE]
            IN  /\ y \in Entradas /\ y.marco = x.marco
                /\ y.presencia = x.presencia /\ y.modificado = x.modificado
        BY <3>1, EntradasEscritas, Zenon
      <4> QED BY <3>1, <3>2, <3>3, <4>1
    <3>4. CASE h \notin barridas
      BY <3>1, <3>2, <3>4
    <3> QED BY <3>3, <3>4
  <2>3. ps1 = [h \in Paginas |-> ps1[h]]
    OBVIOUS
  <2> HIDE DEF ps1
  <2>4. ps1 \in [Paginas -> Entradas]
    BY <2>2, <2>3
  <2> QED BY <2>2, <2>4
<1> HIDE DEF ps1
<1>4. /\ sw \in [Procesos -> [PosicionesSwap -> Datos]]
      /\ \A q \in Procesos \ {p} : sw[q] = m.swap[q]
      /\ sw[p] = IF Pag(m, p, w).modificado
                 THEN [m.swap[p] EXCEPT ![PosicionSwap(numero_de_tabla(w), w)] = m.marco[f]]
                 ELSE m.swap[p]
  <2>1. m.swap \in [Procesos -> [PosicionesSwap -> Datos]] /\ m.marco[f] \in Datos
    BY <1>2, PartesDeMemoria
  <2>2. EscribirEnSwap(m, p, w)
          = [m.swap EXCEPT ![p][PosicionSwap(numero_de_tabla(w), w)] = m.marco[f]]
    BY DEF EscribirEnSwap, f, Pag
  <2>3. CASE Pag(m, p, w).modificado
    <3> DEFINE x == [m.swap[p] EXCEPT ![PosicionSwap(numero_de_tabla(w), w)] = m.marco[f]]
    <3>1. x \in [PosicionesSwap -> Datos]
      BY <2>1
    <3>2. sw = [m.swap EXCEPT ![p] = x]
      BY <2>2, <2>3
    <3> HIDE DEF x, sw
    <3> QED BY <2>1, <2>3, <3>1, <3>2 DEF x
  <2>4. CASE ~Pag(m, p, w).modificado
    BY <2>1, <2>4
  <2> QED BY <2>3, <2>4
<1> HIDE DEF sw
<1>5. /\ Repaginada([m EXCEPT !.swap = sw], m1, p, ps1)
      /\ m1.swap = sw /\ m1.marco = m.marco /\ m1.registro = m.registro
      /\ \A q \in Procesos \ {p} : m1.tabla[q] = m.tabla[q]
      /\ Asig(m1, p) = Asig(m, p)
  <2> DEFINE m0 == [m EXCEPT !.swap = sw]
  <2>1. m0 \in Memorias /\ m0.tabla = m.tabla /\ m0.marco = m.marco
        /\ m0.registro = m.registro /\ m0.swap = sw
    BY <1>4 DEF Memorias
  <2>2. m1 = [m0 EXCEPT !.tabla[p].paginas = ps1]
    BY DEF Memorias
  <2> HIDE DEF m0, m1
  <2>3. Repaginada(m0, m1, p, ps1)
    BY <1>3, <2>1, <2>2, PaginasTyped, SMTT(30)
  <2> QED BY <2>1, <2>3 DEF Repaginada, Asig, m0
<1> HIDE DEF m1
<1>6. e2 \in Entradas /\ ~e2.presencia
  <2>1. m1.tabla[p].paginas[w] \in Entradas
    BY <1>2, <1>3, <1>5 DEF Repaginada
  <2> QED BY <2>1, EntradasEscritas
<1> HIDE DEF e2
<1>7. /\ m2 \in Memorias /\ Asig(m2, p) = Asig(m, p) /\ m2.swap = sw
      /\ m2.marco = m.marco /\ m2.registro = m.registro
      /\ \A q \in Procesos \ {p} : m2.tabla[q] = m.tabla[q]
      /\ m2.tabla[p].paginas = [ps1 EXCEPT ![w] = e2]
  <2>1. ps2 \in [Paginas -> Entradas] /\ ps2 = [ps1 EXCEPT ![w] = e2]
    BY <1>3, <1>5, <1>6 DEF Repaginada
  <2> HIDE DEF ps2
  <2>2. m1 \in Memorias
    BY <1>5 DEF Repaginada
  <2>3. Repaginada(m1, m2, p, ps2)
    BY <2>1, <2>2, PaginasTyped
  <2> QED BY <1>5, <2>1, <2>3 DEF Repaginada
<1> HIDE DEF m2
<1>8. /\ ~Pag(m2, p, w).presencia
      /\ \A h \in Paginas \ {w} : Pag(m2, p, h) = ps1[h]
  BY <1>2, <1>3, <1>6, <1>7 DEF Pag
<1>9. /\ m3 \in Memorias /\ Entra(m2, m3, p, g, f)
      /\ \A h \in Paginas \ {g} : Pag(m3, p, h) = Pag(m2, p, h)
      /\ Asig(m3, p) = Asig(m, p) /\ m3.swap = sw
  BY <1>2, <1>7, CargarTyped
<1> HIDE DEF m3
<1>10. s \in Seq(Paginas) /\ s = [Asig(m, p) EXCEPT ![k] = g]
  <2>1. Asig(m, p) \in Seq(Paginas) /\ m3.tabla[p].asignadas = Asig(m, p)
    BY <1>9, PartesDeMemoria DEF Asig
  <2> QED BY <1>2, <2>1
<1> HIDE DEF s
<1>11. Reasignada(m3, n, p, s)
  BY <1>1, <1>2, <1>9, <1>10, AsignadasTyped
<1>12. Entra(m, n, p, g, f)
  <2>1. Pag(m2, p, g).modificado = Pag(m, p, g).modificado
    BY <1>2, <1>3, <1>8
  <2> QED BY <1>4, <1>7, <1>9, <1>11, <2>1 DEF Entra, Reasignada
<1>13. ~Pag(n, p, w).presencia
  BY <1>2, <1>8, <1>9, <1>11 DEF Reasignada
<1>14. \A h \in Paginas \ {g, w} : Queda(m, n, p, h)
  BY <1>3, <1>8, <1>9, <1>11 DEF Reasignada, Queda
<1>15. n.swap[p] = sw[p]
  BY <1>9, <1>11 DEF Reasignada
<1>16. Reemplaza(m, n, p, g, k)
  BY <1>4, <1>10, <1>11, <1>12, <1>13, <1>14, <1>15 DEF Reemplaza, Reasignada, w, f
<1> QED BY <1>2, <1>16 DEF n

(***************************************************************************)
(* Frames: who has which.                                                  *)
(***************************************************************************)
\* The assigned pages of a process are its pages in memory, each once, in a frame that
\* is registered to it.
Ordenada(m, p) ==
    /\ Len(Asig(m, p)) <= Marcos
    /\ \A i \in 1 .. Len(Asig(m, p)) : Pag(m, p, Asig(m, p)[i]).presencia
    /\ \A i, j \in 1 .. Len(Asig(m, p)) : Asig(m, p)[i] = Asig(m, p)[j] => i = j
    /\ \A g \in Paginas : Pag(m, p, g).presencia =>
          /\ \E i \in 1 .. Len(Asig(m, p)) : Asig(m, p)[i] = g
          /\ m.registro[Pag(m, p, g).marco]
                = [asignado |-> TRUE, tabla |-> p, pagina |-> g]

\* A frame that is taken holds the page it is registered to, of a process of A.
RegistroFiel(m, A) ==
    \A f \in MarcosFisicos : m.registro[f].asignado =>
        LET p == m.registro[f].tabla
            g == m.registro[f].pagina
        IN  p \in A /\ Pag(m, p, g).presencia /\ Pag(m, p, g).marco = f

LEMMA Registrada ==
    ASSUME NEW m \in Memorias, NEW A \in SUBSET Procesos, RegistroFiel(m, A),
           NEW f \in MarcosFisicos, m.registro[f].asignado
    PROVE  /\ m.registro[f].tabla \in A /\ m.registro[f].pagina \in Paginas
           /\ Pag(m, m.registro[f].tabla, m.registro[f].pagina).presencia
           /\ Pag(m, m.registro[f].tabla, m.registro[f].pagina).marco = f
<1>1. m.registro[f].pagina \in Paginas
  BY DEF Memorias, Registros
<1> QED BY <1>1 DEF RegistroFiel

LEMMA EnMarcosSonPresentes ==
    ASSUME NEW m \in Memorias, NEW p \in Procesos, Ordenada(m, p), NEW g \in Paginas
    PROVE  g \in EnMarcos(m, p) <=> Pag(m, p, g).presencia
BY DEF Ordenada, EnMarcos, Asig

\* A process whose table and registered frames do not change.
LEMMA OrdenadaIgual ==
    ASSUME NEW m, NEW n, NEW p, Ordenada(m, p), n.tabla[p] = m.tabla[p],
           \A g \in Paginas : Pag(m, p, g).presencia =>
              n.registro[Pag(m, p, g).marco] = m.registro[Pag(m, p, g).marco]
    PROVE  Ordenada(n, p)
<1>1. Asig(n, p) = Asig(m, p) /\ \A g : Pag(n, p, g) = Pag(m, p, g)
  BY DEF Asig, Pag
<1> QED BY <1>1 DEF Ordenada

\* A page that comes to a free frame.
LEMMA AsignarOrdenada ==
    ASSUME NEW m \in Memorias, NEW n \in Memorias, NEW A \in SUBSET Procesos,
           NEW p \in A, NEW g \in Paginas, NEW f \in MarcosFisicos,
           RegistroFiel(m, A), Ordenada(m, p),
           ~Pag(m, p, g).presencia, Len(Asig(m, p)) < Marcos, ~m.registro[f].asignado,
           Entra(m, n, p, g, f), \A h \in Paginas \ {g} : Pag(n, p, h) = Pag(m, p, h),
           Asig(n, p) = Append(Asig(m, p), g)
    PROVE  /\ RegistroFiel(n, A)
           /\ \A q \in Procesos : Ordenada(m, q) => Ordenada(n, q)
<1> DEFINE s == Asig(m, p)
           t == Asig(n, p)
<1>1. /\ s \in Seq(Paginas) /\ Len(s) \in Nat /\ Marcos \in Nat
      /\ Len(t) = Len(s) + 1 /\ t[Len(s) + 1] = g
      /\ \A i \in 1 .. Len(s) : t[i] = s[i] /\ s[i] \in Paginas
  <2>1. s \in Seq(Paginas) /\ Marcos \in Nat
    BY PartesDeMemoria, MarcosAssumption
  <2> HIDE DEF s
  <2> QED BY <2>1 DEF s
<1>2. \A i \in 1 .. Len(s) : s[i] # g
  BY DEF Ordenada
<1>3. /\ Pag(n, p, g).presencia /\ Pag(n, p, g).marco = f
      /\ n.registro[f] = [asignado |-> TRUE, tabla |-> p, pagina |-> g]
      /\ \A e \in MarcosFisicos \ {f} : n.registro[e] = m.registro[e]
  BY DEF Entra
<1>4. \A q \in Procesos, h \in Paginas :
         Ordenada(m, q) /\ Pag(m, q, h).presencia =>
            /\ Pag(m, q, h).marco \in MarcosFisicos \ {f}
            /\ m.registro[Pag(m, q, h).marco] = n.registro[Pag(m, q, h).marco]
  <2> SUFFICES ASSUME NEW q \in Procesos, NEW h \in Paginas, Ordenada(m, q),
                      Pag(m, q, h).presencia
               PROVE  /\ Pag(m, q, h).marco \in MarcosFisicos \ {f}
                      /\ m.registro[Pag(m, q, h).marco] = n.registro[Pag(m, q, h).marco]
    OBVIOUS
  <2>1. Pag(m, q, h).marco \in MarcosFisicos
    BY PartesDeMemoria DEF Entradas
  <2>2. m.registro[Pag(m, q, h).marco] = [asignado |-> TRUE, tabla |-> q, pagina |-> h]
    BY DEF Ordenada
  <2>3. m.registro[Pag(m, q, h).marco].asignado
    BY <2>2
  <2>4. Pag(m, q, h).marco # f
    BY <2>3, Zenon
  <2> QED BY <1>3, <2>1, <2>4
<1>5. Ordenada(n, p)
  <2>1. Len(t) <= Marcos
    BY <1>1
  <2>2. \A i \in 1 .. Len(t) : i \in 1 .. Len(s) \/ i = Len(s) + 1
    BY <1>1
  <2>3. \A i \in 1 .. Len(t) : Pag(n, p, t[i]).presencia
    BY <1>1, <1>2, <1>3, <2>2 DEF Ordenada
  <2>4. \A i, j \in 1 .. Len(t) : t[i] = t[j] => i = j
    BY <1>1, <1>2, <2>2 DEF Ordenada
  <2>5. ASSUME NEW h \in Paginas, Pag(n, p, h).presencia
        PROVE  /\ \E i \in 1 .. Len(t) : t[i] = h
               /\ n.registro[Pag(n, p, h).marco]
                     = [asignado |-> TRUE, tabla |-> p, pagina |-> h]
    <3>1. CASE h = g
      <4>1. Len(s) + 1 \in 1 .. Len(t)
        BY <1>1
      <4> QED BY <1>1, <1>3, <3>1, <4>1
    <3>2. CASE h # g
      <4>1. Pag(n, p, h) = Pag(m, p, h)
        BY <3>2
      <4>2. PICK i \in 1 .. Len(s) : s[i] = h
        BY <2>5, <4>1 DEF Ordenada
      <4>3. i \in 1 .. Len(t) /\ t[i] = h
        BY <1>1, <4>2
      <4> QED BY <1>4, <2>5, <4>1, <4>3 DEF Ordenada
    <3> QED BY <3>1, <3>2
  <2> QED BY <2>1, <2>3, <2>4, <2>5 DEF Ordenada
<1>6. ASSUME NEW q \in Procesos, q # p, Ordenada(m, q) PROVE Ordenada(n, q)
  <2>1. n.tabla[q] = m.tabla[q]
    BY <1>6 DEF Entra
  <2> QED BY <1>4, <1>6, <2>1, OrdenadaIgual
<1>7. RegistroFiel(n, A)
  <2> SUFFICES ASSUME NEW e \in MarcosFisicos, n.registro[e].asignado
               PROVE  /\ n.registro[e].tabla \in A
                      /\ Pag(n, n.registro[e].tabla, n.registro[e].pagina).presencia
                      /\ Pag(n, n.registro[e].tabla, n.registro[e].pagina).marco = e
    BY DEF RegistroFiel
  <2>1. CASE e = f
    BY <1>3, <2>1
  <2>2. CASE e # f
    <3> DEFINE q == m.registro[e].tabla
               h == m.registro[e].pagina
    <3>1. /\ n.registro[e] = m.registro[e] /\ q \in A /\ h \in Paginas
          /\ Pag(m, q, h).presencia /\ Pag(m, q, h).marco = e
      BY <1>3, <2>2, Registrada
    <3> HIDE DEF q, h
    <3>2. Pag(n, q, h) = Pag(m, q, h)
      <4>1. CASE q = p
        BY <3>1, <4>1
      <4>2. CASE q # p
        BY <3>1, <4>2 DEF Entra, Pag
      <4> QED BY <4>1, <4>2
    <3> QED BY <3>1, <3>2 DEF q, h
  <2> QED BY <2>1, <2>2
<1> QED BY <1>5, <1>6, <1>7

\* A page that takes the frame of another page of its process.
LEMMA ReemplazarOrdenada ==
    ASSUME NEW m \in Memorias, NEW n, NEW A \in SUBSET Procesos,
           NEW p \in A, NEW g \in Paginas, NEW k \in 1 .. Marcos,
           RegistroFiel(m, A), Ordenada(m, p),
           ~Pag(m, p, g).presencia, Len(Asig(m, p)) = Marcos, Reemplaza(m, n, p, g, k)
    PROVE  /\ RegistroFiel(n, A)
           /\ \A q \in Procesos : Ordenada(m, q) => Ordenada(n, q)
<1> DEFINE s == Asig(m, p)
           t == Asig(n, p)
           w == s[k]
           f == Pag(m, p, w).marco
<1>1. /\ s \in Seq(Paginas) /\ Len(s) = Marcos /\ Marcos \in Nat /\ p \in Procesos
      /\ Len(t) = Marcos /\ t[k] = g /\ w \in Paginas /\ f \in MarcosFisicos
      /\ \A i \in 1 .. Marcos : i # k => t[i] = s[i]
  <2>1. s \in Seq(Paginas) /\ Marcos \in Nat /\ Len(s) = Marcos
    BY PartesDeMemoria, MarcosAssumption
  <2>2. t = [s EXCEPT ![k] = g]
    BY DEF Reemplaza
  <2>3. w \in Paginas
    BY <2>1
  <2>4. f \in MarcosFisicos
    BY <2>3, PartesDeMemoria DEF Entradas
  <2> HIDE DEF s, t, w, f
  <2> QED BY <2>1, <2>2, <2>3, <2>4
<1>2. /\ Entra(m, n, p, g, f) /\ ~Pag(n, p, w).presencia
      /\ \A h \in Paginas \ {g, w} : Queda(m, n, p, h)
  BY DEF Reemplaza
<1>3. /\ Pag(m, p, w).presencia /\ \A i \in 1 .. Marcos : s[i] # g
      /\ \A i, j \in 1 .. Marcos : s[i] = s[j] => i = j
      /\ m.registro[f] = [asignado |-> TRUE, tabla |-> p, pagina |-> w]
  BY <1>1 DEF Ordenada
<1> HIDE DEF s, t, w, f
<1>4. /\ Pag(n, p, g).presencia /\ Pag(n, p, g).marco = f /\ w # g
      /\ n.registro[f] = [asignado |-> TRUE, tabla |-> p, pagina |-> g]
      /\ \A e \in MarcosFisicos \ {f} : n.registro[e] = m.registro[e]
      /\ \A q \in Procesos \ {p} : n.tabla[q] = m.tabla[q]
  BY <1>2, <1>3 DEF Entra
<1>5. ASSUME NEW q \in Procesos, NEW h \in Paginas, Ordenada(m, q), Pag(m, q, h).presencia,
             q # p \/ h # w
      PROVE  /\ Pag(m, q, h).marco \in MarcosFisicos \ {f}
             /\ n.registro[Pag(m, q, h).marco]
                  = [asignado |-> TRUE, tabla |-> q, pagina |-> h]
  <2>1. Pag(m, q, h).marco \in MarcosFisicos
    BY PartesDeMemoria DEF Entradas
  <2>2. m.registro[Pag(m, q, h).marco] = [asignado |-> TRUE, tabla |-> q, pagina |-> h]
    BY <1>5 DEF Ordenada
  <2>3. Pag(m, q, h).marco # f
    BY <1>3, <1>5, <2>2
  <2> QED BY <1>4, <2>1, <2>2, <2>3
<1>6. Ordenada(n, p)
  <2>1. \A i \in 1 .. Marcos : Pag(n, p, t[i]).presencia
    <3> TAKE i \in 1 .. Marcos
    <3>1. CASE i = k
      BY <1>1, <1>4, <3>1
    <3>2. CASE i # k
      <4>1. s[i] \in Paginas \ {g, w} /\ t[i] = s[i]
        BY <1>1, <1>3, <3>2 DEF w
      <4>2. Pag(m, p, s[i]).presencia
        BY <1>1 DEF Ordenada, s
      <4> QED BY <1>2, <4>1, <4>2 DEF Queda
    <3> QED BY <3>1, <3>2
  <2>2. \A i, j \in 1 .. Marcos : t[i] = t[j] => i = j
    BY <1>1, <1>3
  <2>3. ASSUME NEW h \in Paginas, Pag(n, p, h).presencia
        PROVE  /\ \E i \in 1 .. Marcos : t[i] = h
               /\ n.registro[Pag(n, p, h).marco]
                     = [asignado |-> TRUE, tabla |-> p, pagina |-> h]
    <3>1. CASE h = g
      BY <1>1, <1>4, <3>1
    <3>2. CASE h # g
      <4>1. h # w
        BY <1>2, <2>3
      <4>2. Pag(m, p, h).presencia /\ Pag(n, p, h).marco = Pag(m, p, h).marco
        BY <1>2, <2>3, <3>2, <4>1 DEF Queda
      <4>3. PICK i \in 1 .. Marcos : s[i] = h
        BY <1>1, <4>2 DEF Ordenada, s
      <4>4. i # k /\ t[i] = h
        BY <1>1, <4>1, <4>3 DEF w
      <4>5. n.registro[Pag(m, p, h).marco] = [asignado |-> TRUE, tabla |-> p, pagina |-> h]
        BY <1>1, <1>5, <4>1, <4>2
      <4> QED BY <4>2, <4>4, <4>5
    <3> QED BY <3>1, <3>2
  <2> QED BY <1>1, <2>1, <2>2, <2>3 DEF Ordenada, t
<1>7. ASSUME NEW q \in Procesos, q # p, Ordenada(m, q) PROVE Ordenada(n, q)
  <2>1. \A h \in Paginas : Pag(m, q, h).presencia =>
           n.registro[Pag(m, q, h).marco] = m.registro[Pag(m, q, h).marco]
    BY <1>4, <1>5, <1>7
  <2> QED BY <1>4, <1>7, <2>1, OrdenadaIgual
<1>8. RegistroFiel(n, A)
  <2> SUFFICES ASSUME NEW e \in MarcosFisicos, n.registro[e].asignado
               PROVE  /\ n.registro[e].tabla \in A
                      /\ Pag(n, n.registro[e].tabla, n.registro[e].pagina).presencia
                      /\ Pag(n, n.registro[e].tabla, n.registro[e].pagina).marco = e
    BY DEF RegistroFiel
  <2>1. CASE e = f
    BY <1>4, <2>1
  <2>2. CASE e # f
    <3> DEFINE q == m.registro[e].tabla
               h == m.registro[e].pagina
    <3>1. /\ n.registro[e] = m.registro[e] /\ q \in A /\ h \in Paginas
          /\ Pag(m, q, h).presencia /\ Pag(m, q, h).marco = e
      BY <1>4, <2>2, Registrada
    <3> HIDE DEF q, h
    <3>2. Pag(n, q, h).presencia /\ Pag(n, q, h).marco = Pag(m, q, h).marco
      <4>1. CASE q = p
        <5>1. h # g /\ h # w
          BY <2>2, <3>1, <4>1 DEF f
        <5> QED BY <1>2, <3>1, <4>1, <5>1 DEF Queda
      <4>2. CASE q # p
        BY <1>4, <3>1, <4>2 DEF Pag
      <4> QED BY <4>1, <4>2
    <3> QED BY <3>1, <3>2 DEF q, h
  <2> QED BY <2>1, <2>2
<1> QED BY <1>6, <1>7, <1>8

LEMMA BuscarMarcoLibre ==
    ASSUME NEW m, \E f \in MarcosFisicos : ~m.registro[f].asignado
    PROVE  /\ buscar_marco_libre(m) \in MarcosFisicos
           /\ ~m.registro[buscar_marco_libre(m)].asignado
<1> DEFINE S == {f \in MarcosFisicos : ~m.registro[f].asignado}
<1>1. S \in SUBSET Nat /\ S # {}
  BY TablasAssumption DEF MarcosFisicos
<1> HIDE DEF S
<1>2. Primero(S) \in S
  BY <1>1, PrimeroDelConjunto
<1> QED BY <1>2 DEF S, buscar_marco_libre

\* asignar_marco_y_cargar_pagina_de_swap: page g comes to the free frame f.
Asigna(m, n, p, g, f) ==
    /\ n \in Memorias /\ f \in MarcosFisicos /\ ~m.registro[f].asignado
    /\ Entra(m, n, p, g, f)
    /\ \A h \in Paginas \ {g} : Pag(n, p, h) = Pag(m, p, h)
    /\ Asig(n, p) = Append(Asig(m, p), g)
    /\ n.swap = m.swap

\* A process that is not at its limit of frames finds one.
Sobra(m, p) ==
    Len(Asig(m, p)) < Marcos => \E f \in MarcosFisicos : ~m.registro[f].asignado

\* The three ways a page is in memory when the memory needs it.
LEMMA PresenteCasos ==
    ASSUME NEW m \in Memorias, NEW p \in Procesos, NEW g \in Paginas,
           Ordenada(m, p), Sobra(m, p)
    PROVE  \/ Pag(m, p, g).presencia /\ Presente(m, p, g) = m
           \/ /\ ~Pag(m, p, g).presencia /\ Len(Asig(m, p)) < Marcos
              /\ \E f \in MarcosFisicos : Asigna(m, Presente(m, p, g), p, g, f)
           \/ /\ ~Pag(m, p, g).presencia /\ Len(Asig(m, p)) = Marcos
              /\ \E k \in 1 .. Marcos : Reemplaza(m, Presente(m, p, g), p, g, k)
<1> DEFINE n == Presente(m, p, g)
<1>1. CASE Pag(m, p, g).presencia
  BY <1>1 DEF Presente, Pag
<1>2. CASE ~Pag(m, p, g).presencia /\ Len(Asig(m, p)) < Marcos
  <2>1. n = asignar_marco(m, p, g)
    BY <1>2 DEF Presente, Pag, cargar_pagina_de_swap_a_memoria, Asig
  <2>2. /\ buscar_marco_libre(m) \in MarcosFisicos
        /\ ~m.registro[buscar_marco_libre(m)].asignado
    BY <1>2, BuscarMarcoLibre DEF Sobra
  <2>3. Asigna(m, n, p, g, buscar_marco_libre(m))
    BY <2>1, <2>2, AsignarMarco DEF Asigna
  <2> QED BY <1>2, <2>2, <2>3
<1>3. CASE ~Pag(m, p, g).presencia /\ ~(Len(Asig(m, p)) < Marcos)
  <2>1. Asig(m, p) \in Seq(Paginas) /\ Marcos \in Nat /\ Len(Asig(m, p)) <= Marcos
    BY PartesDeMemoria, MarcosAssumption DEF Ordenada
  <2>2. Len(Asig(m, p)) = Marcos
    BY <1>3, <2>1
  <2>3. \A i \in 1 .. Marcos : Asig(m, p)[i] # g
    BY <1>3, <2>2 DEF Ordenada
  <2>4. n = reemplazar_pagina(m, p, g)
    BY <1>3 DEF Presente, Pag, cargar_pagina_de_swap_a_memoria, Asig
  <2> QED BY <1>3, <2>2, <2>3, <2>4, ReemplazarPagina
<1> QED BY <1>1, <1>2, <1>3

\* A frame that is taken stays with its process.
Conserva(m, n) ==
    \A f \in MarcosFisicos : m.registro[f].asignado =>
        n.registro[f].asignado /\ n.registro[f].tabla = m.registro[f].tabla

\* Page g of p is in memory, and every process has its frames in order.
Trae(m, n, A, p, g) ==
    /\ n \in Memorias /\ RegistroFiel(n, A)
    /\ \A q \in Procesos : Ordenada(m, q) => Ordenada(n, q)
    /\ Pag(n, p, g).presencia /\ Conserva(m, n)
    /\ \A q \in Procesos \ {p} : n.tabla[q] = m.tabla[q] /\ n.swap[q] = m.swap[q]

LEMMA PresenteOrdenada ==
    ASSUME NEW m \in Memorias, NEW A \in SUBSET Procesos, NEW p \in A, NEW g \in Paginas,
           RegistroFiel(m, A), Ordenada(m, p), Sobra(m, p)
    PROVE  Trae(m, Presente(m, p, g), A, p, g)
<1> DEFINE n == Presente(m, p, g)
<1>1. ASSUME Pag(m, p, g).presencia, n = m PROVE Trae(m, n, A, p, g)
  BY <1>1 DEF Conserva, Trae
<1>2. ASSUME ~Pag(m, p, g).presencia, Len(Asig(m, p)) < Marcos,
             NEW f \in MarcosFisicos, Asigna(m, n, p, g, f)
      PROVE  Trae(m, n, A, p, g)
  <2> HIDE DEF n
  <2>1. RegistroFiel(n, A) /\ \A q \in Procesos : Ordenada(m, q) => Ordenada(n, q)
    BY <1>2, AsignarOrdenada DEF Asigna
  <2>2. Conserva(m, n)
    BY <1>2 DEF Asigna, Entra, Conserva
  <2> QED BY <1>2, <2>1, <2>2 DEF Asigna, Entra, Trae
<1>3. ASSUME ~Pag(m, p, g).presencia, Len(Asig(m, p)) = Marcos,
             NEW k \in 1 .. Marcos, Reemplaza(m, n, p, g, k)
      PROVE  Trae(m, n, A, p, g)
  <2> HIDE DEF n
  <2> DEFINE w == Asig(m, p)[k]
             e == Pag(m, p, w).marco
  <2>1. RegistroFiel(n, A) /\ \A q \in Procesos : Ordenada(m, q) => Ordenada(n, q)
    BY <1>3, ReemplazarOrdenada
  <2>2. w \in Paginas /\ Pag(m, p, w).presencia
    BY <1>3, PartesDeMemoria DEF Ordenada
  <2>3. m.registro[e] = [asignado |-> TRUE, tabla |-> p, pagina |-> w]
    BY <2>2 DEF Ordenada
  <2>4. Entra(m, n, p, g, e) /\ n \in Memorias
    BY <1>3 DEF Reemplaza
  <2> HIDE DEF w, e
  <2>5. Conserva(m, n)
    BY <2>3, <2>4 DEF Entra, Conserva
  <2> QED BY <2>1, <2>4, <2>5 DEF Entra, Trae
<1> HIDE DEF n
<1>4. \/ Pag(m, p, g).presencia /\ n = m
      \/ /\ ~Pag(m, p, g).presencia /\ Len(Asig(m, p)) < Marcos
         /\ \E f \in MarcosFisicos : Asigna(m, n, p, g, f)
      \/ /\ ~Pag(m, p, g).presencia /\ Len(Asig(m, p)) = Marcos
         /\ \E k \in 1 .. Marcos : Reemplaza(m, n, p, g, k)
  BY PresenteCasos, Zenon DEF n
<1>5. Trae(m, n, A, p, g)
  <2>1. CASE Pag(m, p, g).presencia /\ n = m
    BY <1>1, <2>1, Zenon
  <2>2. CASE /\ ~Pag(m, p, g).presencia /\ Len(Asig(m, p)) < Marcos
             /\ \E f \in MarcosFisicos : Asigna(m, n, p, g, f)
    BY <1>2, <2>2
  <2>3. CASE /\ ~Pag(m, p, g).presencia /\ Len(Asig(m, p)) = Marcos
             /\ \E k \in 1 .. Marcos : Reemplaza(m, n, p, g, k)
    BY <1>3, <2>3
  <2> QED BY <1>4, <2>1, <2>2, <2>3, Zenon
<1> QED BY <1>5 DEF n

\* iniciar_nuevo_proceso.
LEMMA IniciarOrdenada ==
    ASSUME NEW m \in Memorias, NEW A \in SUBSET Procesos, NEW p \in Procesos \ A,
           RegistroFiel(m, A)
    PROVE  LET n == iniciar_nuevo_proceso(m, p)
           IN  /\ n \in Memorias /\ RegistroFiel(n, A) /\ Ordenada(n, p)
               /\ \A q \in Procesos \ {p} : Ordenada(m, q) => Ordenada(n, q)
               /\ \A q \in Procesos \ {p} :
                     n.tabla[q] = m.tabla[q] /\ n.swap[q] = m.swap[q]
               /\ n.registro = m.registro /\ n.marco = m.marco
               /\ \A g \in Paginas : ~Pag(n, p, g).presencia /\ n.swap[p][g] = Cero
<1> DEFINE z == [s \in PosicionesSwap |-> Cero]
           n == iniciar_nuevo_proceso(m, p)
<1>0. n = [m EXCEPT !.tabla[p] = TablaNueva, !.swap[p] = z]
  BY DEF iniciar_nuevo_proceso
<1> HIDE DEF n, z
<1>1. /\ n.tabla = [m.tabla EXCEPT ![p] = TablaNueva]
      /\ n.swap = [m.swap EXCEPT ![p] = z]
      /\ n.registro = m.registro /\ n.marco = m.marco
      /\ n = [tabla |-> n.tabla, registro |-> n.registro, marco |-> n.marco,
              swap |-> n.swap]
  BY <1>0 DEF Memorias
<1>2. z \in [PosicionesSwap -> Datos] /\ \A g \in Paginas : z[g] = Cero
  BY TablasAssumption, PosicionDeLaPagina DEF z
<1>4. n.tabla \in [Procesos -> Tabla] /\ n.swap \in [Procesos -> [PosicionesSwap -> Datos]]
  BY <1>1, <1>2, PartesDeMemoria, TablaNuevaTyped
<1>5. n \in Memorias
  BY <1>1, <1>4, PartesDeMemoria DEF Memorias
<1>6. /\ \A q \in Procesos \ {p} : n.tabla[q] = m.tabla[q] /\ n.swap[q] = m.swap[q]
      /\ n.tabla[p] = TablaNueva /\ n.swap[p] = z
  BY <1>1, PartesDeMemoria
<1>7. Asig(n, p) = <<>> /\ \A g \in Paginas : Pag(n, p, g) = PaginaNueva
  BY <1>6 DEF Asig, Pag, TablaNueva
<1>8. ~PaginaNueva.presencia
  BY DEF PaginaNueva
<1>9. Ordenada(n, p)
  <2>1. Len(Asig(n, p)) = 0 /\ 0 <= Marcos
    BY <1>7, MarcosAssumption
  <2> QED BY <1>7, <1>8, <2>1 DEF Ordenada
<1>10. \A q \in Procesos \ {p} : Ordenada(m, q) => Ordenada(n, q)
  BY <1>1, <1>6, OrdenadaIgual
<1>11. RegistroFiel(n, A)
  <2> SUFFICES ASSUME NEW f \in MarcosFisicos, n.registro[f].asignado
               PROVE  /\ n.registro[f].tabla \in A
                      /\ Pag(n, n.registro[f].tabla, n.registro[f].pagina).presencia
                      /\ Pag(n, n.registro[f].tabla, n.registro[f].pagina).marco = f
    BY DEF RegistroFiel
  <2> DEFINE q == m.registro[f].tabla
             h == m.registro[f].pagina
  <2>1. /\ n.registro[f] = m.registro[f] /\ q \in A /\ h \in Paginas
        /\ Pag(m, q, h).presencia /\ Pag(m, q, h).marco = f
    BY <1>1, Registrada
  <2> HIDE DEF q, h
  <2>2. Pag(n, q, h) = Pag(m, q, h)
    BY <1>6, <2>1 DEF Pag
  <2> QED BY <2>1, <2>2 DEF q, h
<1> QED BY <1>1, <1>2, <1>5, <1>6, <1>7, <1>8, <1>9, <1>10, <1>11 DEF n

\* The frames of a process, and no other, are free after Liberar.
LEMMA LiberarSusMarcos ==
    ASSUME NEW m \in Memorias, NEW A \in SUBSET Procesos, NEW p \in Procesos,
           RegistroFiel(m, A), Ordenada(m, p)
    PROVE  /\ Liberar(m, p) \in [MarcosFisicos -> Registros]
           /\ \A f \in MarcosFisicos : m.registro[f].tabla # p =>
                 Liberar(m, p)[f] = m.registro[f]
           /\ \A f \in MarcosFisicos : Liberar(m, p)[f].asignado =>
                 Liberar(m, p)[f] = m.registro[f] /\ m.registro[f].tabla # p
<1> DEFINE r == Liberar(m, p)
           Suyos == {f \in MarcosFisicos : \E g \in EnMarcos(m, p) : MarcoDe(m, p, g) = f}
<1>1. m.registro \in [MarcosFisicos -> Registros]
  BY PartesDeMemoria
<1>2. \A f \in Suyos : m.registro[f].tabla = p
  <2> TAKE f \in Suyos
  <2>1. PICK g \in EnMarcos(m, p) : MarcoDe(m, p, g) = f
    OBVIOUS
  <2>2. g \in Paginas /\ Pag(m, p, g).presencia
    <3>1. g \in Paginas
      BY DEF EnMarcos
    <3> QED BY <3>1, EnMarcosSonPresentes
  <2>3. m.registro[f] = [asignado |-> TRUE, tabla |-> p, pagina |-> g]
    BY <2>1, <2>2 DEF Ordenada, Pag, MarcoDe
  <2> QED BY <2>3
<1>3. \A f \in MarcosFisicos :
         m.registro[f].asignado /\ m.registro[f].tabla = p => f \in Suyos
  <2> SUFFICES ASSUME NEW f \in MarcosFisicos, m.registro[f].asignado,
                      m.registro[f].tabla = p
               PROVE  f \in Suyos
    OBVIOUS
  <2> DEFINE g == m.registro[f].pagina
  <2>1. g \in Paginas /\ Pag(m, p, g).presencia /\ Pag(m, p, g).marco = f
    BY Registrada
  <2> HIDE DEF g
  <2>2. g \in EnMarcos(m, p)
    BY <2>1, EnMarcosSonPresentes
  <2> QED BY <2>1, <2>2 DEF MarcoDe, Pag
<1>4. \A f \in MarcosFisicos :
         r[f] = IF f \in Suyos THEN [m.registro[f] EXCEPT !.asignado = FALSE]
                ELSE m.registro[f]
  BY DEF Liberar
<1>5. r = [f \in MarcosFisicos |-> r[f]]
  BY DEF Liberar
<1> HIDE DEF r, Suyos
<1>6. ASSUME NEW f \in MarcosFisicos
      PROVE  /\ r[f] \in Registros
             /\ m.registro[f].tabla # p => r[f] = m.registro[f]
             /\ r[f].asignado => r[f] = m.registro[f] /\ m.registro[f].tabla # p
  <2> DEFINE x == m.registro[f]
  <2>1. x \in Registros
    BY <1>1
  <2>2. CASE f \in Suyos
    <3>1. r[f] = [x EXCEPT !.asignado = FALSE] /\ x.tabla = p
      BY <1>2, <1>4, <2>2
    <3> HIDE DEF x
    <3>2. [x EXCEPT !.asignado = FALSE] \in Registros
      BY <2>1, Zenon DEF Registros
    <3>3. ~[x EXCEPT !.asignado = FALSE].asignado
      BY <2>1, Zenon DEF Registros
    <3> QED BY <3>1, <3>2, <3>3 DEF x
  <2>3. CASE f \notin Suyos
    <3>1. r[f] = m.registro[f]
      BY <1>4, <2>3
    <3>2. m.registro[f].asignado => m.registro[f].tabla # p
      BY <1>3, <2>3, Zenon
    <3> QED BY <2>1, <3>1, <3>2
  <2> QED BY <2>2, <2>3
<1> QED BY <1>5, <1>6 DEF r

\* p gives back its frames, and nobody else sees it.
Suelta(m, n, A, p) ==
    /\ n \in Memorias /\ RegistroFiel(n, A \ {p})
    /\ \A q \in Procesos \ {p} : Ordenada(m, q) => Ordenada(n, q)
    /\ \A q \in Procesos \ {p} : n.tabla[q] = m.tabla[q] /\ n.swap[q] = m.swap[q]
    /\ \A f \in MarcosFisicos : m.registro[f].tabla # p => n.registro[f] = m.registro[f]
    /\ n.marco = m.marco /\ Asig(n, p) = <<>>

LEMMA LiberarSuelta ==
    ASSUME NEW m \in Memorias, NEW A \in SUBSET Procesos, NEW p \in Procesos,
           RegistroFiel(m, A), Ordenada(m, p), NEW n,
           n = [tabla |-> n.tabla, registro |-> n.registro, marco |-> n.marco,
                swap |-> n.swap],
           n.tabla \in [Procesos -> Tabla], n.registro = Liberar(m, p),
           n.marco = m.marco, n.swap \in [Procesos -> [PosicionesSwap -> Datos]],
           \A q \in Procesos \ {p} : n.tabla[q] = m.tabla[q] /\ n.swap[q] = m.swap[q],
           Asig(n, p) = <<>>
    PROVE  Suelta(m, n, A, p)
<1>1. /\ n.registro \in [MarcosFisicos -> Registros]
      /\ \A f \in MarcosFisicos : m.registro[f].tabla # p => n.registro[f] = m.registro[f]
      /\ \A f \in MarcosFisicos : n.registro[f].asignado =>
            n.registro[f] = m.registro[f] /\ m.registro[f].tabla # p
  <2>1. /\ Liberar(m, p) \in [MarcosFisicos -> Registros]
        /\ \A f \in MarcosFisicos : m.registro[f].tabla # p =>
              Liberar(m, p)[f] = m.registro[f]
        /\ \A f \in MarcosFisicos : Liberar(m, p)[f].asignado =>
              Liberar(m, p)[f] = m.registro[f] /\ m.registro[f].tabla # p
    BY LiberarSusMarcos, ZenonT(30)
  <2> QED BY <2>1, Zenon
<1>2. n \in Memorias
  BY <1>1, PartesDeMemoria DEF Memorias
<1>3. ASSUME NEW q \in Procesos \ {p}, Ordenada(m, q) PROVE Ordenada(n, q)
  <2>1. ASSUME NEW h \in Paginas, Pag(m, q, h).presencia
        PROVE  n.registro[Pag(m, q, h).marco] = m.registro[Pag(m, q, h).marco]
    <3>1. m.registro[Pag(m, q, h).marco] = [asignado |-> TRUE, tabla |-> q, pagina |-> h]
      BY <1>3, <2>1 DEF Ordenada
    <3>2. Pag(m, q, h).marco \in MarcosFisicos
      BY PartesDeMemoria DEF Entradas
    <3> QED BY <1>1, <3>1, <3>2
  <2> QED BY <1>3, <2>1, OrdenadaIgual
<1>4. RegistroFiel(n, A \ {p})
  <2> SUFFICES ASSUME NEW f \in MarcosFisicos, n.registro[f].asignado
               PROVE  /\ n.registro[f].tabla \in A \ {p}
                      /\ Pag(n, n.registro[f].tabla, n.registro[f].pagina).presencia
                      /\ Pag(n, n.registro[f].tabla, n.registro[f].pagina).marco = f
    BY DEF RegistroFiel
  <2> DEFINE q == m.registro[f].tabla
             h == m.registro[f].pagina
  <2>1. n.registro[f] = m.registro[f] /\ q # p
    BY <1>1
  <2>2. m.registro[f].asignado
    BY <2>1
  <2>3. q \in A /\ h \in Paginas /\ Pag(m, q, h).presencia /\ Pag(m, q, h).marco = f
    BY <2>2, Registrada
  <2> HIDE DEF q, h
  <2>4. Pag(n, q, h) = Pag(m, q, h)
    BY <2>1, <2>3 DEF Pag
  <2> QED BY <2>1, <2>3, <2>4 DEF q, h
<1> QED BY <1>1, <1>2, <1>3, <1>4 DEF Suelta

LEMMA FinalizarSuelta ==
    ASSUME NEW m \in Memorias, NEW A \in SUBSET Procesos, NEW p \in Procesos,
           RegistroFiel(m, A), Ordenada(m, p)
    PROVE  Suelta(m, finalizar_proceso(m, p), A, p)
<1> DEFINE n == finalizar_proceso(m, p)
           t == [m.tabla[p] EXCEPT !.asignadas = <<>>]
<1>0. n = [m EXCEPT !.tabla[p].asignadas = <<>>, !.registro = Liberar(m, p)]
  BY DEF finalizar_proceso
<1> HIDE DEF n
<1>1. /\ n.tabla = [m.tabla EXCEPT ![p] = t]
      /\ n.registro = Liberar(m, p) /\ n.marco = m.marco /\ n.swap = m.swap
      /\ n = [tabla |-> n.tabla, registro |-> n.registro, marco |-> n.marco,
              swap |-> n.swap]
  BY <1>0 DEF Memorias
<1>2. t \in Tabla /\ t.asignadas = <<>>
  <2> DEFINE x == m.tabla[p]
  <2>1. x \in Tabla /\ <<>> \in Seq(Paginas)
    BY PartesDeMemoria
  <2> HIDE DEF x
  <2>2. [x EXCEPT !.asignadas = <<>>] \in Tabla
    BY <2>1, Zenon DEF Tabla
  <2>3. [x EXCEPT !.asignadas = <<>>].asignadas = <<>>
    BY <2>1 DEF Tabla
  <2> QED BY <2>2, <2>3 DEF x
<1> HIDE DEF t
<1>3. /\ n.tabla \in [Procesos -> Tabla] /\ n.tabla[p] = t
      /\ \A q \in Procesos \ {p} : n.tabla[q] = m.tabla[q]
  BY <1>1, <1>2, PartesDeMemoria
<1>4. n.swap \in [Procesos -> [PosicionesSwap -> Datos]] /\ Asig(n, p) = <<>>
  BY <1>1, <1>2, <1>3, PartesDeMemoria DEF Asig
<1>5. Suelta(m, n, A, p)
  BY <1>1, <1>3, <1>4, LiberarSuelta
<1> QED BY <1>5 DEF n

LEMMA SuspenderSuelta ==
    ASSUME NEW m \in Memorias, NEW A \in SUBSET Procesos, NEW p \in Procesos,
           RegistroFiel(m, A), Ordenada(m, p)
    PROVE  LET n == suspender_proceso(m, p)
           IN  /\ Suelta(m, n, A, p) /\ Ordenada(n, p)
               /\ \A g \in Paginas : ~Pag(n, p, g).presencia
               /\ \A s \in PosicionesSwap :
                    n.swap[p][s] =
                      IF \E g \in EnMarcos(m, p) : PosicionSwap(numero_de_tabla(g), g) = s
                      THEN m.marco[MarcoDe(m, p, CHOOSE g \in EnMarcos(m, p) :
                                      PosicionSwap(numero_de_tabla(g), g) = s)]
                      ELSE m.swap[p][s]
<1> DEFINE n == suspender_proceso(m, p)
           ps == [g \in Paginas |-> IF g \in EnMarcos(m, p)
                                    THEN [PaginaNueva EXCEPT !.marco = MarcoDe(m, p, g)]
                                    ELSE m.tabla[p].paginas[g]]
           t == [paginas |-> ps, asignadas |-> <<>>, puntero |-> 0]
           Elegida(s) == CHOOSE g \in EnMarcos(m, p) : PosicionSwap(numero_de_tabla(g), g) = s
           z == [s \in PosicionesSwap |->
                   IF \E g \in EnMarcos(m, p) : PosicionSwap(numero_de_tabla(g), g) = s
                   THEN m.marco[MarcoDe(m, p, Elegida(s))] ELSE m.swap[p][s]]
<1>0. n = [m EXCEPT !.tabla[p] = t, !.registro = Liberar(m, p), !.swap[p] = z]
  <2>1. p \in Procesos /\ m \in Memorias
    OBVIOUS
  <2> QED BY <2>1, PartesDeMemoria DEF suspender_proceso, Memorias
<1>1. \A g \in EnMarcos(m, p) : MarcoDe(m, p, g) \in MarcosFisicos /\ g \in Paginas
  BY PartesDeMemoria DEF EnMarcos, MarcoDe, Entradas, Pag
<1>2. ps \in [Paginas -> Entradas] /\ \A g \in Paginas : ~ps[g].presencia
  <2>1. ASSUME NEW g \in Paginas PROVE ps[g] \in Entradas /\ ~ps[g].presencia
    <3>1. CASE g \in EnMarcos(m, p)
      <4>1. ps[g] = [marco |-> MarcoDe(m, p, g), presencia |-> FALSE, uso |-> FALSE,
                     modificado |-> FALSE]
        BY <3>1 DEF PaginaNueva
      <4> QED BY <1>1, <3>1, <4>1 DEF Entradas
    <3>2. CASE g \notin EnMarcos(m, p)
      <4>1. ps[g] = Pag(m, p, g)
        BY <3>2 DEF Pag
      <4>2. Pag(m, p, g) \in Entradas
        BY PartesDeMemoria
      <4>3. ~Pag(m, p, g).presencia
        BY <3>2, EnMarcosSonPresentes
      <4> QED BY <4>1, <4>2, <4>3
    <3> QED BY <3>1, <3>2
  <2>2. ps = [g \in Paginas |-> ps[g]]
    OBVIOUS
  <2> HIDE DEF ps
  <2> QED BY <2>1, <2>2
<1> HIDE DEF ps
<1>3. z \in [PosicionesSwap -> Datos]
  <2>1. ASSUME NEW s \in PosicionesSwap PROVE z[s] \in Datos
    <3>1. CASE \E g \in EnMarcos(m, p) : PosicionSwap(numero_de_tabla(g), g) = s
      <4>1. Elegida(s) \in EnMarcos(m, p)
        BY <3>1
      <4>2. MarcoDe(m, p, Elegida(s)) \in MarcosFisicos
        BY <1>1, <4>1
      <4> HIDE DEF Elegida
      <4>3. z[s] = m.marco[MarcoDe(m, p, Elegida(s))]
        BY <3>1
      <4> QED BY <4>2, <4>3, PartesDeMemoria
    <3>2. CASE ~ \E g \in EnMarcos(m, p) : PosicionSwap(numero_de_tabla(g), g) = s
      <4>1. z[s] = m.swap[p][s]
        BY <3>2
      <4> QED BY <4>1, PartesDeMemoria
    <3> QED BY <3>1, <3>2
  <2>2. z = [s \in PosicionesSwap |-> z[s]]
    OBVIOUS
  <2> HIDE DEF z
  <2> QED BY <2>1, <2>2
<1>4. \A s \in PosicionesSwap :
         z[s] = IF \E g \in EnMarcos(m, p) : PosicionSwap(numero_de_tabla(g), g) = s
                THEN m.marco[MarcoDe(m, p, Elegida(s))] ELSE m.swap[p][s]
  OBVIOUS
<1>5. t \in Tabla
  BY <1>2, MarcosAssumption DEF Tabla, Indices
<1>6. t.paginas = ps /\ t.asignadas = <<>>
  OBVIOUS
<1> HIDE DEF n, t, z
<1>7. /\ n.tabla = [m.tabla EXCEPT ![p] = t]
      /\ n.swap = [m.swap EXCEPT ![p] = z]
      /\ n.registro = Liberar(m, p) /\ n.marco = m.marco
      /\ n = [tabla |-> n.tabla, registro |-> n.registro, marco |-> n.marco,
              swap |-> n.swap]
  BY <1>0 DEF Memorias
<1>8. /\ n.tabla \in [Procesos -> Tabla] /\ n.tabla[p] = t
      /\ n.swap \in [Procesos -> [PosicionesSwap -> Datos]] /\ n.swap[p] = z
      /\ \A q \in Procesos \ {p} : n.tabla[q] = m.tabla[q] /\ n.swap[q] = m.swap[q]
  BY <1>3, <1>5, <1>7, PartesDeMemoria
<1>9. Asig(n, p) = <<>> /\ \A g \in Paginas : Pag(n, p, g) = ps[g]
  BY <1>6, <1>8 DEF Asig, Pag
<1>10. Suelta(m, n, A, p)
  BY <1>7, <1>8, <1>9, LiberarSuelta
<1>11. \A g \in Paginas : ~Pag(n, p, g).presencia
  BY <1>2, <1>9
<1>12. Ordenada(n, p)
  <2>1. Len(Asig(n, p)) = 0 /\ 0 <= Marcos
    BY <1>9, MarcosAssumption
  <2> QED BY <1>9, <1>11, <2>1 DEF Ordenada
<1> QED BY <1>4, <1>8, <1>10, <1>11, <1>12 DEF n

\* Page g of p, that is in memory, is read or written there.
Toca(m, n, p, g) ==
    /\ n \in Memorias /\ n.registro = m.registro /\ n.swap = m.swap
    /\ \A q \in Procesos \ {p} : n.tabla[q] = m.tabla[q]
    /\ Asig(n, p) = Asig(m, p)
    /\ \A h \in Paginas \ {g} : Pag(n, p, h) = Pag(m, p, h)
    /\ Pag(n, p, g).presencia = Pag(m, p, g).presencia
    /\ Pag(n, p, g).marco = Pag(m, p, g).marco

MismoMarco(e, x) == e.presencia = x.presencia /\ e.marco = x.marco

Escrita(m, p, g, e, c) == [m EXCEPT !.marco = c, !.tabla[p].paginas[g] = e]

LEMMA EntradaTocada ==
    ASSUME NEW m \in Memorias, NEW p \in Procesos, NEW g \in Paginas,
           NEW e \in Entradas, MismoMarco(e, Pag(m, p, g)), NEW c \in [MarcosFisicos -> Datos]
    PROVE  LET n == Escrita(m, p, g, e, c)
           IN  Toca(m, n, p, g) /\ n.marco = c /\ Pag(n, p, g) = e
<1> DEFINE n == Escrita(m, p, g, e, c)
           m0 == [m EXCEPT !.marco = c]
           ps == [m.tabla[p].paginas EXCEPT ![g] = e]
<1>1. /\ m0 \in Memorias /\ m0.tabla = m.tabla /\ m0.registro = m.registro
      /\ m0.swap = m.swap /\ m0.marco = c
  BY DEF Memorias
<1>2. /\ ps \in [Paginas -> Entradas] /\ ps[g] = e
      /\ \A h \in Paginas \ {g} : ps[h] = Pag(m, p, h)
  BY PartesDeMemoria DEF Pag
<1>3. n = [m0 EXCEPT !.tabla[p].paginas = ps]
  BY PartesDeMemoria DEF Memorias, Escrita
<1> HIDE DEF m0, ps, n
<1>4. Repaginada(m0, n, p, ps)
  BY <1>1, <1>2, <1>3, PaginasTyped
<1>5. \A h \in Paginas : Pag(n, p, h) = ps[h]
  BY <1>4 DEF Repaginada, Pag
<1> QED BY <1>1, <1>2, <1>4, <1>5 DEF Repaginada, Toca, Asig, n, MismoMarco

LEMMA LeerToca ==
    ASSUME NEW m \in Memorias, NEW p \in Procesos, NEW g \in Paginas,
           Pag(m, p, g).presencia
    PROVE  LET n == leer_en_pagina(m, p, g)
           IN  /\ Toca(m, n, p, g) /\ n.marco = m.marco
               /\ Pag(n, p, g).modificado = Pag(m, p, g).modificado
               /\ n.marco[MarcoDe(n, p, g)] = m.marco[Pag(m, p, g).marco]
<1> DEFINE n == leer_en_pagina(m, p, g)
           x == Pag(m, p, g)
           e == [x EXCEPT !.uso = TRUE]
<1>1. n = Escrita(m, p, g, e, m.marco)
  <2>1. n = [m EXCEPT !.tabla[p].paginas[g].uso = TRUE]
    BY DEF leer_en_pagina, Presente, Pag
  <2>2. [m EXCEPT !.tabla[p].paginas[g].uso = TRUE] = [m EXCEPT !.tabla[p].paginas[g] = e]
    BY PartesDeMemoria DEF Pag, Memorias
  <2>3. [m EXCEPT !.tabla[p].paginas[g] = e]
          = [m EXCEPT !.marco = m.marco, !.tabla[p].paginas[g] = e]
    BY DEF Memorias
  <2> QED BY <2>1, <2>2, <2>3 DEF Escrita
<1>2. /\ e \in Entradas /\ e.marco = x.marco
      /\ e.presencia = x.presencia /\ e.modificado = x.modificado
  <2>1. x \in Entradas
    BY PartesDeMemoria
  <2> HIDE DEF x
  <2> QED BY <2>1, EntradasEscritas, Zenon
<1>3. m.marco \in [MarcosFisicos -> Datos]
  BY PartesDeMemoria
<1> HIDE DEF n, e
<1>4. Toca(m, n, p, g) /\ n.marco = m.marco /\ Pag(n, p, g) = e
  <2> DEFINE c == m.marco
  <2>1. c \in [MarcosFisicos -> Datos] /\ n = Escrita(m, p, g, e, c)
    BY <1>1, <1>3
  <2> HIDE DEF c
  <2>2. Toca(m, n, p, g) /\ n.marco = c /\ Pag(n, p, g) = e
    <3>1. e \in Entradas /\ MismoMarco(e, Pag(m, p, g))
      BY <1>2, Zenon DEF MismoMarco
    <3> QED BY <2>1, <3>1, EntradaTocada
  <2> QED BY <2>2 DEF c
<1>5. MarcoDe(n, p, g) = Pag(m, p, g).marco
  BY <1>4 DEF Toca, MarcoDe, Pag
<1> QED BY <1>2, <1>4, <1>5 DEF n

LEMMA EscribirToca ==
    ASSUME NEW m \in Memorias, NEW p \in Procesos, NEW g \in Paginas, NEW d \in Datos,
           Pag(m, p, g).presencia
    PROVE  LET n == escribir_en_pagina(m, p, g, d)
           IN  /\ Toca(m, n, p, g) /\ Pag(n, p, g).modificado
               /\ n.marco = [m.marco EXCEPT ![Pag(m, p, g).marco] = d]
<1> DEFINE n == escribir_en_pagina(m, p, g, d)
           x == Pag(m, p, g)
           e == [x EXCEPT !.uso = TRUE, !.modificado = TRUE]
           c == [m.marco EXCEPT ![x.marco] = d]
<1>1. n = Escrita(m, p, g, e, c)
  <2>1. Presente(m, p, g) = m
    BY DEF Presente, Pag
  <2>2. n = [m EXCEPT !.marco[x.marco] = d,
                      !.tabla[p].paginas[g] = [@ EXCEPT !.uso = TRUE, !.modificado = TRUE]]
    BY <2>1, Zenon DEF escribir_en_pagina, MarcoDe, Pag
  <2> QED BY <2>2, PartesDeMemoria DEF Pag, Memorias, Escrita
<1>2. e \in Entradas /\ e.marco = x.marco /\ e.presencia = x.presencia /\ e.modificado
  <2>1. x \in Entradas
    BY PartesDeMemoria
  <2> HIDE DEF x
  <2> QED BY <2>1, EntradasEscritas, Zenon
<1>3. c \in [MarcosFisicos -> Datos]
  BY PartesDeMemoria
<1> HIDE DEF n, e, c
<1>4. Toca(m, n, p, g) /\ n.marco = c /\ Pag(n, p, g) = e
  <2>1. e \in Entradas /\ MismoMarco(e, Pag(m, p, g))
    BY <1>2, Zenon DEF MismoMarco
  <2> QED BY <1>1, <1>3, <2>1, EntradaTocada
<1> QED BY <1>2, <1>4 DEF n, c

LEMMA TocaOrdenada ==
    ASSUME NEW m \in Memorias, NEW n, NEW A \in SUBSET Procesos, NEW p \in Procesos,
           NEW g \in Paginas, RegistroFiel(m, A), Toca(m, n, p, g)
    PROVE  RegistroFiel(n, A) /\ \A q \in Procesos : Ordenada(m, q) => Ordenada(n, q)
<1>1. \A q \in Procesos, h \in Paginas :
         /\ Pag(n, q, h).presencia = Pag(m, q, h).presencia
         /\ Pag(n, q, h).marco = Pag(m, q, h).marco
  BY DEF Toca, Pag
<1>2. \A q \in Procesos : Asig(n, q) = Asig(m, q)
  BY DEF Toca, Asig
<1>3. n.registro = m.registro
  BY DEF Toca
<1>4. ASSUME NEW q \in Procesos, Ordenada(m, q) PROVE Ordenada(n, q)
  <2>1. \A i \in 1 .. Len(Asig(m, q)) : Asig(m, q)[i] \in Paginas
    BY PartesDeMemoria
  <2> QED BY <1>1, <1>2, <1>3, <1>4, <2>1 DEF Ordenada
<1>5. RegistroFiel(n, A)
  <2> SUFFICES ASSUME NEW f \in MarcosFisicos, m.registro[f].asignado
               PROVE  /\ m.registro[f].tabla \in A
                      /\ Pag(n, m.registro[f].tabla, m.registro[f].pagina).presencia
                      /\ Pag(n, m.registro[f].tabla, m.registro[f].pagina).marco = f
    BY <1>3 DEF RegistroFiel
  <2> QED BY <1>1, Registrada
<1> QED BY <1>4, <1>5

(***************************************************************************)
(* The inductive invariant, and what follows from it.                      *)
(***************************************************************************)
\* The processes that have frames, or may have.
Ocupan == {p \in Procesos : estado[p] \in {"en_memoria", "saliendo"}}

\* The processes whose memory is still to be freed count against the degree too.
Holgura == Cardinality(Ocupan) <= Grado

TablasInv ==
    /\ mem \in Memorias /\ estado \in [Procesos -> Estados] /\ IsFiniteSet(Ocupan)
    /\ RegistroFiel(mem, Ocupan)
    /\ \A p \in Procesos : Vivo(p) => Ordenada(mem, p)

Suyo(m, p, f) == f \in MarcosFisicos /\ m.registro[f].asignado /\ m.registro[f].tabla = p

EntradasDeTlb == [pagina : Paginas, marco : MarcosFisicos]

\* The CPU has a process the kernel keeps in memory, and the frames it knows of, in the
\* TLB and for the access under way, are frames of it.
CpuInv ==
    /\ cpu.proceso \in Procesos \cup {NADIE}
    /\ cpu.tlb \in Seq(EntradasDeTlb) /\ Len(cpu.tlb) <= EntradasTlb
    /\ cpu.pc \in {"desalojado", "fetch", "acceso", "copy"}
    /\ cpu.proceso = NADIE <=> cpu.pc = "desalojado"
    /\ cpu.pc \in {"acceso", "copy"} => cpu.acceso \in Accesos
    /\ cpu.pc = "copy" => cpu.acceso.tipo = "WRITE"
    /\ cpu.proceso # NADIE =>
          /\ estado[cpu.proceso] = "en_memoria"
          /\ \A i \in 1 .. Len(cpu.tlb) : Suyo(mem, cpu.proceso, cpu.tlb[i].marco)
          /\ cpu.pc = "acceso" => Suyo(mem, cpu.proceso, cpu.marco)

LEMMA OcupanVivos == Ocupan \subseteq Procesos /\ \A p \in Ocupan : Vivo(p)
BY DEF Ocupan, Vivo

LEMMA SoloOcupan == ASSUME TablasInv PROVE SoloOcupanLosPresentes
<1> SUFFICES ASSUME NEW f \in MarcosFisicos, mem.registro[f].asignado
             PROVE  estado[mem.registro[f].tabla] \in {"en_memoria", "saliendo"}
  BY DEF SoloOcupanLosPresentes
<1>1. mem.registro[f].tabla \in Ocupan
  BY Registrada, OcupanVivos DEF TablasInv
<1> QED BY <1>1 DEF Ocupan

LEMMA Consistentes == ASSUME TablasInv PROVE MarcosConsistentes
<1> DEFINE S == {f \in MarcosFisicos : mem.registro[f].asignado}
           T == {x \in Procesos \X Paginas : Vivo(x[1]) /\ x[2] \in EnMarcos(mem, x[1])}
           F == [f \in S |-> <<mem.registro[f].tabla, mem.registro[f].pagina>>]
<1>1. mem \in Memorias /\ RegistroFiel(mem, Ocupan) /\ Ocupan \in SUBSET Procesos
  BY OcupanVivos DEF TablasInv
<1>2. \A p \in Procesos, g \in Paginas :
         Vivo(p) => /\ g \in EnMarcos(mem, p) <=> Pag(mem, p, g).presencia
                    /\ Pag(mem, p, g).presencia =>
                         /\ Pag(mem, p, g).marco \in MarcosFisicos
                         /\ mem.registro[Pag(mem, p, g).marco]
                              = [asignado |-> TRUE, tabla |-> p, pagina |-> g]
  <2> SUFFICES ASSUME NEW p \in Procesos, NEW g \in Paginas, Vivo(p)
               PROVE  /\ g \in EnMarcos(mem, p) <=> Pag(mem, p, g).presencia
                      /\ Pag(mem, p, g).presencia =>
                           /\ Pag(mem, p, g).marco \in MarcosFisicos
                           /\ mem.registro[Pag(mem, p, g).marco]
                                = [asignado |-> TRUE, tabla |-> p, pagina |-> g]
    OBVIOUS
  <2>1. Ordenada(mem, p)
    BY DEF TablasInv
  <2>2. g \in EnMarcos(mem, p) <=> Pag(mem, p, g).presencia
    BY <1>1, <2>1, EnMarcosSonPresentes
  <2>3. Pag(mem, p, g).marco \in MarcosFisicos
    BY <1>1, PartesDeMemoria DEF Entradas
  <2>4. Pag(mem, p, g).presencia =>
           mem.registro[Pag(mem, p, g).marco] = [asignado |-> TRUE, tabla |-> p, pagina |-> g]
    BY <2>1 DEF Ordenada
  <2> QED BY <2>2, <2>3, <2>4
<1>3. ASSUME NEW f \in S
      PROVE  /\ F[f] \in T
             /\ Pag(mem, F[f][1], F[f][2]).marco = f
  <2> DEFINE p == mem.registro[f].tabla
             g == mem.registro[f].pagina
  <2>1. p \in Ocupan /\ g \in Paginas /\ Pag(mem, p, g).presencia /\ Pag(mem, p, g).marco = f
    BY <1>1, Registrada
  <2>2. F[f] = <<p, g>>
    OBVIOUS
  <2> HIDE DEF p, g, F
  <2>3. p \in Procesos /\ Vivo(p) /\ g \in EnMarcos(mem, p)
    BY <1>2, <2>1, OcupanVivos
  <2> QED BY <2>1, <2>2, <2>3
<1>4. ASSUME NEW x \in T PROVE \E f \in S : F[f] = x
  <2>1. PICK p \in Procesos, g \in Paginas :
           x = <<p, g>> /\ Vivo(p) /\ g \in EnMarcos(mem, p)
    OBVIOUS
  <2> DEFINE f == Pag(mem, p, g).marco
  <2>2. f \in MarcosFisicos
        /\ mem.registro[f] = [asignado |-> TRUE, tabla |-> p, pagina |-> g]
    BY <1>2, <2>1
  <2>3. f \in S /\ F[f] = x
    BY <2>1, <2>2
  <2> QED BY <2>3
<1>5. IsFiniteSet(S)
  <2>1. IsFiniteSet(MarcosFisicos)
    BY FS_Interval, TablasAssumption DEF MarcosFisicos
  <2> QED BY <2>1, FS_Subset
<1>6. ExistsBijection(S, T)
  <2>1. F = [f \in S |-> F[f]]
    OBVIOUS
  <2> HIDE DEF F, S, T
  <2>2. F \in [S -> T]
    BY <1>3, <2>1
  <2>3. \A f, h \in S : F[f] = F[h] => f = h
    BY <1>3
  <2>4. F \in Bijection(S, T)
    BY <1>4, <2>2, <2>3 DEF Bijection, Injection, Surjection, IsInjective
  <2> QED BY <2>4 DEF ExistsBijection
<1>7. Cardinality(S) = Cardinality(T)
  BY <1>5, <1>6, FS_Bijection
<1>8. ASSUME NEW p \in Procesos, Vivo(p)
      PROVE  LET t == mem.tabla[p]
             IN  /\ Len(t.asignadas) <= Marcos
                 /\ \A g \in Paginas : t.paginas[g].presencia <=> g \in EnMarcos(mem, p)
                 /\ \A i, j \in 1 .. Len(t.asignadas) :
                       i # j => t.asignadas[i] # t.asignadas[j]
                 /\ \A g \in EnMarcos(mem, p) :
                       mem.registro[t.paginas[g].marco]
                           = [asignado |-> TRUE, tabla |-> p, pagina |-> g]
  <2>1. Ordenada(mem, p)
    BY <1>8 DEF TablasInv
  <2>2. \A g \in EnMarcos(mem, p) : g \in Paginas
    BY DEF EnMarcos
  <2>3. \A g \in Paginas : mem.tabla[p].paginas[g].presencia <=> g \in EnMarcos(mem, p)
    BY <1>2, <1>8 DEF Pag
  <2>4. \A g \in EnMarcos(mem, p) :
           mem.registro[mem.tabla[p].paginas[g].marco]
               = [asignado |-> TRUE, tabla |-> p, pagina |-> g]
    BY <1>2, <1>8, <2>2 DEF Pag
  <2> QED BY <2>1, <2>3, <2>4 DEF Ordenada, Asig
<1> QED BY <1>7, <1>8 DEF MarcosConsistentes

\* With every process within the degree, one that is not at its limit finds a frame: a
\* frame that is taken is the place of a page in the assigned pages of its process.
LEMMA Suficientes == ASSUME TablasInv, Holgura PROVE MarcosSuficientes
<1> SUFFICES ASSUME NEW p \in EnMemoria, Len(Asig(mem, p)) < Marcos,
                    \A f \in MarcosFisicos : mem.registro[f].asignado
             PROVE  FALSE
  BY DEF MarcosSuficientes, Asig
<1> DEFINE Lugares == (Ocupan \X (1 .. Marcos)) \ {<<p, Marcos>>}
           Lugar(f) == CHOOSE i \in 1 .. Len(Asig(mem, mem.registro[f].tabla)) :
                          Asig(mem, mem.registro[f].tabla)[i] = mem.registro[f].pagina
           F == [f \in MarcosFisicos |-> <<mem.registro[f].tabla, Lugar(f)>>]
<1>1. /\ mem \in Memorias /\ RegistroFiel(mem, Ocupan) /\ Ocupan \in SUBSET Procesos
      /\ p \in Ocupan /\ \A q \in Ocupan : Ordenada(mem, q)
  BY OcupanVivos DEF TablasInv, EnMemoria, Ocupan
<1>2. ASSUME NEW f \in MarcosFisicos
      PROVE  LET q == mem.registro[f].tabla
                 g == mem.registro[f].pagina
             IN  /\ q \in Ocupan /\ Pag(mem, q, g).marco = f
                 /\ Lugar(f) \in 1 .. Len(Asig(mem, q))
                 /\ Asig(mem, q)[Lugar(f)] = g
  <2> DEFINE q == mem.registro[f].tabla
             g == mem.registro[f].pagina
  <2>1. q \in Ocupan /\ g \in Paginas /\ Pag(mem, q, g).presencia /\ Pag(mem, q, g).marco = f
    BY <1>1, Registrada
  <2>2. \E i \in 1 .. Len(Asig(mem, q)) : Asig(mem, q)[i] = g
    <3> HIDE DEF q, g
    <3>1. Ordenada(mem, q)
      BY <1>1, <2>1
    <3> QED BY <2>1, <3>1 DEF Ordenada
  <2> QED BY <2>1, <2>2
<1> HIDE DEF Lugar
<1>3. ASSUME NEW f \in MarcosFisicos PROVE F[f] \in Lugares
  <2> DEFINE q == mem.registro[f].tabla
  <2>1. q \in Ocupan /\ Lugar(f) \in 1 .. Len(Asig(mem, q))
    BY <1>2
  <2>2. Len(Asig(mem, q)) \in Nat /\ Len(Asig(mem, q)) <= Marcos /\ Marcos \in Nat
    BY <1>1, <2>1, PartesDeMemoria, MarcosAssumption DEF Ordenada
  <2>3. ~ (q = p /\ Lugar(f) = Marcos)
    BY <2>1, <2>2
  <2> QED BY <2>1, <2>2, <2>3
<1>4. ASSUME NEW f \in MarcosFisicos, NEW h \in MarcosFisicos, F[f] = F[h] PROVE f = h
  <2>1. mem.registro[f].tabla = mem.registro[h].tabla /\ Lugar(f) = Lugar(h)
    BY <1>4
  <2>2. mem.registro[f].pagina = mem.registro[h].pagina
    BY <1>2, <2>1
  <2> QED BY <1>2, <2>1, <2>2
<1>5. IsFiniteSet(MarcosFisicos) /\ Cardinality(MarcosFisicos) = NumMarcos
  BY FS_Interval, TablasAssumption DEF MarcosFisicos
<1>6. IsFiniteSet(Lugares) /\ Cardinality(Lugares) < NumMarcos
  <2> DEFINE P == Ocupan \X (1 .. Marcos)
             c == Cardinality(Ocupan)
  <2>1. IsFiniteSet(1 .. Marcos) /\ Cardinality(1 .. Marcos) = Marcos
    BY FS_Interval, MarcosAssumption
  <2>2. IsFiniteSet(Ocupan) /\ c \in Nat /\ c <= Grado
    BY FS_CardinalityType DEF TablasInv, Holgura
  <2>3. IsFiniteSet(P) /\ Cardinality(P) = c * Marcos
    BY <2>1, <2>2, FS_Product
  <2>4. <<p, Marcos>> \in P
    BY <1>1, MarcosAssumption
  <2> HIDE DEF P
  <2>5. IsFiniteSet(P \ {<<p, Marcos>>})
        /\ Cardinality(P \ {<<p, Marcos>>}) = Cardinality(P) - 1
    BY <2>3, <2>4, FS_RemoveElement
  <2> HIDE DEF c
  <2>6. c * Marcos <= Grado * Marcos /\ c * Marcos \in Nat /\ Grado * Marcos \in Nat
    BY <2>2, MarcosAssumption, MemoriaAssumption
  <2>7. NumMarcos \in Nat /\ Grado * Marcos <= NumMarcos
    BY TablasAssumption, MemoriaAssumption
  <2>8. c * Marcos - 1 < NumMarcos
    BY <2>6, <2>7
  <2> QED BY <2>3, <2>5, <2>8 DEF P
<1>7. F \in [MarcosFisicos -> Lugares]
  BY <1>3
<1> HIDE DEF Lugares, F
<1>8. \E f, h \in MarcosFisicos : f # h /\ F[f] = F[h]
  BY <1>5, <1>6, <1>7, FS_PigeonHole
<1> QED BY <1>4, <1>8

(***************************************************************************)
(* The TLB: a hit moves its entry, a miss adds one.                        *)
(***************************************************************************)
LEMMA UbicacionAcierta ==
    ASSUME NEW tlb \in Seq(EntradasDeTlb), NEW g, Acierto(tlb, g)
    PROVE  /\ Ubicacion(tlb, g) \in 1 .. Len(tlb)
           /\ tlb[Ubicacion(tlb, g)].pagina = g
<1> DEFINE S == {i \in 1 .. Len(tlb) : tlb[i].pagina = g}
           k == Primero(S)
<1>1. S \in SUBSET Nat /\ S # {}
  BY DEF Acierto
<1>2. k \in S /\ \A j \in S : k <= j
  <2> HIDE DEF S
  <2> QED BY <1>1, PrimeroDelConjunto
<1> HIDE DEF k
<1>3. k \in 1 .. Len(tlb) /\ tlb[k].pagina = g /\ \A j \in 1 .. k - 1 : tlb[j].pagina # g
  BY <1>2
<1> QED BY <1>3 DEF Ubicacion

\* The entries of t are entries of tlb.
DeLasDe(t, tlb) ==
    /\ t \in Seq(EntradasDeTlb)
    /\ \A i \in 1 .. Len(t) : \E j \in 1 .. Len(tlb) : t[i] = tlb[j]

LEMMA Concatenadas ==
    ASSUME NEW S, NEW a \in Seq(S), NEW b \in Seq(S)
    PROVE  /\ a \o b \in Seq(S) /\ Len(a \o b) = Len(a) + Len(b)
           /\ \A i \in 1 .. Len(a) : (a \o b)[i] = a[i]
OBVIOUS

LEMMA BuscarMarcoMueve ==
    ASSUME NEW tlb \in Seq(EntradasDeTlb), NEW g, Acierto(tlb, g)
    PROVE  DeLasDe(buscar_marco(tlb, g), tlb) /\ Len(buscar_marco(tlb, g)) = Len(tlb)
<1> DEFINE k == Ubicacion(tlb, g)
           a == SubSeq(tlb, 1, k - 1)
           b == SubSeq(tlb, k + 1, Len(tlb))
           t == a \o b \o <<tlb[k]>>
<1>1. k \in 1 .. Len(tlb) /\ Len(tlb) \in Nat
  BY UbicacionAcierta
<1> HIDE DEF k
<1>2. /\ a \in Seq(EntradasDeTlb) /\ Len(a) = k - 1
      /\ \A i \in 1 .. k - 1 : a[i] = tlb[i]
  BY <1>1
<1>3. /\ b \in Seq(EntradasDeTlb) /\ Len(b) = Len(tlb) - k
      /\ \A i \in 1 .. Len(tlb) - k : b[i] = tlb[i + k]
  BY <1>1
<1>4. <<tlb[k]>> \in Seq(EntradasDeTlb) /\ tlb[k] \in EntradasDeTlb
  BY <1>1
<1> HIDE DEF a, b
<1>5. /\ t \in Seq(EntradasDeTlb) /\ Len(t) = Len(tlb)
      /\ \A i \in 1 .. k - 1 : t[i] = tlb[i]
      /\ \A i \in k .. Len(tlb) - 1 : t[i] = tlb[i + 1]
      /\ t[Len(tlb)] = tlb[k]
  <2>1. /\ a \o b \in Seq(EntradasDeTlb) /\ Len(a \o b) = Len(tlb) - 1
        /\ \A i \in 1 .. k - 1 : (a \o b)[i] = tlb[i]
        /\ \A i \in k .. Len(tlb) - 1 : (a \o b)[i] = tlb[i + 1]
    <3>0. a \in Seq(EntradasDeTlb) /\ b \in Seq(EntradasDeTlb)
      BY <1>2, <1>3
    <3>1. a \o b \in Seq(EntradasDeTlb) /\ Len(a \o b) = Len(tlb) - 1
      <4>1. a \o b \in Seq(EntradasDeTlb) /\ Len(a \o b) = Len(a) + Len(b)
        BY <3>0, Concatenadas
      <4>2. Len(a) + Len(b) = Len(tlb) - 1
        BY <1>1, <1>2, <1>3
      <4> QED BY <4>1, <4>2
    <3>2. \A i \in 1 .. k - 1 : (a \o b)[i] = tlb[i]
      <4>1. \A i \in 1 .. Len(a) : (a \o b)[i] = a[i]
        BY <3>0, Concatenadas
      <4> QED BY <1>2, <4>1
    <3>3. ASSUME NEW i \in k .. Len(tlb) - 1 PROVE (a \o b)[i] = tlb[i + 1]
      <4>1. i - (k - 1) \in 1 .. Len(tlb) - k /\ i \in 1 .. Len(a) + Len(b)
            /\ i > Len(a)
        BY <1>1, <1>2, <1>3
      <4>2. (a \o b)[i] = b[i - Len(a)]
        BY <1>2, <1>3, <4>1
      <4>3. b[i - (k - 1)] = tlb[(i - (k - 1)) + k]
        BY <1>3, <4>1
      <4> QED BY <1>1, <1>2, <4>2, <4>3
    <3> QED BY <3>1, <3>2, <3>3
  <2> QED BY <1>1, <1>4, <2>1, SMTT(30)
<1> HIDE DEF t
<1>6. DeLasDe(t, tlb)
  <2> SUFFICES ASSUME NEW i \in 1 .. Len(t) PROVE \E j \in 1 .. Len(tlb) : t[i] = tlb[j]
    BY <1>5 DEF DeLasDe
  <2>1. CASE i \in 1 .. k - 1
    BY <1>1, <1>5, <2>1
  <2>2. CASE i \in k .. Len(tlb) - 1
    <3>1. i + 1 \in 1 .. Len(tlb)
      BY <1>1, <2>2
    <3> QED BY <1>5, <2>2, <3>1
  <2>3. CASE i = Len(tlb)
    BY <1>1, <1>5, <2>3
  <2> QED BY <1>1, <1>5, <2>1, <2>2, <2>3
<1>7. DeLasDe(tlb, tlb)
  BY DEF DeLasDe
<1>8. AlFinal(tlb, k) = t
  BY DEF AlFinal, t, a, b
<1> QED BY <1>5, <1>6, <1>7, <1>8 DEF buscar_marco, k

LEMMA ReemplazarEntrada ==
    ASSUME NEW tlb \in Seq(EntradasDeTlb), NEW e \in EntradasDeTlb,
           Len(tlb) <= EntradasTlb
    PROVE  LET t == reemplazar_entrada(tlb, e)
           IN  /\ t \in Seq(EntradasDeTlb) /\ Len(t) <= EntradasTlb
               /\ \A i \in 1 .. Len(t) : t[i] = e \/ \E j \in 1 .. Len(tlb) : t[i] = tlb[j]
               /\ EntradasTlb = 1 => \A i \in 1 .. Len(t) : t[i] = e
<1> DEFINE t == reemplazar_entrada(tlb, e)
<1>1. EntradasTlb \in Nat /\ EntradasTlb > 0 /\ Len(tlb) \in Nat
  BY TlbAssumption
<1>2. CASE Len(tlb) < EntradasTlb
  <2>1. t = Append(tlb, e)
    BY <1>2 DEF reemplazar_entrada
  <2> HIDE DEF t
  <2>2. /\ t \in Seq(EntradasDeTlb) /\ Len(t) = Len(tlb) + 1 /\ t[Len(tlb) + 1] = e
        /\ \A i \in 1 .. Len(tlb) : t[i] = tlb[i]
    BY <2>1
  <2>3. \A i \in 1 .. Len(t) : i \in 1 .. Len(tlb) \/ i = Len(tlb) + 1
    BY <1>1, <2>2
  <2>4. EntradasTlb = 1 => \A i \in 1 .. Len(t) : t[i] = e
    BY <1>1, <1>2, <2>2
  <2> QED BY <1>1, <1>2, <2>2, <2>3, <2>4 DEF t
<1>3. CASE Len(tlb) = EntradasTlb
  <2>1. t = Append(Tail(tlb), e)
    BY <1>3 DEF reemplazar_entrada
  <2>2. /\ Tail(tlb) \in Seq(EntradasDeTlb) /\ Len(Tail(tlb)) = Len(tlb) - 1
        /\ \A i \in 1 .. Len(tlb) - 1 : Tail(tlb)[i] = tlb[i + 1]
    BY <1>1, <1>3
  <2> DEFINE u == Tail(tlb)
  <2> HIDE DEF t, u
  <2>3. /\ t \in Seq(EntradasDeTlb) /\ Len(t) = Len(tlb) /\ t[Len(tlb)] = e
        /\ \A i \in 1 .. Len(tlb) - 1 : t[i] = tlb[i + 1]
    BY <1>1, <1>3, <2>1, <2>2 DEF u
  <2>4. ASSUME NEW i \in 1 .. Len(t)
        PROVE  t[i] = e \/ \E j \in 1 .. Len(tlb) : t[i] = tlb[j]
    <3>1. CASE i = Len(tlb)
      BY <2>3, <3>1
    <3>2. CASE i \in 1 .. Len(tlb) - 1
      <4>1. i + 1 \in 1 .. Len(tlb)
        BY <1>1, <3>2
      <4> QED BY <2>3, <3>2, <4>1
    <3> QED BY <1>1, <2>3, <3>1, <3>2
  <2>5. EntradasTlb = 1 => \A i \in 1 .. Len(t) : t[i] = e
    BY <1>1, <1>3, <2>3
  <2> QED BY <1>1, <1>3, <2>3, <2>4, <2>5 DEF t
<1> QED BY <1>1, <1>2, <1>3

(***************************************************************************)
(* The steps of the kernel.                                                *)
(***************************************************************************)
LEMMA RegistroFielCrece ==
    ASSUME NEW m, NEW A, NEW B, A \subseteq B, RegistroFiel(m, A)
    PROVE  RegistroFiel(m, B)
BY DEF RegistroFiel

LEMMA SinProceso == NADIE \notin Procesos
BY TablasAssumption

\* The CPU does not see a step that leaves its process and its frames.
LEMMA CpuIgual ==
    ASSUME CpuInv, cpu' = cpu,
           cpu.proceso # NADIE => estado'[cpu.proceso] = estado[cpu.proceso],
           \A f \in MarcosFisicos : cpu.proceso # NADIE /\ Suyo(mem, cpu.proceso, f) =>
              mem'.registro[f] = mem.registro[f]
    PROVE  CpuInv'
<1>1. \A f : cpu.proceso # NADIE /\ Suyo(mem, cpu.proceso, f) => Suyo(mem', cpu.proceso, f)
  BY DEF Suyo
<1>2. cpu'.proceso # NADIE =>
          /\ estado'[cpu'.proceso] = "en_memoria"
          /\ \A i \in 1 .. Len(cpu'.tlb) : Suyo(mem', cpu'.proceso, cpu'.tlb[i].marco)
          /\ cpu'.pc = "acceso" => Suyo(mem', cpu'.proceso, cpu'.marco)
  BY <1>1 DEF CpuInv
<1> QED BY <1>2 DEF CpuInv

LEMMA NuevoStep ==
    ASSUME TablasInv, CpuInv, NEW p \in Procesos, MC_NUEVO_PROCESO(p)
    PROVE  TablasInv' /\ CpuInv'
<1> DEFINE n == iniciar_nuevo_proceso(mem, p)
<1>1. /\ mem' = n /\ estado[p] = "nuevo" /\ estado' = [estado EXCEPT ![p] = "en_memoria"]
      /\ cpu' = cpu
  BY DEF MC_NUEVO_PROCESO
<1>2. p \in Procesos \ Ocupan /\ Ocupan' = Ocupan \cup {p} /\ Ocupan \in SUBSET Procesos
  BY <1>1 DEF Ocupan, TablasInv
<1>3. /\ n \in Memorias /\ RegistroFiel(n, Ocupan) /\ Ordenada(n, p)
      /\ \A q \in Procesos \ {p} : Ordenada(mem, q) => Ordenada(n, q)
      /\ n.registro = mem.registro
  BY <1>2, IniciarOrdenada DEF TablasInv
<1> HIDE DEF n
<1>4. TablasInv'
  <2>1. RegistroFiel(n, Ocupan \cup {p})
    BY <1>3, RegistroFielCrece
  <2>2. IsFiniteSet(Ocupan \cup {p})
    BY FS_AddElement DEF TablasInv
  <2>3. \A q \in Procesos : Vivo(q)' => q = p \/ Vivo(q)
    BY <1>1 DEF Vivo, TablasInv
  <2>4. \A q \in Procesos : Vivo(q)' => Ordenada(n, q)
    BY <1>3, <2>3 DEF TablasInv
  <2>5. estado' \in [Procesos -> Estados]
    BY <1>1 DEF TablasInv, Estados
  <2> QED BY <1>1, <1>2, <1>3, <2>1, <2>2, <2>4, <2>5 DEF TablasInv
<1>5. CpuInv'
  <2>1. cpu.proceso # p
    BY <1>1, SinProceso DEF CpuInv
  <2> QED BY <1>1, <1>3, <2>1, CpuIgual DEF TablasInv, CpuInv
<1> QED BY <1>4, <1>5

\* The process p of the step gives back its frames.
LEMMA SueltaStep ==
    ASSUME TablasInv, CpuInv, NEW p \in Procesos, cpu.proceso # p, cpu' = cpu,
           NEW e \in {"suspendido", "finalizado"}, estado' = [estado EXCEPT ![p] = e],
           Suelta(mem, mem', Ocupan, p), e = "suspendido" => Ordenada(mem', p)
    PROVE  TablasInv' /\ CpuInv'
<1>1. Ocupan' = Ocupan \ {p}
  BY DEF Ocupan, TablasInv
<1>2. TablasInv'
  <2>1. IsFiniteSet(Ocupan \ {p})
    BY FS_RemoveElement DEF TablasInv
  <2>2. \A q \in Procesos : Vivo(q)' => (q = p /\ e = "suspendido") \/ (q # p /\ Vivo(q))
    BY DEF Vivo, TablasInv
  <2>3. \A q \in Procesos : Vivo(q)' => Ordenada(mem', q)
    BY <2>2 DEF TablasInv, Suelta
  <2>4. estado' \in [Procesos -> Estados]
    BY DEF TablasInv, Estados
  <2> QED BY <1>1, <2>1, <2>3, <2>4 DEF TablasInv, Suelta
<1>3. CpuInv'
  <2>1. \A f \in MarcosFisicos : Suyo(mem, cpu.proceso, f) =>
           mem'.registro[f] = mem.registro[f]
    BY DEF Suyo, Suelta
  <2>2. cpu.proceso # NADIE => estado'[cpu.proceso] = estado[cpu.proceso]
    BY DEF CpuInv, TablasInv
  <2> QED BY <2>1, <2>2, CpuIgual
<1> QED BY <1>2, <1>3

LEMMA SuspenderStep ==
    ASSUME TablasInv, CpuInv, NEW p \in Procesos, MC_SUSPENDER_PROCESO(p)
    PROVE  TablasInv' /\ CpuInv'
<1>1. /\ mem' = suspender_proceso(mem, p) /\ cpu.proceso # p /\ cpu' = cpu
      /\ estado' = [estado EXCEPT ![p] = "suspendido"] /\ estado[p] = "en_memoria"
  BY DEF MC_SUSPENDER_PROCESO
<1>2. /\ mem \in Memorias /\ Ocupan \in SUBSET Procesos /\ RegistroFiel(mem, Ocupan)
      /\ Ordenada(mem, p)
  BY <1>1, OcupanVivos DEF TablasInv, Vivo
<1>3. Suelta(mem, mem', Ocupan, p) /\ Ordenada(mem', p)
  <2>1. LET n == suspender_proceso(mem, p)
        IN  Suelta(mem, n, Ocupan, p) /\ Ordenada(n, p)
    BY <1>2, SuspenderSuelta, Zenon
  <2> QED BY <1>1, <2>1
<1> QED BY <1>1, <1>3, SueltaStep

LEMMA FinalizarStep ==
    ASSUME TablasInv, CpuInv, NEW p \in Procesos, MC_FINALIZAR_PROCESO(p)
    PROVE  TablasInv' /\ CpuInv'
<1>1. /\ mem' = finalizar_proceso(mem, p) /\ cpu' = cpu
      /\ estado' = [estado EXCEPT ![p] = "finalizado"] /\ estado[p] = "saliendo"
  BY DEF MC_FINALIZAR_PROCESO
<1>2. cpu.proceso # p
  BY <1>1, SinProceso DEF CpuInv
<1>3. /\ mem \in Memorias /\ Ocupan \in SUBSET Procesos /\ RegistroFiel(mem, Ocupan)
      /\ Ordenada(mem, p)
  BY <1>1, OcupanVivos DEF TablasInv, Vivo
<1>4. Suelta(mem, mem', Ocupan, p)
  BY <1>1, <1>3, FinalizarSuelta
<1> QED BY <1>1, <1>2, <1>4, SueltaStep

LEMMA ReadmitirStep ==
    ASSUME TablasInv, CpuInv, NEW p \in Procesos, Readmitir(p)
    PROVE  TablasInv' /\ CpuInv'
<1>1. /\ mem' = mem /\ cpu' = cpu /\ estado[p] = "suspendido"
      /\ estado' = [estado EXCEPT ![p] = "en_memoria"]
  BY DEF Readmitir
<1>2. Ocupan' = Ocupan \cup {p}
  BY <1>1 DEF Ocupan, TablasInv
<1>3. TablasInv'
  <2>1. RegistroFiel(mem, Ocupan \cup {p})
    BY RegistroFielCrece DEF TablasInv
  <2>2. IsFiniteSet(Ocupan \cup {p})
    BY FS_AddElement DEF TablasInv
  <2>3. \A q \in Procesos : Vivo(q)' => Vivo(q)
    BY <1>1 DEF Vivo, TablasInv
  <2>4. estado' \in [Procesos -> Estados]
    BY <1>1 DEF TablasInv, Estados
  <2> QED BY <1>1, <1>2, <2>1, <2>2, <2>3, <2>4 DEF TablasInv
<1>4. CpuInv'
  <2>1. cpu.proceso # p
    BY <1>1, SinProceso DEF CpuInv
  <2> QED BY <1>1, <2>1, CpuIgual DEF CpuInv, TablasInv
<1> QED BY <1>3, <1>4

LEMMA SalirStep ==
    ASSUME TablasInv, CpuInv, NEW p \in Procesos, Salir(p)
    PROVE  TablasInv' /\ CpuInv'
<1>1. /\ mem' = mem /\ cpu' = cpu /\ estado[p] = "en_memoria" /\ cpu.proceso # p
      /\ estado' = [estado EXCEPT ![p] = "saliendo"]
  BY DEF Salir
<1>2. Ocupan' = Ocupan
  BY <1>1 DEF Ocupan, TablasInv
<1>3. TablasInv'
  <2>1. \A q \in Procesos : Vivo(q)' => Vivo(q)
    BY <1>1 DEF Vivo, TablasInv
  <2>2. estado' \in [Procesos -> Estados]
    BY <1>1 DEF TablasInv, Estados
  <2> QED BY <1>1, <1>2, <2>1, <2>2 DEF TablasInv
<1>4. CpuInv'
  BY <1>1, CpuIgual DEF CpuInv, TablasInv
<1> QED BY <1>3, <1>4

LEMMA KernelStep ==
    ASSUME TablasInv, CpuInv, Kernel
    PROVE  TablasInv' /\ CpuInv'
BY NuevoStep, SuspenderStep, ReadmitirStep, SalirStep, FinalizarStep DEF Kernel

(***************************************************************************)
(* The steps of the CPU.                                                   *)
(***************************************************************************)
\* What the memory does for the running process leaves every process in order.
LEMMA MemoriaDelProceso ==
    ASSUME TablasInv, estado' = estado, RegistroFiel(mem', Ocupan), mem' \in Memorias,
           \A q \in Procesos : Ordenada(mem, q) => Ordenada(mem', q)
    PROVE  TablasInv'
<1>1. Ocupan' = Ocupan /\ \A q \in Procesos : Vivo(q)' <=> Vivo(q)
  BY DEF Ocupan, Vivo
<1> QED BY <1>1 DEF TablasInv

LEMMA DespacharStep ==
    ASSUME TablasInv, CpuInv, NEW p \in Procesos, Despachar(p)
    PROVE  TablasInv' /\ CpuInv'
<1>1. /\ mem' = mem /\ estado' = estado /\ estado[p] = "en_memoria"
      /\ cpu' = [proceso |-> p, tlb |-> <<>>, pc |-> "fetch"]
  BY DEF Despachar
<1>2. TablasInv'
  BY <1>1 DEF TablasInv, Ocupan, Vivo
<1>3. CpuInv'
  <2>1. cpu'.proceso = p /\ cpu'.tlb = <<>> /\ cpu'.pc = "fetch"
    BY <1>1
  <2>2. cpu'.tlb \in Seq(EntradasDeTlb) /\ Len(cpu'.tlb) = 0 /\ 0 <= EntradasTlb
    BY <2>1, TlbAssumption
  <2> QED BY <1>1, <2>1, <2>2, SinProceso DEF CpuInv
<1> QED BY <1>2, <1>3

LEMMA DesalojarStep ==
    ASSUME TablasInv, CpuInv, Desalojar
    PROVE  TablasInv' /\ CpuInv'
<1>1. /\ mem' = mem /\ estado' = estado
      /\ cpu'.proceso = NADIE /\ cpu'.tlb = cpu.tlb /\ cpu'.pc = "desalojado"
  BY DEF Desalojar
<1>2. TablasInv'
  BY <1>1 DEF TablasInv, Ocupan, Vivo
<1>3. CpuInv'
  BY <1>1 DEF CpuInv
<1> QED BY <1>2, <1>3

\* The running process: what the steps of its accesses need.
LEMMA EnEjecucion ==
    ASSUME TablasInv, CpuInv, cpu.pc # "desalojado"
    PROVE  /\ cpu.proceso \in Procesos /\ cpu.proceso \in Ocupan /\ cpu.proceso # NADIE
           /\ cpu.proceso \in EnMemoria /\ Ordenada(mem, cpu.proceso)
           /\ mem \in Memorias /\ RegistroFiel(mem, Ocupan) /\ Ocupan \in SUBSET Procesos
<1>1. cpu.proceso \in Procesos /\ cpu.proceso # NADIE /\ estado[cpu.proceso] = "en_memoria"
  BY DEF CpuInv
<1> QED BY <1>1, OcupanVivos DEF TablasInv, Ocupan, Vivo, EnMemoria

\* A frame of the process holds a page of it.
LEMMA PaginaDelMarco ==
    ASSUME TablasInv, NEW p \in Procesos, NEW f, Suyo(mem, p, f)
    PROVE  /\ mem.registro[f].pagina \in Paginas
           /\ Pag(mem, p, mem.registro[f].pagina).presencia
           /\ Pag(mem, p, mem.registro[f].pagina).marco = f
BY Registrada, OcupanVivos DEF Suyo, TablasInv

\* The translation of an address keeps, in the TLB and for the access, frames of the
\* process.
LEMMA TraducidaStep ==
    ASSUME CpuInv, cpu.proceso # NADIE, estado' = estado, NEW a \in Accesos,
           NEW f, Suyo(mem', cpu.proceso, f),
           NEW t \in Seq(EntradasDeTlb), Len(t) <= EntradasTlb, Traducida(a, f, t),
           \A i \in 1 .. Len(t) : Suyo(mem', cpu.proceso, t[i].marco)
    PROVE  CpuInv'
<1>1. /\ cpu'.proceso = cpu.proceso /\ cpu'.tlb = t /\ cpu'.pc = "acceso"
      /\ cpu'.acceso = a /\ cpu'.marco = f
  BY DEF Traducida
<1> QED BY <1>1 DEF CpuInv

LEMMA TlbHitStep ==
    ASSUME TablasInv, CpuInv, cpu.pc # "desalojado", NEW a \in Accesos, TlbHit(a)
    PROVE  TablasInv' /\ CpuInv'
<1> DEFINE t == buscar_marco(cpu.tlb, a.pagina)
           k == Ubicacion(cpu.tlb, a.pagina)
           f == cpu.tlb[k].marco
<1>1. /\ mem' = mem /\ estado' = estado /\ Acierto(cpu.tlb, a.pagina) /\ Traducida(a, f, t)
  BY DEF TlbHit
<1>2. TablasInv'
  BY <1>1 DEF TablasInv, Ocupan, Vivo
<1>3. cpu.tlb \in Seq(EntradasDeTlb) /\ cpu.proceso # NADIE
  BY DEF CpuInv
<1>4. k \in 1 .. Len(cpu.tlb)
  BY <1>1, <1>3, UbicacionAcierta
<1>5. DeLasDe(t, cpu.tlb) /\ Len(t) = Len(cpu.tlb)
  BY <1>1, <1>3, BuscarMarcoMueve
<1> HIDE DEF t, k
<1>6. Suyo(mem', cpu.proceso, f) /\ \A i \in 1 .. Len(t) : Suyo(mem', cpu.proceso, t[i].marco)
  <2>1. \A j \in 1 .. Len(cpu.tlb) : Suyo(mem', cpu.proceso, cpu.tlb[j].marco)
    BY <1>1, <1>3 DEF CpuInv, Suyo
  <2> QED BY <1>4, <1>5, <2>1 DEF DeLasDe
<1>7. t \in Seq(EntradasDeTlb) /\ Len(t) <= EntradasTlb
  BY <1>5 DEF DeLasDe, CpuInv
<1> HIDE DEF f
<1>8. CpuInv'
  BY <1>1, <1>3, <1>6, <1>7, TraducidaStep
<1> QED BY <1>2, <1>8

LEMMA AccesosTyped ==
    ASSUME NEW a \in Accesos
    PROVE  /\ a.pagina \in Paginas
           /\ a.tipo \in {"READ", "WRITE", "COPY"}
           /\ a.tipo = "WRITE" => a.dato \in Datos
           /\ a.tipo = "COPY" => a.destino \in Paginas
BY DEF Accesos

\* A miss: the state the memory leaves, and the frame it answers.
Falla(a, m, f) ==
    /\ mem' = m /\ estado' = estado /\ f = MarcoDe(m, cpu.proceso, a.pagina)
    /\ m = Presente(mem, cpu.proceso, a.pagina)
    /\ Trae(mem, m, Ocupan, cpu.proceso, a.pagina)
    /\ Ordenada(m, cpu.proceso) /\ Suyo(m, cpu.proceso, f)
    /\ Traducida(a, f, reemplazar_entrada(cpu.tlb, [pagina |-> a.pagina, marco |-> f]))
    /\ [pagina |-> a.pagina, marco |-> f] \in EntradasDeTlb

LEMMA TlbMissFalla ==
    ASSUME TablasInv, CpuInv, Holgura, cpu.pc # "desalojado", NEW a \in Accesos, TlbMiss(a)
    PROVE  \E m, f : Falla(a, m, f)
<1> DEFINE p == cpu.proceso
           m == Presente(mem, p, a.pagina)
           f == MarcoDe(m, p, a.pagina)
<1>1. /\ mem' = m /\ estado' = estado
      /\ Traducida(a, f, reemplazar_entrada(cpu.tlb, [pagina |-> a.pagina, marco |-> f]))
  BY DEF TlbMiss
<1>2. a.pagina \in Paginas
  BY AccesosTyped
<1>3. Sobra(mem, p)
  BY EnEjecucion, Suficientes DEF MarcosSuficientes, Sobra, Asig
<1>4. Trae(mem, m, Ocupan, p, a.pagina)
  BY <1>2, <1>3, EnEjecucion, PresenteOrdenada
<1> HIDE DEF m
<1>5. m \in Memorias /\ Ordenada(m, p) /\ Pag(m, p, a.pagina).presencia
  BY <1>4, EnEjecucion DEF Trae
<1>6. f \in MarcosFisicos /\ f = Pag(m, p, a.pagina).marco
  BY <1>2, <1>5, EnEjecucion, PartesDeMemoria DEF MarcoDe, Pag, Entradas
<1> HIDE DEF f
<1>7. m.registro[f] = [asignado |-> TRUE, tabla |-> p, pagina |-> a.pagina]
  BY <1>2, <1>5, <1>6 DEF Ordenada
<1>8. Suyo(m, p, f)
  BY <1>6, <1>7 DEF Suyo
<1>9. [pagina |-> a.pagina, marco |-> f] \in EntradasDeTlb
  BY <1>2, <1>6 DEF EntradasDeTlb
<1> QED BY <1>1, <1>4, <1>5, <1>8, <1>9 DEF Falla, m, f

LEMMA TlbMissStep ==
    ASSUME TablasInv, CpuInv, Holgura, cpu.pc # "desalojado", NEW a \in Accesos, TlbMiss(a)
    PROVE  TablasInv' /\ CpuInv'
<1>1. PICK m, f : Falla(a, m, f)
  BY TlbMissFalla
<1> DEFINE e == [pagina |-> a.pagina, marco |-> f]
           t == reemplazar_entrada(cpu.tlb, e)
<1>2. TablasInv'
  BY <1>1, MemoriaDelProceso DEF Falla, Trae
<1>3. /\ cpu.tlb \in Seq(EntradasDeTlb) /\ Len(cpu.tlb) <= EntradasTlb
      /\ cpu.proceso # NADIE /\ e \in EntradasDeTlb /\ e.marco = f
  BY <1>1 DEF CpuInv, Falla
<1> HIDE DEF e
<1>4. /\ t \in Seq(EntradasDeTlb) /\ Len(t) <= EntradasTlb
      /\ \A i \in 1 .. Len(t) : t[i] = e \/ \E j \in 1 .. Len(cpu.tlb) : t[i] = cpu.tlb[j]
  BY <1>3, ReemplazarEntrada
<1>5. \A j \in 1 .. Len(cpu.tlb) : Suyo(m, cpu.proceso, cpu.tlb[j].marco)
  BY <1>1, <1>3 DEF CpuInv, Suyo, Falla, Trae, Conserva
<1>6. mem' = m /\ estado' = estado /\ Suyo(m, cpu.proceso, f) /\ Traducida(a, f, t)
  BY <1>1 DEF Falla, e
<1> HIDE DEF t
<1>7. \A i \in 1 .. Len(t) : Suyo(m, cpu.proceso, t[i].marco)
  BY <1>3, <1>4, <1>5, <1>6
<1>8. CpuInv'
  BY <1>3, <1>4, <1>6, <1>7, TraducidaStep
<1> QED BY <1>2, <1>8

\* An access: the page of the frame is in memory, and stays in its frame.
LEMMA AccesoToca ==
    ASSUME TablasInv, CpuInv, cpu.pc = "acceso", NEW g, g = Registrado.pagina
    PROVE  /\ Registrado.tabla = cpu.proceso /\ g \in Paginas
           /\ cpu.marco \in MarcosFisicos
           /\ Pag(mem, cpu.proceso, g).presencia /\ Pag(mem, cpu.proceso, g).marco = cpu.marco
<1>1. Suyo(mem, cpu.proceso, cpu.marco) /\ cpu.proceso \in Procesos
  BY SinProceso DEF CpuInv
<1> QED BY <1>1, PaginaDelMarco DEF Suyo, Registrado

\* What MC_LEER_MARCO and MC_ESCRIBIR_MARCO leave of the CPU.
LEMMA TocaStep ==
    ASSUME TablasInv, CpuInv, cpu.pc = "acceso", NEW g \in Paginas, estado' = estado,
           Toca(mem, mem', cpu.proceso, g), cpu'.proceso = cpu.proceso,
           cpu'.tlb = cpu.tlb, cpu'.pc \in {"fetch", "copy"},
           cpu'.pc = "copy" => cpu'.acceso \in Accesos /\ cpu'.acceso.tipo = "WRITE"
    PROVE  TablasInv' /\ CpuInv'
<1>1. RegistroFiel(mem', Ocupan) /\ \A q \in Procesos : Ordenada(mem, q) => Ordenada(mem', q)
  BY EnEjecucion, TocaOrdenada
<1>2. TablasInv'
  BY <1>1, MemoriaDelProceso DEF Toca
<1>3. \A f : Suyo(mem, cpu.proceso, f) => Suyo(mem', cpu.proceso, f)
  BY DEF Suyo, Toca
<1>4. CpuInv'
  BY <1>3 DEF CpuInv
<1> QED BY <1>2, <1>4

LEMMA LeerDeSuMarco ==
    ASSUME TablasInv, CpuInv, cpu.pc = "acceso"
    PROVE  /\ Toca(mem, TrasLeer, cpu.proceso, Registrado.pagina)
           /\ TrasLeer.marco = mem.marco
           /\ Pag(TrasLeer, cpu.proceso, Registrado.pagina).modificado
                = Pag(mem, cpu.proceso, Registrado.pagina).modificado
           /\ Dato = mem.marco[cpu.marco] /\ Dato \in Datos
<1> DEFINE p == cpu.proceso
           g == Registrado.pagina
           n == leer_en_pagina(mem, p, g)
<1>1. /\ Registrado.tabla = p /\ g \in Paginas /\ cpu.marco \in MarcosFisicos
      /\ Pag(mem, p, g).presencia /\ Pag(mem, p, g).marco = cpu.marco
  BY AccesoToca
<1>2. TrasLeer = n /\ Dato = n.marco[MarcoDe(n, p, g)]
  BY <1>1 DEF TrasLeer, Dato
<1>3. p \in Procesos /\ mem \in Memorias
  BY EnEjecucion
<1> HIDE DEF g, p
<1>4. /\ Toca(mem, n, p, g) /\ n.marco = mem.marco
      /\ Pag(n, p, g).modificado = Pag(mem, p, g).modificado
      /\ n.marco[MarcoDe(n, p, g)] = mem.marco[Pag(mem, p, g).marco]
  BY <1>1, <1>3, LeerToca, Zenon
<1> HIDE DEF n
<1>5. mem.marco[cpu.marco] \in Datos
  BY <1>1, <1>3, PartesDeMemoria
<1> QED BY <1>1, <1>2, <1>4, <1>5 DEF p, g

LEMMA LeerStep ==
    ASSUME TablasInv, CpuInv, MC_LEER_MARCO
    PROVE  TablasInv' /\ CpuInv'
<1>1. /\ cpu.pc = "acceso" /\ cpu.acceso.tipo # "WRITE" /\ mem' = TrasLeer
      /\ estado' = estado
      /\ cpu' = IF cpu.acceso.tipo = "READ"
                THEN [proceso |-> cpu.proceso, tlb |-> cpu.tlb, pc |-> "fetch"]
                ELSE [proceso |-> cpu.proceso, tlb |-> cpu.tlb, pc |-> "copy",
                      acceso |-> [tipo |-> "WRITE", pagina |-> cpu.acceso.destino,
                                  dato |-> Dato]]
  BY DEF MC_LEER_MARCO
<1>2. Registrado.pagina \in Paginas /\ cpu.acceso \in Accesos
  BY <1>1, AccesoToca DEF CpuInv
<1>3. Toca(mem, TrasLeer, cpu.proceso, Registrado.pagina) /\ Dato \in Datos
  BY <1>1, LeerDeSuMarco
<1>4. CASE cpu.acceso.tipo = "READ"
  <2>1. cpu'.proceso = cpu.proceso /\ cpu'.tlb = cpu.tlb /\ cpu'.pc = "fetch"
    BY <1>1, <1>4
  <2> QED BY <1>1, <1>2, <1>3, <2>1, TocaStep
<1>5. CASE cpu.acceso.tipo # "READ"
  <2> DEFINE a == [tipo |-> "WRITE", pagina |-> cpu.acceso.destino, dato |-> Dato]
  <2>1. cpu'.proceso = cpu.proceso /\ cpu'.tlb = cpu.tlb /\ cpu'.pc = "copy"
        /\ cpu'.acceso = a
    BY <1>1, <1>5
  <2>2. cpu.acceso.destino \in Paginas
    BY <1>1, <1>2, <1>5, AccesosTyped
  <2>3. a \in Accesos /\ a.tipo = "WRITE"
    BY <1>3, <2>2 DEF Accesos
  <2> HIDE DEF a
  <2> QED BY <1>1, <1>2, <1>3, <2>1, <2>3, TocaStep
<1> QED BY <1>4, <1>5

LEMMA EscribirEnSuMarco ==
    ASSUME TablasInv, CpuInv, MC_ESCRIBIR_MARCO
    PROVE  /\ Toca(mem, mem', cpu.proceso, Registrado.pagina)
           /\ Pag(mem', cpu.proceso, Registrado.pagina).modificado
           /\ mem'.marco = [mem.marco EXCEPT ![cpu.marco] = cpu.acceso.dato]
           /\ cpu.acceso.dato \in Datos
<1> DEFINE p == cpu.proceso
           g == Registrado.pagina
           d == cpu.acceso.dato
           n == escribir_en_pagina(mem, p, g, d)
<1>1. /\ cpu.pc = "acceso" /\ cpu.acceso.tipo = "WRITE"
      /\ mem' = escribir_en_pagina(mem, Registrado.tabla, g, d)
  BY DEF MC_ESCRIBIR_MARCO
<1>2. /\ Registrado.tabla = p /\ g \in Paginas /\ cpu.marco \in MarcosFisicos
      /\ Pag(mem, p, g).presencia /\ Pag(mem, p, g).marco = cpu.marco
  BY <1>1, AccesoToca
<1>3. p \in Procesos /\ mem \in Memorias /\ d \in Datos
  BY <1>1, EnEjecucion, AccesosTyped DEF CpuInv
<1>4. mem' = n
  BY <1>1, <1>2
<1> HIDE DEF g, p, d
<1>5. /\ Toca(mem, n, p, g) /\ Pag(n, p, g).modificado
      /\ n.marco = [mem.marco EXCEPT ![Pag(mem, p, g).marco] = d]
  <2>1. Pag(mem, p, g).presencia /\ g \in Paginas
    BY <1>2
  <2> QED BY <1>3, <2>1, EscribirToca
<1> HIDE DEF n
<1> QED BY <1>2, <1>3, <1>4, <1>5 DEF p, g, d

LEMMA EscribirStep ==
    ASSUME TablasInv, CpuInv, MC_ESCRIBIR_MARCO
    PROVE  TablasInv' /\ CpuInv'
<1>1. /\ cpu.pc = "acceso" /\ estado' = estado
      /\ cpu'.proceso = cpu.proceso /\ cpu'.tlb = cpu.tlb /\ cpu'.pc = "fetch"
  BY DEF MC_ESCRIBIR_MARCO
<1>2. Registrado.pagina \in Paginas
  BY <1>1, AccesoToca
<1> QED BY <1>1, <1>2, EscribirEnSuMarco, TocaStep

\* The two ways to an access.
LEMMA TraducirCasos ==
    ASSUME CpuInv, Instruccion \/ Copiar
    PROVE  cpu.pc # "desalojado" /\ \E a \in Accesos : TlbHit(a) \/ TlbMiss(a)
BY DEF Instruccion, Copiar, Traducir, CpuInv

LEMMA CpuStep ==
    ASSUME TablasInv, CpuInv, Holgura, Cpu
    PROVE  TablasInv' /\ CpuInv'
<1>1. CASE Instruccion \/ Copiar
  <2>1. cpu.pc # "desalojado"
    BY <1>1, TraducirCasos
  <2>2. PICK a \in Accesos : TlbHit(a) \/ TlbMiss(a)
    BY <1>1, TraducirCasos
  <2> QED BY <2>1, <2>2, TlbHitStep, TlbMissStep
<1> QED BY <1>1, DespacharStep, DesalojarStep, LeerStep, EscribirStep DEF Cpu

LEMMA MemoriaInicialTyped == MemoriaInicial \in Memorias
<1>1. TablaNueva \in Tabla
  BY TablaNuevaTyped
<1>2. [asignado |-> FALSE, tabla |-> NADIE, pagina |-> 0] \in Registros
  BY TablasAssumption DEF Registros, Paginas
<1>3. Cero \in Datos
  BY TablasAssumption
<1> HIDE DEF TablaNueva
<1> QED BY <1>1, <1>2, <1>3 DEF MemoriaInicial, Memorias

LEMMA InitInv == ASSUME Init PROVE TablasInv /\ CpuInv
<1>1. Ocupan = {} /\ \A p \in Procesos : ~Vivo(p)
  BY DEF Init, Ocupan, Vivo
<1>2. RegistroFiel(mem, {})
  <2>1. \A f \in MarcosFisicos : mem.registro[f]
           = [asignado |-> FALSE, tabla |-> NADIE, pagina |-> 0]
    BY DEF Init, MemoriaInicial
  <2>2. \A f \in MarcosFisicos : ~mem.registro[f].asignado
    BY <2>1
  <2> QED BY <2>2 DEF RegistroFiel
<1>3. TablasInv
  BY <1>1, <1>2, MemoriaInicialTyped, FS_EmptySet DEF Init, TablasInv, Estados
<1>4. CpuInv
  <2>1. cpu.proceso = NADIE /\ cpu.tlb = <<>> /\ cpu.pc = "desalojado"
    BY DEF Init, Ocioso
  <2>2. cpu.tlb \in Seq(EntradasDeTlb) /\ Len(cpu.tlb) = 0 /\ 0 <= EntradasTlb
    BY <2>1, TlbAssumption
  <2> QED BY <2>1, <2>2 DEF CpuInv
<1> QED BY <1>3, <1>4

MemoriaInv == TablasInv /\ CpuInv

LEMMA MemoriaStep ==
    ASSUME MemoriaInv, Holgura, [Next]_vars
    PROVE  MemoriaInv'
<1>1. CASE Next
  BY <1>1, KernelStep, CpuStep DEF Next, MemoriaInv
<1>2. CASE UNCHANGED vars
  BY <1>2 DEF vars, MemoriaInv, TablasInv, CpuInv, Ocupan, Vivo
<1> QED BY <1>1, <1>2

LEMMA MemoriaInvariante == Spec /\ []Holgura => []MemoriaInv
<1>1. Init => MemoriaInv
  BY InitInv DEF MemoriaInv
<1>2. MemoriaInv /\ Holgura /\ [Next]_vars => MemoriaInv'
  BY MemoriaStep
<1> QED BY <1>1, <1>2, PTL DEF Spec

\* It holds, for one, when the kernel has no more processes than its degree.
LEMMA PocosProcesos ==
    ASSUME IsFiniteSet(Procesos), Cardinality(Procesos) <= Grado
    PROVE  Spec => []Holgura
<1>1. Holgura
  <2>1. Ocupan \in SUBSET Procesos
    BY DEF Ocupan
  <2>2. /\ Cardinality(Ocupan) <= Cardinality(Procesos) /\ IsFiniteSet(Ocupan)
        /\ Cardinality(Ocupan) \in Nat /\ Cardinality(Procesos) \in Nat
    BY <2>1, FS_Subset, FS_CardinalityType
  <2> HIDE DEF Ocupan
  <2> QED BY <2>2, MemoriaAssumption DEF Holgura
<1> QED BY <1>1, PTL

LEMMA TiposDeInv == ASSUME MemoriaInv PROVE TypeOK
<1>1. mem \in Memorias /\ estado \in [Procesos -> Estados] /\ CpuInv
  BY DEF MemoriaInv, TablasInv
<1>2. /\ mem.tabla \in [Procesos -> Tabla] /\ mem.registro \in [MarcosFisicos -> Registros]
      /\ mem.marco \in [MarcosFisicos -> Datos]
      /\ mem.swap \in [Procesos -> [PosicionesSwap -> Datos]]
  BY <1>1 DEF Memorias
<1> QED BY <1>1, <1>2 DEF TypeOK, Tabla, Entradas, Registros, CpuInv, EntradasDeTlb

\* As long as the processes that have frames are within the degree, the tables, the
\* registers, the swap files and the TLB keep their types: every page number, frame
\* number and pointer that tablas.c and the CPU compute is in range.
THEOREM TiposDeMemoria == Spec /\ []Holgura => []TypeOK
BY MemoriaInvariante, TiposDeInv, PTL

\* Then paginas_asignadas, the bits presencia and the registers of the frames tell the
\* same story after every request of the kernel and of the CPU, whatever the order.
THEOREM MarcosEnOrden == Spec /\ []Holgura => []MarcosConsistentes
<1>1. MemoriaInv => MarcosConsistentes
  BY Consistentes DEF MemoriaInv
<1> QED BY <1>1, MemoriaInvariante, PTL

\* Then no frame stays with a process that was suspended or that ended.
THEOREM MarcosDeLosPresentes == Spec /\ []Holgura => []SoloOcupanLosPresentes
<1>1. MemoriaInv => SoloOcupanLosPresentes
  BY SoloOcupan DEF MemoriaInv
<1> QED BY <1>1, MemoriaInvariante, PTL

\* Then a process that is not at MARCOS_POR_PROCESO finds a free frame, and
\* buscar_marco_libre never answers -1.
THEOREM SiempreHayMarco == Spec /\ []Holgura => []MarcosSuficientes
<1>1. MemoriaInv /\ Holgura => MarcosSuficientes
  BY Suficientes DEF MemoriaInv
<1> QED BY <1>1, MemoriaInvariante, PTL

(***************************************************************************)
(* The TLB.                                                                *)
(***************************************************************************)
\* With a frame for each page nothing is replaced: what is in memory stays there.
LEMMA SinReemplazo ==
    ASSUME NEW m \in Memorias, NEW p \in Procesos, NEW g \in Paginas,
           Ordenada(m, p), Sobra(m, p), NumPaginas <= Marcos,
           NEW h \in Paginas, Pag(m, p, h).presencia
    PROVE  /\ Pag(Presente(m, p, g), p, h).presencia
           /\ Pag(Presente(m, p, g), p, h).marco = Pag(m, p, h).marco
<1> DEFINE n == Presente(m, p, g)
<1>1. ASSUME ~Pag(m, p, g).presencia, Len(Asig(m, p)) = Marcos PROVE FALSE
  <2> DEFINE s == Asig(m, p)
             F == [i \in 1 .. Marcos |-> s[i]]
  <2>1. \A i \in 1 .. Marcos : s[i] \in Paginas \ {g}
    BY <1>1, PartesDeMemoria DEF Ordenada
  <2>2. \A i, j \in 1 .. Marcos : s[i] = s[j] => i = j
    BY <1>1 DEF Ordenada
  <2>3. IsFiniteSet(1 .. Marcos) /\ Cardinality(1 .. Marcos) = Marcos
    BY FS_Interval, MarcosAssumption
  <2>4. IsFiniteSet(Paginas) /\ Cardinality(Paginas) = NumPaginas
    <3>1. NumPaginas \in Nat /\ NumPaginas > 0 /\ NumPaginas - 1 \in Int
      BY TablasAssumption
    <3>2. /\ IsFiniteSet(0 .. NumPaginas - 1)
          /\ Cardinality(0 .. NumPaginas - 1)
               = IF 0 > NumPaginas - 1 THEN 0 ELSE (NumPaginas - 1) - 0 + 1
      BY <3>1, FS_Interval
    <3> QED BY <3>1, <3>2 DEF Paginas
  <2>5. IsFiniteSet(Paginas \ {g}) /\ Cardinality(Paginas \ {g}) = NumPaginas - 1
    BY <2>4, FS_RemoveElement
  <2>6. NumPaginas - 1 < Marcos
    BY MarcosAssumption, TablasAssumption
  <2> HIDE DEF s
  <2>7. F \in [1 .. Marcos -> Paginas \ {g}]
    BY <2>1
  <2>8. \E i, j \in 1 .. Marcos : i # j /\ F[i] = F[j]
    <3> HIDE DEF F
    <3> QED BY <2>3, <2>5, <2>6, <2>7, FS_PigeonHole
  <2> QED BY <2>2, <2>8
<1>2. ASSUME NEW f \in MarcosFisicos, Asigna(m, n, p, g, f), ~Pag(m, p, g).presencia
      PROVE  Pag(n, p, h) = Pag(m, p, h)
  BY <1>2 DEF Asigna
<1> HIDE DEF n
<1>3. \/ Pag(m, p, g).presencia /\ n = m
      \/ /\ ~Pag(m, p, g).presencia /\ Len(Asig(m, p)) < Marcos
         /\ \E f \in MarcosFisicos : Asigna(m, n, p, g, f)
      \/ /\ ~Pag(m, p, g).presencia /\ Len(Asig(m, p)) = Marcos
         /\ \E k \in 1 .. Marcos : Reemplaza(m, n, p, g, k)
  BY PresenteCasos, Zenon DEF n
<1>4. Pag(n, p, h) = Pag(m, p, h)
  <2>1. ASSUME Pag(m, p, g).presencia /\ n = m PROVE Pag(n, p, h) = Pag(m, p, h)
    BY <2>1
  <2>2. ASSUME ~Pag(m, p, g).presencia, \E f \in MarcosFisicos : Asigna(m, n, p, g, f)
        PROVE  Pag(n, p, h) = Pag(m, p, h)
    BY <1>2, <2>2
  <2> QED BY <1>1, <1>3, <2>1, <2>2, Zenon
<1> QED BY <1>4 DEF n

\* The kernel does not touch the tables, the swap file or the frames of the running
\* process, nor the CPU.
LEMMA KernelNoToca ==
    ASSUME TablasInv, CpuInv, Kernel
    PROVE  /\ cpu' = cpu /\ mem'.marco = mem.marco
           /\ cpu.proceso # NADIE => mem'.tabla[cpu.proceso] = mem.tabla[cpu.proceso]
<1> SUFFICES ASSUME NEW p \in Procesos,
                    \/ MC_NUEVO_PROCESO(p) \/ MC_SUSPENDER_PROCESO(p)
                    \/ Readmitir(p) \/ Salir(p) \/ MC_FINALIZAR_PROCESO(p)
             PROVE  /\ cpu' = cpu /\ mem'.marco = mem.marco
                    /\ cpu.proceso # NADIE =>
                          mem'.tabla[cpu.proceso] = mem.tabla[cpu.proceso]
  BY DEF Kernel
<1>1. /\ mem \in Memorias /\ Ocupan \in SUBSET Procesos /\ RegistroFiel(mem, Ocupan)
      /\ cpu.proceso # NADIE => cpu.proceso \in Procesos /\ estado[cpu.proceso] = "en_memoria"
  BY OcupanVivos DEF TablasInv, CpuInv
<1>2. CASE MC_NUEVO_PROCESO(p)
  <2>1. /\ estado[p] = "nuevo" /\ mem' = iniciar_nuevo_proceso(mem, p) /\ cpu' = cpu
    BY <1>2 DEF MC_NUEVO_PROCESO
  <2>2. p \in Procesos \ Ocupan
    BY <2>1 DEF Ocupan
  <2> QED BY <1>1, <2>1, <2>2, IniciarOrdenada
<1>3. CASE MC_SUSPENDER_PROCESO(p)
  <2>1. /\ estado[p] = "en_memoria" /\ mem' = suspender_proceso(mem, p) /\ cpu' = cpu
        /\ cpu.proceso # p
    BY <1>3 DEF MC_SUSPENDER_PROCESO
  <2>2. Ordenada(mem, p)
    BY <2>1 DEF TablasInv, Vivo
  <2>3. Suelta(mem, suspender_proceso(mem, p), Ocupan, p)
    BY <1>1, <2>2, SuspenderSuelta, Zenon
  <2> QED BY <1>1, <2>1, <2>3 DEF Suelta
<1>4. CASE MC_FINALIZAR_PROCESO(p)
  <2>1. /\ estado[p] = "saliendo" /\ mem' = finalizar_proceso(mem, p) /\ cpu' = cpu
    BY <1>4 DEF MC_FINALIZAR_PROCESO
  <2>2. Ordenada(mem, p)
    BY <2>1 DEF TablasInv, Vivo
  <2>3. Suelta(mem, finalizar_proceso(mem, p), Ocupan, p)
    BY <1>1, <2>2, FinalizarSuelta, Zenon
  <2> QED BY <1>1, <2>1, <2>3 DEF Suelta
<1>5. CASE Readmitir(p) \/ Salir(p)
  BY <1>5 DEF Readmitir, Salir
<1> QED BY <1>2, <1>3, <1>4, <1>5

TlbSegura == EntradasTlb = 1 \/ NumPaginas <= Marcos

\* The entry gives the frame of its page.
EntradaAlDia(m, p, e) ==
    Pag(m, p, e.pagina).presencia /\ MarcoDe(m, p, e.pagina) = e.marco

LEMMA EntradaIgual ==
    ASSUME NEW m, NEW n, NEW p, NEW e,
           Pag(n, p, e.pagina).presencia = Pag(m, p, e.pagina).presencia,
           Pag(n, p, e.pagina).marco = Pag(m, p, e.pagina).marco,
           EntradaAlDia(m, p, e)
    PROVE  EntradaAlDia(n, p, e)
BY Zenon DEF EntradaAlDia, MarcoDe, Pag

LEMMA TlbStep ==
    ASSUME MemoriaInv, Holgura, TlbSegura, TlbCoherente, [Next]_vars
    PROVE  TlbCoherente'
<1>0. /\ TablasInv /\ CpuInv /\ cpu.tlb \in Seq(EntradasDeTlb)
      /\ cpu.proceso # NADIE =>
            \A i \in 1 .. Len(cpu.tlb) : EntradaAlDia(mem, cpu.proceso, cpu.tlb[i])
  BY ZenonT(60) DEF MemoriaInv, CpuInv, TlbCoherente, Pag, EntradaAlDia
<1> SUFFICES ASSUME cpu'.proceso # NADIE, NEW i \in 1 .. Len(cpu'.tlb)
             PROVE  EntradaAlDia(mem', cpu'.proceso, cpu'.tlb[i])
  BY DEF TlbCoherente, Pag, EntradaAlDia, MarcoDe
<1>1. ASSUME cpu'.proceso = cpu.proceso, mem'.tabla[cpu.proceso] = mem.tabla[cpu.proceso],
             DeLasDe(cpu'.tlb, cpu.tlb)
      PROVE  EntradaAlDia(mem', cpu'.proceso, cpu'.tlb[i])
  <2>1. PICK j \in 1 .. Len(cpu.tlb) : cpu'.tlb[i] = cpu.tlb[j]
    BY <1>1 DEF DeLasDe
  <2>2. EntradaAlDia(mem, cpu.proceso, cpu.tlb[j])
    BY <1>0, <1>1
  <2>3. EntradaAlDia(mem', cpu.proceso, cpu.tlb[j])
    BY <1>1, <2>2, Zenon DEF EntradaAlDia, Pag, MarcoDe
  <2> QED BY <1>1, <2>1, <2>3
<1>2. DeLasDe(cpu.tlb, cpu.tlb)
  BY <1>0 DEF DeLasDe
<1>3. CASE Kernel
  <2>1. cpu' = cpu /\ (cpu.proceso # NADIE => mem'.tabla[cpu.proceso] = mem.tabla[cpu.proceso])
    BY <1>0, <1>3, KernelNoToca
  <2> QED BY <1>1, <1>2, <2>1
<1>4. CASE UNCHANGED vars
  BY <1>1, <1>2, <1>4 DEF vars
<1>5. CASE \E p \in Procesos : Despachar(p)
  <2>1. cpu'.tlb = <<>>
    BY <1>5 DEF Despachar
  <2> QED BY <2>1
<1>6. CASE Desalojar
  BY <1>6 DEF Desalojar
<1>7. CASE MC_LEER_MARCO \/ MC_ESCRIBIR_MARCO
  <2>1. cpu.pc = "acceso" /\ cpu'.proceso = cpu.proceso /\ cpu'.tlb = cpu.tlb
    BY <1>7 DEF MC_LEER_MARCO, MC_ESCRIBIR_MARCO
  <2>2. Toca(mem, mem', cpu.proceso, Registrado.pagina)
    BY <1>0, <1>7, <2>1, LeerDeSuMarco, EscribirEnSuMarco DEF MC_LEER_MARCO
  <2>3. cpu.tlb[i] \in EntradasDeTlb /\ i \in 1 .. Len(cpu.tlb)
    BY <1>0, <2>1
  <2>4. cpu.tlb[i].pagina \in Paginas
    BY <2>3 DEF EntradasDeTlb
  <2>5. /\ Pag(mem', cpu.proceso, cpu.tlb[i].pagina).presencia
             = Pag(mem, cpu.proceso, cpu.tlb[i].pagina).presencia
        /\ Pag(mem', cpu.proceso, cpu.tlb[i].pagina).marco
             = Pag(mem, cpu.proceso, cpu.tlb[i].pagina).marco
    BY <2>2, <2>4 DEF Toca
  <2>6. EntradaAlDia(mem, cpu.proceso, cpu.tlb[i])
    BY <1>0, <2>1, <2>3
  <2>7. EntradaAlDia(mem', cpu.proceso, cpu.tlb[i])
    BY <2>5, <2>6, EntradaIgual
  <2> QED BY <2>1, <2>7
<1>8. CASE Instruccion \/ Copiar
  <2>1. cpu.pc # "desalojado"
    BY <1>0, <1>8, TraducirCasos
  <2>2. PICK a \in Accesos : TlbHit(a) \/ TlbMiss(a)
    BY <1>0, <1>8, TraducirCasos
  <2>3. CASE TlbHit(a)
    <3>1. mem' = mem /\ cpu'.proceso = cpu.proceso
          /\ cpu'.tlb = buscar_marco(cpu.tlb, a.pagina) /\ Acierto(cpu.tlb, a.pagina)
      BY <2>3 DEF TlbHit, Traducida
    <3>2. DeLasDe(cpu'.tlb, cpu.tlb)
      BY <1>0, <3>1, BuscarMarcoMueve
    <3> QED BY <1>1, <3>1, <3>2
  <2>4. CASE TlbMiss(a)
    <3>1. PICK m, f : Falla(a, m, f)
      BY <1>0, <2>1, <2>4, TlbMissFalla
    <3> DEFINE e == [pagina |-> a.pagina, marco |-> f]
    <3>2. /\ mem' = m /\ cpu'.proceso = cpu.proceso
          /\ cpu'.tlb = reemplazar_entrada(cpu.tlb, e) /\ e \in EntradasDeTlb
          /\ Pag(m, cpu.proceso, a.pagina).presencia /\ f = MarcoDe(m, cpu.proceso, a.pagina)
          /\ m = Presente(mem, cpu.proceso, a.pagina)
      BY <3>1 DEF Falla, Traducida, Trae
    <3>3. e.pagina = a.pagina /\ e.marco = f
      OBVIOUS
    <3> HIDE DEF e
    <3>4. Len(cpu.tlb) <= EntradasTlb
      BY <1>0 DEF CpuInv
    <3>5. /\ cpu'.tlb[i] = e \/ \E j \in 1 .. Len(cpu.tlb) : cpu'.tlb[i] = cpu.tlb[j]
          /\ EntradasTlb = 1 => cpu'.tlb[i] = e
      <4> DEFINE t == reemplazar_entrada(cpu.tlb, e)
      <4>1. /\ \A k \in 1 .. Len(t) : t[k] = e \/ \E j \in 1 .. Len(cpu.tlb) : t[k] = cpu.tlb[j]
            /\ EntradasTlb = 1 => \A k \in 1 .. Len(t) : t[k] = e
        BY <1>0, <3>2, <3>4, ReemplazarEntrada
      <4>2. cpu'.tlb = t
        BY <3>2
      <4> HIDE DEF t
      <4> QED BY <4>1, <4>2
    <3>6. CASE cpu'.tlb[i] = e
      <4>1. EntradaAlDia(m, cpu.proceso, e)
        BY <3>2, <3>3 DEF EntradaAlDia
      <4> QED BY <3>2, <3>6, <4>1
    <3>7. CASE cpu'.tlb[i] # e
      <4>1. NumPaginas <= Marcos
        BY <3>5, <3>7 DEF TlbSegura
      <4>2. PICK j \in 1 .. Len(cpu.tlb) : cpu'.tlb[i] = cpu.tlb[j]
        BY <3>5, <3>7
      <4> DEFINE h == cpu.tlb[j].pagina
      <4>3. h \in Paginas /\ a.pagina \in Paginas
        <5>1. cpu.tlb[j] \in EntradasDeTlb
          BY <1>0, <4>2
        <5> QED BY <5>1, AccesosTyped DEF EntradasDeTlb
      <4>4. EntradaAlDia(mem, cpu.proceso, cpu.tlb[j]) /\ Pag(mem, cpu.proceso, h).presencia
        <5>1. EntradaAlDia(mem, cpu.proceso, cpu.tlb[j])
          BY <1>0, <3>2
        <5> QED BY <5>1, Zenon DEF EntradaAlDia
      <4>5. /\ cpu.proceso \in Procesos /\ mem \in Memorias /\ Ordenada(mem, cpu.proceso)
            /\ cpu.proceso \in EnMemoria
        BY <1>0, <2>1, EnEjecucion
      <4>6. Sobra(mem, cpu.proceso)
        BY <1>0, <4>5, Suficientes DEF MarcosSuficientes, Sobra, Asig
      <4> HIDE DEF h
      <4>7. /\ Pag(m, cpu.proceso, h).presencia
            /\ Pag(m, cpu.proceso, h).marco = Pag(mem, cpu.proceso, h).marco
        BY <3>2, <4>1, <4>3, <4>4, <4>5, <4>6, SinReemplazo
      <4>8. EntradaAlDia(m, cpu.proceso, cpu.tlb[j])
        BY <4>4, <4>7, Zenon DEF EntradaAlDia, MarcoDe, Pag, h
      <4> QED BY <3>2, <4>2, <4>8
    <3> QED BY <3>6, <3>7
  <2> QED BY <2>2, <2>3, <2>4
<1> QED BY <1>3, <1>4, <1>5, <1>6, <1>7, <1>8 DEF Next, Cpu

\* Then the TLB gives the frames of the pages of the running process, when it has one
\* entry or when no page of a process is ever replaced: the two sizes for which what
\* the memory does behind the TLB cannot leave an old entry in it.
THEOREM TlbAlDia ==
    ASSUME TlbSegura
    PROVE  Spec /\ []Holgura => []TlbCoherente
<1>1. Init => TlbCoherente
  BY DEF Init, Ocioso, TlbCoherente
<1>2. MemoriaInv /\ Holgura /\ TlbCoherente /\ [Next]_vars => TlbCoherente'
  BY TlbStep
<1> QED BY <1>1, <1>2, MemoriaInvariante, PTL DEF Spec

(***************************************************************************)
(* The contents of the pages, when a process has one second-level table:   *)
(* then the position a page is written to in swap is the one it is read    *)
(* from.                                                                   *)
(***************************************************************************)
UnaTabla == NumPaginas <= EntradasPorTabla

Valor(m, p, g) ==
    IF Pag(m, p, g).presencia THEN m.marco[Pag(m, p, g).marco] ELSE m.swap[p][g]

\* A page in memory that is not modified has its content in swap too.
Limpia(m, p, g) ==
    Pag(m, p, g).presencia /\ ~Pag(m, p, g).modificado
        => m.marco[Pag(m, p, g).marco] = m.swap[p][g]

Limpias(m, p) == \A g \in Paginas : Limpia(m, p, g)

\* p finds in n what it had in m.
Mismos(m, n, p) ==
    /\ \A g \in Paginas : Valor(n, p, g) = Valor(m, p, g)
    /\ Limpias(m, p) => Limpias(n, p)

LEMMA PosicionDeEscritura ==
    ASSUME UnaTabla, NEW g \in Paginas
    PROVE  PosicionSwap(numero_de_tabla(g), g) = g
<1>1. g \in Nat /\ EntradasPorTabla \in Nat /\ EntradasPorTabla > 0 /\ g < EntradasPorTabla
  BY TablasAssumption DEF Paginas, UnaTabla
<1>2. g \div EntradasPorTabla = 0
  BY <1>1
<1> QED BY <1>1, <1>2 DEF PosicionSwap, numero_de_tabla

LEMMA MarcoRegistrado ==
    ASSUME NEW m \in Memorias, NEW p \in Procesos, Ordenada(m, p), NEW g \in Paginas,
           Pag(m, p, g).presencia
    PROVE  /\ Pag(m, p, g).marco \in MarcosFisicos
           /\ m.registro[Pag(m, p, g).marco] = [asignado |-> TRUE, tabla |-> p, pagina |-> g]
<1>1. Pag(m, p, g).marco \in MarcosFisicos
  BY PartesDeMemoria DEF Entradas
<1> QED BY <1>1 DEF Ordenada

\* A page whose entry and datum stay.
LEMMA PaginaIgual ==
    ASSUME NEW m, NEW n, NEW p, NEW g, Queda(m, n, p, g), n.swap[p][g] = m.swap[p][g],
           Pag(m, p, g).presencia => n.marco[Pag(m, p, g).marco] = m.marco[Pag(m, p, g).marco]
    PROVE  Valor(n, p, g) = Valor(m, p, g) /\ (Limpia(m, p, g) => Limpia(n, p, g))
<1>1. CASE Pag(m, p, g).presencia
  <2>1. Pag(n, p, g).presencia /\ Pag(n, p, g).marco = Pag(m, p, g).marco
        /\ Pag(n, p, g).modificado = Pag(m, p, g).modificado
    BY <1>1, Zenon DEF Queda
  <2>2. Valor(n, p, g) = Valor(m, p, g)
    BY <1>1, <2>1, Zenon DEF Valor
  <2>3. Limpia(m, p, g) => Limpia(n, p, g)
    BY <1>1, <2>1, Zenon DEF Limpia
  <2> QED BY <2>2, <2>3
<1>2. CASE ~Pag(m, p, g).presencia
  <2>1. ~Pag(n, p, g).presencia
    BY <1>2, Zenon DEF Queda
  <2>2. Valor(n, p, g) = Valor(m, p, g)
    BY <1>2, <2>1, Zenon DEF Valor
  <2>3. Limpia(n, p, g)
    BY <2>1, Zenon DEF Limpia
  <2> QED BY <2>2, <2>3
<1> QED BY <1>1, <1>2

\* A process whose table, swap file and frames stay.
LEMMA ProcesoIgual ==
    ASSUME NEW m, NEW n, NEW p, n.tabla[p] = m.tabla[p], n.swap[p] = m.swap[p],
           \A g \in Paginas : Pag(m, p, g).presencia =>
              n.marco[Pag(m, p, g).marco] = m.marco[Pag(m, p, g).marco]
    PROVE  Mismos(m, n, p)
<1>1. \A g \in Paginas : Queda(m, n, p, g) /\ n.swap[p][g] = m.swap[p][g]
  BY DEF Queda, Pag
<1>2. \A g \in Paginas : Valor(n, p, g) = Valor(m, p, g) /\ (Limpia(m, p, g) => Limpia(n, p, g))
  BY <1>1, PaginaIgual
<1> QED BY <1>2 DEF Mismos, Limpias

\* The page that comes from swap.
LEMMA PaginaTraida ==
    ASSUME NEW m, NEW n, NEW p, NEW g, NEW f, Entra(m, n, p, g, f),
           ~Pag(m, p, g).presencia, n.swap[p][g] = m.swap[p][g]
    PROVE  Valor(n, p, g) = Valor(m, p, g) /\ Limpia(n, p, g)
<1>1. Pag(n, p, g).presencia /\ Pag(n, p, g).marco = f /\ n.marco[f] = n.swap[p][g]
  BY DEF Entra
<1>2. Valor(n, p, g) = Valor(m, p, g)
  BY <1>1, Zenon DEF Valor
<1>3. Limpia(n, p, g)
  BY <1>1, Zenon DEF Limpia
<1> QED BY <1>2, <1>3

\* Another process does not see the frame that changes, nor what goes to swap.
LEMMA EntraAjena ==
    ASSUME NEW m \in Memorias, NEW n, NEW p, NEW g, NEW f, Entra(m, n, p, g, f),
           NEW q \in Procesos \ {p}, Ordenada(m, q),
           m.registro[f].asignado => m.registro[f].tabla = p
    PROVE  Mismos(m, n, q)
<1>1. /\ n.tabla[q] = m.tabla[q] /\ n.swap[q] = m.swap[q]
      /\ \A e \in MarcosFisicos \ {f} : n.marco[e] = m.marco[e]
  BY DEF Entra
<1>2. ASSUME NEW h \in Paginas, Pag(m, q, h).presencia
      PROVE  n.marco[Pag(m, q, h).marco] = m.marco[Pag(m, q, h).marco]
  <2> DEFINE e == Pag(m, q, h).marco
  <2>1. e \in MarcosFisicos /\ m.registro[e] = [asignado |-> TRUE, tabla |-> q, pagina |-> h]
    BY <1>2, MarcoRegistrado
  <2>2. m.registro[e].asignado /\ m.registro[e].tabla = q
    BY <2>1
  <2> HIDE DEF e
  <2>3. e # f
    BY <2>2
  <2> QED BY <1>1, <2>1, <2>3 DEF e
<1> QED BY <1>1, <1>2, ProcesoIgual

LEMMA AsignaMismos ==
    ASSUME NEW m \in Memorias, NEW n, NEW p \in Procesos, NEW g \in Paginas,
           NEW f, Ordenada(m, p), ~Pag(m, p, g).presencia, Asigna(m, n, p, g, f),
           NEW q \in Procesos, Ordenada(m, q)
    PROVE  Mismos(m, n, q)
<1>1. /\ Entra(m, n, p, g, f) /\ f \in MarcosFisicos /\ ~m.registro[f].asignado
      /\ \A h \in Paginas \ {g} : Pag(n, p, h) = Pag(m, p, h)
      /\ n.swap = m.swap
      /\ \A e \in MarcosFisicos \ {f} : n.marco[e] = m.marco[e]
  BY DEF Asigna, Entra
<1>2. CASE q # p
  BY <1>1, <1>2, EntraAjena
<1>3. CASE q = p
  <2>1. Valor(n, p, g) = Valor(m, p, g) /\ Limpia(n, p, g)
    BY <1>1, PaginaTraida
  <2>2. ASSUME NEW h \in Paginas \ {g}
        PROVE  Valor(n, p, h) = Valor(m, p, h) /\ (Limpia(m, p, h) => Limpia(n, p, h))
    <3> DEFINE e == Pag(m, p, h).marco
    <3>1. Pag(m, p, h).presencia => n.marco[e] = m.marco[e]
      <4> SUFFICES ASSUME Pag(m, p, h).presencia PROVE n.marco[e] = m.marco[e]
        OBVIOUS
      <4>1. e \in MarcosFisicos /\ m.registro[e] = [asignado |-> TRUE, tabla |-> p, pagina |-> h]
        BY MarcoRegistrado
      <4>2. m.registro[e].asignado
        BY <4>1
      <4> HIDE DEF e
      <4>3. e # f
        BY <1>1, <4>2, Zenon
      <4> QED BY <1>1, <4>1, <4>3
    <3>2. Queda(m, n, p, h)
      BY <1>1 DEF Queda
    <3> QED BY <1>1, <3>1, <3>2, PaginaIgual
  <2> QED BY <1>3, <2>1, <2>2 DEF Mismos, Limpias
<1> QED BY <1>2, <1>3

LEMMA ReemplazaMismos ==
    ASSUME UnaTabla, NEW m \in Memorias, NEW n, NEW p \in Procesos, NEW g \in Paginas,
           NEW k \in 1 .. Marcos, Ordenada(m, p), Limpias(m, p), ~Pag(m, p, g).presencia,
           Len(Asig(m, p)) = Marcos, Reemplaza(m, n, p, g, k),
           NEW q \in Procesos, Ordenada(m, q)
    PROVE  Mismos(m, n, q)
<1> DEFINE w == Asig(m, p)[k]
           f == Pag(m, p, w).marco
<1>1. w \in Paginas /\ Pag(m, p, w).presencia
  BY PartesDeMemoria DEF Ordenada
<1>2. /\ Entra(m, n, p, g, f) /\ ~Pag(n, p, w).presencia
      /\ \A h \in Paginas \ {g, w} : Queda(m, n, p, h)
      /\ n.swap[p] = IF Pag(m, p, w).modificado
                     THEN [m.swap[p] EXCEPT ![PosicionSwap(numero_de_tabla(w), w)] = m.marco[f]]
                     ELSE m.swap[p]
  BY DEF Reemplaza
<1> HIDE DEF w
<1>3. f \in MarcosFisicos /\ m.registro[f] = [asignado |-> TRUE, tabla |-> p, pagina |-> w]
  BY <1>1, MarcoRegistrado
<1>4. PosicionSwap(numero_de_tabla(w), w) = w
  BY <1>1, PosicionDeEscritura
<1>5. Pag(m, p, w).modificado \/ m.marco[f] = m.swap[p][w]
  BY <1>1, Zenon DEF Limpias, Limpia
<1> HIDE DEF f
<1>6. m.swap[p] \in [PosicionesSwap -> Datos] /\ \A h \in Paginas : h \in PosicionesSwap
  BY PartesDeMemoria, PosicionDeLaPagina
<1>7. \A h \in Paginas \ {w} : n.swap[p][h] = m.swap[p][h]
  BY <1>2, <1>4, <1>6
<1>8. n.swap[p][w] = m.marco[f]
  BY <1>1, <1>2, <1>4, <1>5, <1>6
<1>9. CASE q # p
  <2>1. m.registro[f].tabla = p
    BY <1>3
  <2> QED BY <1>2, <1>9, <2>1, EntraAjena
<1>10. CASE q = p
  <2>1. w # g
    BY <1>1, Zenon
  <2>2. Valor(n, p, g) = Valor(m, p, g) /\ Limpia(n, p, g)
    BY <1>2, <1>7, <2>1, PaginaTraida
  <2>3. Valor(n, p, w) = Valor(m, p, w) /\ Limpia(n, p, w)
    <3>1. Valor(n, p, w) = n.swap[p][w]
      BY <1>2, Zenon DEF Valor
    <3>2. Valor(m, p, w) = m.marco[f]
      BY <1>1, Zenon DEF Valor, f
    <3>3. Limpia(n, p, w)
      BY <1>2, Zenon DEF Limpia
    <3> QED BY <1>8, <3>1, <3>2, <3>3
  <2>4. ASSUME NEW h \in Paginas \ {g, w}
        PROVE  Valor(n, p, h) = Valor(m, p, h) /\ (Limpia(m, p, h) => Limpia(n, p, h))
    <3> DEFINE e == Pag(m, p, h).marco
    <3>1. Pag(m, p, h).presencia => n.marco[e] = m.marco[e]
      <4> SUFFICES ASSUME Pag(m, p, h).presencia PROVE n.marco[e] = m.marco[e]
        OBVIOUS
      <4>1. e \in MarcosFisicos /\ m.registro[e] = [asignado |-> TRUE, tabla |-> p, pagina |-> h]
        BY MarcoRegistrado
      <4> HIDE DEF e
      <4>2. e # f
        BY <1>3, <4>1
      <4> QED BY <1>2, <4>1, <4>2 DEF Entra
    <3>2. Queda(m, n, p, h) /\ n.swap[p][h] = m.swap[p][h]
      BY <1>2, <1>7
    <3> QED BY <3>1, <3>2, PaginaIgual
  <2> QED BY <1>10, <2>2, <2>3, <2>4 DEF Mismos, Limpias
<1> QED BY <1>9, <1>10

LEMMA PresenteMismos ==
    ASSUME UnaTabla, NEW m \in Memorias, NEW p \in Procesos, NEW g \in Paginas,
           Ordenada(m, p), Limpias(m, p), Sobra(m, p), NEW q \in Procesos, Ordenada(m, q)
    PROVE  Mismos(m, Presente(m, p, g), q)
<1> DEFINE n == Presente(m, p, g)
<1> HIDE DEF n
<1>1. ASSUME Pag(m, p, g).presencia, n = m PROVE Mismos(m, n, q)
  BY <1>1 DEF Mismos
<1>2. \/ Pag(m, p, g).presencia /\ n = m
      \/ /\ ~Pag(m, p, g).presencia /\ Len(Asig(m, p)) < Marcos
         /\ \E f \in MarcosFisicos : Asigna(m, n, p, g, f)
      \/ /\ ~Pag(m, p, g).presencia /\ Len(Asig(m, p)) = Marcos
         /\ \E k \in 1 .. Marcos : Reemplaza(m, n, p, g, k)
  BY PresenteCasos, Zenon DEF n
<1>3. Mismos(m, n, q)
  <2>1. CASE Pag(m, p, g).presencia /\ n = m
    BY <1>1, <2>1
  <2>2. CASE /\ ~Pag(m, p, g).presencia /\ Len(Asig(m, p)) < Marcos
             /\ \E f \in MarcosFisicos : Asigna(m, n, p, g, f)
    BY <2>2, AsignaMismos
  <2>3. CASE /\ ~Pag(m, p, g).presencia /\ Len(Asig(m, p)) = Marcos
             /\ \E k \in 1 .. Marcos : Reemplaza(m, n, p, g, k)
    BY <2>3, ReemplazaMismos
  <2> QED BY <1>2, <2>1, <2>2, <2>3, Zenon
<1> QED BY <1>3 DEF n

LEMMA SuspenderMismos ==
    ASSUME UnaTabla, NEW m \in Memorias, NEW A \in SUBSET Procesos, NEW p \in Procesos,
           RegistroFiel(m, A), Ordenada(m, p)
    PROVE  Mismos(m, suspender_proceso(m, p), p)
<1> DEFINE n == suspender_proceso(m, p)
<1>1. /\ \A g \in Paginas : ~Pag(n, p, g).presencia
      /\ \A s \in PosicionesSwap :
           n.swap[p][s] =
             IF \E g \in EnMarcos(m, p) : PosicionSwap(numero_de_tabla(g), g) = s
             THEN m.marco[MarcoDe(m, p, CHOOSE g \in EnMarcos(m, p) :
                             PosicionSwap(numero_de_tabla(g), g) = s)]
             ELSE m.swap[p][s]
  BY SuspenderSuelta, Zenon
<1> HIDE DEF n
<1>2. \A g \in EnMarcos(m, p) : g \in Paginas /\ PosicionSwap(numero_de_tabla(g), g) = g
  BY PosicionDeEscritura DEF EnMarcos
<1>3. ASSUME NEW g \in Paginas PROVE Valor(n, p, g) = Valor(m, p, g) /\ Limpia(n, p, g)
  <2>1. ~Pag(n, p, g).presencia /\ g \in PosicionesSwap
    BY <1>1, PosicionDeLaPagina
  <2>2. Limpia(n, p, g) /\ Valor(n, p, g) = n.swap[p][g]
    BY <2>1, Zenon DEF Limpia, Valor
  <2>3. CASE g \in EnMarcos(m, p)
    <3>1. Pag(m, p, g).presencia
      BY <2>3, EnMarcosSonPresentes
    <3>2. (CHOOSE h \in EnMarcos(m, p) : PosicionSwap(numero_de_tabla(h), h) = g) = g
      BY <1>2, <2>3
    <3>3. n.swap[p][g] = m.marco[MarcoDe(m, p, g)]
      BY <1>1, <1>2, <2>1, <2>3, <3>2
    <3>4. Valor(m, p, g) = m.marco[Pag(m, p, g).marco]
      BY <3>1, Zenon DEF Valor
    <3> QED BY <2>2, <3>3, <3>4 DEF MarcoDe, Pag
  <2>4. CASE g \notin EnMarcos(m, p)
    <3>1. ~Pag(m, p, g).presencia
      BY <2>4, EnMarcosSonPresentes
    <3>2. ~ \E h \in EnMarcos(m, p) : PosicionSwap(numero_de_tabla(h), h) = g
      BY <1>2, <2>4
    <3>3. n.swap[p][g] = m.swap[p][g]
      BY <1>1, <2>1, <3>2
    <3>4. Valor(m, p, g) = m.swap[p][g]
      BY <3>1, Zenon DEF Valor
    <3> QED BY <2>2, <3>3, <3>4
  <2> QED BY <2>3, <2>4
<1>4. Mismos(m, n, p)
  BY <1>3 DEF Mismos, Limpias
<1> QED BY <1>4 DEF n

LEMMA LeerMismos ==
    ASSUME NEW m, NEW n, NEW p, NEW g \in Paginas, Toca(m, n, p, g), n.marco = m.marco,
           Pag(n, p, g).modificado = Pag(m, p, g).modificado, NEW q \in Procesos
    PROVE  Mismos(m, n, q)
<1>1. /\ n.swap = m.swap /\ \A r \in Procesos \ {p} : n.tabla[r] = m.tabla[r]
      /\ \A h \in Paginas : Queda(m, n, p, h)
  BY DEF Toca, Queda
<1>2. CASE q # p
  BY <1>1, <1>2, ProcesoIgual
<1>3. CASE q = p
  <2>1. \A h \in Paginas : /\ Valor(n, p, h) = Valor(m, p, h)
                           /\ Limpia(m, p, h) => Limpia(n, p, h)
    BY <1>1, PaginaIgual
  <2> QED BY <1>3, <2>1 DEF Mismos, Limpias
<1> QED BY <1>2, <1>3

LEMMA EscribirMismos ==
    ASSUME NEW m \in Memorias, NEW n, NEW p \in Procesos, NEW g \in Paginas, NEW d,
           Ordenada(m, p), Pag(m, p, g).presencia, Toca(m, n, p, g),
           Pag(n, p, g).modificado, n.marco = [m.marco EXCEPT ![Pag(m, p, g).marco] = d]
    PROVE  /\ \A q \in Procesos \ {p} : Ordenada(m, q) => Mismos(m, n, q)
           /\ \A h \in Paginas \ {g} : Valor(n, p, h) = Valor(m, p, h)
           /\ Valor(n, p, g) = d
           /\ Limpias(m, p) => Limpias(n, p)
<1> DEFINE f == Pag(m, p, g).marco
<1>1. f \in MarcosFisicos /\ m.registro[f] = [asignado |-> TRUE, tabla |-> p, pagina |-> g]
  BY MarcoRegistrado
<1>2. /\ n.swap = m.swap /\ \A q \in Procesos \ {p} : n.tabla[q] = m.tabla[q]
      /\ \A h \in Paginas \ {g} : Pag(n, p, h) = Pag(m, p, h)
      /\ Pag(n, p, g).presencia = Pag(m, p, g).presencia /\ Pag(n, p, g).marco = f
  BY DEF Toca
<1>3. m.marco \in [MarcosFisicos -> Datos] /\ n.marco = [m.marco EXCEPT ![f] = d]
  BY PartesDeMemoria
<1> HIDE DEF f
<1>4. n.marco[f] = d /\ \A e \in MarcosFisicos \ {f} : n.marco[e] = m.marco[e]
  BY <1>1, <1>3
<1>5. ASSUME NEW q \in Procesos, Ordenada(m, q), NEW h \in Paginas, Pag(m, q, h).presencia,
             q # p \/ h # g
      PROVE  n.marco[Pag(m, q, h).marco] = m.marco[Pag(m, q, h).marco]
  <2> DEFINE e == Pag(m, q, h).marco
  <2>1. e \in MarcosFisicos /\ m.registro[e] = [asignado |-> TRUE, tabla |-> q, pagina |-> h]
    BY <1>5, MarcoRegistrado
  <2> HIDE DEF e
  <2>2. e # f
    BY <1>1, <1>5, <2>1
  <2> QED BY <1>4, <2>1, <2>2 DEF e
<1>6. ASSUME NEW q \in Procesos \ {p}, Ordenada(m, q) PROVE Mismos(m, n, q)
  BY <1>2, <1>5, <1>6, ProcesoIgual
<1>7. ASSUME NEW h \in Paginas \ {g}
      PROVE  Valor(n, p, h) = Valor(m, p, h) /\ (Limpia(m, p, h) => Limpia(n, p, h))
  <2>1. Queda(m, n, p, h) /\ n.swap[p][h] = m.swap[p][h]
    BY <1>2 DEF Queda
  <2>2. Pag(m, p, h).presencia =>
           n.marco[Pag(m, p, h).marco] = m.marco[Pag(m, p, h).marco]
    BY <1>5
  <2> QED BY <2>1, <2>2, PaginaIgual
<1>8. Valor(n, p, g) = d
  <2>1. Pag(n, p, g).presencia
    BY <1>2, Zenon
  <2>2. Valor(n, p, g) = n.marco[Pag(n, p, g).marco]
    BY <2>1, Zenon DEF Valor
  <2> QED BY <1>2, <1>4, <2>2
<1>9. Limpia(n, p, g)
  BY Zenon DEF Limpia
<1> QED BY <1>6, <1>7, <1>8, <1>9 DEF Limpias

(***************************************************************************)
(* The contents of the pages over the steps.                               *)
(***************************************************************************)
\* Every process that has its tables finds what it had, except those of S.
Conservan(S) == \A q \in Procesos \ S : Vivo(q) => Mismos(mem, mem', q)

LEMMA ConservanIgual == ASSUME mem' = mem, NEW S PROVE Conservan(S)
BY DEF Conservan, Mismos

LEMMA NuevoContenido ==
    ASSUME TablasInv, NEW p \in Procesos, MC_NUEVO_PROCESO(p)
    PROVE  /\ Conservan({p}) /\ Limpias(mem', p)
           /\ \A g \in Paginas : Valor(mem', p, g) = Cero
<1> DEFINE n == iniciar_nuevo_proceso(mem, p)
<1>1. mem' = n /\ estado[p] = "nuevo"
  BY DEF MC_NUEVO_PROCESO
<1>2. p \in Procesos \ Ocupan /\ Ocupan \in SUBSET Procesos
  BY <1>1 DEF Ocupan
<1>3. /\ \A q \in Procesos \ {p} : n.tabla[q] = mem.tabla[q] /\ n.swap[q] = mem.swap[q]
      /\ n.marco = mem.marco
      /\ \A g \in Paginas : ~Pag(n, p, g).presencia /\ n.swap[p][g] = Cero
  BY <1>2, IniciarOrdenada DEF TablasInv
<1> HIDE DEF n
<1>4. \A q \in Procesos \ {p} : Mismos(mem, n, q)
  BY <1>3, ProcesoIgual
<1>5. \A g \in Paginas : Valor(n, p, g) = Cero /\ Limpia(n, p, g)
  BY <1>3, Zenon DEF Valor, Limpia
<1> QED BY <1>1, <1>4, <1>5 DEF Conservan, Limpias

\* What is not p's stays when p gives back its frames.
LEMMA SueltaContenido ==
    ASSUME NEW p, NEW A, Suelta(mem, mem', A, p) PROVE Conservan({p})
BY ProcesoIgual DEF Suelta, Conservan

LEMMA SuspenderContenido ==
    ASSUME UnaTabla, TablasInv, NEW p \in Procesos, MC_SUSPENDER_PROCESO(p)
    PROVE  Conservan({})
<1>1. mem' = suspender_proceso(mem, p) /\ estado[p] = "en_memoria"
  BY DEF MC_SUSPENDER_PROCESO
<1>2. /\ mem \in Memorias /\ Ocupan \in SUBSET Procesos /\ RegistroFiel(mem, Ocupan)
      /\ Ordenada(mem, p)
  BY <1>1, OcupanVivos DEF TablasInv, Vivo
<1>3. Suelta(mem, suspender_proceso(mem, p), Ocupan, p)
  BY <1>2, SuspenderSuelta, Zenon
<1>4. Conservan({p})
  BY <1>1, <1>3, SueltaContenido
<1>5. Mismos(mem, mem', p)
  BY <1>1, <1>2, SuspenderMismos
<1> QED BY <1>4, <1>5 DEF Conservan

LEMMA FinalizarContenido ==
    ASSUME TablasInv, NEW p \in Procesos, MC_FINALIZAR_PROCESO(p)
    PROVE  Conservan({p})
<1>1. mem' = finalizar_proceso(mem, p) /\ estado[p] = "saliendo"
  BY DEF MC_FINALIZAR_PROCESO
<1>2. /\ mem \in Memorias /\ Ocupan \in SUBSET Procesos /\ RegistroFiel(mem, Ocupan)
      /\ Ordenada(mem, p)
  BY <1>1, OcupanVivos DEF TablasInv, Vivo
<1>3. Suelta(mem, mem', Ocupan, p)
  BY <1>1, <1>2, FinalizarSuelta
<1> QED BY <1>3, SueltaContenido

ContenidoInv == \A p \in Procesos : Vivo(p) => Limpias(mem, p)

LEMMA TlbMissContenido ==
    ASSUME UnaTabla, TablasInv, CpuInv, Holgura, ContenidoInv, cpu.pc # "desalojado",
           NEW a \in Accesos, TlbMiss(a)
    PROVE  Conservan({})
<1>1. PICK m, f : Falla(a, m, f)
  BY TlbMissFalla
<1>2. mem' = m /\ m = Presente(mem, cpu.proceso, a.pagina)
  BY <1>1 DEF Falla
<1>3. /\ cpu.proceso \in Procesos /\ mem \in Memorias /\ Ordenada(mem, cpu.proceso)
      /\ cpu.proceso \in EnMemoria /\ a.pagina \in Paginas
  BY EnEjecucion, AccesosTyped
<1>4. Sobra(mem, cpu.proceso) /\ Limpias(mem, cpu.proceso)
  BY <1>3, Suficientes DEF MarcosSuficientes, Sobra, Asig, ContenidoInv, EnMemoria, Vivo
<1>5. \A q \in Procesos : Vivo(q) => Ordenada(mem, q)
  BY DEF TablasInv
<1>6. \A q \in Procesos : Vivo(q) => Mismos(mem, Presente(mem, cpu.proceso, a.pagina), q)
  BY <1>3, <1>4, <1>5, PresenteMismos
<1> QED BY <1>2, <1>6 DEF Conservan

LEMMA LeerContenido ==
    ASSUME TablasInv, CpuInv, MC_LEER_MARCO
    PROVE  Conservan({})
<1>1. mem' = TrasLeer /\ cpu.pc = "acceso"
  BY DEF MC_LEER_MARCO
<1>2. Registrado.pagina \in Paginas
  BY <1>1, AccesoToca
<1>3. /\ Toca(mem, TrasLeer, cpu.proceso, Registrado.pagina)
      /\ TrasLeer.marco = mem.marco
      /\ Pag(TrasLeer, cpu.proceso, Registrado.pagina).modificado
           = Pag(mem, cpu.proceso, Registrado.pagina).modificado
  BY <1>1, LeerDeSuMarco, Zenon
<1>4. \A q \in Procesos : Mismos(mem, TrasLeer, q)
  BY <1>2, <1>3, LeerMismos, Zenon
<1> QED BY <1>1, <1>4 DEF Conservan

LEMMA EscribirContenido ==
    ASSUME TablasInv, CpuInv, MC_ESCRIBIR_MARCO
    PROVE  /\ Conservan({cpu.proceso})
           /\ \A h \in Paginas \ {Registrado.pagina} :
                 Valor(mem', cpu.proceso, h) = Valor(mem, cpu.proceso, h)
           /\ Valor(mem', cpu.proceso, Registrado.pagina) = cpu.acceso.dato
           /\ Limpias(mem, cpu.proceso) => Limpias(mem', cpu.proceso)
<1> DEFINE p == cpu.proceso
           g == Registrado.pagina
           d == cpu.acceso.dato
<1>1. cpu.pc = "acceso"
  BY DEF MC_ESCRIBIR_MARCO
<1>2. /\ g \in Paginas /\ Pag(mem, p, g).presencia /\ Pag(mem, p, g).marco = cpu.marco
      /\ p \in Procesos /\ mem \in Memorias /\ Ordenada(mem, p)
  BY <1>1, AccesoToca, EnEjecucion
<1>3. /\ Toca(mem, mem', p, g) /\ Pag(mem', p, g).modificado
      /\ mem'.marco = [mem.marco EXCEPT ![Pag(mem, p, g).marco] = d]
  BY <1>2, EscribirEnSuMarco
<1> HIDE DEF p, g, d
<1>4. /\ \A q \in Procesos \ {p} : Ordenada(mem, q) => Mismos(mem, mem', q)
      /\ \A h \in Paginas \ {g} : Valor(mem', p, h) = Valor(mem, p, h)
      /\ Valor(mem', p, g) = d
      /\ Limpias(mem, p) => Limpias(mem', p)
  BY <1>2, <1>3, EscribirMismos
<1>5. \A q \in Procesos : Vivo(q) => Ordenada(mem, q)
  BY DEF TablasInv
<1> QED BY <1>4, <1>5 DEF Conservan, p, g, d

\* A process that is not in S and has its tables had them, and its contents stay clean;
\* one in S that has them is clean too.
LEMMA ConservanLimpias ==
    ASSUME ContenidoInv, NEW S, Conservan(S),
           \A q \in Procesos : Vivo(q)' => (q \notin S /\ Vivo(q)) \/ Limpias(mem', q)
    PROVE  ContenidoInv'
BY DEF ContenidoInv, Conservan, Mismos

LEMMA ContenidoStep ==
    ASSUME UnaTabla, MemoriaInv, Holgura, ContenidoInv, [Next]_vars
    PROVE  ContenidoInv'
<1>0. TablasInv /\ CpuInv /\ estado \in [Procesos -> Estados]
  BY DEF MemoriaInv, TablasInv
<1>1. ASSUME Conservan({}), estado' = estado PROVE ContenidoInv'
  <2>1. \A q \in Procesos : Vivo(q)' => Vivo(q)
    BY <1>1 DEF Vivo
  <2> QED BY <1>1, <2>1, ConservanLimpias
<1>2. ASSUME NEW p \in Procesos, MC_NUEVO_PROCESO(p) PROVE ContenidoInv'
  <2>1. Conservan({p}) /\ Limpias(mem', p)
    BY <1>0, <1>2, NuevoContenido
  <2>2. \A q \in Procesos \ {p} : Vivo(q)' => Vivo(q)
    BY <1>0, <1>2 DEF MC_NUEVO_PROCESO, Vivo
  <2> QED BY <2>1, <2>2, ConservanLimpias
<1>3. ASSUME NEW p \in Procesos, MC_SUSPENDER_PROCESO(p) PROVE ContenidoInv'
  <2>1. Conservan({})
    BY <1>0, <1>3, SuspenderContenido
  <2>2. \A q \in Procesos : Vivo(q)' => Vivo(q)
    BY <1>0, <1>3 DEF MC_SUSPENDER_PROCESO, Vivo
  <2> QED BY <2>1, <2>2, ConservanLimpias
<1>4. ASSUME NEW p \in Procesos, MC_FINALIZAR_PROCESO(p) PROVE ContenidoInv'
  <2>1. Conservan({p})
    BY <1>0, <1>4, FinalizarContenido
  <2>2. \A q \in Procesos : Vivo(q)' => q # p /\ Vivo(q)
    BY <1>0, <1>4 DEF MC_FINALIZAR_PROCESO, Vivo
  <2> QED BY <2>1, <2>2, ConservanLimpias
<1>5. ASSUME NEW p \in Procesos, Readmitir(p) \/ Salir(p) PROVE ContenidoInv'
  <2>1. Conservan({})
    BY <1>5, ConservanIgual DEF Readmitir, Salir
  <2>2. \A q \in Procesos : Vivo(q)' => Vivo(q)
    BY <1>0, <1>5 DEF Readmitir, Salir, Vivo
  <2> QED BY <2>1, <2>2, ConservanLimpias
<1>6. CASE (\E p \in Procesos : Despachar(p)) \/ Desalojar \/ UNCHANGED vars
  BY <1>1, <1>6, ConservanIgual DEF Despachar, Desalojar, vars
<1>7. CASE MC_LEER_MARCO \/ MC_ESCRIBIR_MARCO
  <2>1. CASE MC_LEER_MARCO
    BY <1>0, <1>1, <2>1, LeerContenido DEF MC_LEER_MARCO
  <2>2. CASE MC_ESCRIBIR_MARCO
    <3>1. Conservan({cpu.proceso}) /\ (Limpias(mem, cpu.proceso) => Limpias(mem', cpu.proceso))
      BY <1>0, <2>2, EscribirContenido
    <3>2. \A q \in Procesos : Vivo(q)' => Vivo(q)
      BY <2>2 DEF MC_ESCRIBIR_MARCO, Vivo
    <3> QED BY <3>1, <3>2, ConservanLimpias DEF ContenidoInv
  <2> QED BY <1>7, <2>1, <2>2
<1>8. CASE Instruccion \/ Copiar
  <2>1. cpu.pc # "desalojado"
    BY <1>0, <1>8, TraducirCasos
  <2>2. PICK a \in Accesos : TlbHit(a) \/ TlbMiss(a)
    BY <1>0, <1>8, TraducirCasos
  <2>3. CASE TlbHit(a)
    BY <1>1, <2>3, ConservanIgual DEF TlbHit
  <2>4. CASE TlbMiss(a)
    BY <1>0, <1>1, <2>1, <2>4, TlbMissContenido DEF TlbMiss
  <2> QED BY <2>2, <2>3, <2>4
<1> QED BY <1>2, <1>3, <1>4, <1>5, <1>6, <1>7, <1>8 DEF Next, Kernel, Cpu

LEMMA ContenidoInvariante ==
    ASSUME UnaTabla
    PROVE  Spec /\ []Holgura => []ContenidoInv
<1>1. Init => ContenidoInv
  BY DEF Init, ContenidoInv, Vivo
<1>2. MemoriaInv /\ Holgura /\ ContenidoInv /\ [Next]_vars => ContenidoInv'
  BY ContenidoStep
<1> QED BY <1>1, <1>2, MemoriaInvariante, PTL DEF Spec

\* With one second-level table, a page that is not modified can be replaced without
\* writing it: its swap file has what its frame has.
THEOREM PaginaLimpiaConservada ==
    ASSUME UnaTabla
    PROVE  Spec /\ []Holgura => []PaginaLimpiaEstaEnSwap
<1>1. MemoriaInv /\ ContenidoInv => PaginaLimpiaEstaEnSwap
  <2> SUFFICES ASSUME MemoriaInv, ContenidoInv, NEW p \in Procesos, NEW g \in Paginas,
                      Vivo(p), Pag(mem, p, g).presencia, ~Pag(mem, p, g).modificado
               PROVE  mem.marco[Pag(mem, p, g).marco]
                        = leer_pagina_swap(mem, p, numero_de_tabla(g), numero_de_pagina(g))
    BY DEF PaginaLimpiaEstaEnSwap, Pag
  <2>1. leer_pagina_swap(mem, p, numero_de_tabla(g), numero_de_pagina(g)) = mem.swap[p][g]
    BY LecturaTyped DEF MemoriaInv, TablasInv
  <2>2. Limpia(mem, p, g)
    BY DEF ContenidoInv, Limpias
  <2>3. mem.marco[Pag(mem, p, g).marco] = mem.swap[p][g]
    BY <2>2, Zenon DEF Limpia
  <2> QED BY <2>1, <2>3
<1> QED BY <1>1, MemoriaInvariante, ContenidoInvariante, PTL

(***************************************************************************)
(* Frames, replacement, swap and TLB give each program its own pages.      *)
(***************************************************************************)
\* The frame of the access under way is the frame of its page.
AlDia(m, p, g, f) == Pag(m, p, g).presencia /\ MarcoDe(m, p, g) = f

Traduccion == cpu.pc = "acceso" => AlDia(mem, cpu.proceso, cpu.acceso.pagina, cpu.marco)

LEMMA TraduccionStep ==
    ASSUME MemoriaInv, Holgura, TlbCoherente, Traduccion, [Next]_vars
    PROVE  Traduccion'
<1>0. TablasInv /\ CpuInv
  BY DEF MemoriaInv
<1>1. SUFFICES ASSUME cpu'.pc = "acceso"
               PROVE  AlDia(mem', cpu'.proceso, cpu'.acceso.pagina, cpu'.marco)
  BY DEF Traduccion
<1>2. ASSUME cpu' = cpu, cpu.proceso # NADIE => mem'.tabla[cpu.proceso] = mem.tabla[cpu.proceso]
      PROVE  AlDia(mem', cpu'.proceso, cpu'.acceso.pagina, cpu'.marco)
  <2>1. cpu.pc = "acceso" /\ cpu.proceso # NADIE
    BY <1>0, <1>1, <1>2 DEF CpuInv
  <2>2. AlDia(mem, cpu.proceso, cpu.acceso.pagina, cpu.marco)
    BY <2>1 DEF Traduccion
  <2>3. AlDia(mem', cpu.proceso, cpu.acceso.pagina, cpu.marco)
    BY <1>2, <2>1, <2>2, Zenon DEF AlDia, Pag, MarcoDe
  <2> QED BY <1>2, <2>3
<1>3. CASE Kernel
  BY <1>0, <1>2, <1>3, KernelNoToca
<1>4. CASE UNCHANGED vars
  BY <1>2, <1>4 DEF vars
<1>5. CASE \/ \E p \in Procesos : Despachar(p)
           \/ Desalojar \/ MC_LEER_MARCO \/ MC_ESCRIBIR_MARCO
  BY <1>1, <1>5 DEF Despachar, Desalojar, MC_LEER_MARCO, MC_ESCRIBIR_MARCO
<1>6. CASE Instruccion \/ Copiar
  <2>1. cpu.pc # "desalojado"
    BY <1>0, <1>6, TraducirCasos
  <2>2. PICK a \in Accesos : TlbHit(a) \/ TlbMiss(a)
    BY <1>0, <1>6, TraducirCasos
  <2>3. ASSUME NEW f, NEW t, Traducida(a, f, t), AlDia(mem', cpu.proceso, a.pagina, f)
        PROVE  AlDia(mem', cpu'.proceso, cpu'.acceso.pagina, cpu'.marco)
    <3>1. cpu'.proceso = cpu.proceso /\ cpu'.acceso = a /\ cpu'.marco = f
      BY <2>3 DEF Traducida
    <3> QED BY <2>3, <3>1
  <2>4. CASE TlbHit(a)
    <3> DEFINE k == Ubicacion(cpu.tlb, a.pagina)
    <3>1. /\ mem' = mem /\ Acierto(cpu.tlb, a.pagina)
          /\ Traducida(a, cpu.tlb[k].marco, buscar_marco(cpu.tlb, a.pagina))
      BY <2>4 DEF TlbHit
    <3>2. cpu.tlb \in Seq(EntradasDeTlb) /\ cpu.proceso # NADIE
      BY <1>0, <2>1 DEF CpuInv
    <3>3. k \in 1 .. Len(cpu.tlb) /\ cpu.tlb[k].pagina = a.pagina
      BY <3>1, <3>2, UbicacionAcierta
    <3> HIDE DEF k
    <3>4. /\ Pag(mem, cpu.proceso, cpu.tlb[k].pagina).presencia
          /\ MarcoDe(mem, cpu.proceso, cpu.tlb[k].pagina) = cpu.tlb[k].marco
      BY <3>2, <3>3 DEF TlbCoherente, Pag
    <3>5. AlDia(mem', cpu.proceso, a.pagina, cpu.tlb[k].marco)
      BY <3>1, <3>3, <3>4, Zenon DEF AlDia
    <3> QED BY <2>3, <3>1, <3>5
  <2>5. CASE TlbMiss(a)
    <3>1. PICK m, f : Falla(a, m, f)
      BY <1>0, <2>1, <2>5, TlbMissFalla
    <3>2. /\ mem' = m /\ f = MarcoDe(m, cpu.proceso, a.pagina)
          /\ Pag(m, cpu.proceso, a.pagina).presencia
          /\ Traducida(a, f, reemplazar_entrada(cpu.tlb, [pagina |-> a.pagina, marco |-> f]))
      BY <3>1 DEF Falla, Trae
    <3>3. AlDia(mem', cpu.proceso, a.pagina, f)
      BY <3>2 DEF AlDia
    <3> QED BY <2>3, <3>2, <3>3
  <2> QED BY <2>2, <2>4, <2>5
<1> QED BY <1>3, <1>4, <1>5, <1>6 DEF Next, Cpu

LEMMA TraduccionInvariante ==
    ASSUME TlbSegura
    PROVE  Spec /\ []Holgura => []Traduccion
<1>1. Init => Traduccion
  BY DEF Init, Ocioso, Traduccion
<1>2. MemoriaInv /\ Holgura /\ TlbCoherente /\ Traduccion /\ [Next]_vars => Traduccion'
  BY TraduccionStep
<1> QED BY <1>1, <1>2, MemoriaInvariante, TlbAlDia, PTL DEF Spec

\* The page the server finds in the register is the page the CPU asked for.
LEMMA PaginaPedida ==
    ASSUME TablasInv, CpuInv, Traduccion, cpu.pc = "acceso"
    PROVE  /\ cpu.proceso \in Procesos /\ Vivo(cpu.proceso) /\ cpu.acceso.pagina \in Paginas
           /\ Registrado.pagina = cpu.acceso.pagina
           /\ mem.marco[cpu.marco] = Valor(mem, cpu.proceso, cpu.acceso.pagina)
<1> DEFINE p == cpu.proceso
           g == cpu.acceso.pagina
<1>1. p \in Procesos /\ p \in EnMemoria /\ Ordenada(mem, p) /\ mem \in Memorias
  BY EnEjecucion
<1>2. g \in Paginas
  BY AccesosTyped DEF CpuInv
<1>3. Pag(mem, p, g).presencia /\ Pag(mem, p, g).marco = cpu.marco
  <2>1. AlDia(mem, p, g, cpu.marco)
    BY DEF Traduccion
  <2> QED BY <2>1, Zenon DEF AlDia, MarcoDe, Pag
<1> HIDE DEF p, g
<1>4. mem.registro[cpu.marco] = [asignado |-> TRUE, tabla |-> p, pagina |-> g]
  BY <1>1, <1>2, <1>3, MarcoRegistrado
<1>5. Registrado.pagina = g
  BY <1>4 DEF Registrado
<1>6. Valor(mem, p, g) = mem.marco[cpu.marco]
  BY <1>3, Zenon DEF Valor
<1>7. Vivo(p)
  BY <1>1 DEF EnMemoria, Vivo
<1> QED BY <1>1, <1>2, <1>5, <1>6, <1>7 DEF p, g

\* The state of the abstract memory.
Vivos == {p \in Procesos : Vivo(p)}

Espacio == [p \in Procesos |-> [g \in Paginas |->
               IF Vivo(p) THEN Contenido(p, g) ELSE Cero]]

ConTablas == {"en_memoria", "suspendido", "saliendo"}

Fila(m, e, p) == [g \in Paginas |-> IF e[p] \in ConTablas THEN Valor(m, p, g) ELSE Cero]

EspacioDe(m, e) == [p \in Procesos |-> Fila(m, e, p)]

LEMMA EspacioEsEspacioDe == TablasInv => Espacio = EspacioDe(mem, estado)
<1> SUFFICES ASSUME TablasInv PROVE Espacio = EspacioDe(mem, estado)
  OBVIOUS
<1>1. mem \in Memorias
  BY DEF TablasInv
<1>2. ASSUME NEW p \in Procesos, NEW g \in Paginas PROVE Contenido(p, g) = Valor(mem, p, g)
  BY <1>1, LecturaTyped, Zenon DEF Contenido, Valor, MarcoDe, Pag
<1>3. ASSUME NEW p \in Procesos PROVE Vivo(p) <=> estado[p] \in ConTablas
  BY DEF Vivo, ConTablas
<1> QED BY <1>2, <1>3 DEF Espacio, EspacioDe, Fila

LEMMA EspacioPrimado == TablasInv' => Espacio' = EspacioDe(mem', estado')
<1> DEFINE Fiel == TablasInv => Espacio = EspacioDe(mem, estado)
<1>1. Fiel
  BY EspacioEsEspacioDe
<1> HIDE DEF Fiel
<1>2. Fiel'
  BY <1>1, PTL
<1> QED BY <1>2 DEF Fiel

LEMMA FilaIgual ==
    ASSUME NEW p \in Procesos, Vivo(p)' <=> Vivo(p), Vivo(p) => Mismos(mem, mem', p)
    PROVE  Fila(mem', estado', p) = Fila(mem, estado, p)
<1>1. (estado'[p] \in ConTablas <=> estado[p] \in ConTablas)
      /\ (estado[p] \in ConTablas => Mismos(mem, mem', p))
  BY DEF Vivo, ConTablas
<1>2. ASSUME NEW g \in Paginas
      PROVE  (IF estado'[p] \in ConTablas THEN Valor(mem', p, g) ELSE Cero)
                = IF estado[p] \in ConTablas THEN Valor(mem, p, g) ELSE Cero
  BY <1>1 DEF Mismos
<1> QED BY <1>2 DEF Fila

\* A step after which every process finds its pages as they were.
LEMMA EspacioIgual ==
    ASSUME TablasInv, TablasInv', Conservan({}), \A q \in Procesos : Vivo(q)' <=> Vivo(q)
    PROVE  Vivos' = Vivos /\ Espacio' = Espacio
<1>1. Vivos' = Vivos
  BY DEF Vivos
<1>2. \A q \in Procesos : Fila(mem', estado', q) = Fila(mem, estado, q)
  BY FilaIgual DEF Conservan
<1>3. EspacioDe(mem', estado') = EspacioDe(mem, estado)
  BY <1>2 DEF EspacioDe
<1> QED BY <1>1, <1>3, EspacioEsEspacioDe, EspacioPrimado

LEMMA LogicoOlvida ==
    ASSUME Vivos' = Vivos, Espacio' = Espacio, ultimo' = SinAcceso
    PROVE  Logico!Next
BY DEF Logico!Next, Logico!Olvidar, Logico!SinAcceso, SinAcceso, Vivos, Espacio

LEMMA LogicoInicia ==
    ASSUME TablasInv, TablasInv', NEW p \in Procesos, MC_NUEVO_PROCESO(p)
    PROVE  Logico!Next
<1>1. /\ Conservan({p}) /\ \A g \in Paginas : Valor(mem', p, g) = Cero
      /\ estado[p] = "nuevo" /\ estado' = [estado EXCEPT ![p] = "en_memoria"]
      /\ estado \in [Procesos -> Estados] /\ ultimo' = SinAcceso
  BY NuevoContenido DEF MC_NUEVO_PROCESO, TablasInv
<1>2. /\ ~Vivo(p) /\ Vivo(p)' /\ \A q \in Procesos \ {p} : Vivo(q)' <=> Vivo(q)
  BY <1>1 DEF Vivo
<1>3. p \notin Vivos /\ Vivos' = Vivos \cup {p}
  BY <1>2 DEF Vivos
<1>4. \A q \in Procesos \ {p} : Fila(mem', estado', q) = Fila(mem, estado, q)
  BY <1>1, <1>2, FilaIgual DEF Conservan
<1>5. Fila(mem', estado', p) = Fila(mem, estado, p)
  <2>1. estado'[p] \in ConTablas /\ estado[p] \notin ConTablas
    BY <1>1 DEF ConTablas
  <2> QED BY <1>1, <2>1 DEF Fila
<1>6. EspacioDe(mem', estado') = EspacioDe(mem, estado)
  BY <1>4, <1>5 DEF EspacioDe
<1>7. Espacio' = Espacio
  BY <1>6, EspacioEsEspacioDe, EspacioPrimado
<1>8. Logico!Iniciar(p)
  BY <1>1, <1>3, <1>7 DEF Logico!Iniciar, Logico!SinAcceso, SinAcceso, Vivos, Espacio
<1> QED BY <1>8 DEF Logico!Next

LEMMA LogicoTermina ==
    ASSUME TablasInv, TablasInv', NEW p \in Procesos, MC_FINALIZAR_PROCESO(p)
    PROVE  Logico!Next
<1>1. /\ Conservan({p})
      /\ estado[p] = "saliendo" /\ estado' = [estado EXCEPT ![p] = "finalizado"]
      /\ estado \in [Procesos -> Estados] /\ ultimo' = SinAcceso
  BY FinalizarContenido DEF MC_FINALIZAR_PROCESO, TablasInv
<1>2. /\ Vivo(p) /\ ~Vivo(p)' /\ \A q \in Procesos \ {p} : Vivo(q)' <=> Vivo(q)
  BY <1>1 DEF Vivo
<1>3. p \in Vivos /\ Vivos' = Vivos \ {p}
  BY <1>2 DEF Vivos
<1>4. \A q \in Procesos \ {p} : Fila(mem', estado', q) = Fila(mem, estado, q)
  BY <1>1, <1>2, FilaIgual DEF Conservan
<1>5. Fila(mem', estado', p) = [g \in Paginas |-> Cero]
  <2>1. estado'[p] \notin ConTablas
    BY <1>1 DEF ConTablas
  <2> QED BY <2>1 DEF Fila
<1>6. EspacioDe(mem', estado')
        = [EspacioDe(mem, estado) EXCEPT ![p] = [g \in Paginas |-> Cero]]
  BY <1>4, <1>5 DEF EspacioDe
<1>7. Espacio' = [Espacio EXCEPT ![p] = [g \in Paginas |-> Cero]]
  BY <1>6, EspacioEsEspacioDe, EspacioPrimado
<1>8. Logico!Terminar(p)
  BY <1>1, <1>3, <1>7
     DEF Logico!Terminar, Logico!SinAcceso, Logico!PaginasEnCero, SinAcceso, Vivos, Espacio
<1> QED BY <1>8 DEF Logico!Next

\* MC_LEER_MARCO answers what the page of the process has.
LEMMA LogicoLee ==
    ASSUME TablasInv, TablasInv', CpuInv, Traduccion, MC_LEER_MARCO
    PROVE  Logico!Next
<1> DEFINE p == cpu.proceso
           g == cpu.acceso.pagina
<1>1. /\ cpu.pc = "acceso" /\ estado' = estado
      /\ ultimo' = [proceso |-> p, pagina |-> g, leido |-> Dato]
  BY DEF MC_LEER_MARCO
<1>2. /\ p \in Procesos /\ Vivo(p) /\ g \in Paginas /\ mem.marco[cpu.marco] = Valor(mem, p, g)
  BY <1>1, PaginaPedida
<1>3. Dato = Valor(mem, p, g)
  BY <1>1, <1>2, LeerDeSuMarco
<1> HIDE DEF p, g
<1>4. Espacio[p][g] = Valor(mem, p, g) /\ p \in Vivos
  <2>1. estado[p] \in ConTablas
    BY <1>2 DEF Vivo, ConTablas
  <2> QED BY <1>2, <2>1, EspacioEsEspacioDe DEF EspacioDe, Fila, Vivos
<1>5. Vivos' = Vivos /\ Espacio' = Espacio
  <2>1. \A q \in Procesos : Vivo(q)' <=> Vivo(q)
    BY <1>1 DEF Vivo
  <2>2. Conservan({})
    BY LeerContenido
  <2> QED BY <2>1, <2>2, EspacioIgual
<1>6. Logico!Leer(p, g)
  BY <1>1, <1>3, <1>4, <1>5 DEF Logico!Leer, Vivos, Espacio
<1> QED BY <1>2, <1>6 DEF Logico!Next

\* MC_ESCRIBIR_MARCO changes that page of that process, and no other page.
LEMMA LogicoEscribe ==
    ASSUME TablasInv, TablasInv', CpuInv, Traduccion, MC_ESCRIBIR_MARCO
    PROVE  Logico!Next
<1> DEFINE p == cpu.proceso
           g == cpu.acceso.pagina
           d == cpu.acceso.dato
<1>1. /\ cpu.pc = "acceso" /\ estado' = estado
      /\ ultimo' = [proceso |-> p, pagina |-> g, escrito |-> d]
  BY DEF MC_ESCRIBIR_MARCO
<1>2. /\ p \in Procesos /\ Vivo(p) /\ g \in Paginas /\ Registrado.pagina = g
  BY <1>1, PaginaPedida
<1>3. /\ Conservan({p}) /\ d \in Datos
      /\ \A h \in Paginas \ {g} : Valor(mem', p, h) = Valor(mem, p, h)
      /\ Valor(mem', p, g) = d
  BY <1>2, EscribirContenido, EscribirEnSuMarco
<1> HIDE DEF p, g, d
<1>4. \A q \in Procesos : Vivo(q)' <=> Vivo(q)
  BY <1>1 DEF Vivo
<1>5. Vivos' = Vivos /\ p \in Vivos
  BY <1>2, <1>4 DEF Vivos
<1>6. \A q \in Procesos \ {p} : Fila(mem', estado', q) = Fila(mem, estado, q)
  BY <1>3, <1>4, FilaIgual DEF Conservan
<1>7. Fila(mem', estado', p) = [Fila(mem, estado, p) EXCEPT ![g] = d]
  <2>1. estado'[p] \in ConTablas /\ estado[p] \in ConTablas
    BY <1>1, <1>2 DEF Vivo, ConTablas
  <2> QED BY <1>2, <1>3, <2>1 DEF Fila
<1>8. EspacioDe(mem', estado') = [EspacioDe(mem, estado) EXCEPT ![p][g] = d]
  BY <1>2, <1>6, <1>7 DEF EspacioDe
<1>9. Espacio' = [Espacio EXCEPT ![p][g] = d]
  BY <1>8, EspacioEsEspacioDe, EspacioPrimado
<1>10. Logico!Escribir(p, g, d)
  BY <1>1, <1>5, <1>9 DEF Logico!Escribir, Vivos, Espacio
<1> QED BY <1>2, <1>3, <1>10 DEF Logico!Next

\* The steps of the kernel and of the CPU that the programs do not see.
LEMMA LogicoNoVe ==
    ASSUME TablasInv, TablasInv', Conservan({}), ultimo' = SinAcceso,
           \A q \in Procesos : Vivo(q)' <=> Vivo(q)
    PROVE  Logico!Next
BY EspacioIgual, LogicoOlvida

LEMMA LogicoStep ==
    ASSUME UnaTabla, MemoriaInv, MemoriaInv', Holgura, ContenidoInv, Traduccion, [Next]_vars
    PROVE  [Logico!Next]_(Logico!vars)
<1>0. TablasInv /\ CpuInv /\ TablasInv' /\ estado \in [Procesos -> Estados]
  BY DEF MemoriaInv, TablasInv
<1>1. CASE Kernel
  <2>1. PICK p \in Procesos : \/ MC_NUEVO_PROCESO(p) \/ MC_SUSPENDER_PROCESO(p)
                              \/ Readmitir(p) \/ Salir(p) \/ MC_FINALIZAR_PROCESO(p)
    BY <1>1 DEF Kernel
  <2>2. CASE MC_SUSPENDER_PROCESO(p)
    <3>1. Conservan({})
      BY <1>0, <2>2, SuspenderContenido
    <3>2. ultimo' = SinAcceso /\ \A q \in Procesos : Vivo(q)' <=> Vivo(q)
      BY <1>0, <2>2 DEF MC_SUSPENDER_PROCESO, Vivo
    <3> QED BY <1>0, <3>1, <3>2, LogicoNoVe
  <2>3. CASE Readmitir(p) \/ Salir(p)
    <3>1. Conservan({})
      BY <2>3, ConservanIgual DEF Readmitir, Salir
    <3>2. ultimo' = SinAcceso /\ \A q \in Procesos : Vivo(q)' <=> Vivo(q)
      BY <1>0, <2>3 DEF Readmitir, Salir, Vivo
    <3> QED BY <1>0, <3>1, <3>2, LogicoNoVe
  <2> QED BY <1>0, <2>1, <2>2, <2>3, LogicoInicia, LogicoTermina
<1>2. CASE (\E p \in Procesos : Despachar(p)) \/ Desalojar
  <2>1. mem' = mem /\ estado' = estado /\ ultimo' = SinAcceso
    BY <1>2 DEF Despachar, Desalojar
  <2>2. Conservan({}) /\ \A q \in Procesos : Vivo(q)' <=> Vivo(q)
    BY <2>1, ConservanIgual DEF Vivo
  <2> QED BY <1>0, <2>1, <2>2, LogicoNoVe
<1>3. CASE MC_LEER_MARCO \/ MC_ESCRIBIR_MARCO
  BY <1>0, <1>3, LogicoLee, LogicoEscribe
<1>4. CASE Instruccion \/ Copiar
  <2>1. cpu.pc # "desalojado"
    BY <1>0, <1>4, TraducirCasos
  <2>2. PICK a \in Accesos : TlbHit(a) \/ TlbMiss(a)
    BY <1>0, <1>4, TraducirCasos
  <2>3. estado' = estado /\ ultimo' = SinAcceso
    BY <2>2 DEF TlbHit, TlbMiss
  <2>4. Conservan({})
    BY <1>0, <2>1, <2>2, ConservanIgual, TlbMissContenido DEF TlbHit
  <2>5. \A q \in Procesos : Vivo(q)' <=> Vivo(q)
    BY <2>3 DEF Vivo
  <2> QED BY <1>0, <2>3, <2>4, <2>5, LogicoNoVe
<1>5. CASE UNCHANGED vars
  <2>1. mem' = mem /\ estado' = estado /\ ultimo' = ultimo
    BY <1>5 DEF vars
  <2>2. Conservan({}) /\ \A q \in Procesos : Vivo(q)' <=> Vivo(q)
    BY <2>1, ConservanIgual DEF Vivo
  <2>3. Vivos' = Vivos /\ Espacio' = Espacio
    BY <1>0, <2>2, EspacioIgual
  <2> QED BY <2>1, <2>3 DEF Logico!vars, Vivos, Espacio
<1> QED BY <1>1, <1>2, <1>3, <1>4, <1>5 DEF Next, Cpu

\* The memory, the swap files and the TLB implement the memory the programs are
\* promised: a READ or a COPY gets what the same process last wrote to that page,
\* whatever was replaced, suspended or loaded in between, when a process has one
\* second-level table and the TLB cannot keep an old entry.
THEOREM MemoriaEsLogica ==
    ASSUME UnaTabla, TlbSegura
    PROVE  Spec /\ []Holgura => LogicoSpec
<1>1. Init => Logico!Init
  <2> SUFFICES ASSUME Init PROVE Logico!Init
    OBVIOUS
  <2>1. estado = [p \in Procesos |-> "nuevo"] /\ ultimo = SinAcceso
    BY DEF Init
  <2>2. \A p \in Procesos : ~Vivo(p)
    BY <2>1 DEF Vivo
  <2> QED BY <2>1, <2>2 DEF Logico!Init, Logico!SinAcceso, Logico!PaginasEnCero, SinAcceso
<1>2. MemoriaInv /\ MemoriaInv' /\ Holgura /\ ContenidoInv /\ Traduccion /\ [Next]_vars
         => [Logico!Next]_(Logico!vars)
  BY LogicoStep
<1>3. Spec /\ []Holgura => Logico!Init /\ [][Logico!Next]_(Logico!vars)
  BY <1>1, <1>2, MemoriaInvariante, ContenidoInvariante, TraduccionInvariante, PTL DEF Spec
<1> QED BY <1>3 DEF LogicoSpec, Logico!Spec

=============================================================================
