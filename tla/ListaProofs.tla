----------------------------- MODULE ListaProofs -----------------------------
(***************************************************************************)
(* Proofs about the list of shared/src/list.c, for any heap and any data:  *)
(* its links tell the same sequence both ways, and it implements the       *)
(* sequence of its elements (Secuencia). The invariant is that a cadena    *)
(* exists: the nodes of the list in order, all different, each linked to   *)
(* the one before it and to the one after it.                              *)
(***************************************************************************)
EXTENDS Lista, FiniteSetTheorems, SequenceTheorems, WellFoundedInduction, TLAPS

\* The heap: the links may be NULL, and the data of an unused node too.
Enlaces == Nodos \cup {NULL}
Nodo == [prev : Enlaces, next : Enlaces, data : Datos \cup {NULL}]
Listas ==
    [first : Enlaces, last : Enlaces, size : Nat, nodo : [Nodos -> Nodo],
     en_uso : SUBSET Nodos]

\* c is the sequence of the nodes of l.
EsCadena(l, c) ==
    /\ c \in [1..l.size -> Nodos]
    /\ \A i, j \in 1..l.size : c[i] = c[j] => i = j
    /\ \A i \in 1..l.size : c[i] \in l.en_uso
    /\ l.first = IF l.size = 0 THEN NULL ELSE c[1]
    /\ l.last = IF l.size = 0 THEN NULL ELSE c[l.size]
    /\ \A i \in 1..l.size :
          /\ l.nodo[c[i]].next = IF i = l.size THEN NULL ELSE c[i + 1]
          /\ l.nodo[c[i]].prev = IF i = 1 THEN NULL ELSE c[i - 1]

\* The invariant: some sequence of nodes is the list.
Enlazada(l) == l \in Listas /\ \E c : EsCadena(l, c)
ListaInv == NULL \notin Nodos /\ Enlazada(lista)

(***************************************************************************)
(* Going through a list, forwards and backwards.                           *)
(***************************************************************************)
\* A non-empty set of numbers has a least one. (The intervals that start at 1 are
\* ordered by strict inclusion, which is well founded.)
LEMMA Menor ==
    ASSUME NEW T \in SUBSET Nat, T # {}
    PROVE  \E x \in T : \A y \in T : x <= y
<1> DEFINE R == StrictSubsetOrdering(Nat)
           Hasta == {1..x : x \in T}
<1>1. IsWellFoundedOn(R, FiniteSubsetsOf(Nat))
  BY FS_StrictSubsetOrderingWellFounded
<1>2. Hasta # {} /\ Hasta \subseteq FiniteSubsetsOf(Nat)
  <2>1. \A x \in Nat : 1..x \in SUBSET Nat /\ IsFiniteSet(1..x)
    BY FS_Interval
  <2> QED BY <2>1 DEF FiniteSubsetsOf
<1> HIDE DEF R
<1>3. \E I \in Hasta : \A J \in Hasta : ~ (<<J, I>> \in R)
  <2> HIDE DEF Hasta
  <2> QED BY <1>1, <1>2, WFMin
<1>4. PICK x \in T : \A y \in T : ~ (<<1..y, 1..x>> \in R)
  BY <1>3
<1>5. ASSUME NEW y \in T, y < x PROVE FALSE
  <2>1. 1..y \subseteq 1..x /\ x \in 1..x /\ x \notin 1..y
    BY <1>5
  <2>2. <<1..y, 1..x>> \in R
    BY <2>1 DEF R, StrictSubsetOrdering
  <2> QED BY <1>4, <2>2
<1> QED BY <1>5

\* From first by next the nodes met are those of the cadena.
LEMMA RecorridoDeCadena ==
    ASSUME NULL \notin Nodos, NEW l \in Listas, NEW c, EsCadena(l, c)
    PROVE  Recorrido(l) = c
<1> DEFINE Es(g) == g = [k \in 1..l.size |-> IF k = 1 THEN l.first ELSE Siguiente(l, g[k - 1])]
           r == CHOOSE g : Es(g)
<1>0. l.size \in Nat /\ c \in [1..l.size -> Nodos]
  BY DEF Listas, EsCadena
<1>1. Es(c)
  <2> SUFFICES ASSUME NEW k \in 1..l.size
               PROVE  c[k] = IF k = 1 THEN l.first ELSE Siguiente(l, c[k - 1])
    BY <1>0
  <2>1. CASE k = 1
    BY <1>0, <2>1 DEF EsCadena
  <2>2. CASE k # 1
    <3>1. k - 1 \in 1..l.size /\ k - 1 # l.size /\ c[k - 1] # NULL
      BY <1>0, <2>2
    <3> QED BY <1>0, <2>2, <3>1 DEF EsCadena, Siguiente
  <2> QED BY <2>1, <2>2
<1>2. Es(r)
  BY <1>1
<1>3. Recorrido(l) = [k \in 1..l.size |-> r[k]]
  BY DEF Recorrido
<1> DEFINE T == {k \in 1..l.size : r[k] # c[k]}
<1> HIDE DEF r
<1>4. T = {}
  <2> SUFFICES ASSUME T # {} PROVE FALSE
    OBVIOUS
  <2>1. T \in SUBSET Nat
    BY <1>0
  <2> HIDE DEF T
  <2>2. PICK k \in T : \A y \in T : k <= y
    BY <2>1, Menor
  <2> USE DEF T
  <2>3. k \in 1..l.size /\ r[k] # c[k]
    BY <2>2
  <2>4. k - 1 \notin T
    BY <1>0, <2>2, <2>3
  <2>5. k # 1 => r[k - 1] = c[k - 1]
    BY <1>0, <2>3, <2>4
  <2>6. /\ r[k] = IF k = 1 THEN l.first ELSE Siguiente(l, r[k - 1])
        /\ c[k] = IF k = 1 THEN l.first ELSE Siguiente(l, c[k - 1])
    BY <1>1, <1>2, <2>3
  <2> QED BY <2>3, <2>5, <2>6
<1> QED BY <1>0, <1>3, <1>4

\* From last by prev they are the same ones, the other way round.
LEMMA RecorridoInversoDeCadena ==
    ASSUME NULL \notin Nodos, NEW l \in Listas, NEW c, EsCadena(l, c)
    PROVE  \A k \in 1..l.size : RecorridoInverso(l)[k] = c[l.size + 1 - k]
<1> DEFINE Es(g) == g = [k \in 1..l.size |-> IF k = 1 THEN l.last ELSE Anterior(l, g[k - 1])]
           r == CHOOSE g : Es(g)
           d == [k \in 1..l.size |-> c[l.size + 1 - k]]
<1>0. l.size \in Nat /\ c \in [1..l.size -> Nodos]
  BY DEF Listas, EsCadena
<1>1. Es(d)
  <2> SUFFICES ASSUME NEW k \in 1..l.size
               PROVE  d[k] = IF k = 1 THEN l.last ELSE Anterior(l, d[k - 1])
    BY <1>0
  <2>1. CASE k = 1
    BY <1>0, <2>1 DEF EsCadena
  <2>2. CASE k # 1
    <3> DEFINE j == l.size + 1 - k
    <3>1. /\ j \in 1..l.size /\ j + 1 \in 1..l.size /\ j + 1 # 1
          /\ d[k] = c[j] /\ d[k - 1] = c[j + 1] /\ c[j + 1] # NULL
          /\ (j + 1) - 1 = j
      BY <1>0, <2>2
    <3>2. l.nodo[c[j + 1]].prev = c[j]
      BY <3>1 DEF EsCadena
    <3> QED BY <2>2, <3>1, <3>2 DEF Anterior
  <2> QED BY <2>1, <2>2
<1>2. Es(r)
  BY <1>1
<1>3. RecorridoInverso(l) = [k \in 1..l.size |-> r[k]]
  BY DEF RecorridoInverso
<1> DEFINE T == {k \in 1..l.size : r[k] # d[k]}
<1> HIDE DEF r
<1>4. T = {}
  <2> SUFFICES ASSUME T # {} PROVE FALSE
    OBVIOUS
  <2>1. T \in SUBSET Nat
    BY <1>0
  <2> HIDE DEF T, d
  <2>2. PICK k \in T : \A y \in T : k <= y
    BY <2>1, Menor
  <2> USE DEF T
  <2>3. k \in 1..l.size /\ r[k] # d[k]
    BY <2>2
  <2>4. k - 1 \notin T
    BY <1>0, <2>2, <2>3
  <2>5. k # 1 => r[k - 1] = d[k - 1]
    BY <1>0, <2>3, <2>4
  <2>6. /\ r[k] = IF k = 1 THEN l.last ELSE Anterior(l, r[k - 1])
        /\ d[k] = IF k = 1 THEN l.last ELSE Anterior(l, d[k - 1])
    BY <1>1, <1>2, <2>3
  <2> QED BY <2>3, <2>5, <2>6
<1> QED BY <1>0, <1>3, <1>4

\* The links of a cadena say what MismaAlReves asks of the list.
LEMMA CadenaAlReves == ListaInv => MismaAlReves
<1> SUFFICES ASSUME ListaInv PROVE MismaAlReves
  OBVIOUS
<1>1. PICK c : EsCadena(lista, c)
  BY DEF ListaInv, Enlazada
<1>2. NULL \notin Nodos /\ lista \in Listas
  BY DEF ListaInv, Enlazada
<1>3. \A k \in 1..lista.size : RecorridoInverso(lista)[k] = Recorrido(lista)[lista.size + 1 - k]
  BY <1>1, <1>2, RecorridoDeCadena, RecorridoInversoDeCadena
<1>4. Anterior(lista, lista.first) = NULL /\ Siguiente(lista, lista.last) = NULL
  <2>1. CASE lista.size = 0
    BY <1>1, <2>1 DEF EsCadena, Anterior, Siguiente
  <2>2. CASE lista.size # 0
    <3>1. 1 \in 1..lista.size /\ lista.size \in 1..lista.size
      BY <1>2, <2>2 DEF Listas
    <3> QED BY <1>1, <2>2, <3>1 DEF EsCadena, Anterior, Siguiente
  <2> QED BY <2>1, <2>2
<1> QED BY <1>3, <1>4 DEF MismaAlReves

(***************************************************************************)
(* A node more and a node less, by what the links say.                     *)
(***************************************************************************)
\* The cadena c of s nodes with n put in at k, and without its k-th node.
Puesta(c, s, k, n) ==
    [i \in 1..s + 1 |-> IF i < k THEN c[i] ELSE IF i = k THEN n ELSE c[i - 1]]
Quitada(c, s, k) == [i \in 1..s - 1 |-> IF i < k THEN c[i] ELSE c[i + 1]]

\* m is l with the node n, which holds d, as its k-th.
Agregado(l, m, c, k, n, d) ==
    /\ m \in Listas /\ m.size = l.size + 1 /\ m.en_uso = l.en_uso \cup {n}
    /\ m.first = IF k = 1 THEN n ELSE l.first
    /\ m.last = IF k = l.size + 1 THEN n ELSE l.last
    /\ m.nodo[n].prev = IF k = 1 THEN NULL ELSE c[k - 1]
    /\ m.nodo[n].next = IF k = l.size + 1 THEN NULL ELSE c[k]
    /\ m.nodo[n].data = d
    /\ \A x \in Nodos \ {n} :
          /\ m.nodo[x].next = IF k > 1 /\ x = c[k - 1] THEN n ELSE l.nodo[x].next
          /\ m.nodo[x].prev = IF k <= l.size /\ x = c[k] THEN n ELSE l.nodo[x].prev
          /\ m.nodo[x].data = l.nodo[x].data

\* m is l without its k-th node.
Sacado(l, m, c, k) ==
    /\ m \in Listas /\ m.size = l.size - 1 /\ m.en_uso = l.en_uso \ {c[k]}
    /\ m.first = IF k # 1 THEN l.first ELSE IF l.size = 1 THEN NULL ELSE c[2]
    /\ m.last = IF k # l.size THEN l.last ELSE IF l.size = 1 THEN NULL ELSE c[l.size - 1]
    /\ \A x \in Nodos \ {c[k]} :
          /\ m.nodo[x].next = IF k > 1 /\ x = c[k - 1]
                              THEN IF k = l.size THEN NULL ELSE c[k + 1]
                              ELSE l.nodo[x].next
          /\ m.nodo[x].prev = IF k < l.size /\ x = c[k + 1]
                              THEN IF k = 1 THEN NULL ELSE c[k - 1]
                              ELSE l.nodo[x].prev
          /\ m.nodo[x].data = l.nodo[x].data

\* The links of such a list are those of the longer cadena ...
LEMMA CadenaPuesta ==
    ASSUME NULL \notin Nodos, NEW l \in Listas, NEW c, EsCadena(l, c),
           NEW n \in Nodos \ l.en_uso, NEW d, NEW k \in 1..l.size + 1, NEW m,
           Agregado(l, m, c, k, n, d)
    PROVE  EsCadena(m, Puesta(c, l.size, k, n))
<1> DEFINE s == l.size
           p == Puesta(c, s, k, n)
<1>0. s \in Nat /\ c \in [1..s -> Nodos] /\ m.size = s + 1
  BY DEF Listas, EsCadena, Agregado
<1>1. /\ p \in [1..s + 1 -> Nodos]
      /\ \A i \in 1..s + 1 : p[i] = IF i < k THEN c[i] ELSE IF i = k THEN n ELSE c[i - 1]
  BY <1>0 DEF Puesta
<1>2. \A i \in 1..s : c[i] # n /\ c[i] \in l.en_uso
  BY <1>0 DEF EsCadena
<1>3. \A i, j \in 1..s : c[i] = c[j] => i = j
  BY DEF EsCadena
<1> HIDE DEF p
<1>4. \A i, j \in 1..s + 1 : p[i] = p[j] => i = j
  <2> SUFFICES ASSUME NEW i \in 1..s + 1, NEW j \in 1..s + 1, p[i] = p[j] PROVE i = j
    OBVIOUS
  <2>1. CASE i = k \/ j = k
    BY <1>0, <1>1, <1>2, <2>1
  <2>2. CASE i # k /\ j # k
    <3> DEFINE a == IF i < k THEN i ELSE i - 1
               b == IF j < k THEN j ELSE j - 1
    <3>1. a \in 1..s /\ b \in 1..s /\ p[i] = c[a] /\ p[j] = c[b]
      BY <1>0, <1>1, <2>2
    <3>2. a = b
      BY <1>3, <3>1
    <3> QED BY <1>0, <2>2, <3>2
  <2> QED BY <2>1, <2>2
<1>5. \A i \in 1..s + 1 : p[i] \in m.en_uso
  BY <1>0, <1>1, <1>2 DEF Agregado
<1>6. m.first = p[1] /\ m.last = p[s + 1]
  <2>1. s # 0 => l.first = c[1] /\ l.last = c[s]
    BY DEF EsCadena
  <2> QED BY <1>0, <1>1, <2>1 DEF Agregado
<1>7. ASSUME NEW i \in 1..s + 1
      PROVE  /\ m.nodo[p[i]].next = IF i = s + 1 THEN NULL ELSE p[i + 1]
             /\ m.nodo[p[i]].prev = IF i = 1 THEN NULL ELSE p[i - 1]
  <2>a. \A j \in 1..s : /\ l.nodo[c[j]].next = IF j = s THEN NULL ELSE c[j + 1]
                        /\ l.nodo[c[j]].prev = IF j = 1 THEN NULL ELSE c[j - 1]
    BY DEF EsCadena
  <2>1. CASE i = k
    BY <1>0, <1>1, <2>1 DEF Agregado
  <2>2. CASE i < k
    <3>1. i \in 1..s /\ p[i] = c[i] /\ c[i] \in Nodos \ {n}
      BY <1>0, <1>1, <1>2, <2>2
    <3>2. /\ m.nodo[c[i]].next = IF k > 1 /\ c[i] = c[k - 1] THEN n ELSE l.nodo[c[i]].next
          /\ m.nodo[c[i]].prev = IF k <= s /\ c[i] = c[k] THEN n ELSE l.nodo[c[i]].prev
      BY <3>1 DEF Agregado
    <3>3. k <= s => c[i] # c[k]
      BY <1>0, <1>3, <2>2, <3>1
    <3>4. c[i] = c[k - 1] <=> i = k - 1
      BY <1>0, <1>3, <2>2, <3>1
    <3>5. i # k - 1 => i + 1 < k /\ i # s /\ p[i + 1] = c[i + 1]
      BY <1>0, <1>1, <2>2
    <3>6. i = k - 1 => p[i + 1] = n
      BY <1>0, <1>1, <2>2
    <3>7. i # 1 => p[i - 1] = c[i - 1]
      BY <1>0, <1>1, <2>2
    <3> QED BY <1>0, <2>2, <2>a, <3>1, <3>2, <3>3, <3>4, <3>5, <3>6, <3>7
  <2>3. CASE i > k
    <3> DEFINE j == i - 1
    <3>0. j \in 1..s /\ j >= k /\ i = j + 1
      BY <1>0, <2>3
    <3>1. j \in 1..s /\ j >= k /\ p[i] = c[j] /\ c[j] \in Nodos \ {n}
      <4>1. p[i] = c[j]
        BY <1>0, <1>1, <2>3
      <4> HIDE DEF j
      <4> QED BY <1>0, <1>2, <3>0, <4>1
    <3>2. /\ m.nodo[c[j]].next = IF k > 1 /\ c[j] = c[k - 1] THEN n ELSE l.nodo[c[j]].next
          /\ m.nodo[c[j]].prev = IF k <= s /\ c[j] = c[k] THEN n ELSE l.nodo[c[j]].prev
      BY <3>1 DEF Agregado
    <3>3. k > 1 => c[j] # c[k - 1]
      BY <1>0, <1>3, <3>1
    <3>4. k <= s /\ (c[j] = c[k] <=> j = k)
      BY <1>0, <1>3, <3>1
    <3>5. i # s + 1 => p[i + 1] = c[j + 1]
      <4> SUFFICES ASSUME i # s + 1 PROVE p[i + 1] = c[j + 1]
        OBVIOUS
      <4>1. i + 1 \in 1..s + 1 /\ ~(i + 1 < k) /\ i + 1 # k /\ (i + 1) - 1 = j + 1
        BY <1>0, <2>3
      <4> QED BY <1>1, <4>1
    <3>6. i # 1 /\ (j = k => p[i - 1] = n) /\ (j # k => j # 1 /\ p[i - 1] = c[j - 1])
      BY <1>0, <1>1, <2>3
    <3>7. i = s + 1 <=> j = s
      BY <1>0
    <3> QED BY <2>a, <3>1, <3>2, <3>3, <3>4, <3>5, <3>6, <3>7
  <2> QED BY <1>0, <2>1, <2>2, <2>3
<1> QED BY <1>0, <1>1, <1>4, <1>5, <1>6, <1>7 DEF EsCadena, p

\* ... and of the shorter one.
LEMMA CadenaQuitada ==
    ASSUME NULL \notin Nodos, NEW l \in Listas, NEW c, EsCadena(l, c),
           NEW k \in 1..l.size, NEW m, Sacado(l, m, c, k)
    PROVE  EsCadena(m, Quitada(c, l.size, k))
<1> DEFINE s == l.size
           p == Quitada(c, s, k)
<1>0. s \in Nat /\ s # 0 /\ c \in [1..s -> Nodos] /\ m.size = s - 1
  BY DEF Listas, EsCadena, Sacado
<1>1. /\ p \in [1..s - 1 -> Nodos]
      /\ \A i \in 1..s - 1 : p[i] = IF i < k THEN c[i] ELSE c[i + 1]
  BY <1>0 DEF Quitada
<1>2. \A i \in 1..s : c[i] \in l.en_uso
  BY <1>0 DEF EsCadena
<1>3. \A i, j \in 1..s : c[i] = c[j] => i = j
  BY DEF EsCadena
<1> HIDE DEF p
<1> DEFINE en(i) == IF i < k THEN i ELSE i + 1
<1>a. \A i \in 1..s - 1 : en(i) \in 1..s /\ en(i) # k /\ p[i] = c[en(i)] /\ c[en(i)] # c[k]
  BY <1>0, <1>1, <1>3
<1>4. \A i, j \in 1..s - 1 : p[i] = p[j] => i = j
  <2> SUFFICES ASSUME NEW i \in 1..s - 1, NEW j \in 1..s - 1, p[i] = p[j] PROVE i = j
    OBVIOUS
  <2>1. en(i) = en(j)
    BY <1>3, <1>a
  <2> QED BY <1>0, <2>1
<1>5. \A i \in 1..s - 1 : p[i] \in m.en_uso
  BY <1>0, <1>2, <1>a DEF Sacado
<1>6. /\ m.first = IF s - 1 = 0 THEN NULL ELSE p[1]
      /\ m.last = IF s - 1 = 0 THEN NULL ELSE p[s - 1]
  <2>1. l.first = c[1] /\ l.last = c[s]
    BY <1>0 DEF EsCadena
  <2> QED BY <1>0, <1>1, <2>1 DEF Sacado
<1>7. ASSUME NEW i \in 1..s - 1
      PROVE  /\ m.nodo[p[i]].next = IF i = s - 1 THEN NULL ELSE p[i + 1]
             /\ m.nodo[p[i]].prev = IF i = 1 THEN NULL ELSE p[i - 1]
  <2>a. \A j \in 1..s : /\ l.nodo[c[j]].next = IF j = s THEN NULL ELSE c[j + 1]
                        /\ l.nodo[c[j]].prev = IF j = 1 THEN NULL ELSE c[j - 1]
    BY DEF EsCadena
  <2> DEFINE j == en(i)
  <2>1. j \in 1..s /\ j # k /\ p[i] = c[j] /\ c[j] \in Nodos \ {c[k]}
    BY <1>0, <1>a
  <2>2. /\ m.nodo[c[j]].next = IF k > 1 /\ c[j] = c[k - 1]
                              THEN IF k = s THEN NULL ELSE c[k + 1] ELSE l.nodo[c[j]].next
        /\ m.nodo[c[j]].prev = IF k < s /\ c[j] = c[k + 1]
                              THEN IF k = 1 THEN NULL ELSE c[k - 1] ELSE l.nodo[c[j]].prev
    BY <2>1 DEF Sacado
  <2>3. (k > 1 => (c[j] = c[k - 1] <=> j = k - 1)) /\ (k < s => (c[j] = c[k + 1] <=> j = k + 1))
    BY <1>0, <1>3, <2>1
  <2>4. CASE i < k
    <3>1. j = i
      BY <2>4
    <3> QED BY <1>0, <1>1, <2>1, <2>2, <2>3, <2>4, <2>a, <3>1
  <2>5. CASE i >= k
    <3>1. j = i + 1
      BY <1>0, <2>5
    <3> QED BY <1>0, <1>1, <2>1, <2>2, <2>3, <2>5, <2>a, <3>1, SMTT(30)
  <2> QED BY <1>0, <2>4, <2>5
<1>8. /\ p \in [1..m.size -> Nodos]
      /\ \A i, j \in 1..m.size : p[i] = p[j] => i = j
      /\ \A i \in 1..m.size : p[i] \in m.en_uso
      /\ m.first = IF m.size = 0 THEN NULL ELSE p[1]
      /\ m.last = IF m.size = 0 THEN NULL ELSE p[m.size]
  BY <1>0, <1>1, <1>4, <1>5, <1>6
<1>9. \A i \in 1..m.size :
         /\ m.nodo[p[i]].next = IF i = m.size THEN NULL ELSE p[i + 1]
         /\ m.nodo[p[i]].prev = IF i = 1 THEN NULL ELSE p[i - 1]
  BY <1>0, <1>7
<1>10. EsCadena(m, p)
  BY <1>8, <1>9 DEF EsCadena
<1> QED BY <1>10 DEF p

(***************************************************************************)
(* What each operation does to the links.                                  *)
(***************************************************************************)
\* createnode and free touch one node, and no end of the list.
LEMMA Creado ==
    ASSUME NEW l \in Listas, NEW n \in Nodos, NEW d \in Datos
    PROVE  LET m == createnode(l, n, d)
           IN  /\ m \in Listas /\ m.size = l.size /\ m.first = l.first /\ m.last = l.last
               /\ m.en_uso = l.en_uso \cup {n}
               /\ m.nodo = [l.nodo EXCEPT ![n] = [prev |-> NULL, next |-> NULL, data |-> d]]
<1> DEFINE m == createnode(l, n, d)
           x == [prev |-> NULL, next |-> NULL, data |-> d]
<1>1. x \in Nodo /\ x = [Libre EXCEPT !.data = d]
  BY DEF Nodo, Libre, Enlaces
<1>2. m = [l EXCEPT !.en_uso = l.en_uso \cup {n}, !.nodo = [l.nodo EXCEPT ![n] = x]]
  BY <1>1 DEF createnode, Listas
<1>3. [l.nodo EXCEPT ![n] = x] \in [Nodos -> Nodo]
  BY <1>1 DEF Listas, Nodo
<1> HIDE DEF x, m
<1>4. /\ m.size = l.size /\ m.first = l.first /\ m.last = l.last
      /\ m.en_uso = l.en_uso \cup {n} /\ m.nodo = [l.nodo EXCEPT ![n] = x]
      /\ m \in Listas
  BY <1>2, <1>3 DEF Listas, Nodo
<1> QED BY <1>4 DEF m, x

\* free of a node, which leaves the ends and the other nodes alone.
LEMMA Liberado ==
    ASSUME NEW l \in Listas, NEW n \in Nodos
    PROVE  LET m == Achicar(l, n)
           IN  /\ m.size = l.size - 1 /\ m.first = l.first /\ m.last = l.last
               /\ m.en_uso = l.en_uso \ {n}
               /\ m.nodo = [l.nodo EXCEPT ![n] = Libre]
               /\ l.size # 0 => m \in Listas
<1> DEFINE m == Achicar(l, n)
<1>1. Libre \in Nodo
  BY DEF Nodo, Libre, Enlaces
<1>2. m = [l EXCEPT !.en_uso = l.en_uso \ {n}, !.nodo = [l.nodo EXCEPT ![n] = Libre],
                    !.size = l.size - 1]
  BY DEF Achicar, free, Listas
<1>3. [l.nodo EXCEPT ![n] = Libre] \in [Nodos -> Nodo]
  BY <1>1 DEF Listas, Nodo
<1>4. l.size # 0 => l.size - 1 \in Nat
  BY DEF Listas
<1> HIDE DEF m
<1>5. /\ m.size = l.size - 1 /\ m.first = l.first /\ m.last = l.last
      /\ m.en_uso = l.en_uso \ {n} /\ m.nodo = [l.nodo EXCEPT ![n] = Libre]
      /\ l.size # 0 => m \in Listas
  BY <1>2, <1>3, <1>4 DEF Listas, Nodo
<1> QED BY <1>5 DEF m

\* Links written in two different nodes.
Enlazados(g, a, x, b, y) == [g EXCEPT ![a].next = x, ![b].prev = y]

\* What each field of a node is after two links are written, one after the other.
LEMMA DosEnlaces ==
    ASSUME NEW g \in [Nodos -> Nodo], NEW a \in Nodos, NEW b \in Nodos, NEW x \in Enlaces,
           NEW y \in Enlaces
    PROVE  /\ Enlazados(g, a, x, b, y) \in [Nodos -> Nodo]
           /\ \A z \in Nodos :
                 /\ Enlazados(g, a, x, b, y)[z].next = IF z = a THEN x ELSE g[z].next
                 /\ Enlazados(g, a, x, b, y)[z].prev = IF z = b THEN y ELSE g[z].prev
                 /\ Enlazados(g, a, x, b, y)[z].data = g[z].data
<1> DEFINE h == Enlazados(g, a, x, b, y)
           f == [g EXCEPT ![a] = [g[a] EXCEPT !.next = x]]
           w == [f[b] EXCEPT !.prev = y]
<1>1. /\ f \in [Nodos -> Nodo]
      /\ \A z \in Nodos : /\ f[z].next = IF z = a THEN x ELSE g[z].next
                          /\ f[z].prev = g[z].prev /\ f[z].data = g[z].data
  BY DEF Nodo
<1>2. h = [f EXCEPT ![b] = w]
  BY DEF Enlazados, Nodo
<1> HIDE DEF f
<1>a. /\ w \in Nodo /\ w.prev = y /\ w.next = f[b].next /\ w.data = f[b].data
  BY <1>1 DEF Nodo
<1> HIDE DEF w
<1>3. /\ h \in [Nodos -> Nodo]
      /\ \A z \in Nodos : /\ h[z].prev = IF z = b THEN y ELSE f[z].prev
                          /\ h[z].next = f[z].next /\ h[z].data = f[z].data
  BY <1>1, <1>2, <1>a
<1> HIDE DEF h
<1>4. /\ h \in [Nodos -> Nodo]
      /\ \A z \in Nodos :
            /\ h[z].next = IF z = a THEN x ELSE g[z].next
            /\ h[z].prev = IF z = b THEN y ELSE g[z].prev
            /\ h[z].data = g[z].data
  BY <1>1, <1>3
<1> QED BY <1>4 DEF h

\* The same of one node.
LEMMA EnlaceEn ==
    ASSUME NEW g \in [Nodos -> Nodo], NEW a \in Nodos, NEW b \in Nodos, NEW x \in Enlaces,
           NEW y \in Enlaces, NEW z \in Nodos
    PROVE  /\ Enlazados(g, a, x, b, y)[z].next = IF z = a THEN x ELSE g[z].next
           /\ Enlazados(g, a, x, b, y)[z].prev = IF z = b THEN y ELSE g[z].prev
           /\ Enlazados(g, a, x, b, y)[z].data = g[z].data
BY DosEnlaces

\* pushfrontlist puts the node first ...
LEMMA AlPrincipio ==
    ASSUME NULL \notin Nodos, NEW l \in Listas, NEW c, EsCadena(l, c),
           NEW n \in Nodos \ l.en_uso, NEW d \in Datos
    PROVE  Agregado(l, pushfrontlist(createnode(l, n, d), n), c, 1, n, d)
<1> DEFINE e == createnode(l, n, d)
           m == pushfrontlist(e, n)
           f == l.first
           x == [prev |-> NULL, next |-> NULL, data |-> d]
<1>0. /\ e \in Listas /\ e.size = l.size /\ e.first = l.first /\ e.last = l.last
      /\ e.en_uso = l.en_uso \cup {n} /\ e.nodo = [l.nodo EXCEPT ![n] = x]
  BY Creado
<1>1. /\ e.nodo[n] = x /\ \A z \in Nodos \ {n} : e.nodo[z] = l.nodo[z]
      /\ x.prev = NULL /\ x.next = NULL /\ x.data = d
      /\ l.size + 1 \in Nat /\ n \in Enlaces /\ e.last \in Enlaces
      /\ e.nodo \in [Nodos -> Nodo]
  BY <1>0 DEF Listas, Enlaces
<1> HIDE DEF e, x
<1>2. CASE l.size = 0
  <2>1. m = [e EXCEPT !.first = n, !.last = n, !.size = l.size + 1, !.nodo = e.nodo]
    BY <1>0, <1>2 DEF pushfrontlist, Crecer, isemptylist, Listas
  <2> HIDE DEF m
  <2>2. /\ m \in Listas /\ m.first = n /\ m.last = n /\ m.size = l.size + 1
        /\ m.nodo = e.nodo /\ m.en_uso = e.en_uso
    BY <1>0, <1>1, <2>1 DEF Listas
  <2>3. Agregado(l, m, c, 1, n, d)
    BY <1>0, <1>1, <1>2, <2>2 DEF Agregado
  <2> QED BY <2>3 DEF m, e
<1>3. CASE l.size # 0
  <2> DEFINE h == Enlazados(e.nodo, n, f, f, n)
  <2>1. f \in Nodos \ {n} /\ f = c[1] /\ 1 \in 1..l.size /\ f \in Enlaces
    BY <1>3 DEF EsCadena, Listas, Enlaces
  <2>2. m = [e EXCEPT !.first = n, !.last = e.last, !.size = l.size + 1, !.nodo = h]
    BY <1>0, <1>3, <2>1 DEF pushfrontlist, Crecer, isemptylist, Listas, Enlazados
  <2> HIDE DEF m, h, f
  <2>3. /\ h \in [Nodos -> Nodo]
        /\ \A z \in Nodos :
              /\ h[z].next = IF z = n THEN f ELSE e.nodo[z].next
              /\ h[z].prev = IF z = f THEN n ELSE e.nodo[z].prev
              /\ h[z].data = e.nodo[z].data
    <3>1. /\ e.nodo \in [Nodos -> Nodo] /\ n \in Nodos /\ f \in Nodos /\ f \in Enlaces
          /\ n \in Enlaces
      BY <1>1, <2>1
    <3> QED BY <3>1, DosEnlaces, SMTT(30) DEF h
  <2>4. /\ m \in Listas /\ m.first = n /\ m.last = e.last /\ m.size = l.size + 1
        /\ m.nodo = h /\ m.en_uso = e.en_uso
    BY <1>0, <1>1, <2>2, <2>3 DEF Listas
  <2>5. Agregado(l, m, c, 1, n, d)
    BY <1>0, <1>1, <1>3, <2>1, <2>3, <2>4 DEF Agregado, Listas
  <2> QED BY <2>5 DEF m, e
<1> QED BY <1>2, <1>3

\* The same, written the other way round.
EnlazadosPrev(g, b, y, a, x) == [g EXCEPT ![b].prev = y, ![a].next = x]

\* The same when the prev link is written first.
LEMMA DosEnlacesPrev ==
    ASSUME NEW g \in [Nodos -> Nodo], NEW a \in Nodos, NEW b \in Nodos, NEW x \in Enlaces,
           NEW y \in Enlaces
    PROVE  /\ EnlazadosPrev(g, b, y, a, x) \in [Nodos -> Nodo]
           /\ \A z \in Nodos :
                 /\ EnlazadosPrev(g, b, y, a, x)[z].next = IF z = a THEN x ELSE g[z].next
                 /\ EnlazadosPrev(g, b, y, a, x)[z].prev = IF z = b THEN y ELSE g[z].prev
                 /\ EnlazadosPrev(g, b, y, a, x)[z].data = g[z].data
<1> DEFINE h == EnlazadosPrev(g, b, y, a, x)
           f == [g EXCEPT ![b] = [g[b] EXCEPT !.prev = y]]
           w == [f[a] EXCEPT !.next = x]
<1>1. /\ f \in [Nodos -> Nodo]
      /\ \A z \in Nodos : /\ f[z].prev = IF z = b THEN y ELSE g[z].prev
                          /\ f[z].next = g[z].next /\ f[z].data = g[z].data
  BY DEF Nodo
<1>2. h = [f EXCEPT ![a] = w]
  BY DEF EnlazadosPrev, Nodo
<1> HIDE DEF f
<1>a. /\ w \in Nodo /\ w.next = x /\ w.prev = f[a].prev /\ w.data = f[a].data
  BY <1>1 DEF Nodo
<1> HIDE DEF w
<1>3. /\ h \in [Nodos -> Nodo]
      /\ \A z \in Nodos : /\ h[z].next = IF z = a THEN x ELSE f[z].next
                          /\ h[z].prev = f[z].prev /\ h[z].data = f[z].data
  BY <1>1, <1>2, <1>a
<1> HIDE DEF h
<1>4. /\ h \in [Nodos -> Nodo]
      /\ \A z \in Nodos :
            /\ h[z].next = IF z = a THEN x ELSE g[z].next
            /\ h[z].prev = IF z = b THEN y ELSE g[z].prev
            /\ h[z].data = g[z].data
  BY <1>1, <1>3
<1> QED BY <1>4 DEF h

\* The same of one node.
LEMMA EnlaceEnPrev ==
    ASSUME NEW g \in [Nodos -> Nodo], NEW a \in Nodos, NEW b \in Nodos, NEW x \in Enlaces,
           NEW y \in Enlaces, NEW z \in Nodos
    PROVE  /\ EnlazadosPrev(g, b, y, a, x)[z].next = IF z = a THEN x ELSE g[z].next
           /\ EnlazadosPrev(g, b, y, a, x)[z].prev = IF z = b THEN y ELSE g[z].prev
           /\ EnlazadosPrev(g, b, y, a, x)[z].data = g[z].data
BY DosEnlacesPrev

\* ... pushbacklist last ...
LEMMA AlFinal ==
    ASSUME NULL \notin Nodos, NEW l \in Listas, NEW c, EsCadena(l, c),
           NEW n \in Nodos \ l.en_uso, NEW d \in Datos
    PROVE  Agregado(l, pushbacklist(createnode(l, n, d), n), c, l.size + 1, n, d)
<1> DEFINE e == createnode(l, n, d)
           m == pushbacklist(e, n)
           u == l.last
           x == [prev |-> NULL, next |-> NULL, data |-> d]
<1>0. /\ e \in Listas /\ e.size = l.size /\ e.first = l.first /\ e.last = l.last
      /\ e.en_uso = l.en_uso \cup {n} /\ e.nodo = [l.nodo EXCEPT ![n] = x]
  BY Creado
<1>1. /\ e.nodo[n] = x /\ \A z \in Nodos \ {n} : e.nodo[z] = l.nodo[z]
      /\ x.prev = NULL /\ x.next = NULL /\ x.data = d
      /\ l.size \in Nat /\ l.size + 1 \in Nat /\ n \in Enlaces /\ e.first \in Enlaces
      /\ e.nodo \in [Nodos -> Nodo]
  BY <1>0 DEF Listas, Enlaces
<1> HIDE DEF e, x
<1>2. CASE l.size = 0
  <2>1. m = [e EXCEPT !.first = n, !.last = n, !.size = l.size + 1, !.nodo = e.nodo]
    BY <1>0, <1>2 DEF pushbacklist, Crecer, isemptylist, Listas
  <2> HIDE DEF m
  <2>2. /\ m \in Listas /\ m.first = n /\ m.last = n /\ m.size = l.size + 1
        /\ m.nodo = e.nodo /\ m.en_uso = e.en_uso
    BY <1>0, <1>1, <2>1 DEF Listas
  <2>3. Agregado(l, m, c, l.size + 1, n, d)
    BY <1>0, <1>1, <1>2, <2>2 DEF Agregado
  <2> QED BY <2>3 DEF m, e
<1>3. CASE l.size # 0
  <2> DEFINE h == EnlazadosPrev(e.nodo, n, u, u, n)
  <2>1. u \in Nodos \ {n} /\ u = c[l.size] /\ l.size \in 1..l.size /\ u \in Enlaces
    BY <1>1, <1>3 DEF EsCadena, Listas, Enlaces
  <2>2. m = [e EXCEPT !.first = e.first, !.last = n, !.size = l.size + 1, !.nodo = h]
    BY <1>0, <1>3, <2>1 DEF pushbacklist, Crecer, isemptylist, Listas, EnlazadosPrev
  <2> HIDE DEF m, h, u
  <2>3. /\ h \in [Nodos -> Nodo]
        /\ \A z \in Nodos :
              /\ h[z].next = IF z = u THEN n ELSE e.nodo[z].next
              /\ h[z].prev = IF z = n THEN u ELSE e.nodo[z].prev
              /\ h[z].data = e.nodo[z].data
    <3>1. /\ e.nodo \in [Nodos -> Nodo] /\ n \in Nodos /\ u \in Nodos /\ u \in Enlaces
          /\ n \in Enlaces
      BY <1>1, <2>1
    <3> QED BY <3>1, DosEnlacesPrev, SMTT(30) DEF h
  <2>4. /\ m \in Listas /\ m.first = e.first /\ m.last = n /\ m.size = l.size + 1
        /\ m.nodo = h /\ m.en_uso = e.en_uso
    BY <1>0, <1>1, <2>2, <2>3 DEF Listas
  <2>5. Agregado(l, m, c, l.size + 1, n, d)
    BY <1>0, <1>1, <1>3, <2>1, <2>3, <2>4 DEF Agregado
  <2> QED BY <2>5 DEF m, e
<1> QED BY <1>2, <1>3

\* ... and EnlazarAntes before another that is not the first.
LEMMA AntesDeOtro ==
    ASSUME NULL \notin Nodos, NEW l \in Listas, NEW c, EsCadena(l, c),
           NEW n \in Nodos \ l.en_uso, NEW d \in Datos, NEW k \in 2..l.size
    PROVE  Agregado(l, EnlazarAntes(createnode(l, n, d), n, c[k]), c, k, n, d)
<1> DEFINE e == createnode(l, n, d)
           aux == c[k]
           m == EnlazarAntes(e, n, aux)
           previo == c[k - 1]
           x == [prev |-> NULL, next |-> NULL, data |-> d]
           g == Enlazados(e.nodo, n, aux, n, previo)
           h == Enlazados(g, previo, n, aux, n)
<1>0. /\ e \in Listas /\ e.size = l.size /\ e.first = l.first /\ e.last = l.last
      /\ e.en_uso = l.en_uso \cup {n} /\ e.nodo = [l.nodo EXCEPT ![n] = x]
  BY Creado
<1>1. /\ e.nodo[n] = x /\ \A z \in Nodos \ {n} : e.nodo[z] = l.nodo[z]
      /\ x.prev = NULL /\ x.next = NULL /\ x.data = d
      /\ l.size \in Nat /\ l.size + 1 \in Nat
      /\ e.first \in Enlaces /\ e.last \in Enlaces /\ e.nodo \in [Nodos -> Nodo]
  BY <1>0 DEF Listas, Enlaces
<1>2. /\ k \in 1..l.size /\ k - 1 \in 1..l.size /\ k > 1 /\ k <= l.size
      /\ k # 1 /\ k # l.size + 1
  BY <1>1
<1>3. /\ aux \in Nodos \ {n} /\ previo \in Nodos \ {n} /\ aux # previo
      /\ l.nodo[aux].prev = previo
  BY <1>2 DEF EsCadena
<1> HIDE DEF e, x, aux, previo
<1>4. e.nodo[aux].prev = previo
  BY <1>1, <1>3
<1>5. n \in Nodos /\ aux \in Nodos /\ previo \in Nodos /\ n \in Enlaces /\ aux \in Enlaces
      /\ previo \in Enlaces
  BY <1>3 DEF Enlaces
<1> DEFINE e1 == [e EXCEPT !.nodo = g]
           e2 == [e1 EXCEPT !.nodo = h]
<1>6. m = Crecer(e2)
  <2>1. e1 = [e EXCEPT !.nodo[n].next = aux, !.nodo[n].prev = previo]
    BY <1>0 DEF Listas, Enlazados
  <2>2. /\ e1.nodo = g /\ DOMAIN e1 = {"first", "last", "size", "nodo", "en_uso"}
    BY <1>0 DEF Listas
  <2> HIDE DEF e1, g
  <2>3. e2 = [e1 EXCEPT !.nodo[previo].next = n, !.nodo[aux].prev = n]
    BY <2>2 DEF Enlazados
  <2> HIDE DEF h, e2
  <2> QED BY <1>4, <2>1, <2>3 DEF EnlazarAntes
<1> HIDE DEF g, h
<1>7. /\ g \in [Nodos -> Nodo]
      /\ \A z \in Nodos :
            /\ g[z].next = IF z = n THEN aux ELSE e.nodo[z].next
            /\ g[z].prev = IF z = n THEN previo ELSE e.nodo[z].prev
            /\ g[z].data = e.nodo[z].data
  <2>1. e.nodo \in [Nodos -> Nodo]
    BY <1>1
  <2>2. g \in [Nodos -> Nodo]
    BY <1>5, <2>1, DosEnlaces DEF g
  <2>3. ASSUME NEW z \in Nodos
        PROVE  /\ g[z].next = IF z = n THEN aux ELSE e.nodo[z].next
               /\ g[z].prev = IF z = n THEN previo ELSE e.nodo[z].prev
               /\ g[z].data = e.nodo[z].data
    BY <1>5, <2>1, EnlaceEn, SMTT(30) DEF g
  <2> QED BY <2>2, <2>3
<1>8. /\ h \in [Nodos -> Nodo]
      /\ \A z \in Nodos :
            /\ h[z].next = IF z = previo THEN n ELSE g[z].next
            /\ h[z].prev = IF z = aux THEN n ELSE g[z].prev
            /\ h[z].data = g[z].data
  <2>1. g \in [Nodos -> Nodo]
    BY <1>7
  <2>2. h \in [Nodos -> Nodo]
    BY <1>5, <2>1, DosEnlaces DEF h
  <2>3. ASSUME NEW z \in Nodos
        PROVE  /\ h[z].next = IF z = previo THEN n ELSE g[z].next
               /\ h[z].prev = IF z = aux THEN n ELSE g[z].prev
               /\ h[z].data = g[z].data
    BY <1>5, <2>1, EnlaceEn DEF h
  <2> QED BY <2>2, <2>3
<1>9. /\ m \in Listas /\ m.first = e.first /\ m.last = e.last /\ m.size = l.size + 1
      /\ m.nodo = h /\ m.en_uso = e.en_uso
  <2>1. m = [e EXCEPT !.size = l.size + 1, !.nodo = h]
    BY <1>0, <1>6 DEF Crecer, Listas
  <2> HIDE DEF m
  <2> QED BY <1>0, <1>1, <1>8, <2>1 DEF Listas
<1> HIDE DEF m
<1>10. Agregado(l, m, c, k, n, d)
  BY <1>0, <1>1, <1>2, <1>3, <1>7, <1>8, <1>9 DEF Agregado, aux, previo
<1> QED BY <1>10 DEF m, e, aux

\* popfrontlist takes the first node out ...
LEMMA DelPrincipio ==
    ASSUME NULL \notin Nodos, NEW l \in Listas, NEW c, EsCadena(l, c), l.size # 0
    PROVE  Sacado(l, popfrontlist(l), c, 1)
<1> DEFINE n == l.first
           segundo == l.nodo[n].next
           e == IF l.size = 1 THEN [l EXCEPT !.first = NULL, !.last = NULL]
                ELSE [l EXCEPT !.first = segundo, !.nodo[segundo].prev = NULL]
           m == Achicar(e, n)
<1>0. /\ l.size \in Nat /\ 1 \in 1..l.size /\ n = c[1] /\ n \in Nodos
      /\ l.nodo \in [Nodos -> Nodo] /\ NULL \in Enlaces
  BY DEF EsCadena, Listas, Enlaces
<1>1. l.size # 1 => /\ segundo = c[2] /\ segundo \in Nodos \ {n} /\ segundo \in Enlaces
                    /\ 2 \in 1..l.size
  <2> SUFFICES ASSUME l.size # 1
               PROVE  /\ segundo = c[2] /\ segundo \in Nodos \ {n} /\ segundo \in Enlaces
                      /\ 2 \in 1..l.size
    OBVIOUS
  <2>1. 2 \in 1..l.size
    BY <1>0
  <2>2. segundo = c[2] /\ c[2] \in Nodos /\ c[2] # c[1]
    BY <1>0, <2>1 DEF EsCadena
  <2> QED BY <1>0, <2>1, <2>2 DEF Enlaces
<1> HIDE DEF n, segundo
<1>2. /\ e \in Listas /\ e.size = l.size /\ e.en_uso = l.en_uso
      /\ e.first = IF l.size = 1 THEN NULL ELSE c[2]
      /\ e.last = IF l.size = 1 THEN NULL ELSE l.last
      /\ \A z \in Nodos :
            /\ e.nodo[z].next = l.nodo[z].next /\ e.nodo[z].data = l.nodo[z].data
            /\ e.nodo[z].prev = IF l.size # 1 /\ z = segundo THEN NULL ELSE l.nodo[z].prev
  <2>1. CASE l.size = 1
    BY <1>0, <2>1 DEF Listas
  <2>2. CASE l.size # 1
    <3> DEFINE w == [l.nodo[segundo] EXCEPT !.prev = NULL]
               h == [l.nodo EXCEPT ![segundo] = w]
    <3>1. e = [l EXCEPT !.first = segundo, !.nodo = h]
      BY <1>0, <1>1, <2>2 DEF Listas
    <3>2. /\ w \in Nodo /\ w.prev = NULL /\ w.next = l.nodo[segundo].next
          /\ w.data = l.nodo[segundo].data
      BY <1>0, <1>1, <2>2 DEF Nodo
    <3> HIDE DEF w, e
    <3>3. /\ h \in [Nodos -> Nodo]
          /\ \A z \in Nodos : /\ h[z].next = l.nodo[z].next /\ h[z].data = l.nodo[z].data
                              /\ h[z].prev = IF z = segundo THEN NULL ELSE l.nodo[z].prev
      BY <1>0, <1>1, <2>2, <3>2
    <3> HIDE DEF h
    <3>4. /\ e \in Listas /\ e.size = l.size /\ e.en_uso = l.en_uso /\ e.nodo = h
          /\ e.first = segundo /\ e.last = l.last
      BY <1>1, <2>2, <3>1, <3>3 DEF Listas
    <3> QED BY <1>1, <2>2, <3>3, <3>4
  <2> QED BY <2>1, <2>2
<1> HIDE DEF e
<1>3. /\ m.size = l.size - 1 /\ m.first = e.first /\ m.last = e.last
      /\ m.en_uso = l.en_uso \ {n}
      /\ \A z \in Nodos \ {n} : m.nodo[z] = e.nodo[z]
      /\ m \in Listas
  <2>1. LET q == Achicar(e, n)
        IN  /\ q.size = e.size - 1 /\ q.first = e.first /\ q.last = e.last
            /\ q.en_uso = e.en_uso \ {n} /\ q.nodo = [e.nodo EXCEPT ![n] = Libre]
            /\ e.size # 0 => q \in Listas
    BY <1>0, <1>2, Liberado
  <2>2. e.nodo \in [Nodos -> Nodo]
    BY <1>2 DEF Listas
  <2> QED BY <1>2, <2>1, <2>2 DEF m
<1> HIDE DEF m
<1>4. m = popfrontlist(l)
  BY DEF m, e, n, segundo, popfrontlist
<1>5. Sacado(l, m, c, 1)
  BY <1>0, <1>1, <1>2, <1>3 DEF Sacado, EsCadena
<1> QED BY <1>4, <1>5

\* ... popbacklist the last ...
LEMMA DelFinal ==
    ASSUME NULL \notin Nodos, NEW l \in Listas, NEW c, EsCadena(l, c), l.size # 0
    PROVE  Sacado(l, popbacklist(l), c, l.size)
<1> DEFINE n == l.last
           penultimo == l.nodo[n].prev
           e == IF l.size = 1 THEN [l EXCEPT !.first = NULL, !.last = NULL]
                ELSE [l EXCEPT !.last = penultimo, !.nodo[penultimo].next = NULL]
           m == Achicar(e, n)
<1>0. /\ l.size \in Nat /\ l.size \in 1..l.size /\ n = c[l.size] /\ n \in Nodos
      /\ l.nodo \in [Nodos -> Nodo] /\ NULL \in Enlaces
  BY DEF EsCadena, Listas, Enlaces
<1>1. l.size # 1 => /\ penultimo = c[l.size - 1] /\ penultimo \in Nodos \ {n}
                    /\ penultimo \in Enlaces /\ l.size - 1 \in 1..l.size
  <2> SUFFICES ASSUME l.size # 1
               PROVE  /\ penultimo = c[l.size - 1] /\ penultimo \in Nodos \ {n}
                      /\ penultimo \in Enlaces /\ l.size - 1 \in 1..l.size
    OBVIOUS
  <2>1. l.size - 1 \in 1..l.size /\ l.size - 1 # l.size
    BY <1>0
  <2>2. /\ penultimo = c[l.size - 1] /\ c[l.size - 1] \in Nodos
        /\ c[l.size - 1] # c[l.size]
    BY <1>0, <2>1 DEF EsCadena
  <2> QED BY <1>0, <2>1, <2>2 DEF Enlaces
<1> HIDE DEF n, penultimo
<1>2. /\ e \in Listas /\ e.size = l.size /\ e.en_uso = l.en_uso
      /\ e.first = IF l.size = 1 THEN NULL ELSE l.first
      /\ e.last = IF l.size = 1 THEN NULL ELSE c[l.size - 1]
      /\ \A z \in Nodos :
            /\ e.nodo[z].prev = l.nodo[z].prev /\ e.nodo[z].data = l.nodo[z].data
            /\ e.nodo[z].next = IF l.size # 1 /\ z = penultimo THEN NULL ELSE l.nodo[z].next
  <2>1. CASE l.size = 1
    BY <1>0, <2>1 DEF Listas
  <2>2. CASE l.size # 1
    <3> DEFINE w == [l.nodo[penultimo] EXCEPT !.next = NULL]
               h == [l.nodo EXCEPT ![penultimo] = w]
    <3>1. e = [l EXCEPT !.last = penultimo, !.nodo = h]
      BY <1>0, <1>1, <2>2 DEF Listas
    <3>2. /\ w \in Nodo /\ w.next = NULL /\ w.prev = l.nodo[penultimo].prev
          /\ w.data = l.nodo[penultimo].data
      BY <1>0, <1>1, <2>2 DEF Nodo
    <3> HIDE DEF w, e
    <3>3. /\ h \in [Nodos -> Nodo]
          /\ \A z \in Nodos : /\ h[z].prev = l.nodo[z].prev /\ h[z].data = l.nodo[z].data
                              /\ h[z].next = IF z = penultimo THEN NULL ELSE l.nodo[z].next
      BY <1>0, <1>1, <2>2, <3>2
    <3> HIDE DEF h
    <3>4. /\ e \in Listas /\ e.size = l.size /\ e.en_uso = l.en_uso /\ e.nodo = h
          /\ e.first = l.first /\ e.last = penultimo
      BY <1>1, <2>2, <3>1, <3>3 DEF Listas
    <3> QED BY <1>1, <2>2, <3>3, <3>4
  <2> QED BY <2>1, <2>2
<1> HIDE DEF e
<1>3. /\ m.size = l.size - 1 /\ m.first = e.first /\ m.last = e.last
      /\ m.en_uso = l.en_uso \ {n}
      /\ \A z \in Nodos \ {n} : m.nodo[z] = e.nodo[z]
      /\ m \in Listas
  <2>1. LET q == Achicar(e, n)
        IN  /\ q.size = e.size - 1 /\ q.first = e.first /\ q.last = e.last
            /\ q.en_uso = e.en_uso \ {n} /\ q.nodo = [e.nodo EXCEPT ![n] = Libre]
            /\ e.size # 0 => q \in Listas
    BY <1>0, <1>2, Liberado
  <2>2. e.nodo \in [Nodos -> Nodo]
    BY <1>2 DEF Listas
  <2> QED BY <1>2, <2>1, <2>2 DEF m
<1> HIDE DEF m
<1>4. m = popbacklist(l)
  BY DEF m, e, n, penultimo, popbacklist
<1>5. Sacado(l, m, c, l.size)
  BY <1>0, <1>1, <1>2, <1>3 DEF Sacado, EsCadena
<1> QED BY <1>4, <1>5

\* ... and Desenlazar any other.
LEMMA DelMedio ==
    ASSUME NULL \notin Nodos, NEW l \in Listas, NEW c, EsCadena(l, c),
           NEW k \in 2..l.size - 1
    PROVE  Sacado(l, Desenlazar(l, c[k]), c, k)
<1> DEFINE n == c[k]
           previo == c[k - 1]
           siguiente == c[k + 1]
           h == EnlazadosPrev(l.nodo, siguiente, previo, previo, siguiente)
           e == [l EXCEPT !.nodo = h]
           m == Achicar(e, n)
<1>0. /\ l.size \in Nat /\ k \in 1..l.size /\ k - 1 \in 1..l.size /\ k + 1 \in 1..l.size
      /\ k # 1 /\ k # l.size /\ k > 1 /\ k < l.size
      /\ l.nodo \in [Nodos -> Nodo]
  BY DEF Listas
<1>1. /\ n \in Nodos /\ previo \in Nodos \ {n} /\ siguiente \in Nodos \ {n}
      /\ l.nodo[n].prev = previo /\ l.nodo[n].next = siguiente
      /\ previo \in Enlaces /\ siguiente \in Enlaces
  BY <1>0, SMTT(30) DEF EsCadena, Enlaces
<1>2. m = Desenlazar(l, n)
  <2>1. e = [l EXCEPT !.nodo[siguiente].prev = previo, !.nodo[previo].next = siguiente]
    BY DEF EnlazadosPrev, Listas
  <2> HIDE DEF e, h
  <2> QED BY <1>1, <2>1 DEF Desenlazar
<1> HIDE DEF n, previo, siguiente, h
<1>3. h \in [Nodos -> Nodo]
  BY <1>0, <1>1, DosEnlacesPrev, SMTT(30) DEF h
<1>4. ASSUME NEW z \in Nodos
      PROVE  /\ h[z].next = IF z = previo THEN siguiente ELSE l.nodo[z].next
             /\ h[z].prev = IF z = siguiente THEN previo ELSE l.nodo[z].prev
             /\ h[z].data = l.nodo[z].data
  BY <1>0, <1>1, EnlaceEnPrev DEF h
<1>5. /\ e \in Listas /\ e.size = l.size /\ e.en_uso = l.en_uso /\ e.first = l.first
      /\ e.last = l.last /\ e.nodo = h
  BY <1>3 DEF Listas
<1> HIDE DEF e
<1>6. /\ m.size = l.size - 1 /\ m.first = l.first /\ m.last = l.last
      /\ m.en_uso = l.en_uso \ {n}
      /\ \A z \in Nodos \ {n} : m.nodo[z] = h[z]
      /\ m \in Listas
  <2>1. LET q == Achicar(e, n)
        IN  /\ q.size = e.size - 1 /\ q.first = e.first /\ q.last = e.last
            /\ q.en_uso = e.en_uso \ {n} /\ q.nodo = [e.nodo EXCEPT ![n] = Libre]
            /\ e.size # 0 => q \in Listas
    BY <1>1, <1>5, Liberado
  <2> QED BY <1>0, <1>3, <1>5, <2>1 DEF m
<1> HIDE DEF m
<1>7. Sacado(l, m, c, k)
  BY <1>0, <1>1, <1>4, <1>6 DEF Sacado, n, previo, siguiente
<1> QED BY <1>2, <1>7 DEF n

(***************************************************************************)
(* The elements of the list are a sequence, and each call changes it where *)
(* it says.                                                                *)
(***************************************************************************)
Elementos(l) == [k \in 1..l.size |-> Dato(l, Recorrido(l)[k])]

\* The elements are the data of the cadena.
LEMMA ElementosDeCadena ==
    ASSUME NULL \notin Nodos, NEW l \in Listas, NEW c, EsCadena(l, c)
    PROVE  /\ Elementos(l) = [k \in 1..l.size |-> l.nodo[c[k]].data]
           /\ Elementos(l) \in Seq(Datos \cup {NULL}) /\ Len(Elementos(l)) = l.size
<1>0. l.size \in Nat /\ c \in [1..l.size -> Nodos] /\ l.nodo \in [Nodos -> Nodo]
  BY DEF Listas, EsCadena
<1>1. Recorrido(l) = c
  BY RecorridoDeCadena
<1>2. \A k \in 1..l.size : c[k] # NULL
  BY <1>0
<1>3. Elementos(l) = [k \in 1..l.size |-> l.nodo[c[k]].data]
  BY <1>1, <1>2 DEF Elementos, Dato
<1>4. \A k \in 1..l.size : l.nodo[c[k]].data \in Datos \cup {NULL}
  BY <1>0 DEF Nodo
<1>5. Elementos(l) \in [1..l.size -> Datos \cup {NULL}]
  BY <1>3, <1>4
<1> QED BY <1>0, <1>3, <1>5

\* InsertAt and RemoveAt, position by position.
LEMMA InsertAtPorPosicion ==
    ASSUME NEW D, NEW q \in Seq(D), NEW k \in 1..Len(q) + 1, NEW d
    PROVE  S!InsertAt(q, k, d)
              = [i \in 1..Len(q) + 1 |-> IF i < k THEN q[i] ELSE IF i = k THEN d ELSE q[i - 1]]
<1> DEFINE E == D \cup {d}
           a == SubSeq(q, 1, k - 1)
           b == SubSeq(q, k, Len(q))
<1>0. Len(q) \in Nat /\ q \in Seq(E)
  OBVIOUS
<1>1. /\ a \in Seq(E) /\ Len(a) = k - 1 /\ \A i \in 1..k - 1 : a[i] = q[i]
  BY <1>0
<1>2. /\ b \in Seq(E) /\ Len(b) = Len(q) + 1 - k
      /\ \A i \in 1..Len(q) + 1 - k : b[i] = q[i + k - 1]
  BY <1>0
<1>3. <<d>> \in Seq(E) /\ Len(<<d>>) = 1 /\ <<d>>[1] = d
  OBVIOUS
<1> HIDE DEF a, b, E
<1>4. /\ a \o <<d>> \in Seq(E) /\ Len(a \o <<d>>) = k
      /\ \A i \in 1..k : (a \o <<d>>)[i] = IF i < k THEN q[i] ELSE d
  BY <1>0, <1>1, <1>3
<1> DEFINE ad == a \o <<d>>
           r == ad \o b
<1> HIDE DEF ad
<1>5. /\ r \in Seq(E) /\ Len(r) = Len(q) + 1
      /\ \A i \in 1..Len(q) + 1 : r[i] = IF i < k THEN q[i] ELSE IF i = k THEN d ELSE q[i - 1]
  <2>0. /\ ad \in Seq(E) /\ Len(ad) = k
        /\ \A i \in 1..k : ad[i] = IF i < k THEN q[i] ELSE d
    BY <1>4 DEF ad
  <2>1. r \in Seq(E) /\ Len(r) = Len(q) + 1
    <3>1. r \in Seq(E) /\ Len(r) = Len(ad) + Len(b)
      BY <1>2, <2>0, ConcatProperties
    <3> QED BY <1>0, <1>2, <2>0, <3>1
  <2>2. ASSUME NEW i \in 1..Len(q) + 1
        PROVE  r[i] = IF i < k THEN q[i] ELSE IF i = k THEN d ELSE q[i - 1]
    <3>1. CASE i <= k
      <4>1. i \in 1..Len(ad)
        BY <1>0, <2>0, <3>1
      <4>2. r[i] = ad[i]
        BY <1>2, <2>0, <4>1
      <4> QED BY <1>0, <2>0, <3>1, <4>1, <4>2
    <3>2. CASE i > k
      <4> DEFINE j == i - k
      <4>1. j \in 1..Len(b) /\ i = Len(ad) + j /\ j \in 1..Len(q) + 1 - k /\ j + k - 1 = i - 1
        BY <1>0, <1>2, <2>0, <3>2
      <4>2. b[j] = q[i - 1]
        BY <1>2, <4>1
      <4> HIDE DEF j
      <4>3. r[i] = b[j]
        <5>1. /\ i \in Int /\ j \in Int /\ Len(ad) \in Int
              /\ i \in 1..Len(ad) + Len(b) /\ ~ (i <= Len(ad))
          BY <1>0, <1>2, <2>0, <3>2, <4>1
        <5>2. i - Len(ad) = j
          BY <4>1, <5>1
        <5> QED BY <1>2, <2>0, <5>1, <5>2
      <4>4. ~ (i < k) /\ i # k
        BY <1>0, <3>2
      <4> QED BY <4>2, <4>3, <4>4
    <3>3. i \in Int /\ k \in Int
      BY <1>0
    <3> HIDE DEF r
    <3> QED BY <3>1, <3>2, <3>3
  <2> HIDE DEF r
  <2> QED BY <2>1, <2>2
<1>6. S!InsertAt(q, k, d) = r
  BY DEF S!InsertAt, a, b, ad
<1> HIDE DEF r
<1> QED BY <1>0, <1>5, <1>6

\* RemoveAt of the community modules, position by position.
LEMMA RemoveAtPorPosicion ==
    ASSUME NEW D, NEW q \in Seq(D), NEW k \in 1..Len(q)
    PROVE  S!RemoveAt(q, k) = [i \in 1..Len(q) - 1 |-> IF i < k THEN q[i] ELSE q[i + 1]]
<1> DEFINE a == SubSeq(q, 1, k - 1)
           b == SubSeq(q, k + 1, Len(q))
           r == a \o b
<1>0. Len(q) \in Nat
  OBVIOUS
<1>1. /\ a \in Seq(D) /\ Len(a) = k - 1 /\ \A i \in 1..k - 1 : a[i] = q[i]
  BY <1>0
<1>2. /\ b \in Seq(D) /\ Len(b) = Len(q) - k
      /\ \A i \in 1..Len(q) - k : b[i] = q[i + k]
  BY <1>0
<1>3. S!RemoveAt(q, k) = r
  BY DEF S!RemoveAt
<1> HIDE DEF a, b
<1>4. /\ r \in Seq(D) /\ Len(r) = Len(q) - 1
      /\ \A i \in 1..Len(q) - 1 : r[i] = IF i < k THEN q[i] ELSE q[i + 1]
  <2>1. r \in Seq(D) /\ Len(r) = Len(q) - 1
    <3>1. r \in Seq(D) /\ Len(r) = Len(a) + Len(b)
      BY <1>1, <1>2, ConcatProperties
    <3> QED BY <1>0, <1>1, <1>2, <3>1
  <2>2. ASSUME NEW i \in 1..Len(q) - 1 PROVE r[i] = IF i < k THEN q[i] ELSE q[i + 1]
    <3>1. CASE i < k
      <4>1. i \in 1..Len(a)
        BY <1>0, <1>1, <3>1
      <4>2. r[i] = a[i]
        BY <1>1, <1>2, <4>1
      <4> QED BY <1>0, <1>1, <3>1, <4>1, <4>2
    <3>2. CASE i >= k
      <4> DEFINE j == i - (k - 1)
      <4>1. j \in 1..Len(q) - k /\ j + k = i + 1 /\ i - Len(a) = j
        BY <1>0, <1>1, <3>2
      <4>2. b[j] = q[i + 1]
        BY <1>2, <4>1
      <4> HIDE DEF j
      <4>3. r[i] = b[j]
        <5>1. i \in 1..Len(a) + Len(b) /\ ~ (i <= Len(a))
          BY <1>0, <1>1, <1>2, <3>2
        <5> QED BY <1>1, <1>2, <4>1, <5>1
      <4>4. ~ (i < k)
        BY <1>0, <3>2
      <4> QED BY <4>2, <4>3, <4>4
    <3>3. i \in Int /\ k \in Int
      BY <1>0
    <3> HIDE DEF r
    <3> QED BY <3>1, <3>2, <3>3
  <2> HIDE DEF r
  <2> QED BY <2>1, <2>2
<1> HIDE DEF r
<1> QED BY <1>0, <1>3, <1>4

\* Putting a node in puts its datum where InsertAt does, taking one out does RemoveAt.
LEMMA ElementosPuestos ==
    ASSUME NULL \notin Nodos, NEW l \in Listas, NEW c, EsCadena(l, c),
           NEW n \in Nodos \ l.en_uso, NEW d \in Datos, NEW k \in 1..l.size + 1, NEW m,
           Agregado(l, m, c, k, n, d)
    PROVE  Elementos(m) = S!InsertAt(Elementos(l), k, d)
<1> DEFINE s == l.size
           p == Puesta(c, s, k, n)
           e == Elementos(l)
<1>0. /\ s \in Nat /\ c \in [1..s -> Nodos] /\ m \in Listas /\ m.size = s + 1
      /\ \A i \in 1..s : c[i] # n
  BY DEF Listas, EsCadena, Agregado
<1>1. EsCadena(m, p)
  BY CadenaPuesta
<1>2. Elementos(m) = [i \in 1..s + 1 |-> m.nodo[p[i]].data]
  BY <1>0, <1>1, ElementosDeCadena
<1>3. e = [i \in 1..s |-> l.nodo[c[i]].data]
  BY ElementosDeCadena
<1>6. e \in Seq(Datos \cup {NULL}) /\ Len(e) = s
  BY ElementosDeCadena
<1>4. S!InsertAt(e, k, d)
          = [i \in 1..s + 1 |-> IF i < k THEN e[i] ELSE IF i = k THEN d ELSE e[i - 1]]
  <2> HIDE DEF e
  <2>1. k \in 1..Len(e) + 1
    BY <1>6
  <2>2. S!InsertAt(e, k, d)
           = [i \in 1..Len(e) + 1 |-> IF i < k THEN e[i] ELSE IF i = k THEN d ELSE e[i - 1]]
    BY <1>6, <2>1, InsertAtPorPosicion, SMTT(30)
  <2> QED BY <1>6, <2>2
<1>5. ASSUME NEW i \in 1..s + 1
      PROVE  m.nodo[p[i]].data = IF i < k THEN e[i] ELSE IF i = k THEN d ELSE e[i - 1]
  <2>0. i \in Nat /\ k \in Nat
    BY <1>0
  <2>1. p[i] = IF i < k THEN c[i] ELSE IF i = k THEN n ELSE c[i - 1]
    BY DEF Puesta
  <2>2. \A x \in Nodos : x # n => m.nodo[x].data = l.nodo[x].data
    BY DEF Agregado
  <2>3. CASE i < k
    <3>1. i \in 1..s
      BY <1>0, <2>3
    <3>2. c[i] \in Nodos /\ c[i] # n
      BY <1>0, <3>1
    <3> QED BY <1>3, <2>1, <2>2, <2>3, <3>1, <3>2
  <2>4. CASE i = k
    BY <2>0, <2>1, <2>4 DEF Agregado
  <2>5. CASE i > k
    <3>1. i - 1 \in 1..s /\ ~ (i < k) /\ i # k
      BY <1>0, <2>5
    <3>2. c[i - 1] \in Nodos /\ c[i - 1] # n
      BY <1>0, <3>1
    <3> QED BY <1>3, <2>1, <2>2, <3>1, <3>2
  <2> QED BY <2>0, <2>3, <2>4, <2>5
<1> HIDE DEF p, e
<1> QED BY <1>2, <1>4, <1>5 DEF e

\* The elements after a node was taken out, and the one that is answered.
LEMMA ElementosSacados ==
    ASSUME NULL \notin Nodos, NEW l \in Listas, NEW c, EsCadena(l, c),
           NEW k \in 1..l.size, NEW m, Sacado(l, m, c, k)
    PROVE  /\ Elementos(m) = S!RemoveAt(Elementos(l), k)
           /\ Elementos(l)[k] = l.nodo[c[k]].data
<1> DEFINE s == l.size
           p == Quitada(c, s, k)
           e == Elementos(l)
<1>0. /\ s \in Nat /\ c \in [1..s -> Nodos] /\ m \in Listas /\ m.size = s - 1
      /\ \A i \in 1..s : i # k => c[i] # c[k]
  BY DEF Listas, EsCadena, Sacado
<1>1. EsCadena(m, p)
  BY CadenaQuitada
<1>2. Elementos(m) = [i \in 1..s - 1 |-> m.nodo[p[i]].data]
  BY <1>0, <1>1, ElementosDeCadena
<1>3. e = [i \in 1..s |-> l.nodo[c[i]].data]
  BY ElementosDeCadena
<1>6. e \in Seq(Datos \cup {NULL}) /\ Len(e) = s
  BY ElementosDeCadena
<1>4. S!RemoveAt(e, k) = [i \in 1..s - 1 |-> IF i < k THEN e[i] ELSE e[i + 1]]
  <2> HIDE DEF e
  <2>1. k \in 1..Len(e)
    BY <1>6
  <2>2. S!RemoveAt(e, k) = [i \in 1..Len(e) - 1 |-> IF i < k THEN e[i] ELSE e[i + 1]]
    BY <1>6, <2>1, RemoveAtPorPosicion
  <2> QED BY <1>6, <2>2
<1>5. ASSUME NEW i \in 1..s - 1
      PROVE  m.nodo[p[i]].data = IF i < k THEN e[i] ELSE e[i + 1]
  <2>0. i \in Nat /\ k \in Nat
    BY <1>0
  <2>1. p[i] = IF i < k THEN c[i] ELSE c[i + 1]
    BY DEF Quitada
  <2>2. \A x \in Nodos : x # c[k] => m.nodo[x].data = l.nodo[x].data
    BY DEF Sacado
  <2>3. CASE i < k
    <3>1. i \in 1..s /\ i # k
      BY <1>0, <2>3
    <3>2. c[i] \in Nodos /\ c[i] # c[k]
      BY <1>0, <3>1
    <3> QED BY <1>3, <2>1, <2>2, <2>3, <3>1, <3>2
  <2>4. CASE ~ (i < k)
    <3>1. i + 1 \in 1..s /\ i + 1 # k
      BY <1>0, <2>0, <2>4
    <3>2. c[i + 1] \in Nodos /\ c[i + 1] # c[k]
      BY <1>0, <3>1
    <3> QED BY <1>3, <2>1, <2>2, <2>4, <3>1, <3>2
  <2> QED BY <2>3, <2>4
<1>7. e[k] = l.nodo[c[k]].data
  BY <1>3
<1> HIDE DEF p, e
<1> QED BY <1>2, <1>4, <1>5, <1>7 DEF e

(***************************************************************************)
(* Each call keeps a cadena, and is a call of the sequence or changes      *)
(* nothing of it.                                                          *)
(***************************************************************************)

\* A call keeps the list linked and is a call of Secuencia.
Secuencial == Enlazada(lista') /\ [S!Next]_<<Contenido, retorno>>

\* What Secuencia sees of the list is its elements.
LEMMA ContenidoDeCadena ==
    ASSUME NULL \notin Nodos, Enlazada(lista)
    PROVE  Contenido = Elementos(lista) /\ Len(Contenido) = lista.size /\ lista.size \in Nat
BY ElementosDeCadena DEF Contenido, Elementos, Enlazada, Listas

\* A call that puts a node in ...
LEMMA PusoUno ==
    ASSUME NULL \notin Nodos, lista \in Listas, NEW c, EsCadena(lista, c),
           NEW n \in Nodos \ lista.en_uso, NEW d \in Datos, NEW k \in 1..lista.size + 1,
           NEW m, Agregado(lista, m, c, k, n, d), Poner(m)
    PROVE  Secuencial
<1>1. Enlazada(m)
  <2>1. EsCadena(m, Puesta(c, lista.size, k, n))
    BY CadenaPuesta
  <2> QED BY <2>1 DEF Enlazada, Agregado
<1>2. Contenido = Elementos(lista) /\ Len(Contenido) = lista.size /\ lista.size \in Nat
  BY ContenidoDeCadena DEF Enlazada
<1>3. lista' = m
  BY DEF Poner
<1>4. Contenido' = S!InsertAt(Contenido, k, d)
  <2>1. Contenido' = Elementos(lista')
    BY DEF Contenido, Elementos
  <2> QED BY <1>2, <1>3, <2>1, ElementosPuestos
<1>5. retorno' = 1
  <2>1. m.size > lista.size
    BY <1>2 DEF Agregado
  <2> QED BY <2>1 DEF Poner
<1>6. S!Agregar(k, d)
  BY <1>4, <1>5 DEF S!Agregar
<1> QED BY <1>1, <1>2, <1>3, <1>6 DEF Secuencial, S!Next

\* ... one that puts none in, whether or not it left a node that no one will free ...
LEMMA NoPusoNada ==
    ASSUME NULL \notin Nodos, lista \in Listas, NEW c, EsCadena(lista, c),
           NEW m \in Listas, EsCadena(m, c), m.size = lista.size,
           \A i \in 1..lista.size : m.nodo[c[i]].data = lista.nodo[c[i]].data, Poner(m)
    PROVE  Secuencial
<1>1. Enlazada(m) /\ lista' = m
  BY DEF Enlazada, Poner
<1>2. Contenido' = Contenido
  <2>1. Elementos(m) = Elementos(lista)
    BY ElementosDeCadena
  <2> QED BY <1>1, <2>1 DEF Contenido, Elementos
<1>3. retorno' = 0
  BY DEF Poner, Listas
<1> QED BY <1>1, <1>2, <1>3 DEF Secuencial, S!Next, S!NoAgregar

\* ... and one that takes a node out.
LEMMA SacoUno ==
    ASSUME NULL \notin Nodos, lista \in Listas, NEW c, EsCadena(lista, c),
           NEW k \in 1..lista.size, NEW m, Sacado(lista, m, c, k), Sacar(c[k], m)
    PROVE  Secuencial
<1>1. Enlazada(m)
  BY CadenaQuitada DEF Enlazada, Sacado
<1>2. Contenido = Elementos(lista) /\ Len(Contenido) = lista.size /\ lista.size \in Nat
  BY ContenidoDeCadena DEF Enlazada
<1>3. lista' = m
  BY DEF Sacar
<1>4. Contenido' = S!RemoveAt(Contenido, k)
  <2>1. Contenido' = Elementos(lista')
    BY DEF Contenido, Elementos
  <2> QED BY <1>2, <1>3, <2>1, ElementosSacados
<1>5. retorno' = Contenido[k]
  <2>1. m.size < lista.size
    BY <1>2 DEF Sacado
  <2>2. c[k] # NULL
    BY DEF EsCadena
  <2>3. Elementos(lista)[k] = lista.nodo[c[k]].data
    BY ElementosSacados
  <2> QED BY <1>2, <2>1, <2>2, <2>3 DEF Sacar, Dato
<1>6. S!Quitar(k)
  BY <1>4, <1>5 DEF S!Quitar
<1> QED BY <1>1, <1>2, <1>3, <1>6 DEF Secuencial, S!Next

\* push at one of the ends.
LEMMA PushEndsSecuencial ==
    ASSUME NULL \notin Nodos, Enlazada(lista), PushEnds
    PROVE  Secuencial
<1>0. lista \in Listas /\ lista.size \in Nat
  BY DEF Enlazada, Listas
<1>1. PICK c : EsCadena(lista, c)
  BY DEF Enlazada
<1>2. PICK n \in Nodos \ lista.en_uso, d \in Datos :
         \/ Poner(pushfrontlist(createnode(lista, n, d), n))
         \/ Poner(pushbacklist(createnode(lista, n, d), n))
  BY DEF PushEnds
<1>3. CASE Poner(pushfrontlist(createnode(lista, n, d), n))
  <2>1. 1 \in 1..lista.size + 1
    BY <1>0
  <2> QED BY <1>0, <1>1, <1>3, <2>1, AlPrincipio, PusoUno
<1>4. CASE Poner(pushbacklist(createnode(lista, n, d), n))
  <2>1. lista.size + 1 \in 1..lista.size + 1
    BY <1>0
  <2> QED BY <1>0, <1>1, <1>4, <2>1, AlFinal, PusoUno
<1> QED BY <1>2, <1>3, <1>4

\* push by an index.
LEMMA PushAtSecuencial ==
    ASSUME NULL \notin Nodos, Enlazada(lista), PushAt
    PROVE  Secuencial
<1>0. lista \in Listas /\ lista.size \in Nat
  BY DEF Enlazada, Listas
<1>1. PICK c : EsCadena(lista, c)
  BY DEF Enlazada
<1>2. PICK n \in Nodos \ lista.en_uso, d \in Datos, index \in 0..lista.size + 1 :
         Poner(pushatlist(lista, index, n, d))
  BY DEF PushAt
<1>3. CASE index = 0
  <2>1. Poner(pushfrontlist(createnode(lista, n, d), n))
    BY <1>2, <1>3 DEF pushatlist
  <2>2. 1 \in 1..lista.size + 1
    BY <1>0
  <2> QED BY <1>0, <1>1, <2>1, <2>2, AlPrincipio, PusoUno
<1>4. CASE index # 0 /\ index = lista.size
  <2>1. Poner(pushbacklist(createnode(lista, n, d), n))
    BY <1>2, <1>4 DEF pushatlist
  <2>2. lista.size + 1 \in 1..lista.size + 1
    BY <1>0
  <2> QED BY <1>0, <1>1, <2>1, <2>2, AlFinal, PusoUno
<1>5. CASE index # 0 /\ index < lista.size
  <2> DEFINE k == index + 1
  <2>1. k \in 2..lista.size /\ k \in 1..lista.size + 1 /\ index # lista.size
    BY <1>0, <1>5
  <2>2. Poner(EnlazarAntes(createnode(lista, n, d), n, c[k]))
    BY <1>0, <1>1, <1>2, <1>5, <2>1, RecorridoDeCadena DEF pushatlist
  <2> HIDE DEF k
  <2> QED BY <1>0, <1>1, <2>1, <2>2, AntesDeOtro, PusoUno
<1>6. CASE index > lista.size
  <2>1. Poner(lista)
    BY <1>0, <1>2, <1>6 DEF pushatlist
  <2> QED BY <1>0, <1>1, <2>1, NoPusoNada
<1> QED BY <1>0, <1>3, <1>4, <1>5, <1>6

\* A node created for an iterator that is not in the list stays out of it.
LEMMA PushIterSecuencial ==
    ASSUME NULL \notin Nodos, Enlazada(lista), PushIter
    PROVE  Secuencial
<1>0. lista \in Listas /\ lista.size \in Nat /\ lista.size # 0
  BY DEF Enlazada, Listas, PushIter, isemptylist
<1>1. PICK c : EsCadena(lista, c)
  BY DEF Enlazada
<1>2. PICK n \in Nodos \ lista.en_uso, d \in Datos, iter \in Nodos \cup {NULL} :
         Poner(pushiterlist(lista, iter, n, d))
  BY DEF PushIter
<1>3. CASE iter = NULL
  <2>1. Poner(lista)
    BY <1>2, <1>3 DEF pushiterlist
  <2> QED BY <1>0, <1>1, <2>1, NoPusoNada
<1>4. CASE iter # NULL /\ iter = lista.first
  <2>1. Poner(pushfrontlist(createnode(lista, n, d), n))
    BY <1>2, <1>4 DEF pushiterlist
  <2>2. 1 \in 1..lista.size + 1
    BY <1>0
  <2> QED BY <1>0, <1>1, <2>1, <2>2, AlPrincipio, PusoUno
<1>5. CASE iter # NULL /\ iter # lista.first /\ EnLista(lista, iter)
  <2>1. PICK k \in 1..lista.size : c[k] = iter
    BY <1>0, <1>1, <1>5, RecorridoDeCadena DEF EnLista
  <2>2. k # 1
    BY <1>0, <1>1, <1>5, <2>1 DEF EsCadena
  <2>3. k \in 2..lista.size /\ k \in 1..lista.size + 1
    BY <1>0, <2>2
  <2>4. Poner(EnlazarAntes(createnode(lista, n, d), n, c[k]))
    BY <1>2, <1>5, <2>1 DEF pushiterlist
  <2> QED BY <1>0, <1>1, <2>3, <2>4, AntesDeOtro, PusoUno
<1>6. CASE iter # NULL /\ iter # lista.first /\ ~ EnLista(lista, iter)
  <2> DEFINE m == createnode(lista, n, d)
  <2>1. Poner(m)
    BY <1>2, <1>6 DEF pushiterlist
  <2>2. /\ m \in Listas /\ m.size = lista.size /\ m.first = lista.first /\ m.last = lista.last
        /\ m.en_uso = lista.en_uso \cup {n}
        /\ m.nodo = [lista.nodo EXCEPT ![n] = [prev |-> NULL, next |-> NULL, data |-> d]]
    BY <1>0, Creado
  <2> HIDE DEF m
  <2>3. \A i \in 1..lista.size : c[i] \in Nodos /\ c[i] # n
    BY <1>1 DEF EsCadena
  <2>4. \A i \in 1..lista.size : m.nodo[c[i]] = lista.nodo[c[i]]
    BY <1>0, <2>2, <2>3 DEF Listas
  <2>5. EsCadena(m, c)
    BY <1>1, <2>2, <2>4 DEF EsCadena
  <2> QED BY <1>0, <1>1, <2>1, <2>2, <2>4, <2>5, NoPusoNada
<1> QED BY <1>3, <1>4, <1>5, <1>6

\* A push that is refused, with or without the node it asked for.
LEMMA PushFailsSecuencial ==
    ASSUME NULL \notin Nodos, Enlazada(lista), PushFails
    PROVE  Secuencial
<1>1. PICK c : EsCadena(lista, c)
  BY DEF Enlazada
<1>2. lista \in Listas /\ Poner(lista)
  BY DEF Enlazada, PushFails
<1> QED BY <1>1, <1>2, NoPusoNada

\* A stale iterator or a bad position takes nothing out, and is told so.
LEMMA NoSacoNada ==
    ASSUME NULL \notin Nodos, Enlazada(lista), NEW n, Sacar(n, lista)
    PROVE  Secuencial
<1>1. lista' = lista /\ retorno' = NULL
  BY DEF Sacar, Enlazada, Listas
<1>2. Contenido' = Contenido
  BY <1>1 DEF Contenido
<1> QED BY <1>1, <1>2 DEF Secuencial, S!Next, S!NoQuitar

\* The node at a position of the list, first and last among them.
LEMMA NodoEnPosicion ==
    ASSUME NULL \notin Nodos, NEW l \in Listas, NEW c, EsCadena(l, c),
           NEW index \in Nat, index < l.size
    PROVE  /\ index + 1 \in 1..l.size
           /\ atlist(l, index) = c[index + 1]
<1>1. l.size \in Nat
  BY DEF Listas
<1>2. Recorrido(l) = c
  BY RecorridoDeCadena
<1> QED BY <1>1, <1>2 DEF atlist, EsCadena

\* pop by an index.
LEMMA PopAtSecuencial ==
    ASSUME NULL \notin Nodos, Enlazada(lista), PopAt
    PROVE  Secuencial
<1>0. lista \in Listas /\ lista.size \in Nat
  BY DEF Enlazada, Listas
<1>1. PICK c : EsCadena(lista, c)
  BY DEF Enlazada
<1>2. PICK index \in 0..lista.size + 1 :
         Sacar(atlist(lista, index), popatlist(lista, index))
  BY DEF PopAt
<1>3. CASE index >= lista.size
  <2>1. popatlist(lista, index) = lista
    BY <1>3 DEF popatlist
  <2> QED BY <1>2, <2>1, NoSacoNada
<1>4. CASE index < lista.size
  <2> DEFINE k == index + 1
  <2>1. k \in 1..lista.size /\ lista.size # 0 /\ ~(index >= lista.size)
    BY <1>0, <1>4
  <2>2. Sacar(c[k], popatlist(lista, index))
    BY <1>0, <1>1, <1>2, <1>4, NodoEnPosicion
  <2>3. Sacado(lista, popatlist(lista, index), c, k)
    <3>1. CASE index = 0
      BY <1>0, <1>1, <2>1, <3>1, DelPrincipio DEF popatlist
    <3>2. CASE index # 0 /\ index = lista.size - 1
      <4>1. k = lista.size
        BY <1>0, <3>2
      <4>2. Sacado(lista, popbacklist(lista), c, lista.size)
        BY <1>0, <1>1, <2>1, DelFinal
      <4> QED BY <2>1, <3>2, <4>1, <4>2 DEF popatlist
    <3>3. CASE index # 0 /\ index # lista.size - 1
      <4>1. k \in 2..lista.size - 1
        BY <1>0, <1>4, <3>3
      <4>2. popatlist(lista, index) = Desenlazar(lista, c[k])
        BY <1>0, <1>1, <2>1, <3>3, RecorridoDeCadena DEF popatlist
      <4> HIDE DEF k
      <4> QED BY <1>0, <1>1, <4>1, <4>2, DelMedio
    <3> QED BY <3>1, <3>2, <3>3
  <2> HIDE DEF k
  <2> QED BY <1>0, <1>1, <2>1, <2>2, <2>3, SacoUno
<1> QED BY <1>0, <1>3, <1>4

\* pop by an iterator.
LEMMA PopIterSecuencial ==
    ASSUME NULL \notin Nodos, Enlazada(lista), PopIter
    PROVE  Secuencial
<1>1. PICK c : EsCadena(lista, c)
  BY DEF Enlazada
<1>2. PICK iter \in Nodos \cup {NULL} : Sacar(iter, popiterlist(lista, iter))
  BY DEF PopIter
<1>8. CASE isemptylist(lista) \/ iter = NULL
  BY <1>2, <1>8, NoSacoNada DEF popiterlist
<1> SUFFICES ASSUME ~ isemptylist(lista), iter # NULL
             PROVE  Secuencial
  BY <1>8
<1>0. lista \in Listas /\ lista.size \in Nat /\ lista.size # 0
  BY DEF Enlazada, Listas, isemptylist
<1>3. /\ lista.first = c[1] /\ lista.last = c[lista.size]
      /\ 1 \in 1..lista.size /\ lista.size \in 1..lista.size
  BY <1>0, <1>1 DEF EsCadena
<1>4. CASE iter = lista.first
  <2>1. Sacado(lista, popfrontlist(lista), c, 1)
    BY <1>0, <1>1, DelPrincipio
  <2>2. Sacar(c[1], popfrontlist(lista))
    BY <1>2, <1>3, <1>4 DEF popiterlist
  <2> QED BY <1>0, <1>1, <1>3, <2>1, <2>2, SacoUno
<1>5. CASE iter # lista.first /\ iter = lista.last
  <2>1. Sacado(lista, popbacklist(lista), c, lista.size)
    BY <1>0, <1>1, DelFinal
  <2>2. Sacar(c[lista.size], popbacklist(lista))
    BY <1>2, <1>3, <1>5 DEF popiterlist
  <2> QED BY <1>0, <1>1, <1>3, <2>1, <2>2, SacoUno
<1>6. CASE iter # lista.first /\ iter # lista.last /\ EnLista(lista, iter)
  <2>1. PICK k \in 1..lista.size : c[k] = iter
    BY <1>0, <1>1, <1>6, RecorridoDeCadena DEF EnLista
  <2>2. k # 1 /\ k # lista.size
    BY <1>3, <1>6, <2>1
  <2>3. k \in 2..lista.size - 1
    BY <1>0, <2>2
  <2>4. Sacar(c[k], Desenlazar(lista, c[k]))
    BY <1>2, <1>6, <2>1 DEF popiterlist
  <2>5. Sacado(lista, Desenlazar(lista, c[k]), c, k)
    BY <1>0, <1>1, <2>3, DelMedio
  <2> QED BY <1>0, <1>1, <2>4, <2>5, SacoUno
<1>7. CASE iter # lista.first /\ iter # lista.last /\ ~ EnLista(lista, iter)
  BY <1>2, <1>7, NoSacoNada DEF popiterlist
<1> QED BY <1>4, <1>5, <1>6, <1>7

\* A pop that finds nothing.
LEMMA PopFailsSecuencial ==
    ASSUME NULL \notin Nodos, Enlazada(lista), PopFails
    PROVE  Secuencial
BY NoSacoNada DEF PopFails

\* A look at an element, or at a position that has none.
LEMMA AtListSecuencial ==
    ASSUME NULL \notin Nodos, Enlazada(lista), AtList
    PROVE  Secuencial
<1>0. lista \in Listas /\ lista.size \in Nat
  BY DEF Enlazada, Listas
<1>1. PICK c : EsCadena(lista, c)
  BY DEF Enlazada
<1>2. PICK index \in 0..lista.size + 1 : Leer(atlist(lista, index))
  BY DEF AtList
<1>3. lista' = lista /\ Contenido' = Contenido
  BY <1>2 DEF Leer, Contenido
<1>4. CASE index >= lista.size
  <2>1. retorno' = NULL
    BY <1>2, <1>4 DEF Leer, atlist, Dato
  <2> QED BY <1>3, <2>1 DEF Secuencial, S!Next, S!NoQuitar
<1>5. CASE index < lista.size
  <2> DEFINE k == index + 1
  <2>1. k \in 1..lista.size /\ atlist(lista, index) = c[k]
    BY <1>0, <1>1, <1>5, NodoEnPosicion
  <2>2. retorno' = Dato(lista, c[k])
    BY <1>2, <2>1 DEF Leer
  <2>3. Contenido[k] = Dato(lista, c[k])
    <3>1. Recorrido(lista) = c
      BY <1>0, <1>1, RecorridoDeCadena
    <3> QED BY <2>1, <3>1 DEF Contenido
  <2>4. k \in 1..Len(Contenido)
    <3>1. Len(Contenido) = lista.size
      BY ContenidoDeCadena
    <3> QED BY <2>1, <3>1
  <2> HIDE DEF k
  <2>5. S!Ver(k)
    BY <1>3, <2>2, <2>3 DEF S!Ver
  <2> QED BY <1>3, <2>4, <2>5 DEF Secuencial, S!Next
<1> QED BY <1>0, <1>4, <1>5

(***************************************************************************)
(* emptylist takes the first node out, size times.                         *)
(***************************************************************************)

\* The lists after each of the first j pops of emptylist.
EsVaciado(l, j, g) == g = [k \in 0..j |-> IF k = 0 THEN l ELSE popfrontlist(g[k - 1])]

\* They exist, which the recursive function of EmptyList does not say by itself.
LEMMA VaciadoExiste ==
    ASSUME NEW l, NEW s \in Nat
    PROVE  \E g : EsVaciado(l, s, g)
<1> DEFINE T == {j \in Nat : ~ \E g : EsVaciado(l, j, g)}
<1>1. T = {}
  <2> SUFFICES ASSUME T # {} PROVE FALSE
    OBVIOUS
  <2>1. T \in SUBSET Nat
    OBVIOUS
  <2> HIDE DEF T
  <2>2. PICK j \in T : \A y \in T : j <= y
    BY <2>1, Menor
  <2> USE DEF T
  <2>3. j \in Nat /\ ~ \E g : EsVaciado(l, j, g)
    BY <2>2
  <2>4. j # 0
    <3>1. EsVaciado(l, 0, [k \in 0..0 |-> l])
      BY DEF EsVaciado
    <3> QED BY <2>3, <3>1
  <2>5. j - 1 \in Nat /\ j - 1 \notin T
    BY <2>2, <2>3, <2>4
  <2>6. PICK g : EsVaciado(l, j - 1, g)
    BY <2>5
  <2> DEFINE h == [k \in 0..j |-> IF k = j THEN popfrontlist(g[j - 1]) ELSE g[k]]
  <2>7. EsVaciado(l, j, h)
    <3> SUFFICES ASSUME NEW k \in 0..j
                 PROVE  h[k] = IF k = 0 THEN l ELSE popfrontlist(h[k - 1])
      BY DEF EsVaciado
    <3>1. k # 0 => k - 1 \in 0..j - 1 /\ k - 1 \in 0..j /\ k - 1 # j
      BY <2>3, <2>4
    <3>2. k # 0 => h[k - 1] = g[k - 1]
      BY <3>1
    <3>3. CASE k = j
      BY <2>4, <3>2, <3>3
    <3>4. CASE k # j
      <4>1. k \in 0..j - 1 /\ h[k] = g[k]
        BY <2>3, <2>4, <3>4
      <4>2. g[k] = IF k = 0 THEN l ELSE popfrontlist(g[k - 1])
        BY <2>6, <4>1 DEF EsVaciado
      <4> HIDE DEF h
      <4> QED BY <3>2, <4>1, <4>2
    <3> QED BY <3>3, <3>4
  <2> QED BY <2>3, <2>7
<1> QED BY <1>1

\* After k turns k nodes fewer are in the list, still a list.
LEMMA VaciadoEnlazado ==
    ASSUME NULL \notin Nodos, NEW l, Enlazada(l), NEW g, EsVaciado(l, l.size, g)
    PROVE  \A k \in 0..l.size : Enlazada(g[k]) /\ g[k].size = l.size - k
<1> DEFINE s == l.size
           T == {k \in 0..s : ~ (Enlazada(g[k]) /\ g[k].size = s - k)}
<1>0. s \in Nat
  BY DEF Enlazada, Listas
<1>1. \A k \in 0..s : g[k] = IF k = 0 THEN l ELSE popfrontlist(g[k - 1])
  BY DEF EsVaciado
<1>2. T = {}
  <2> SUFFICES ASSUME T # {} PROVE FALSE
    OBVIOUS
  <2>1. T \in SUBSET Nat
    BY <1>0
  <2> HIDE DEF T
  <2>2. PICK k \in T : \A y \in T : k <= y
    BY <2>1, Menor
  <2> USE DEF T
  <2>3. k \in 0..s /\ k \in Nat
    BY <1>0, <2>2
  <2>4. k # 0
    BY <1>0, <1>1, <2>2, <2>3
  <2>5. k - 1 \in 0..s /\ k - 1 \notin T
    BY <1>0, <2>2, <2>3, <2>4
  <2>6. Enlazada(g[k - 1]) /\ g[k - 1].size = s - (k - 1)
    BY <2>5
  <2> DEFINE m == g[k - 1]
             q == popfrontlist(m)
  <2>7. g[k] = q
    BY <1>1, <2>3, <2>4
  <2>8. m.size # 0 /\ 1 \in 1..m.size
    BY <1>0, <2>3, <2>6
  <2> HIDE DEF m, q
  <2>9. Enlazada(m) /\ m \in Listas /\ m.size = s - (k - 1)
    BY <2>6 DEF m, Enlazada
  <2>10. PICK c : EsCadena(m, c)
    BY <2>9 DEF Enlazada
  <2>11. Sacado(m, q, c, 1)
    BY <2>8, <2>9, <2>10, DelPrincipio DEF q
  <2>12. EsCadena(q, Quitada(c, m.size, 1))
    BY <2>8, <2>9, <2>10, <2>11, CadenaQuitada
  <2>13. Enlazada(q) /\ q.size = m.size - 1
    BY <2>11, <2>12 DEF Enlazada, Sacado
  <2>14. q.size = s - k
    BY <1>0, <2>3, <2>9, <2>13
  <2> QED BY <2>2, <2>7, <2>13, <2>14
<1> QED BY <1>2

\* The list is emptied.
LEMMA EmptyListSecuencial ==
    ASSUME NULL \notin Nodos, Enlazada(lista), EmptyList
    PROVE  Secuencial
<1> DEFINE s == lista.size
           r == CHOOSE g : g = [k \in 0..s |-> IF k = 0 THEN lista ELSE popfrontlist(g[k - 1])]
<1>0. s \in Nat
  BY DEF Enlazada, Listas
<1>1. lista' = r[s] /\ retorno' = NULL
  BY DEF EmptyList
<1>2. EsVaciado(lista, s, r)
  <2>1. \E g : g = [k \in 0..s |-> IF k = 0 THEN lista ELSE popfrontlist(g[k - 1])]
    BY <1>0, VaciadoExiste DEF EsVaciado
  <2> QED BY <2>1 DEF EsVaciado
<1> HIDE DEF r
<1>3. Enlazada(lista') /\ lista'.size = 0
  <2>1. s \in 0..s
    BY <1>0
  <2>2. Enlazada(r[s]) /\ r[s].size = s - s
    BY <1>2, <2>1, VaciadoEnlazado
  <2> QED BY <1>0, <1>1, <2>2
<1>4. Contenido' = <<>>
  <2>1. Contenido' = [k \in 1..0 |-> Dato(lista', Recorrido(lista')[k])]
    BY <1>3 DEF Contenido
  <2> QED BY <2>1
<1> QED BY <1>1, <1>3, <1>4 DEF Secuencial, S!Next, S!Vaciar

(***************************************************************************)
(* The theorems.                                                           *)
(***************************************************************************)
LEMMA ListaInvInicial == NULL \notin Nodos /\ InitLista => ListaInv /\ S!Init
<1> SUFFICES ASSUME NULL \notin Nodos, InitLista
             PROVE  ListaInv /\ S!Init
  OBVIOUS
<1>1. lista = initlist /\ retorno = NULL
  BY DEF InitLista
<1>2. initlist \in Listas
  BY DEF initlist, Libre, Listas, Nodo, Enlaces
<1>3. EsCadena(initlist, <<>>)
  BY DEF EsCadena, initlist
<1>4. Contenido = <<>>
  <2>1. Contenido = [k \in 1..0 |-> Dato(lista, Recorrido(lista)[k])]
    BY <1>1 DEF Contenido, initlist
  <2> QED BY <2>1
<1> QED BY <1>1, <1>2, <1>3, <1>4 DEF ListaInv, Enlazada, S!Init

\* The invariant is inductive, and each call is one of Secuencia or changes nothing.
LEMMA ListaPaso ==
    ListaInv /\ [NextLista]_varsLista => ListaInv' /\ [S!Next]_<<Contenido, retorno>>
<1> SUFFICES ASSUME ListaInv, [NextLista]_varsLista
             PROVE  Secuencial
  BY DEF ListaInv, Secuencial
<1>0. NULL \notin Nodos /\ Enlazada(lista)
  BY DEF ListaInv
<1>1. CASE PushEnds
  BY <1>0, <1>1, PushEndsSecuencial
<1>2. CASE PushAt
  BY <1>0, <1>2, PushAtSecuencial
<1>3. CASE PushIter
  BY <1>0, <1>3, PushIterSecuencial
<1>4. CASE PushFails
  BY <1>0, <1>4, PushFailsSecuencial
<1>5. CASE PopAt
  BY <1>0, <1>5, PopAtSecuencial
<1>6. CASE PopIter
  BY <1>0, <1>6, PopIterSecuencial
<1>7. CASE PopFails
  BY <1>0, <1>7, PopFailsSecuencial
<1>8. CASE EmptyList
  BY <1>0, <1>8, EmptyListSecuencial
<1>9. CASE AtList
  BY <1>0, <1>9, AtListSecuencial
<1>10. CASE UNCHANGED varsLista
  <2>1. lista' = lista /\ retorno' = retorno
    BY <1>10 DEF varsLista
  <2>2. Contenido' = Contenido
    BY <2>1 DEF Contenido
  <2> QED BY <1>0, <2>1, <2>2 DEF Secuencial
<1> QED BY <1>1, <1>2, <1>3, <1>4, <1>5, <1>6, <1>7, <1>8, <1>9, <1>10 DEF NextLista

\* For any heap and any data, the prev links tell the list the other way round and the
\* ends have no neighbour, after any calls.
THEOREM ListaIgualAlReves == SpecLista => []MismaAlReves
<1>1. InitLista => ListaInv
  BY ListaInvInicial, NodosAssumption
<1>2. ListaInv /\ [NextLista]_varsLista => ListaInv'
  BY ListaPaso
<1>3. ListaInv => MismaAlReves
  BY CadenaAlReves
<1> QED BY <1>1, <1>2, <1>3, PTL DEF SpecLista

\* For any heap and any data the list is a sequence: each call puts in or takes out one element
\* where it says, and answers what it did.
THEOREM ListaEsUnaSecuencia == SpecLista => EsUnaSecuencia
<1>1. InitLista => ListaInv /\ S!Init
  BY ListaInvInicial, NodosAssumption
<1>2. ListaInv /\ [NextLista]_varsLista => ListaInv' /\ [S!Next]_<<Contenido, retorno>>
  BY ListaPaso
<1> QED BY <1>1, <1>2, PTL DEF SpecLista, EsUnaSecuencia, S!Spec

=============================================================================
