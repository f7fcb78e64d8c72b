--------------------------- MODULE EspacioLogico ---------------------------
(***************************************************************************)
(* What the memory promises the programs: each process has its own pages,  *)
(* that hold Cero when it starts and then what was last written to them,   *)
(* whether the process is in memory or suspended, until it ends.           *)
(***************************************************************************)
CONSTANTS Procesos, Paginas, Datos, Cero, NADIE

VARIABLES
    vivos,      \* the processes that started and did not end
    espacio,    \* the datum of each page of each process
    ultimo      \* the read or write just made: the process, the page, the datum

vars == <<vivos, espacio, ultimo>>

SinAcceso == [proceso |-> NADIE]

PaginasEnCero == [g \in Paginas |-> Cero]

Init ==
    /\ vivos = {}
    /\ espacio = [p \in Procesos |-> PaginasEnCero]
    /\ ultimo = SinAcceso

Iniciar(p) ==
    /\ p \notin vivos
    /\ vivos' = vivos \cup {p}
    /\ ultimo' = SinAcceso /\ UNCHANGED espacio

Escribir(p, g, d) ==
    /\ p \in vivos
    /\ ultimo' = [proceso |-> p, pagina |-> g, escrito |-> d]
    /\ espacio' = [espacio EXCEPT ![p][g] = d]
    /\ UNCHANGED vivos

Leer(p, g) ==
    /\ p \in vivos
    /\ ultimo' = [proceso |-> p, pagina |-> g, leido |-> espacio[p][g]]
    /\ UNCHANGED <<vivos, espacio>>

Terminar(p) ==
    /\ p \in vivos
    /\ vivos' = vivos \ {p}
    /\ espacio' = [espacio EXCEPT ![p] = PaginasEnCero]
    /\ ultimo' = SinAcceso

\* Anything else the programs do not see.
Olvidar == ultimo' = SinAcceso /\ UNCHANGED <<vivos, espacio>>

Next == Olvidar \/ \E p \in Procesos :
            \/ Iniciar(p) \/ Terminar(p)
            \/ \E g \in Paginas : Leer(p, g) \/ \E d \in Datos : Escribir(p, g, d)

Spec == Init /\ [][Next]_vars

=============================================================================
