------------------------------- MODULE Memoria -------------------------------
(***************************************************************************)
(* The memory server with its two clients (memoriaswap/src/memoriaswap.c,  *)
(* handle_kernel and handle_cpu): the kernel starts, suspends and finishes *)
(* processes (kernel/src/imemory.c), and the CPU runs one of them, whose   *)
(* addresses its MMU translates to frames with the help of a TLB           *)
(* (cpu/src/mmu.c, cpu/src/cicloInstruccion.c).                            *)
(*                                                                         *)
(* sem_request makes a request of a client one step. The CPU makes two of  *)
(* them for an access, one to get the frame and one to use it, and the     *)
(* requests of the kernel come in between.                                 *)
(***************************************************************************)
EXTENDS Tablas, Tlb

CONSTANT Grado      \* GRADO_MULTIPROGRAMACION of the kernel

\* What the shipped configurations give: frames for every process of the degree.
ASSUME MemoriaAssumption == Grado \in Nat \ {0} /\ Grado * Marcos <= NumMarcos

VARIABLES
    mem,        \* the tables, frames and swap files of module Tablas
    estado,     \* where the kernel has each process
    cpu,        \* the process the CPU runs, its TLB, and the access under way
    ultimo      \* the read or write the CPU has just made: of which page, which datum

vars == <<mem, estado, cpu, ultimo>>

Estados == {"nuevo", "en_memoria", "suspendido", "saliendo", "finalizado"}

Ocioso == [proceso |-> NADIE, tlb |-> <<>>, pc |-> "desalojado"]

SinAcceso == [proceso |-> NADIE]

\* The access of an instruction: what it does, to which page, and the page a COPY
\* still has to write to.
Accesos ==
    [tipo : {"READ"}, pagina : Paginas]
    \cup [tipo : {"WRITE"}, pagina : Paginas, dato : Datos]
    \cup [tipo : {"COPY"}, pagina : Paginas, destino : Paginas]

Init ==
    /\ mem = MemoriaInicial
    /\ estado = [p \in Procesos |-> "nuevo"]
    /\ cpu = Ocioso
    /\ ultimo = SinAcceso

(***************************************************************************)
(* The kernel. The long-term planner takes a level of the multiprogramming *)
(* degree for a process before it asks for its tables or puts it back in   *)
(* READY. A suspended process gives its level back once the memory server  *)
(* answered; one that ends gives it back first, in move_pcb_to_exit, and   *)
(* ltp_exit_controller asks to free its memory some time later.            *)
(***************************************************************************)
EnMemoria == {p \in Procesos : estado[p] = "en_memoria"}

HayNivel == Cardinality(EnMemoria) < Grado

MC_NUEVO_PROCESO(p) ==
    /\ estado[p] = "nuevo" /\ HayNivel
    /\ mem' = iniciar_nuevo_proceso(mem, p)
    /\ estado' = [estado EXCEPT ![p] = "en_memoria"]
    /\ ultimo' = SinAcceso /\ UNCHANGED cpu

MC_SUSPENDER_PROCESO(p) ==
    /\ estado[p] = "en_memoria" /\ cpu.proceso # p
    /\ mem' = suspender_proceso(mem, p)
    /\ estado' = [estado EXCEPT ![p] = "suspendido"]
    /\ ultimo' = SinAcceso /\ UNCHANGED cpu

\* SUSPENDED_READY to READY: the memory server is not told.
Readmitir(p) ==
    /\ estado[p] = "suspendido" /\ HayNivel
    /\ estado' = [estado EXCEPT ![p] = "en_memoria"]
    /\ ultimo' = SinAcceso /\ UNCHANGED <<mem, cpu>>

\* move_pcb_to_exit of a process that left the CPU.
Salir(p) ==
    /\ estado[p] = "en_memoria" /\ cpu.proceso # p
    /\ estado' = [estado EXCEPT ![p] = "saliendo"]
    /\ ultimo' = SinAcceso /\ UNCHANGED <<mem, cpu>>

MC_FINALIZAR_PROCESO(p) ==
    /\ estado[p] = "saliendo"
    /\ mem' = finalizar_proceso(mem, p)
    /\ estado' = [estado EXCEPT ![p] = "finalizado"]
    /\ ultimo' = SinAcceso /\ UNCHANGED cpu

Kernel == \E p \in Procesos :
              \/ MC_NUEVO_PROCESO(p) \/ MC_SUSPENDER_PROCESO(p)
              \/ Readmitir(p) \/ Salir(p) \/ MC_FINALIZAR_PROCESO(p)

(***************************************************************************)
(* The CPU.                                                                *)
(***************************************************************************)
\* Slip: the TLB keeps the entries of the process that ran before.
DespacharSinLimpiar(p) ==
    /\ cpu.pc = "desalojado" /\ estado[p] = "en_memoria"
    /\ cpu' = [proceso |-> p, tlb |-> cpu.tlb, pc |-> "fetch"]
    /\ ultimo' = SinAcceso /\ UNCHANGED <<mem, estado>>

\* The CPU gets a pcb: ejecutar_pcb starts with limpiar_tlb.
Despachar(p) ==
    /\ cpu.pc = "desalojado" /\ estado[p] = "en_memoria"
    /\ cpu' = [proceso |-> p, tlb |-> <<>>, pc |-> "fetch"]
    /\ ultimo' = SinAcceso /\ UNCHANGED <<mem, estado>>

\* The pcb goes back to the kernel, between two instructions. The TLB is left.
Desalojar ==
    /\ cpu.pc = "fetch"
    /\ cpu' = [proceso |-> NADIE, tlb |-> cpu.tlb, pc |-> "desalojado"]
    /\ ultimo' = SinAcceso /\ UNCHANGED <<mem, estado>>

Traducida(a, marco, tlb) ==
    cpu' = [proceso |-> cpu.proceso, tlb |-> tlb, pc |-> "acceso",
            acceso |-> a, marco |-> marco]

\* direccionFisica with the page in the TLB.
TlbHit(a) ==
    /\ Acierto(cpu.tlb, a.pagina)
    /\ Traducida(a, cpu.tlb[Ubicacion(cpu.tlb, a.pagina)].marco,
                 buscar_marco(cpu.tlb, a.pagina))
    /\ ultimo' = SinAcceso /\ UNCHANGED <<mem, estado>>

\* direccionFisica without it: MC_BUSCAR_TABLA_DE_PAGINAS, that only divides, and
\* MC_BUSCAR_MARCO, that loads the page if it is not present.
TlbMiss(a) ==
    LET m1 == Presente(mem, cpu.proceso, a.pagina)
        f == MarcoDe(m1, cpu.proceso, a.pagina)
    IN  /\ ~Acierto(cpu.tlb, a.pagina)
        /\ mem' = m1
        /\ Traducida(a, f, reemplazar_entrada(cpu.tlb,
                              [pagina |-> a.pagina, marco |-> f]))
        /\ ultimo' = SinAcceso /\ UNCHANGED estado

Traducir(a) == TlbHit(a) \/ TlbMiss(a)

Instruccion == cpu.pc = "fetch" /\ \E a \in Accesos : Traducir(a)

\* The page and the process the server finds in the register of the frame.
Registrado == mem.registro[cpu.marco]

\* leer_en_pagina in MC_LEER_MARCO: the state it leaves and the datum it answers.
TrasLeer == leer_en_pagina(mem, Registrado.tabla, Registrado.pagina)

Dato == TrasLeer.marco[MarcoDe(TrasLeer, Registrado.tabla, Registrado.pagina)]

\* The CPU takes the answer for the page it asked for.
MC_LEER_MARCO ==
    /\ cpu.pc = "acceso" /\ cpu.acceso.tipo # "WRITE"
    /\ mem' = TrasLeer
    /\ ultimo' = [proceso |-> cpu.proceso, pagina |-> cpu.acceso.pagina,
                  leido |-> Dato]
    /\ cpu' = IF cpu.acceso.tipo = "READ"
              THEN [proceso |-> cpu.proceso, tlb |-> cpu.tlb, pc |-> "fetch"]
              ELSE [proceso |-> cpu.proceso, tlb |-> cpu.tlb, pc |-> "copy",
                    acceso |-> [tipo |-> "WRITE", pagina |-> cpu.acceso.destino,
                                dato |-> Dato]]
    /\ UNCHANGED estado

\* execute of a COPY, after its fase operands: the address to write to is
\* translated now.
Copiar == cpu.pc = "copy" /\ Traducir(cpu.acceso)

MC_ESCRIBIR_MARCO ==
    /\ cpu.pc = "acceso" /\ cpu.acceso.tipo = "WRITE"
    /\ mem' = escribir_en_pagina(mem, Registrado.tabla, Registrado.pagina,
                                 cpu.acceso.dato)
    /\ cpu' = [proceso |-> cpu.proceso, tlb |-> cpu.tlb, pc |-> "fetch"]
    /\ ultimo' = [proceso |-> cpu.proceso, pagina |-> cpu.acceso.pagina,
                  escrito |-> cpu.acceso.dato]
    /\ UNCHANGED estado

Cpu == \/ \E p \in Procesos : Despachar(p)
       \/ Desalojar \/ Instruccion \/ MC_LEER_MARCO \/ Copiar \/ MC_ESCRIBIR_MARCO

Next == Kernel \/ Cpu

Spec == Init /\ [][Next]_vars

-----------------------------------------------------------------------------
(***************************************************************************)
(* Properties.                                                             *)
(***************************************************************************)
\* The fields of the tables, the registers and the swap files have the types of
\* their declarations, and every page number in them is one of the process.
TypeOK ==
    /\ mem.tabla \in [Procesos ->
          [paginas : [Paginas -> [marco : MarcosFisicos, presencia : BOOLEAN,
                                  uso : BOOLEAN, modificado : BOOLEAN]],
           asignadas : Seq(Paginas), puntero : Indices]]
    /\ mem.registro \in [MarcosFisicos ->
          [asignado : BOOLEAN, tabla : Procesos \cup {NADIE}, pagina : Paginas]]
    /\ mem.marco \in [MarcosFisicos -> Datos]
    /\ mem.swap \in [Procesos -> [PosicionesSwap -> Datos]]
    /\ estado \in [Procesos -> Estados]
    /\ cpu.proceso \in Procesos \cup {NADIE}
    /\ cpu.tlb \in Seq([pagina : Paginas, marco : MarcosFisicos])
    /\ Len(cpu.tlb) <= EntradasTlb
    /\ cpu.pc \in {"desalojado", "fetch", "acceso", "copy"}

\* It has its tables and its swap file.
Vivo(p) == estado[p] \in {"en_memoria", "suspendido", "saliendo"}

\* paginas_asignadas, the bit presencia of the pages and the register of the frames
\* tell the same story: a page is present iff it is assigned, once, to a frame that
\* is registered to it alone, and no other frame is taken.
MarcosConsistentes ==
    /\ \A p \in Procesos : Vivo(p) =>
          LET t == mem.tabla[p]
          IN  /\ Len(t.asignadas) <= Marcos
              /\ \A g \in Paginas : t.paginas[g].presencia <=> g \in EnMarcos(mem, p)
              /\ \A i, j \in 1 .. Len(t.asignadas) :
                    i # j => t.asignadas[i] # t.asignadas[j]
              /\ \A g \in EnMarcos(mem, p) :
                    mem.registro[t.paginas[g].marco]
                        = [asignado |-> TRUE, tabla |-> p, pagina |-> g]
    /\ Cardinality({f \in MarcosFisicos : mem.registro[f].asignado})
          = Cardinality({x \in Procesos \X Paginas :
                            Vivo(x[1]) /\ x[2] \in EnMarcos(mem, x[1])})

\* A suspended or finished process holds no frame: suspending gives the memory back,
\* and nothing that was released is taken again on its behalf.
SoloOcupanLosPresentes ==
    \A f \in MarcosFisicos : mem.registro[f].asignado =>
        estado[mem.registro[f].tabla] \in {"en_memoria", "saliendo"}

\* "Si aun quedan marcos del proceso para asignar" (tablas.c:407) is all that
\* asignar_marco_y_cargar_pagina_de_swap asks for: a process with fewer pages in
\* memory than MARCOS_POR_PROCESO finds a free frame (the code uses the -1 of
\* buscar_marco_libre as an index).
MarcosSuficientes ==
    \A p \in EnMemoria : Len(mem.tabla[p].asignadas) < Marcos
        => \E f \in MarcosFisicos : ~mem.registro[f].asignado

\* A page in memory that was not written since it came has in its frame what it has
\* in swap: replacing it without writing it back loses nothing.
PaginaLimpiaEstaEnSwap ==
    \A p \in Procesos, g \in Paginas :
        LET pagina == mem.tabla[p].paginas[g]
        IN  Vivo(p) /\ pagina.presencia /\ ~pagina.modificado
                => mem.marco[pagina.marco]
                     = leer_pagina_swap(mem, p, numero_de_tabla(g), numero_de_pagina(g))

\* The frame the TLB gives for a page of the running process is the frame of the
\* page ("busca en la TLB si esta la pagina y devuelve la direccion con el marco
\* asociado", mmu.c:45), although the memory may have replaced the page since.
TlbCoherente ==
    cpu.proceso # NADIE =>
        \A i \in 1 .. Len(cpu.tlb) :
            /\ mem.tabla[cpu.proceso].paginas[cpu.tlb[i].pagina].presencia
            /\ MarcoDe(mem, cpu.proceso, cpu.tlb[i].pagina) = cpu.tlb[i].marco

\* The datum of a page: in its frame if it is present, else in swap.
Contenido(p, g) ==
    IF mem.tabla[p].paginas[g].presencia THEN mem.marco[MarcoDe(mem, p, g)]
    ELSE leer_pagina_swap(mem, p, numero_de_tabla(g), numero_de_pagina(g))

Logico == INSTANCE EspacioLogico
              WITH vivos <- {p \in Procesos : Vivo(p)},
                   espacio <- [p \in Procesos |-> [g \in Paginas |->
                                  IF Vivo(p) THEN Contenido(p, g) ELSE Cero]]

\* Frames, replacement, swap and TLB together give each program its own pages: a
\* READ or a COPY gets what was last written to that page by that process.
LogicoSpec == Logico!Spec

\* "(Las paginas de tablas anteriores + el desplazamiento de la tabla a la que
\* entra) * el tamaño de las paginas" (tablas.c:260): a step that changes the swap
\* file of a process changes it at the position of a page that leaves memory.
EscribeEnSuPosicion ==
    [][\A p \in Procesos, s \in PosicionesSwap :
          mem'.swap[p][s] # mem.swap[p][s] =>
              \E g \in Paginas :
                  /\ mem.tabla[p].paginas[g].presencia
                  /\ ~mem'.tabla[p].paginas[g].presencia
                  /\ s = PosicionSwap(numero_de_tabla(g), numero_de_pagina(g))]_vars

=============================================================================
