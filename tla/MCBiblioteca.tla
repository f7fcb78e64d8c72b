---------------------------- MODULE MCBiblioteca ----------------------------
(***************************************************************************)
(* The parts that work alone, for TLC: the thread monitor, the list and    *)
(* the connection of shared/, the instruction cycle of the CPU, the parser *)
(* of the console and the loops of the page replacement.  A behaviour is of one part, chosen at the start, *)
(* and the others stay in their initial state, so that the state spaces    *)
(* add up.                                                                 *)
(***************************************************************************)
EXTENDS ThreadMonitor, Lista, CicloInstruccion

CONSTANTS Base, MaxEnvios, Marcos

VARIABLES parte,
          enviados, camino, corte, paquete, pc_recv, recibidos,
          archivo, puntero, uso, modificado

Analizador == INSTANCE Parser
Linea(palabra, parametros, salto) == Analizador!Linea(palabra, parametros, salto)

Cero == <<2>>
Uno == <<3>>
Palabras == {<<"NO_OP", <<Uno>>>>, <<"I/O", <<Uno>>>>, <<"WRITE", <<Cero, Uno>>>>,
             <<"COPY", <<Cero, Cero>>>>, <<"READ", <<Uno>>>>, <<"EXIT", <<>>>>,
             <<"SALIR", <<>>>>}
\* Every line ends in a line feed, the last one perhaps not.
Archivo(palabras, salto) ==
    [k \in 1..Len(palabras) |->
        Linea(palabras[k][1], palabras[k][2], k < Len(palabras) \/ salto)]
Archivos == {Archivo(p, s) : p \in UNION {[1..n -> Palabras] : n \in 1..3}, s \in BOOLEAN}

Programa(lineas, size) == Analizador!parse_program(lineas, size)[1]
Corto == Programa(<<Linea("EXIT", <<>>, FALSE)>>, 9)
Largo == Programa(<<Linea("NO_OP", <<Uno>>, TRUE), Linea("WRITE", <<Cero, Uno>>, TRUE),
                    Linea("EXIT", <<>>, FALSE)>>, 20)

\* One message of each kind, with instructions without and with parameters, the
\* largest unsigned and a negative integer.
Mensajes ==
    {[header |-> 2, valor |-> 7],
     [header |-> 3, valor |->
        [Analizador!pcb_create(Largo.instructions) EXCEPT
            !.id = 1, !.process_size = 20, !.program_counter = 2, !.tabla_paginas = 3,
            !.cpu_dispatch_cond = 3, !.cpu_executed_burst = 5, !.cpu_estimated_burst = 6,
            !.io_burst = -2]],
     [header |-> 4, valor |-> Corto], [header |-> 4, valor |-> Largo],
     [header |-> 5, valor |-> [entradas_por_tabla |-> 4, tam_pagina |-> 64]],
     [header |-> 6, valor |-> [pid |-> 1, dato |-> 255, desplazamiento |-> 8, numero_marco |-> 2]],
     [header |-> 7, valor |-> [pid |-> 1, pagina |-> 5, tabla_primer_nivel |-> 0,
                               tabla_segundo_nivel |-> 255]],
     [header |-> 8, valor |-> [pcb_id |-> 2, process_size |-> 100]]}

\* Every kind of instruction, some followed by another that does not end the burst;
\* and a program that the parser takes and that has no EXIT.
ProgramasDelCiclo == {<<"NO_OP", "COPY", "I_O", "NO_OP", "NO_OP", "EXIT">>,
                      <<"COPY", "I_O", "NO_OP">>}

C == INSTANCE Conexion WITH pc <- pc_recv
R == INSTANCE ClockLoop

varsConexion == <<enviados, camino, corte, paquete, pc_recv, recibidos>>
varsReloj == <<puntero, uso, modificado>>

InitPartes ==
    /\ Init /\ InitLista /\ InitCiclo /\ C!Init
    /\ parte \in {"monitor", "lista", "ciclo", "conexion", "parser", "reloj"}
    /\ archivo \in IF parte = "parser" THEN Archivos ELSE {Archivo(<<>>, FALSE)}
    /\ IF parte = "reloj" THEN R!Init
       ELSE puntero = 0 /\ uso = [i \in R!Indices |-> FALSE] /\ modificado = uso

NextPartes ==
    /\ UNCHANGED <<parte, archivo>>
    /\ \/ parte = "monitor" /\ Next
          /\ UNCHANGED <<varsLista, varsCiclo, varsConexion, varsReloj>>
       \/ parte = "lista" /\ NextLista
          /\ UNCHANGED <<vars, varsCiclo, varsConexion, varsReloj>>
       \/ parte = "ciclo" /\ NextCiclo
          /\ UNCHANGED <<vars, varsLista, varsConexion, varsReloj>>
       \/ parte = "conexion" /\ C!Next
          /\ UNCHANGED <<vars, varsLista, varsCiclo, varsReloj>>
       \/ parte = "reloj" /\ R!Next
          /\ UNCHANGED <<vars, varsLista, varsCiclo, varsConexion>>

SpecPartes ==
    /\ InitPartes
    /\ [][NextPartes]_<<vars, varsLista, varsCiclo, varsConexion, varsReloj, parte,
                        archivo>>
    /\ Fairness

RecibeLoEnviado == C!RecibeLoEnviado
PcbLlegaEntero == C!PcbLlegaEntero
VictimasDelBucle == R!VictimasDelBucle

\* A source file that is accepted has EXIT at most as its last line, because the line
\* feed stays in the word: no program has instructions the CPU will never reach, and a
\* file whose EXIT line ends in a line feed is refused.
ExitAlFinal ==
    LET p == Analizador!parse_program(archivo, 1)
    IN  p # <<>> => \A k \in 1..Len(p[1].instructions) - 1 :
                        p[1].instructions[k].codigo # Analizador!ci_EXIT

=============================================================================
