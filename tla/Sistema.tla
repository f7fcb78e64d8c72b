------------------------------ MODULE Sistema ------------------------------
(***************************************************************************)
(* The processes of the system from their start to the answer of the       *)
(* consoles: the kernel connects to memoria and to the CPU and then opens  *)
(* its console server (kernel.c, imemory.c, icpu.c, iconsole.c), the CPU   *)
(* connects to memoria and opens its two servers (cpu.c), memoria serves   *)
(* both (memoriaswap.c), the consoles submit a program and wait            *)
(* (consola/src/console.c).  They start in any order, and a console may be *)
(* killed at any time or be configured with the port of another server.    *)
(* The planner is that of Planner, seen from a console: it answers.        *)
(***************************************************************************)
EXTENDS Red

CONSTANTS
    PuertosDe,      \* the ports each console may be configured with
    ProgramasDe,    \* the programs each console may submit
    Matables        \* the consoles that may be killed

\* A program with instructions, or the empty one: the parser also takes a file without
\* a line, or without an instruction that counts ('NO_OP 0').
ASSUME ProgramasAssumption ==
    ProgramasDe \in [Consolas -> SUBSET {"PROGRAM", "PROGRAM_VACIO"}]

VARIABLES
    pc              \* where the main thread of the kernel and of the CPU is

vars == <<red, pc>>

Init ==
    /\ proceso = [p \in Procesos |-> "no"]
    /\ puerto \in {f \in [Conexiones -> Puertos] :
                      /\ f["kM"] = "memoria" /\ f["cM"] = "memoria"
                      /\ f["kI"] = "interrupt" /\ f["kD"] = "dispatch"
                      /\ \A c \in Consolas : f[c] \in PuertosDe[c]}
    /\ escucha = [p \in Puertos |-> "no"]
    /\ con = [c \in Conexiones |->
                 [cli |-> socket_handler_create, srv |-> socket_handler_create]]
    /\ hilo = [c \in Conexiones |->
                  [cli |-> IF c \in Consolas THEN "no" ELSE "conectar",
                   srv |-> "no", ltp |-> "no"]]
    /\ pc = [kernel |-> "crear", cpu |-> "conectar"]

MainEn(p, a) == Vivo(p) /\ pc[p] = a
MainA(p, a) == pc' = [pc EXCEPT ![p] = a]

-----------------------------------------------------------------------------
(***************************************************************************)
(* The clients: connect, say who they are, wait for the answer.            *)
(***************************************************************************)
memory_handshake(m) == m = "ACCEPTED"       \* the kernel with memoria
cpu_handshake(m) == m = "ACCEPTED"          \* the kernel with the CPU
memoria_handshake(m) == m = "MEMORY_SETUP"  \* the CPU with memoria
kernel_handshake(m) == m = "ACCEPTED"       \* a console with the kernel

Codigo(c) == CASE c \in Consolas -> "CONSOLE" [] c = "cM" -> "CPU" [] OTHER -> "KERNEL"
Aceptado(c, m) ==
    CASE c = "kM" -> memory_handshake(m)
      [] c = "cM" -> memoria_handshake(m)
      [] c \in Consolas -> kernel_handshake(m)
      [] OTHER -> cpu_handshake(m)

ConectarCliente(c) ==
    \/ connect_to_server(c)
    \/ hilo[c].cli = "saludar" /\ send_message(c, "cli", Codigo(c), "espera", "rechazada")
    \/ /\ hilo[c].cli = "espera"
       /\ recieve_message(c, "cli",
             IF Aceptado(c, Recibido(c, "cli")) THEN "aceptada" ELSE "rechazada")

\* A step of the main thread of p that connects c: at stage "de" until it is accepted.
Conexion(p, de, c, a) ==
    \/ MainEn(p, de) /\ ConectarCliente(c) /\ UNCHANGED pc
    \/ MainEn(p, de) /\ hilo[c].cli = "aceptada" /\ MainA(p, a) /\ UNCHANGED red
    \/ MainEn(p, de) /\ hilo[c].cli = "rechazada" /\ Termina(p, "salio") /\ UNCHANGED pc

-----------------------------------------------------------------------------
(***************************************************************************)
(* The kernel's main thread: kernel_execute.                               *)
(***************************************************************************)
\* Slip: an error of the configuration that nobody expects.
ConfigSinEstado == {"loaded", "fallo", "sin algoritmo"}
\* No file, or an unknown algorithm: the kernel is not started. A missing key is logged,
\* and then read all the same.
kernel_config_create == {"loaded", "fallo", "nulo"}
kernel_create ==
    /\ MainEn("kernel", "crear")
    /\ \E r \in kernel_config_create :
          IF r = "loaded" THEN MainA("kernel", "memoria") /\ UNCHANGED red
          ELSE Termina("kernel", IF r = "fallo" THEN "salio" ELSE r) /\ UNCHANGED pc

memory_module_run == Conexion("kernel", "memoria", "kM", "interrupt")
\* The interrupt port first: see DispatchServerNoEsNulo.
cpu_interrupt_connect == Conexion("kernel", "interrupt", "kI", "dispatch")
cpu_dispatch_connect == Conexion("kernel", "dispatch", "kD", "planner")

\* Slip: the dispatch port first.
DispatchPrimero ==
    \/ Conexion("kernel", "interrupt", "kD", "dispatch")
    \/ Conexion("kernel", "dispatch", "kI", "planner")
cpu_module_run == cpu_interrupt_connect \/ cpu_dispatch_connect

planner_run == MainEn("kernel", "planner") /\ MainA("kernel", "consolas") /\ UNCHANGED red

\* The port of the consoles may be in use: the kernel goes on without them, since the
\* threads of the planner keep the process.
console_module_run ==
    \/ /\ MainEn("kernel", "consolas")
       /\ \/ start_server("consolas") /\ MainA("kernel", "escuchar")
          \/ UNCHANGED escucha /\ MainA("kernel", "fallo")
       /\ UNCHANGED <<proceso, puerto, con, hilo>>
    \/ /\ MainEn("kernel", "escuchar")
       /\ server_listen_async("consolas") /\ MainA("kernel", "iniciado")
       /\ UNCHANGED <<proceso, puerto, con, hilo>>

kernel_execute ==
    kernel_create \/ memory_module_run \/ cpu_module_run \/ planner_run \/ console_module_run

-----------------------------------------------------------------------------
(***************************************************************************)
(* The CPU's main thread.                                                  *)
(***************************************************************************)
\* start_server, server_listen_async, and a look at the error of a handler that
\* server_disconnected may have set to NULL by then.
Servidor_cpu(p, de, a) ==
    \/ /\ MainEn("cpu", de)
       /\ \/ start_server(p) /\ MainA("cpu", p) /\ UNCHANGED <<proceso, puerto, con, hilo>>
          \/ Termina("cpu", "salio") /\ UNCHANGED pc
    \/ /\ MainEn("cpu", p) /\ escucha[p] = "escucha"
       /\ server_listen_async(p) /\ UNCHANGED <<proceso, puerto, con, hilo, pc>>
    \/ /\ MainEn("cpu", p) /\ escucha[p] # "escucha"
       /\ IF escucha[p] = "nulo" THEN Termina("cpu", "nulo") /\ UNCHANGED pc
          ELSE MainA("cpu", a) /\ UNCHANGED red

\* The MMU is created when the servers already accept; with an unknown algorithm the
\* process ends with them.
create_mmu ==
    /\ MainEn("cpu", "mmu")
    /\ \/ MainA("cpu", "iniciado") /\ UNCHANGED red
       \/ Termina("cpu", "salio") /\ UNCHANGED pc

cpu_iniciar ==
    \/ Conexion("cpu", "conectar", "cM", "servidor_dispatch")
    \/ Servidor_cpu("dispatch", "servidor_dispatch", "servidor_interrupt")
    \/ Servidor_cpu("interrupt", "servidor_interrupt", "mmu")
    \/ create_mmu

\* The listener of a server disconnected by its handler: the pointer of the dispatch
\* server is read first, also for the interrupt one.
server_disconnected(p) ==
    /\ escucha[p] = "cerrando"
    /\ IF escucha["dispatch"] = "nulo" THEN Termina("cpu", "nulo")
       ELSE escucha' = [escucha EXCEPT ![p] = "nulo"] /\ UNCHANGED <<proceso, puerto, con, hilo>>
    /\ UNCHANGED pc

-----------------------------------------------------------------------------
(***************************************************************************)
(* The server side of a handshake: what follows the first message.         *)
(***************************************************************************)
\* Slip: every process is answered as the kernel is.
TodosSonKernel(m) ==
    IF m \in {"KERNEL", "CPU"} THEN "acepta" ELSE "rechazada"
\* Slip: the kernel is accepted and not told.
KernelSinRespuesta(m) ==
    CASE m = "KERNEL" -> "memoria" [] m = "CPU" -> "configura" [] OTHER -> "rechazada"
\* memoria answers nothing to who it does not accept.
server_handshake_memoria(m) ==
    CASE m = "KERNEL" -> "acepta" [] m = "CPU" -> "configura" [] OTHER -> "rechazada"

kernel_handshake_cpu(m) ==
    CASE m = "KERNEL" -> "acepta" [] m = "SKT_CONNECTION_LOST" -> "rechazada"
      [] OTHER -> "rechaza"

\* Slip: who is not a console is rejected twice, whatever came from it.
RechazaAlPerdido(m) == IF m = "CONSOLE" THEN "acepta" ELSE "rechaza_codigo"
\* The code of another process is rejected twice (no program of the system sends it here).
server_handshake_consolas(m) ==
    CASE m = "CONSOLE" -> "acepta" [] m \in {"KERNEL", "CPU"} -> "rechaza_codigo"
      [] m = "SKT_CONNECTION_LOST" -> "rechazada" [] OTHER -> "rechaza"

on_handshake(p, m) ==
    CASE p = "memoria" -> server_handshake_memoria(m)
      [] p = "consolas" -> server_handshake_consolas(m)
      [] OTHER -> kernel_handshake_cpu(m)

En(c, a) == hilo[c].srv = a
\* The handler a client is given to.
on_client_connected(p) ==
    CASE p = "memoria" -> "memoria" [] p = "consolas" -> "console_handler"
      [] OTHER -> "desconecta_servidor"

\* The answer: whether it could be sent changes the result of the CPU's alone.
handshake(c) ==
    LET atiende == on_client_connected(puerto[c])
    IN  \/ En(c, "saludo")
           /\ recieve_message(c, "srv", on_handshake(puerto[c], Recibido(c, "srv")))
        \/ En(c, "acepta") /\ send_message(c, "srv", "ACCEPTED", atiende, atiende)
        \/ En(c, "configura") /\ send_message(c, "srv", "MEMORY_SETUP", atiende, "rechazada")
        \/ En(c, "rechaza_codigo") /\ send_message(c, "srv", "REJECTED", "rechaza", "rechaza")
        \/ En(c, "rechaza") /\ send_message(c, "srv", "REJECTED", "rechazada", "rechazada")

(***************************************************************************)
(* The handlers.  Those of memoria and the CPU are followed only to the    *)
(* end of their connections; what they do with a message is in Memoria and *)
(* CicloInstruccion.                                                       *)
(***************************************************************************)
\* memoria answers an error that is not the end (here nobody leaves an answer of memoria
\* unread, so that none comes), and tries again. At the end handle_cpu
\* destroys a handler it did not disconnect, which fails; handle_kernel disconnects its
\* own and does not destroy it.
FinMemoria(c) == IF c = "cM" THEN "destruir_cpu" ELSE "desconectar_kernel"
handle_cpu_kernel(c) ==
    \/ /\ En(c, "memoria")
       /\ recieve_message(c, "srv",
             CASE Recibido(c, "srv") = "SKT_CONNECTION_LOST" -> FinMemoria(c)
               [] Recibido(c, "srv") = "errno" -> "error" [] OTHER -> "memoria")
    \/ En(c, "error") /\ send_message(c, "srv", "ERROR", "memoria", "memoria")
    \/ En(c, "destruir_cpu") /\ socket_handler_destroy(c, "srv", "fin")
    \/ En(c, "desconectar_kernel") /\ socket_handler_disconnect(c, "srv", "fin")

\* handle_dispatch and handle_interrupt disconnect the server that accepted them.
handle_dispatch_interrupt(c) ==
    \/ En(c, "desconecta_servidor") /\ server_disconnect(c, "srv", "cpu")
    \/ /\ En(c, "cpu")
       /\ recieve_message(c, "srv",
             IF Recibido(c, "srv") = "SKT_CONNECTION_LOST" THEN "desconectar" ELSE "cpu")
    \/ En(c, "desconectar") /\ socket_handler_disconnect(c, "srv", "destruir_final")
    \/ En(c, "destruir_final") /\ socket_handler_destroy(c, "srv", "fin")

\* By the thread h that answers m: of the console server or of the planner.
console_terminate(c, h, m) ==
    \/ hilo[c][h] = m /\ send_message(c, h, m, "desconecta", "desconecta")
    \/ hilo[c][h] = "desconecta" /\ socket_handler_disconnect(c, h, "destruye")
    \/ hilo[c][h] = "destruye" /\ socket_handler_destroy(c, h, "fin")

\* Who goes on with the handler: the planner for a program with instructions; for one
\* without, or any other message or an error, the thread of the server ends it.
TrasPrograma(c) ==
    IF Recibido(c, "srv") = "PROGRAM" THEN "ltp_new_process" ELSE "FAILURE"

\* Slip: the handler of a submitted process is closed here too.
ConsoleHandlerCierra(c) ==
    \/ /\ En(c, "console_handler")
       /\ recieve_message(c, "srv", TrasPrograma(c))
    \/ /\ En(c, "ltp_new_process")
       /\ hilo' = [hilo EXCEPT ![c].srv = "desconecta", ![c].ltp = "pcb"]
       /\ UNCHANGED <<proceso, puerto, escucha, con>>

\* The program is given to the planner with its handler, or the console ends here.
console_handler(c) ==
    \/ /\ En(c, "console_handler")
       /\ recieve_message(c, "srv", TrasPrograma(c))
    \/ /\ En(c, "ltp_new_process")
       /\ hilo' = [hilo EXCEPT ![c].srv = "fin", ![c].ltp = "pcb"]
       /\ UNCHANGED <<proceso, puerto, escucha, con>>

Atender(c) ==
    /\ Vivo(Servidor(puerto[c]))
    /\ \/ esperar_cliente(c) \/ handle_server(c) \/ handshake(c) \/ handle_client(c)
       \/ handle_cpu_kernel(c) \/ handle_dispatch_interrupt(c)
       \/ console_handler(c) \/ console_terminate(c, "srv", "FAILURE")
    /\ UNCHANGED pc

-----------------------------------------------------------------------------
(***************************************************************************)
(* A process in the planner: dispatched to a CPU without its MMU, it ends  *)
(* it (ejecutar_pcb begins with limpiar_tlb(MMU->TLB)), and so does a      *)
(* program without EXIT on any CPU (the "caida" of CicloInstruccion); it   *)
(* succeeds only on a CPU that is alive, and it may fail.                  *)
(***************************************************************************)
ejecutar_pcb(c) ==
    /\ hilo[c].ltp = "pcb"
    /\ hilo["kD"].srv = "cpu" /\ Vivo("cpu")
    /\ Termina("cpu", "nulo") /\ UNCHANGED pc

ltp_exit_controller(c) ==
    /\ Vivo("kernel")
    /\ \/ /\ hilo[c].ltp = "pcb"
          /\ \/ Vivo("cpu") /\ hilo["kD"].srv = "cpu" /\ pc["cpu"] = "iniciado"
                /\ Ir(c, "ltp", "SUCCESS")
             \/ Ir(c, "ltp", "FAILURE")
          /\ UNCHANGED <<proceso, puerto, escucha, con>>
       \/ \E m \in {"SUCCESS", "FAILURE"} : console_terminate(c, "ltp", m)
    /\ UNCHANGED pc

-----------------------------------------------------------------------------
(***************************************************************************)
(* A console.                                                              *)
(***************************************************************************)
\* The configuration or the program may be refused before the connection.
console_run(c) ==
    /\ Vivo(c)
    /\ \/ /\ hilo[c].cli = "no"
          /\ \/ Ir(c, "cli", "conectar") /\ UNCHANGED <<proceso, puerto, escucha, con>>
             \/ Termina(c, "salio")
       \/ ConectarCliente(c)
       \/ hilo[c].cli = "rechazada" /\ ~con[c].cli.connected /\ Termina(c, "salio")
       \/ /\ hilo[c].cli = "rechazada" /\ con[c].cli.connected
          /\ socket_handler_disconnect(c, "cli", "rechazada")
       \/ /\ hilo[c].cli = "aceptada"
          /\ \E m \in ProgramasDe[c] : send_message(c, "cli", m, "programa", "cerrar")
       \/ hilo[c].cli = "programa" /\ recieve_message(c, "cli", "cerrar")
       \/ hilo[c].cli = "cerrar" /\ socket_handler_disconnect(c, "cli", "cerrada")
       \/ hilo[c].cli = "cerrada" /\ Termina(c, "salio")
    /\ UNCHANGED pc

\* Bound: a console on the port of another server is the only one; the others start
\* when the kernel has come to its console server or has ended.
Inicia(p) ==
    /\ proceso[p] = "no"
    /\ p \in Consolas =>
          /\ \A d \in Consolas \ {p} : puerto[d] = "consolas"
          /\ \/ puerto[p] # "consolas"
             \/ pc["kernel"] \in {"consolas", "escuchar", "iniciado", "fallo"}
             \/ proceso["kernel"] \notin {"no", "vivo"}
    /\ proceso' = [proceso EXCEPT ![p] = "vivo"]
    /\ IF p = "memoria" THEN server_listen_async("memoria") ELSE UNCHANGED escucha
    /\ UNCHANGED <<puerto, con, hilo, pc>>

\* Somebody kills a console. Bound: one of Matables.
Matar(c) ==
    /\ c \in Matables /\ Vivo(c) /\ hilo[c].cli # "no"
    /\ Termina(c, "matada") /\ UNCHANGED pc

Pasos ==
    \/ kernel_execute
    \/ cpu_iniciar
    \/ \E p \in {"dispatch", "interrupt"} : server_disconnected(p)
    \/ \E c \in Conexiones : Atender(c)
    \/ \E c \in Consolas : ejecutar_pcb(c) \/ ltp_exit_controller(c) \/ console_run(c)

Next == Pasos \/ (\E p \in Procesos : Inicia(p)) \/ (\E c \in Consolas : Matar(c))

\* No thread that can go on stays where it is.
Spec == Init /\ [][Next]_vars /\ WF_vars(Pasos)

-----------------------------------------------------------------------------
(***************************************************************************)
(* Properties.                                                             *)
(***************************************************************************)
Antes == {"no", "backlog", "aceptada", "saludo", "acepta", "configura", "rechaza_codigo",
          "rechaza", "rechazada", "destruir"}
Rechazo == {"rechaza_codigo", "rechaza", "rechazada", "destruir", "fin_rechazo", "olvidada"}
Atiende == {"memoria", "error", "destruir_cpu", "desconectar_kernel", "desconecta_servidor",
            "cpu", "desconectar", "destruir_final", "console_handler", "ltp_new_process",
            "FAILURE", "desconecta", "destruye", "fin"}
Respuestas == {"SUCCESS", "FAILURE"}
TypeOK ==
    /\ proceso \in [Procesos -> {"no", "vivo", "salio", "sigpipe", "nulo", "matada"}]
    /\ escucha \in [Puertos -> {"no", "escucha", "acepta", "cerrando", "nulo"}]
    /\ \A c \in Conexiones :
          /\ puerto[c] \in Puertos
          /\ \A l \in {"cli", "srv"} :
                /\ con[c][l].estado \in {"no", "cola", "abierto", "fin", "reset", "rota",
                                          "cerrado", "destruido"}
                /\ con[c][l].connected \in BOOLEAN
                /\ Len(con[c][l].entrada) <= 2
          /\ hilo[c].cli \in {"no", "conectar", "saludar", "espera", "aceptada",
                               "rechazada", "programa", "cerrar", "cerrada"}
          /\ hilo[c].srv \in Antes \cup Rechazo \cup Atiende
          /\ hilo[c].ltp \in {"no", "pcb", "desconecta", "destruye", "fin"} \cup Respuestas

\* Both ends of a handshake come to the same result, whoever dies or is rejected in
\* between: a client that was accepted is in its handler, a client that was not is in
\* none (iconsole.c:149-187, cpu.c:222-255, memoriaswap.c:98-169).
SaludoCoincide ==
    \A c \in Conexiones :
       /\ hilo[c].cli \in {"aceptada", "programa", "cerrar", "cerrada"} => hilo[c].srv \in Atiende
       /\ hilo[c].cli = "rechazada" => hilo[c].srv \notin Atiende

\* The handler of a console goes from the thread of the console server to the pcb and to
\* the exit controller: it is destroyed once, when neither will use it again
\* (iconsole.c:119-125, planner.c:236, 535-538).
ManejadorDestruidoAlFinal ==
    \A c \in Conexiones :
       puerto[c] = "consolas" =>
          (con[c].srv.estado = "destruido" <=>
             hilo[c].srv \in {"fin", "fin_rechazo"} /\ hilo[c].ltp \in {"no", "fin"})

\* A process that leaves takes no other with it, but for one window: a console killed
\* after its code, before it read that it was accepted, resets the connection, and the
\* kernel dies of the answer it sends to that error (iconsole.c:196-200).
SigpipeSoloPorMatada ==
    \A p \in Procesos :
       proceso[p] = "sigpipe" =>
          /\ p = "kernel"
          /\ \E c \in Consolas :
                proceso[c] = "matada" /\ hilo[c].cli = "espera" /\ puerto[c] = "consolas"

\* The CPU's main thread looks at dispatch_server->error when its listener already runs,
\* and server_disconnected sets the pointer to NULL (cpu.c:105, 432): it is never null
\* there, because the kernel connects to the interrupt port first (icpu.c:69-78).
DispatchServerNoEsNulo == proceso["cpu"] = "nulo" => pc["cpu"] # "dispatch"

\* The start of the kernel ends, with its servers or with an error, whatever the order
\* in which the three processes start and wherever one of them ends (kernel.c:66-103).
ArranqueTermina ==
    []<>(Vivo("kernel") => pc["kernel"] \in {"iniciado", "fallo"})

\* Every console ends, accepted or not, answered or not: but one that another server's
\* listener accepted when it was already being disconnected (socket_handler.c:454).
ConsolaTermina ==
    []<>(\A c \in Consolas : Vivo(c) => hilo[c].srv = "olvidada")

=============================================================================
