-------------------------------- MODULE Red --------------------------------
(***************************************************************************)
(* The connections between the processes of the system: the socket         *)
(* handlers of shared/src/socket_handler.c over shared/src/conexiones.c.   *)
(* The bytes of a message are those of Conexion; here a message is whole.  *)
(*                                                                         *)
(* What a side of a connection knows of its peer is what the operating     *)
(* system tells it: nothing ("abierto"), that it closed ("fin"), or, when  *)
(* it died with data unread, a reset that is reported once ("reset").      *)
(* After the reset ("rota") there is nothing to receive, and a send kills  *)
(* the sender with SIGPIPE, which no process of this system handles.       *)
(***************************************************************************)
EXTENDS Naturals, Sequences, FiniteSets

CONSTANT Consolas       \* the console processes

\* The name of a console is not that of another process or of its connections.
ASSUME ConsolasAssumption ==
    Consolas \cap {"kM", "kI", "kD", "cM", "memoria", "cpu", "kernel"} = {}

\* kernel with memoria, with the interrupt and dispatch ports of the CPU; CPU with
\* memoria; each console with the kernel: every connection is named by its client.
Conexiones == {"kM", "kI", "kD", "cM"} \cup Consolas
Procesos == {"memoria", "cpu", "kernel"} \cup Consolas
Puertos == {"memoria", "interrupt", "dispatch", "consolas"}

VARIABLES
    proceso,    \* how each process is: "no", "vivo", or how it ended
    puerto,     \* the port each client is configured with
    escucha,    \* what the server handler of each port is
    con,        \* the two sides of each connection
    hilo        \* where each connection's threads are: the client's ("cli"), the
                \* server's ("srv"), and the exit controller of the planner ("ltp")

red == <<proceso, puerto, escucha, con, hilo>>

Cliente(c) == IF c \in Consolas THEN c ELSE IF c = "cM" THEN "cpu" ELSE "kernel"
Servidor(p) ==
    CASE p = "memoria" -> "memoria" [] p = "consolas" -> "kernel" [] OTHER -> "cpu"
Vivo(p) == proceso[p] = "vivo"

socket_handler_create == [estado |-> "no", entrada |-> <<>>, connected |-> FALSE]

Otro(l) == IF l = "cli" THEN "srv" ELSE "cli"
Lado(h) == IF h = "cli" THEN "cli" ELSE "srv"

\* Closing side l of connection r: what it had not read becomes the reset of its
\* peer, which a shutdown turns into a plain end for who receives.
Cerrar(r, l, conDatos) ==
    IF r[l].estado \in {"no", "cerrado", "destruido"} THEN r
    ELSE [r EXCEPT ![l].estado = "cerrado", ![l].entrada = <<>>,
                   ![Otro(l)].estado =
                      IF @ \notin {"abierto", "cola"} THEN @
                      ELSE IF r[l].estado = "cola" THEN "reset"
                      ELSE IF r[l].entrada = <<>> THEN "fin" ELSE conDatos]
liberar_conexion(r, l) == Cerrar(r, l, "rota")

\* A process ends: the operating system closes all it had open.
CerrarTodo(p) ==
    [c \in Conexiones |->
        LET r == IF Cliente(c) = p THEN Cerrar(con[c], "cli", "reset") ELSE con[c]
        IN  IF Servidor(puerto[c]) = p THEN Cerrar(r, "srv", "reset") ELSE r]
Termina(p, como) ==
    /\ proceso' = [proceso EXCEPT ![p] = como]
    /\ con' = CerrarTodo(p)
    /\ escucha' = [q \in Puertos |-> IF Servidor(q) = p THEN "no" ELSE escucha[q]]
    /\ UNCHANGED <<puerto, hilo>>

Ir(c, h, a) == hilo' = [hilo EXCEPT ![c][h] = a]

-----------------------------------------------------------------------------
(***************************************************************************)
(* The calls of a thread h of connection c, which goes to "bien" or "mal"  *)
(* after them.                                                             *)
(***************************************************************************)
send_message(c, h, m, bien, mal) ==
    LET l == Lado(h)
        estado == con[c][l].estado
    IN  \/ /\ estado = "abierto"
           /\ con' = [con EXCEPT ![c][Otro(l)].entrada = Append(@, m)]
           /\ Ir(c, h, bien)
           /\ UNCHANGED <<proceso, puerto, escucha>>
        \/ /\ estado = "fin"
           /\ \E e \in {"fin", "rota"} : con' = [con EXCEPT ![c][l].estado = e]
           /\ Ir(c, h, bien)
           /\ UNCHANGED <<proceso, puerto, escucha>>
        \/ /\ estado = "reset"
           /\ con' = [con EXCEPT ![c][l].estado = "rota"]
           /\ Ir(c, h, mal)
           /\ UNCHANGED <<proceso, puerto, escucha>>
        \/ /\ estado = "rota"
           /\ Termina(IF l = "cli" THEN Cliente(c) ELSE Servidor(puerto[c]), "sigpipe")

\* What recieve_message returns to side l, the package or handler->error.
Recibido(c, l) ==
    IF con[c][l].entrada # <<>> THEN Head(con[c][l].entrada)
    ELSE IF con[c][l].estado = "reset" THEN "errno" ELSE "SKT_CONNECTION_LOST"
recieve_message(c, h, a) ==
    LET l == Lado(h)
        s == con[c][l]
    IN  /\ s.entrada # <<>> \/ s.estado # "abierto"
        /\ con' = [con EXCEPT
                      ![c][l].entrada = IF @ = <<>> THEN @ ELSE Tail(@),
                      ![c][l].estado = IF s.entrada = <<>> /\ @ = "reset" THEN "rota"
                                       ELSE @]
        /\ Ir(c, h, a)
        /\ UNCHANGED <<proceso, puerto, escucha>>

socket_handler_disconnect(c, h, a) ==
    /\ con' = [con EXCEPT ![c] =
                  [liberar_conexion(@, Lado(h)) EXCEPT ![Lado(h)].connected = FALSE]]
    /\ Ir(c, h, a)
    /\ UNCHANGED <<proceso, puerto, escucha>>

\* A handler still connected is not destroyed.
socket_handler_destroy(c, h, a) ==
    /\ con' = [con EXCEPT ![c][Lado(h)].estado =
                  IF con[c][Lado(h)].connected THEN @ ELSE "destruido"]
    /\ Ir(c, h, a)
    /\ UNCHANGED <<proceso, puerto, escucha>>

\* connect to a port nobody listens on is refused; until the server's accept the
\* connection is in the backlog of the port.
crear_conexion(c) == escucha[puerto[c]] \in {"escucha", "acepta"}
connect_to_server(c) ==
    /\ hilo[c].cli = "conectar"
    /\ IF crear_conexion(c)
       THEN /\ con' = [con EXCEPT ![c] =
                          [cli |-> [@.cli EXCEPT !.estado = "abierto", !.connected = TRUE],
                           srv |-> [@.srv EXCEPT !.estado = "cola"]]]
            /\ hilo' = [hilo EXCEPT ![c].cli = "saludar", ![c].srv = "backlog"]
       ELSE Ir(c, "cli", "rechazada") /\ UNCHANGED con
    /\ UNCHANGED <<proceso, puerto, escucha>>

-----------------------------------------------------------------------------
(***************************************************************************)
(* A server: "escucha" after start_server, "acepta" with its listener      *)
(* thread, "cerrando" once a handler disconnects it (only the CPU does,    *)
(* with its kernel connected).                                             *)
(***************************************************************************)
start_server(p) == escucha' = [escucha EXCEPT ![p] = "escucha"]
server_listen_async(p) == escucha' = [escucha EXCEPT ![p] = "acepta"]

\* accept(): the listener takes one client at a time.
esperar_cliente(c) ==
    /\ hilo[c].srv = "backlog" /\ con[c].srv.estado # "cerrado"
    /\ escucha[puerto[c]] = "acepta"
    /\ \A d \in Conexiones : puerto[d] = puerto[c] => hilo[d].srv # "aceptada"
    /\ con' = [con EXCEPT ![c].srv.estado = IF @ = "cola" THEN "abierto" ELSE @]
    /\ Ir(c, "srv", "aceptada")
    /\ UNCHANGED <<proceso, puerto, escucha>>

\* The listener with an accepted client: if the server is being disconnected by then
\* the client is left there, its socket open and nobody to serve it.
handle_server(c) ==
    /\ hilo[c].srv = "aceptada"
    /\ con' = [con EXCEPT ![c].srv.connected = escucha[puerto[c]] = "acepta"]
    /\ Ir(c, "srv", IF escucha[puerto[c]] = "acepta" THEN "saludo" ELSE "olvidada")
    /\ UNCHANGED <<proceso, puerto, escucha>>

\* A handler disconnects the server: what was in the backlog is reset.
server_disconnect(c, h, a) ==
    LET p == puerto[c]
    IN  /\ escucha' = [escucha EXCEPT ![p] = "cerrando"]
        /\ con' = [d \in Conexiones |->
                      IF puerto[d] = p /\ hilo[d].srv = "backlog"
                      THEN Cerrar(con[d], "srv", "reset") ELSE con[d]]
        /\ Ir(c, h, a)
        /\ UNCHANGED <<proceso, puerto>>

\* Slip: a rejected client is destroyed without being disconnected.
NoDesconecta(c) ==
    hilo[c].srv = "rechazada" /\ socket_handler_destroy(c, "srv", "fin_rechazo")
\* handle_client after a handshake that did not accept.
handle_client(c) ==
    \/ hilo[c].srv = "rechazada" /\ socket_handler_disconnect(c, "srv", "destruir")
    \/ hilo[c].srv = "destruir" /\ socket_handler_destroy(c, "srv", "fin_rechazo")

=============================================================================
