--------------------------- MODULE SistemaProofs ---------------------------
(***************************************************************************)
(* Proofs about the start, the handshakes and the ends of the processes,   *)
(* for any number of consoles, any of which may be killed, and any port a  *)
(* console is configured with. The invariant says, of each connection by   *)
(* itself, what its two sockets, the server's threads and the client's     *)
(* agree on at every moment, whoever ended; and of the kernel and the CPU, *)
(* how far in their start they are when a connection or a server is there. *)
(***************************************************************************)
EXTENDS Sistema, TLAPS

(***************************************************************************)
(* The invariant.                                                          *)
(***************************************************************************)
Cerrados == {"cerrado", "destruido"}

\* Where a server's thread is before it reads who its client is, and where it is once
\* the answer is yes; what that answer is.
SinLeer == {"backlog", "aceptada", "saludo", "olvidada"}
Si == {"acepta", "configura"} \cup Atiende
Respuesta(c) == IF c = "cM" THEN "MEMORY_SETUP" ELSE "ACCEPTED"

\* The server will never say yes: it says no, or closed its port, or ended first.
Perdida(c) ==
    \/ hilo[c].srv \in Rechazo
    \/ hilo[c].srv = "backlog" /\ con[c].srv.estado = "cerrado"
    \/ ~Vivo(Servidor(puerto[c])) /\ hilo[c].srv \notin Atiende

Mensajes == {"CONSOLE", "CPU", "KERNEL", "ACCEPTED", "MEMORY_SETUP", "REJECTED",
             "PROGRAM", "PROGRAM_VACIO", "SUCCESS", "FAILURE", "ERROR"}
Estados == {"no", "cola", "abierto", "fin", "reset", "rota", "cerrado", "destruido"}
Lados == [estado : Estados, entrada : Seq(Mensajes), connected : BOOLEAN]
HilosCli == {"no", "conectar", "saludar", "espera", "aceptada", "rechazada",
             "programa", "cerrar", "cerrada"}
HilosLtp == {"no", "pcb", "desconecta", "destruye", "fin"} \cup Respuestas
EtapasKernel == {"crear", "memoria", "interrupt", "dispatch", "planner", "consolas",
                 "escuchar", "iniciado", "fallo"}
EtapasCpu == {"conectar", "servidor_dispatch", "dispatch", "servidor_interrupt",
              "interrupt", "mmu", "iniciado"}

Tipos ==
    /\ proceso \in [Procesos -> {"no", "vivo", "salio", "sigpipe", "nulo", "matada"}]
    /\ puerto \in [Conexiones -> Puertos]
    /\ escucha \in [Puertos -> {"no", "escucha", "acepta", "cerrando", "nulo"}]
    /\ con \in [Conexiones -> [cli : Lados, srv : Lados]]
    /\ hilo \in [Conexiones ->
                    [cli : HilosCli, srv : Antes \cup Rechazo \cup Atiende, ltp : HilosLtp]]
    /\ pc \in [{"kernel", "cpu"} -> EtapasKernel \cup EtapasCpu]

\* Only a console may have the wrong port.
PuertosFijos ==
    /\ puerto["kM"] = "memoria" /\ puerto["cM"] = "memoria"
    /\ puerto["kI"] = "interrupt" /\ puerto["kD"] = "dispatch"

\* The sockets. Before the connection there is nothing of it; from then on both
\* processes have started, and the sockets of one that ended are closed.
SinConexion(c) ==
    hilo[c].srv = "no" =>
        /\ con[c].cli = socket_handler_create /\ con[c].srv = socket_handler_create
        /\ hilo[c].ltp = "no" /\ hilo[c].cli \in {"no", "conectar", "rechazada"}
Abierta(c) ==
    hilo[c].srv # "no" =>
        /\ hilo[c].cli \notin {"no", "conectar"}
        /\ proceso[Cliente(c)] # "no" /\ proceso[Servidor(puerto[c])] # "no"
        /\ con[c].cli.estado \in {"abierto", "fin", "reset", "rota", "cerrado"}
        /\ con[c].srv.estado # "no"
        /\ Vivo(Cliente(c)) \/ con[c].cli.estado = "cerrado"
        /\ Vivo(Servidor(puerto[c])) \/ con[c].srv.estado \in Cerrados

\* One end sees the end of the other, and only then.
Extremos(c) ==
    /\ con[c].cli.estado = "abierto" <=> con[c].srv.estado \in {"abierto", "cola"}
    /\ con[c].srv.estado \in {"fin", "reset", "rota"} => con[c].cli.estado = "cerrado"
    /\ con[c].cli.estado \in {"fin", "reset", "rota"} => con[c].srv.estado \in Cerrados
    /\ con[c].cli.estado = "cerrado" =>
          /\ con[c].cli.entrada = <<>>
          /\ Vivo(Cliente(c)) => hilo[c].cli \in {"rechazada", "cerrada"}
    /\ con[c].srv.estado \in Cerrados => con[c].srv.entrada = <<>>

\* The server. Where its thread is tells what has become of its socket ...
LadoServidor(c) ==
    LET s == hilo[c].srv
        e == con[c].srv.estado
    IN  /\ e = "cola" => s = "backlog"
        /\ e = "destruido" => s \in {"fin", "fin_rechazo"}
        /\ s = "fin_rechazo" => e = "destruido"
        /\ s = "backlog" => e \in {"cola", "fin", "cerrado"}
        /\ s \in {"aceptada", "saludo", "olvidada", "rechaza", "acepta", "configura",
                  "memoria", "ltp_new_process"} => e \in {"abierto", "fin", "cerrado"}
        /\ s \notin {"rechaza_codigo", "error"}
        /\ s = "FAILURE" => e \in {"abierto", "fin", "rota", "cerrado"}
        /\ s = "desconecta" => e \in {"abierto", "fin", "reset", "rota", "cerrado"}
        /\ s \in {"FAILURE", "desconecta"} /\ e = "abierto" =>
              hilo[c].cli \in {"programa", "cerrar"}
        /\ s \in {"console_handler", "FAILURE"} /\ e \in {"reset", "rota"} =>
              hilo[c].cli = "espera"
        /\ s = "destruir_cpu" => e \in {"fin", "cerrado"}
        /\ s \in {"destruir", "destruye", "destruir_final"} =>
              e = "cerrado" /\ con[c].srv.connected = FALSE

\* ... and which connection, on which port, it can be.
Quien(c) ==
    LET s == hilo[c].srv
    IN  /\ s \in {"memoria", "destruir_cpu", "desconectar_kernel"} => c \in {"kM", "cM"}
        /\ s \in {"desconecta_servidor", "cpu", "desconectar", "destruir_final"} =>
              c \in {"kI", "kD"}
        /\ s \in {"console_handler", "ltp_new_process", "FAILURE", "desconecta", "destruye"} =>
              puerto[c] = "consolas"
        /\ s \in Si /\ c \in Consolas => puerto[c] = "consolas"
        /\ s = "acepta" => c # "cM"
        /\ s = "configura" => c = "cM"
        /\ hilo[c].cli \in {"no", "programa", "cerrar", "cerrada"} => c \in Consolas

\* The thread that ends the process of a console comes after the one that received it,
\* and is the first to tell the console anything.
Pcb(c) ==
    LET a == hilo[c].ltp
    IN  /\ a # "no" => hilo[c].srv = "fin" /\ puerto[c] = "consolas"
        /\ a # "no" \/ hilo[c].srv = "ltp_new_process" =>
              hilo[c].cli \in {"programa", "cerrar", "cerrada"}
        /\ a \in {"pcb", "SUCCESS", "FAILURE"} =>
              con[c].srv.estado \in {"abierto", "fin", "cerrado"}
        /\ a \in {"pcb", "SUCCESS", "FAILURE"} \/ hilo[c].srv = "ltp_new_process" =>
              con[c].cli.entrada = <<>>
        /\ a = "destruye" => con[c].srv.estado = "cerrado" /\ con[c].srv.connected = FALSE
Manejador(c) ==
    puerto[c] = "consolas" =>
       (con[c].srv.estado = "destruido" <=>
          hilo[c].srv \in {"fin", "fin_rechazo"} /\ hilo[c].ltp \in {"no", "fin"})

\* The console was answered, by the planner's thread or by the server's.
Respondida(c) ==
    \/ hilo[c].ltp \in {"desconecta", "destruye", "fin"}
    \/ hilo[c].ltp = "no" /\ hilo[c].srv \in {"desconecta", "destruye", "fin"}

\* The client, one by one of its stages: what may be on the way to each side, and that
\* a client who waits for an answer gets it or finds its connection ended.
Saluda(c) ==
    hilo[c].cli = "saludar" =>
        /\ con[c].cli.entrada = <<>> /\ con[c].srv.entrada = <<>>
        /\ hilo[c].srv \notin Si \cup {"rechaza"} /\ con[c].cli.estado # "rota"
        /\ Vivo(Cliente(c)) => hilo[c].srv \in SinLeer
        /\ Vivo(Cliente(c)) /\ con[c].cli.estado # "abierto" => Perdida(c)
Espera(c) ==
    hilo[c].cli = "espera" =>
        /\ con[c].srv.entrada \in {<<>>, <<Codigo(c)>>}
        /\ hilo[c].srv \notin SinLeer => con[c].srv.entrada = <<>>
        /\ hilo[c].srv \in SinLeer \cup {"acepta", "configura", "rechaza"} =>
              con[c].cli.entrada = <<>>
        /\ hilo[c].srv \in Rechazo => con[c].cli.entrada \in {<<>>, <<"REJECTED">>}
        /\ Vivo(Cliente(c)) /\ hilo[c].srv \in Atiende => con[c].cli.entrada = <<Respuesta(c)>>
        /\ con[c].cli.estado \in {"reset", "rota"} => hilo[c].srv \in SinLeer
        /\ Vivo(Cliente(c)) /\ con[c].cli.estado # "abierto" /\ con[c].cli.entrada = <<>> =>
              Perdida(c)
Rechazada(c) ==
    hilo[c].cli = "rechazada" =>
        /\ con[c].cli.entrada = <<>> /\ con[c].srv.entrada = <<>>
        /\ hilo[c].srv = "no" \/ Perdida(c)
        /\ con[c].cli.estado = "abierto" => hilo[c].srv = "rechazada"
Aceptada(c) ==
    /\ hilo[c].cli = "aceptada" =>
          /\ con[c].cli.entrada = <<>> /\ con[c].srv.entrada = <<>>
          /\ con[c].cli.estado \in {"abierto", "fin", "cerrado"}
    /\ hilo[c].cli \in {"aceptada", "programa", "cerrar", "cerrada"} => hilo[c].srv \in Atiende
    /\ hilo[c].cli \in {"programa", "cerrar", "cerrada"} =>
          /\ con[c].srv.entrada \in {<<>>, <<"PROGRAM">>, <<"PROGRAM_VACIO">>}
          /\ con[c].srv.entrada # <<>> => hilo[c].srv = "console_handler"
    /\ hilo[c].cli = "programa" =>
          /\ con[c].cli.entrada \in {<<>>, <<"SUCCESS">>, <<"FAILURE">>}
          /\ con[c].cli.entrada # <<>> => Respondida(c)
    /\ hilo[c].cli = "cerrar" =>
          /\ con[c].cli.entrada = <<>>
          /\ con[c].cli.estado = "abierto" => "desconecta" \in {hilo[c].ltp, hilo[c].srv}
    /\ hilo[c].cli = "cerrada" => con[c].cli.estado = "cerrado"

\* A client that has not finished is alive, or a console that was killed.
Matada(c) ==
    /\ c \in Consolas
       /\ hilo[c].cli \in {"saludar", "espera", "aceptada", "programa", "cerrar"} =>
          proceso[c] \in {"vivo", "matada"}
    /\ c \notin Consolas /\ hilo[c].cli \in {"saludar", "espera"} => Vivo(Cliente(c))

\* What holds of a connection: of its sockets, of the server's threads, of the client.
SocketsInv(c) == SinConexion(c) /\ Abierta(c) /\ Extremos(c)
ServidorInv(c) == LadoServidor(c) /\ Quien(c) /\ Pcb(c) /\ Manejador(c)
ClienteInv(c) == Saluda(c) /\ Espera(c) /\ Rechazada(c) /\ Aceptada(c) /\ Matada(c)
ConexionInv(c) == SocketsInv(c) /\ ServidorInv(c) /\ ClienteInv(c)

\* A server is open, and has connections, from a stage of its process on; the kernel
\* and the CPU are as far as the handshakes they finished.
EtapaInv ==
    /\ \A p \in Puertos : escucha[p] # "no" => Vivo(Servidor(p))
    /\ escucha["interrupt"] # "no" => pc["cpu"] \in {"interrupt", "mmu", "iniciado"}
    /\ escucha["dispatch"] # "no" => pc["cpu"] \notin {"conectar", "servidor_dispatch"}
    /\ escucha["consolas"] # "no" => pc["kernel"] \in {"escuchar", "iniciado"}
    /\ \A c \in Conexiones : hilo[c].srv # "no" =>
          /\ puerto[c] = "interrupt" => pc["cpu"] \in {"interrupt", "mmu", "iniciado"}
          /\ puerto[c] = "dispatch" => pc["cpu"] \notin {"conectar", "servidor_dispatch"}
          /\ puerto[c] = "consolas" => pc["kernel"] \in {"escuchar", "iniciado"}
    /\ hilo["cM"].cli # "aceptada" => pc["cpu"] = "conectar"
    /\ hilo["kM"].cli # "aceptada" => pc["kernel"] \in {"crear", "memoria"}
    /\ hilo["kI"].cli # "aceptada" => pc["kernel"] \in {"crear", "memoria", "interrupt"}
    /\ hilo["kD"].cli # "aceptada" =>
          pc["kernel"] \in {"crear", "memoria", "interrupt", "dispatch"}
    /\ pc["kernel"] = "crear" => hilo["kM"].cli = "conectar"
    /\ pc["kernel"] \in {"crear", "memoria"} => hilo["kI"].cli = "conectar"
    /\ pc["kernel"] \in {"crear", "memoria", "interrupt"} => hilo["kD"].cli = "conectar"
    /\ escucha["interrupt"] \in {"cerrando", "nulo"} => hilo["kI"].srv # "no"
    /\ escucha["dispatch"] \in {"cerrando", "nulo"} => hilo["kD"].srv # "no"
    /\ proceso["cpu"] = "nulo" => pc["cpu"] \in {"interrupt", "mmu", "iniciado"}
    /\ proceso["kernel"] = "no" => pc["kernel"] = "crear"
    /\ proceso["cpu"] = "no" => pc["cpu"] = "conectar"

\* All together: the types, the ports, how far the kernel and the CPU are, what may kill a
\* process, and each connection.
SistemaInv ==
    /\ Tipos /\ PuertosFijos /\ EtapaInv /\ SigpipeSoloPorMatada
    /\ \A c \in Conexiones : ConexionInv(c)

-----------------------------------------------------------------------------
(***************************************************************************)
(* Sequences of one message.                                               *)
(***************************************************************************)
\* The queue of a socket holds one message at most: what sending and receiving it leave.
LEMMA UnMensaje ==
    ASSUME NEW S, NEW m \in S
    PROVE  /\ <<m>> \in Seq(S) /\ <<>> \in Seq(S) /\ <<m>> # <<>>
           /\ Append(<<>>, m) = <<m>> /\ Head(<<m>>) = m /\ Tail(<<m>>) = <<>>
           /\ Len(<<>>) = 0 /\ Len(<<m>>) = 1
  OBVIOUS

\* The connections and the processes that are not of a console, and who is at each end.
LEMMA Conocidas ==
    /\ {"kM", "kI", "kD", "cM"} \subseteq Conexiones
    /\ Consolas \subseteq Conexiones /\ Consolas \subseteq Procesos
    /\ \A c \in Conexiones : c \notin Consolas => c \in {"kM", "kI", "kD", "cM"}
    /\ "kM" \notin Consolas /\ "cM" \notin Consolas
    /\ "kI" \notin Consolas /\ "kD" \notin Consolas
    /\ "memoria" \notin Consolas /\ "cpu" \notin Consolas /\ "kernel" \notin Consolas
    /\ \A c \in Conexiones : Cliente(c) \in Procesos
    /\ \A p \in Puertos : Servidor(p) \in Procesos /\ Servidor(p) \notin Consolas
  BY ConsolasAssumption DEF Conexiones, Procesos, Cliente, Servidor

\* What Cerrar does to each of the two sides of a connection.
LEMMA CierraCliente ==
    ASSUME NEW r \in [cli : Lados, srv : Lados], NEW d \in {"reset", "rota"}
    PROVE  LET q == Cerrar(r, "cli", d)
           IN  /\ q \in [cli : Lados, srv : Lados]
               /\ q.cli.connected = r.cli.connected /\ q.srv.connected = r.srv.connected
               /\ q.srv.entrada = r.srv.entrada
               /\ r.cli.estado \in {"no", "cerrado", "destruido"} => q = r
               /\ r.cli.estado \notin {"no", "cerrado", "destruido"} =>
                     /\ q.cli.estado = "cerrado" /\ q.cli.entrada = <<>>
                     /\ r.srv.estado \notin {"abierto", "cola"} => q.srv.estado = r.srv.estado
                     /\ r.srv.estado \in {"abierto", "cola"} =>
                           q.srv.estado = IF r.cli.estado = "cola" THEN "reset"
                                          ELSE IF r.cli.entrada = <<>> THEN "fin" ELSE d
<1> DEFINE q == Cerrar(r, "cli", d)
<1>1. <<>> \in Seq(Mensajes)
  OBVIOUS
<1>2. CASE r.cli.estado \in {"no", "cerrado", "destruido"}
  BY <1>2 DEF Cerrar
<1>3. CASE r.cli.estado \notin {"no", "cerrado", "destruido"}
  BY <1>1, <1>3 DEF Cerrar, Otro, Lados, Estados
<1> QED
  BY <1>2, <1>3

\* The same, when the server closes.
LEMMA CierraServidor ==
    ASSUME NEW r \in [cli : Lados, srv : Lados], NEW d \in {"reset", "rota"}
    PROVE  LET q == Cerrar(r, "srv", d)
           IN  /\ q \in [cli : Lados, srv : Lados]
               /\ q.cli.connected = r.cli.connected /\ q.srv.connected = r.srv.connected
               /\ q.cli.entrada = r.cli.entrada
               /\ r.srv.estado \in {"no", "cerrado", "destruido"} => q = r
               /\ r.srv.estado \notin {"no", "cerrado", "destruido"} =>
                     /\ q.srv.estado = "cerrado" /\ q.srv.entrada = <<>>
                     /\ r.cli.estado \notin {"abierto", "cola"} => q.cli.estado = r.cli.estado
                     /\ r.cli.estado \in {"abierto", "cola"} =>
                           q.cli.estado = IF r.srv.estado = "cola" THEN "reset"
                                          ELSE IF r.srv.entrada = <<>> THEN "fin" ELSE d
<1> DEFINE q == Cerrar(r, "srv", d)
<1>1. <<>> \in Seq(Mensajes)
  OBVIOUS
<1>2. CASE r.srv.estado \in {"no", "cerrado", "destruido"}
  BY <1>2 DEF Cerrar
<1>3. CASE r.srv.estado \notin {"no", "cerrado", "destruido"}
  BY <1>1, <1>3 DEF Cerrar, Otro, Lados, Estados
<1> QED
  BY <1>2, <1>3

-----------------------------------------------------------------------------
(***************************************************************************)
(* The calls of a thread, as equations over the two sides.                 *)
(***************************************************************************)
\* The other connections stay as they are.
Ajenas(c) == \A d \in Conexiones \ {c} : con'[d] = con[d] /\ hilo'[d] = hilo[d]
\* Thread h of the connection goes to a, the other two stay.
Mueve(c, h, a) ==
    /\ hilo' \in [Conexiones -> [cli : HilosCli, srv : Antes \cup Rechazo \cup Atiende,
                                 ltp : HilosLtp]]
    /\ hilo'[c].cli = IF h = "cli" THEN a ELSE hilo[c].cli
    /\ hilo'[c].srv = IF h = "srv" THEN a ELSE hilo[c].srv
    /\ hilo'[c].ltp = IF h = "ltp" THEN a ELSE hilo[c].ltp
\* a is a point of the code of h.
Valor(h, a) ==
    \/ h = "cli" /\ a \in HilosCli
    \/ h = "srv" /\ a \in Antes \cup Rechazo \cup Atiende
    \/ h = "ltp" /\ a \in HilosLtp

\* A thread of a connection moves to a point of its own.
LEMMA IrMueve ==
    ASSUME Tipos, NEW c \in Conexiones, NEW h \in {"cli", "srv", "ltp"}, NEW a, Valor(h, a),
           Ir(c, h, a)
    PROVE  Mueve(c, h, a) /\ \A d \in Conexiones \ {c} : hilo'[d] = hilo[d]
<1>1. CASE h = "cli"
  BY DEF Tipos, Valor, Ir, Mueve
<1>2. CASE h = "srv"
  BY DEF Tipos, Valor, Ir, Mueve
<1>3. CASE h = "ltp"
  BY DEF Tipos, Valor, Ir, Mueve
<1> QED
  BY <1>1, <1>2, <1>3

\* A send of the server's side: into the queue of an open peer, lost on a closed one,
\* or the end of the process.
EnviaSrv(c, m) ==
    /\ con' \in [Conexiones -> [cli : Lados, srv : Lados]]
    /\ con'[c].srv.entrada = con[c].srv.entrada /\ con'[c].srv.connected = con[c].srv.connected
    /\ con'[c].cli.estado = con[c].cli.estado /\ con'[c].cli.connected = con[c].cli.connected
    /\ con[c].srv.estado = "abierto" =>
          con'[c].srv.estado = "abierto" /\ con'[c].cli.entrada = Append(con[c].cli.entrada, m)
    /\ con[c].srv.estado # "abierto" => con'[c].cli.entrada = con[c].cli.entrada
    /\ con[c].srv.estado = "fin" => con'[c].srv.estado \in {"fin", "rota"}
    /\ con[c].srv.estado = "reset" => con'[c].srv.estado = "rota"
    /\ con[c].srv.estado \in {"abierto", "fin", "reset"}

\* send_message of a thread of the server, on a socket that is not past a reset.
LEMMA EnvioServidor ==
    ASSUME Tipos, NEW c \in Conexiones, NEW h \in {"srv", "ltp"}, NEW m \in Mensajes,
           NEW b, NEW mal, Valor(h, b), Valor(h, mal),
           send_message(c, h, m, b, mal), con[c].srv.estado # "rota"
    PROVE  /\ EnviaSrv(c, m) /\ Ajenas(c) /\ UNCHANGED <<proceso, puerto, escucha>>
           /\ con[c].srv.estado = "reset" => Mueve(c, h, mal)
           /\ con[c].srv.estado # "reset" => Mueve(c, h, b)
<1>1. Lado(h) = "srv" /\ Otro(Lado(h)) = "cli"
  BY DEF Lado, Otro
<1>2. con[c].cli \in Lados /\ con[c].srv \in Lados
  BY DEF Tipos
<1>3. Append(con[c].cli.entrada, m) \in Seq(Mensajes)
  BY <1>2 DEF Lados
<1>4. CASE con[c].srv.estado = "abierto"
  <2>1. /\ con' = [con EXCEPT ![c]["cli"].entrada = Append(@, m)]
        /\ Ir(c, h, b) /\ UNCHANGED <<proceso, puerto, escucha>>
    BY <1>1, <1>4 DEF send_message
  <2>2. EnviaSrv(c, m) /\ \A d \in Conexiones \ {c} : con'[d] = con[d]
    BY <1>2, <1>3, <1>4, <2>1, ZenonT(60) DEF Tipos, EnviaSrv, Lados
  <2> QED
    BY <1>4, <2>1, <2>2, IrMueve DEF Ajenas
<1>5. CASE con[c].srv.estado = "fin"
  <2>1. PICK e \in {"fin", "rota"} :
             /\ con' = [con EXCEPT ![c]["srv"].estado = e]
             /\ Ir(c, h, b) /\ UNCHANGED <<proceso, puerto, escucha>>
    BY <1>1, <1>5 DEF send_message
  <2>2. EnviaSrv(c, m) /\ \A d \in Conexiones \ {c} : con'[d] = con[d]
    BY <1>2, <1>5, <2>1 DEF Tipos, EnviaSrv, Lados, Estados
  <2> QED
    BY <1>5, <2>1, <2>2, IrMueve DEF Ajenas
<1>6. CASE con[c].srv.estado = "reset"
  <2>1. /\ con' = [con EXCEPT ![c]["srv"].estado = "rota"]
        /\ Ir(c, h, mal) /\ UNCHANGED <<proceso, puerto, escucha>>
    BY <1>1, <1>6 DEF send_message
  <2>2. EnviaSrv(c, m) /\ \A d \in Conexiones \ {c} : con'[d] = con[d]
    BY <1>2, <1>6, <2>1 DEF Tipos, EnviaSrv, Lados, Estados
  <2> QED
    BY <1>6, <2>1, <2>2, IrMueve DEF Ajenas
<1> QED
  BY <1>1, <1>4, <1>5, <1>6 DEF send_message

\* The same of the client's side.
EnviaCli(c, m) ==
    /\ con' \in [Conexiones -> [cli : Lados, srv : Lados]]
    /\ con'[c].cli.entrada = con[c].cli.entrada /\ con'[c].cli.connected = con[c].cli.connected
    /\ con'[c].srv.estado = con[c].srv.estado /\ con'[c].srv.connected = con[c].srv.connected
    /\ con[c].cli.estado = "abierto" =>
          con'[c].cli.estado = "abierto" /\ con'[c].srv.entrada = Append(con[c].srv.entrada, m)
    /\ con[c].cli.estado # "abierto" => con'[c].srv.entrada = con[c].srv.entrada
    /\ con[c].cli.estado = "fin" => con'[c].cli.estado \in {"fin", "rota"}
    /\ con[c].cli.estado = "reset" => con'[c].cli.estado = "rota"
    /\ con[c].cli.estado \in {"abierto", "fin", "reset"}

\* send_message of the client, on a socket that is not past a reset.
LEMMA EnvioCliente ==
    ASSUME Tipos, NEW c \in Conexiones, NEW m \in Mensajes,
           NEW b \in HilosCli, NEW mal \in HilosCli,
           send_message(c, "cli", m, b, mal), con[c].cli.estado # "rota"
    PROVE  /\ EnviaCli(c, m) /\ Ajenas(c) /\ UNCHANGED <<proceso, puerto, escucha>>
           /\ con[c].cli.estado = "reset" => Mueve(c, "cli", mal)
           /\ con[c].cli.estado # "reset" => Mueve(c, "cli", b)
<1>1. Lado("cli") = "cli" /\ Otro(Lado("cli")) = "srv" /\ Valor("cli", b) /\ Valor("cli", mal)
  BY DEF Lado, Otro, Valor
<1>2. con[c].cli \in Lados /\ con[c].srv \in Lados
  BY DEF Tipos
<1>3. Append(con[c].srv.entrada, m) \in Seq(Mensajes)
  BY <1>2 DEF Lados
<1>4. CASE con[c].cli.estado = "abierto"
  <2>1. /\ con' = [con EXCEPT ![c]["srv"].entrada = Append(@, m)]
        /\ Ir(c, "cli", b) /\ UNCHANGED <<proceso, puerto, escucha>>
    BY <1>1, <1>4 DEF send_message
  <2>2. EnviaCli(c, m) /\ \A d \in Conexiones \ {c} : con'[d] = con[d]
    BY <1>2, <1>3, <1>4, <2>1, ZenonT(60) DEF Tipos, EnviaCli, Lados
  <2> QED
    BY <1>1, <1>4, <2>1, <2>2, IrMueve DEF Ajenas
<1>5. CASE con[c].cli.estado = "fin"
  <2>1. PICK e \in {"fin", "rota"} :
             /\ con' = [con EXCEPT ![c]["cli"].estado = e]
             /\ Ir(c, "cli", b) /\ UNCHANGED <<proceso, puerto, escucha>>
    BY <1>1, <1>5 DEF send_message
  <2>2. EnviaCli(c, m) /\ \A d \in Conexiones \ {c} : con'[d] = con[d]
    BY <1>2, <1>5, <2>1 DEF Tipos, EnviaCli, Lados, Estados
  <2> QED
    BY <1>1, <1>5, <2>1, <2>2, IrMueve DEF Ajenas
<1>6. CASE con[c].cli.estado = "reset"
  <2>1. /\ con' = [con EXCEPT ![c]["cli"].estado = "rota"]
        /\ Ir(c, "cli", mal) /\ UNCHANGED <<proceso, puerto, escucha>>
    BY <1>1, <1>6 DEF send_message
  <2>2. EnviaCli(c, m) /\ \A d \in Conexiones \ {c} : con'[d] = con[d]
    BY <1>2, <1>6, <2>1 DEF Tipos, EnviaCli, Lados, Estados
  <2> QED
    BY <1>1, <1>6, <2>1, <2>2, IrMueve DEF Ajenas
<1> QED
  BY <1>1, <1>4, <1>5, <1>6 DEF send_message

\* A receive: the first package, or the state of the connection, the reset only once.
RecibeSrv(c) ==
    /\ con' \in [Conexiones -> [cli : Lados, srv : Lados]]
    /\ con'[c].cli = con[c].cli /\ con'[c].srv.connected = con[c].srv.connected
    /\ con[c].srv.entrada # <<>> =>
          con'[c].srv.entrada = Tail(con[c].srv.entrada)
          /\ con'[c].srv.estado = con[c].srv.estado
    /\ con[c].srv.entrada = <<>> =>
          /\ con[c].srv.estado # "abierto" /\ con'[c].srv.entrada = <<>>
          /\ con'[c].srv.estado = IF con[c].srv.estado = "reset" THEN "rota"
                ELSE con[c].srv.estado

\* recieve_message of a thread of the server.
LEMMA RecepcionServidor ==
    ASSUME Tipos, NEW c \in Conexiones, NEW a \in Antes \cup Rechazo \cup Atiende,
           recieve_message(c, "srv", a)
    PROVE  /\ RecibeSrv(c) /\ Ajenas(c) /\ Mueve(c, "srv", a)
           /\ UNCHANGED <<proceso, puerto, escucha>>
<1>1. Lado("srv") = "srv" /\ Valor("srv", a)
  BY DEF Lado, Valor
<1>2. con[c].cli \in Lados /\ con[c].srv \in Lados
  BY DEF Tipos
<1>3. con[c].srv.entrada # <<>> => Tail(con[c].srv.entrada) \in Seq(Mensajes)
  BY <1>2 DEF Lados
<1>4. /\ con[c].srv.entrada # <<>> \/ con[c].srv.estado # "abierto"
      /\ con' = [con EXCEPT
                    ![c]["srv"].entrada = IF @ = <<>> THEN @ ELSE Tail(@),
                    ![c]["srv"].estado = IF con[c].srv.entrada = <<>> /\ @ = "reset" THEN "rota"
                                         ELSE @]
      /\ Ir(c, "srv", a) /\ UNCHANGED <<proceso, puerto, escucha>>
  BY <1>1 DEF recieve_message
<1> DEFINE n == IF con[c].srv.entrada = <<>> THEN <<>> ELSE Tail(con[c].srv.entrada)
           e == IF con[c].srv.entrada = <<>> /\ con[c].srv.estado = "reset" THEN "rota"
                ELSE con[c].srv.estado
<1>5. con' = [con EXCEPT ![c]["srv"].entrada = n, ![c]["srv"].estado = e]
  <2>1. CASE con[c].srv.entrada = <<>>
    BY <1>4
  <2>2. CASE con[c].srv.entrada # <<>>
    BY <1>4
  <2> QED
    BY <2>1, <2>2
<1>6. n \in Seq(Mensajes) /\ e \in Estados
  BY <1>2 DEF Lados, Estados
<1>7. /\ con[c].srv.entrada # <<>> => n = Tail(con[c].srv.entrada) /\ e = con[c].srv.estado
      /\ con[c].srv.entrada = <<>> =>
            n = <<>> /\ e = IF con[c].srv.estado = "reset" THEN "rota" ELSE con[c].srv.estado
  OBVIOUS
<1> HIDE DEF n, e
<1>8. /\ con' \in [Conexiones -> [cli : Lados, srv : Lados]]
      /\ con'[c].cli = con[c].cli /\ con'[c].srv.connected = con[c].srv.connected
      /\ con'[c].srv.entrada = n /\ con'[c].srv.estado = e
      /\ \A d \in Conexiones \ {c} : con'[d] = con[d]
  <2> PICK m : m = [con EXCEPT ![c]["srv"].entrada = n]
    OBVIOUS
  <2>1. con' = [m EXCEPT ![c]["srv"].estado = e]
    BY <1>5
  <2>2. m[c].cli = con[c].cli /\ \A d \in Conexiones \ {c} : m[d] = con[d]
    OBVIOUS
  <2>3. m[c].srv = [con[c].srv EXCEPT !.entrada = n]
    BY DEF Tipos
  <2>4. /\ m[c].srv \in Lados /\ [con[c]["srv"] EXCEPT !.entrada = n] \in Lados
        /\ m[c].srv.connected = con[c].srv.connected /\ m[c].srv.entrada = n
    BY <1>2, <1>6, <2>3, ZenonT(60) DEF Lados
  <2> PICK t : t = [con[c]["srv"] EXCEPT !.entrada = n]
    OBVIOUS
  <2>5. m \in [Conexiones -> [cli : Lados, srv : Lados]]
    <3>1. t \in Lados
      BY <2>4
    <3>2. m = [con EXCEPT ![c]["srv"] = t]
      OBVIOUS
    <3>3. con \in [Conexiones -> [cli : Lados, srv : Lados]]
      BY DEF Tipos
    <3> QED
      BY <3>1, <3>3
  <2>6. con'[c].cli = con[c].cli /\ \A d \in Conexiones \ {c} : con'[d] = con[d]
    BY <2>1, <2>5
  <2>7. con'[c].srv = [m[c].srv EXCEPT !.estado = e]
    BY <2>1, <2>5
  <2>8. /\ con'[c].srv \in Lados
        /\ con'[c].srv.connected = con[c].srv.connected /\ con'[c].srv.entrada = n
        /\ con'[c].srv.estado = e
    BY <1>6, <2>4, <2>7 DEF Lados
  <2>9. con' \in [Conexiones -> [cli : Lados, srv : Lados]]
    BY <2>1, <2>5
  <2> QED
    BY <2>6, <2>8, <2>9
<1> QED
  BY <1>1, <1>4, <1>7, <1>8, IrMueve DEF Ajenas, RecibeSrv

RecibeCli(c) ==
    /\ con' \in [Conexiones -> [cli : Lados, srv : Lados]]
    /\ con'[c].srv = con[c].srv /\ con'[c].cli.connected = con[c].cli.connected
    /\ con[c].cli.entrada # <<>> =>
          con'[c].cli.entrada = Tail(con[c].cli.entrada)
          /\ con'[c].cli.estado = con[c].cli.estado
    /\ con[c].cli.entrada = <<>> =>
          /\ con[c].cli.estado # "abierto" /\ con'[c].cli.entrada = <<>>
          /\ con'[c].cli.estado = IF con[c].cli.estado = "reset" THEN "rota"
                ELSE con[c].cli.estado

\* recieve_message of the client.
LEMMA RecepcionCliente ==
    ASSUME Tipos, NEW c \in Conexiones, NEW a \in HilosCli, recieve_message(c, "cli", a)
    PROVE  /\ RecibeCli(c) /\ Ajenas(c) /\ Mueve(c, "cli", a)
           /\ UNCHANGED <<proceso, puerto, escucha>>
<1>1. Lado("cli") = "cli" /\ Valor("cli", a)
  BY DEF Lado, Valor
<1>2. con[c].cli \in Lados /\ con[c].srv \in Lados
  BY DEF Tipos
<1>3. con[c].cli.entrada # <<>> => Tail(con[c].cli.entrada) \in Seq(Mensajes)
  BY <1>2 DEF Lados
<1>4. /\ con[c].cli.entrada # <<>> \/ con[c].cli.estado # "abierto"
      /\ con' = [con EXCEPT
                    ![c]["cli"].entrada = IF @ = <<>> THEN @ ELSE Tail(@),
                    ![c]["cli"].estado = IF con[c].cli.entrada = <<>> /\ @ = "reset" THEN "rota"
                                         ELSE @]
      /\ Ir(c, "cli", a) /\ UNCHANGED <<proceso, puerto, escucha>>
  BY <1>1 DEF recieve_message
<1> DEFINE n == IF con[c].cli.entrada = <<>> THEN <<>> ELSE Tail(con[c].cli.entrada)
           e == IF con[c].cli.entrada = <<>> /\ con[c].cli.estado = "reset" THEN "rota"
                ELSE con[c].cli.estado
<1>5. con' = [con EXCEPT ![c]["cli"].entrada = n, ![c]["cli"].estado = e]
  <2>1. CASE con[c].cli.entrada = <<>>
    BY <1>4
  <2>2. CASE con[c].cli.entrada # <<>>
    BY <1>4
  <2> QED
    BY <2>1, <2>2
<1>6. n \in Seq(Mensajes) /\ e \in Estados
  BY <1>2 DEF Lados, Estados
<1>7. /\ con[c].cli.entrada # <<>> => n = Tail(con[c].cli.entrada) /\ e = con[c].cli.estado
      /\ con[c].cli.entrada = <<>> =>
            n = <<>> /\ e = IF con[c].cli.estado = "reset" THEN "rota" ELSE con[c].cli.estado
  OBVIOUS
<1> HIDE DEF n, e
<1>8. /\ con' \in [Conexiones -> [cli : Lados, srv : Lados]]
      /\ con'[c].srv = con[c].srv /\ con'[c].cli.connected = con[c].cli.connected
      /\ con'[c].cli.entrada = n /\ con'[c].cli.estado = e
      /\ \A d \in Conexiones \ {c} : con'[d] = con[d]
  <2> PICK m : m = [con EXCEPT ![c]["cli"].entrada = n]
    OBVIOUS
  <2>1. con' = [m EXCEPT ![c]["cli"].estado = e]
    BY <1>5
  <2>2. m[c].srv = con[c].srv /\ \A d \in Conexiones \ {c} : m[d] = con[d]
    OBVIOUS
  <2>3. m[c].cli = [con[c].cli EXCEPT !.entrada = n]
    BY DEF Tipos
  <2>4. /\ m[c].cli \in Lados /\ [con[c]["cli"] EXCEPT !.entrada = n] \in Lados
        /\ m[c].cli.connected = con[c].cli.connected /\ m[c].cli.entrada = n
    BY <1>2, <1>6, <2>3, ZenonT(60) DEF Lados
  <2> PICK t : t = [con[c]["cli"] EXCEPT !.entrada = n]
    OBVIOUS
  <2>5. m \in [Conexiones -> [cli : Lados, srv : Lados]]
    <3>1. t \in Lados
      BY <2>4
    <3>2. m = [con EXCEPT ![c]["cli"] = t]
      OBVIOUS
    <3>3. con \in [Conexiones -> [cli : Lados, srv : Lados]]
      BY DEF Tipos
    <3> QED
      BY <3>1, <3>3
  <2>6. con'[c].srv = con[c].srv /\ \A d \in Conexiones \ {c} : con'[d] = con[d]
    BY <2>1, <2>5
  <2>7. con'[c].cli = [m[c].cli EXCEPT !.estado = e]
    BY <2>1, <2>5
  <2>8. /\ con'[c].cli \in Lados
        /\ con'[c].cli.connected = con[c].cli.connected /\ con'[c].cli.entrada = n
        /\ con'[c].cli.estado = e
    BY <1>6, <2>4, <2>7 DEF Lados
  <2>9. con' \in [Conexiones -> [cli : Lados, srv : Lados]]
    BY <2>1, <2>5
  <2> QED
    BY <2>6, <2>8, <2>9
<1> QED
  BY <1>1, <1>4, <1>7, <1>8, IrMueve DEF Ajenas, RecibeCli

\* The two sides after one of them is closed.
CierraSrv(r, q, d) ==
    /\ q.cli.connected = r.cli.connected /\ q.cli.entrada = r.cli.entrada
    /\ r.srv.estado \in {"no", "cerrado", "destruido"} =>
          q.cli = r.cli /\ q.srv.estado = r.srv.estado /\ q.srv.entrada = r.srv.entrada
    /\ r.srv.estado \notin {"no", "cerrado", "destruido"} =>
          /\ q.srv.estado = "cerrado" /\ q.srv.entrada = <<>>
          /\ r.cli.estado \notin {"abierto", "cola"} => q.cli.estado = r.cli.estado
          /\ r.cli.estado \in {"abierto", "cola"} =>
                q.cli.estado = IF r.srv.estado = "cola" THEN "reset"
                               ELSE IF r.srv.entrada = <<>> THEN "fin" ELSE d
CierraCli(r, q, d) ==
    /\ q.srv.connected = r.srv.connected /\ q.srv.entrada = r.srv.entrada
    /\ r.cli.estado \in {"no", "cerrado", "destruido"} =>
          q.srv = r.srv /\ q.cli.estado = r.cli.estado /\ q.cli.entrada = r.cli.entrada
    /\ r.cli.estado \notin {"no", "cerrado", "destruido"} =>
          /\ q.cli.estado = "cerrado" /\ q.cli.entrada = <<>>
          /\ r.srv.estado \notin {"abierto", "cola"} => q.srv.estado = r.srv.estado
          /\ r.srv.estado \in {"abierto", "cola"} =>
                q.srv.estado = IF r.cli.estado = "cola" THEN "reset"
                               ELSE IF r.cli.entrada = <<>> THEN "fin" ELSE d

\* socket_handler_disconnect of the server's end.
LEMMA DesconexionServidor ==
    ASSUME Tipos, NEW c \in Conexiones, NEW h \in {"srv", "ltp"}, NEW a, Valor(h, a),
           socket_handler_disconnect(c, h, a)
    PROVE  /\ con' \in [Conexiones -> [cli : Lados, srv : Lados]]
           /\ CierraSrv(con[c], con'[c], "rota") /\ con'[c].srv.connected = FALSE
           /\ Ajenas(c) /\ Mueve(c, h, a) /\ UNCHANGED <<proceso, puerto, escucha>>
<1>1. Lado(h) = "srv"
  BY DEF Lado
<1>2. con[c] \in [cli : Lados, srv : Lados]
  BY DEF Tipos
<1> DEFINE q == Cerrar(con[c], "srv", "rota")
<1>3. /\ con' = [con EXCEPT ![c] = [q EXCEPT !["srv"].connected = FALSE]]
      /\ Ir(c, h, a) /\ UNCHANGED <<proceso, puerto, escucha>>
  BY <1>1 DEF socket_handler_disconnect, liberar_conexion
<1>4. CierraSrv(con[c], q, "rota") /\ q \in [cli : Lados, srv : Lados]
  BY <1>2, CierraServidor DEF CierraSrv
<1> HIDE DEF q
<1>5. /\ con' \in [Conexiones -> [cli : Lados, srv : Lados]]
      /\ CierraSrv(con[c], con'[c], "rota") /\ con'[c].srv.connected = FALSE
      /\ \A d \in Conexiones \ {c} : con'[d] = con[d]
  BY <1>3, <1>4 DEF Tipos, CierraSrv, Lados
<1> QED
  BY <1>3, <1>5, IrMueve DEF Ajenas

\* socket_handler_disconnect of the client's end.
LEMMA DesconexionCliente ==
    ASSUME Tipos, NEW c \in Conexiones, NEW a \in HilosCli,
           socket_handler_disconnect(c, "cli", a)
    PROVE  /\ con' \in [Conexiones -> [cli : Lados, srv : Lados]]
           /\ CierraCli(con[c], con'[c], "rota") /\ con'[c].cli.connected = FALSE
           /\ Ajenas(c) /\ Mueve(c, "cli", a) /\ UNCHANGED <<proceso, puerto, escucha>>
<1>1. Lado("cli") = "cli" /\ Valor("cli", a)
  BY DEF Lado, Valor
<1>2. con[c] \in [cli : Lados, srv : Lados]
  BY DEF Tipos
<1> DEFINE q == Cerrar(con[c], "cli", "rota")
<1>3. /\ con' = [con EXCEPT ![c] = [q EXCEPT !["cli"].connected = FALSE]]
      /\ Ir(c, "cli", a) /\ UNCHANGED <<proceso, puerto, escucha>>
  BY <1>1 DEF socket_handler_disconnect, liberar_conexion
<1>4. CierraCli(con[c], q, "rota") /\ q \in [cli : Lados, srv : Lados]
  BY <1>2, CierraCliente DEF CierraCli
<1> HIDE DEF q
<1>5. /\ con' \in [Conexiones -> [cli : Lados, srv : Lados]]
      /\ CierraCli(con[c], con'[c], "rota") /\ con'[c].cli.connected = FALSE
      /\ \A d \in Conexiones \ {c} : con'[d] = con[d]
  BY <1>3, <1>4 DEF Tipos, CierraCli, Lados
<1> QED
  BY <1>1, <1>3, <1>5, IrMueve DEF Ajenas

\* socket_handler_destroy, which a handler still connected refuses.
LEMMA Destruccion ==
    ASSUME Tipos, NEW c \in Conexiones, NEW h \in {"srv", "ltp"}, NEW a, Valor(h, a),
           socket_handler_destroy(c, h, a)
    PROVE  /\ con' \in [Conexiones -> [cli : Lados, srv : Lados]]
           /\ con'[c].cli = con[c].cli /\ con'[c].srv.entrada = con[c].srv.entrada
           /\ con'[c].srv.estado \in {con[c].srv.estado, "destruido"}
           /\ con[c].srv.connected = FALSE => con'[c].srv.estado = "destruido"
           /\ Ajenas(c) /\ Mueve(c, h, a) /\ UNCHANGED <<proceso, puerto, escucha>>
<1>1. Lado(h) = "srv"
  BY DEF Lado
<1>2. con[c].cli \in Lados /\ con[c].srv \in Lados
  BY DEF Tipos
<1>3. /\ con' = [con EXCEPT ![c]["srv"].estado =
                    IF con[c]["srv"].connected THEN @ ELSE "destruido"]
      /\ Ir(c, h, a) /\ UNCHANGED <<proceso, puerto, escucha>>
  BY <1>1 DEF socket_handler_destroy
<1>4. CASE con[c].srv.connected = FALSE
  <2>1. con' = [con EXCEPT ![c]["srv"].estado = "destruido"]
    BY <1>3, <1>4
  <2>2. /\ con' \in [Conexiones -> [cli : Lados, srv : Lados]]
        /\ con'[c].cli = con[c].cli /\ con'[c].srv.entrada = con[c].srv.entrada
        /\ con'[c].srv.connected = con[c].srv.connected /\ con'[c].srv.estado = "destruido"
        /\ \A d \in Conexiones \ {c} : con'[d] = con[d]
    BY <1>2, <2>1, ZenonT(60) DEF Tipos, Lados, Estados
  <2>3. con'[c].srv.estado \in {con[c].srv.estado, "destruido"}
    BY <2>2
  <2>4. Ajenas(c) /\ Mueve(c, h, a)
    BY <1>3, IrMueve DEF Ajenas
  <2> QED
    BY <1>3, <2>2, <2>4, Zenon
<1>5. CASE con[c].srv.connected = TRUE
  <2>1. con' = [con EXCEPT ![c]["srv"].estado = con[c]["srv"].estado]
    BY <1>3, <1>5
  <2>2. /\ con' \in [Conexiones -> [cli : Lados, srv : Lados]]
        /\ con'[c].cli = con[c].cli /\ con'[c].srv.entrada = con[c].srv.entrada
        /\ con'[c].srv.connected = con[c].srv.connected
        /\ con'[c].srv.estado = con[c].srv.estado
        /\ \A d \in Conexiones \ {c} : con'[d] = con[d]
    BY <1>2, <2>1, ZenonT(60) DEF Tipos, Lados, Estados
  <2>3. con[c].srv.connected = FALSE => con'[c].srv.estado = "destruido"
    BY <1>5
  <2>4. Ajenas(c) /\ Mueve(c, h, a)
    BY <1>3, IrMueve DEF Ajenas
  <2> QED
    BY <1>3, <2>2, <2>3, <2>4, Zenon
<1> QED
  BY <1>2, <1>4, <1>5 DEF Lados

-----------------------------------------------------------------------------
(***************************************************************************)
(* A step of one connection leaves the others as they were.                *)
(***************************************************************************)
\* A connection that a step leaves alone, as it leaves its two processes, keeps its invariant.
LEMMA OtraConexion ==
    ASSUME NEW d \in Conexiones, ConexionInv(d), con'[d] = con[d], hilo'[d] = hilo[d],
           UNCHANGED puerto, proceso'[Cliente(d)] = proceso[Cliente(d)],
           proceso'[Servidor(puerto[d])] = proceso[Servidor(puerto[d])]
    PROVE  ConexionInv(d)'
<1>1. d \in Consolas => proceso'[d] = proceso[d]
  BY DEF Cliente
<1>2. Codigo(d)' = Codigo(d) /\ Respuesta(d)' = Respuesta(d)
  OBVIOUS
<1> QED
  BY <1>1
     DEF ConexionInv, SocketsInv, ServidorInv, ClienteInv, SinConexion, Abierta, Extremos,
         LadoServidor, Quien, Pcb, Manejador, Saluda, Espera, Rechazada, Aceptada, Matada,
         Perdida, Vivo, Respondida

\* The stages are those they were when a step starts no connection and undoes no handshake.
LEMMA EtapaIgual ==
    ASSUME Tipos, EtapaInv, NEW c \in Conexiones,
           \A d \in Conexiones \ {c} : hilo'[d] = hilo[d],
           UNCHANGED <<proceso, puerto, escucha, pc>>,
           hilo'[c].srv = "no" <=> hilo[c].srv = "no",
           c \notin Consolas => (hilo[c].cli = "aceptada" => hilo'[c].cli = "aceptada"),
           c \notin Consolas => (hilo[c].cli = "conectar" <=> hilo'[c].cli = "conectar")
    PROVE  EtapaInv'
<1>1. \A d \in Conexiones : hilo'[d].srv = "no" <=> hilo[d].srv = "no"
  OBVIOUS
<1>2. \A d \in {"kM", "kI", "kD", "cM"} :
         /\ hilo[d].cli = "aceptada" => hilo'[d].cli = "aceptada"
         /\ hilo[d].cli = "conectar" <=> hilo'[d].cli = "conectar"
  BY Conocidas
<1> QED
  BY Conocidas DEF EtapaInv, Vivo

\* A step of one connection keeps the invariant when it keeps that connection's.
LEMMA Junta ==
    ASSUME SistemaInv, NEW c \in Conexiones, Ajenas(c),
           UNCHANGED <<proceso, puerto, escucha, pc>>,
           con' \in [Conexiones -> [cli : Lados, srv : Lados]],
           hilo' \in [Conexiones -> [cli : HilosCli, srv : Antes \cup Rechazo \cup Atiende,
                                     ltp : HilosLtp]],
           hilo'[c].srv = "no" <=> hilo[c].srv = "no",
           hilo'[c].cli # hilo[c].cli => Vivo(Cliente(c)),
           c \notin Consolas => (hilo[c].cli = "aceptada" => hilo'[c].cli = "aceptada"),
           c \notin Consolas => (hilo[c].cli = "conectar" <=> hilo'[c].cli = "conectar"),
           ConexionInv(c)'
    PROVE  SistemaInv'
<1>1. Tipos' /\ PuertosFijos'
  BY DEF SistemaInv, Tipos, PuertosFijos
<1>2. EtapaInv'
  BY EtapaIgual DEF SistemaInv, Ajenas
<1>3. \A d \in Conexiones \ {c} : ConexionInv(d)'
  BY OtraConexion DEF SistemaInv, Ajenas
<1>4. SigpipeSoloPorMatada'
  <2>1. \A d \in Consolas : proceso[d] = "matada" => hilo'[d].cli = hilo[d].cli
    BY Conocidas DEF Ajenas, Vivo, Cliente
  <2> QED
    BY <2>1 DEF SistemaInv, SigpipeSoloPorMatada
<1> QED
  BY <1>1, <1>2, <1>3, <1>4 DEF SistemaInv

\* A step that only changes what the server knows of its peer.
LEMMA EstadoServidor ==
    ASSUME Tipos, NEW c \in Conexiones, NEW e \in Estados,
           con' = [con EXCEPT ![c].srv.estado = e]
    PROVE  /\ con' \in [Conexiones -> [cli : Lados, srv : Lados]]
           /\ con'[c].cli = con[c].cli /\ con'[c].srv.entrada = con[c].srv.entrada
           /\ con'[c].srv.estado = e /\ \A d \in Conexiones \ {c} : con'[d] = con[d]
<1>1. con[c].cli \in Lados /\ con[c].srv \in Lados
  BY DEF Tipos
<1> PICK t : t = [con[c].srv EXCEPT !.estado = e]
  OBVIOUS
<1>2. /\ t \in Lados /\ t.estado = e /\ t.entrada = con[c].srv.entrada
      /\ t.connected = con[c].srv.connected
  BY <1>1 DEF Lados
<1>3. con' = [con EXCEPT ![c].srv = t]
  OBVIOUS
<1>4. con' \in [Conexiones -> [cli : Lados, srv : Lados]]
  BY <1>2 DEF Tipos
<1> QED
  BY <1>4

\* A step that only marks the server's handler as connected or not.
LEMMA ConectadaServidor ==
    ASSUME Tipos, NEW c \in Conexiones, NEW b \in BOOLEAN,
           con' = [con EXCEPT ![c].srv.connected = b]
    PROVE  /\ con' \in [Conexiones -> [cli : Lados, srv : Lados]]
           /\ con'[c].cli = con[c].cli /\ con'[c].srv.entrada = con[c].srv.entrada
           /\ con'[c].srv.estado = con[c].srv.estado
           /\ \A d \in Conexiones \ {c} : con'[d] = con[d]
<1>1. con[c].cli \in Lados /\ con[c].srv \in Lados
  BY DEF Tipos
<1> PICK t : t = [con[c].srv EXCEPT !.connected = b]
  OBVIOUS
<1>2. /\ t \in Lados /\ t.connected = b /\ t.entrada = con[c].srv.entrada
      /\ t.estado = con[c].srv.estado
  BY <1>1 DEF Lados
<1>3. con' = [con EXCEPT ![c].srv = t]
  OBVIOUS
<1>4. con' \in [Conexiones -> [cli : Lados, srv : Lados]]
  BY <1>2, <1>3, ZenonT(60) DEF Tipos
<1> QED
  BY <1>4

\* handle_client of a client that was not accepted.
LEMMA HandleClient ==
    ASSUME SistemaInv, NEW c \in Conexiones, Vivo(Servidor(puerto[c])),
           handle_client(c), UNCHANGED pc
    PROVE  SistemaInv'
<1> USE DEF ConexionInv, SocketsInv, ServidorInv, ClienteInv, SinConexion, Abierta, Extremos,
           LadoServidor, Quien, Pcb, Manejador, Saluda, Espera, Rechazada, Aceptada, Matada,
           Perdida, Vivo, Antes, Atiende, Rechazo, Cerrados, SinLeer, Si, Mueve, Respondida
<1>1. /\ Tipos /\ PuertosFijos /\ ConexionInv(c)
      /\ c \in Consolas <=> c \notin {"kM", "kI", "kD", "cM"}
  BY Conocidas DEF SistemaInv
<1>2. CASE hilo[c].srv = "rechazada" /\ socket_handler_disconnect(c, "srv", "destruir")
  <2>1. /\ con' \in [Conexiones -> [cli : Lados, srv : Lados]]
        /\ CierraSrv(con[c], con'[c], "rota") /\ con'[c].srv.connected = FALSE
        /\ Ajenas(c) /\ Mueve(c, "srv", "destruir") /\ UNCHANGED <<proceso, puerto, escucha>>
    BY <1>1, <1>2, DesconexionServidor DEF Valor
  <2>2. SocketsInv(c)'
    BY <1>1, <1>2, <2>1 DEF CierraSrv
  <2>3. ServidorInv(c)'
    BY <1>1, <1>2, <2>1 DEF CierraSrv
  <2>4. ClienteInv(c)'
    BY <1>1, <1>2, <2>1 DEF CierraSrv
  <2>5. ConexionInv(c)'
    BY <2>2, <2>3, <2>4
  <2> HIDE DEF ConexionInv, Perdida, Vivo, Antes, Atiende, Rechazo
  <2> QED
    BY <1>2, <2>1, <2>5, Junta
<1>3. CASE hilo[c].srv = "destruir" /\ socket_handler_destroy(c, "srv", "fin_rechazo")
  <2>1. /\ con' \in [Conexiones -> [cli : Lados, srv : Lados]]
        /\ con'[c].cli = con[c].cli /\ con'[c].srv.entrada = con[c].srv.entrada
        /\ con'[c].srv.estado \in {con[c].srv.estado, "destruido"}
        /\ con[c].srv.connected = FALSE => con'[c].srv.estado = "destruido"
        /\ Ajenas(c) /\ Mueve(c, "srv", "fin_rechazo") /\ UNCHANGED <<proceso, puerto, escucha>>
    BY <1>1, <1>3, Destruccion DEF Valor
  <2>2. SocketsInv(c)'
    BY <1>1, <1>3, <2>1
  <2>3. ServidorInv(c)'
    BY <1>1, <1>3, <2>1
  <2>4. ClienteInv(c)'
    BY <1>1, <1>3, <2>1
  <2>5. ConexionInv(c)'
    BY <2>2, <2>3, <2>4
  <2> HIDE DEF ConexionInv, Perdida, Vivo, Antes, Atiende, Rechazo
  <2> QED
    BY <1>3, <2>1, <2>5, Junta
<1> QED
  BY <1>2, <1>3 DEF handle_client

\* What the server's handshake answers to the code of each client, and to its end.
LEMMA RespuestaAlSaludo ==
    ASSUME Tipos, PuertosFijos, NEW c \in Conexiones
    PROVE  /\ on_handshake(puerto[c], Codigo(c)) \in {"acepta", "configura", "rechaza",
              "rechazada"}
           /\ on_handshake(puerto[c], Codigo(c)) = "acepta" =>
                 c # "cM" /\ (c \in Consolas => puerto[c] = "consolas")
           /\ on_handshake(puerto[c], Codigo(c)) = "configura" => c = "cM"
           /\ on_handshake(puerto[c], "SKT_CONNECTION_LOST") = "rechazada"
           /\ on_handshake(puerto[c], "errno") \in {"rechaza", "rechazada"}
           /\ Codigo(c) \in Mensajes
<1> USE DEF on_handshake, server_handshake_memoria, server_handshake_consolas,
            kernel_handshake_cpu
<1>1. puerto[c] \in Puertos
  BY DEF Tipos
<1>2. /\ on_handshake(puerto[c], "SKT_CONNECTION_LOST") = "rechazada"
      /\ on_handshake(puerto[c], "errno") \in {"rechaza", "rechazada"}
  OBVIOUS
<1>3. CASE c \in Consolas
  <2>1. Codigo(c) = "CONSOLE"
    BY <1>3, Conocidas DEF Codigo
  <2> QED
    BY <1>3, <2>1, Conocidas DEF Mensajes
<1>4. CASE c \notin Consolas
  BY Conocidas DEF Codigo, PuertosFijos, Mensajes
<1> QED
  BY <1>3, <1>4

\* The handler of each client that is accepted.
LEMMA QuienAtiende ==
    ASSUME PuertosFijos, NEW c \in Conexiones
    PROVE  /\ c \in {"kM", "cM"} => on_client_connected(puerto[c]) = "memoria"
           /\ c \in {"kI", "kD"} => on_client_connected(puerto[c]) = "desconecta_servidor"
           /\ puerto[c] = "consolas" =>
                 c \in Consolas /\ on_client_connected(puerto[c]) = "console_handler"
  BY Conocidas DEF PuertosFijos, on_client_connected

\* The server reads who its client is, and answers.
LEMMA Saludo ==
    ASSUME SistemaInv, NEW c \in Conexiones, Vivo(Servidor(puerto[c])),
           handshake(c), UNCHANGED pc
    PROVE  SistemaInv'
<1> USE DEF ConexionInv, SocketsInv, ServidorInv, ClienteInv, SinConexion, Abierta, Extremos,
           LadoServidor, Quien, Pcb, Manejador, Saluda, Espera, Rechazada, Aceptada, Matada,
           Perdida, Vivo, Antes, Atiende, Rechazo, Cerrados, SinLeer, Si, Mueve, Respondida
<1>1. /\ Tipos /\ PuertosFijos /\ ConexionInv(c)
      /\ c \in Consolas <=> c \notin {"kM", "kI", "kD", "cM"}
  BY Conocidas DEF SistemaInv
<1>2. CASE hilo[c].srv = "saludo"
            /\ recieve_message(c, "srv", on_handshake(puerto[c], Recibido(c, "srv")))
  <2>1. hilo[c].cli \in {"saludar", "espera"} /\ con[c].cli.entrada = <<>>
    BY <1>1, <1>2 DEF Tipos, HilosCli
  <2>2. /\ hilo[c].cli = "saludar" => con[c].srv.entrada = <<>>
        /\ con[c].srv.entrada \in {<<>>, <<Codigo(c)>>}
        /\ con[c].srv.estado # "reset" /\ Codigo(c) \in Mensajes
    BY <1>1, <1>2, <2>1, RespuestaAlSaludo
  <2>3. /\ con[c].srv.entrada # <<>> => Recibido(c, "srv") = Codigo(c)
        /\ con[c].srv.entrada = <<>> => Recibido(c, "srv") = "SKT_CONNECTION_LOST"
        /\ Tail(<<Codigo(c)>>) = <<>>
    BY <2>2 DEF Recibido
  <2>4. \E a \in {"acepta", "configura", "rechaza", "rechazada"} :
           /\ a = on_handshake(puerto[c], Recibido(c, "srv"))
           /\ con[c].srv.entrada = <<>> => a = "rechazada"
           /\ a = "acepta" => c # "cM" /\ (c \in Consolas => puerto[c] = "consolas")
           /\ a = "configura" => c = "cM"
    BY <1>1, <2>3, RespuestaAlSaludo
  <2>5. PICK a \in {"acepta", "configura", "rechaza", "rechazada"} :
             /\ recieve_message(c, "srv", a)
             /\ con[c].srv.entrada = <<>> => a = "rechazada"
             /\ a = "acepta" => c # "cM" /\ (c \in Consolas => puerto[c] = "consolas")
             /\ a = "configura" => c = "cM"
    BY <1>2, <2>4
  <2>6. /\ RecibeSrv(c) /\ Ajenas(c) /\ Mueve(c, "srv", a)
              /\ UNCHANGED <<proceso, puerto, escucha>>
    BY <1>1, <2>5, RecepcionServidor
  <2>7. con'[c].srv.entrada = <<>> /\ con'[c].srv.estado \in {"abierto", "fin", "cerrado"}
    BY <1>1, <1>2, <2>1, <2>2, <2>3, <2>4, <2>5, <2>6, ZenonT(60) DEF RecibeSrv
  <2>8. Codigo(c)' = Codigo(c)
    OBVIOUS
  <2>9. SocketsInv(c)'
    BY <1>1, <2>1, <2>6 DEF RecibeSrv
  <2>10. ServidorInv(c)'
    BY <1>1, <2>1, <2>5, <2>6, <2>7
  <2>11. ClienteInv(c)'
    BY <1>1, <1>2, <2>5, <2>6, <2>7 DEF RecibeSrv
  <2>12. ConexionInv(c)'
    BY <2>9, <2>10, <2>11
  <2> HIDE DEF ConexionInv, Perdida, Vivo, Antes, Atiende, Rechazo
  <2> QED
    BY <1>2, <2>6, <2>12, Junta DEF RecibeSrv
<1>3. CASE /\ hilo[c].srv = "acepta"
          /\ send_message(c, "srv", "ACCEPTED",
                 on_client_connected(puerto[c]), on_client_connected(puerto[c]))
  <2>1. hilo[c].cli = "espera" /\ con[c].cli.entrada = <<>> /\ con[c].srv.entrada = <<>>
    BY <1>1, <1>3 DEF Tipos, HilosCli
  <2>2. Append(con[c].cli.entrada, "ACCEPTED") = <<Respuesta(c)>> /\ <<Respuesta(c)>> # <<>>
    BY <1>1, <1>3, <2>1 DEF Respuesta
  <2>3. Respuesta(c)' = Respuesta(c) /\ Codigo(c)' = Codigo(c)
    OBVIOUS
  <2>4. PICK a \in {"memoria", "desconecta_servidor", "console_handler"} :
             /\ send_message(c, "srv", "ACCEPTED", a, a)
             /\ a = "memoria" => c \in {"kM", "cM"}
             /\ a = "desconecta_servidor" => c \in {"kI", "kD"}
             /\ a = "console_handler" => puerto[c] = "consolas"
    BY <1>1, <1>3, QuienAtiende
  <2>5. con[c].srv.estado \in {"abierto", "fin", "cerrado"}
    BY <1>1, <1>3
  <2>6. /\ EnviaSrv(c, "ACCEPTED") /\ Ajenas(c) /\ UNCHANGED <<proceso, puerto, escucha>>
        /\ Mueve(c, "srv", a)
    BY <1>1, <2>1, <2>3, <2>4, <2>5, EnvioServidor DEF Valor, Mensajes
  <2>7. c \in {"kM", "cM"} => con[c].srv.estado # "fin"
    BY <1>1, <2>1
  <2>8. SocketsInv(c)'
    BY <1>1, <2>1, <2>6 DEF EnviaSrv
  <2>9. ServidorInv(c)'
    BY <1>1, <2>1, <2>4, <2>6 DEF EnviaSrv
  <2>10. ClienteInv(c)'
    BY <1>1, <2>1, <2>2, <2>6, SMTT(30) DEF EnviaSrv
  <2>11. ConexionInv(c)'
    BY <2>8, <2>9, <2>10
  <2> HIDE DEF ConexionInv, Perdida, Vivo, Antes, Atiende, Rechazo
  <2> QED
    BY <1>3, <2>6, <2>11, Junta DEF EnviaSrv
<1>4. CASE /\ hilo[c].srv = "configura"
          /\ send_message(c, "srv", "MEMORY_SETUP", on_client_connected(puerto[c]), "rechazada")
  <2>1. hilo[c].cli = "espera" /\ con[c].cli.entrada = <<>> /\ con[c].srv.entrada = <<>>
        /\ c = "cM"
    BY <1>1, <1>4 DEF Tipos, HilosCli
  <2>2. Append(con[c].cli.entrada, "MEMORY_SETUP") = <<Respuesta(c)>> /\ <<Respuesta(c)>> # <<>>
    BY <2>1 DEF Respuesta
  <2>3. Respuesta(c)' = Respuesta(c) /\ Codigo(c)' = Codigo(c)
    OBVIOUS
  <2>4. send_message(c, "srv", "MEMORY_SETUP", "memoria", "rechazada")
    BY <1>1, <1>4, QuienAtiende
  <2>5. con[c].srv.estado \in {"abierto", "fin", "cerrado"}
    BY <1>1, <1>4
  <2>6. /\ EnviaSrv(c, "MEMORY_SETUP") /\ Ajenas(c) /\ UNCHANGED <<proceso, puerto, escucha>>
        /\ Mueve(c, "srv", "memoria")
    BY <1>1, <1>4, <2>1, <2>2, <2>3, <2>4, <2>5, EnvioServidor DEF Valor, Mensajes
  <2>7. con[c].srv.estado # "fin"
    BY <1>1, <2>1
  <2>8. SocketsInv(c)'
    BY <1>1, <2>1, <2>6 DEF EnviaSrv
  <2>9. ServidorInv(c)'
    BY <1>1, <2>1, <2>6 DEF EnviaSrv
  <2>10. ClienteInv(c)'
    BY <1>1, <2>1, <2>2, <2>6 DEF EnviaSrv
  <2>11. ConexionInv(c)'
    BY <2>8, <2>9, <2>10
  <2> HIDE DEF ConexionInv, Perdida, Vivo, Antes, Atiende, Rechazo
  <2> QED
    BY <1>4, <2>6, <2>11, Junta DEF EnviaSrv
<1>5. CASE hilo[c].srv = "rechaza"
            /\ send_message(c, "srv", "REJECTED", "rechazada", "rechazada")
  <2>1. hilo[c].cli \in {"espera", "rechazada"} /\ con[c].cli.entrada = <<>>
        /\ con[c].srv.entrada = <<>>
    BY <1>1, <1>5 DEF Tipos, HilosCli
  <2>2. Append(con[c].cli.entrada, "REJECTED") = <<"REJECTED">> /\ <<"REJECTED">> # <<>>
    BY <2>1
  <2>3. con[c].srv.estado \in {"abierto", "fin", "cerrado"}
    BY <1>1, <1>5, SMTT(30)
  <2>4. /\ EnviaSrv(c, "REJECTED") /\ Ajenas(c) /\ UNCHANGED <<proceso, puerto, escucha>>
        /\ Mueve(c, "srv", "rechazada")
    BY <1>1, <1>5, <2>1, <2>2, <2>3, EnvioServidor DEF Valor, Mensajes
  <2>5. SocketsInv(c)'
    BY <1>1, <2>1, <2>4 DEF EnviaSrv
  <2>6. ServidorInv(c)'
    BY <1>1, <2>1, <2>4 DEF EnviaSrv
  <2>7. ClienteInv(c)'
    BY <1>1, <1>5, <2>1, <2>2, <2>3, <2>4, ZenonT(60) DEF EnviaSrv
  <2>8. ConexionInv(c)'
    BY <2>5, <2>6, <2>7
  <2> HIDE DEF ConexionInv, Perdida, Vivo, Antes, Atiende, Rechazo
  <2> QED
    BY <1>5, <2>4, <2>8, Junta DEF EnviaSrv
<1> QED
  BY <1>1, <1>2, <1>3, <1>4, <1>5 DEF handshake, En

\* The listener accepts a connection of its backlog.
LEMMA EsperarCliente ==
    ASSUME SistemaInv, NEW c \in Conexiones, Vivo(Servidor(puerto[c])),
           esperar_cliente(c), UNCHANGED pc
    PROVE  SistemaInv'
<1> USE DEF ConexionInv, SocketsInv, ServidorInv, ClienteInv, SinConexion, Abierta, Extremos,
           LadoServidor, Quien, Pcb, Manejador, Saluda, Espera, Rechazada, Aceptada, Matada,
           Perdida, Vivo, Antes, Atiende, Rechazo, Cerrados, SinLeer, Si, Mueve, Respondida
<1>1. /\ Tipos /\ PuertosFijos /\ ConexionInv(c)
      /\ c \in Consolas <=> c \notin {"kM", "kI", "kD", "cM"}
  BY Conocidas DEF SistemaInv
<1>2. CASE con[c].srv.estado = "cola"
  <2>1. con[c].cli \in Lados /\ con[c].srv \in Lados
    BY <1>1 DEF Tipos
  <2>2. /\ con' = [con EXCEPT ![c].srv.estado = "abierto"] /\ hilo[c].srv = "backlog"
        /\ Ir(c, "srv", "aceptada") /\ UNCHANGED <<proceso, puerto, escucha>>
    BY <1>2 DEF esperar_cliente
  <2>3. /\ con' \in [Conexiones -> [cli : Lados, srv : Lados]]
        /\ con'[c].cli = con[c].cli /\ con'[c].srv.entrada = con[c].srv.entrada
        /\ con'[c].srv.estado = "abierto" /\ \A d \in Conexiones \ {c} : con'[d] = con[d]
    BY <1>1, <2>2, EstadoServidor DEF Estados
  <2>4. Ajenas(c) /\ Mueve(c, "srv", "aceptada")
    BY <1>1, <2>2, IrMueve DEF Valor, Ajenas
  <2>5. Codigo(c)' = Codigo(c)
    OBVIOUS
  <2>6. SocketsInv(c)'
    BY <1>1, <1>2, <2>2, <2>4
  <2>7. ServidorInv(c)'
    BY <1>1, <2>2, <2>3, <2>4
  <2>8. ClienteInv(c)'
    BY <1>1, <1>2, <2>2, <2>4
  <2>9. ConexionInv(c)'
    BY <2>6, <2>7, <2>8
  <2> HIDE DEF ConexionInv, Perdida, Vivo, Antes, Atiende, Rechazo
  <2> QED
    BY <2>2, <2>3, <2>4, <2>9, Junta
<1>3. CASE con[c].srv.estado # "cola"
  <2>1. con[c].cli \in Lados /\ con[c].srv \in Lados
    BY <1>1 DEF Tipos
  <2>2. /\ hilo[c].srv = "backlog" /\ con[c].srv.estado = "fin"
        /\ con' = [con EXCEPT ![c].srv.estado = con[c].srv.estado]
        /\ Ir(c, "srv", "aceptada") /\ UNCHANGED <<proceso, puerto, escucha>>
    BY <1>1, <1>3, SMTT(30) DEF esperar_cliente
  <2>3. /\ con' \in [Conexiones -> [cli : Lados, srv : Lados]]
        /\ con'[c].cli = con[c].cli /\ con'[c].srv.entrada = con[c].srv.entrada
        /\ con'[c].srv.estado = "fin" /\ \A d \in Conexiones \ {c} : con'[d] = con[d]
    BY <1>1, <2>2, EstadoServidor DEF Estados
  <2>4. Ajenas(c) /\ Mueve(c, "srv", "aceptada")
    BY <1>1, <2>2, IrMueve DEF Valor, Ajenas
  <2>5. Codigo(c)' = Codigo(c)
    OBVIOUS
  <2>6. SocketsInv(c)'
    BY <1>1, <2>2, <2>4
  <2>7. ServidorInv(c)'
    BY <1>1, <2>2, <2>4
  <2>8. ClienteInv(c)'
    BY <1>1, <2>2, <2>4
  <2>9. ConexionInv(c)'
    BY <2>6, <2>7, <2>8
  <2> HIDE DEF ConexionInv, Perdida, Vivo, Antes, Atiende, Rechazo
  <2> QED
    BY <2>2, <2>3, <2>4, <2>9, Junta
<1> QED
  BY <1>2, <1>3

\* The listener gives an accepted client to its handler, or forgets it.
LEMMA HandleServer ==
    ASSUME SistemaInv, NEW c \in Conexiones, Vivo(Servidor(puerto[c])),
           handle_server(c), UNCHANGED pc
    PROVE  SistemaInv'
<1> USE DEF ConexionInv, SocketsInv, ServidorInv, ClienteInv, SinConexion, Abierta, Extremos,
           LadoServidor, Quien, Pcb, Manejador, Saluda, Espera, Rechazada, Aceptada, Matada,
           Perdida, Vivo, Antes, Atiende, Rechazo, Cerrados, SinLeer, Si, Mueve, Respondida
<1>1. /\ Tipos /\ PuertosFijos /\ ConexionInv(c)
      /\ c \in Consolas <=> c \notin {"kM", "kI", "kD", "cM"}
  BY Conocidas DEF SistemaInv
<1>2. CASE escucha[puerto[c]] = "acepta"
  <2>1. con[c].cli \in Lados /\ con[c].srv \in Lados
    BY <1>1 DEF Tipos
  <2>2. /\ con' = [con EXCEPT ![c].srv.connected = TRUE] /\ hilo[c].srv = "aceptada"
        /\ Ir(c, "srv", "saludo") /\ UNCHANGED <<proceso, puerto, escucha>>
    BY <1>2 DEF handle_server
  <2>3. /\ con' \in [Conexiones -> [cli : Lados, srv : Lados]]
        /\ con'[c].cli = con[c].cli /\ con'[c].srv.entrada = con[c].srv.entrada
        /\ con'[c].srv.estado = con[c].srv.estado
        /\ \A d \in Conexiones \ {c} : con'[d] = con[d]
    BY <1>1, <2>2, ConectadaServidor
  <2>4. Ajenas(c) /\ Mueve(c, "srv", "saludo")
    BY <1>1, <2>2, IrMueve DEF Valor, Ajenas
  <2>5. Codigo(c)' = Codigo(c)
    OBVIOUS
  <2>6. SocketsInv(c)'
    BY <1>1, <2>2, <2>4
  <2>7. ServidorInv(c)'
    BY <1>1, <2>2, <2>4
  <2>8. ClienteInv(c)'
    BY <1>1, <2>2, <2>4
  <2>9. ConexionInv(c)'
    BY <2>6, <2>7, <2>8
  <2> HIDE DEF ConexionInv, Perdida, Vivo, Antes, Atiende, Rechazo
  <2> QED
    BY <2>2, <2>3, <2>4, <2>9, Junta
<1>3. CASE escucha[puerto[c]] # "acepta"
  <2>1. con[c].cli \in Lados /\ con[c].srv \in Lados
    BY <1>1 DEF Tipos
  <2>2. /\ con' = [con EXCEPT ![c].srv.connected = FALSE] /\ hilo[c].srv = "aceptada"
        /\ Ir(c, "srv", "olvidada") /\ UNCHANGED <<proceso, puerto, escucha>>
    BY <1>3 DEF handle_server
  <2>3. /\ con' \in [Conexiones -> [cli : Lados, srv : Lados]]
        /\ con'[c].cli = con[c].cli /\ con'[c].srv.entrada = con[c].srv.entrada
        /\ con'[c].srv.estado = con[c].srv.estado
        /\ \A d \in Conexiones \ {c} : con'[d] = con[d]
    BY <1>1, <2>2, ConectadaServidor
  <2>4. Ajenas(c) /\ Mueve(c, "srv", "olvidada")
    BY <1>1, <2>2, IrMueve DEF Valor, Ajenas
  <2>5. Codigo(c)' = Codigo(c)
    OBVIOUS
  <2>6. SocketsInv(c)'
    BY <1>1, <2>2, <2>4
  <2>7. ServidorInv(c)'
    BY <1>1, <2>2, <2>4
  <2>8. ClienteInv(c)'
    BY <1>1, <2>2, <2>4
  <2>9. ConexionInv(c)'
    BY <2>6, <2>7, <2>8
  <2> HIDE DEF ConexionInv, Perdida, Vivo, Antes, Atiende, Rechazo
  <2> QED
    BY <2>2, <2>3, <2>4, <2>9, Junta
<1> QED
  BY <1>2, <1>3

\* The handlers of memoria, to the end of their connections.
LEMMA HandleCpuKernel ==
    ASSUME SistemaInv, NEW c \in Conexiones, Vivo(Servidor(puerto[c])),
           handle_cpu_kernel(c), UNCHANGED pc
    PROVE  SistemaInv'
<1> USE DEF ConexionInv, SocketsInv, ServidorInv, ClienteInv, SinConexion, Abierta, Extremos,
           LadoServidor, Quien, Pcb, Manejador, Saluda, Espera, Rechazada, Aceptada, Matada,
           Perdida, Vivo, Antes, Atiende, Rechazo, Cerrados, SinLeer, Si, Mueve, Respondida
<1>1. /\ Tipos /\ PuertosFijos /\ ConexionInv(c)
      /\ c \in Consolas <=> c \notin {"kM", "kI", "kD", "cM"}
  BY Conocidas DEF SistemaInv
<1>2. CASE /\ hilo[c].srv = "memoria"
          /\ recieve_message(c, "srv",
                CASE Recibido(c, "srv") = "SKT_CONNECTION_LOST" -> FinMemoria(c)
                  [] Recibido(c, "srv") = "errno" -> "error" [] OTHER -> "memoria")
  <2>1. c \in {"kM", "cM"} /\ con[c].srv.estado # "reset"
        /\ hilo[c].cli \in {"espera", "aceptada"}
    BY <1>1, <1>2 DEF Tipos, HilosCli
  <2>2. con[c].srv.entrada = <<>>
    BY <1>1, <1>2, <2>1
  <2>3. Recibido(c, "srv") = "SKT_CONNECTION_LOST"
    BY <2>1, <2>2 DEF Recibido
  <2>4. PICK a \in {"destruir_cpu", "desconectar_kernel"} : recieve_message(c, "srv", a)
    BY <1>2, <2>3 DEF FinMemoria
  <2>5. RecibeSrv(c) /\ Ajenas(c) /\ Mueve(c, "srv", a)
        /\ UNCHANGED <<proceso, puerto, escucha>>
    BY <1>1, <2>4, RecepcionServidor
  <2>6. Codigo(c)' = Codigo(c) /\ Respuesta(c)' = Respuesta(c)
    OBVIOUS
  <2>7. SocketsInv(c)'
    BY <1>1, <2>1, <2>5 DEF RecibeSrv
  <2>8. ServidorInv(c)'
    BY <1>1, <1>2, <2>2, <2>5 DEF RecibeSrv
  <2>9. ClienteInv(c)'
    BY <1>1, <1>2, <2>5 DEF RecibeSrv
  <2>10. ConexionInv(c)'
    BY <2>7, <2>8, <2>9
  <2> HIDE DEF ConexionInv, Perdida, Vivo, Antes, Atiende, Rechazo
  <2> QED
    BY <1>2, <2>5, <2>10, Junta DEF RecibeSrv
<1>3. CASE hilo[c].srv = "destruir_cpu" /\ socket_handler_destroy(c, "srv", "fin")
  <2>1. /\ con' \in [Conexiones -> [cli : Lados, srv : Lados]]
        /\ con'[c].cli = con[c].cli /\ con'[c].srv.entrada = con[c].srv.entrada
        /\ con'[c].srv.estado \in {con[c].srv.estado, "destruido"}
        /\ con[c].srv.connected = FALSE => con'[c].srv.estado = "destruido"
        /\ Ajenas(c) /\ Mueve(c, "srv", "fin") /\ UNCHANGED <<proceso, puerto, escucha>>
    BY <1>1, <1>3, Destruccion DEF Valor
  <2>2. c \in {"kM", "cM"} /\ hilo[c].cli \in {"espera", "aceptada"} /\ puerto[c] = "memoria"
    BY <1>1, <1>3 DEF Tipos, HilosCli, PuertosFijos
  <2>3. Codigo(c)' = Codigo(c) /\ Respuesta(c)' = Respuesta(c)
    OBVIOUS
  <2>4. SocketsInv(c)'
    BY <1>1, <1>3, <2>1, <2>2
  <2>5. ServidorInv(c)'
    BY <1>1, <1>3, <2>1, <2>2
  <2>6. ClienteInv(c)'
    BY <1>1, <1>3, <2>1
  <2>7. ConexionInv(c)'
    BY <2>4, <2>5, <2>6
  <2> HIDE DEF ConexionInv, Perdida, Vivo, Antes, Atiende, Rechazo
  <2> QED
    BY <1>3, <2>1, <2>7, Junta
<1>4. CASE hilo[c].srv = "desconectar_kernel" /\ socket_handler_disconnect(c, "srv", "fin")
  <2>1. /\ con' \in [Conexiones -> [cli : Lados, srv : Lados]]
        /\ CierraSrv(con[c], con'[c], "rota") /\ con'[c].srv.connected = FALSE
        /\ Ajenas(c) /\ Mueve(c, "srv", "fin") /\ UNCHANGED <<proceso, puerto, escucha>>
    BY <1>1, <1>4, DesconexionServidor DEF Valor
  <2>2. c \in {"kM", "cM"} /\ hilo[c].cli \in {"espera", "aceptada"} /\ puerto[c] = "memoria"
    BY <1>1, <1>4 DEF Tipos, HilosCli, PuertosFijos
  <2>3. Codigo(c)' = Codigo(c) /\ Respuesta(c)' = Respuesta(c)
    OBVIOUS
  <2>4. SocketsInv(c)'
    BY <1>1, <2>1, <2>2 DEF CierraSrv
  <2>5. ServidorInv(c)'
    BY <1>1, <2>1, <2>2 DEF CierraSrv
  <2>6. ClienteInv(c)'
    BY <1>1, <1>4, <2>1, <2>2 DEF CierraSrv
  <2>7. ConexionInv(c)'
    BY <2>4, <2>5, <2>6
  <2> HIDE DEF ConexionInv, Perdida, Vivo, Antes, Atiende, Rechazo
  <2> QED
    BY <1>4, <2>1, <2>7, Junta
<1> QED
  BY <1>1, <1>2, <1>3, <1>4 DEF handle_cpu_kernel, En

\* The handlers of the CPU, once they have disconnected their server.
LEMMA HandleDispatchInterrupt ==
    ASSUME SistemaInv, NEW c \in Conexiones, Vivo(Servidor(puerto[c])),
           handle_dispatch_interrupt(c), hilo[c].srv # "desconecta_servidor", UNCHANGED pc
    PROVE  SistemaInv'
<1> USE DEF ConexionInv, SocketsInv, ServidorInv, ClienteInv, SinConexion, Abierta, Extremos,
           LadoServidor, Quien, Pcb, Manejador, Saluda, Espera, Rechazada, Aceptada, Matada,
           Perdida, Vivo, Antes, Atiende, Rechazo, Cerrados, SinLeer, Si, Mueve, Respondida
<1>1. /\ Tipos /\ PuertosFijos /\ ConexionInv(c)
      /\ c \in Consolas <=> c \notin {"kM", "kI", "kD", "cM"}
  BY Conocidas DEF SistemaInv
<1>2. CASE /\ hilo[c].srv = "cpu"
          /\ recieve_message(c, "srv",
                IF Recibido(c, "srv") = "SKT_CONNECTION_LOST" THEN "desconectar" ELSE "cpu")
  <2>1. c \in {"kI", "kD"} /\ hilo[c].cli \in {"espera", "aceptada"}
        /\ con[c].srv.entrada = <<>> /\ puerto[c] # "consolas"
    BY <1>1, <1>2 DEF Tipos, HilosCli, PuertosFijos
  <2>2. PICK a \in {"desconectar", "cpu"} : recieve_message(c, "srv", a)
    BY <1>2
  <2>3. RecibeSrv(c) /\ Ajenas(c) /\ Mueve(c, "srv", a)
        /\ UNCHANGED <<proceso, puerto, escucha>>
    BY <1>1, <2>2, RecepcionServidor
  <2>4. Codigo(c)' = Codigo(c) /\ Respuesta(c)' = Respuesta(c)
    OBVIOUS
  <2>5. SocketsInv(c)'
    BY <1>1, <2>1, <2>3 DEF RecibeSrv
  <2>6. ServidorInv(c)'
    BY <1>1, <1>2, <2>3 DEF RecibeSrv
  <2>7. ClienteInv(c)'
    BY <1>1, <1>2, <2>3 DEF RecibeSrv
  <2>8. ConexionInv(c)'
    BY <2>5, <2>6, <2>7
  <2> HIDE DEF ConexionInv, Perdida, Vivo, Antes, Atiende, Rechazo
  <2> QED
    BY <1>2, <2>3, <2>8, Junta DEF RecibeSrv
<1>3. CASE hilo[c].srv = "desconectar" /\ socket_handler_disconnect(c, "srv", "destruir_final")
  <2>1. c \in {"kI", "kD"} /\ hilo[c].cli \in {"espera", "aceptada"}
        /\ con[c].srv.entrada = <<>> /\ puerto[c] # "consolas"
    BY <1>1, <1>3 DEF Tipos, HilosCli, PuertosFijos
  <2>2. /\ con' \in [Conexiones -> [cli : Lados, srv : Lados]]
        /\ CierraSrv(con[c], con'[c], "rota") /\ con'[c].srv.connected = FALSE
        /\ Ajenas(c) /\ Mueve(c, "srv", "destruir_final")
              /\ UNCHANGED <<proceso, puerto, escucha>>
    BY <1>1, <1>3, DesconexionServidor DEF Valor
  <2>3. Codigo(c)' = Codigo(c) /\ Respuesta(c)' = Respuesta(c)
    OBVIOUS
  <2>4. SocketsInv(c)'
    BY <1>1, <2>1, <2>2 DEF CierraSrv
  <2>5. ServidorInv(c)'
    BY <1>1, <1>3, <2>2 DEF CierraSrv
  <2>6. ClienteInv(c)'
    BY <1>1, <1>3, <2>1, <2>2, <2>3 DEF CierraSrv
  <2>7. ConexionInv(c)'
    BY <2>4, <2>5, <2>6
  <2> HIDE DEF ConexionInv, Perdida, Vivo, Antes, Atiende, Rechazo
  <2> QED
    BY <1>3, <2>2, <2>7, Junta
<1>4. CASE hilo[c].srv = "destruir_final" /\ socket_handler_destroy(c, "srv", "fin")
  <2>1. c \in {"kI", "kD"} /\ hilo[c].cli \in {"espera", "aceptada"}
        /\ con[c].srv.entrada = <<>> /\ puerto[c] # "consolas"
    BY <1>1, <1>4 DEF Tipos, HilosCli, PuertosFijos
  <2>2. /\ con' \in [Conexiones -> [cli : Lados, srv : Lados]]
        /\ con'[c].cli = con[c].cli /\ con'[c].srv.entrada = con[c].srv.entrada
        /\ con'[c].srv.estado \in {con[c].srv.estado, "destruido"}
        /\ con[c].srv.connected = FALSE => con'[c].srv.estado = "destruido"
        /\ Ajenas(c) /\ Mueve(c, "srv", "fin") /\ UNCHANGED <<proceso, puerto, escucha>>
    BY <1>1, <1>4, Destruccion DEF Valor
  <2>3. Codigo(c)' = Codigo(c) /\ Respuesta(c)' = Respuesta(c)
    OBVIOUS
  <2>4. SocketsInv(c)'
    BY <1>1, <1>4, <2>2
  <2>5. ServidorInv(c)'
    BY <1>1, <1>4, <2>2
  <2>6. ClienteInv(c)'
    BY <1>1, <1>4, <2>2
  <2>7. ConexionInv(c)'
    BY <2>4, <2>5, <2>6
  <2> HIDE DEF ConexionInv, Perdida, Vivo, Antes, Atiende, Rechazo
  <2> QED
    BY <1>4, <2>2, <2>7, Junta
<1> QED
  BY <1>2, <1>3, <1>4 DEF handle_dispatch_interrupt, En

\* The handler of a console: its program, or its end.
LEMMA ConsoleHandler ==
    ASSUME SistemaInv, NEW c \in Conexiones, Vivo(Servidor(puerto[c])),
           console_handler(c), UNCHANGED pc
    PROVE  SistemaInv'
<1> USE DEF ConexionInv, SocketsInv, ServidorInv, ClienteInv, SinConexion, Abierta, Extremos,
           LadoServidor, Quien, Pcb, Manejador, Saluda, Espera, Rechazada, Aceptada, Matada,
           Perdida, Vivo, Antes, Atiende, Rechazo, Cerrados, SinLeer, Si, Mueve, Respondida
<1>1. /\ Tipos /\ PuertosFijos /\ ConexionInv(c)
      /\ c \in Consolas <=> c \notin {"kM", "kI", "kD", "cM"}
  BY Conocidas DEF SistemaInv
<1>0. hilo[c].srv = "console_handler" /\ con[c].srv.entrada # <<>> =>
         /\ hilo[c].cli \in {"programa", "cerrar", "cerrada"}
         /\ con[c].srv.entrada \in {<<"PROGRAM">>, <<"PROGRAM_VACIO">>}
  BY <1>1 DEF Tipos, HilosCli
<1>2. CASE /\ hilo[c].srv = "console_handler" /\ con[c].srv.entrada = <<"PROGRAM">>
          /\ recieve_message(c, "srv", TrasPrograma(c))
  <2>1. hilo[c].cli \in {"programa", "cerrar", "cerrada"} /\ con[c].srv.entrada = <<"PROGRAM">>
    BY <1>0, <1>2
  <2>2. Recibido(c, "srv") = "PROGRAM" /\ Tail(con[c].srv.entrada) = <<>>
    BY <2>1 DEF Recibido
  <2>3. recieve_message(c, "srv", "ltp_new_process")
    BY <1>2, <2>2 DEF TrasPrograma
  <2>4. RecibeSrv(c) /\ Ajenas(c) /\ Mueve(c, "srv", "ltp_new_process")
        /\ UNCHANGED <<proceso, puerto, escucha>>
    BY <1>1, <2>3, RecepcionServidor
  <2>5. /\ con[c].srv.estado \in {"abierto", "fin"} /\ con[c].cli.entrada = <<>>
              /\ puerto[c] = "consolas"
        /\ con'[c].srv.estado = con[c].srv.estado /\ con'[c].srv.entrada = <<>>
    BY <1>1, <2>1, <2>4 DEF RecibeSrv, Lados, Estados
  <2>6. Codigo(c)' = Codigo(c) /\ Respuesta(c)' = Respuesta(c)
    OBVIOUS
  <2>7. SocketsInv(c)'
    BY <1>1, <2>4, <2>5 DEF RecibeSrv
  <2>8. ServidorInv(c)'
    BY <1>1, <2>1, <2>4, <2>5 DEF RecibeSrv
  <2>9. ClienteInv(c)'
    BY <1>1, <2>1, <2>4 DEF RecibeSrv
  <2>10. ConexionInv(c)'
    BY <2>7, <2>8, <2>9
  <2> HIDE DEF ConexionInv, Perdida, Vivo, Antes, Atiende, Rechazo
  <2> QED
    BY <1>2, <2>4, <2>10, Junta DEF RecibeSrv
<1>3. CASE /\ hilo[c].srv = "console_handler" /\ con[c].srv.entrada = <<>>
          /\ recieve_message(c, "srv", TrasPrograma(c))
  <2>1. hilo[c].cli \in {"espera", "aceptada", "programa", "cerrar", "cerrada"}
    BY <1>1, <1>3 DEF Tipos, HilosCli
  <2>2. Recibido(c, "srv") # "PROGRAM"
    BY <1>3 DEF Recibido
  <2>3. recieve_message(c, "srv", "FAILURE")
    BY <1>3, <2>2 DEF TrasPrograma
  <2>4. RecibeSrv(c) /\ Ajenas(c) /\ Mueve(c, "srv", "FAILURE")
        /\ UNCHANGED <<proceso, puerto, escucha>>
    BY <1>1, <2>3, RecepcionServidor
  <2>5. /\ con'[c].srv.estado \in {"fin", "rota", "cerrado"} /\ puerto[c] = "consolas"
        /\ con'[c].srv.estado = "rota" => hilo[c].cli = "espera"
    BY <1>1, <1>3, <2>4 DEF RecibeSrv, Lados, Estados
  <2>6. Codigo(c)' = Codigo(c) /\ Respuesta(c)' = Respuesta(c)
    OBVIOUS
  <2>7. SocketsInv(c)'
    BY <1>1, <2>1, <2>4 DEF RecibeSrv
  <2>8. ServidorInv(c)'
    BY <1>1, <1>3, <2>4, <2>5
  <2>9. ClienteInv(c)'
    BY <1>1, <1>3, <2>4 DEF RecibeSrv
  <2>10. ConexionInv(c)'
    BY <2>7, <2>8, <2>9
  <2> HIDE DEF ConexionInv, Perdida, Vivo, Antes, Atiende, Rechazo
  <2> QED
    BY <1>3, <2>4, <2>10, Junta DEF RecibeSrv
<1>4. CASE /\ hilo[c].srv = "ltp_new_process"
          /\ hilo' = [hilo EXCEPT ![c].srv = "fin", ![c].ltp = "pcb"]
          /\ UNCHANGED <<proceso, puerto, escucha, con>>
  <2>1. /\ hilo' \in [Conexiones -> [cli : HilosCli, srv : Antes \cup Rechazo \cup Atiende,
                                     ltp : HilosLtp]]
        /\ hilo'[c].cli = hilo[c].cli /\ hilo'[c].srv = "fin" /\ hilo'[c].ltp = "pcb"
        /\ Ajenas(c) /\ con' \in [Conexiones -> [cli : Lados, srv : Lados]]
    BY <1>1, <1>4 DEF Tipos, Ajenas
  <2>2. /\ hilo[c].cli \in {"programa", "cerrar", "cerrada"} /\ puerto[c] = "consolas"
        /\ con[c].srv.estado # "destruido"
    BY <1>1, <1>4
  <2>3. Codigo(c)' = Codigo(c) /\ Respuesta(c)' = Respuesta(c)
    OBVIOUS
  <2>4. SocketsInv(c)'
    BY <1>1, <1>4, <2>1
  <2>5. ServidorInv(c)'
    BY <1>1, <1>4, <2>1
  <2>6. ClienteInv(c)'
    BY <1>1, <1>4, <2>1
  <2>7. ConexionInv(c)'
    BY <2>4, <2>5, <2>6
  <2> HIDE DEF ConexionInv, Perdida, Vivo, Antes, Atiende, Rechazo
  <2> QED
    BY <1>4, <2>1, <2>7, Junta
<1>5. CASE /\ hilo[c].srv = "console_handler" /\ con[c].srv.entrada = <<"PROGRAM_VACIO">>
          /\ recieve_message(c, "srv", TrasPrograma(c))
  <2>1. hilo[c].cli \in {"programa", "cerrar", "cerrada"}
        /\ con[c].srv.entrada = <<"PROGRAM_VACIO">>
    BY <1>0, <1>5
  <2>2. Recibido(c, "srv") # "PROGRAM" /\ Tail(con[c].srv.entrada) = <<>>
    BY <2>1 DEF Recibido
  <2>3. recieve_message(c, "srv", "FAILURE")
    BY <1>5, <2>2 DEF TrasPrograma
  <2>4. RecibeSrv(c) /\ Ajenas(c) /\ Mueve(c, "srv", "FAILURE")
        /\ UNCHANGED <<proceso, puerto, escucha>>
    BY <1>1, <2>3, RecepcionServidor
  <2>5. /\ con[c].srv.estado \in {"abierto", "fin"} /\ con[c].cli.entrada = <<>>
              /\ puerto[c] = "consolas"
        /\ con'[c].srv.estado = con[c].srv.estado /\ con'[c].srv.entrada = <<>>
    BY <1>1, <2>1, <2>4 DEF RecibeSrv, Lados, Estados
  <2>6. Codigo(c)' = Codigo(c) /\ Respuesta(c)' = Respuesta(c)
    OBVIOUS
  <2>7. SocketsInv(c)'
    BY <1>1, <2>4, <2>5 DEF RecibeSrv
  <2>8. ServidorInv(c)'
    BY <1>1, <2>1, <2>4, <2>5 DEF RecibeSrv
  <2>9. ClienteInv(c)'
    BY <1>1, <2>1, <2>4, <2>5 DEF RecibeSrv
  <2>10. ConexionInv(c)'
    BY <2>7, <2>8, <2>9
  <2> HIDE DEF ConexionInv, Perdida, Vivo, Antes, Atiende, Rechazo
  <2> QED
    BY <1>5, <2>4, <2>10, Junta DEF RecibeSrv
<1> QED
  BY <1>0, <1>2, <1>3, <1>4, <1>5 DEF console_handler, En

\* The end of a console by its handler, unless the answer kills the kernel.
LEMMA ConsoleTerminateServidor ==
    ASSUME SistemaInv, NEW c \in Conexiones, Vivo(Servidor(puerto[c])),
           console_terminate(c, "srv", "FAILURE"),
           ~(hilo[c].srv = "FAILURE" /\ con[c].srv.estado = "rota"), UNCHANGED pc
    PROVE  SistemaInv'
<1> USE DEF ConexionInv, SocketsInv, ServidorInv, ClienteInv, SinConexion, Abierta, Extremos,
           LadoServidor, Quien, Pcb, Manejador, Saluda, Espera, Rechazada, Aceptada, Matada,
           Perdida, Vivo, Antes, Atiende, Rechazo, Cerrados, SinLeer, Si, Mueve, Respondida
<1>1. /\ Tipos /\ PuertosFijos /\ ConexionInv(c)
      /\ c \in Consolas <=> c \notin {"kM", "kI", "kD", "cM"}
  BY Conocidas DEF SistemaInv
<1>2. CASE hilo[c].srv = "FAILURE"
            /\ send_message(c, "srv", "FAILURE", "desconecta", "desconecta")
  <2>1. /\ con[c].srv.estado \in {"abierto", "fin", "cerrado"}
        /\ con[c].srv.estado = "abierto" => hilo[c].cli \in {"programa", "cerrar"}
        /\ hilo[c].cli \in {"programa", "cerrar", "cerrada"} => con[c].cli.entrada = <<>>
    BY <1>1, <1>2
  <2>2. EnviaSrv(c, "FAILURE") /\ Ajenas(c) /\ Mueve(c, "srv", "desconecta")
        /\ UNCHANGED <<proceso, puerto, escucha>>
    BY <1>1, <1>2, <2>1, EnvioServidor DEF Valor, Mensajes
  <2>3. Codigo(c)' = Codigo(c) /\ Respuesta(c)' = Respuesta(c)
    OBVIOUS
  <2>8. Append(<<>>, "FAILURE") = <<"FAILURE">>
    OBVIOUS
  <2>9. hilo[c].cli \in {"programa", "cerrar", "cerrada"} =>
           con'[c].cli.entrada \in {<<>>, <<"FAILURE">>}
    BY <2>1, <2>2, <2>8 DEF EnviaSrv
  <2>10. hilo[c].cli \notin {"programa", "cerrar"} => con'[c].cli.entrada = con[c].cli.entrada
    BY <2>1, <2>2 DEF EnviaSrv
  <2>4. SocketsInv(c)'
    BY <1>1, <2>1, <2>2 DEF EnviaSrv
  <2>5. ServidorInv(c)'
    BY <1>1, <1>2, <2>2 DEF EnviaSrv
  <2>6. ClienteInv(c)'
    BY <1>1, <1>2, <2>1, <2>2, <2>9, <2>10 DEF EnviaSrv
  <2>7. ConexionInv(c)'
    BY <2>4, <2>5, <2>6
  <2> HIDE DEF ConexionInv, Perdida, Vivo, Antes, Atiende, Rechazo
  <2> QED
    BY <1>2, <2>2, <2>7, Junta DEF EnviaSrv
<1>3. CASE hilo[c].srv = "desconecta" /\ socket_handler_disconnect(c, "srv", "destruye")
  <2>1. /\ con' \in [Conexiones -> [cli : Lados, srv : Lados]]
        /\ CierraSrv(con[c], con'[c], "rota") /\ con'[c].srv.connected = FALSE
        /\ Ajenas(c) /\ Mueve(c, "srv", "destruye") /\ UNCHANGED <<proceso, puerto, escucha>>
    BY <1>1, <1>3, DesconexionServidor DEF Valor
  <2>2. hilo[c].cli = "espera" =>
           con[c].srv.entrada = <<>> /\ con[c].cli.estado \notin {"reset", "rota"}
    BY <1>1, <1>3
  <2>3. <<Respuesta(c)>> # <<>>
    OBVIOUS
  <2>4. Codigo(c)' = Codigo(c) /\ Respuesta(c)' = Respuesta(c)
    OBVIOUS
  <2>5. hilo[c].cli = "espera" /\ Vivo(Cliente(c)) => con'[c].cli.entrada = <<Respuesta(c)>>
    BY <1>1, <1>3, <2>1 DEF CierraSrv
  <2>6. con'[c].srv.entrada = <<>>
        /\ (hilo[c].cli = "espera" => con'[c].cli.estado \notin {"reset", "rota"})
    BY <1>1, <1>3, <2>1 DEF CierraSrv
  <2>7. SocketsInv(c)'
    BY <1>1, <1>3, <2>1 DEF CierraSrv
  <2>8. ServidorInv(c)'
    BY <1>1, <1>3, <2>1 DEF CierraSrv
  <2>9. ClienteInv(c)'
    <3>1. Saluda(c)'
      BY <1>1, <1>3, <2>1
    <3>2. Espera(c)'
      BY <2>1, <2>3, <2>5, <2>6
    <3>3. Rechazada(c)'
      BY <1>1, <1>3, <2>1
    <3>4. Aceptada(c)'
      BY <1>1, <2>1 DEF CierraSrv
    <3>5. Matada(c)'
      BY <1>1, <2>1
    <3> QED
      BY <3>1, <3>2, <3>3, <3>4, <3>5
  <2>10. ConexionInv(c)'
    BY <2>7, <2>8, <2>9
  <2> HIDE DEF ConexionInv, Perdida, Vivo, Antes, Atiende, Rechazo
  <2> QED
    BY <1>3, <2>1, <2>10, Junta
<1>4. CASE hilo[c].srv = "destruye" /\ socket_handler_destroy(c, "srv", "fin")
  <2>1. /\ con' \in [Conexiones -> [cli : Lados, srv : Lados]]
        /\ con'[c].cli = con[c].cli /\ con'[c].srv.entrada = con[c].srv.entrada
        /\ con'[c].srv.estado \in {con[c].srv.estado, "destruido"}
        /\ con[c].srv.connected = FALSE => con'[c].srv.estado = "destruido"
        /\ Ajenas(c) /\ Mueve(c, "srv", "fin") /\ UNCHANGED <<proceso, puerto, escucha>>
    BY <1>1, <1>4, Destruccion DEF Valor
  <2>2. Codigo(c)' = Codigo(c) /\ Respuesta(c)' = Respuesta(c)
    OBVIOUS
  <2>3. SocketsInv(c)'
    BY <1>1, <1>4, <2>1
  <2>4. ServidorInv(c)'
    BY <1>1, <1>4, <2>1
  <2>5. ClienteInv(c)'
    BY <1>1, <1>4, <2>1
  <2>6. ConexionInv(c)'
    BY <2>3, <2>4, <2>5
  <2> HIDE DEF ConexionInv, Perdida, Vivo, Antes, Atiende, Rechazo
  <2> QED
    BY <1>4, <2>1, <2>6, Junta
<1> QED
  BY <1>2, <1>3, <1>4 DEF console_terminate

\* The end of a console by the exit controller of the planner.
LEMMA ConsoleTerminateLtp ==
    ASSUME SistemaInv, NEW c \in Conexiones, NEW m \in {"SUCCESS", "FAILURE"},
           console_terminate(c, "ltp", m), UNCHANGED pc
    PROVE  SistemaInv'
<1> USE DEF ConexionInv, SocketsInv, ServidorInv, ClienteInv, SinConexion, Abierta, Extremos,
           LadoServidor, Quien, Pcb, Manejador, Saluda, Espera, Rechazada, Aceptada, Matada,
           Perdida, Vivo, Antes, Atiende, Rechazo, Cerrados, SinLeer, Si, Mueve, Respondida
<1>1. /\ Tipos /\ PuertosFijos /\ ConexionInv(c)
      /\ c \in Consolas <=> c \notin {"kM", "kI", "kD", "cM"}
  BY Conocidas DEF SistemaInv
<1>2. CASE hilo[c].ltp = m /\ send_message(c, "ltp", m, "desconecta", "desconecta")
  <2>1. con[c].srv.estado \in {"abierto", "fin", "cerrado"} /\ con[c].cli.entrada = <<>>
    BY <1>1, <1>2
  <2>2. EnviaSrv(c, m) /\ Ajenas(c) /\ Mueve(c, "ltp", "desconecta")
        /\ UNCHANGED <<proceso, puerto, escucha>>
    BY <1>1, <1>2, <2>1, EnvioServidor DEF Valor, Mensajes, HilosLtp
  <2>3. Append(con[c].cli.entrada, m) \in {<<"SUCCESS">>, <<"FAILURE">>}
    BY <2>1
  <2>4. hilo[c].cli \in {"programa", "cerrar", "cerrada"} /\ hilo[c].srv = "fin"
    BY <1>1, <1>2
  <2>5. hilo[c].cli # "programa" => con[c].srv.estado # "abierto" /\ con'[c].cli.entrada = <<>>
    BY <1>1, <1>2, <2>2 DEF EnviaSrv
  <2>6. hilo'[c].ltp = "desconecta"
        /\ con'[c].cli.entrada \in {<<>>, <<"SUCCESS">>, <<"FAILURE">>}
    BY <1>1, <1>2, <2>1, <2>2, <2>3, <2>4, <2>5, ZenonT(60) DEF EnviaSrv
  <2>7. Codigo(c)' = Codigo(c) /\ Respuesta(c)' = Respuesta(c)
    OBVIOUS
  <2>8. SocketsInv(c)'
    BY <1>1, <2>2, <2>5 DEF EnviaSrv
  <2>9. ServidorInv(c)'
    BY <1>1, <2>2, <2>4 DEF EnviaSrv
  <2>10. ClienteInv(c)'
    <3>1. Saluda(c)'
      BY <2>2, <2>4
    <3>2. Espera(c)'
      BY <2>2, <2>4
    <3>3. Rechazada(c)'
      BY <2>2, <2>4
    <3>4. Aceptada(c)'
      BY <1>1, <2>2, <2>5, <2>6 DEF EnviaSrv
    <3>5. Matada(c)'
      BY <1>1, <2>2
    <3> QED
      BY <3>1, <3>2, <3>3, <3>4, <3>5
  <2>11. ConexionInv(c)'
    BY <2>8, <2>9, <2>10
  <2> HIDE DEF ConexionInv, Perdida, Vivo, Antes, Atiende, Rechazo
  <2> QED
    BY <2>2, <2>11, Junta DEF EnviaSrv
<1>3. CASE hilo[c].ltp = "desconecta" /\ socket_handler_disconnect(c, "ltp", "destruye")
  <2>1. /\ con' \in [Conexiones -> [cli : Lados, srv : Lados]]
        /\ CierraSrv(con[c], con'[c], "rota") /\ con'[c].srv.connected = FALSE
        /\ Ajenas(c) /\ Mueve(c, "ltp", "destruye") /\ UNCHANGED <<proceso, puerto, escucha>>
    BY <1>1, <1>3, DesconexionServidor DEF Valor, HilosLtp
  <2>2. hilo[c].cli \in {"programa", "cerrar", "cerrada"} /\ hilo[c].srv = "fin"
        /\ con[c].srv.estado # "destruido"
    BY <1>1, <1>3
  <2>3. Codigo(c)' = Codigo(c) /\ Respuesta(c)' = Respuesta(c)
    OBVIOUS
  <2>4. SocketsInv(c)'
    BY <1>1, <2>1, <2>2 DEF CierraSrv
  <2>5. ServidorInv(c)'
    BY <1>1, <2>1, <2>2 DEF CierraSrv
  <2>6. ClienteInv(c)'
    BY <1>1, <2>1, <2>2 DEF CierraSrv
  <2>7. ConexionInv(c)'
    BY <2>4, <2>5, <2>6
  <2> HIDE DEF ConexionInv, Perdida, Vivo, Antes, Atiende, Rechazo
  <2> QED
    BY <2>1, <2>7, Junta
<1>4. CASE hilo[c].ltp = "destruye" /\ socket_handler_destroy(c, "ltp", "fin")
  <2>1. /\ con' \in [Conexiones -> [cli : Lados, srv : Lados]]
        /\ con'[c].cli = con[c].cli /\ con'[c].srv.entrada = con[c].srv.entrada
        /\ con'[c].srv.estado \in {con[c].srv.estado, "destruido"}
        /\ con[c].srv.connected = FALSE => con'[c].srv.estado = "destruido"
        /\ Ajenas(c) /\ Mueve(c, "ltp", "fin") /\ UNCHANGED <<proceso, puerto, escucha>>
    BY <1>1, <1>4, Destruccion DEF Valor, HilosLtp
  <2>2. Codigo(c)' = Codigo(c) /\ Respuesta(c)' = Respuesta(c)
    OBVIOUS
  <2>3. SocketsInv(c)'
    BY <1>1, <1>4, <2>1
  <2>4. ServidorInv(c)'
    BY <1>1, <1>4, <2>1
  <2>5. ClienteInv(c)'
    BY <1>1, <1>4, <2>1
  <2>6. ConexionInv(c)'
    BY <2>3, <2>4, <2>5
  <2> HIDE DEF ConexionInv, Perdida, Vivo, Antes, Atiende, Rechazo
  <2> QED
    BY <2>1, <2>6, Junta
<1> QED
  BY <1>2, <1>3, <1>4 DEF console_terminate

\* The planner is done with a process.
LEMMA RespondePlanner ==
    ASSUME SistemaInv, NEW c \in Conexiones, NEW m \in {"SUCCESS", "FAILURE"},
           hilo[c].ltp = "pcb", Ir(c, "ltp", m),
           UNCHANGED <<proceso, puerto, escucha, con>>, UNCHANGED pc
    PROVE  SistemaInv'
<1> USE DEF ConexionInv, SocketsInv, ServidorInv, ClienteInv, SinConexion, Abierta, Extremos,
           LadoServidor, Quien, Pcb, Manejador, Saluda, Espera, Rechazada, Aceptada, Matada,
           Perdida, Vivo, Antes, Atiende, Rechazo, Cerrados, SinLeer, Si, Mueve, Respondida
<1>1. /\ Tipos /\ PuertosFijos /\ ConexionInv(c)
      /\ c \in Consolas <=> c \notin {"kM", "kI", "kD", "cM"}
  BY Conocidas DEF SistemaInv
<1>2. CASE TRUE
  <2>1. Ajenas(c) /\ Mueve(c, "ltp", m) /\ con' \in [Conexiones -> [cli : Lados, srv : Lados]]
    BY <1>1, IrMueve DEF Valor, HilosLtp, Respuestas, Ajenas, Tipos
  <2>2. Codigo(c)' = Codigo(c) /\ Respuesta(c)' = Respuesta(c)
    OBVIOUS
  <2>3. SocketsInv(c)'
    BY <1>1, <2>1
  <2>4. ServidorInv(c)'
    BY <1>1, <2>1
  <2>5. ClienteInv(c)'
    BY <1>1, <2>1
  <2>6. ConexionInv(c)'
    BY <2>3, <2>4, <2>5
  <2> HIDE DEF ConexionInv, Perdida, Vivo, Antes, Atiende, Rechazo
  <2> QED
    BY <2>1, <2>6, Junta
<1> QED
  BY <1>2

-----------------------------------------------------------------------------
(***************************************************************************)
(* Steps that close more than one connection.                              *)
(***************************************************************************)
\* A connection of the backlog of a server that is disconnected.
LEMMA Reiniciada ==
    ASSUME NEW d \in Conexiones, Tipos, ConexionInv(d), hilo[d].srv = "backlog",
           con'[d] = Cerrar(con[d], "srv", "reset"), hilo'[d] = hilo[d],
           UNCHANGED <<proceso, puerto>>
    PROVE  ConexionInv(d)'
<1> USE DEF ConexionInv, SocketsInv, ServidorInv, ClienteInv, SinConexion, Abierta, Extremos,
           LadoServidor, Quien, Pcb, Manejador, Saluda, Espera, Rechazada, Aceptada, Matada,
           Perdida, Vivo, Antes, Atiende, Rechazo, Cerrados, SinLeer, Si, Respondida
<1>1. CierraSrv(con[d], con'[d], "reset")
  BY CierraServidor DEF CierraSrv, Tipos
<1>2. hilo[d].cli \in HilosCli /\ con[d].srv.estado \in {"cola", "fin", "cerrado"}
  BY DEF Tipos
<1>3. con'[d].srv.estado = "cerrado" /\ con'[d].srv.entrada = <<>>
  BY <1>1 DEF CierraSrv
<1>4. Codigo(d)' = Codigo(d) /\ Respuesta(d)' = Respuesta(d)
  OBVIOUS
<1>5. hilo[d].cli \in {"saludar", "espera", "rechazada"}
  BY <1>2 DEF HilosCli
<1>6. con'[d].cli.estado \in {con[d].cli.estado, "reset"}
  BY <1>1 DEF CierraSrv
<1>7. SocketsInv(d)'
  BY <1>1 DEF CierraSrv
<1>8. ServidorInv(d)'
  BY <1>3
<1>9. ClienteInv(d)'
  BY <1>1, SMTT(30) DEF CierraSrv
<1> QED
  BY <1>7, <1>8, <1>9

\* The client of a connection ends: a console when it is killed, or when it has left its
\* connection; another process when its handshake is over.
LEMMA MuereCliente ==
    ASSUME NEW d \in Conexiones, Tipos, ConexionInv(d), Vivo(Cliente(d)),
           proceso'[Cliente(d)] \notin {"no", "vivo"},
           proceso'[Servidor(puerto[d])] = proceso[Servidor(puerto[d])],
           d \in Consolas =>
              proceso'[d] = "matada" \/ hilo[d].cli \in {"no", "rechazada", "cerrada"},
           d \notin Consolas => hilo[d].cli \notin {"saludar", "espera"},
           con'[d] = Cerrar(con[d], "cli", "reset"), hilo'[d] = hilo[d], UNCHANGED puerto
    PROVE  ConexionInv(d)'
<1> USE DEF ConexionInv, SocketsInv, ServidorInv, ClienteInv, SinConexion, Abierta, Extremos,
           LadoServidor, Quien, Pcb, Manejador, Saluda, Espera, Rechazada, Aceptada, Matada,
           Perdida, Vivo, Antes, Atiende, Rechazo, Cerrados, SinLeer, Si, Respondida
<1>1. CierraCli(con[d], con'[d], "reset")
  BY CierraCliente DEF CierraCli, Tipos
<1>2. hilo[d].cli \in HilosCli /\ con[d].srv \in Lados /\ con[d].cli \in Lados
  BY DEF Tipos
<1>3. Codigo(d)' = Codigo(d) /\ Respuesta(d)' = Respuesta(d)
  OBVIOUS
<1>4. CASE hilo[d].srv = "no"
  <2>1. con'[d] = con[d]
    BY <1>4, SMTT(30) DEF Cerrar, socket_handler_create
  <2> QED
    BY <1>4, <2>1
<1>5. CASE hilo[d].srv # "no"
  <2>1. con'[d].cli.estado = "cerrado" /\ con'[d].cli.entrada = <<>>
    BY <1>1, <1>5 DEF CierraCli
  <2>2. ~Vivo(Cliente(d))'
    OBVIOUS
  <2>3. con'[d].srv.estado # con[d].srv.estado =>
           /\ con[d].srv.estado \in {"cola", "abierto"}
           /\ con'[d].srv.estado \in {"fin", "reset"}
           /\ con'[d].srv.estado = "reset" => con[d].cli.entrada # <<>>
    BY <1>1 DEF CierraCli
  <2>4. con[d].srv.estado \in {"cola", "abierto"} => con'[d].srv.estado \in {"fin", "reset"}
    BY <1>1 DEF CierraCli
  <2>5. con'[d].srv.entrada = con[d].srv.entrada /\ con'[d].srv.connected = con[d].srv.connected
    BY <1>1 DEF CierraCli
  <2>6. SocketsInv(d)'
    BY <1>5, <2>1, <2>3, <2>4, <2>5
  <2>7. ServidorInv(d)'
    <3>1. LadoServidor(d)'
      <4>1. CASE con'[d].srv.estado = con[d].srv.estado
        BY <2>5, <4>1
      <4>2. CASE con'[d].srv.estado # con[d].srv.estado
        <5>1. d \in {"kM", "cM"} => hilo[d].cli \in {"aceptada", "rechazada"}
          BY <1>2, <1>5, Conocidas DEF HilosCli
        <5>2. con'[d].srv.estado = "reset" =>
                 /\ hilo[d].cli \in {"espera", "programa"} /\ d \notin {"kM", "cM"}
                 /\ hilo[d].cli = "programa" => hilo[d].srv \in {"fin", "desconecta"}
          BY <1>2, <1>5, <2>3, <4>2, <5>1 DEF HilosCli
        <5>3. con'[d].srv.estado = "reset" =>
                 hilo[d].srv \notin SinLeer \cup {"acepta", "configura", "rechaza", "memoria",
                                                "ltp_new_process", "destruir_cpu", "FAILURE"}
          BY <2>3, <5>2
        <5>4. con'[d].srv.estado \in {"fin", "reset"}
          BY <2>3, <4>2
        <5> QED
          BY <2>3, <5>2, <5>4
      <4> QED
        BY <4>1, <4>2
    <3>2. Quien(d)'
      OBVIOUS
    <3>3. Pcb(d)'
      BY <2>1, <2>3, <2>5
    <3>4. Manejador(d)'
      BY <2>3
    <3> QED
      BY <3>1, <3>3, <3>4
  <2>8. ClienteInv(d)'
    <3>1. Saluda(d)' /\ Espera(d)'
      BY <2>1, <2>5
    <3>2. Rechazada(d)' /\ Aceptada(d)'
      BY <2>1, <2>3, <2>5
    <3>3. Matada(d)'
      BY SMTT(30)
    <3> QED
      BY <3>1, <3>2
  <2> QED
    BY <2>6, <2>7, <2>8
<1> QED
  BY <1>4, <1>5

\* The server of a connection ends.
LEMMA MuereServidor ==
    ASSUME NEW d \in Conexiones, Tipos, ConexionInv(d),
           proceso'[Servidor(puerto[d])] \notin {"no", "vivo"},
           proceso'[Cliente(d)] = proceso[Cliente(d)],
           con'[d] = Cerrar(con[d], "srv", "reset"), hilo'[d] = hilo[d], UNCHANGED puerto
    PROVE  ConexionInv(d)'
<1> USE DEF ConexionInv, SocketsInv, ServidorInv, ClienteInv, SinConexion, Abierta, Extremos,
           LadoServidor, Quien, Pcb, Manejador, Saluda, Espera, Rechazada, Aceptada, Matada,
           Perdida, Vivo, Antes, Atiende, Rechazo, Cerrados, SinLeer, Si, Respondida
<1>1. CierraSrv(con[d], con'[d], "reset")
  BY CierraServidor DEF CierraSrv, Tipos
<1>2. hilo[d].cli \in HilosCli /\ con[d].srv \in Lados /\ con[d].cli \in Lados
  BY DEF Tipos
<1>3. /\ Codigo(d)' = Codigo(d) /\ Respuesta(d)' = Respuesta(d)
      /\ <<Respuesta(d)>> # <<>> /\ d \in Consolas => proceso'[d] = proceso[d]
  BY DEF Cliente
<1>4. CASE hilo[d].srv = "no"
  <2>1. con'[d] = con[d]
    BY <1>4, SMTT(30) DEF Cerrar, socket_handler_create
  <2> QED
    BY <1>4, <2>1
<1>5. CASE hilo[d].srv # "no"
  <2>1. con'[d].srv.estado \in Cerrados /\ con'[d].srv.entrada = <<>>
    BY <1>1, <1>5 DEF CierraSrv
  <2>2. ~Vivo(Servidor(puerto[d]))' /\ (Vivo(Cliente(d))' <=> Vivo(Cliente(d)))
    OBVIOUS
  <2>3. con'[d].cli.estado # con[d].cli.estado =>
           /\ con[d].cli.estado = "abierto"
           /\ con'[d].cli.estado \in {"fin", "reset"}
           /\ con'[d].cli.estado = "reset" =>
                 con[d].srv.entrada # <<>> \/ hilo[d].srv = "backlog"
    BY <1>1 DEF CierraSrv
  <2>4. con'[d].cli.estado # "abierto"
    BY <1>1 DEF CierraSrv
  <2>5. /\ con'[d].cli.entrada = con[d].cli.entrada
        /\ con[d].srv.connected = FALSE => con'[d].srv.connected = FALSE
        /\ con'[d].srv.estado = "destruido" <=> con[d].srv.estado = "destruido"
    <3>1. con'[d].srv.connected = con[d].srv.connected
      BY CierraServidor DEF Tipos
    <3> QED
      BY <1>1, <3>1 DEF CierraSrv
  <2>6. SocketsInv(d)'
    BY <1>5, <2>1, <2>3, <2>4, <2>5
  <2>7. ServidorInv(d)'
    <3>1. LadoServidor(d)'
      BY <2>1, <2>5
    <3>2. Quien(d)'
      OBVIOUS
    <3>3. Pcb(d)'
      BY <2>1, <2>5
    <3>4. Manejador(d)'
      BY <2>5
    <3> QED
      BY <3>1, <3>3, <3>4
  <2>8. ClienteInv(d)'
    <3>1. Saluda(d)' /\ Espera(d)'
      <4>1. Saluda(d)'
        BY <2>1, <2>2, <2>3, <2>5
      <4>2. Espera(d)'
        BY <1>3, <2>1, <2>2, <2>3, <2>5, SMTT(30)
      <4> QED
        BY <4>1, <4>2
    <3>2. Rechazada(d)' /\ Aceptada(d)'
      BY <2>1, <2>3, <2>5
    <3>3. Matada(d)'
      BY <1>3
    <3> QED
      BY <3>1, <3>2, <3>3
  <2> QED
    BY <2>6, <2>7, <2>8
<1> QED
  BY <1>4, <1>5

\* The CPU's handler disconnects its server: the connections of its backlog are reset.
LEMMA DesconectaServidor ==
    ASSUME SistemaInv, NEW c \in Conexiones, Vivo(Servidor(puerto[c])),
           hilo[c].srv = "desconecta_servidor", server_disconnect(c, "srv", "cpu"), UNCHANGED pc
    PROVE  SistemaInv'
<1> DEFINE Atras(d) == puerto[d] = puerto[c] /\ hilo[d].srv = "backlog"
<1>1. Tipos /\ PuertosFijos /\ EtapaInv /\ ConexionInv(c) /\ c \in {"kI", "kD"}
  BY DEF SistemaInv, ConexionInv, ServidorInv, Quien
<1>2. /\ escucha' = [escucha EXCEPT ![puerto[c]] = "cerrando"]
      /\ con' = [d \in Conexiones |-> IF Atras(d) THEN Cerrar(con[d], "srv", "reset")
            ELSE con[d]]
      /\ Ir(c, "srv", "cpu") /\ UNCHANGED <<proceso, puerto>>
  BY DEF server_disconnect
<1>3. Mueve(c, "srv", "cpu") /\ \A d \in Conexiones \ {c} : hilo'[d] = hilo[d]
  BY <1>1, <1>2, IrMueve DEF Valor, Atiende
<1>4. \A d \in Conexiones : Cerrar(con[d], "srv", "reset") \in [cli : Lados, srv : Lados]
  BY <1>1, CierraServidor DEF Tipos
<1>5. con' \in [Conexiones -> [cli : Lados, srv : Lados]]
  BY <1>1, <1>2, <1>4 DEF Tipos
<1>6. Tipos' /\ PuertosFijos'
  BY <1>1, <1>2, <1>3, <1>5 DEF Tipos, PuertosFijos, Mueve
<1>7. con'[c] = con[c]
  BY <1>2
<1>8. ConexionInv(c)'
  <2>1. hilo'[c].cli = hilo[c].cli /\ hilo'[c].srv = "cpu" /\ hilo'[c].ltp = hilo[c].ltp
    BY <1>3 DEF Mueve
  <2>2. puerto[c] # "consolas" /\ c \notin Consolas
    BY <1>1, Conocidas DEF PuertosFijos
  <2> USE DEF ConexionInv, SocketsInv, ServidorInv, ClienteInv, Vivo, Atiende, Rechazo,
      Cerrados,
              SinLeer, Si, Respondida
  <2>3. SocketsInv(c)'
    BY <1>1, <1>2, <2>1 DEF SinConexion, Abierta, Extremos
  <2>4. ServidorInv(c)'
    BY <1>1, <1>7, <2>1, <2>2 DEF LadoServidor, Quien, Pcb, Manejador
  <2>5. ClienteInv(c)'
    <3>1. Codigo(c)' = Codigo(c) /\ Respuesta(c)' = Respuesta(c)
      OBVIOUS
    <3> QED
      BY <1>1, <1>2, <2>1 DEF Saluda, Espera, Rechazada, Aceptada, Matada, Perdida
  <2> QED
    BY <2>3, <2>4, <2>5
<1>9. \A d \in Conexiones \ {c} : ConexionInv(d)'
  <2> SUFFICES ASSUME NEW d \in Conexiones \ {c} PROVE ConexionInv(d)'
    OBVIOUS
  <2>1. ConexionInv(d) /\ hilo'[d] = hilo[d]
    BY <1>3 DEF SistemaInv
  <2>2. CASE Atras(d)
    BY <1>1, <1>2, <2>1, <2>2, Reiniciada
  <2>3. CASE ~Atras(d)
    BY <1>2, <2>1, <2>3, OtraConexion
  <2> QED
    BY <2>2, <2>3
<1>10. EtapaInv'
  <2>1. /\ \A d \in Conexiones : hilo'[d].cli = hilo[d].cli
              /\ (hilo'[d].srv = "no" <=> hilo[d].srv = "no")
        /\ {"kM", "kI", "kD", "cM"} \subseteq Conexiones
    BY <1>3, Conocidas DEF Mueve
  <2>2. \A p \in Puertos : p # puerto[c] => escucha'[p] = escucha[p]
    BY <1>2
  <2>3. CASE c = "kI"
    BY <1>1, <1>2, <2>1 DEF EtapaInv, PuertosFijos, Vivo
  <2>4. CASE c = "kD"
    BY <1>1, <1>2, <2>1 DEF EtapaInv, PuertosFijos, Vivo
  <2> QED
    BY <1>1, <2>3, <2>4
<1>11. SigpipeSoloPorMatada'
  <2>1. \A d \in Consolas : d \in Conexiones /\ hilo'[d].cli = hilo[d].cli
    BY <1>3, Conocidas DEF Mueve
  <2> QED
    BY <1>2, <2>1 DEF SistemaInv, SigpipeSoloPorMatada
<1> QED
  BY <1>6, <1>8, <1>9, <1>10, <1>11 DEF SistemaInv

\* The end of a process, as equations.
LEMMA TerminaEs ==
    ASSUME Tipos, PuertosFijos, NEW p \in Procesos,
           NEW como \in {"salio", "sigpipe", "nulo", "matada"},
           Termina(p, como)
    PROVE  /\ proceso' \in [Procesos -> {"no", "vivo", "salio", "sigpipe", "nulo", "matada"}]
           /\ proceso'[p] = como /\ \A q \in Procesos \ {p} : proceso'[q] = proceso[q]
           /\ con' \in [Conexiones -> [cli : Lados, srv : Lados]]
           /\ escucha' \in [Puertos -> {"no", "escucha", "acepta", "cerrando", "nulo"}]
           /\ \A q \in Puertos : escucha'[q] = IF Servidor(q) = p THEN "no" ELSE escucha[q]
           /\ UNCHANGED <<puerto, hilo>>
           /\ \A d \in Conexiones :
                 /\ Cliente(d) = p => con'[d] = Cerrar(con[d], "cli", "reset")
                 /\ Servidor(puerto[d]) = p => con'[d] = Cerrar(con[d], "srv", "reset")
                 /\ Cliente(d) # p /\ Servidor(puerto[d]) # p => con'[d] = con[d]
                 /\ Cliente(d) # p \/ Servidor(puerto[d]) # p

<1>1. /\ proceso' = [proceso EXCEPT ![p] = como] /\ con' = CerrarTodo(p)
      /\ escucha' = [q \in Puertos |-> IF Servidor(q) = p THEN "no" ELSE escucha[q]]
      /\ UNCHANGED <<puerto, hilo>>
  BY DEF Termina
<1>2. /\ proceso' \in [Procesos -> {"no", "vivo", "salio", "sigpipe", "nulo", "matada"}]
      /\ proceso'[p] = como /\ \A q \in Procesos \ {p} : proceso'[q] = proceso[q]
  BY <1>1 DEF Tipos
<1>3. /\ escucha' \in [Puertos -> {"no", "escucha", "acepta", "cerrando", "nulo"}]
      /\ \A q \in Puertos : escucha'[q] = IF Servidor(q) = p THEN "no" ELSE escucha[q]
  BY <1>1 DEF Tipos
<1>4. \A d \in Conexiones : Cliente(d) # Servidor(puerto[d])
  <2> SUFFICES ASSUME NEW d \in Conexiones PROVE Cliente(d) # Servidor(puerto[d])
    OBVIOUS
  <2>1. puerto[d] \in Puertos
    BY DEF Tipos
  <2>2. CASE d \in Consolas
    BY <2>1, <2>2, Conocidas DEF Cliente
  <2>3. CASE d \notin Consolas
    BY Conocidas DEF Cliente, Servidor, PuertosFijos
  <2> QED
    BY <2>2, <2>3
<1>5. \A d \in Conexiones :
         /\ Cliente(d) = p => con'[d] = Cerrar(con[d], "cli", "reset")
         /\ Servidor(puerto[d]) = p => con'[d] = Cerrar(con[d], "srv", "reset")
         /\ Cliente(d) # p /\ Servidor(puerto[d]) # p => con'[d] = con[d]
  BY <1>1, <1>4 DEF CerrarTodo
<1>6. \A d \in Conexiones : con'[d] \in [cli : Lados, srv : Lados]
  <2> SUFFICES ASSUME NEW d \in Conexiones PROVE con'[d] \in [cli : Lados, srv : Lados]
    OBVIOUS
  <2>1. /\ con[d] \in [cli : Lados, srv : Lados]
        /\ Cerrar(con[d], "cli", "reset") \in [cli : Lados, srv : Lados]
        /\ Cerrar(con[d], "srv", "reset") \in [cli : Lados, srv : Lados]
    BY CierraCliente, CierraServidor DEF Tipos
  <2> QED
    BY <1>5, <2>1
<1>7. con' \in [Conexiones -> [cli : Lados, srv : Lados]]
  BY <1>1, <1>6 DEF CerrarTodo
<1> QED
  BY <1>1, <1>2, <1>3, <1>4, <1>5, <1>7

\* What may end a process, and how.
LEMMA MuereProceso ==
    ASSUME SistemaInv, NEW p \in Procesos, Vivo(p),
           NEW como \in {"salio", "sigpipe", "nulo", "matada"}, Termina(p, como), UNCHANGED pc,
           p \in Consolas => como = "matada" \/ hilo[p].cli \in {"no", "rechazada", "cerrada"},
           \A d \in Conexiones \ Consolas : Cliente(d) = p =>
              hilo[d].cli \notin {"saludar", "espera"},
           como = "nulo" /\ p = "cpu" => pc["cpu"] \in {"interrupt", "mmu", "iniciado"},
           como = "sigpipe" => p = "kernel" /\ \E d \in Consolas :
              proceso[d] = "matada" /\ hilo[d].cli = "espera" /\ puerto[d] = "consolas"
    PROVE  SistemaInv'
<1>1. Tipos /\ PuertosFijos /\ EtapaInv /\ SigpipeSoloPorMatada
  BY DEF SistemaInv
<1>2. /\ proceso' \in [Procesos -> {"no", "vivo", "salio", "sigpipe", "nulo", "matada"}]
      /\ proceso'[p] = como /\ \A q \in Procesos \ {p} : proceso'[q] = proceso[q]
      /\ con' \in [Conexiones -> [cli : Lados, srv : Lados]]
      /\ escucha' \in [Puertos -> {"no", "escucha", "acepta", "cerrando", "nulo"}]
      /\ \A q \in Puertos : escucha'[q] = IF Servidor(q) = p THEN "no" ELSE escucha[q]
      /\ UNCHANGED <<puerto, hilo>>
  BY <1>1, TerminaEs
<1>3. \A d \in Conexiones :
         /\ Cliente(d) = p => con'[d] = Cerrar(con[d], "cli", "reset")
         /\ Servidor(puerto[d]) = p => con'[d] = Cerrar(con[d], "srv", "reset")
         /\ Cliente(d) # p /\ Servidor(puerto[d]) # p => con'[d] = con[d]
         /\ Cliente(d) # p \/ Servidor(puerto[d]) # p
  BY <1>1, TerminaEs
<1>4. Tipos' /\ PuertosFijos'
  BY <1>1, <1>2 DEF Tipos, PuertosFijos
<1>5. \A d \in Conexiones : ConexionInv(d)'
  <2> SUFFICES ASSUME NEW d \in Conexiones PROVE ConexionInv(d)'
    OBVIOUS
  <2>1. /\ ConexionInv(d) /\ hilo'[d] = hilo[d] /\ UNCHANGED puerto /\ Cliente(d) \in Procesos
        /\ Servidor(puerto[d]) \in Procesos /\ (d \in Consolas => Cliente(d) = d)
    BY <1>2, Conocidas DEF SistemaInv, Tipos, Cliente
  <2>2. CASE Cliente(d) = p
    <3>1. Servidor(puerto[d]) # p /\ con'[d] = Cerrar(con[d], "cli", "reset")
      BY <1>3, <2>2
    <3>2. proceso'[Servidor(puerto[d])] = proceso[Servidor(puerto[d])]
      BY <1>2, <2>1, <3>1
    <3>3. d \in Consolas =>
             proceso'[d] = "matada" \/ hilo[d].cli \in {"no", "rechazada", "cerrada"}
      BY <1>2, <2>1, <2>2
    <3> QED
      BY <1>1, <1>2, <2>1, <2>2, <3>1, MuereCliente
  <2>3. CASE Servidor(puerto[d]) = p
    <3>1. Cliente(d) # p /\ con'[d] = Cerrar(con[d], "srv", "reset")
      BY <1>3, <2>3
    <3>2. proceso'[Cliente(d)] = proceso[Cliente(d)]
      BY <1>2, <2>1, <3>1
    <3> QED
      BY <1>1, <1>2, <2>1, <2>3, <3>1, MuereServidor
  <2>4. CASE Cliente(d) # p /\ Servidor(puerto[d]) # p
    BY <1>2, <1>3, <2>1, <2>4, OtraConexion
  <2> QED
    BY <2>2, <2>3, <2>4
<1>6. EtapaInv'
  <2>1. /\ \A q \in Puertos : escucha'[q] # "no" => escucha'[q] = escucha[q] /\ Servidor(q) # p
        /\ \A q \in Puertos : Servidor(q) \in Procesos
        /\ {"interrupt", "dispatch", "consolas"} \subseteq Puertos
    BY <1>2, Conocidas DEF Puertos
  <2>2. \A q \in Procesos :
           /\ proceso'[q] = "no" => proceso[q] = "no"
           /\ q # p => proceso'[q] = proceso[q]
    BY <1>2
  <2>3. \A q \in Puertos : escucha'[q] # "no" => Vivo(Servidor(q))'
    BY <1>1, <2>1, <2>2 DEF EtapaInv, Vivo
  <2>4. proceso'["cpu"] = "nulo" => pc["cpu"] \in {"interrupt", "mmu", "iniciado"}
    BY <1>1, <1>2 DEF EtapaInv, Procesos
  <2>5. /\ proceso'["kernel"] = "no" => pc["kernel"] = "crear"
        /\ proceso'["cpu"] = "no" => pc["cpu"] = "conectar"
    BY <1>1, <2>2 DEF EtapaInv, Procesos
  <2> QED
    BY <1>1, <1>2, <2>1, <2>3, <2>4, <2>5 DEF EtapaInv
<1>7. SigpipeSoloPorMatada'
  <2> SUFFICES ASSUME NEW q \in Procesos, proceso'[q] = "sigpipe"
               PROVE  /\ q = "kernel"
                      /\ \E d \in Consolas :
                            proceso'[d] = "matada" /\ hilo'[d].cli = "espera"
                            /\ puerto'[d] = "consolas"
    BY DEF SigpipeSoloPorMatada
  <2>1. /\ q = "kernel"
        /\ \E d \in Consolas :
              proceso[d] = "matada" /\ hilo[d].cli = "espera" /\ puerto[d] = "consolas"
    BY <1>1, <1>2 DEF SigpipeSoloPorMatada
  <2> QED
    BY <1>2, <2>1, Conocidas
<1> QED
  BY <1>4, <1>5, <1>6, <1>7 DEF SistemaInv

-----------------------------------------------------------------------------
(***************************************************************************)
(* The steps of a client.                                                  *)
(***************************************************************************)
\* The stage of the kernel that connects c.
Turno(c) ==
    /\ c = "kM" => pc["kernel"] = "memoria"
    /\ c = "kI" => pc["kernel"] = "interrupt"
    /\ c = "kD" => pc["kernel"] = "dispatch"

\* A client that connects, or that nobody listens to.
LEMMA ConectaCliente ==
    ASSUME SistemaInv, NEW c \in Conexiones, Vivo(Cliente(c)), Turno(c), connect_to_server(c),
           UNCHANGED pc
    PROVE  SistemaInv'
<1>1. Tipos /\ PuertosFijos /\ EtapaInv /\ SigpipeSoloPorMatada /\ ConexionInv(c)
  BY DEF SistemaInv
<1>2. hilo[c].cli = "conectar" /\ UNCHANGED <<proceso, puerto, escucha>>
      /\ puerto[c] \in Puertos
  BY <1>1 DEF connect_to_server, Tipos
<1>3. /\ hilo[c].srv = "no" /\ hilo[c].ltp = "no"
      /\ con[c].cli = socket_handler_create /\ con[c].srv = socket_handler_create
  BY <1>1, <1>2 DEF ConexionInv, SocketsInv, Abierta, SinConexion
<1>4. Codigo(c)' = Codigo(c) /\ Respuesta(c)' = Respuesta(c)
  OBVIOUS
<1>5. /\ con' \in [Conexiones -> [cli : Lados, srv : Lados]] /\ Ajenas(c)
      /\ hilo' \in [Conexiones -> [cli : HilosCli, srv : Antes \cup Rechazo \cup Atiende,
                                   ltp : HilosLtp]]
      /\ hilo'[c].ltp = "no"
      /\ \/ /\ escucha[puerto[c]] # "no" /\ Vivo(Servidor(puerto[c]))
            /\ hilo'[c].cli = "saludar" /\ hilo'[c].srv = "backlog"
            /\ con'[c].cli.estado = "abierto" /\ con'[c].srv.estado = "cola"
            /\ con'[c].cli.entrada = <<>> /\ con'[c].srv.entrada = <<>>
         \/ /\ hilo'[c].cli = "rechazada" /\ hilo'[c].srv = "no"
            /\ con'[c] = con[c]
  <2>1. CASE crear_conexion(c)
    <3>1. /\ con' = [con EXCEPT ![c] =
                [cli |-> [@.cli EXCEPT !.estado = "abierto", !.connected = TRUE],
                 srv |-> [@.srv EXCEPT !.estado = "cola"]]]
          /\ hilo' = [hilo EXCEPT ![c].cli = "saludar", ![c].srv = "backlog"]
      BY <2>1 DEF connect_to_server
    <3>2. PICK a, b : /\ a = [con[c].cli EXCEPT !.estado = "abierto", !.connected = TRUE]
                      /\ b = [con[c].srv EXCEPT !.estado = "cola"]
      OBVIOUS
    <3>3. /\ a.estado = "abierto" /\ a.entrada = <<>> /\ b.estado = "cola" /\ b.entrada = <<>>
          /\ a \in Lados /\ b \in Lados
      <4>1. /\ con[c].cli \in Lados /\ con[c].srv \in Lados
            /\ con[c].cli.entrada = <<>> /\ con[c].srv.entrada = <<>>
        BY <1>1, <1>3 DEF Tipos, socket_handler_create
      <4>2. a.estado = "abierto" /\ a.entrada = con[c].cli.entrada /\ a \in Lados
        BY <3>2, <4>1 DEF Lados, Estados
      <4>3. b.estado = "cola" /\ b.entrada = con[c].srv.entrada /\ b \in Lados
        BY <3>2, <4>1 DEF Lados, Estados
      <4> QED
        BY <4>1, <4>2, <4>3
    <3>4. con' = [con EXCEPT ![c] = [cli |-> a, srv |-> b]]
      BY <3>1, <3>2
    <3>5. /\ con' \in [Conexiones -> [cli : Lados, srv : Lados]]
          /\ con'[c].cli = a /\ con'[c].srv = b /\ \A d \in Conexiones \ {c} : con'[d] = con[d]
      BY <1>1, <3>3, <3>4 DEF Tipos
    <3>6. /\ hilo' \in [Conexiones -> [cli : HilosCli, srv : Antes \cup Rechazo \cup Atiende,
                                       ltp : HilosLtp]]
          /\ hilo'[c].cli = "saludar" /\ hilo'[c].srv = "backlog" /\ hilo'[c].ltp = hilo[c].ltp
          /\ \A d \in Conexiones \ {c} : hilo'[d] = hilo[d]
      BY <1>1, <3>1 DEF Tipos, HilosCli, Antes
    <3>7. escucha[puerto[c]] # "no" /\ Vivo(Servidor(puerto[c]))
      BY <1>1, <1>2, <2>1 DEF crear_conexion, EtapaInv
    <3> QED
      BY <1>3, <3>3, <3>5, <3>6, <3>7 DEF Ajenas
  <2>2. CASE ~crear_conexion(c)
    <3>1. Ir(c, "cli", "rechazada") /\ con' = con
      BY <2>2 DEF connect_to_server
    <3> QED
      BY <1>1, <1>3, <3>1, IrMueve DEF Valor, HilosCli, Mueve, Ajenas, Tipos
  <2> QED
    BY <2>1, <2>2
<1>6. Tipos' /\ PuertosFijos'
  BY <1>1, <1>2, <1>5 DEF Tipos, PuertosFijos
<1>7. ConexionInv(c)'
  <2> USE DEF ConexionInv, SocketsInv, ServidorInv, ClienteInv, SinConexion, Abierta, Extremos,
              LadoServidor, Quien, Pcb, Manejador, Saluda, Espera, Rechazada, Aceptada, Matada,
              Perdida, Vivo, Atiende, Rechazo, Cerrados, SinLeer, Si, socket_handler_create
  <2>1. c \in Consolas => Cliente(c) = c
    BY DEF Cliente
  <2>2. SocketsInv(c)'
    BY <1>2, <1>3, <1>5
  <2>3. ServidorInv(c)'
    BY <1>3, <1>5
  <2>4. ClienteInv(c)'
    BY <1>2, <1>3, <1>5, <2>1
  <2> QED
    BY <2>2, <2>3, <2>4
<1>8. \A d \in Conexiones \ {c} : ConexionInv(d)'
  BY <1>2, <1>5, OtraConexion DEF SistemaInv, Ajenas
<1>9. EtapaInv'
  <2>1. \A d \in Conexiones \ {c} : hilo'[d] = hilo[d]
    BY <1>5 DEF Ajenas
  <2>2. hilo'[c].srv # "no" =>
          /\ puerto[c] = "interrupt" => pc["cpu"] \in {"interrupt", "mmu", "iniciado"}
          /\ puerto[c] = "dispatch" => pc["cpu"] \notin {"conectar", "servidor_dispatch"}
          /\ puerto[c] = "consolas" => pc["kernel"] \in {"escuchar", "iniciado"}
    BY <1>1, <1>5 DEF EtapaInv
  <2>3. \A d \in Conexiones : hilo'[d].srv # "no" =>
          /\ puerto[d] = "interrupt" => pc["cpu"] \in {"interrupt", "mmu", "iniciado"}
          /\ puerto[d] = "dispatch" => pc["cpu"] \notin {"conectar", "servidor_dispatch"}
          /\ puerto[d] = "consolas" => pc["kernel"] \in {"escuchar", "iniciado"}
    BY <1>1, <2>1, <2>2 DEF EtapaInv
  <2>4. \A d \in {"kM", "kI", "kD", "cM"} :
           /\ hilo'[d].cli # "aceptada" => hilo[d].cli # "aceptada"
           /\ hilo[d].cli = "conectar" /\ d # c => hilo'[d].cli = "conectar"
           /\ hilo'[d].srv = "no" => hilo[d].srv = "no"
    BY <1>2, <1>3, <2>1, Conocidas
  <2> QED
    BY <1>1, <1>2, <2>3, <2>4 DEF EtapaInv, Vivo, Turno
<1>10. SigpipeSoloPorMatada'
  <2>1. \A d \in Consolas : proceso[d] = "matada" => hilo'[d].cli = hilo[d].cli
    BY <1>5, Conocidas DEF Ajenas, Vivo, Cliente
  <2> QED
    BY <1>1, <1>2, <2>1 DEF SigpipeSoloPorMatada
<1> QED
  BY <1>6, <1>7, <1>8, <1>9, <1>10 DEF SistemaInv

\* What the client's handshake makes of each answer.
LEMMA RespuestaAlCliente ==
    ASSUME NEW c \in Conexiones
    PROVE  /\ Aceptado(c, Respuesta(c))
           /\ \A m \in {"REJECTED", "SKT_CONNECTION_LOST", "errno"} : ~Aceptado(c, m)
  BY Conocidas
     DEF Aceptado, Respuesta, memory_handshake, cpu_handshake, memoria_handshake,
         kernel_handshake

\* The client says who it is, or finds that it was reset.
LEMMA SaludaCliente ==
    ASSUME SistemaInv, NEW c \in Conexiones, Vivo(Cliente(c)),
           hilo[c].cli = "saludar", send_message(c, "cli", Codigo(c), "espera", "rechazada"),
           UNCHANGED pc
    PROVE  SistemaInv'
<1> USE DEF ConexionInv, SocketsInv, ServidorInv, ClienteInv, SinConexion, Abierta, Extremos,
           LadoServidor, Quien, Pcb, Manejador, Saluda, Espera, Rechazada, Aceptada, Matada,
           Perdida, Vivo, Antes, Atiende, Rechazo, Cerrados, SinLeer, Si, Mueve, Respondida
<1>1. /\ Tipos /\ PuertosFijos /\ ConexionInv(c)
      /\ c \in Consolas <=> c \notin {"kM", "kI", "kD", "cM"}
  BY Conocidas DEF SistemaInv
<1>2. CASE con[c].cli.estado # "reset"
  <2>1. con[c].cli.estado # "rota" /\ con[c].cli.entrada = <<>> /\ con[c].srv.entrada = <<>>
    BY <1>1
  <2>2. Codigo(c) \in Mensajes
    BY <1>1, RespuestaAlSaludo
  <2>3. Append(con[c].srv.entrada, Codigo(c)) = <<Codigo(c)>> /\ <<Codigo(c)>> # <<>>
    BY <2>1, SMTT(30)
  <2>4. EnviaCli(c, Codigo(c)) /\ Ajenas(c) /\ UNCHANGED <<proceso, puerto, escucha>>
        /\ Mueve(c, "cli", "espera")
    BY <1>1, <1>2, <2>2, EnvioCliente DEF HilosCli
  <2>5. hilo[c].srv \in Antes \cup Rechazo \cup Atiende /\ (c \in Consolas => Cliente(c) = c)
    BY <2>4 DEF Cliente
  <2>6. Codigo(c)' = Codigo(c) /\ Respuesta(c)' = Respuesta(c)
    OBVIOUS
  <2>7. /\ con'[c].srv.entrada \in {<<>>, <<Codigo(c)>>} /\ con'[c].cli.entrada = <<>>
        /\ con'[c].srv.estado = con[c].srv.estado
              /\ con'[c].cli.estado \in {"abierto", "fin", "rota"}
        /\ con[c].cli.estado # "abierto" =>
              con'[c].srv.entrada = <<>> /\ con'[c].cli.estado # "abierto"
        /\ con[c].cli.estado = "abierto" => con'[c].cli.estado = "abierto"
    BY <1>1, <1>2, <2>1, <2>2, <2>3, <2>4, <2>5, <2>6, ZenonT(60) DEF EnviaCli
  <2>8. SocketsInv(c)'
    BY <1>1, <2>4 DEF EnviaCli
  <2>9. ServidorInv(c)'
    BY <1>1, <2>4 DEF EnviaCli
  <2>10. ClienteInv(c)'
    <3>1. Saluda(c)'
      BY <2>4
    <3>2. Espera(c)'
      BY <1>1, <2>4, <2>7
    <3>3. Rechazada(c)'
      BY <2>4
    <3>4. Aceptada(c)'
      BY <2>4
    <3>5. Matada(c)'
      BY <2>4, <2>5
    <3> QED
      BY <3>1, <3>2, <3>3, <3>4, <3>5
  <2>11. ConexionInv(c)'
    BY <2>8, <2>9, <2>10
  <2> HIDE DEF ConexionInv, Perdida, Vivo, Antes, Atiende, Rechazo
  <2> QED
    BY <2>4, <2>11, Junta DEF EnviaCli
<1>3. CASE con[c].cli.estado = "reset"
  <2>1. con[c].cli.entrada = <<>> /\ con[c].srv.entrada = <<>> /\ Perdida(c)
    BY <1>1, <1>3, SMTT(30)
  <2>2. Codigo(c) \in Mensajes
    BY <1>1, RespuestaAlSaludo
  <2>3. EnviaCli(c, Codigo(c)) /\ Ajenas(c) /\ UNCHANGED <<proceso, puerto, escucha>>
        /\ Mueve(c, "cli", "rechazada")
    BY <1>1, <1>3, <2>1, <2>2, EnvioCliente, ZenonT(60) DEF HilosCli
  <2>4. Codigo(c)' = Codigo(c) /\ Respuesta(c)' = Respuesta(c)
    OBVIOUS
  <2>5. SocketsInv(c)'
    BY <1>1, <2>3 DEF EnviaCli
  <2>6. ServidorInv(c)'
    BY <1>1, <2>3 DEF EnviaCli
  <2>7. ClienteInv(c)'
    <3>1. Saluda(c)'
      BY <2>3
    <3>2. Espera(c)'
      BY <2>3
    <3>3. Rechazada(c)'
      BY <1>3, <2>1, <2>3 DEF EnviaCli
    <3>4. Aceptada(c)'
      BY <2>3
    <3>5. Matada(c)'
      BY <2>3
    <3> QED
      BY <3>1, <3>2, <3>3, <3>4, <3>5
  <2>8. ConexionInv(c)'
    BY <2>5, <2>6, <2>7
  <2> HIDE DEF ConexionInv, Perdida, Vivo, Antes, Atiende, Rechazo
  <2> QED
    BY <2>3, <2>8, Junta DEF EnviaCli
<1> QED
  BY <1>2, <1>3

\* The client reads the answer, or the end of the connection.
LEMMA EsperaCliente ==
    ASSUME SistemaInv, NEW c \in Conexiones, Vivo(Cliente(c)),
           hilo[c].cli = "espera",
           recieve_message(c, "cli",
              IF Aceptado(c, Recibido(c, "cli")) THEN "aceptada" ELSE "rechazada"),
           UNCHANGED pc
    PROVE  SistemaInv'
<1> USE DEF ConexionInv, SocketsInv, ServidorInv, ClienteInv, SinConexion, Abierta, Extremos,
           LadoServidor, Quien, Pcb, Manejador, Saluda, Espera, Rechazada, Aceptada, Matada,
           Perdida, Vivo, Antes, Atiende, Rechazo, Cerrados, SinLeer, Si, Mueve, Respondida
<1>1. /\ Tipos /\ PuertosFijos /\ ConexionInv(c)
      /\ c \in Consolas <=> c \notin {"kM", "kI", "kD", "cM"}
  BY Conocidas DEF SistemaInv
<1>2. CASE Aceptado(c, Recibido(c, "cli"))
  <2>1. recieve_message(c, "cli", "aceptada")
    BY <1>2
  <2>2. RecibeCli(c) /\ Ajenas(c) /\ Mueve(c, "cli", "aceptada")
        /\ UNCHANGED <<proceso, puerto, escucha>>
    BY <1>1, <2>1, RecepcionCliente DEF HilosCli
  <2>3. con[c].cli.entrada # <<>>
    BY <1>2, RespuestaAlCliente DEF Recibido
  <2>4. /\ Tail(<<Respuesta(c)>>) = <<>> /\ Head(<<"REJECTED">>) = "REJECTED"
        /\ <<"REJECTED">> # <<>>
    OBVIOUS
  <2>5. con[c].cli.entrada # <<"REJECTED">>
    BY <1>2, RespuestaAlCliente DEF Recibido
  <2>6. hilo[c].srv \notin SinLeer \cup {"acepta", "configura", "rechaza"} \cup Rechazo
    BY <1>1, <2>3, <2>5
  <2>7. hilo[c].srv \in Atiende
    BY <1>1, <2>6 DEF Tipos
  <2>8. con[c].cli.entrada = <<Respuesta(c)>> /\ con[c].srv.entrada = <<>>
        /\ con[c].cli.estado \notin {"reset", "rota"}
    BY <1>1, <2>7
  <2>9. con'[c].cli.entrada = <<>> /\ (c \in Consolas => Cliente(c) = c)
    BY <2>2, <2>8 DEF RecibeCli, Cliente
  <2>10. Codigo(c)' = Codigo(c) /\ Respuesta(c)' = Respuesta(c)
    OBVIOUS
  <2>11. SocketsInv(c)'
    BY <1>1, <2>2 DEF RecibeCli
  <2>12. ServidorInv(c)'
    BY <1>1, <2>2 DEF RecibeCli
  <2>13. ClienteInv(c)'
    <3>1. Saluda(c)'
      BY <2>2
    <3>2. Espera(c)'
      BY <2>2
    <3>3. Rechazada(c)'
      BY <2>2
    <3>4. Aceptada(c)'
      BY <1>1, <2>2, <2>7, <2>9 DEF RecibeCli
    <3>5. Matada(c)'
      BY <2>2, <2>9
    <3> QED
      BY <3>1, <3>2, <3>3, <3>4, <3>5
  <2>14. ConexionInv(c)'
    BY <2>11, <2>12, <2>13
  <2> HIDE DEF ConexionInv, Perdida, Vivo, Antes, Atiende, Rechazo
  <2> QED
    BY <2>2, <2>14, Junta DEF RecibeCli
<1>3. CASE ~Aceptado(c, Recibido(c, "cli"))
  <2>1. recieve_message(c, "cli", "rechazada")
    BY <1>3
  <2>2. RecibeCli(c) /\ Ajenas(c) /\ Mueve(c, "cli", "rechazada")
        /\ UNCHANGED <<proceso, puerto, escucha>>
    BY <1>1, <2>1, RecepcionCliente DEF HilosCli
  <2>3. /\ Head(<<Respuesta(c)>>) = Respuesta(c) /\ Tail(<<"REJECTED">>) = <<>>
        /\ <<Respuesta(c)>> # <<>>
    OBVIOUS
  <2>4. con[c].cli.entrada # <<Respuesta(c)>>
    BY <1>1, <1>3, <2>1, <2>2, <2>3, RespuestaAlCliente, SMTT(30) DEF Recibido
  <2>5. hilo[c].srv \notin Atiende /\ hilo[c].srv # "no"
    BY <1>1, <2>4
  <2>6. con[c].cli.entrada # <<>> =>
           hilo[c].srv \in Rechazo /\ con[c].cli.entrada = <<"REJECTED">>
    BY <1>1, <2>5 DEF Tipos
  <2>7. con'[c].cli.entrada = <<>> /\ (c \in Consolas => Cliente(c) = c)
    BY <1>1, <1>3, <2>1, <2>2, <2>3, <2>4, <2>5, <2>6, UnMensaje, ZenonT(60) DEF RecibeCli, Cliente
  <2>8. Perdida(c)
    BY <1>1, <2>2, <2>6 DEF RecibeCli
  <2>9. Codigo(c)' = Codigo(c) /\ Respuesta(c)' = Respuesta(c)
    OBVIOUS
  <2>10. SocketsInv(c)'
    BY <1>1, <2>2 DEF RecibeCli
  <2>11. ServidorInv(c)'
    BY <1>1, <2>2 DEF RecibeCli
  <2>12. ClienteInv(c)'
    <3>1. Saluda(c)'
      BY <2>2
    <3>2. Espera(c)'
      BY <2>2
    <3>3. Rechazada(c)'
      BY <1>1, <2>2, <2>7, <2>8 DEF RecibeCli
    <3>4. Aceptada(c)'
      BY <2>2
    <3>5. Matada(c)'
      BY <2>2
    <3> QED
      BY <3>1, <3>2, <3>3, <3>4, <3>5
  <2>13. ConexionInv(c)'
    BY <2>10, <2>11, <2>12
  <2> HIDE DEF ConexionInv, Perdida, Vivo, Antes, Atiende, Rechazo
  <2> QED
    BY <2>2, <2>13, Junta DEF RecibeCli
<1> QED
  BY <1>2, <1>3

\* A console submits its program.
LEMMA ConsolaEnvia ==
    ASSUME SistemaInv, NEW c \in Consolas, c \in Conexiones, Cliente(c) = c, Vivo(c),
           hilo[c].cli = "aceptada", NEW m \in {"PROGRAM", "PROGRAM_VACIO"},
           send_message(c, "cli", m, "programa", "cerrar"), UNCHANGED pc
    PROVE  SistemaInv'
<1> USE DEF ConexionInv, SocketsInv, ServidorInv, ClienteInv, SinConexion, Abierta, Extremos,
           LadoServidor, Quien, Pcb, Manejador, Saluda, Espera, Rechazada, Aceptada, Matada,
           Perdida, Vivo, Antes, Atiende, Rechazo, Cerrados, SinLeer, Si, Mueve, Respondida
<1>1. /\ Tipos /\ PuertosFijos /\ ConexionInv(c)
      /\ c \in Consolas <=> c \notin {"kM", "kI", "kD", "cM"}
  BY Conocidas DEF SistemaInv
<1>2. CASE TRUE
  <2>1. /\ con[c].cli.estado \in {"abierto", "fin"} /\ con[c].cli.entrada = <<>>
        /\ con[c].srv.entrada = <<>> /\ hilo[c].srv \in Atiende /\ puerto[c] = "consolas"
        /\ con[c].cli.estado = "abierto" => hilo[c].srv = "console_handler"
    BY <1>1
  <2>2. Append(con[c].srv.entrada, m) = <<m>> /\ <<m>> # <<>>
    BY <2>1
  <2>3. m \in Mensajes /\ "programa" \in HilosCli /\ "cerrar" \in HilosCli
    BY DEF HilosCli, Mensajes
  <2>4. EnviaCli(c, m) /\ Ajenas(c) /\ UNCHANGED <<proceso, puerto, escucha>>
        /\ Mueve(c, "cli", "programa")
    BY <1>1, <2>3, EnvioCliente
  <2>5. /\ con'[c].cli.entrada = <<>> /\ con'[c].srv.entrada \in {<<>>, <<m>>}
        /\ con'[c].srv.entrada # <<>> => hilo[c].srv = "console_handler"
    BY <1>1, <1>2, <2>1, <2>2, <2>3, <2>4, ZenonT(60) DEF EnviaCli
  <2>6. Codigo(c)' = Codigo(c) /\ Respuesta(c)' = Respuesta(c)
    OBVIOUS
  <2>7. SocketsInv(c)'
    BY <1>1, <2>4 DEF EnviaCli
  <2>8. ServidorInv(c)'
    <3>1. LadoServidor(c)'
      BY <1>1, <2>4 DEF EnviaCli
    <3>2. Quien(c)'
      BY <1>1, <2>4
    <3>3. Pcb(c)'
      BY <1>1, <2>4
    <3>4. Manejador(c)'
      BY <1>1, <2>4 DEF EnviaCli
    <3> QED
      BY <3>1, <3>2, <3>3, <3>4
  <2>9. ClienteInv(c)'
    <3>1. Saluda(c)'
      BY <2>4
    <3>2. Espera(c)'
      BY <2>4
    <3>3. Rechazada(c)'
      BY <2>4
    <3>4. Aceptada(c)'
      BY <2>1, <2>4, <2>5
    <3>5. Matada(c)'
      BY <2>4
    <3> QED
      BY <3>1, <3>2, <3>3, <3>4, <3>5
  <2>10. ConexionInv(c)'
    BY <2>7, <2>8, <2>9
  <2> HIDE DEF ConexionInv, Perdida, Vivo, Antes, Atiende, Rechazo
  <2> QED
    BY <2>4, <2>10, Junta DEF EnviaCli
<1> QED
  BY <1>2

\* A console that was answered, or leaves.
LEMMA ConsolaPasos ==
    ASSUME SistemaInv, NEW c \in Consolas, c \in Conexiones, Cliente(c) = c, Vivo(c),
           \/ hilo[c].cli = "programa" /\ recieve_message(c, "cli", "cerrar")
           \/ hilo[c].cli = "cerrar" /\ socket_handler_disconnect(c, "cli", "cerrada")
           \/ /\ hilo[c].cli = "rechazada" /\ hilo[c].srv # "no"
              /\ socket_handler_disconnect(c, "cli", "rechazada"), UNCHANGED pc
    PROVE  SistemaInv'
<1> USE DEF ConexionInv, SocketsInv, ServidorInv, ClienteInv, SinConexion, Abierta, Extremos,
           LadoServidor, Quien, Pcb, Manejador, Saluda, Espera, Rechazada, Aceptada, Matada,
           Perdida, Vivo, Antes, Atiende, Rechazo, Cerrados, SinLeer, Si, Mueve, Respondida
<1>1. /\ Tipos /\ PuertosFijos /\ ConexionInv(c)
      /\ c \in Consolas <=> c \notin {"kM", "kI", "kD", "cM"}
  BY Conocidas DEF SistemaInv
<1>2. CASE hilo[c].cli = "programa" /\ recieve_message(c, "cli", "cerrar")
  <2>1. RecibeCli(c) /\ Ajenas(c) /\ Mueve(c, "cli", "cerrar")
        /\ UNCHANGED <<proceso, puerto, escucha>>
    BY <1>1, <1>2, RecepcionCliente DEF HilosCli
  <2>2. Tail(<<"SUCCESS">>) = <<>> /\ Tail(<<"FAILURE">>) = <<>>
    OBVIOUS
  <2>3. con'[c].cli.entrada = <<>>
        /\ (con[c].cli.entrada = <<>> => con[c].cli.estado # "abierto")
    BY <1>1, <1>2, <2>1, <2>2, ZenonT(60) DEF RecibeCli
  <2>4. con[c].cli.estado = "abierto" => "desconecta" \in {hilo[c].ltp, hilo[c].srv}
    BY <1>1, <2>3
  <2>5. Codigo(c)' = Codigo(c) /\ Respuesta(c)' = Respuesta(c)
    OBVIOUS
  <2>6. SocketsInv(c)'
    BY <1>1, <1>2, <2>1 DEF RecibeCli
  <2>7. ServidorInv(c)'
    BY <1>1, <2>1 DEF RecibeCli
  <2>8. ClienteInv(c)'
    BY <1>1, <1>2, <2>1, <2>3 DEF RecibeCli
  <2>9. ConexionInv(c)'
    BY <2>6, <2>7, <2>8
  <2> HIDE DEF ConexionInv, Perdida, Vivo, Antes, Atiende, Rechazo
  <2> QED
    BY <2>1, <2>9, Junta DEF RecibeCli
<1>3. CASE hilo[c].cli = "cerrar" /\ socket_handler_disconnect(c, "cli", "cerrada")
  <2>1. /\ con' \in [Conexiones -> [cli : Lados, srv : Lados]]
        /\ CierraCli(con[c], con'[c], "rota") /\ con'[c].cli.connected = FALSE
        /\ Ajenas(c) /\ Mueve(c, "cli", "cerrada") /\ UNCHANGED <<proceso, puerto, escucha>>
    BY <1>1, <1>3, DesconexionCliente DEF HilosCli
  <2>2. con[c].cli.estado \notin {"no", "destruido"} /\ con[c].cli.entrada = <<>>
        /\ hilo[c].srv \in Atiende
    BY <1>1, <1>3
  <2>3. Codigo(c)' = Codigo(c) /\ Respuesta(c)' = Respuesta(c)
    OBVIOUS
  <2>4. SocketsInv(c)'
    BY <1>1, <2>1, <2>3 DEF CierraCli
  <2>5. ServidorInv(c)'
    BY <1>1, <2>1 DEF CierraCli
  <2>6. ClienteInv(c)'
    BY <1>1, <2>1, <2>2 DEF CierraCli
  <2>7. ConexionInv(c)'
    BY <2>4, <2>5, <2>6
  <2> HIDE DEF ConexionInv, Perdida, Vivo, Antes, Atiende, Rechazo
  <2> QED
    BY <2>1, <2>7, Junta
<1>4. CASE /\ hilo[c].cli = "rechazada" /\ hilo[c].srv # "no"
          /\ socket_handler_disconnect(c, "cli", "rechazada")
  <2>1. /\ con' \in [Conexiones -> [cli : Lados, srv : Lados]]
        /\ CierraCli(con[c], con'[c], "rota") /\ con'[c].cli.connected = FALSE
        /\ Ajenas(c) /\ Mueve(c, "cli", "rechazada") /\ UNCHANGED <<proceso, puerto, escucha>>
    BY <1>1, <1>4, DesconexionCliente DEF HilosCli
  <2>2. con[c].cli.estado # "destruido" /\ con[c].cli.entrada = <<>>
    BY <1>1, <1>4
  <2>3. Codigo(c)' = Codigo(c) /\ Respuesta(c)' = Respuesta(c)
    OBVIOUS
  <2>4. SocketsInv(c)'
    BY <1>1, <2>1 DEF CierraCli
  <2>5. ServidorInv(c)'
    BY <1>1, <1>4, <2>1 DEF CierraCli
  <2>6. ClienteInv(c)'
    BY <1>1, <1>4, <2>1 DEF CierraCli
  <2>7. ConexionInv(c)'
    BY <2>4, <2>5, <2>6
  <2> HIDE DEF ConexionInv, Perdida, Vivo, Antes, Atiende, Rechazo
  <2> QED
    BY <2>1, <2>7, Junta
<1> QED
  BY <1>2, <1>3, <1>4, SMTT(30)

-----------------------------------------------------------------------------
(***************************************************************************)
(* The steps of the processes.                                             *)
(***************************************************************************)
\* The handshake of any client: one of its three steps.
LEMMA PasoConectar ==
    ASSUME SistemaInv, NEW c \in Conexiones, Vivo(Cliente(c)), Turno(c), ConectarCliente(c),
           UNCHANGED pc
    PROVE  SistemaInv'
<1>1. CASE connect_to_server(c)
  BY <1>1, ConectaCliente
<1>2. CASE hilo[c].cli = "saludar" /\ send_message(c, "cli", Codigo(c), "espera", "rechazada")
  BY <1>2, SaludaCliente
<1>3. CASE /\ hilo[c].cli = "espera"
           /\ recieve_message(c, "cli",
                 IF Aceptado(c, Recibido(c, "cli")) THEN "aceptada" ELSE "rechazada")
  BY <1>3, EsperaCliente
<1> QED
  BY <1>1, <1>2, <1>3 DEF ConectarCliente

\* A step that only moves a main thread.
LEMMA PasoEtapa ==
    ASSUME SistemaInv, NEW p \in {"kernel", "cpu"}, NEW a \in EtapasKernel \cup EtapasCpu,
           MainA(p, a), UNCHANGED red,
           [pc EXCEPT ![p] = a] = pc' => EtapaInv'
    PROVE  SistemaInv'
<1>1. pc' = [pc EXCEPT ![p] = a] /\ EtapaInv'
  BY DEF MainA
<1>2. UNCHANGED <<proceso, puerto, escucha, con, hilo>>
  BY DEF red
<1>3. Tipos' /\ PuertosFijos'
  BY <1>1, <1>2 DEF SistemaInv, Tipos, PuertosFijos
<1>4. \A d \in Conexiones : ConexionInv(d)'
  BY <1>2, OtraConexion DEF SistemaInv
<1>5. SigpipeSoloPorMatada'
  BY <1>2 DEF SistemaInv, SigpipeSoloPorMatada
<1> QED
  BY <1>1, <1>3, <1>4, <1>5 DEF SistemaInv

\* A step that only starts or moves a server.
LEMMA PasoServidor ==
    ASSUME SistemaInv, NEW p \in Puertos, NEW e \in {"escucha", "acepta", "cerrando", "nulo"},
           escucha' = [escucha EXCEPT ![p] = e], UNCHANGED <<proceso, puerto, con, hilo>>,
           pc' \in [{"kernel", "cpu"} -> EtapasKernel \cup EtapasCpu], EtapaInv'
    PROVE  SistemaInv'
<1>1. Tipos' /\ PuertosFijos'
  BY DEF SistemaInv, Tipos, PuertosFijos
<1>2. \A d \in Conexiones : ConexionInv(d)'
  BY OtraConexion DEF SistemaInv
<1>3. SigpipeSoloPorMatada'
  BY DEF SistemaInv, SigpipeSoloPorMatada
<1> QED
  BY <1>1, <1>2, <1>3 DEF SistemaInv

\* The end of a process that is not a console.
LEMMA FinDeProceso ==
    ASSUME SistemaInv, NEW p \in {"kernel", "cpu"}, Vivo(p), NEW como \in {"salio", "nulo"},
           Termina(p, como), UNCHANGED pc,
           p = "kernel" => /\ hilo["kM"].cli \notin {"saludar", "espera"}
                           /\ hilo["kI"].cli \notin {"saludar", "espera"}
                           /\ hilo["kD"].cli \notin {"saludar", "espera"},
           p = "cpu" => hilo["cM"].cli \notin {"saludar", "espera"},
           como = "nulo" /\ p = "cpu" => pc["cpu"] \in {"interrupt", "mmu", "iniciado"}
    PROVE  SistemaInv'
<1>1. p \in Procesos /\ p \notin Consolas
  BY Conocidas DEF Procesos
<1>2. \A d \in Conexiones \ Consolas : Cliente(d) = p =>
         hilo[d].cli \notin {"saludar", "espera"}
  BY Conocidas DEF Cliente
<1> QED
  BY <1>1, <1>2, MuereProceso

\* The stage of a main thread that connects one of the four fixed connections.
LEMMA PasoConexion ==
    ASSUME SistemaInv, NEW p \in {"kernel", "cpu"}, NEW de, NEW c \in Conexiones,
           NEW a \in EtapasKernel \cup EtapasCpu, Conexion(p, de, c, a),
           <<p, de, c, a>> \in {<<"kernel", "memoria", "kM", "interrupt">>,
                                <<"kernel", "interrupt", "kI", "dispatch">>,
                                <<"kernel", "dispatch", "kD", "planner">>,
                                <<"cpu", "conectar", "cM", "servidor_dispatch">>}
    PROVE  SistemaInv'
<1>1. Tipos /\ PuertosFijos /\ EtapaInv
  BY DEF SistemaInv
<1>2. \/ p = "kernel" /\ de = "memoria" /\ c = "kM" /\ a = "interrupt"
      \/ p = "kernel" /\ de = "interrupt" /\ c = "kI" /\ a = "dispatch"
      \/ p = "kernel" /\ de = "dispatch" /\ c = "kD" /\ a = "planner"
      \/ p = "cpu" /\ de = "conectar" /\ c = "cM" /\ a = "servidor_dispatch"
  OBVIOUS
<1>3. Cliente(c) = p /\ c \notin Consolas
  BY Conocidas DEF Cliente
<1>4. CASE MainEn(p, de) /\ ConectarCliente(c) /\ UNCHANGED pc
  <2>1. Vivo(Cliente(c)) /\ Turno(c)
    BY <1>3, <1>4 DEF MainEn, Turno
  <2> QED
    BY <1>4, <2>1, PasoConectar
<1>5. CASE MainEn(p, de) /\ hilo[c].cli = "aceptada" /\ MainA(p, a) /\ UNCHANGED red
  <2>1. Vivo(p) /\ pc[p] = de /\ UNCHANGED <<proceso, puerto, escucha, con, hilo>>
    BY <1>5 DEF MainEn, red
  <2>2. [pc EXCEPT ![p] = a] = pc' => EtapaInv'
    BY <1>1, <1>5, <2>1 DEF EtapaInv, Vivo, Tipos
  <2> QED
    BY <1>5, <2>2, PasoEtapa
<1>6. CASE MainEn(p, de) /\ hilo[c].cli = "rechazada" /\ Termina(p, "salio") /\ UNCHANGED pc
  <2>1. Vivo(p) /\ pc[p] = de
    BY <1>6 DEF MainEn
  <2>2. /\ p = "kernel" => /\ hilo["kM"].cli \notin {"saludar", "espera"}
                           /\ hilo["kI"].cli \notin {"saludar", "espera"}
                           /\ hilo["kD"].cli \notin {"saludar", "espera"}
        /\ p = "cpu" => hilo["cM"].cli \notin {"saludar", "espera"}
    BY <1>1, <1>6 DEF EtapaInv
  <2> QED
    BY <1>6, <2>1, <2>2, FinDeProceso
<1> QED
  BY <1>4, <1>5, <1>6 DEF Conexion

\* The main thread of the kernel.
LEMMA PasoKernel == ASSUME SistemaInv, kernel_execute PROVE SistemaInv'
<1>1. /\ Tipos /\ PuertosFijos /\ EtapaInv /\ {"kM", "kI", "kD", "cM"} \subseteq Conexiones
      /\ "consolas" \in Puertos
  BY Conocidas DEF SistemaInv, Puertos
<1>2. CASE kernel_create
  <2>1. PICK r \in kernel_config_create :
             /\ MainEn("kernel", "crear")
             /\ IF r = "loaded" THEN MainA("kernel", "memoria") /\ UNCHANGED red
                ELSE Termina("kernel", IF r = "fallo" THEN "salio" ELSE r) /\ UNCHANGED pc
    BY <1>2 DEF kernel_create
  <2>2. Vivo("kernel") /\ pc["kernel"] = "crear"
    BY <2>1 DEF MainEn
  <2>3. CASE r = "loaded"
    <3>1. UNCHANGED <<proceso, puerto, escucha, con, hilo>>
      BY <2>1, <2>3 DEF red
    <3>2. [pc EXCEPT !["kernel"] = "memoria"] = pc' => EtapaInv'
      BY <1>1, <2>2, <3>1 DEF EtapaInv, Vivo, Tipos
    <3> QED
      BY <2>1, <2>3, <3>2, PasoEtapa DEF EtapasKernel
  <2>4. CASE r # "loaded"
    <3>1. PICK como \in {"salio", "nulo"} : Termina("kernel", como) /\ UNCHANGED pc
      BY <2>1, <2>4 DEF kernel_config_create
    <3>2. /\ hilo["kM"].cli \notin {"saludar", "espera"}
          /\ hilo["kI"].cli \notin {"saludar", "espera"}
          /\ hilo["kD"].cli \notin {"saludar", "espera"}
      BY <1>1, <2>2 DEF EtapaInv
    <3> QED
      BY <2>2, <3>1, <3>2, FinDeProceso
  <2> QED
    BY <2>3, <2>4
<1>3. CASE memory_module_run
  BY <1>1, <1>3, PasoConexion DEF memory_module_run, EtapasKernel
<1>4. CASE cpu_interrupt_connect
  BY <1>1, <1>4, PasoConexion DEF cpu_interrupt_connect, EtapasKernel
<1>5. CASE cpu_dispatch_connect
  BY <1>1, <1>5, PasoConexion DEF cpu_dispatch_connect, EtapasKernel
<1>6. CASE planner_run
  <2>1. Vivo("kernel") /\ pc["kernel"] = "planner"
        /\ UNCHANGED <<proceso, puerto, escucha, con, hilo>>
    BY <1>6 DEF planner_run, MainEn, red
  <2>2. [pc EXCEPT !["kernel"] = "consolas"] = pc' => EtapaInv'
    BY <1>1, <2>1 DEF EtapaInv, Vivo, Tipos
  <2> QED
    BY <1>6, <2>2, PasoEtapa DEF planner_run, EtapasKernel
<1>7. CASE console_module_run
  <2>1. CASE /\ MainEn("kernel", "consolas") /\ start_server("consolas")
             /\ MainA("kernel", "escuchar") /\ UNCHANGED <<proceso, puerto, con, hilo>>
    <3>1. /\ Vivo("kernel") /\ escucha' = [escucha EXCEPT !["consolas"] = "escucha"]
          /\ pc' = [pc EXCEPT !["kernel"] = "escuchar"] /\ pc["kernel"] = "consolas"
      BY <2>1 DEF MainEn, MainA, start_server
    <3>2. EtapaInv'
      BY <1>1, <2>1, <3>1 DEF EtapaInv, Vivo, Tipos, Servidor
    <3>3. pc' \in [{"kernel", "cpu"} -> EtapasKernel \cup EtapasCpu]
      BY <1>1, <3>1 DEF Tipos, EtapasKernel
    <3> QED
      BY <1>1, <2>1, <3>1, <3>2, <3>3, PasoServidor
  <2>2. CASE /\ MainEn("kernel", "consolas") /\ UNCHANGED escucha
             /\ MainA("kernel", "fallo") /\ UNCHANGED <<proceso, puerto, con, hilo>>
    <3>1. Vivo("kernel") /\ pc["kernel"] = "consolas" /\ UNCHANGED red
      BY <2>2 DEF MainEn, red
    <3>2. [pc EXCEPT !["kernel"] = "fallo"] = pc' => EtapaInv'
      BY <1>1, <2>2, <3>1 DEF EtapaInv, Vivo, Tipos
    <3> QED
      BY <2>2, <3>1, <3>2, PasoEtapa DEF EtapasKernel
  <2>3. CASE /\ MainEn("kernel", "escuchar") /\ server_listen_async("consolas")
             /\ MainA("kernel", "iniciado") /\ UNCHANGED <<proceso, puerto, con, hilo>>
    <3>1. /\ Vivo("kernel") /\ escucha' = [escucha EXCEPT !["consolas"] = "acepta"]
          /\ pc' = [pc EXCEPT !["kernel"] = "iniciado"] /\ pc["kernel"] = "escuchar"
      BY <2>3 DEF MainEn, MainA, server_listen_async
    <3>2. EtapaInv'
      BY <1>1, <2>3, <3>1 DEF EtapaInv, Vivo, Servidor
    <3>3. pc' \in [{"kernel", "cpu"} -> EtapasKernel \cup EtapasCpu]
      BY <1>1, <3>1 DEF Tipos, EtapasKernel
    <3> QED
      BY <1>1, <2>3, <3>1, <3>2, <3>3, PasoServidor
  <2> QED
    BY <1>7, <2>1, <2>2, <2>3 DEF console_module_run
<1> QED
  BY <1>2, <1>3, <1>4, <1>5, <1>6, <1>7 DEF kernel_execute, cpu_module_run

\* The kernel is connected to the dispatch server only after the interrupt one, which
\* the CPU starts after the dispatch one.
LEMMA InterruptPrimero ==
    ASSUME SistemaInv, hilo["kD"].srv # "no"
    PROVE  pc["cpu"] \in {"interrupt", "mmu", "iniciado"} /\ hilo["cM"].cli = "aceptada"
<1>1. /\ EtapaInv /\ PuertosFijos /\ {"kI", "kD"} \subseteq Conexiones
      /\ ConexionInv("kI") /\ ConexionInv("kD")
  BY Conocidas DEF SistemaInv
<1>2. hilo["kD"].cli # "conectar"
  BY <1>1 DEF ConexionInv, SocketsInv, Abierta
<1>3. hilo["kI"].cli = "aceptada"
  BY <1>1, <1>2 DEF EtapaInv
<1>4. hilo["kI"].srv # "no"
  BY <1>1, <1>3 DEF ConexionInv, ClienteInv, Aceptada, Atiende
<1> QED
  BY <1>1, <1>4 DEF EtapaInv, PuertosFijos

\* The stage of the CPU's main thread that opens one of its two servers.
LEMMA PasoServidorCpu ==
    ASSUME SistemaInv, NEW p, NEW de, NEW a, Servidor_cpu(p, de, a),
           \/ p = "dispatch" /\ de = "servidor_dispatch" /\ a = "servidor_interrupt"
           \/ p = "interrupt" /\ de = "servidor_interrupt" /\ a = "mmu"
    PROVE  SistemaInv'
<1>1. /\ Tipos /\ PuertosFijos /\ EtapaInv
      /\ p \in Puertos /\ Servidor(p) = "cpu" /\ p \in EtapasCpu /\ a \in EtapasCpu
  BY DEF SistemaInv, Puertos, Servidor, EtapasCpu
<1>2. CASE MainEn("cpu", de) /\ start_server(p) /\ MainA("cpu", p)
            /\ UNCHANGED <<proceso, puerto, con, hilo>>
  <2>1. /\ Vivo("cpu") /\ pc["cpu"] = de /\ pc' = [pc EXCEPT !["cpu"] = p]
        /\ escucha' = [escucha EXCEPT ![p] = "escucha"]
    BY <1>2 DEF MainEn, MainA, start_server
  <2>2. EtapaInv'
    BY <1>1, <1>2, <2>1 DEF EtapaInv, Vivo, Tipos
  <2>3. pc' \in [{"kernel", "cpu"} -> EtapasKernel \cup EtapasCpu]
    BY <1>1, <2>1 DEF Tipos
  <2> QED
    BY <1>1, <1>2, <2>1, <2>2, <2>3, PasoServidor
<1>3. CASE MainEn("cpu", de) /\ Termina("cpu", "salio") /\ UNCHANGED pc
  <2>1. Vivo("cpu") /\ pc["cpu"] # "conectar"
    BY <1>3 DEF MainEn
  <2>2. hilo["cM"].cli \notin {"saludar", "espera"}
    BY <1>1, <2>1 DEF EtapaInv
  <2> QED
    BY <1>3, <2>1, <2>2, FinDeProceso
<1>4. CASE /\ MainEn("cpu", p) /\ escucha[p] = "escucha"
           /\ server_listen_async(p) /\ UNCHANGED <<proceso, puerto, con, hilo, pc>>
  <2>1. /\ Vivo("cpu") /\ pc["cpu"] = p /\ escucha' = [escucha EXCEPT ![p] = "acepta"]
    BY <1>4 DEF MainEn, server_listen_async
  <2>2. EtapaInv'
    BY <1>1, <1>4, <2>1 DEF EtapaInv, Vivo
  <2> QED
    BY <1>1, <1>4, <2>1, <2>2, PasoServidor DEF Tipos
<1>5. CASE /\ MainEn("cpu", p) /\ escucha[p] = "nulo" /\ Termina("cpu", "nulo") /\ UNCHANGED pc
  <2>1. Vivo("cpu") /\ pc["cpu"] = p
    BY <1>5 DEF MainEn
  <2>2. hilo["cM"].cli \notin {"saludar", "espera"}
    BY <1>1, <2>1 DEF EtapaInv
  <2>3. p = "dispatch" => hilo["kD"].srv # "no"
    BY <1>1, <1>5 DEF EtapaInv
  <2>4. pc["cpu"] \in {"interrupt", "mmu", "iniciado"}
    BY <2>1, <2>3, InterruptPrimero
  <2> QED
    BY <1>5, <2>1, <2>2, <2>4, FinDeProceso
<1>6. CASE MainEn("cpu", p) /\ escucha[p] # "escucha" /\ MainA("cpu", a) /\ UNCHANGED red
  <2>1. Vivo("cpu") /\ pc["cpu"] = p /\ UNCHANGED <<proceso, puerto, escucha, con, hilo>>
    BY <1>6 DEF MainEn, red
  <2>2. [pc EXCEPT !["cpu"] = a] = pc' => EtapaInv'
    BY <1>1, <2>1 DEF EtapaInv, Vivo, Tipos
  <2> QED
    BY <1>1, <1>6, <2>2, PasoEtapa
<1> QED
  BY <1>2, <1>3, <1>4, <1>5, <1>6 DEF Servidor_cpu

\* The main thread of the CPU.
LEMMA PasoCpu == ASSUME SistemaInv, cpu_iniciar PROVE SistemaInv'
<1>1. Tipos /\ PuertosFijos /\ EtapaInv /\ "cM" \in Conexiones
  BY Conocidas DEF SistemaInv
<1>2. CASE Conexion("cpu", "conectar", "cM", "servidor_dispatch")
  BY <1>1, <1>2, PasoConexion DEF EtapasCpu
<1>3. CASE Servidor_cpu("dispatch", "servidor_dispatch", "servidor_interrupt")
  BY <1>3, PasoServidorCpu
<1>4. CASE Servidor_cpu("interrupt", "servidor_interrupt", "mmu")
  BY <1>4, PasoServidorCpu
<1>5. CASE create_mmu
  <2>1. Vivo("cpu") /\ pc["cpu"] = "mmu"
    BY <1>5 DEF create_mmu, MainEn
  <2>2. CASE MainA("cpu", "iniciado") /\ UNCHANGED red
    <3>1. UNCHANGED <<proceso, puerto, escucha, con, hilo>>
      BY <2>2 DEF red
    <3>2. [pc EXCEPT !["cpu"] = "iniciado"] = pc' => EtapaInv'
      BY <1>1, <2>1, <3>1 DEF EtapaInv, Vivo, Tipos
    <3> QED
      BY <2>2, <3>2, PasoEtapa DEF EtapasCpu
  <2>3. CASE Termina("cpu", "salio") /\ UNCHANGED pc
    <3>1. hilo["cM"].cli \notin {"saludar", "espera"}
      BY <1>1, <2>1 DEF EtapaInv
    <3> QED
      BY <2>1, <2>3, <3>1, FinDeProceso
  <2> QED
    BY <1>5, <2>2, <2>3 DEF create_mmu
<1> QED
  BY <1>2, <1>3, <1>4, <1>5 DEF cpu_iniciar

\* The listener of a server that was disconnected.
LEMMA PasoDesconectado ==
    ASSUME SistemaInv, NEW p \in {"dispatch", "interrupt"}, server_disconnected(p)
    PROVE  SistemaInv'
<1>1. /\ Tipos /\ PuertosFijos /\ EtapaInv /\ escucha[p] = "cerrando" /\ UNCHANGED pc
      /\ p \in Puertos /\ Servidor(p) = "cpu"
  BY DEF SistemaInv, server_disconnected, Puertos, Servidor
<1>2. Vivo("cpu")
  BY <1>1 DEF EtapaInv
<1>3. CASE escucha["dispatch"] = "nulo"
  <2>1. Termina("cpu", "nulo")
    BY <1>3 DEF server_disconnected
  <2>2. hilo["kD"].srv # "no"
    BY <1>1, <1>3 DEF EtapaInv
  <2>3. pc["cpu"] \in {"interrupt", "mmu", "iniciado"} /\ hilo["cM"].cli = "aceptada"
    BY <2>2, InterruptPrimero
  <2> QED
    BY <1>1, <1>2, <2>1, <2>3, FinDeProceso
<1>4. CASE escucha["dispatch"] # "nulo"
  <2>1. escucha' = [escucha EXCEPT ![p] = "nulo"] /\ UNCHANGED <<proceso, puerto, con, hilo>>
    BY <1>4 DEF server_disconnected
  <2>2. EtapaInv'
    BY <1>1, <2>1 DEF EtapaInv, Vivo
  <2> QED
    BY <1>1, <2>1, <2>2, PasoServidor DEF Tipos
<1> QED
  BY <1>3, <1>4

\* The answer of the kernel to a reset console: it kills the kernel.
LEMMA MuereElKernel ==
    ASSUME SistemaInv, NEW c \in Conexiones, Vivo(Servidor(puerto[c])), hilo[c].srv = "FAILURE",
           con[c].srv.estado = "rota", UNCHANGED pc,
           send_message(c, "srv", "FAILURE", "desconecta", "desconecta")
    PROVE  SistemaInv'
<1>1. Tipos /\ PuertosFijos /\ EtapaInv /\ ConexionInv(c)
  BY DEF SistemaInv
<1>2. puerto[c] = "consolas" /\ hilo[c].cli = "espera"
  BY <1>1 DEF ConexionInv, ServidorInv, LadoServidor, Quien
<1>3. c \in Consolas /\ Cliente(c) = c
  BY <1>1, <1>2, Conocidas DEF PuertosFijos, Cliente
<1>4. con[c].cli.estado = "cerrado"
  BY <1>1 DEF ConexionInv, SocketsInv, Extremos
<1>5. ~Vivo(c)
  BY <1>1, <1>2, <1>3 DEF ConexionInv, SocketsInv, Extremos
<1>6. proceso[c] = "matada"
  BY <1>1, <1>2, <1>3, <1>5 DEF ConexionInv, ClienteInv, Matada, Vivo
<1>7. Vivo("kernel") /\ Termina("kernel", "sigpipe") /\ "kernel" \in Procesos
      /\ "kernel" \notin Consolas
  BY <1>2, Conocidas DEF send_message, Lado, Servidor, Procesos
<1>8. pc["kernel"] \in {"escuchar", "iniciado"}
  BY <1>1, <1>2 DEF EtapaInv
<1>9. \A d \in {"kM", "kI", "kD"} : hilo[d].cli = "aceptada"
  BY <1>1, <1>8 DEF EtapaInv
<1>10. \A d \in Conexiones \ Consolas : Cliente(d) = "kernel" =>
          hilo[d].cli \notin {"saludar", "espera"}
  BY <1>9, Conocidas DEF Cliente
<1> QED
  BY <1>2, <1>3, <1>6, <1>7, <1>10, MuereProceso

\* The threads of a server: the accept, the handshake and the handlers.
LEMMA PasoAtender == ASSUME SistemaInv, NEW c \in Conexiones, Atender(c) PROVE SistemaInv'
<1>1. Vivo(Servidor(puerto[c])) /\ UNCHANGED pc
  BY DEF Atender
<1>2. CASE esperar_cliente(c)
  BY <1>1, <1>2, EsperarCliente
<1>3. CASE handle_server(c)
  BY <1>1, <1>3, HandleServer
<1>4. CASE handshake(c)
  BY <1>1, <1>4, Saludo
<1>5. CASE handle_client(c)
  BY <1>1, <1>5, HandleClient
<1>6. CASE handle_cpu_kernel(c)
  BY <1>1, <1>6, HandleCpuKernel
<1>7. CASE handle_dispatch_interrupt(c)
  <2>1. CASE hilo[c].srv = "desconecta_servidor"
    <3>1. server_disconnect(c, "srv", "cpu")
      BY <1>7, <2>1 DEF handle_dispatch_interrupt, En
    <3> QED
      BY <1>1, <2>1, <3>1, DesconectaServidor
  <2>2. CASE hilo[c].srv # "desconecta_servidor"
    BY <1>1, <1>7, <2>2, HandleDispatchInterrupt
  <2> QED
    BY <2>1, <2>2
<1>8. CASE console_handler(c)
  BY <1>1, <1>8, ConsoleHandler
<1>9. CASE console_terminate(c, "srv", "FAILURE")
  <2>1. CASE hilo[c].srv = "FAILURE" /\ con[c].srv.estado = "rota"
    <3>1. send_message(c, "srv", "FAILURE", "desconecta", "desconecta")
      BY <1>9, <2>1 DEF console_terminate
    <3> QED
      BY <1>1, <2>1, <3>1, MuereElKernel
  <2>2. CASE ~(hilo[c].srv = "FAILURE" /\ con[c].srv.estado = "rota")
    BY <1>1, <1>9, <2>2, ConsoleTerminateServidor
  <2> QED
    BY <2>1, <2>2
<1> QED
  BY <1>2, <1>3, <1>4, <1>5, <1>6, <1>7, <1>8, <1>9 DEF Atender

\* The planner, seen from a console: the process ends, and the console is answered.
LEMMA PasoPlanner ==
    ASSUME SistemaInv, NEW c \in Consolas, ejecutar_pcb(c) \/ ltp_exit_controller(c)
    PROVE  SistemaInv'
<1>1. c \in Conexiones
  BY Conocidas
<1>2. CASE ejecutar_pcb(c)
  <2>1. hilo["kD"].srv # "no" /\ Vivo("cpu") /\ Termina("cpu", "nulo") /\ UNCHANGED pc
    BY <1>2 DEF ejecutar_pcb
  <2>2. pc["cpu"] \in {"interrupt", "mmu", "iniciado"} /\ hilo["cM"].cli = "aceptada"
    BY <2>1, InterruptPrimero
  <2> QED
    BY <2>1, <2>2, FinDeProceso
<1>3. CASE ltp_exit_controller(c)
  <2>1. CASE \E m \in {"SUCCESS", "FAILURE"} : console_terminate(c, "ltp", m)
    BY <1>1, <1>3, <2>1, ConsoleTerminateLtp DEF ltp_exit_controller
  <2>2. CASE \E m \in {"SUCCESS", "FAILURE"} : Ir(c, "ltp", m) /\ hilo[c].ltp = "pcb"
                /\ UNCHANGED <<proceso, puerto, escucha, con>>
    BY <1>1, <1>3, <2>2, RespondePlanner DEF ltp_exit_controller
  <2> QED
    BY <1>3, <2>1, <2>2 DEF ltp_exit_controller
<1> QED
  BY <1>2, <1>3

\* A console, from its start to its end.
LEMMA PasoConsola == ASSUME SistemaInv, NEW c \in Consolas, console_run(c) PROVE SistemaInv'
<1>1. /\ Vivo(c) /\ UNCHANGED pc /\ c \in Conexiones /\ Cliente(c) = c /\ c \in Procesos
      /\ Tipos /\ PuertosFijos /\ ConexionInv(c)
  BY Conocidas DEF console_run, Cliente, SistemaInv
<1>2. \A d \in Conexiones \ Consolas : Cliente(d) # c
  BY Conocidas DEF Cliente
<1>3. CASE hilo[c].cli = "no" /\ Ir(c, "cli", "conectar")
            /\ UNCHANGED <<proceso, puerto, escucha, con>>
  <2>1. Mueve(c, "cli", "conectar") /\ Ajenas(c)
    BY <1>1, <1>3, IrMueve DEF Valor, HilosCli, Ajenas
  <2>2. ConexionInv(c)'
    <3>1. hilo[c].srv = "no" /\ con'[c] = con[c]
      BY <1>1, <1>3 DEF ConexionInv, SocketsInv, Abierta
    <3> QED
      BY <1>1, <1>3, <2>1
         DEF Mueve, ConexionInv, SocketsInv, ServidorInv, ClienteInv, SinConexion, Abierta,
             Extremos, LadoServidor, Quien, Pcb, Manejador, Saluda, Espera, Rechazada,
             Aceptada, Matada
  <2> QED
    BY <1>1, <1>3, <2>1, <2>2, Junta DEF Mueve, Tipos
<1>4. CASE /\ hilo[c].cli = "no" \/ hilo[c].cli = "rechazada" \/ hilo[c].cli = "cerrada"
           /\ Termina(c, "salio")
  BY <1>1, <1>2, <1>4, MuereProceso
<1>5. CASE ConectarCliente(c)
  <2>1. Turno(c)
    BY Conocidas DEF Turno
  <2> QED
    BY <1>1, <1>5, <2>1, PasoConectar
<1>6. CASE /\ hilo[c].cli = "rechazada" /\ con[c].cli.connected
           /\ socket_handler_disconnect(c, "cli", "rechazada")
  <2>1. hilo[c].srv # "no"
    <3> SUFFICES ASSUME hilo[c].srv = "no" PROVE FALSE
      OBVIOUS
    <3>1. con[c].cli = socket_handler_create
      BY <1>1 DEF ConexionInv, SocketsInv, SinConexion
    <3>2. con[c].cli.connected = FALSE
      BY <3>1 DEF socket_handler_create
    <3> QED
      BY <1>6, <3>2, Zenon
  <2> QED
    BY <1>1, <1>6, <2>1, ConsolaPasos
<1>7. CASE /\ hilo[c].cli = "aceptada"
           /\ \E m \in ProgramasDe[c] : send_message(c, "cli", m, "programa", "cerrar")
  <2>1. PICK m \in ProgramasDe[c] : send_message(c, "cli", m, "programa", "cerrar")
    BY <1>7
  <2>2. m \in {"PROGRAM", "PROGRAM_VACIO"}
    BY <2>1, ProgramasAssumption
  <2> QED
    BY <1>1, <1>7, <2>1, <2>2, ConsolaEnvia
<1>8. CASE \/ hilo[c].cli = "programa" /\ recieve_message(c, "cli", "cerrar")
           \/ hilo[c].cli = "cerrar" /\ socket_handler_disconnect(c, "cli", "cerrada")
  BY <1>1, <1>8, ConsolaPasos
<1> QED
  BY <1>3, <1>4, <1>5, <1>6, <1>7, <1>8 DEF console_run

\* A console is killed.
LEMMA PasoMatar == ASSUME SistemaInv, NEW c \in Consolas, Matar(c) PROVE SistemaInv'
<1>1. Vivo(c) /\ Termina(c, "matada") /\ UNCHANGED pc /\ c \in Procesos /\ c # "cpu"
  BY Conocidas DEF Matar
<1>2. \A d \in Conexiones \ Consolas : Cliente(d) # c
  BY Conocidas DEF Cliente
<1> QED
  BY <1>1, <1>2, MuereProceso

\* A process starts; memoria listens from then on.
LEMMA PasoInicia == ASSUME SistemaInv, NEW p \in Procesos, Inicia(p) PROVE SistemaInv'
<1>1. Tipos /\ PuertosFijos /\ EtapaInv
  BY DEF SistemaInv
<1>2. /\ proceso[p] = "no" /\ proceso' = [proceso EXCEPT ![p] = "vivo"]
      /\ \/ p = "memoria" /\ escucha' = [escucha EXCEPT !["memoria"] = "acepta"]
         \/ escucha' = escucha
      /\ UNCHANGED <<puerto, con, hilo, pc>>
  BY DEF Inicia, server_listen_async
<1>3. /\ proceso' \in [Procesos -> {"no", "vivo", "salio", "sigpipe", "nulo", "matada"}]
      /\ proceso'[p] = "vivo" /\ \A q \in Procesos \ {p} : proceso'[q] = proceso[q]
  BY <1>1, <1>2 DEF Tipos
<1>4. Tipos' /\ PuertosFijos'
  BY <1>1, <1>2 DEF Tipos, PuertosFijos
<1>5. \A d \in Conexiones : ConexionInv(d)'
  <2> SUFFICES ASSUME NEW d \in Conexiones PROVE ConexionInv(d)'
    OBVIOUS
  <2>1. /\ ConexionInv(d) /\ con'[d] = con[d] /\ hilo'[d] = hilo[d] /\ UNCHANGED puerto
        /\ Cliente(d) \in Procesos /\ Servidor(puerto[d]) \in Procesos
        /\ Codigo(d)' = Codigo(d) /\ Respuesta(d)' = Respuesta(d)
    BY <1>2, Conocidas DEF SistemaInv, Tipos
  <2>2. CASE hilo[d].srv = "no"
    <3>1. hilo[d].cli \in {"no", "conectar", "rechazada"}
      BY <2>1, <2>2 DEF ConexionInv, SocketsInv, SinConexion
    <3> QED
      BY <2>1, <2>2
         DEF ConexionInv, SocketsInv, ServidorInv, ClienteInv, SinConexion, Abierta,
             Extremos, LadoServidor, Quien, Pcb, Manejador, Saluda, Espera, Rechazada,
             Aceptada, Matada, socket_handler_create
  <2>3. CASE hilo[d].srv # "no"
    <3>1. Cliente(d) # p /\ Servidor(puerto[d]) # p
      BY <1>2, <2>1, <2>3 DEF ConexionInv, SocketsInv, Abierta
    <3> QED
      BY <1>3, <2>1, <3>1, OtraConexion
  <2> QED
    BY <2>2, <2>3
<1>6. EtapaInv'
  <2>1. \A q \in Procesos :
           /\ proceso[q] = "vivo" => proceso'[q] = "vivo"
           /\ proceso'[q] \in {"no", "nulo"} => proceso[q] = proceso'[q]
    BY <1>3
  <2>2. \A q \in Puertos :
           /\ Servidor(q) \in Procesos /\ q \in {"memoria", "interrupt", "dispatch", "consolas"}
           /\ q # "memoria" => escucha'[q] = escucha[q]
    BY <1>1, <1>2, Conocidas DEF Tipos, Puertos
  <2>3. \A q \in Puertos : escucha'[q] # "no" => Vivo(Servidor(q))'
    <3> SUFFICES ASSUME NEW q \in Puertos, escucha'[q] # "no"
                 PROVE  proceso'[Servidor(q)] = "vivo"
      BY DEF Vivo
    <3>1. CASE escucha'[q] = escucha[q]
      BY <1>1, <2>1, <2>2, <3>1 DEF EtapaInv, Vivo
    <3>2. CASE escucha'[q] # escucha[q]
      BY <1>2, <1>3, <2>2, <3>2 DEF Servidor
    <3> QED
      BY <3>1, <3>2
  <2> QED
    BY <1>1, <1>2, <2>2, <2>3 DEF EtapaInv, Puertos
<1>7. SigpipeSoloPorMatada'
  BY <1>2 DEF SistemaInv, SigpipeSoloPorMatada
<1> QED
  BY <1>4, <1>5, <1>6, <1>7 DEF SistemaInv

-----------------------------------------------------------------------------
\* Nothing has started.
LEMMA InicioSistema == Init => SistemaInv
<1> SUFFICES ASSUME Init PROVE SistemaInv
  OBVIOUS
<1>1. socket_handler_create \in Lados
  <2>1. <<>> \in Seq(Mensajes)
    OBVIOUS
  <2> QED
    BY DEF socket_handler_create, Lados, Estados
<1>2. /\ proceso = [p \in Procesos |-> "no"] /\ escucha = [p \in Puertos |-> "no"]
      /\ puerto \in [Conexiones -> Puertos]
      /\ con = [c \in Conexiones |->
                   [cli |-> socket_handler_create, srv |-> socket_handler_create]]
      /\ hilo = [c \in Conexiones |->
                    [cli |-> IF c \in Consolas THEN "no" ELSE "conectar",
                     srv |-> "no", ltp |-> "no"]]
      /\ pc = [kernel |-> "crear", cpu |-> "conectar"]
      /\ PuertosFijos
  BY DEF Init, PuertosFijos
<1>3. Tipos
  BY <1>1, <1>2 DEF Tipos, HilosCli, HilosLtp, Antes, EtapasKernel, EtapasCpu
<1>4. EtapaInv
  BY <1>2, Conocidas DEF EtapaInv, Puertos, Procesos
<1>5. SigpipeSoloPorMatada
  BY <1>2 DEF SigpipeSoloPorMatada
<1>6. \A c \in Conexiones : ConexionInv(c)
  <2> SUFFICES ASSUME NEW c \in Conexiones PROVE ConexionInv(c)
    OBVIOUS
  <2>1. /\ con[c].cli = socket_handler_create /\ con[c].srv = socket_handler_create
        /\ hilo[c].srv = "no" /\ hilo[c].ltp = "no"
        /\ hilo[c].cli \in {"no", "conectar"} /\ (hilo[c].cli = "no" => c \in Consolas)
    BY <1>2
  <2> USE DEF socket_handler_create
  <2>2. SocketsInv(c)
    BY <2>1 DEF SocketsInv, SinConexion, Abierta, Extremos
  <2>3. ServidorInv(c)
    BY <2>1 DEF ServidorInv, LadoServidor, Quien, Pcb, Manejador, Si, Atiende
  <2>4. ClienteInv(c)
    BY <2>1 DEF ClienteInv, Saluda, Espera, Rechazada, Aceptada, Matada
  <2> QED
    BY <2>2, <2>3, <2>4 DEF ConexionInv
<1> QED
  BY <1>2, <1>3, <1>4, <1>5, <1>6 DEF SistemaInv

\* A stutter.
LEMMA SinPaso == ASSUME SistemaInv, UNCHANGED vars PROVE SistemaInv'
<1>1. UNCHANGED <<proceso, puerto, escucha, con, hilo, pc>>
  BY DEF vars, red
<1>2. \A c \in Conexiones : ConexionInv(c)'
  BY <1>1, OtraConexion DEF SistemaInv
<1> QED
  BY <1>1, <1>2 DEF SistemaInv, Tipos, PuertosFijos, EtapaInv, SigpipeSoloPorMatada, Vivo

\* The invariant is inductive: one case per disjunct of the next-state relation.
LEMMA SistemaInductivo == SistemaInv /\ [Next]_vars => SistemaInv'
<1> SUFFICES ASSUME SistemaInv, [Next]_vars PROVE SistemaInv'
  OBVIOUS
<1>1. CASE kernel_execute
  BY <1>1, PasoKernel
<1>2. CASE cpu_iniciar
  BY <1>2, PasoCpu
<1>3. CASE \E p \in {"dispatch", "interrupt"} : server_disconnected(p)
  BY <1>3, PasoDesconectado
<1>4. CASE \E c \in Conexiones : Atender(c)
  BY <1>4, PasoAtender
<1>5. CASE \E c \in Consolas : ejecutar_pcb(c) \/ ltp_exit_controller(c)
  BY <1>5, PasoPlanner
<1>6. CASE \E c \in Consolas : console_run(c)
  BY <1>6, PasoConsola
<1>7. CASE \E p \in Procesos : Inicia(p)
  BY <1>7, PasoInicia
<1>8. CASE \E c \in Consolas : Matar(c)
  BY <1>8, PasoMatar
<1>9. CASE UNCHANGED vars
  BY <1>9, SinPaso
<1> QED
  BY <1>1, <1>2, <1>3, <1>4, <1>5, <1>6, <1>7, <1>8, <1>9 DEF Next, Pasos

\* So it holds of every reachable state.
LEMMA SistemaSiempre == Spec => []SistemaInv
  BY InicioSistema, SistemaInductivo, PTL DEF Spec

-----------------------------------------------------------------------------
\* There is at most one message on its way to each side.
LEMMA UnoEnCamino ==
    ASSUME Tipos, NEW c \in Conexiones, ConexionInv(c)
    PROVE  Len(con[c].cli.entrada) <= 1 /\ Len(con[c].srv.entrada) <= 1
<1> USE DEF ConexionInv, SocketsInv, ClienteInv, SinConexion, Abierta, Extremos, Saluda, Espera,
            Rechazada, Aceptada, socket_handler_create
<1>1. /\ hilo[c].cli \in HilosCli /\ hilo[c].srv \in Antes \cup Rechazo \cup Atiende
  BY DEF Tipos
<1> DEFINE Uno(q) == q = <<>> \/ \E m : q = <<m>>
<1>6. ASSUME NEW q, Uno(q) PROVE Len(q) <= 1
  <2>1. CASE q = <<>>
    BY <2>1
  <2>2. CASE \E m : q = <<m>>
    <3>1. PICK m : q = <<m>>
      BY <2>2
    <3>2. Len(<<m>>) = 1
      OBVIOUS
    <3> QED
      BY <3>1
  <2> QED
    BY <1>6, <2>2
<1>7. SUFFICES Uno(con[c].cli.entrada) /\ Uno(con[c].srv.entrada)
  BY <1>6
<1>2. CASE hilo[c].cli \in {"no", "conectar"}
  BY <1>2
<1>3. CASE hilo[c].cli = "espera"
  <2>1. con[c].srv.entrada \in {<<>>, <<Codigo(c)>>}
    BY <1>3
  <2>2. con[c].cli.entrada \in {<<>>, <<"REJECTED">>, <<Respuesta(c)>>}
    BY <1>1, <1>3 DEF Antes, Rechazo, SinLeer
  <2> QED
    BY <2>1, <2>2
<1>4. CASE hilo[c].cli \in {"saludar", "rechazada", "aceptada"}
  BY <1>4
<1>5. CASE hilo[c].cli \in {"programa", "cerrar", "cerrada"}
  <2>1. con[c].srv.entrada \in {<<>>, <<"PROGRAM">>, <<"PROGRAM_VACIO">>}
    BY <1>5
  <2>2. con[c].cli.entrada \in {<<>>, <<"SUCCESS">>, <<"FAILURE">>}
    BY <1>5
  <2> QED
    BY <2>1, <2>2
<1> QED
  BY <1>1, <1>3 DEF HilosCli

\* TypeOK of the start of the system: in particular no side ever has more than two
\* messages to read.
THEOREM SistemaTypeCorrect == Spec => []TypeOK
<1>1. SistemaInv => TypeOK
  <2> SUFFICES ASSUME SistemaInv PROVE TypeOK
    OBVIOUS
  <2>1. Tipos
    BY DEF SistemaInv
  <2>2. \A c \in Conexiones : \A l \in {"cli", "srv"} :
           /\ con[c][l] \in Lados /\ con[c][l].entrada \in Seq(Mensajes)
           /\ Len(con[c][l].entrada) <= 2
    <3> SUFFICES ASSUME NEW c \in Conexiones, NEW l \in {"cli", "srv"}
                 PROVE  /\ con[c][l] \in Lados /\ con[c][l].entrada \in Seq(Mensajes)
                        /\ Len(con[c][l].entrada) <= 2
      OBVIOUS
    <3>1. con[c][l] \in Lados /\ con[c][l].entrada \in Seq(Mensajes)
      BY <2>1 DEF Tipos, Lados
    <3>2. Len(con[c].cli.entrada) <= 1 /\ Len(con[c].srv.entrada) <= 1
      BY UnoEnCamino DEF SistemaInv
    <3>3. Len(con[c][l].entrada) <= 1 /\ Len(con[c][l].entrada) \in Nat
      BY <3>2
    <3> QED
      BY <3>1, <3>3
  <2>3. \A c \in Conexiones : \A l \in {"cli", "srv"} :
           con[c][l].estado \in Estados /\ con[c][l].connected \in BOOLEAN
    BY <2>2, Zenon DEF Lados
  <2>4. \A c \in Conexiones :
           /\ puerto[c] \in Puertos /\ hilo[c].cli \in HilosCli
           /\ hilo[c].srv \in Antes \cup Rechazo \cup Atiende /\ hilo[c].ltp \in HilosLtp
    BY <2>1 DEF Tipos
  <2> QED
    BY <2>1, <2>2, <2>3, Zenon DEF TypeOK, Tipos, Estados, HilosCli, HilosLtp
<1> QED
  BY <1>1, SistemaSiempre, PTL

\* The two ends of a handshake agree on its result, whichever process ended or was
\* killed on the way, for every set of consoles and configuration of their ports.
THEOREM SaludoCoincideSiempre == Spec => []SaludoCoincide
<1>1. SistemaInv => SaludoCoincide
  <2> SUFFICES ASSUME SistemaInv, NEW c \in Conexiones
               PROVE  /\ hilo[c].cli \in {"aceptada", "programa", "cerrar", "cerrada"} =>
                            hilo[c].srv \in Atiende
                      /\ hilo[c].cli = "rechazada" => hilo[c].srv \notin Atiende
    BY DEF SaludoCoincide
  <2>1. ConexionInv(c)
    BY DEF SistemaInv
  <2> QED
    BY <2>1 DEF ConexionInv, ClienteInv, Aceptada, Rechazada, Perdida, Atiende, Rechazo
<1> QED
  BY <1>1, SistemaSiempre, PTL

\* The handler of a console is destroyed exactly when neither its thread nor the exit
\* controller of the planner has anything left to do with it.
THEOREM ManejadorDestruidoSiempre == Spec => []ManejadorDestruidoAlFinal
<1>1. SistemaInv => ManejadorDestruidoAlFinal
  BY DEF SistemaInv, ConexionInv, ServidorInv, Manejador, ManejadorDestruidoAlFinal
<1> QED
  BY <1>1, SistemaSiempre, PTL

\* Only the kernel dies of SIGPIPE, and only after a console was killed between its code
\* and the answer.
THEOREM SigpipeSoloPorMatadaSiempre == Spec => []SigpipeSoloPorMatada
<1>1. SistemaInv => SigpipeSoloPorMatada
  BY DEF SistemaInv
<1> QED
  BY <1>1, SistemaSiempre, PTL

\* The CPU's main thread never finds the dispatch server gone: the kernel is accepted by
\* the interrupt server first, which is started after it has looked.
THEOREM DispatchServerSiempre == Spec => []DispatchServerNoEsNulo
<1>1. SistemaInv => DispatchServerNoEsNulo
  BY DEF SistemaInv, EtapaInv, DispatchServerNoEsNulo
<1> QED
  BY <1>1, SistemaSiempre, PTL

=============================================================================
