------------------------------ MODULE Conexion ------------------------------
(***************************************************************************)
(* Messages over one direction of a connection: send_message and           *)
(* recieve_message (shared/src/socket_handler.c) and serializar_paquete    *)
(* (shared/src/serialization.c), used by a sender and by a server's loop   *)
(* that receives until the connection is lost (cpu.c, memoriaswap.c).      *)
(*                                                                         *)
(* The bytes of a message may be cut anywhere: the connection ends, by its *)
(* peer closing it ("fin") or by an error ("error"), after any number of   *)
(* the bytes still on their way.  recv with MSG_WAITALL answers with all   *)
(* the bytes asked for, with fewer at the end of the stream, with 0 when   *)
(* there are none, with -1 once after an error.                            *)
(***************************************************************************)
EXTENDS Parser, FiniteSets

CONSTANTS
    Mensajes,       \* the messages a process sends: a header and a value
    MaxEnvios       \* bounds how many are sent

VARIABLES
    enviados,       \* the messages given to send_message, in order
    camino,         \* the bytes on their way
    corte,          \* "no", or how the connection ended
    paquete,        \* the package recieve_message is filling
    pc,             \* its next recv: "header", "size", "payload"; "fuera": its loop ended
    recibidos       \* what recieve_message returned, with handler->error

vars == <<enviados, camino, corte, paquete, pc, recibidos>>

\* Message codes: 900 and up in the program; that they are distinct is all that counts.
EMPTY_PACKAGE == 0
ERROR_PACKAGE == 1
MC_SIGNAL == 2
MC_PCB == 3
MC_PROGRAM == 4
MC_MEMORY_SETUP == 5
MC_ESCRIBIR_MARCO == 6
MC_BUSCAR_MARCO == 7
MC_NUEVO_PROCESO == 8

\* What the senders serialize under each header, and what the receivers make of it.
Buffer(m) ==
    CASE m.header = MC_SIGNAL         -> DePalabras(<<m.valor>>)
      [] m.header = MC_PCB            -> serializar_pcb(m.valor)
      [] m.header = MC_PROGRAM        -> serialize_program(m.valor)
      [] m.header = MC_MEMORY_SETUP   -> serializar_setup_memoria(m.valor)
      [] m.header = MC_ESCRIBIR_MARCO -> serializar_operacion_eu(m.valor)
      [] m.header = MC_BUSCAR_MARCO   -> serializar_direccion(m.valor)
      [] m.header = MC_NUEVO_PROCESO  -> serializar_page_entry_request(m.valor)
Valor(header, buffer) ==
    CASE header = MC_SIGNAL         -> deserialize_uint32t(buffer)
      [] header = MC_PCB            -> deserializar_pcb(buffer)
      [] header = MC_PROGRAM        -> deserialize_program(buffer)
      [] header = MC_MEMORY_SETUP   -> deserializar_setup_memoria(buffer)
      [] header = MC_ESCRIBIR_MARCO -> deserializar_operacion_EU(buffer)
      [] header = MC_BUSCAR_MARCO   -> deserializar_direccion(buffer)
      [] header = MC_NUEVO_PROCESO  -> deserializar_page_entry_request(buffer)

serializar_paquete(header, buffer) ==
    Palabras(<<header, buffer.size>>) \o Trozo(buffer.stream, 0, buffer.size)

package_create == [header |-> EMPTY_PACKAGE, size |-> 0, stream |-> <<>>]

Init ==
    /\ enviados = <<>> /\ camino = <<>> /\ corte = "no"
    /\ paquete = package_create /\ pc = "header" /\ recibidos = <<>>

send_message(m) ==
    /\ corte = "no" /\ Len(enviados) < MaxEnvios
    /\ enviados' = Append(enviados, m)
    /\ camino' = camino \o serializar_paquete(m.header, Buffer(m))
    /\ UNCHANGED <<corte, paquete, pc, recibidos>>

\* The connection ends after n of the bytes on their way.
Cortar(fin, n) ==
    /\ corte = "no"
    /\ corte' = fin
    /\ camino' = SubSeq(camino, 1, n)
    /\ UNCHANGED <<enviados, paquete, pc, recibidos>>

-----------------------------------------------------------------------------
Cuantos(n) == IF n < Len(camino) THEN n ELSE Len(camino)

\* recv of n bytes: the call returns when they are all there or no more will come.
Recv(n) ==
    /\ Len(camino) >= n \/ corte # "no"
    /\ camino' = SubSeq(camino, Cuantos(n) + 1, Len(camino))
    /\ corte' = IF camino = <<>> /\ corte = "error" THEN "fin" ELSE corte
Bytes(n) == SubSeq(camino, 1, Cuantos(n))
last_return(n) ==
    IF camino = <<>> THEN (IF corte = "error" THEN -1 ELSE 0) ELSE Len(Bytes(n))

\* A word that was zero, and got as many of its bytes as were read.
PalabraRecibida ==
    LET b == Bytes(Palabra)
    IN  Uint([k \in 1..Palabra |-> IF k <= Len(b) THEN b[k] ELSE 0], 0)

ErrorDe(n) == IF last_return(n) = 0 THEN "SKT_CONNECTION_LOST" ELSE "errno"

\* recieve_message returns; the loop of the caller goes on unless the connection is lost.
Devolver(p, error) ==
    /\ recibidos' = Append(recibidos, [paquete |-> p, error |-> error])
    /\ paquete' = package_create
    /\ pc' = IF error = "SKT_CONNECTION_LOST" THEN "fuera" ELSE "header"

Seguir(p, siguiente) == paquete' = p /\ pc' = siguiente /\ UNCHANGED recibidos

RecvHeader ==
    /\ pc = "header" /\ Recv(Palabra) /\ UNCHANGED enviados
    /\ IF last_return(Palabra) <= 0
       THEN Devolver(paquete, ErrorDe(Palabra))
       ELSE Seguir([paquete EXCEPT !.header = PalabraRecibida], "size")

RecvSize ==
    /\ pc = "size" /\ Recv(Palabra) /\ UNCHANGED enviados
    /\ LET p == [paquete EXCEPT !.size = PalabraRecibida]
       IN  IF last_return(Palabra) <= 0
           THEN Devolver([paquete EXCEPT !.header = ERROR_PACKAGE], ErrorDe(Palabra))
           ELSE IF p.size > 0 THEN Seguir(p, "payload") ELSE Devolver(p, "")

RecvPayload ==
    /\ pc = "payload" /\ Recv(paquete.size) /\ UNCHANGED enviados
    /\ LET n == paquete.size
           p == [paquete EXCEPT !.stream = Bytes(n)]
           e == [p EXCEPT !.header = ERROR_PACKAGE]
       IN  IF last_return(n) <= 0 THEN Devolver(e, ErrorDe(n))
           ELSE IF last_return(n) # n THEN Devolver(e, "SKT_DATA_TRANF_INCOMPLETE")
           ELSE Devolver(p, "")

Next ==
    \/ \E m \in Mensajes : send_message(m)
    \/ \E fin \in {"fin", "error"}, n \in 0..Len(camino) : Cortar(fin, n)
    \/ RecvHeader \/ RecvSize \/ RecvPayload

Spec == Init /\ [][Next]_vars

-----------------------------------------------------------------------------
Buenos == SelectSeq(recibidos, LAMBDA r : r.error = "")

\* What the other process makes of a message: the same value, except the size of the
\* process of a pcb, which does not travel (see PcbLlegaEntero).
Esperado(m) == IF m.header = MC_PCB THEN [m.valor EXCEPT !.process_size = 0] ELSE m.valor

\* The stream ended inside the size of message m with only zero bytes of it read:
\* recieve_message takes the message for an empty one and reports no error.
VaciadoPorElCorte(m, p) ==
    /\ corte # "no"
    /\ Buffer(m).size > 0 /\ p.size = 0 /\ p.header = m.header
    /\ Byte(serialize_uint32t(Buffer(m).size), 1) = 0

\* What is received without error is what was sent, in order, each value as the sender
\* had it: through a cut at any byte, partial reads, and sizes computed in one pass and
\* bytes copied in another. The one exception is the last message of a connection cut
\* inside a size whose first bytes are zero. And while the connection holds nothing is
\* lost or left half read: when no byte is on its way, all that was sent was received
\* (socket_handler.c:165-234, kiss.serialization.c).
RecibeLoEnviado ==
    /\ Len(Buenos) <= Len(enviados)
    /\ \A k \in 1..Len(Buenos) :
          LET p == Buenos[k].paquete
              m == enviados[k]
          IN  \/ k = Len(Buenos) /\ VaciadoPorElCorte(m, p)
              \/ p.header = m.header /\ p.size > 0 /\ Valor(p.header, p) = Esperado(m)
    /\ corte = "no" /\ camino = <<>> => pc = "header" /\ Len(Buenos) = Len(enviados)

\* A pcb arrives as it was sent, with its process_size: test_serializar_pcb compares the
\* two (shared.test.c:173-191), and the comment over serializar_pcb has the field in the
\* message (kiss.serialization.c:198). It does not hold: the field is commented out of
\* serializar_pcb and of deserializar_pcb.
PcbLlegaEntero ==
    \A k \in 1..Len(Buenos) :
        LET p == Buenos[k].paquete
        IN  p.header = MC_PCB /\ p.size > 0 => Valor(MC_PCB, p) = enviados[k].valor

=============================================================================
