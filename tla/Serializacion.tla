--------------------------- MODULE Serializacion ---------------------------
(***************************************************************************)
(* What the programs put in a message and read back from it                *)
(* (shared/src/kiss.serialization.c, shared/src/serialization.c and the    *)
(* constructors of shared/src/kiss.structs.c).                             *)
(*                                                                         *)
(* A buffer is its bytes and the size the code computed for it, which is   *)
(* not the place where the copying ended.  An integer is four bytes, the   *)
(* lowest first, of Base values each (256 in the program), so its width is *)
(* part of the model.  A character is a byte other than 0, and a character *)
(* string is stored with its closing 0.                                    *)
(***************************************************************************)
EXTENDS Integers, Sequences, SequencesExt

CONSTANT Base       \* values of a byte, an even number: bounds the integers to -(Base^4)/2 .. Base^4 - 1

Ancho == Base * Base * Base * Base      \* 2^32
Basura == Base                          \* what is read past the end of a stream
Palabra == 4                            \* sizeof(uint32_t)

(************************************* integers ****************************)
serialize_uint32t(n) ==
    LET u == n % Ancho
    IN  <<u % Base, (u \div Base) % Base, (u \div (Base * Base)) % Base,
          u \div (Base * Base * Base)>>

\* What a stream holds at i, and the n bytes after offset: where nothing was copied, or
\* past its end, there is something else.
Byte(stream, i) == IF i \in DOMAIN stream THEN stream[i] ELSE Basura

Trozo(stream, offset, n) == [k \in 1..n |-> Byte(stream, offset + k)]

\* The word that starts offset bytes into the stream, as uint32_t and as int.
Uint(stream, offset) ==
    Byte(stream, offset + 1)
        + Base * (Byte(stream, offset + 2)
        + Base * (Byte(stream, offset + 3) + Base * Byte(stream, offset + 4)))
Int32(stream, offset) ==
    LET u == Uint(stream, offset) IN IF u < Ancho \div 2 THEN u ELSE u - Ancho
deserialize_uint32t(buffer) == Uint(buffer.stream, 0)

Palabras(valores) == FlattenSeq([i \in 1..Len(valores) |-> serialize_uint32t(valores[i])])

\* A message of integers only, and the integers read back from it.
DePalabras(valores) ==
    [size |-> Len(valores) * Palabra, stream |-> Palabras(valores)]
LeerPalabras(buffer, n) == [i \in 1..n |-> Uint(buffer.stream, (i - 1) * Palabra)]

(************************** structures of integers *************************)
setup_memoria_create == [entradas_por_tabla |-> 0, tam_pagina |-> 0]
serializar_setup_memoria(s) == DePalabras(<<s.entradas_por_tabla, s.tam_pagina>>)
deserializar_setup_memoria(buffer) ==
    LET w == LeerPalabras(buffer, 2)
    IN  [setup_memoria_create EXCEPT !.entradas_por_tabla = w[1], !.tam_pagina = w[2]]

operacion_eu_create ==
    [pid |-> Ancho - 1, dato |-> 0, desplazamiento |-> Ancho - 1, numero_marco |-> Ancho - 1]
serializar_operacion_eu(o) ==
    DePalabras(<<o.pid, o.dato, o.desplazamiento, o.numero_marco>>)
deserializar_operacion_EU(buffer) ==
    LET w == LeerPalabras(buffer, 4)
    IN  [operacion_eu_create EXCEPT !.pid = w[1], !.dato = w[2],
                                    !.desplazamiento = w[3], !.numero_marco = w[4]]

direccion_create ==
    [pid |-> Ancho - 1, pagina |-> Ancho - 1,
     tabla_primer_nivel |-> Ancho - 1, tabla_segundo_nivel |-> Ancho - 1]
serializar_direccion(d) ==
    DePalabras(<<d.pid, d.pagina, d.tabla_primer_nivel, d.tabla_segundo_nivel>>)
deserializar_direccion(buffer) ==
    LET w == LeerPalabras(buffer, 4)
    IN  [direccion_create EXCEPT !.pid = w[1], !.pagina = w[2],
                                 !.tabla_primer_nivel = w[3], !.tabla_segundo_nivel = w[4]]

page_entry_request_create == [pcb_id |-> 0, process_size |-> 0]
serializar_page_entry_request(r) == DePalabras(<<r.pcb_id, r.process_size>>)
deserializar_page_entry_request(buffer) ==
    LET w == LeerPalabras(buffer, 2)
    IN  [page_entry_request_create EXCEPT !.pcb_id = w[1], !.process_size = w[2]]

(******************************** instructions *****************************)
instruccion_create(codigo) == [codigo |-> codigo, parametros |-> <<>>]

Sumar(valores) == FoldLeft(LAMBDA a, b : a + b, 0, valores)

\* Slip: the closing zero of the parameters is not counted.
TamanioSinCero(lista) ==
    Palabra + Sumar([i \in 1..Len(lista) |->
                        2 * Palabra
                        + Sumar([p \in 1..Len(lista[i].parametros) |->
                                    Palabra + Len(lista[i].parametros[p])])])

\* The first pass over the list: the size of the buffer.
TamanioLista(lista) ==
    Palabra + Sumar([i \in 1..Len(lista) |->
                        2 * Palabra
                        + Sumar([p \in 1..Len(lista[i].parametros) |->
                                    Palabra + Len(lista[i].parametros[p]) + 1])])

\* The second pass: the bytes.
BytesParametro(p) == serialize_uint32t(Len(p) + 1) \o p \o <<0>>
BytesInstruccion(i) ==
    Palabras(<<i.codigo, Len(i.parametros)>>)
        \o FlattenSeq([p \in 1..Len(i.parametros) |-> BytesParametro(i.parametros[p])])
serializar_lista_instrucciones(lista) ==
    [size   |-> TamanioLista(lista),
     stream |-> serialize_uint32t(Len(lista))
                    \o FlattenSeq([i \in 1..Len(lista) |-> BytesInstruccion(lista[i])])]

\* A C string: the bytes before the first 0.
Cadena(bytes) ==
    LET ceros == {i \in 1..Len(bytes) : bytes[i] = 0}
    IN  IF ceros = {} THEN bytes
        ELSE SubSeq(bytes, 1, (CHOOSE i \in ceros : \A j \in ceros : i <= j) - 1)

\* Reading: each step takes the cursor (the offset, and what was read before it) on.
LeerParametro(stream, cursor) ==
    LET p_size == Uint(stream, cursor.offset)
        desde == cursor.offset + Palabra
    IN  [offset |-> desde + p_size,
         leido  |-> Append(cursor.leido, Cadena(Trozo(stream, desde, p_size)))]

LeerInstruccion(stream, cursor) ==
    LET p_count == Uint(stream, cursor.offset + Palabra)
        fin == FoldLeft(LAMBDA c, n : LeerParametro(stream, c),
                        [offset |-> cursor.offset + 2 * Palabra, leido |-> <<>>],
                        [n \in 1..p_count |-> n])
    IN  [offset |-> fin.offset,
         leido  |-> Append(cursor.leido,
                           [instruccion_create(Uint(stream, cursor.offset))
                                EXCEPT !.parametros = fin.leido])]

deserializar_lista_instrucciones(buffer) ==
    FoldLeft(LAMBDA c, n : LeerInstruccion(buffer.stream, c),
             [offset |-> Palabra, leido |-> <<>>],
             [n \in 1..Uint(buffer.stream, 0) |-> n]).leido

\* A buffer of n integers followed by the instruction list with its size.
ConInstrucciones(valores, lista) ==
    LET i == serializar_lista_instrucciones(lista)
    IN  [size   |-> (Len(valores) + 1) * Palabra + i.size,
         stream |-> Palabras(Append(valores, i.size)) \o Trozo(i.stream, 0, i.size)]
InstruccionesTras(buffer, n) ==
    LET size == Uint(buffer.stream, n * Palabra)
        desde == (n + 1) * Palabra
    IN  deserializar_lista_instrucciones(
            [size |-> size, stream |-> Trozo(buffer.stream, desde, size)])

(********************************* pcb, program ****************************)
CPU_NULL_CONDITION == 0

\* The fields of t_pcb that travel, and process_size, which does not: the CPU gets a
\* pcb with the size of a new one.
pcb_create(instructions) ==
    [id |-> -1, process_size |-> 0, tabla_paginas |-> 0, program_counter |-> 0,
     instructions |-> instructions, cpu_dispatch_cond |-> CPU_NULL_CONDITION,
     cpu_estimated_burst |-> 0, cpu_executed_burst |-> 0, io_burst |-> 0]

serializar_pcb(p) ==
    ConInstrucciones(<<p.id, p.program_counter, p.tabla_paginas, p.cpu_dispatch_cond,
                       p.cpu_executed_burst, p.cpu_estimated_burst, p.io_burst>>,
                     p.instructions)

deserializar_pcb(buffer) ==
    LET campo(n) == Int32(buffer.stream, (n - 1) * Palabra)
    IN  [pcb_create(InstruccionesTras(buffer, 7)) EXCEPT
            !.id = campo(1), !.program_counter = campo(2), !.tabla_paginas = campo(3),
            !.cpu_dispatch_cond = campo(4), !.cpu_executed_burst = campo(5),
            !.cpu_estimated_burst = campo(6), !.io_burst = campo(7)]

program_create(instructions) == [size |-> 0, instructions |-> instructions]
serialize_program(p) == ConInstrucciones(<<p.size>>, p.instructions)
deserialize_program(buffer) ==
    [program_create(InstruccionesTras(buffer, 1)) EXCEPT !.size = Int32(buffer.stream, 0)]

=============================================================================
