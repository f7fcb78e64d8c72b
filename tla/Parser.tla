------------------------------- MODULE Parser -------------------------------
(***************************************************************************)
(* The parser of the console (consola/src/parser.c): from the lines of a   *)
(* source file to a program.                                               *)
(*                                                                         *)
(* A line is a word, its parameters and whether it ends in a line feed.    *)
(* string_split cuts at spaces only, so the line feed stays in the last    *)
(* word: harmless in a number, which atoi cuts, but not in a word alone.   *)
(* A number is one digit; a word that is missing where the code needs it   *)
(* is a NULL it goes through, which no line of the inputs has.             *)
(***************************************************************************)
EXTENDS Serializacion

ci_NO_OP == 0
ci_I_O   == 1
ci_WRITE == 2
ci_COPY  == 3
ci_READ  == 4
ci_EXIT  == 5

SaltoDeLinea == 1                   \* the byte; those above it are the digits
atoi(p) == p[1] - (SaltoDeLinea + 1)

Linea(palabra, parametros, salto) ==
    [palabra |-> palabra, parametros |-> parametros, salto |-> salto]

\* The line feed, if any, ends up in the last parameter.
Parametro(linea, k) ==
    IF linea.salto /\ k = Len(linea.parametros)
    THEN Append(linea.parametros[k], SaltoDeLinea) ELSE linea.parametros[k]

\* Slip: the line feed is cut off.
EsSinSalto(linea, palabra) == linea.palabra = palabra

\* strcmp(parsed[0], palabra) == 0
Es(linea, palabra) ==
    linea.palabra = palabra /\ ~(linea.salto /\ linea.parametros = <<>>)

Instruccion(codigo, linea, n) ==
    <<[instruccion_create(codigo) EXCEPT
            !.parametros = [k \in 1..n |-> Parametro(linea, k)]]>>

\* The instructions a line adds to the list; it is an error when the word is none of these.
Conocidas == {"NO_OP", "I/O", "WRITE", "COPY", "READ", "EXIT"}
EsError(linea) == \A palabra \in Conocidas : ~Es(linea, palabra)
parse_instructions(linea) ==
    CASE linea.palabra = "NO_OP" ->
            [i \in 1..atoi(linea.parametros[1]) |-> instruccion_create(ci_NO_OP)]
      [] linea.palabra = "I/O"   -> Instruccion(ci_I_O, linea, 1)
      [] linea.palabra = "WRITE" -> Instruccion(ci_WRITE, linea, 2)
      [] linea.palabra = "COPY"  -> Instruccion(ci_COPY, linea, 2)
      [] linea.palabra = "READ"  -> Instruccion(ci_READ, linea, 1)
      [] linea.palabra = "EXIT"  -> Instruccion(ci_EXIT, linea, 0)

\* A program, or <<>> for NULL: a line in error ends the reading.
parse_program(lineas, program_size) ==
    IF \E k \in 1..Len(lineas) : EsError(lineas[k]) THEN <<>>
    ELSE <<[program_create(FlattenSeq([k \in 1..Len(lineas) |->
                                          parse_instructions(lineas[k])]))
                EXCEPT !.size = program_size]>>

=============================================================================
