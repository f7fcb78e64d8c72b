-------------------------- MODULE CicloInstruccion --------------------------
(***************************************************************************)
(* The CPU process (cpu/src/cpu.c, cpu/src/cicloInstruccion.c) running one *)
(* program: the dispatch thread receives the pcb, runs instructions until  *)
(* one of them or an interrupt ends the burst, and returns it; the         *)
(* interrupt thread sets hay_interrupcion whenever the kernel says so. The *)
(* flag has no lock: the dispatch thread reads it twice after each         *)
(* instruction and clears it twice per burst.                              *)
(*                                                                         *)
(* READ and WRITE are NO_OP here: their result is not looked at. Module    *)
(* Memoria has what they do, and module ShortTermPlanner what the kernel   *)
(* sees of the process.                                                    *)
(***************************************************************************)
EXTENDS Naturals, Sequences

CONSTANTS
    Programas,          \* the programs: the codes of the instructions of a pcb
    MaxInterrupciones   \* bound: the interrupts the kernel sends

Codigos == {"NO_OP", "COPY", "I_O", "EXIT"}

\* Any program that the console lets through: it has an instruction, and perhaps no
\* EXIT, which the parser does not ask for.
ASSUME ProgramaAssumption ==
    /\ Programas \subseteq Seq(Codigos) \ {<<>>}
    /\ MaxInterrupciones \in Nat

VARIABLES
    etapa,              \* where the dispatch thread is
    pcb,                \* the pcb: its instructions, program_counter and condition
    hay_interrupcion,
    enviar_pcb_o_exit,
    error,              \* of ejecutar_pcb, that handle_dispatch ignores
    senales,            \* interrupts on their way to the CPU
    enviadas,           \* interrupts sent so far
    fetches             \* ghost: instructions started since the flag was set

varsCiclo == <<etapa, pcb, hay_interrupcion, enviar_pcb_o_exit, error, senales,
               enviadas, fetches>>

Condiciones ==
    {"NULL_CONDITION", "IO_SYSCALL", "EXIT_PROGRAM", "INTERRUPTED_BY_KERNEL"}

InitCiclo ==
    /\ etapa = "kernel"
    /\ \E programa \in Programas :
           pcb = [instructions |-> programa, program_counter |-> 0,
                  cond |-> "NULL_CONDITION"]
    /\ hay_interrupcion = FALSE /\ enviar_pcb_o_exit = FALSE /\ error = FALSE
    /\ senales = 0 /\ enviadas = 0 /\ fetches = 0

\* The instruction fetched last.
Actual == pcb.instructions[pcb.program_counter]

-----------------------------------------------------------------------------
\* The kernel sends the pcb, with its condition cleared, the first time and after
\* an I_O or an interrupt; it discards one that comes back with another condition.
KernelDespacha ==
    /\ \/ etapa = "kernel"
       \/ etapa = "devuelto" /\ pcb.cond \in {"IO_SYSCALL", "INTERRUPTED_BY_KERNEL"}
    /\ etapa' = "recibido"
    /\ pcb' = [pcb EXCEPT !.cond = "NULL_CONDITION"]
    /\ UNCHANGED <<hay_interrupcion, enviar_pcb_o_exit, error, senales, enviadas,
                   fetches>>

\* cpu_interrupt, for a READY process that may be shorter. It uses a connection of
\* its own, so that it may come before the pcb, or after its answer.
KernelInterrumpe ==
    /\ enviadas < MaxInterrupciones
    /\ senales' = senales + 1 /\ enviadas' = enviadas + 1
    /\ UNCHANGED <<etapa, pcb, hay_interrupcion, enviar_pcb_o_exit, error, fetches>>

\* handle_interrupt.
Interrupcion ==
    /\ senales > 0 /\ etapa # "caida"
    /\ senales' = senales - 1
    /\ hay_interrupcion' = TRUE
    /\ fetches' = IF hay_interrupcion THEN fetches ELSE 0
    /\ UNCHANGED <<etapa, pcb, enviar_pcb_o_exit, error, enviadas>>

(***************************************************************************)
(* The dispatch thread.                                                    *)
(***************************************************************************)
Sigue(siguiente) ==
    /\ etapa' = siguiente
    /\ UNCHANGED <<senales, enviadas>>

\* handle_dispatch and the start of ejecutar_pcb.
Empezar ==
    /\ etapa = "recibido"
    /\ hay_interrupcion' = FALSE /\ enviar_pcb_o_exit' = FALSE /\ error' = FALSE
    /\ Sigue("fetch")
    /\ UNCHANGED <<pcb, fetches>>

\* fetch and decode. Past the last instruction list_get answers NULL, decode follows
\* it and the process falls: nothing looks at the length of the program.
fetch ==
    /\ etapa = "fetch"
    /\ pcb' = [pcb EXCEPT !.program_counter = @ + 1]
    /\ fetches' = fetches + 1
    /\ Sigue(IF pcb.program_counter = Len(pcb.instructions) THEN "caida"
             ELSE IF Actual' = "COPY" THEN "operands" ELSE "execute")
    /\ UNCHANGED <<hay_interrupcion, enviar_pcb_o_exit, error>>

\* The value to copy is read, or it cannot be and the burst ends.
faseOperands(leido) ==
    /\ etapa = "operands"
    /\ error' = ~leido
    /\ Sigue(IF leido THEN "execute" ELSE "fin")
    /\ UNCHANGED <<pcb, hay_interrupcion, enviar_pcb_o_exit, fetches>>

\* Slip: EXIT does not end the burst.
ExecuteSinSalir ==
    /\ etapa = "execute"
    /\ pcb' = [pcb EXCEPT !.cond = IF Actual = "I_O" THEN "IO_SYSCALL" ELSE @]
    /\ enviar_pcb_o_exit' = (enviar_pcb_o_exit \/ Actual = "I_O")
    /\ Sigue("marcar")
    /\ UNCHANGED <<hay_interrupcion, error, fetches>>

\* The switch of execute.
execute ==
    /\ etapa = "execute"
    /\ pcb' = [pcb EXCEPT !.cond = CASE Actual = "I_O"  -> "IO_SYSCALL"
                                     [] Actual = "EXIT" -> "EXIT_PROGRAM"
                                     [] OTHER           -> @]
    /\ enviar_pcb_o_exit' = (enviar_pcb_o_exit \/ Actual \in {"I_O", "EXIT"})
    /\ Sigue("marcar")
    /\ UNCHANGED <<hay_interrupcion, error, fetches>>

\* Slip: the interrupt takes the place of the system call.
MarcarSiempre ==
    /\ etapa = "marcar"
    /\ pcb' = IF hay_interrupcion THEN [pcb EXCEPT !.cond = "INTERRUPTED_BY_KERNEL"]
              ELSE pcb
    /\ Sigue("check")
    /\ UNCHANGED <<hay_interrupcion, enviar_pcb_o_exit, error, fetches>>

\* Slip: the condition is written before anything is known of an interrupt.
MarcarSinMirar ==
    /\ etapa = "marcar"
    /\ pcb' = IF enviar_pcb_o_exit THEN pcb
              ELSE [pcb EXCEPT !.cond = "INTERRUPTED_BY_KERNEL"]
    /\ Sigue("check")
    /\ UNCHANGED <<hay_interrupcion, enviar_pcb_o_exit, error, fetches>>

\* The end of execute: the first look at the flag.
Marcar ==
    /\ etapa = "marcar"
    /\ pcb' = IF hay_interrupcion /\ ~enviar_pcb_o_exit
              THEN [pcb EXCEPT !.cond = "INTERRUPTED_BY_KERNEL"] ELSE pcb
    /\ Sigue("check")
    /\ UNCHANGED <<hay_interrupcion, enviar_pcb_o_exit, error, fetches>>

\* Slip: only the instructions end the burst.
CheckSinInterrupcion ==
    /\ etapa = "check"
    /\ Sigue(IF enviar_pcb_o_exit THEN "fin" ELSE "fetch")
    /\ UNCHANGED <<pcb, hay_interrupcion, enviar_pcb_o_exit, error, fetches>>

\* The second look at the flag.
checkInterrupt ==
    /\ etapa = "check"
    /\ enviar_pcb_o_exit' = (enviar_pcb_o_exit \/ hay_interrupcion)
    /\ Sigue(IF enviar_pcb_o_exit' THEN "fin" ELSE "fetch")
    /\ UNCHANGED <<pcb, hay_interrupcion, error, fetches>>

\* The end of ejecutar_pcb, and the pcb sent back.
Devolver ==
    /\ etapa = "fin"
    /\ hay_interrupcion' = FALSE
    /\ Sigue("devuelto")
    /\ UNCHANGED <<pcb, enviar_pcb_o_exit, error, fetches>>

Dispatch == \/ Empezar \/ fetch \/ execute \/ Marcar \/ checkInterrupt \/ Devolver
            \/ \E leido \in BOOLEAN : faseOperands(leido)

NextCiclo == KernelDespacha \/ KernelInterrumpe \/ Interrupcion \/ Dispatch

SpecCiclo == InitCiclo /\ [][NextCiclo]_varsCiclo

-----------------------------------------------------------------------------
\* The types; the counter is past the last instruction only in a CPU that fell.
TypeOKCiclo ==
    /\ etapa \in {"kernel", "recibido", "fetch", "operands", "execute", "marcar",
               "check", "fin", "devuelto", "caida"}
    /\ pcb \in [instructions : Programas, program_counter : Nat, cond : Condiciones]
    /\ pcb.program_counter <= Len(pcb.instructions) + 1
    /\ pcb.program_counter = Len(pcb.instructions) + 1 <=> etapa = "caida"
    /\ hay_interrupcion \in BOOLEAN /\ enviar_pcb_o_exit \in BOOLEAN
    /\ error \in BOOLEAN
    /\ senales \in 0 .. MaxInterrupciones /\ enviadas \in 0 .. MaxInterrupciones
    /\ fetches \in Nat

\* After an EXIT nothing is fetched, whatever interrupts come and however many times
\* the kernel dispatches the pcb: so the CPU falls only with a program without EXIT.
NadaTrasExit ==
    \A i \in 1 .. pcb.program_counter - 1 : pcb.instructions[i] # "EXIT"

\* Whatever interrupts come, and when, the I_O or EXIT the program asked for is what
\* the kernel is told, and no other instruction is reported as one.
LlamadaLlegaAlKernel ==
    etapa = "devuelto" /\ ~error =>
        /\ Actual = "I_O"  <=> pcb.cond = "IO_SYSCALL"
        /\ Actual = "EXIT" <=> pcb.cond = "EXIT_PROGRAM"

\* Once the interrupt thread has set the flag during a burst, the program starts at
\* most one more instruction: the one after a check that just missed the flag.
InterrumpeEnSeguida ==
    hay_interrupcion /\ etapa \in {"operands", "execute", "marcar", "check", "fin"}
        => fetches <= 1

\* A burst ends for a reason: with the condition of a system call; with that of an
\* interrupt, if one came; or with none (which the kernel takes for a failure,
\* planner.c:834), when the operand of a COPY could not be read or when the flag
\* was set between execute's look at it and checkInterrupt's. These are the
\* answers that ShortTermPlanner's CpuReturn allows.
RespuestaDelPlanner ==
    [][etapa = "fin" =>
         \/ pcb.cond \in {"IO_SYSCALL", "EXIT_PROGRAM"}
         \/ pcb.cond = "INTERRUPTED_BY_KERNEL" /\ hay_interrupcion
         \/ pcb.cond = "NULL_CONDITION" /\ (error \/ hay_interrupcion)]_varsCiclo

=============================================================================
