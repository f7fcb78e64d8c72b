----------------------- MODULE CicloInstruccionProofs -----------------------
(***************************************************************************)
(* The instruction cycle, for every program, with EXIT or without, and any *)
(* number of interrupts: a system call reaches the kernel, nothing after an*)
(* EXIT is fetched, an interrupt takes effect at once, and every answer    *)
(* has a reason. The argument follows one burst: while the CPU fetches, the*)
(* condition is clear and nothing asks to leave; execute writes the        *)
(* condition of a system call and asks to leave; an interrupt only writes  *)
(* over a clear condition, and then the flag stays set until the burst     *)
(* ends.                                                                   *)
(***************************************************************************)
EXTENDS CicloInstruccion, TLAPS

Pcs == {"kernel", "recibido", "fetch", "operands", "execute", "marcar", "check",
        "fin", "devuelto", "caida"}

Forma ==
    /\ etapa \in Pcs
    /\ pcb \in [instructions : Programas, program_counter : Nat, cond : Condiciones]
    /\ hay_interrupcion \in BOOLEAN
    /\ enviar_pcb_o_exit \in BOOLEAN
    /\ error \in BOOLEAN

\* The condition says which system call the last instruction was.
DiceLaLlamada ==
    /\ Actual = "I_O"  <=> pcb.cond = "IO_SYSCALL"
    /\ Actual = "EXIT" <=> pcb.cond = "EXIT_PROGRAM"

\* Before execute nothing is decided.
SinDecidir ==
    /\ etapa \in {"recibido", "fetch", "operands", "execute"}
          => pcb.cond = "NULL_CONDITION"
    /\ etapa \in {"fetch", "operands", "execute"} => ~enviar_pcb_o_exit
    /\ etapa \in {"fetch", "execute"} => ~error

\* After execute the burst ends if the instruction was a system call, or if the
\* interrupt took a condition that was clear.
Decidido ==
    /\ etapa \in {"marcar", "check"} => ~error
    /\ etapa \in {"marcar", "check"} =>
          (enviar_pcb_o_exit <=> Actual \in {"I_O", "EXIT"})
    /\ etapa = "marcar" => pcb.cond # "INTERRUPTED_BY_KERNEL"
    /\ etapa \in {"marcar", "check", "fin", "devuelto"} /\ ~error => DiceLaLlamada
    /\ etapa = "check" /\ pcb.cond = "INTERRUPTED_BY_KERNEL" => hay_interrupcion

BurstInv == Forma /\ SinDecidir /\ Decidido

\* The invariant holds at the start.
LEMMA BurstInit ==
    ASSUME InitCiclo PROVE BurstInv
<1>1. hay_interrupcion \in BOOLEAN /\ enviar_pcb_o_exit \in BOOLEAN /\ error \in BOOLEAN
  BY Zenon DEF InitCiclo
<1>2. QED
  BY <1>1 DEF InitCiclo, BurstInv, Forma, Pcs, Condiciones, SinDecidir, Decidido

\* Every step keeps it.
LEMMA BurstStep ==
    ASSUME BurstInv, [NextCiclo]_varsCiclo PROVE BurstInv'
<1> USE DEF BurstInv, Forma, Pcs, Condiciones
<1>1. CASE KernelDespacha
  BY <1>1 DEF KernelDespacha, SinDecidir, Decidido
<1>2. CASE KernelInterrumpe
  BY <1>2 DEF KernelInterrumpe, SinDecidir, Decidido, DiceLaLlamada, Actual
<1>3. CASE Interrupcion
  BY <1>3 DEF Interrupcion, SinDecidir, Decidido, DiceLaLlamada, Actual
<1>4. CASE Empezar
  BY <1>4 DEF Empezar, Sigue, SinDecidir, Decidido
<1>5. CASE fetch
  BY <1>5 DEF fetch, Sigue, SinDecidir, Decidido
<1>6. ASSUME NEW leido \in BOOLEAN, faseOperands(leido) PROVE BurstInv'
  BY <1>6 DEF faseOperands, Sigue, SinDecidir, Decidido
<1>7. CASE execute
  <2>1. Forma' /\ SinDecidir'
    BY <1>7 DEF execute, Sigue, SinDecidir
  <2>2. etapa' = "marcar" /\ ~error' /\ pcb.cond = "NULL_CONDITION"
    BY <1>7 DEF execute, Sigue, SinDecidir
  <2>3. Actual' = Actual
    BY <1>7 DEF execute, Actual
  <2>4. enviar_pcb_o_exit' <=> Actual \in {"I_O", "EXIT"}
    BY <1>7 DEF execute, SinDecidir
  <2>5. pcb'.cond = CASE Actual = "I_O"  -> "IO_SYSCALL"
                      [] Actual = "EXIT" -> "EXIT_PROGRAM"
                      [] OTHER           -> "NULL_CONDITION"
    BY <1>7, <2>2 DEF execute
  <2>6. QED
    BY <2>1, <2>2, <2>3, <2>4, <2>5 DEF Decidido, DiceLaLlamada
<1>8. CASE Marcar
  <2>1. Forma' /\ SinDecidir' /\ Actual' = Actual
    BY <1>8 DEF Marcar, Sigue, SinDecidir, Actual
  <2>2. QED
    BY <1>8, <2>1 DEF Marcar, Sigue, Decidido, DiceLaLlamada
<1>9. CASE checkInterrupt
  <2>1. Actual' = Actual
    BY <1>9 DEF checkInterrupt, Actual
  <2>2. QED
    BY <1>9, <2>1 DEF checkInterrupt, Sigue, SinDecidir, Decidido, DiceLaLlamada
<1>10. CASE Devolver
  BY <1>10 DEF Devolver, Sigue, SinDecidir, Decidido, DiceLaLlamada, Actual
<1>11. CASE UNCHANGED varsCiclo
  BY <1>11 DEF varsCiclo, SinDecidir, Decidido, DiceLaLlamada, Actual
<1>12. QED
  BY <1>1, <1>2, <1>3, <1>4, <1>5, <1>6, <1>7, <1>8, <1>9, <1>10, <1>11
  DEF NextCiclo, Dispatch

\* Whatever interrupts come, and when, a pcb that comes back without an error
\* carries the system call its program made, and no other instruction is reported
\* as one: for every program.
THEOREM CallReachesKernel == SpecCiclo => []LlamadaLlegaAlKernel
<1>1. BurstInv => LlamadaLlegaAlKernel
  BY DEF BurstInv, Decidido, DiceLaLlamada, LlamadaLlegaAlKernel
<1>2. InitCiclo => BurstInv
  BY BurstInit
<1>3. BurstInv /\ [NextCiclo]_varsCiclo => BurstInv'
  BY BurstStep
<1>4. QED
  BY <1>1, <1>2, <1>3, PTL DEF SpecCiclo

(***************************************************************************)
(* The program counter, the answer and the latency of an interrupt need    *)
(* BurstInv: that the burst ends is what leaves an EXIT the last fetched.  *)
(***************************************************************************)
EnLaInstruccion == {"operands", "execute", "marcar", "check", "fin", "devuelto"}

\* The counter has passed the last instruction only in a CPU that fell; after a
\* fetch that did not fall, one was fetched.
DentroDelPrograma ==
    /\ pcb.program_counter <= Len(pcb.instructions) + 1
    /\ pcb.program_counter = Len(pcb.instructions) + 1 <=> etapa = "caida"
    /\ etapa \in EnLaInstruccion => pcb.program_counter > 0
    /\ etapa = "operands" => Actual = "COPY"

\* Where a fetch may come next, no instruction fetched so far was EXIT; where the
\* last one is still to be told, none before it was.
SinExitAtras ==
    /\ NadaTrasExit
    /\ etapa \in {"kernel", "recibido", "fetch"}
          => \A i \in 1 .. pcb.program_counter : pcb.instructions[i] # "EXIT"

\* Signals are received once each.
SenalesEnviadas ==
    /\ senales \in Nat /\ enviadas \in 0 .. MaxInterrupciones
    /\ senales <= enviadas

\* A flag seen at "fetch" was set after the last check.
Latencia ==
    /\ fetches \in Nat
    /\ hay_interrupcion /\ etapa = "fetch" => fetches = 0
    /\ InterrumpeEnSeguida

\* Why the burst ended, and that a failed operand leaves the condition clear.
Motivo ==
    /\ etapa \in {"fin", "devuelto"} /\ error => pcb.cond = "NULL_CONDITION"
    /\ etapa = "fin" =>
          \/ pcb.cond \in {"IO_SYSCALL", "EXIT_PROGRAM"}
          \/ pcb.cond = "INTERRUPTED_BY_KERNEL" /\ hay_interrupcion
          \/ pcb.cond = "NULL_CONDITION" /\ (error \/ hay_interrupcion)

CicloInv ==
    BurstInv /\ DentroDelPrograma /\ SinExitAtras /\ SenalesEnviadas /\ Latencia /\ Motivo

\* The program is a sequence of instructions, and has one.
LEMMA ProgramaConInstrucciones ==
    ASSUME Forma
    PROVE  /\ Len(pcb.instructions) \in Nat \ {0}
           /\ \A i \in 1 .. Len(pcb.instructions) : pcb.instructions[i] \in Codigos
BY ProgramaAssumption DEF Forma

\* A burst that goes on, or a pcb that the kernel dispatches again, has not executed
\* an EXIT.
LEMMA SigueSinExit ==
    ASSUME CicloInv, Actual # "EXIT", etapa \in EnLaInstruccion
    PROVE  \A i \in 1 .. pcb.program_counter : pcb.instructions[i] # "EXIT"
BY DEF CicloInv, BurstInv, Forma, DentroDelPrograma, SinExitAtras, NadaTrasExit, Actual

\* Each step keeps the counter inside the program, or the CPU falls.
LEMMA DentroStep ==
    ASSUME CicloInv, [NextCiclo]_varsCiclo PROVE DentroDelPrograma'
<1> USE ProgramaConInstrucciones DEF CicloInv, BurstInv, Forma, DentroDelPrograma,
        EnLaInstruccion, Sigue, Actual
<1>1. CASE KernelDespacha
  BY <1>1 DEF KernelDespacha
<1>2. CASE KernelInterrumpe \/ Interrupcion
  BY <1>2 DEF KernelInterrumpe, Interrupcion
<1>3. CASE Empezar
  BY <1>3 DEF Empezar
<1>4. CASE fetch
  BY <1>4 DEF fetch
<1>5. ASSUME NEW leido \in BOOLEAN, faseOperands(leido) PROVE DentroDelPrograma'
  BY <1>5 DEF faseOperands
<1>6. CASE execute \/ Marcar \/ checkInterrupt
  <2>1. /\ pcb'.program_counter = pcb.program_counter
        /\ pcb'.instructions = pcb.instructions
        /\ etapa \in {"execute", "marcar", "check"}
        /\ etapa' \in {"marcar", "check", "fin", "fetch"}
    BY <1>6 DEF execute, Marcar, checkInterrupt
  <2> QED BY <2>1
<1>7. CASE Devolver
  BY <1>7 DEF Devolver
<1>8. CASE UNCHANGED varsCiclo
  BY <1>8 DEF varsCiclo
<1> QED BY <1>1, <1>2, <1>3, <1>4, <1>5, <1>6, <1>7, <1>8 DEF NextCiclo, Dispatch

\* Each step leaves every EXIT where the thread will fetch nothing more.
LEMMA ExitStep ==
    ASSUME CicloInv, [NextCiclo]_varsCiclo PROVE SinExitAtras'
<1> USE DEF CicloInv, BurstInv, Forma, SinExitAtras, NadaTrasExit, Sigue
<1>1. CASE KernelDespacha
  <2>1. \A i \in 1 .. pcb.program_counter : pcb.instructions[i] # "EXIT"
    <3>1. CASE etapa = "kernel"
      BY <3>1
    <3>2. CASE etapa = "devuelto" /\ pcb.cond \in {"IO_SYSCALL", "INTERRUPTED_BY_KERNEL"}
      <4>1. Actual # "EXIT"
        BY <3>2 DEF Decidido, DiceLaLlamada, Motivo
      <4> QED BY <3>2, <4>1, SigueSinExit DEF EnLaInstruccion
    <3> QED BY <1>1, <3>1, <3>2 DEF KernelDespacha
  <2> QED BY <1>1, <2>1 DEF KernelDespacha
<1>2. CASE KernelInterrumpe \/ Interrupcion
  BY <1>2 DEF KernelInterrumpe, Interrupcion
<1>3. CASE Empezar
  BY <1>3 DEF Empezar
<1>4. CASE fetch
  BY <1>4 DEF fetch
<1>5. ASSUME NEW leido \in BOOLEAN, faseOperands(leido) PROVE SinExitAtras'
  BY <1>5 DEF faseOperands
<1>6. CASE execute \/ Marcar
  <2>1. /\ pcb'.program_counter = pcb.program_counter
        /\ pcb'.instructions = pcb.instructions
        /\ etapa' \in {"marcar", "check"}
    BY <1>6 DEF execute, Marcar
  <2> QED BY <2>1
<1>7. CASE checkInterrupt
  <2>1. CASE etapa' = "fetch"
    <3>1. ~enviar_pcb_o_exit /\ etapa = "check"
      BY <1>7, <2>1 DEF checkInterrupt
    <3>2. Actual # "EXIT"
      BY <3>1 DEF Decidido
    <3>3. \A i \in 1 .. pcb.program_counter : pcb.instructions[i] # "EXIT"
      BY <3>1, <3>2, SigueSinExit DEF EnLaInstruccion
    <3> QED BY <1>7, <3>3 DEF checkInterrupt
  <2>2. CASE etapa' = "fin"
    BY <1>7, <2>2 DEF checkInterrupt
  <2> QED BY <1>7, <2>1, <2>2 DEF checkInterrupt
<1>8. CASE Devolver
  BY <1>8 DEF Devolver
<1>9. CASE UNCHANGED varsCiclo
  BY <1>9 DEF varsCiclo
<1> QED BY <1>1, <1>2, <1>3, <1>4, <1>5, <1>6, <1>7, <1>8, <1>9
        DEF NextCiclo, Dispatch

\* Each step keeps the count of signals, the latency of the flag and the reason.
LEMMA LatenciaStep ==
    ASSUME CicloInv, [NextCiclo]_varsCiclo
    PROVE  SenalesEnviadas' /\ Latencia' /\ Motivo'
<1> USE DEF CicloInv, BurstInv, Forma, SenalesEnviadas, Latencia, InterrumpeEnSeguida,
        Motivo, Sigue
<1>1. CASE KernelDespacha
  BY <1>1 DEF KernelDespacha
<1>2. CASE KernelInterrumpe
  BY <1>2, ProgramaAssumption DEF KernelInterrumpe
<1>3. CASE Interrupcion
  BY <1>3 DEF Interrupcion
<1>4. CASE Empezar
  BY <1>4 DEF Empezar
<1>5. CASE fetch
  BY <1>5 DEF fetch
<1>6. ASSUME NEW leido \in BOOLEAN, faseOperands(leido)
      PROVE  SenalesEnviadas' /\ Latencia' /\ Motivo'
  BY <1>6 DEF faseOperands, SinDecidir
<1>7. CASE execute
  BY <1>7 DEF execute
<1>8. CASE Marcar
  BY <1>8 DEF Marcar
<1>9. CASE checkInterrupt
  <2>1. Decidido /\ etapa = "check"
    BY <1>9 DEF checkInterrupt
  <2>2. SenalesEnviadas' /\ Latencia'
    BY <1>9 DEF checkInterrupt
  <2>3. Motivo'
    BY <1>9, <2>1 DEF checkInterrupt, Decidido, DiceLaLlamada, Condiciones
  <2> QED BY <2>2, <2>3
<1>10. CASE Devolver
  BY <1>10 DEF Devolver
<1>11. CASE UNCHANGED varsCiclo
  BY <1>11 DEF varsCiclo
<1> QED BY <1>1, <1>2, <1>3, <1>4, <1>5, <1>6, <1>7, <1>8, <1>9, <1>10, <1>11
        DEF NextCiclo, Dispatch

\* The whole invariant of the instruction cycle.
LEMMA CicloInvariante == SpecCiclo => []CicloInv
<1>1. InitCiclo => CicloInv
  <2> SUFFICES ASSUME InitCiclo PROVE CicloInv
    OBVIOUS
  <2>1. BurstInv
    BY BurstInit
  <2>2. Forma /\ pcb.program_counter = 0 /\ etapa = "kernel"
    BY <2>1 DEF BurstInv, InitCiclo
  <2>3. DentroDelPrograma
    BY <2>2, ProgramaConInstrucciones DEF DentroDelPrograma, EnLaInstruccion
  <2>4. SinExitAtras
    BY <2>2 DEF SinExitAtras, NadaTrasExit
  <2> QED BY <2>1, <2>3, <2>4, ProgramaAssumption
          DEF InitCiclo, CicloInv, SenalesEnviadas, Latencia, InterrumpeEnSeguida, Motivo
<1>2. CicloInv /\ [NextCiclo]_varsCiclo => CicloInv'
  BY BurstStep, DentroStep, ExitStep, LatenciaStep DEF CicloInv
<1> QED BY <1>1, <1>2, PTL DEF SpecCiclo

\* cicloInstruccion.c, fetch: for every program and any number of interrupts, nothing
\* is fetched after an EXIT, so that only a program without EXIT makes the CPU fall.
THEOREM NothingAfterExit == SpecCiclo => []NadaTrasExit
<1>1. CicloInv => NadaTrasExit
  BY DEF CicloInv, SinExitAtras
<1> QED BY <1>1, CicloInvariante, PTL

\* The types of the cycle, and that the program counter is past the last instruction
\* exactly in a CPU that followed the NULL of list_get, for every program.
THEOREM CounterPastTheEnd == SpecCiclo => []TypeOKCiclo
<1>1. CicloInv => TypeOKCiclo
  BY ProgramaAssumption DEF CicloInv, BurstInv, Forma, Pcs, DentroDelPrograma,
                            SenalesEnviadas, Latencia, TypeOKCiclo
<1> QED BY <1>1, CicloInvariante, PTL

\* checkInterrupt: once the interrupt thread set the flag in a burst, at most one
\* more instruction starts, for every program and any number of interrupts.
THEOREM InterruptTakesEffect == SpecCiclo => []InterrumpeEnSeguida
<1>1. CicloInv => InterrumpeEnSeguida
  BY DEF CicloInv, Latencia
<1> QED BY <1>1, CicloInvariante, PTL

\* The condition of every pcb that goes back (cpu.c, handle_dispatch) has a reason:
\* the answers the planner's model allows the CPU are all it gives.
THEOREM AnswersOfTheCpu == SpecCiclo => RespuestaDelPlanner
<1>1. CicloInv /\ [NextCiclo]_varsCiclo =>
        [etapa = "fin" =>
           \/ pcb.cond \in {"IO_SYSCALL", "EXIT_PROGRAM"}
           \/ pcb.cond = "INTERRUPTED_BY_KERNEL" /\ hay_interrupcion
           \/ pcb.cond = "NULL_CONDITION" /\ (error \/ hay_interrupcion)]_varsCiclo
  BY DEF CicloInv, Motivo
<1> QED BY <1>1, CicloInvariante, PTL DEF SpecCiclo, RespuestaDelPlanner
=============================================================================
