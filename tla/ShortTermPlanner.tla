-------------------------- MODULE ShortTermPlanner --------------------------
(***************************************************************************)
(* The short-term planner (kernel/src/planner.c) with the kernel's side of *)
(* the CPU connection (kernel/src/icpu.c): the two versions of             *)
(* move_pcb_to_ready, which run in the thread that calls them; the         *)
(* controller that dispatches the first READY process; and the listener    *)
(* thread that takes the pcb the CPU returns.                              *)
(*                                                                         *)
(* The CPU process at the other end (cpu/src/cpu.c, handle_dispatch and    *)
(* handle_interrupt) is here what the kernel can observe of it: it runs    *)
(* the pcb it receives and returns it with a condition. Module             *)
(* CicloInstruccion opens it up.                                           *)
(***************************************************************************)
EXTENDS PlannerState, ReadyQueue

(***************************************************************************)
(* planner->move_pcb_to_ready, called by thread t with the pcb in hand.    *)
(***************************************************************************)
Hand(t) == thread[t].pcb

Return(t) == IF t = "dispatch" THEN Goto(t, ReturnPc(t))
                               ELSE Release(t, ReturnPc(t))

move_pcb_to_ready__fifo(t) ==
    /\ Algoritmo = "FIFO"
    /\ At(t, "to_ready")
    /\ pcb' = [pcb EXCEPT ![Hand(t)].status = "READY"]
    /\ Push("ready", Hand(t))
    /\ sem' = [sem EXCEPT !["stp_plan"] = @ + 1]
    /\ Return(t)
    /\ UNCHANGED <<exec, io_timer, suspend_timer, cpu, core, console>>

\* move_pcb_to_ready__srt, from its insertion to its sem_post. The pcb is in
\* the queue, and can be dispatched, before its status is written.
SrtInsert(t) ==
    /\ Algoritmo = "SRT"
    /\ At(t, "to_ready")
    /\ queue' = [queue EXCEPT !["ready"] = InsertReady(@, Hand(t), pcb)]
    /\ Goto(t, "status")
    /\ UNCHANGED <<pcb, exec, sem, io_timer, suspend_timer, cpu, core, console>>

SrtStatus(t) ==
    LET p == Hand(t)
    IN  /\ At(t, "status")
        /\ pcb' = IF Alive(p)
                  THEN [pcb EXCEPT ![p].prev_status = pcb[p].status,
                                   ![p].status = "READY"]
                  ELSE pcb
        /\ Goto(t, "check_busy")
        /\ UNCHANGED <<queue, exec, sem, io_timer, suspend_timer, cpu, core, console>>

SrtCheckBusy(t) ==
    /\ At(t, "check_busy")
    /\ Goto(t, IF pcb[Hand(t)].status # "EXEC" /\ cpu.busy
               THEN "wait_interrupt" ELSE "plan")
    /\ UNCHANGED <<pcb, queue, exec, sem, io_timer, suspend_timer, cpu, core,
                   console>>

SrtWaitInterrupt(t) == SemWait(t, "wait_interrupt", "stp_interrupt", "send")

\* cpu_interrupt: the signal goes out before the flag is set.
SrtSendInterrupt(t) ==
    /\ At(t, "send")
    /\ core' = [core EXCEPT !.signals = @ + 1]
    /\ Goto(t, "flag")
    /\ UNCHANGED <<pcb, queue, exec, sem, io_timer, suspend_timer, cpu, console>>

\* Slip: the flag that gives the token back is not set.
InterruptUnflagged(t) ==
    /\ At(t, "flag")
    /\ Goto(t, "plan")
    /\ UNCHANGED <<pcb, queue, exec, sem, io_timer, suspend_timer, cpu, core,
                   console>>

SrtFlagInterrupted(t) ==
    /\ At(t, "flag")
    /\ cpu' = [cpu EXCEPT !.interrupted = TRUE]
    /\ Goto(t, "plan")
    /\ UNCHANGED <<pcb, queue, exec, sem, io_timer, suspend_timer, core, console>>

SrtPlan(t) ==
    /\ At(t, "plan")
    /\ sem' = [sem EXCEPT !["stp_plan"] = @ + 1]
    /\ Return(t)
    /\ UNCHANGED <<pcb, queue, exec, io_timer, suspend_timer, cpu, core, console>>

Mover(t) == \/ move_pcb_to_ready__fifo(t)
            \/ SrtInsert(t) \/ SrtStatus(t) \/ SrtCheckBusy(t)
            \/ SrtWaitInterrupt(t) \/ SrtSendInterrupt(t)
            \/ SrtFlagInterrupted(t) \/ SrtPlan(t)

(***************************************************************************)
(* stp_fifo_controller and stp_srt_controller, which are the same loop.    *)
(***************************************************************************)
StpWaitPlan     == SemWait("stp", "wait_plan", "stp_plan", "wait_dispatch")
\* Slip: the wait for the last dispatch commented out ("estaba comentado esto").
DispatchWithoutWait ==
    /\ At("stp", "wait_dispatch")
    /\ Goto("stp", "pop")
    /\ UNCHANGED <<pcb, queue, exec, sem, io_timer, suspend_timer, cpu, core,
                   console>>

StpWaitDispatch == SemWait("stp", "wait_dispatch", "stp_dispatch", "pop")

\* squeue_pop and move_pcb_to_exec.
StpPop ==
    LET p == Head(queue["ready"])
    IN  /\ At("stp", "pop")
        /\ queue["ready"] # <<>>
        /\ queue' = [queue EXCEPT !["ready"] = Tail(@)]
        /\ pcb' = [pcb EXCEPT ![p].status = "EXEC"]
        /\ exec' = p
        /\ GotoWith("stp", "send", p)
        /\ UNCHANGED <<sem, io_timer, suspend_timer, cpu, core, console>>

\* cpu_dispatch_pcb sends the pcb, then marks the CPU busy, and
\* cpu_listen_dispatch_async starts the listener.
cpu_dispatch_pcb ==
    /\ At("stp", "send")
    /\ core' = [core EXCEPT !.pc = "dispatched", !.cond = pcb[Hand("stp")].cond]
    /\ Goto("stp", "busy")
    /\ UNCHANGED <<pcb, queue, exec, sem, io_timer, suspend_timer, cpu, console>>

cpu_listen_dispatch_async ==
    /\ At("stp", "busy")
    /\ cpu' = [cpu EXCEPT !.busy = TRUE]
    /\ thread' = [thread EXCEPT !["stp"] = [pc |-> "wait_plan", pcb |-> NULL],
                                !["dispatch"].pc = "listening"]
    /\ UNCHANGED <<pcb, queue, exec, sem, io_timer, suspend_timer, core, console>>

Stp == \/ StpWaitPlan \/ StpWaitDispatch \/ StpPop
       \/ cpu_dispatch_pcb \/ cpu_listen_dispatch_async

(***************************************************************************)
(* The CPU process.                                                        *)
(***************************************************************************)
\* handle_dispatch: an interrupt that arrived before this pcb is forgotten.
CpuReceive ==
    /\ core.pc = "dispatched"
    /\ core' = [core EXCEPT !.pc = "running", !.hay_interrupcion = FALSE]
    /\ UNCHANGED <<pcb, queue, exec, sem, thread, io_timer, suspend_timer, cpu,
                   console>>

\* handle_interrupt, in a thread of its own.
CpuInterrupt ==
    /\ core.signals > 0
    /\ core' = [core EXCEPT !.signals = @ - 1, !.hay_interrupcion = TRUE]
    /\ UNCHANGED <<pcb, queue, exec, sem, thread, io_timer, suspend_timer, cpu,
                   console>>

\* ejecutar_pcb ended and the pcb is on its way back. The condition is the
\* one it arrived with when the operand of a COPY could not be read, or when
\* the interrupt was seen by checkInterrupt and not yet by execute.
CpuReturn(cond, burst) ==
    /\ core.pc = "running"
    /\ \/ cond \in {"EXIT_PROGRAM", core.cond}
       \/ cond = "IO_SYSCALL" /\ pcb[exec].blocks < MaxIO
       \/ cond = "INTERRUPTED_BY_KERNEL" /\ core.hay_interrupcion
    /\ core' = [core EXCEPT
                   !.pc = "returned", !.cond = cond, !.burst = burst,
                   !.hay_interrupcion = FALSE,
                   !.completed = IF cond = "EXIT_PROGRAM" THEN @ \cup {exec} ELSE @]
    /\ UNCHANGED <<pcb, queue, exec, sem, thread, io_timer, suspend_timer, cpu,
                   console>>

Cpu == \/ CpuReceive \/ CpuInterrupt
       \/ \E cond \in Condition, burst \in Bursts : CpuReturn(cond, burst)

(***************************************************************************)
(* The listener thread: cpu_recieve_pcb_async and the incomming_dispatch   *)
(* of the algorithm.                                                       *)
(***************************************************************************)
\* The mean of the last estimate and the last burst, truncated to an int.
NextEstimatedBurst(estimate, executed) ==
    (estimate * AlfaNum + executed * (AlfaDen - AlfaNum)) \div AlfaDen

\* Slip: planner->exec is cleared before it is read.
ReceiveClearsExecFirst ==
    /\ At("dispatch", "listening")
    /\ core.pc = "returned"
    /\ core' = [core EXCEPT !.pc = "idle"]
    /\ cpu' = [cpu EXCEPT !.busy = FALSE]
    /\ GotoWith("dispatch", "switch", NULL)
    /\ exec' = NULL
    /\ UNCHANGED <<pcb, queue, sem, io_timer, suspend_timer, console>>

cpu_recieve_pcb_async ==
    /\ At("dispatch", "listening")
    /\ core.pc = "returned"
    /\ core' = [core EXCEPT !.pc = "idle"]
    /\ cpu' = [cpu EXCEPT !.busy = FALSE]
    /\ pcb' = [pcb EXCEPT
                  ![exec].cond = core.cond,
                  ![exec].burst = IF Algoritmo = "SRT"
                                  THEN NextEstimatedBurst(@, core.burst) ELSE @]
    /\ GotoWith("dispatch", "switch", exec)
    /\ exec' = NULL
    /\ UNCHANGED <<queue, sem, io_timer, suspend_timer, console>>

Returned(cond) ==
    /\ At("dispatch", "switch")
    /\ pcb[Hand("dispatch")].cond = cond

DispatchExit ==
    /\ Returned("EXIT_PROGRAM")
    /\ move_pcb_to_exit(Hand("dispatch"), FALSE)
    /\ Goto("dispatch", "finish")
    /\ UNCHANGED <<exec, io_timer, suspend_timer, cpu, core, console>>

DispatchIo ==
    /\ Returned("IO_SYSCALL")
    /\ move_pcb_to_blocked(Hand("dispatch"))
    /\ Goto("dispatch", "finish")
    /\ UNCHANGED <<exec, io_timer, cpu, core, console>>

DispatchInterrupted ==
    /\ Algoritmo = "SRT"
    /\ Returned("INTERRUPTED_BY_KERNEL")
    /\ Goto("dispatch", "to_ready")
    /\ UNCHANGED <<pcb, queue, exec, sem, io_timer, suspend_timer, cpu, core,
                   console>>

\* Slip: the error is not recorded.
DispatchErrorForgotten ==
    /\ \/ Returned("NULL_CONDITION")
       \/ Algoritmo = "FIFO" /\ Returned("INTERRUPTED_BY_KERNEL")
    /\ move_pcb_to_exit(Hand("dispatch"), FALSE)
    /\ Goto("dispatch", "finish")
    /\ UNCHANGED <<exec, io_timer, suspend_timer, cpu, core, console>>

\* "recibido por dispatch con condicion de desalojo incorrecta".
DispatchError ==
    /\ \/ Returned("NULL_CONDITION")
       \/ Algoritmo = "FIFO" /\ Returned("INTERRUPTED_BY_KERNEL")
    /\ move_pcb_to_exit(Hand("dispatch"), TRUE)
    /\ Goto("dispatch", "finish")
    /\ UNCHANGED <<exec, io_timer, suspend_timer, cpu, core, console>>

\* Slip: the token is given back and the flag left set.
FinishKeepsInterrupted ==
    LET p == Hand("dispatch")
    IN  /\ At("dispatch", "finish")
        /\ pcb' = IF Alive(p) THEN [pcb EXCEPT ![p].cond = "NULL_CONDITION"]
                              ELSE pcb
        /\ sem' = [sem EXCEPT
                      !["stp_interrupt"] = IF cpu.interrupted THEN @ + 1 ELSE @,
                      !["stp_dispatch"] = @ + 1]
        /\ Release("dispatch", "idle")
        /\ UNCHANGED <<queue, exec, io_timer, suspend_timer, cpu, core, console>>

\* The pcb's condition is reset even though the pcb may be destroyed by now;
\* an interrupt in progress is acknowledged and the next dispatch allowed.
DispatchFinish ==
    LET p == Hand("dispatch")
    IN  /\ At("dispatch", "finish")
        /\ pcb' = IF Alive(p) THEN [pcb EXCEPT ![p].cond = "NULL_CONDITION"]
                              ELSE pcb
        /\ cpu' = [cpu EXCEPT !.interrupted = FALSE]
        /\ sem' = [sem EXCEPT
                      !["stp_interrupt"] = IF cpu.interrupted THEN @ + 1 ELSE @,
                      !["stp_dispatch"] = @ + 1]
        /\ Release("dispatch", "idle")
        /\ UNCHANGED <<queue, exec, io_timer, suspend_timer, core, console>>

Dispatch == \/ cpu_recieve_pcb_async
            \/ DispatchExit \/ DispatchIo \/ DispatchInterrupted \/ DispatchError
            \/ DispatchFinish

=============================================================================
