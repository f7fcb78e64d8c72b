----------------------------- MODULE PlannerStop -----------------------------
(***************************************************************************)
(* The planner of the kernel when the world around it ends: the CPU        *)
(* process may die at any moment, which breaks the dispatch and interrupt  *)
(* connections (kernel/src/icpu.c, stp_dispatch_error), and the kernel may *)
(* be told to stop (kernel_terminate, planner_stop).                       *)
(*                                                                         *)
(* What the operating system does with a message for a closed peer is a    *)
(* choice over what it can do: the first one is accepted, and answered     *)
(* with a reset; after a reset a send fails, or kills the kernel with      *)
(* SIGPIPE, which no process of this system handles.                       *)
(***************************************************************************)
EXTENDS Planner

VARIABLES
    halt,       \* kernel->halt
    terminate,  \* where the thread that called kernel_terminate stands
    link,       \* what each connection of kernel->cpu is
    alive       \* the kernel was not killed by SIGPIPE

outside == <<halt, terminate, link, alive>>

Links == {"dispatch", "interrupt"}

InitStop ==
    /\ Init
    /\ halt = FALSE
    /\ terminate = "no"
    /\ link = [c \in Links |-> "up"]
    /\ alive = TRUE

\* Where each controller, after its waits, looks at kernel->halt.
HaltCheck == [ltp_new |-> "take", ltp_exit |-> "pop", mtp_blocked |-> "pop",
              stp |-> "pop"]

Controllers == DOMAIN HaltCheck

LeavesLoop(t) == halt /\ At(t, HaltCheck[t])

\* The controller leaves its loop and its thread ends.
ControllerEnds(t) ==
    /\ LeavesLoop(t)
    /\ Release(t, "ended")
    /\ UNCHANGED <<pcb, queue, exec, sem, io_timer, suspend_timer, cpu, core,
                   console, outside>>

\* The threads go on as in Planner up to those points.
GoOn ==
    /\ \/ LtpNew /\ ~LeavesLoop("ltp_new")
       \/ LtpExit /\ ~LeavesLoop("ltp_exit")
       \/ MtpBlocked /\ ~LeavesLoop("mtp_blocked")
       \/ MtpTimer
       \/ \E t \in Movers : Mover(t) /\ (At(t, "send") => link["interrupt"] = "up")
       \/ Stp /\ ~LeavesLoop("stp") /\ (At("stp", "send") => link["dispatch"] = "up")
       \/ Cpu /\ link["dispatch"] = "up"
       \/ Dispatch /\ (At("dispatch", "listening") => ~halt)
    /\ UNCHANGED outside

(***************************************************************************)
(* The CPU process dies. The pcb it had is gone, unless its return was     *)
(* already on the way.                                                     *)
(***************************************************************************)
CpuDies ==
    /\ link["dispatch"] = "up"
    /\ link' = [c \in Links |-> "cut"]
    /\ \E arrives \in BOOLEAN :
          core' = [core EXCEPT !.pc = IF @ = "returned" /\ arrives THEN @ ELSE "idle",
                               !.signals = 0]
    /\ UNCHANGED <<pcb, queue, exec, sem, thread, io_timer, suspend_timer, cpu,
                   console, halt, terminate, alive>>

\* send() on connection c with the peer gone: accepted, refused, or SIGPIPE.
SendAccepted(c) == link[c] = "cut" /\ link' = [link EXCEPT ![c] = "reset"]

SendRefused(c) == link[c] # "up" /\ UNCHANGED link

SendKills ==
    /\ \/ At("stp", "send") /\ link["dispatch"] = "reset"
       \/ (\E t \in Movers : At(t, "send")) /\ link["interrupt"] = "reset"
    /\ alive' = FALSE
    /\ UNCHANGED <<vars, halt, terminate, link>>

\* cpu_dispatch_pcb: a refused pcb leaves the CPU not busy. Its caller does
\* not look at the result and listens for the answer all the same.
DispatchToNobody ==
    /\ At("stp", "send")
    /\ \/ SendAccepted("dispatch") /\ cpu' = [cpu EXCEPT !.busy = TRUE]
       \/ SendRefused("dispatch") /\ UNCHANGED cpu
    /\ thread' = [thread EXCEPT !["stp"] = [pc |-> "wait_plan", pcb |-> NULL],
                                !["dispatch"].pc = "listening"]
    /\ UNCHANGED <<pcb, queue, exec, sem, io_timer, suspend_timer, core, console,
                   halt, terminate, alive>>

\* cpu_interrupt: a refused signal leaves cpu->interrupted clear. Its caller goes
\* on without giving the token back.
InterruptNobody(t) ==
    /\ At(t, "send")
    /\ \/ SendAccepted("interrupt") /\ Goto(t, "flag")
       \/ SendRefused("interrupt") /\ Goto(t, "plan")
    /\ UNCHANGED <<pcb, queue, exec, sem, io_timer, suspend_timer, cpu, core,
                   console, halt, terminate, alive>>

\* The listener's recv() fails: neither a pcb nor a connection to bring one.
NothingArrives == link["dispatch"] # "up" /\ core.pc # "returned"

\* Slip: the error of the lost process is not recorded, nor the process ended.
DispatchErrorIgnored ==
    /\ At("dispatch", "listening")
    /\ ~halt /\ NothingArrives
    /\ exec' = NULL
    /\ sem' = [sem EXCEPT !["stp_dispatch"] = @ + 1]
    /\ Release("dispatch", "idle")
    /\ UNCHANGED <<pcb, queue, io_timer, suspend_timer, cpu, core, console, outside>>

\* stp_dispatch_error: the process in planner->exec ends as an error and the next
\* dispatch is allowed. Neither busy nor interrupted is touched.
stp_dispatch_error ==
    /\ At("dispatch", "listening")
    /\ ~halt /\ NothingArrives
    /\ exec' = NULL
    /\ pcb' = [pcb EXCEPT ![exec].status = "EXIT", ![exec].error = TRUE]
    /\ Push("exit", exec)
    /\ sem' = [sem EXCEPT
                  !["ltp_exit"] = @ + 1, !["stp_dispatch"] = @ + 1,
                  !["multiprogramming"] =
                      IF pcb[exec].status \in InMemory THEN @ + 1 ELSE @]
    /\ Release("dispatch", "idle")
    /\ UNCHANGED <<io_timer, suspend_timer, cpu, core, console, outside>>

\* The listener and incomming_dispatch look at kernel->halt before anything else;
\* between the two looks busy is cleared.
ListenerEnds ==
    /\ At("dispatch", "listening")
    /\ halt /\ (core.pc = "returned" \/ NothingArrives)
    /\ Release("dispatch", "idle")
    /\ \E b \in {cpu.busy, FALSE} : cpu' = [cpu EXCEPT !.busy = b]
    /\ UNCHANGED <<pcb, queue, exec, sem, io_timer, suspend_timer, core, console,
                   outside>>

(***************************************************************************)
(* kernel_terminate, in a thread of its own.                               *)
(***************************************************************************)
TerminateStep(from, to) ==
    /\ terminate = from
    /\ terminate' = to
    /\ UNCHANGED <<pcb, queue, exec, thread, io_timer, suspend_timer, cpu, core,
                   console, alive>>

\* Slip: the semaphores are posted before the halt is set.
TerminateLate ==
    /\ TerminateStep("no", "planner")
    /\ UNCHANGED <<sem, halt, link>>

\* halt is set, and the server of consoles stopped: the consoles connected by
\* then may still submit their processes.
kernel_terminate ==
    /\ TerminateStep("no", "planner")
    /\ halt' = TRUE
    /\ UNCHANGED <<sem, link>>

\* Slip: the controllers that wait for a second semaphore are forgotten.
StopPostsFirstWaits ==
    /\ TerminateStep("planner", "modules")
    /\ sem' = [s \in Semaphores |->
                 IF s \in {"ltp_plan", "ltp_exit", "mtp_planner", "stp_plan"}
                 THEN sem[s] + 1 ELSE sem[s]]
    /\ UNCHANGED <<halt, link>>

\* Every semaphore of the planner is posted once, but stp_sem_interrupt. It also
\* unlocks mtp_mutex_blocking_process, which a timer callback may hold: the callbacks
\* still take turns in the model, and no property here is about them after halt.
planner_stop ==
    /\ TerminateStep("planner", "modules")
    /\ sem' = [s \in Semaphores |->
                 IF s = "stp_interrupt" THEN sem[s] ELSE sem[s] + 1]
    /\ UNCHANGED <<halt, link>>

\* cpu_module_stop (and memory_module_stop).
cpu_module_stop ==
    /\ TerminateStep("modules", "done")
    /\ link' = [c \in Links |-> "closed"]
    /\ UNCHANGED <<sem, halt>>

Work ==
    /\ alive
    /\ \/ GoOn
       \/ \E t \in Controllers : ControllerEnds(t)
       \/ \E t \in Movers : InterruptNobody(t)
       \/ DispatchToNobody \/ SendKills \/ stp_dispatch_error \/ ListenerEnds
       \/ planner_stop \/ cpu_module_stop

\* Bound: the kernel is told to stop before the first I/O, or with one process alone,
\* and only one of the two happens: the CPU dies or the kernel stops.
StopBound ==
    /\ link["dispatch"] = "up"
    /\ \/ \A p \in Pcbs : pcb[p].blocks = 0
       \/ Cardinality({p \in Pcbs : pcb[p].status # "NONE"}) <= 1

\* Bound: the CPU dies before every process had its first I/O.
NextStop ==
    \/ Work
    \/ alive /\ ~halt /\ (\E p \in Pcbs : pcb[p].blocks = 0) /\ CpuDies
    \/ alive /\ StopBound /\ kernel_terminate
    \/ alive /\ (\E p \in Pcbs : ltp_new_process(p)) /\ UNCHANGED outside

SpecStop == InitStop /\ [][NextStop]_<<vars, outside>>

-----------------------------------------------------------------------------
(***************************************************************************)
(* Properties.                                                             *)
(***************************************************************************)
\* mtp_blocked_controller and the short-term controller pop their queue without
\* looking whether it is empty: neither the posts of planner_stop nor a lost CPU
\* makes them take a null pcb (planner.c:617, 785, 871).
NeverPopsEmpty ==
    /\ At("mtp_blocked", "pop") /\ ~halt => queue["blocked"] # <<>>
    /\ At("stp", "pop") /\ ~halt => queue["ready"] # <<>>

\* A thread inside move_pcb_to_ready__srt waits for an interrupt to be
\* acknowledged by a CPU that is gone, or by a listener that has ended.
WaitsForNobody ==
    /\ \E t \in Movers : At(t, "wait_interrupt")
    /\ halt \/ link["interrupt"] # "up"

\* The end of the CPU leaves no process inside: the one it was running ends with
\* an error and the others are tried, unless a send kills the kernel or a thread
\* waits for an acknowledgement that nobody will give (planner.c:920-937).
StrandedOnlyByLostLink ==
    \/ ~alive \/ halt \/ WaitsForNobody
    \/ \A p \in Pcbs : pcb[p].status \in {"NONE", "DESTROYED"}
    \/ ENABLED Work

\* planner_stop wakes every controller, wherever it waits, and each one ends
\* ("envio la señal a cada semaforo y dejo que evalue el kernel->halt",
\* planner.c:202), except behind a thread that waits for nobody.
StopEndsControllers ==
    terminate = "done" =>
        \/ ~alive \/ WaitsForNobody
        \/ \A t \in Controllers : At(t, "ended")
        \/ ENABLED Work

=============================================================================
