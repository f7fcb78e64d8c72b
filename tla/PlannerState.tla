---------------------------- MODULE PlannerState ----------------------------
(***************************************************************************)
(* The state the three planners of the kernel share (t_planner and t_pcb,  *)
(* kernel/include/kernel_global.h and shared/include/kiss.structs.h), and  *)
(* the moves of a pcb between queues that kernel/src/planner.c is built    *)
(* from.                                                                   *)
(*                                                                         *)
(* A semaphore is a counter, a queue a sequence of pcbs; every operation   *)
(* of a queue is atomic because squeue.c takes the queue's mutex. A thread *)
(* is its program counter and the pcb it has in hand.                      *)
(***************************************************************************)
EXTENDS Naturals, Sequences, FiniteSets

CONSTANTS
    Pcbs,                     \* the processes the consoles submit
    NULL,                     \* the null pointer
    Algoritmo,                \* ALGORITMO_PLANIFICACION: "FIFO" or "SRT"
    GradoMultiprogramacion,   \* GRADO_MULTIPROGRAMACION
    EstimacionInicial,        \* ESTIMACION_INICIAL
    AlfaNum, AlfaDen,         \* ALFA = AlfaNum / AlfaDen
    Bursts,                   \* the bursts a stay on the CPU may take
    MaxIO,                    \* bound: I/O instructions of one program
    SwapMayFail,              \* swapp_process may return EXIT_FAILURE
    TimerMayFail              \* timer_start may return EXIT_FAILURE

ASSUME PlannerAssumption ==
    /\ IsFiniteSet(Pcbs)
    /\ NULL \notin Pcbs
    /\ Algoritmo \in {"FIFO", "SRT"}
    /\ GradoMultiprogramacion \in Nat
    /\ EstimacionInicial \in Nat
    /\ AlfaDen \in Nat \ {0} /\ AlfaNum \in 0 .. AlfaDen
    /\ Bursts \subseteq Nat
    /\ MaxIO \in Nat
    /\ SwapMayFail \in BOOLEAN /\ TimerMayFail \in BOOLEAN

VARIABLES
    pcb,            \* the fields of each t_pcb
    queue,          \* new, ready, blocked, suspended_ready, exit
    exec,           \* planner->exec
    sem,            \* the counting semaphores of t_planner
    thread,         \* program counter and pcb in hand of each thread
    io_timer,       \* the pcbs whose I/O timer is running
    suspend_timer,  \* the suspension timer of each blocked period of a pcb
    cpu,            \* kernel->cpu: busy, interrupted
    core,           \* the CPU process at the other end of the sockets
    console         \* what each console was told

vars == <<pcb, queue, exec, sem, thread, io_timer, suspend_timer, cpu, core,
          console>>

\* NONE: not submitted yet; DESTROYED: after pcb_destroy.
Status == {"NONE", "NEW", "READY", "EXEC", "BLOCKED", "SUSPENDED_BLOCKED",
           "SUSPENDED_READY", "EXIT", "DESTROYED"}

Condition == {"NULL_CONDITION", "EXIT_PROGRAM", "IO_SYSCALL",
              "INTERRUPTED_BY_KERNEL"}

Queues == {"new", "ready", "blocked", "suspended_ready", "exit"}

Semaphores == {"ltp_plan", "ltp_exit", "multiprogramming", "mtp_planner",
               "mtp_io", "stp_plan", "stp_interrupt", "stp_dispatch"}

\* "timer" is the timer thread, if any, that holds mtp_mutex_blocking_process.
Threads == {"ltp_new", "ltp_exit", "mtp_blocked", "stp", "dispatch", "timer"}

\* The threads that call planner->move_pcb_to_ready, and where the code
\* before the call and the code after it stand.
Movers == {"ltp_new", "timer", "dispatch"}

ReturnPc(t) == IF t = "ltp_new" THEN "wait_plan"
               ELSE IF t = "timer" THEN "idle" ELSE "finish"

\* The states ltp_sem_multiprogramming_level counts.
InMemory == {"EXEC", "READY", "BLOCKED"}

TimerState == {"none", "sleeping", "fired", "done"}

At(t, pc) == thread[t].pc = pc

Goto(t, pc) == thread' = [thread EXCEPT ![t].pc = pc]

GotoWith(t, pc, p) == thread' = [thread EXCEPT ![t] = [pc |-> pc, pcb |-> p]]

\* The thread is done with its pcb.
Release(t, pc) == GotoWith(t, pc, NULL)

\* sem_wait: the thread passes only when the counter is positive.
SemWait(t, from, s, to) ==
    /\ At(t, from)
    /\ sem[s] > 0
    /\ sem' = [sem EXCEPT ![s] = @ - 1]
    /\ Goto(t, to)
    /\ UNCHANGED <<pcb, queue, exec, io_timer, suspend_timer, cpu, core, console>>

\* A write to a pcb that was already destroyed lands in freed memory, which
\* is not part of the state.
Alive(p) == pcb[p].status # "DESTROYED"

(***************************************************************************)
(* The moves. Each sets pcb, queue and sem.                                *)
(***************************************************************************)
Push(q, p) == queue' = [queue EXCEPT ![q] = Append(@, p)]

move_pcb_to_new(p) ==
    /\ pcb' = [pcb EXCEPT ![p].status = "NEW", ![p].burst = EstimacionInicial]
    /\ Push("new", p)
    /\ sem' = [sem EXCEPT !["ltp_plan"] = @ + 1]

\* Slip: every exit gives a level back, also that of a process out of memory.
ExitAlwaysGivesLevel(p, err) ==
    /\ pcb' = [pcb EXCEPT ![p].status = "EXIT", ![p].error = @ \/ err]
    /\ Push("exit", p)
    /\ sem' = [sem EXCEPT !["ltp_exit"] = @ + 1, !["multiprogramming"] = @ + 1]

move_pcb_to_exit(p, err) ==
    /\ pcb' = [pcb EXCEPT ![p].status = "EXIT", ![p].error = @ \/ err]
    /\ Push("exit", p)
    /\ sem' = [sem EXCEPT
                  !["ltp_exit"] = @ + 1,
                  !["multiprogramming"] =
                      IF pcb[p].status \in InMemory THEN @ + 1 ELSE @]

move_pcb_to_suspended_blocked(p) ==
    /\ pcb' = IF Alive(p) THEN [pcb EXCEPT ![p].status = "SUSPENDED_BLOCKED"]
              ELSE pcb
    /\ sem' = [sem EXCEPT !["multiprogramming"] = @ + 1]
    /\ UNCHANGED queue

\* Slip: nobody tells the long-term planner.
SuspendedReadyUnannounced(p) ==
    /\ pcb' = [pcb EXCEPT ![p].status = "SUSPENDED_READY"]
    /\ Push("suspended_ready", p)
    /\ UNCHANGED sem

move_pcb_to_suspended_ready(p) ==
    /\ pcb' = [pcb EXCEPT ![p].status = "SUSPENDED_READY"]
    /\ Push("suspended_ready", p)
    /\ sem' = [sem EXCEPT !["ltp_plan"] = @ + 1]

\* With mtp_plan_pcb: the suspension timer of this blocked period is started
\* (unless timer_start fails) before the medium-term planner is posted.
move_pcb_to_blocked(p) ==
    LET k == pcb[p].blocks + 1
    IN  /\ Push("blocked", p)
        /\ sem' = [sem EXCEPT !["mtp_planner"] = @ + 1]
        /\ \E started \in {TRUE, ~TimerMayFail} :
              /\ pcb' = [pcb EXCEPT ![p].status = "BLOCKED",
                                    ![p].blocks = k,
                                    ![p].timer = IF started THEN k ELSE 0]
              /\ suspend_timer' = IF started
                                  THEN [suspend_timer EXCEPT ![p][k] = "sleeping"]
                                  ELSE suspend_timer

InitState ==
    /\ pcb = [p \in Pcbs |->
                [status |-> "NONE", prev_status |-> "NONE", burst |-> 0,
                 cond |-> "NULL_CONDITION", error |-> FALSE,
                 blocks |-> 0, timer |-> 0]]
    /\ queue = [q \in Queues |-> <<>>]
    /\ exec = NULL
    /\ sem = [s \in Semaphores |->
                IF s = "multiprogramming" THEN GradoMultiprogramacion
                ELSE IF s \in {"mtp_io", "stp_interrupt", "stp_dispatch"} THEN 1
                ELSE 0]
    /\ thread = [t \in Threads |->
                   [pc |-> IF t \in {"ltp_new", "stp"} THEN "wait_plan"
                           ELSE IF t = "ltp_exit" THEN "wait"
                           ELSE IF t = "mtp_blocked" THEN "wait_planner"
                           ELSE "idle",
                    pcb |-> NULL]]
    /\ io_timer = {}
    /\ suspend_timer = [p \in Pcbs |-> [k \in 1 .. MaxIO |-> "none"]]
    /\ cpu = [busy |-> FALSE, interrupted |-> FALSE]
    /\ core = [pc |-> "idle", cond |-> "NULL_CONDITION", burst |-> 0,
               hay_interrupcion |-> FALSE, signals |-> 0, completed |-> {}]
    /\ console = [p \in Pcbs |-> "none"]

=============================================================================
