------------------------------- MODULE Planner -------------------------------
(***************************************************************************)
(* The planner of the kernel: the long-, medium- and short-term planners   *)
(* running together over the state they share, with the CPU process at the *)
(* other end of the dispatch and interrupt connections.                    *)
(***************************************************************************)
EXTENDS LongTermPlanner, MediumTermPlanner, ShortTermPlanner

Init == InitState

\* The steps of the kernel's own threads and of the CPU.
System ==
    \/ LtpNew
    \/ LtpExit
    \/ MtpBlocked
    \/ MtpTimer
    \/ \E t \in Movers : Mover(t)
    \/ Stp
    \/ Cpu
    \/ Dispatch

Next == (\E p \in Pcbs : ltp_new_process(p)) \/ System

\* Every thread of the kernel and the CPU keep running; a console need not
\* submit its process. The executions of the model are finite (a program has
\* at most MaxIO I/O instructions), so weak fairness of the threads together
\* says that they only stop when none of them can move.
Fairness == WF_vars(System)

Spec == Init /\ [][Next]_vars

FairSpec == Spec /\ Fairness

-----------------------------------------------------------------------------
(***************************************************************************)
(* Properties.                                                             *)
(***************************************************************************)
\* Where a thread stands inside planner->move_pcb_to_ready.
MoverPc == {"to_ready", "status", "check_busy", "wait_interrupt", "send", "flag",
            "plan"}

\* The program counters of the code of each thread, and those at which it has
\* a pcb in hand.
PcsOf(t) ==
    IF t = "ltp_new" THEN MoverPc \cup {"wait_plan", "wait_level", "take",
                                        "page_table", "discard"}
    ELSE IF t = "ltp_exit" THEN {"wait", "pop", "finish"}
    ELSE IF t = "mtp_blocked" THEN {"wait_planner", "wait_io", "pop", "fail",
                                    "release_io"}
    ELSE IF t = "stp" THEN {"wait_plan", "wait_dispatch", "pop", "send", "busy"}
    ELSE IF t = "dispatch" THEN MoverPc \cup {"idle", "listening", "switch", "finish"}
    ELSE MoverPc \cup {"idle", "unblock", "suspend", "swap"}

HoldingPcs == MoverPc \cup {"page_table", "discard", "finish", "fail", "release_io",
                            "busy", "switch", "unblock", "suspend", "swap"}

Pcs == HoldingPcs \cup {"wait_plan", "wait_level", "take", "wait", "pop",
                        "wait_planner", "wait_io", "wait_dispatch", "idle",
                        "listening"}

PcbFields == [status : Status, prev_status : Status, burst : Nat,
              cond : Condition, error : BOOLEAN, blocks : Nat, timer : Nat]

ThreadsTyped ==
    /\ thread \in [Threads -> [pc : Pcs, pcb : Pcbs \cup {NULL}]]
    /\ \A t \in Threads :
          /\ thread[t].pc \in PcsOf(t)
          /\ thread[t].pc \in HoldingPcs => thread[t].pcb # NULL

CoreFields == [pc : {"idle", "dispatched", "running", "returned"},
               cond : Condition, burst : Nat, hay_interrupcion : BOOLEAN,
               signals : Nat, completed : SUBSET Pcbs]

\* Every field and every counter has the type of its C declaration, no counter of
\* a semaphore is negative, every thread is at a program counter of its own code,
\* and a thread that took a pcb out of a place has one in hand.
TypeOK ==
    /\ pcb \in [Pcbs -> PcbFields]
    /\ queue \in [Queues -> Seq(Pcbs)]
    /\ exec \in Pcbs \cup {NULL}
    /\ sem \in [Semaphores -> Nat]
    /\ ThreadsTyped
    /\ io_timer \subseteq Pcbs
    /\ suspend_timer \in [Pcbs -> [1 .. MaxIO -> TimerState]]
    /\ cpu \in [busy : BOOLEAN, interrupted : BOOLEAN]
    /\ core \in CoreFields
    /\ console \in [Pcbs -> {"none", "SUCCESS", "FAILURE"}]

Num(b) == IF b THEN 1 ELSE 0

AnyAt(t, pcs) == thread[t].pc \in pcs

\* The processes that occupy a level of the multiprogramming degree, and the
\* level the controller of new processes holds for the one in its hand.
Resident == {p \in Pcbs : pcb[p].status \in InMemory}

HeldLevel == Num(AnyAt("ltp_new", {"take", "page_table", "to_ready", "status",
                                   "discard"}))

\* ltp_sem_multiprogramming_level and the processes in EXEC, READY or BLOCKED
\* always add up to GRADO_MULTIPROGRAMACION (kernel_global.h:110): no level is
\* lost or given back twice whatever the order of timers, admissions and exits.
DegreeConservation ==
    sem["multiprogramming"] + Cardinality(Resident) + HeldLevel
        = GradoMultiprogramacion

\* The semaphore of the degree, with the level in the controller's hand, is never
\* above the configured degree: what the comment at kernel_global.h:110 asks of it
\* even before counting the processes.
DegreeBound == sem["multiprogramming"] + HeldLevel <= GradoMultiprogramacion

\* The threads between squeue_insert_in_order and the sem_post that announces it.
Announcing == {t \in Movers : AnyAt(t, MoverPc \ {"to_ready"})}

NewCounted ==
    Len(queue["new"]) + Len(queue["suspended_ready"])
        = sem["ltp_plan"] + Num(AnyAt("ltp_new", {"wait_level", "take"}))

ExitCounted ==
    Len(queue["exit"]) = sem["ltp_exit"] + Num(At("ltp_exit", "pop"))

BlockedCounted ==
    Len(queue["blocked"])
        = sem["mtp_planner"] + Num(AnyAt("mtp_blocked", {"wait_io", "pop"}))

ReadyCounted ==
    Len(queue["ready"])
        = sem["stp_plan"] + Num(AnyAt("stp", {"wait_dispatch", "pop"}))
          + Cardinality(Announcing)

\* Each counting semaphore and the wait its controller already made add up to
\* the length of the queue it counts: no controller pops an empty queue and no
\* process waits in a queue that nobody was told of.
SemaphoresCountQueues ==
    NewCounted /\ ExitCounted /\ BlockedCounted /\ ReadyCounted

\* mtp_sem_io serialises the I/O device (kernel_global.h:115): the device is
\* free, reserved by the controller, or used by exactly one process.
IoDeviceExclusive ==
    sem["mtp_io"] + Cardinality(io_timer)
        + Num(AnyAt("mtp_blocked", {"pop", "fail", "release_io"})) = 1

\* stp_sem_dispatch pairs each dispatch with its return (kernel_global.h:123):
\* one pcb at a time is between the pop of READY and the end of
\* incomming_dispatch, and planner->exec names it while the CPU has it.
CpuExclusive ==
    /\ sem["stp_dispatch"] + Num(AnyAt("stp", {"pop", "send", "busy"}))
         + Num(~At("dispatch", "idle")) = 1
    /\ exec # NULL <=> \/ AnyAt("stp", {"send", "busy"})
                       \/ At("dispatch", "listening")

\* stp_sem_interrupt is a token: it is in the semaphore, with the one thread
\* that is interrupting the CPU, or in cpu->interrupted until the next return.
InterruptToken ==
    sem["stp_interrupt"] + Num(cpu.interrupted)
        + Cardinality({t \in Movers : AnyAt(t, {"send", "flag"})}) = 1

Occurrences(p, q) == Cardinality({i \in 1 .. Len(q) : q[i] = p})

\* Thread t took its pcb out of one place and has not put it in the next.
HasInHand(t) ==
    \/ AnyAt(t, {"page_table", "to_ready", "switch", "unblock", "fail"})
    \/ t = "ltp_exit" /\ At(t, "finish")

\* The places that own process p: a queue, the CPU, the I/O device, a thread.
Owners(p) ==
    Occurrences(p, queue["new"]) + Occurrences(p, queue["ready"])
    + Occurrences(p, queue["blocked"]) + Occurrences(p, queue["suspended_ready"])
    + Occurrences(p, queue["exit"]) + Num(exec = p) + Num(p \in io_timer)
    + Cardinality({t \in Threads : thread[t].pcb = p /\ HasInHand(t)})

\* From its submission to its destruction a process has exactly one owner: it is
\* never queued twice, lost between two queues, or kept after pcb_destroy.
OneOwner ==
    \A p \in Pcbs :
        Owners(p) = Num(pcb[p].status \notin {"NONE", "DESTROYED"})

\* A console hears SUCCESS only if its program executed EXIT, and FAILURE only if
\* it did not, however many times it was blocked, suspended and interrupted.
AnswerIsTrue ==
    \A p \in Pcbs :
        /\ console[p] = "SUCCESS" => p \in core.completed
        /\ console[p] = "FAILURE" => p \notin core.completed

\* Under SRT the READY queue is sorted by estimated burst, so that the controller
\* dispatches a shortest process, although insertions and dispatches interleave.
ReadySorted == BurstsSorted(queue["ready"], pcb)

\* Every submitted process ends with its console told: no order of semaphores,
\* mutex, timers and interrupts leaves a process waiting forever.
EveryProcessAnswered ==
    \A p \in Pcbs : pcb[p].status = "NEW" ~> console[p] # "none"

\* The same promise at the points where everything stops: when every thread waits
\* on a semaphore that nobody will post, no submitted process is still inside.
NobodyStranded ==
    ~ENABLED System => \A p \in Pcbs : pcb[p].status \in {"NONE", "DESTROYED"}

\* Under FIFO and without faults, the planner implements the life cycle: each step
\* of its threads is one transition of one process that the life cycle allows, or
\* none (no process enters memory over the degree, shares the CPU, is preempted,
\* or changes its state behind another thread's back).
LifeCycle == INSTANCE ProcessLifeCycle
                WITH Grado <- GradoMultiprogramacion,
                     state <- [p \in Pcbs |-> pcb[p].status]

LifeCycleSpec == LifeCycle!Spec

=============================================================================
