-------------------------- MODULE MediumTermPlanner --------------------------
(***************************************************************************)
(* The medium-term planner (kernel/src/planner.c) and its timers           *)
(* (shared/src/timer.c): the controller that gives the I/O device to the   *)
(* blocked processes one at a time, the I/O timer whose end unblocks a     *)
(* process, and the suspension timer that swaps out a process blocked for  *)
(* too long. The two callbacks exclude each other with                     *)
(* mtp_mutex_blocking_process: the one inside is thread "timer".           *)
(*                                                                         *)
(* Time is not modelled: a sleeping timer may end at any moment, so both   *)
(* orders of an I/O timer and a suspension timer are behaviours.           *)
(***************************************************************************)
EXTENDS PlannerState

BlockedWaitPlanner ==
    SemWait("mtp_blocked", "wait_planner", "mtp_planner", "wait_io")
BlockedWaitIo == SemWait("mtp_blocked", "wait_io", "mtp_io", "pop")

\* Slip: the process is read and left in the queue.
BlockWithoutPop ==
    /\ At("mtp_blocked", "pop")
    /\ queue["blocked"] # <<>>
    /\ io_timer' = io_timer \cup {Head(queue["blocked"])}
    /\ Goto("mtp_blocked", "wait_planner")
    /\ UNCHANGED <<pcb, queue, exec, sem, suspend_timer, cpu, core, console>>

\* squeue_pop and mtp_block_pcb. The code does not look whether the queue is empty;
\* SemaphoresCountQueues says that it never is.
mtp_block_pcb ==
    /\ At("mtp_blocked", "pop")
    /\ queue["blocked"] # <<>>
    /\ queue' = [queue EXCEPT !["blocked"] = Tail(@)]
    /\ io_timer' = io_timer \cup {Head(queue["blocked"])}
    /\ Goto("mtp_blocked", "wait_planner")
    /\ UNCHANGED <<pcb, exec, sem, suspend_timer, cpu, core, console>>

\* mtp_block_pcb could not start the I/O timer: the process is taken out ...
BlockFails ==
    LET p == Head(queue["blocked"])
    IN  /\ TimerMayFail
        /\ At("mtp_blocked", "pop")
        /\ queue["blocked"] # <<>>
        /\ queue' = [queue EXCEPT !["blocked"] = Tail(@)]
        /\ GotoWith("mtp_blocked", "fail", p)
        /\ UNCHANGED <<pcb, exec, sem, io_timer, suspend_timer, cpu, core, console>>

\* ... sent to EXIT (without setting its error flag) ...
BlockFailExit ==
    /\ At("mtp_blocked", "fail")
    /\ move_pcb_to_exit(thread["mtp_blocked"].pcb, FALSE)
    /\ Goto("mtp_blocked", "release_io")
    /\ UNCHANGED <<exec, io_timer, suspend_timer, cpu, core, console>>

\* Slip: the device stays reserved.
BlockFailKeepsDevice ==
    /\ At("mtp_blocked", "release_io")
    /\ Release("mtp_blocked", "wait_planner")
    /\ UNCHANGED <<pcb, queue, exec, sem, io_timer, suspend_timer, cpu, core,
                   console>>

\* ... and the device released.
BlockFailRelease ==
    /\ At("mtp_blocked", "release_io")
    /\ sem' = [sem EXCEPT !["mtp_io"] = @ + 1]
    /\ Release("mtp_blocked", "wait_planner")
    /\ UNCHANGED <<pcb, queue, exec, io_timer, suspend_timer, cpu, core, console>>

(***************************************************************************)
(* The end of an I/O. timer_cancel only sets a flag: it stops the          *)
(* suspension timer when that one still sleeps, and comes too late when it *)
(* has already read the flag ("fired").                                    *)
(***************************************************************************)
\* Slip: the end of the I/O does not release the device.
UnblockKeepsDevice(p) ==
    /\ p \in io_timer
    /\ At("timer", "idle")
    /\ io_timer' = io_timer \ {p}
    /\ GotoWith("timer", "unblock", p)
    /\ UNCHANGED <<pcb, queue, exec, sem, suspend_timer, cpu, core, console>>

mtp_unblock_pcb(p) ==
    LET k == pcb[p].timer
    IN  /\ p \in io_timer
        /\ At("timer", "idle")
        /\ io_timer' = io_timer \ {p}
        /\ sem' = [sem EXCEPT !["mtp_io"] = @ + 1]
        /\ suspend_timer' =
              IF k # 0 /\ suspend_timer[p][k] = "sleeping"
              THEN [suspend_timer EXCEPT ![p][k] = "done"]
              ELSE suspend_timer
        /\ GotoWith("timer", "unblock", p)
        /\ UNCHANGED <<pcb, queue, exec, cpu, core, console>>

UnblockToReady ==
    /\ At("timer", "unblock")
    /\ pcb[thread["timer"].pcb].status = "BLOCKED"
    /\ Goto("timer", "to_ready")
    /\ UNCHANGED <<pcb, queue, exec, sem, io_timer, suspend_timer, cpu, core,
                   console>>

UnblockSuspended ==
    /\ At("timer", "unblock")
    /\ pcb[thread["timer"].pcb].status = "SUSPENDED_BLOCKED"
    /\ move_pcb_to_suspended_ready(thread["timer"].pcb)
    /\ Release("timer", "idle")
    /\ UNCHANGED <<exec, io_timer, suspend_timer, cpu, core, console>>

\* "con estado erroneo para operacion de desbloqueo". The pcb may have been freed
\* by then; its memory is taken to keep what it had.
UnblockError ==
    /\ At("timer", "unblock")
    /\ pcb[thread["timer"].pcb].status \notin {"BLOCKED", "SUSPENDED_BLOCKED"}
    /\ move_pcb_to_exit(thread["timer"].pcb, TRUE)
    /\ Release("timer", "idle")
    /\ UNCHANGED <<exec, io_timer, suspend_timer, cpu, core, console>>

\* timer_sleep woke up and found the timer not cancelled.
SuspendTimerFires(p, k) ==
    /\ suspend_timer[p][k] = "sleeping"
    /\ suspend_timer' = [suspend_timer EXCEPT ![p][k] = "fired"]
    /\ UNCHANGED <<pcb, queue, exec, sem, thread, io_timer, cpu, core, console>>

\* The callback gets the mutex and clears timer_suspended_blocked, whatever
\* timer that pointer holds by now.
mtp_suspend_pcb(p, k) ==
    /\ suspend_timer[p][k] = "fired"
    /\ At("timer", "idle")
    /\ suspend_timer' = [suspend_timer EXCEPT ![p][k] = "done"]
    /\ pcb' = [pcb EXCEPT ![p].timer = 0]
    /\ GotoWith("timer", "suspend", p)
    /\ UNCHANGED <<queue, exec, sem, io_timer, cpu, core, console>>

\* A process that is not BLOCKED is left alone; one that is, is swapped out.
SuspendCheck ==
    /\ At("timer", "suspend")
    /\ IF pcb[thread["timer"].pcb].status = "BLOCKED"
       THEN Goto("timer", "swap") ELSE Release("timer", "idle")
    /\ UNCHANGED <<pcb, queue, exec, sem, io_timer, suspend_timer, cpu, core,
                   console>>

\* swapp_process returned EXIT_SUCCESS.
SuspendSwapped ==
    /\ At("timer", "swap")
    /\ move_pcb_to_suspended_blocked(thread["timer"].pcb)
    /\ Release("timer", "idle")
    /\ UNCHANGED <<exec, io_timer, suspend_timer, cpu, core, console>>

\* swapp_process returned EXIT_FAILURE.
SuspendSwapFails ==
    /\ SwapMayFail
    /\ At("timer", "swap")
    /\ move_pcb_to_exit(thread["timer"].pcb, TRUE)
    /\ Release("timer", "idle")
    /\ UNCHANGED <<exec, io_timer, suspend_timer, cpu, core, console>>

MtpBlocked == \/ BlockedWaitPlanner \/ BlockedWaitIo \/ mtp_block_pcb
              \/ BlockFails \/ BlockFailExit \/ BlockFailRelease

MtpTimer ==
    \/ \E p \in Pcbs : mtp_unblock_pcb(p)
    \/ UnblockToReady \/ UnblockSuspended \/ UnblockError
    \/ \E p \in Pcbs, k \in 1 .. MaxIO :
          SuspendTimerFires(p, k) \/ mtp_suspend_pcb(p, k)
    \/ SuspendCheck \/ SuspendSwapped \/ SuspendSwapFails

=============================================================================
