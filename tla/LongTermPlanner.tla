--------------------------- MODULE LongTermPlanner ---------------------------
(***************************************************************************)
(* The long-term planner (kernel/src/planner.c): the console threads that  *)
(* submit processes, the controller that admits NEW and SUSPENDED_READY    *)
(* processes while the multiprogramming degree allows it, and the          *)
(* controller that finishes the processes in EXIT.                         *)
(***************************************************************************)
EXTENDS PlannerState

\* A console thread, after console_handler received a program.
ltp_new_process(p) ==
    /\ pcb[p].status = "NONE"
    /\ move_pcb_to_new(p)
    /\ UNCHANGED <<exec, thread, io_timer, suspend_timer, cpu, core, console>>

LtpWaitPlan  == SemWait("ltp_new", "wait_plan", "ltp_plan", "wait_level")
\* Slip: the controller does not wait for a level of the degree.
AdmitAtAnyLevel ==
    /\ At("ltp_new", "wait_level")
    /\ Goto("ltp_new", "take")
    /\ UNCHANGED <<pcb, queue, exec, sem, io_timer, suspend_timer, cpu, core,
                   console>>

LtpWaitLevel == SemWait("ltp_new", "wait_level", "multiprogramming", "take")

\* Suspended processes come before new ones.
LtpTakeSuspended ==
    /\ At("ltp_new", "take")
    /\ queue["suspended_ready"] # <<>>
    /\ queue' = [queue EXCEPT !["suspended_ready"] = Tail(@)]
    /\ GotoWith("ltp_new", "to_ready", Head(queue["suspended_ready"]))
    /\ UNCHANGED <<pcb, exec, sem, io_timer, suspend_timer, cpu, core, console>>

\* The branch that finds both queues empty goes back to the top of the loop
\* and does not give back the level it took.
LtpTakeNew ==
    /\ At("ltp_new", "take")
    /\ queue["suspended_ready"] = <<>>
    /\ IF queue["new"] # <<>>
       THEN /\ queue' = [queue EXCEPT !["new"] = Tail(@)]
            /\ GotoWith("ltp_new", "page_table", Head(queue["new"]))
       ELSE /\ Goto("ltp_new", "wait_plan")
            /\ UNCHANGED queue
    /\ UNCHANGED <<pcb, exec, sem, io_timer, suspend_timer, cpu, core, console>>

\* get_entry_page_table returned a table.
LtpAdmit ==
    /\ At("ltp_new", "page_table")
    /\ Goto("ltp_new", "to_ready")
    /\ UNCHANGED <<pcb, queue, exec, sem, io_timer, suspend_timer, cpu, core,
                   console>>

\* get_entry_page_table returned a negative number: the process is discarded ...
LtpReject ==
    /\ At("ltp_new", "page_table")
    /\ move_pcb_to_exit(thread["ltp_new"].pcb, TRUE)
    /\ Goto("ltp_new", "discard")
    /\ UNCHANGED <<exec, io_timer, suspend_timer, cpu, core, console>>

\* ... and the level taken for it given back.
LtpDiscard ==
    /\ At("ltp_new", "discard")
    /\ sem' = [sem EXCEPT !["multiprogramming"] = @ + 1]
    /\ Release("ltp_new", "wait_plan")
    /\ UNCHANGED <<pcb, queue, exec, io_timer, suspend_timer, cpu, core, console>>

ExitWait == SemWait("ltp_exit", "wait", "ltp_exit", "pop")

ExitPop ==
    /\ At("ltp_exit", "pop")
    /\ IF queue["exit"] # <<>>
       THEN /\ queue' = [queue EXCEPT !["exit"] = Tail(@)]
            /\ GotoWith("ltp_exit", "finish", Head(queue["exit"]))
       ELSE /\ Goto("ltp_exit", "wait")
            /\ UNCHANGED queue
    /\ UNCHANGED <<pcb, exec, sem, io_timer, suspend_timer, cpu, core, console>>

\* free_allocated_memory, console_terminate and pcb_destroy.
ExitFinish ==
    LET p == thread["ltp_exit"].pcb
    IN  /\ At("ltp_exit", "finish")
        /\ console' = [console EXCEPT
                          ![p] = IF pcb[p].error THEN "FAILURE" ELSE "SUCCESS"]
        /\ pcb' = [pcb EXCEPT ![p].status = "DESTROYED"]
        /\ Release("ltp_exit", "wait")
        /\ UNCHANGED <<queue, exec, sem, io_timer, suspend_timer, cpu, core>>

LtpNew == \/ LtpWaitPlan \/ LtpWaitLevel \/ LtpTakeSuspended \/ LtpTakeNew
          \/ LtpAdmit \/ LtpReject \/ LtpDiscard

LtpExit == ExitWait \/ ExitPop \/ ExitFinish

=============================================================================
