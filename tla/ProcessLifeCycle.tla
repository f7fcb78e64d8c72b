-------------------------- MODULE ProcessLifeCycle --------------------------
(***************************************************************************)
(* What the planner promises a process, without queues, semaphores or      *)
(* threads: the seven-state life cycle of a process under a non-preemptive *)
(* short-term planner, where a process enters memory only if fewer than    *)
(* Grado are there, and the CPU has at most one process.                   *)
(***************************************************************************)
EXTENDS Naturals, FiniteSets

CONSTANTS Pcbs, Grado

VARIABLE state

Alone(s) == {p \in Pcbs : state[p] = s} = {}

Resident == {p \in Pcbs : state[p] \in {"EXEC", "READY", "BLOCKED"}}

Move(p, from, to) == state[p] = from /\ state' = [state EXCEPT ![p] = to]

Submit(p) == Move(p, "NONE", "NEW")

Reject(p) == Move(p, "NEW", "EXIT")

\* Into memory, for the first time or back from swap.
Admit(p) ==
    /\ Cardinality(Resident) < Grado
    /\ Move(p, "NEW", "READY") \/ Move(p, "SUSPENDED_READY", "READY")

Run(p) == Alone("EXEC") /\ Move(p, "READY", "EXEC")

Block(p) == Move(p, "EXEC", "BLOCKED")

Unblock(p) ==
    \/ Move(p, "BLOCKED", "READY")
    \/ Move(p, "SUSPENDED_BLOCKED", "SUSPENDED_READY")

\* Out of memory.
Suspend(p) == Move(p, "BLOCKED", "SUSPENDED_BLOCKED")

Finish(p) == Move(p, "EXEC", "EXIT")

Destroy(p) == Move(p, "EXIT", "DESTROYED")

Init == state = [p \in Pcbs |-> "NONE"]

Next == \E p \in Pcbs :
            \/ Submit(p) \/ Reject(p) \/ Admit(p) \/ Run(p) \/ Block(p)
            \/ Unblock(p) \/ Suspend(p) \/ Finish(p) \/ Destroy(p)

Spec == Init /\ [][Next]_state

=============================================================================
