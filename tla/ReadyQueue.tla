----------------------------- MODULE ReadyQueue -----------------------------
(***************************************************************************)
(* The READY queue of the short-term planner under SRT: the comparison of  *)
(* two pcbs (kernel/src/planner.c, compare_ready_pcb__str) and the ordered *)
(* insertion that uses it (shared/src/squeue.c, squeue_insert_in_order).   *)
(*                                                                         *)
(* The comparison reads three fields of a pcb, so a pcb is here a record   *)
(* with at least burst (cpu_estimated_burst), status and prev_status.      *)
(***************************************************************************)
EXTENDS Naturals, Sequences

\* Slip: the longer burst goes first.
LongerFirst(new, listed) == new.burst > listed.burst

\* The new pcb goes before the listed one: the comparison returns 1. The -1
\* and the 0 of the C code are the same answer for the insertion.
compare_ready_pcb__str(new, listed) ==
    \/ new.burst < listed.burst
    \/ /\ new.burst = listed.burst
       /\ \/ new.status = "EXEC"
          \/ /\ new.status = "BLOCKED"
             /\ listed.prev_status \notin {"EXEC", "BLOCKED"}

\* The first of the positions of q whose element has lower priority than the new
\* one, or the end.
InsertPosition(q, lower) ==
    IF lower = {} THEN Len(q) + 1
    ELSE CHOOSE i \in lower : \A j \in lower : i <= j

squeue_insert_in_order(q, e, lower) ==
    LET k == InsertPosition(q, lower)
    IN  [i \in 1 .. Len(q) + 1 |->
            IF i < k THEN q[i] ELSE IF i = k THEN e ELSE q[i - 1]]

\* squeue_insert_in_order(planner->ready, e, compare_ready_pcb__str).
InsertReady(q, e, pcb) ==
    squeue_insert_in_order(q, e,
        {i \in 1 .. Len(q) : compare_ready_pcb__str(pcb[e], pcb[q[i]])})

\* The order the insertions are there to keep.
BurstsSorted(q, pcb) ==
    \A i, j \in 1 .. Len(q) : i < j => pcb[q[i]].burst <= pcb[q[j]].burst

=============================================================================
