---------------------------- MODULE PlannerProofs ----------------------------
(***************************************************************************)
(* Proofs about the planner, for any set of processes, any degree of       *)
(* multiprogramming, any estimates and bursts: the ordered insertion of    *)
(* the READY queue, the types of the state, who has the CPU, and the       *)
(* semaphores (the token that serialises the interrupts of the CPU, the    *)
(* counters of the queues and the lock of the I/O device), also when the   *)
(* CPU dies or the kernel is told to stop (PlannerStop).                   *)
(***************************************************************************)
EXTENDS PlannerStop, FiniteSetTheorems, WellFoundedInduction, TLAPS

(***************************************************************************)
(* The ordered insertion of the READY queue, for every queue and pcb.      *)
(***************************************************************************)
\* A non-empty set of positions has a first one. (The initial segments of the
\* positions are ordered by strict inclusion, which is well founded.)
LEMMA FirstPosition ==
    ASSUME NEW T \in SUBSET Nat, T # {}
    PROVE  \E x \in T : \A y \in T : x <= y
<1> DEFINE R == StrictSubsetOrdering(Nat)
           Below == {1 .. x : x \in T}
<1>1. IsWellFoundedOn(R, FiniteSubsetsOf(Nat))
  BY FS_StrictSubsetOrderingWellFounded
<1>2. Below # {} /\ Below \subseteq FiniteSubsetsOf(Nat)
  <2>1. \A x \in Nat : 1 .. x \in SUBSET Nat /\ IsFiniteSet(1 .. x)
    BY FS_Interval
  <2>2. \A x \in Nat : 1 .. x \in FiniteSubsetsOf(Nat)
    BY <2>1 DEF FiniteSubsetsOf
  <2> QED BY <2>2
<1> HIDE DEF R
<1>3. \E I \in Below : \A J \in Below : ~ (<<J, I>> \in R)
  <2> HIDE DEF Below
  <2> QED BY <1>1, <1>2, WFMin
<1>4. PICK x \in T : \A y \in T : ~ (<<1 .. y, 1 .. x>> \in R)
  BY <1>3
<1>5. ASSUME NEW y \in T, y < x PROVE FALSE
  <2>1. 1 .. y \subseteq 1 .. x /\ x \in 1 .. x /\ x \notin 1 .. y
    BY <1>5
  <2>2. <<1 .. y, 1 .. x>> \in R
    BY <2>1 DEF R, StrictSubsetOrdering
  <2> QED BY <1>4, <2>2
<1> QED BY <1>5

\* The queue that results from putting e at position k.
Inserted(q, e, k) ==
    [i \in 1 .. Len(q) + 1 |->
        IF i < k THEN q[i] ELSE IF i = k THEN e ELSE q[i - 1]]

\* The result is a sequence one longer.
LEMMA InsertedTyped ==
    ASSUME NEW P, NEW q \in Seq(P), NEW e \in P, NEW k \in 1 .. Len(q) + 1
    PROVE  /\ Inserted(q, e, k) \in Seq(P)
           /\ Len(Inserted(q, e, k)) = Len(q) + 1
<1> DEFINE x(i) == IF i < k THEN q[i] ELSE IF i = k THEN e ELSE q[i - 1]
<1>1. \A i \in 1 .. Len(q) + 1 : x(i) \in P
  OBVIOUS
<1> QED BY <1>1 DEF Inserted

\* compare_ready_pcb__str and squeue_insert_in_order (planner.c:270, squeue.c:116):
\* inserting a pcb keeps every pcb of the queue, in its order, and puts the new one
\* at one position; a queue sorted by estimated burst is still sorted, whatever
\* the statuses that break the ties.
THEOREM InsertInOrder ==
    ASSUME NEW P, NEW pcbs, \A p \in P : pcbs[p].burst \in Nat,
           NEW q \in Seq(P), NEW e \in P
    PROVE  /\ \E k \in 1 .. Len(q) + 1 : InsertReady(q, e, pcbs) = Inserted(q, e, k)
           /\ BurstsSorted(q, pcbs) => BurstsSorted(InsertReady(q, e, pcbs), pcbs)
<1> DEFINE lower == {i \in 1 .. Len(q) : compare_ready_pcb__str(pcbs[e], pcbs[q[i]])}
           k == InsertPosition(q, lower)
           new == InsertReady(q, e, pcbs)
<1>1. lower \in SUBSET Nat /\ lower \subseteq 1 .. Len(q) /\ Len(q) \in Nat
  OBVIOUS
<1>2. /\ k \in 1 .. Len(q) + 1
      /\ k # Len(q) + 1 => k \in lower
      /\ \A i \in lower : k <= i
  <2>1. k = IF lower = {} THEN Len(q) + 1
            ELSE CHOOSE x \in lower : \A y \in lower : x <= y
    BY DEF InsertPosition
  <2> HIDE DEF lower, k
  <2>2. CASE lower = {}
    BY <1>1, <2>1, <2>2
  <2>3. CASE lower # {}
    <3>1. \E x \in lower : \A y \in lower : x <= y
      BY <1>1, <2>3, FirstPosition
    <3>2. k \in lower /\ \A y \in lower : k <= y
      BY <2>1, <2>3, <3>1
    <3> QED BY <1>1, <3>2
  <2> QED BY <2>2, <2>3
<1>3. new = Inserted(q, e, k)
  BY DEF InsertReady, squeue_insert_in_order, Inserted
<1> HIDE DEF k, new
<1>4. ASSUME BurstsSorted(q, pcbs) PROVE BurstsSorted(new, pcbs)
  <2>1. \A i \in 1 .. Len(q) : i < k => pcbs[q[i]].burst <= pcbs[e].burst
    <3> SUFFICES ASSUME NEW i \in 1 .. Len(q), i < k
                 PROVE  pcbs[q[i]].burst <= pcbs[e].burst
      OBVIOUS
    <3>1. i \notin lower
      BY <1>1, <1>2
    <3> QED BY <3>1 DEF compare_ready_pcb__str
  <2>2. k # Len(q) + 1 => pcbs[e].burst <= pcbs[q[k]].burst
    BY <1>2 DEF compare_ready_pcb__str
  <2>3. \A i \in 1 .. Len(q) : i >= k => pcbs[e].burst <= pcbs[q[i]].burst
    <3> SUFFICES ASSUME NEW i \in 1 .. Len(q), i >= k
                 PROVE  pcbs[e].burst <= pcbs[q[i]].burst
      OBVIOUS
    <3>1. k \in 1 .. Len(q) /\ k # Len(q) + 1
      BY <1>1, <1>2
    <3>2. pcbs[q[k]].burst <= pcbs[q[i]].burst
      BY <1>4, <3>1 DEF BurstsSorted
    <3>3. pcbs[e].burst \in Nat /\ pcbs[q[k]].burst \in Nat /\ pcbs[q[i]].burst \in Nat
      BY <3>1
    <3> QED BY <2>2, <3>1, <3>2, <3>3
  <2> HIDE DEF lower
  <2>4. Len(new) = Len(q) + 1
    BY <1>2, <1>3, InsertedTyped
  <2> SUFFICES ASSUME NEW i \in 1 .. Len(q) + 1, NEW j \in 1 .. Len(q) + 1, i < j
               PROVE  pcbs[new[i]].burst <= pcbs[new[j]].burst
    BY <2>4 DEF BurstsSorted
  <2>5. CASE j < k
    BY <1>2, <1>3, <1>4, <2>5 DEF BurstsSorted, Inserted
  <2>6. CASE j = k
    BY <1>2, <1>3, <2>1, <2>6 DEF Inserted
  <2>7. CASE k < j /\ i = k
    BY <1>2, <1>3, <2>3, <2>7 DEF Inserted
  <2>8. CASE k < j /\ i < k
    <3>1. new[i] = q[i] /\ new[j] = q[j - 1] /\ i \in 1 .. Len(q)
          /\ j - 1 \in 1 .. Len(q)
      BY <1>2, <1>3, <2>8 DEF Inserted
    <3>2. pcbs[q[i]].burst <= pcbs[e].burst /\ pcbs[e].burst <= pcbs[q[j - 1]].burst
      BY <1>2, <2>1, <2>3, <2>8, <3>1, SMTT(30)
    <3>3. /\ pcbs[q[i]].burst \in Nat /\ pcbs[e].burst \in Nat
          /\ pcbs[q[j - 1]].burst \in Nat
      BY <3>1
    <3> QED BY <3>1, <3>2, <3>3
  <2>9. CASE k < i
    <3>1. new[i] = q[i - 1] /\ new[j] = q[j - 1] /\ i - 1 \in 1 .. Len(q)
          /\ j - 1 \in 1 .. Len(q) /\ i - 1 < j - 1
      BY <1>2, <1>3, <2>9 DEF Inserted
    <3> QED BY <1>4, <3>1 DEF BurstsSorted
  <2> QED BY <1>2, <2>5, <2>6, <2>7, <2>8, <2>9
<1> QED BY <1>2, <1>3, <1>4 DEF new

(***************************************************************************)
(* The types of the state, and who has the CPU.                            *)
(***************************************************************************)
(***************************************************************************)
(* Types: what the operations on threads, queues and semaphores preserve.  *)
(***************************************************************************)
\* A thread that only moves to another point of its own code stays typed.
LEMMA GotoTyped ==
    ASSUME NEW t \in Threads, NEW pc \in PcsOf(t), ThreadsTyped,
           pc \in HoldingPcs => thread[t].pcb # NULL, Goto(t, pc)
    PROVE  ThreadsTyped'
<1>1. pc \in Pcs
  BY DEF PcsOf, Pcs, HoldingPcs, MoverPc
<1> QED BY <1>1 DEF ThreadsTyped, Goto

\* ... and one that moves with a pcb in hand.
LEMMA GotoWithTyped ==
    ASSUME NEW t \in Threads, NEW pc \in PcsOf(t), NEW p \in Pcbs, ThreadsTyped,
           GotoWith(t, pc, p)
    PROVE  ThreadsTyped'
<1>1. pc \in Pcs
  BY DEF PcsOf, Pcs, HoldingPcs, MoverPc
<1> QED BY <1>1, PlannerAssumption DEF ThreadsTyped, GotoWith

\* ... and one that lets go of its pcb, at a point where it needs none.
LEMMA ReleaseTyped ==
    ASSUME NEW t \in Threads, NEW pc \in PcsOf(t), pc \notin HoldingPcs, ThreadsTyped,
           Release(t, pc)
    PROVE  ThreadsTyped'
<1>1. pc \in Pcs
  BY DEF PcsOf, Pcs, HoldingPcs, MoverPc
<1> QED BY <1>1 DEF ThreadsTyped, GotoWith, Release

\* At a point where a thread holds a pcb, it does.
LEMMA HandTyped ==
    ASSUME NEW t \in Threads, ThreadsTyped, thread[t].pc \in HoldingPcs
    PROVE  thread[t].pcb \in Pcbs
BY DEF ThreadsTyped

\* sem_wait only takes from a positive counter.
LEMMA SemWaitTyped ==
    ASSUME NEW t \in Threads, NEW from, NEW s \in Semaphores, NEW to \in PcsOf(t),
           to \in HoldingPcs => thread[t].pcb # NULL, TypeOK, SemWait(t, from, s, to)
    PROVE  TypeOK'
<1>1. ThreadsTyped'
  BY GotoTyped DEF SemWait, TypeOK
<1>2. sem' \in [Semaphores -> Nat]
  BY DEF SemWait, TypeOK
<1> QED BY <1>1, <1>2 DEF SemWait, TypeOK

\* sem_post keeps the counters natural.
LEMMA PostTyped ==
    ASSUME NEW s \in Semaphores, TypeOK, sem' = [sem EXCEPT ![s] = @ + 1]
    PROVE  sem' \in [Semaphores -> Nat]
BY DEF TypeOK

\* squeue_pop of a queue that is not empty gives one of the pcbs.
LEMMA PopTyped ==
    ASSUME NEW q \in Queues, queue[q] # <<>>, TypeOK
    PROVE  /\ Head(queue[q]) \in Pcbs
           /\ [queue EXCEPT ![q] = Tail(@)] \in [Queues -> Seq(Pcbs)]
<1>1. queue[q] \in Seq(Pcbs)
  BY DEF TypeOK
<1>2. Head(queue[q]) \in Pcbs /\ Tail(queue[q]) \in Seq(Pcbs)
  BY <1>1
<1> QED BY <1>2 DEF TypeOK

\* squeue_push keeps the queues sequences of pcbs.
LEMMA PushTyped ==
    ASSUME NEW q \in Queues, NEW p \in Pcbs, TypeOK, Push(q, p)
    PROVE  queue' \in [Queues -> Seq(Pcbs)]
BY DEF TypeOK, Push

\* Writing the status and the error flag keeps the type of a pcb.
LEMMA PcbUpdateTyped ==
    ASSUME NEW r \in PcbFields, NEW s \in Status, NEW e \in BOOLEAN
    PROVE  [r EXCEPT !.status = s, !.error = e] \in PcbFields
BY DEF PcbFields

\* Changing the state of one suspension timer keeps the timers typed.
LEMMA TimerTyped ==
    ASSUME NEW p \in Pcbs, NEW k \in Nat, TypeOK
    PROVE  [pcb EXCEPT ![p].timer = k] \in [Pcbs -> PcbFields]
<1>1. [pcb[p] EXCEPT !.timer = k] \in PcbFields
  BY ZenonT(40) DEF TypeOK, PcbFields
<1> QED BY <1>1 DEF TypeOK

\* ... and so does starting one for a blocked period.
LEMMA SuspendTimerTyped ==
    ASSUME NEW p \in Pcbs, NEW k, NEW s \in TimerState, TypeOK
    PROVE  [suspend_timer EXCEPT ![p][k] = s]
              \in [Pcbs -> [1 .. MaxIO -> TimerState]]
<1>1. suspend_timer[p] \in [1 .. MaxIO -> TimerState]
  BY DEF TypeOK
<1>2. [suspend_timer[p] EXCEPT ![k] = s] \in [1 .. MaxIO -> TimerState]
  BY <1>1
<1> QED BY <1>2 DEF TypeOK

\* Writing the status and its predecessor keeps the pcbs typed.
LEMMA StatusTyped ==
    ASSUME NEW p \in Pcbs, NEW s \in Status, TypeOK
    PROVE  [pcb EXCEPT ![p].status = s] \in [Pcbs -> PcbFields]
<1>1. [pcb[p] EXCEPT !.status = s] \in PcbFields
  BY ZenonT(40) DEF TypeOK, PcbFields
<1> QED BY <1>1 DEF TypeOK

\* move_pcb_to_exit keeps pcbs, queues and semaphores typed.
LEMMA ExitTyped ==
    ASSUME NEW p \in Pcbs, NEW err \in BOOLEAN, TypeOK, move_pcb_to_exit(p, err)
    PROVE  /\ pcb' \in [Pcbs -> PcbFields]
           /\ queue' \in [Queues -> Seq(Pcbs)]
           /\ sem' \in [Semaphores -> Nat]
<1>1. pcb' \in [Pcbs -> PcbFields]
  <2> DEFINE bad == pcb[p].error \/ err
  <2>1. bad \in BOOLEAN
    OBVIOUS
  <2>2. pcb' = [pcb EXCEPT ![p].status = "EXIT", ![p].error = bad]
    BY DEF move_pcb_to_exit
  <2> HIDE DEF bad
  <2>3. [pcb[p] EXCEPT !.status = "EXIT", !.error = bad] \in PcbFields
    <3>1. pcb[p] \in PcbFields /\ "EXIT" \in Status
      BY DEF TypeOK, Status
    <3> QED BY <2>1, <3>1, PcbUpdateTyped
  <2>4. pcb' = [pcb EXCEPT ![p] = [pcb[p] EXCEPT !.status = "EXIT", !.error = bad]]
    BY <2>2 DEF TypeOK
  <2> QED BY <2>3, <2>4 DEF TypeOK
<1>2. queue' \in [Queues -> Seq(Pcbs)]
  BY PushTyped DEF move_pcb_to_exit, Queues
<1>3. sem' \in [Semaphores -> Nat]
  <2> DEFINE exits == sem["ltp_exit"] + 1
             level == IF pcb[p].status \in InMemory THEN sem["multiprogramming"] + 1
                      ELSE sem["multiprogramming"]
  <2>1. exits \in Nat /\ level \in Nat
    BY DEF TypeOK, Semaphores
  <2>2. sem' = [sem EXCEPT !["ltp_exit"] = exits, !["multiprogramming"] = level]
    BY DEF move_pcb_to_exit
  <2> HIDE DEF exits, level
  <2> QED BY <2>1, <2>2 DEF TypeOK
<1> QED BY <1>1, <1>2, <1>3

\* planner_create builds typed state.
LEMMA InitTyped == Init => TypeOK
<1> SUFFICES ASSUME Init PROVE TypeOK
  OBVIOUS
<1> USE DEF Init, InitState
<1>1. pcb \in [Pcbs -> PcbFields]
  BY PlannerAssumption DEF PcbFields, Status, Condition
<1>2. queue \in [Queues -> Seq(Pcbs)]
  OBVIOUS
<1>3. sem \in [Semaphores -> Nat]
  BY PlannerAssumption
<1>4. thread \in [Threads -> [pc : Pcs, pcb : Pcbs \cup {NULL}]]
  BY DEF Pcs, HoldingPcs, MoverPc
<1>5. ThreadsTyped
  BY <1>4 DEF ThreadsTyped, Threads, PcsOf, HoldingPcs, MoverPc
<1>6. suspend_timer \in [Pcbs -> [1 .. MaxIO -> TimerState]]
  BY DEF TimerState
<1>7. core \in CoreFields /\ cpu \in [busy : BOOLEAN, interrupted : BOOLEAN]
  BY DEF CoreFields, Condition
<1>8. console \in [Pcbs -> {"none", "SUCCESS", "FAILURE"}]
  OBVIOUS
<1> QED BY <1>1, <1>2, <1>3, <1>5, <1>6, <1>7, <1>8 DEF TypeOK

\* The names of the model's threads, queues, semaphores and program counters.
LEMMA Names ==
    /\ \A t \in {"ltp_new", "ltp_exit", "mtp_blocked", "stp", "dispatch", "timer"} :
          t \in Threads
    /\ \A q \in {"new", "ready", "blocked", "suspended_ready", "exit"} : q \in Queues
    /\ \A s \in {"ltp_plan", "ltp_exit", "multiprogramming", "mtp_planner", "mtp_io",
                "stp_plan", "stp_interrupt", "stp_dispatch"} : s \in Semaphores
BY DEF Threads, Queues, Semaphores

\* The points of the code of each thread, and those that hold a pcb.
LEMMA PcNames ==
    /\ \A pc \in {"wait_plan", "wait_level", "take", "page_table", "discard"} :
          pc \in PcsOf("ltp_new")
    /\ \A pc \in {"wait", "pop", "finish"} :
          pc \in PcsOf("ltp_exit")
    /\ \A pc \in {"wait_planner", "wait_io", "pop", "fail", "release_io"} :
          pc \in PcsOf("mtp_blocked")
    /\ \A pc \in {"wait_plan", "wait_dispatch", "pop", "send", "busy"} :
          pc \in PcsOf("stp")
    /\ \A pc \in {"idle", "listening", "switch", "finish"} :
          pc \in PcsOf("dispatch")
    /\ \A pc \in {"idle", "unblock", "suspend", "swap"} :
          pc \in PcsOf("timer")
    /\ \A t \in Movers : \A pc \in MoverPc : pc \in PcsOf(t)
    /\ \A pc \in {"wait_plan", "wait_level", "take", "wait", "pop",
                 "wait_planner", "wait_io", "wait_dispatch", "idle", "listening"} :
          pc \notin HoldingPcs
    /\ \A pc \in {"to_ready", "status", "check_busy", "wait_interrupt", "send",
                 "flag", "plan", "page_table", "discard", "finish", "fail",
                 "release_io", "busy", "switch", "unblock", "suspend", "swap"} :
          pc \in HoldingPcs
BY DEF PcsOf, HoldingPcs, MoverPc, Movers

\* The controller of new processes keeps the types.
LEMMA LtpNewTyped == TypeOK /\ LtpNew => TypeOK'
<1> SUFFICES ASSUME TypeOK, LtpNew PROVE TypeOK'
  OBVIOUS
<1>1. CASE LtpWaitPlan
  BY <1>1, Names, PcNames, SemWaitTyped DEF LtpWaitPlan
<1>2. CASE LtpWaitLevel
  BY <1>2, Names, PcNames, SemWaitTyped DEF LtpWaitLevel
<1>3. CASE LtpTakeSuspended
  <2>1. Head(queue["suspended_ready"]) \in Pcbs /\ queue' \in [Queues -> Seq(Pcbs)]
    BY <1>3, Names, PopTyped DEF LtpTakeSuspended
  <2>2. ThreadsTyped'
    BY <1>3, Names, PcNames, <2>1, GotoWithTyped DEF LtpTakeSuspended, At, TypeOK,
           Movers, MoverPc
  <2> QED BY <1>3, <2>1, <2>2 DEF LtpTakeSuspended, TypeOK
<1>4. CASE LtpTakeNew
  <2>1. CASE queue["new"] # <<>>
    <3>1. Head(queue["new"]) \in Pcbs /\ queue' \in [Queues -> Seq(Pcbs)]
      BY <1>4, <2>1, Names, PopTyped DEF LtpTakeNew
    <3>2. ThreadsTyped'
      BY <1>4, <2>1, Names, PcNames, <3>1, GotoWithTyped DEF LtpTakeNew, TypeOK
    <3> QED BY <1>4, <3>1, <3>2 DEF LtpTakeNew, TypeOK
  <2>2. CASE queue["new"] = <<>>
    <3>1. ThreadsTyped'
      BY <1>4, <2>2, Names, PcNames, GotoTyped DEF LtpTakeNew, TypeOK
    <3> QED BY <1>4, <2>2, <3>1 DEF LtpTakeNew, TypeOK
  <2> QED BY <2>1, <2>2
<1>5. CASE LtpAdmit
  <2>1. thread["ltp_new"].pcb \in Pcbs
    BY <1>5, Names, PcNames, HandTyped DEF LtpAdmit, At, TypeOK
  <2>2. ThreadsTyped'
    BY <1>5, Names, PcNames, <2>1, PcNames, GotoTyped,
           PlannerAssumption DEF LtpAdmit, At, TypeOK, Movers, MoverPc
  <2> QED BY <1>5, <2>1, <2>2 DEF LtpAdmit, TypeOK
<1>6. CASE LtpReject
  <2>1. thread["ltp_new"].pcb \in Pcbs
    BY <1>6, Names, PcNames, HandTyped DEF LtpReject, At, TypeOK
  <2>2. pcb' \in [Pcbs -> PcbFields] /\ queue' \in [Queues -> Seq(Pcbs)] /\ sem' \in [Semaphores -> Nat]
    BY <1>6, <2>1, ExitTyped DEF LtpReject
  <2>3. ThreadsTyped'
    BY <1>6, Names, PcNames, <2>1, GotoTyped, PlannerAssumption DEF LtpReject, At,
           TypeOK
  <2> QED BY <1>6, <2>1, <2>2, <2>3 DEF LtpReject, TypeOK
<1>7. CASE LtpDiscard
  <2>1. sem' \in [Semaphores -> Nat]
    BY <1>7, Names, PostTyped DEF LtpDiscard
  <2>2. ThreadsTyped'
    BY <1>7, Names, PcNames, ReleaseTyped DEF LtpDiscard, At, TypeOK
  <2> QED BY <1>7, <2>1, <2>2 DEF LtpDiscard, TypeOK
<1> QED BY <1>1, <1>2, <1>3, <1>4, <1>5, <1>6, <1>7 DEF LtpNew

\* The controller of finished processes keeps the types.
LEMMA LtpExitTyped == TypeOK /\ LtpExit => TypeOK'
<1> SUFFICES ASSUME TypeOK, LtpExit PROVE TypeOK'
  OBVIOUS
<1>1. CASE ExitWait
  BY <1>1, Names, PcNames, SemWaitTyped DEF ExitWait
<1>2. CASE ExitPop
  <2>1. CASE queue["exit"] # <<>>
    <3>1. Head(queue["exit"]) \in Pcbs /\ queue' \in [Queues -> Seq(Pcbs)]
      BY <1>2, <2>1, Names, PopTyped DEF ExitPop
    <3>2. ThreadsTyped'
      BY <1>2, <2>1, Names, PcNames, <3>1, GotoWithTyped DEF ExitPop, TypeOK
    <3> QED BY <1>2, <3>1, <3>2 DEF ExitPop, TypeOK
  <2>2. CASE queue["exit"] = <<>>
    <3>1. ThreadsTyped'
      BY <1>2, <2>2, Names, PcNames, GotoTyped DEF ExitPop, TypeOK
    <3> QED BY <1>2, <2>2, <3>1 DEF ExitPop, TypeOK
  <2> QED BY <2>1, <2>2
<1>3. CASE ExitFinish
  <2>1. thread["ltp_exit"].pcb \in Pcbs
    BY <1>3, Names, PcNames, HandTyped DEF ExitFinish, At, TypeOK
  <2>2. pcb' \in [Pcbs -> PcbFields]
    BY <1>3, <2>1, StatusTyped DEF ExitFinish, Status
  <2>3. console' \in [Pcbs -> {"none", "SUCCESS", "FAILURE"}]
    BY <1>3, <2>1 DEF ExitFinish, TypeOK
  <2>4. ThreadsTyped'
    BY <1>3, Names, PcNames, ReleaseTyped DEF ExitFinish, At, TypeOK
  <2> QED BY <1>3, <2>1, <2>2, <2>3, <2>4 DEF ExitFinish, TypeOK
<1> QED BY <1>1, <1>2, <1>3 DEF LtpExit

\* The controller of blocked processes keeps the types.
LEMMA MtpBlockedTyped == TypeOK /\ MtpBlocked => TypeOK'
<1> SUFFICES ASSUME TypeOK, MtpBlocked PROVE TypeOK'
  OBVIOUS
<1>1. CASE BlockedWaitPlanner
  BY <1>1, Names, PcNames, SemWaitTyped DEF BlockedWaitPlanner
<1>2. CASE BlockedWaitIo
  BY <1>2, Names, PcNames, SemWaitTyped DEF BlockedWaitIo
<1>3. CASE mtp_block_pcb
  <2>1. Head(queue["blocked"]) \in Pcbs /\ queue' \in [Queues -> Seq(Pcbs)]
    BY <1>3, Names, PopTyped DEF mtp_block_pcb
  <2>2. io_timer' \subseteq Pcbs
    BY <1>3, <2>1 DEF mtp_block_pcb, TypeOK
  <2>3. ThreadsTyped'
    BY <1>3, Names, PcNames, GotoTyped DEF mtp_block_pcb, At, TypeOK
  <2> QED BY <1>3, <2>1, <2>2, <2>3 DEF mtp_block_pcb, TypeOK
<1>4. CASE BlockFails
  <2>1. Head(queue["blocked"]) \in Pcbs /\ queue' \in [Queues -> Seq(Pcbs)]
    BY <1>4, Names, PopTyped DEF BlockFails
  <2>2. ThreadsTyped'
    BY <1>4, Names, PcNames, <2>1, GotoWithTyped DEF BlockFails, At, TypeOK
  <2> QED BY <1>4, <2>1, <2>2 DEF BlockFails, TypeOK
<1>5. CASE BlockFailExit
  <2>1. thread["mtp_blocked"].pcb \in Pcbs
    BY <1>5, Names, PcNames, HandTyped DEF BlockFailExit, At, TypeOK
  <2>2. pcb' \in [Pcbs -> PcbFields] /\ queue' \in [Queues -> Seq(Pcbs)] /\ sem' \in [Semaphores -> Nat]
    BY <1>5, <2>1, ExitTyped DEF BlockFailExit
  <2>3. ThreadsTyped'
    BY <1>5, Names, PcNames, <2>1, GotoTyped, PlannerAssumption DEF BlockFailExit,
           At, TypeOK
  <2> QED BY <1>5, <2>1, <2>2, <2>3 DEF BlockFailExit, TypeOK
<1>6. CASE BlockFailRelease
  <2>1. sem' \in [Semaphores -> Nat]
    BY <1>6, Names, PostTyped DEF BlockFailRelease
  <2>2. ThreadsTyped'
    BY <1>6, Names, PcNames, ReleaseTyped DEF BlockFailRelease, At, TypeOK
  <2> QED BY <1>6, <2>1, <2>2 DEF BlockFailRelease, TypeOK
<1> QED BY <1>1, <1>2, <1>3, <1>4, <1>5, <1>6 DEF MtpBlocked

\* The callbacks of the timers keep the types.
LEMMA MtpTimerTyped == TypeOK /\ MtpTimer => TypeOK'
<1> SUFFICES ASSUME TypeOK, MtpTimer PROVE TypeOK'
  OBVIOUS
<1>1. CASE \E p \in Pcbs : mtp_unblock_pcb(p)
  <2> PICK p \in Pcbs : mtp_unblock_pcb(p)
    BY <1>1
  <2>1. sem' \in [Semaphores -> Nat]
    BY Names, PostTyped DEF mtp_unblock_pcb
  <2>2. suspend_timer' \in [Pcbs -> [1 .. MaxIO -> TimerState]]
    BY DEF mtp_unblock_pcb, TypeOK, TimerState
  <2>3. ThreadsTyped'
    BY Names, PcNames, GotoWithTyped DEF mtp_unblock_pcb, TypeOK
  <2> QED BY <2>1, <2>2, <2>3 DEF mtp_unblock_pcb, TypeOK
<1>2. CASE UnblockToReady
  <2>1. thread["timer"].pcb \in Pcbs
    BY <1>2, Names, PcNames, HandTyped DEF UnblockToReady, At, TypeOK
  <2>2. ThreadsTyped'
    BY <1>2, Names, PcNames, <2>1, GotoTyped,
           PlannerAssumption DEF UnblockToReady, At, TypeOK, Movers, MoverPc
  <2> QED BY <1>2, <2>1, <2>2 DEF UnblockToReady, TypeOK
<1>3. CASE UnblockSuspended
  <2>1. thread["timer"].pcb \in Pcbs
    BY <1>3, Names, PcNames, HandTyped DEF UnblockSuspended, At, TypeOK
  <2>2. pcb' \in [Pcbs -> PcbFields]
    BY <1>3, StatusTyped, <2>1 DEF UnblockSuspended, TypeOK, Status,
           move_pcb_to_suspended_ready
  <2>3. queue' \in [Queues -> Seq(Pcbs)]
    BY <1>3, Names, PushTyped, <2>1 DEF UnblockSuspended,
           move_pcb_to_suspended_ready
  <2>4. sem' \in [Semaphores -> Nat]
    BY <1>3, Names, PostTyped DEF UnblockSuspended, move_pcb_to_suspended_ready
  <2>5. ThreadsTyped'
    BY <1>3, Names, PcNames, ReleaseTyped DEF UnblockSuspended, At, TypeOK
  <2> QED BY <1>3, <2>1, <2>2, <2>3, <2>4, <2>5 DEF UnblockSuspended, TypeOK
<1>4. CASE UnblockError
  <2>1. thread["timer"].pcb \in Pcbs
    BY <1>4, Names, PcNames, HandTyped DEF UnblockError, At, TypeOK
  <2>2. pcb' \in [Pcbs -> PcbFields] /\ queue' \in [Queues -> Seq(Pcbs)] /\ sem' \in [Semaphores -> Nat]
    BY <1>4, <2>1, ExitTyped DEF UnblockError
  <2>3. ThreadsTyped'
    BY <1>4, Names, PcNames, ReleaseTyped DEF UnblockError, At, TypeOK
  <2> QED BY <1>4, <2>1, <2>2, <2>3 DEF UnblockError, TypeOK
<1>5. CASE \E p \in Pcbs, k \in 1 .. MaxIO : SuspendTimerFires(p, k)
  <2> PICK p \in Pcbs, k \in 1 .. MaxIO : SuspendTimerFires(p, k)
    BY <1>5
  <2>1. suspend_timer' \in [Pcbs -> [1 .. MaxIO -> TimerState]]
    BY SuspendTimerTyped DEF SuspendTimerFires, TimerState
  <2> QED BY <2>1 DEF SuspendTimerFires, TypeOK, ThreadsTyped
<1>6. CASE \E p \in Pcbs, k \in 1 .. MaxIO : mtp_suspend_pcb(p, k)
  <2> PICK p \in Pcbs, k \in 1 .. MaxIO : mtp_suspend_pcb(p, k)
    BY <1>6
  <2>1. suspend_timer' \in [Pcbs -> [1 .. MaxIO -> TimerState]]
    BY DEF mtp_suspend_pcb, TypeOK, TimerState
  <2>2. pcb' \in [Pcbs -> PcbFields]
    BY TimerTyped DEF mtp_suspend_pcb
  <2>3. ThreadsTyped'
    BY Names, PcNames, GotoWithTyped DEF mtp_suspend_pcb, TypeOK
  <2> QED BY <2>1, <2>2, <2>3 DEF mtp_suspend_pcb, TypeOK
<1>7. CASE SuspendCheck
  <2>1. thread["timer"].pcb \in Pcbs
    BY <1>7, Names, PcNames, HandTyped DEF SuspendCheck, At, TypeOK
  <2>2. ThreadsTyped'
    BY <1>7, <2>1, Names, PcNames, GotoTyped, ReleaseTyped, PlannerAssumption
       DEF SuspendCheck, TypeOK
  <2> QED BY <1>7, <2>2 DEF SuspendCheck, TypeOK
<1>8. CASE SuspendSwapped
  <2>1. thread["timer"].pcb \in Pcbs
    BY <1>8, Names, PcNames, HandTyped DEF SuspendSwapped, At, TypeOK
  <2>2. pcb' \in [Pcbs -> PcbFields]
    BY <1>8, StatusTyped, <2>1 DEF SuspendSwapped, TypeOK, Status,
           move_pcb_to_suspended_blocked
  <2>3. sem' \in [Semaphores -> Nat]
    BY <1>8, Names, PostTyped DEF SuspendSwapped, move_pcb_to_suspended_blocked
  <2>4. queue' \in [Queues -> Seq(Pcbs)]
    BY <1>8 DEF SuspendSwapped, move_pcb_to_suspended_blocked, TypeOK
  <2>5. ThreadsTyped'
    BY <1>8, Names, PcNames, ReleaseTyped DEF SuspendSwapped, At, TypeOK
  <2> QED BY <1>8, <2>1, <2>2, <2>3, <2>4, <2>5 DEF SuspendSwapped, TypeOK
<1>9. CASE SuspendSwapFails
  <2>1. thread["timer"].pcb \in Pcbs
    BY <1>9, Names, PcNames, HandTyped DEF SuspendSwapFails, At, TypeOK
  <2>2. pcb' \in [Pcbs -> PcbFields] /\ queue' \in [Queues -> Seq(Pcbs)] /\ sem' \in [Semaphores -> Nat]
    BY <1>9, <2>1, ExitTyped DEF SuspendSwapFails
  <2>3. ThreadsTyped'
    BY <1>9, Names, PcNames, ReleaseTyped DEF SuspendSwapFails, At, TypeOK
  <2> QED BY <1>9, <2>1, <2>2, <2>3 DEF SuspendSwapFails, TypeOK
<1> QED BY <1>1, <1>2, <1>3, <1>4, <1>5, <1>6, <1>7, <1>8, <1>9 DEF MtpTimer

\* A thread that comes back from move_pcb_to_ready is at a point of its code.
LEMMA ReturnTyped ==
    ASSUME NEW t \in Movers, TypeOK, thread[t].pc \in MoverPc, Return(t)
    PROVE  ThreadsTyped'
<1>1. t \in Threads /\ thread[t].pcb \in Pcbs
  BY Names, HandTyped DEF Movers, HoldingPcs, TypeOK
<1>2. CASE t = "dispatch"
  <2>1. Goto("dispatch", "finish")
    BY <1>2 DEF Return, ReturnPc
  <2> QED BY <1>1, <1>2, <2>1, Names, PcNames, GotoTyped, PlannerAssumption DEF TypeOK
<1>3. CASE t = "ltp_new"
  <2>1. Release("ltp_new", "wait_plan")
    BY <1>3 DEF Return, ReturnPc
  <2> QED BY <2>1, Names, PcNames, ReleaseTyped DEF TypeOK
<1>4. CASE t = "timer"
  <2>1. Release("timer", "idle")
    BY <1>4 DEF Return, ReturnPc
  <2> QED BY <2>1, Names, PcNames, ReleaseTyped DEF TypeOK
<1> QED BY <1>2, <1>3, <1>4 DEF Movers

\* move_pcb_to_ready keeps the types in every thread that runs it.
LEMMA MoverTyped == ASSUME NEW t \in Movers, TypeOK, Mover(t) PROVE TypeOK'
<1>1. t \in Threads
  BY Names DEF Movers
<1>2. ASSUME thread[t].pc \in MoverPc PROVE Hand(t) \in Pcbs /\ Hand(t) # NULL
  BY <1>1, <1>2, HandTyped, PlannerAssumption DEF HoldingPcs, Hand, TypeOK
<1>3. CASE move_pcb_to_ready__fifo(t)
  <2>1. thread[t].pc \in MoverPc /\ Hand(t) \in Pcbs
    BY <1>2, <1>3 DEF move_pcb_to_ready__fifo, At, MoverPc
  <2>2. pcb' \in [Pcbs -> PcbFields]
    BY <1>3, <2>1, StatusTyped DEF move_pcb_to_ready__fifo, Status
  <2>3. queue' \in [Queues -> Seq(Pcbs)]
    BY <1>3, <2>1, Names, PushTyped DEF move_pcb_to_ready__fifo
  <2>4. sem' \in [Semaphores -> Nat]
    BY <1>3, Names, PostTyped DEF move_pcb_to_ready__fifo
  <2>5. ThreadsTyped'
    BY <1>3, <2>1, ReturnTyped DEF move_pcb_to_ready__fifo
  <2> QED BY <1>3, <2>2, <2>3, <2>4, <2>5 DEF move_pcb_to_ready__fifo, TypeOK
<1>4. CASE SrtInsert(t)
  <2>1. thread[t].pc \in MoverPc /\ Hand(t) \in Pcbs /\ Hand(t) # NULL
    BY <1>2, <1>4 DEF SrtInsert, At, MoverPc
  <2>2. \A p \in Pcbs : pcb[p].burst \in Nat
    BY DEF TypeOK, PcbFields
  <2>3. queue["ready"] \in Seq(Pcbs)
    BY Names DEF TypeOK
  <2>4. InsertReady(queue["ready"], Hand(t), pcb) \in Seq(Pcbs)
    BY <2>1, <2>2, <2>3, InsertInOrder, InsertedTyped, SMTT(30)
  <2>5. queue' \in [Queues -> Seq(Pcbs)]
    BY <1>4, <2>4 DEF SrtInsert, TypeOK
  <2>6. ThreadsTyped'
    BY <1>1, <1>4, <2>1, PcNames, GotoTyped DEF SrtInsert, TypeOK, MoverPc, Hand
  <2> QED BY <1>4, <2>5, <2>6 DEF SrtInsert, TypeOK
<1>5. CASE SrtStatus(t)
  <2>1. thread[t].pc \in MoverPc /\ Hand(t) \in Pcbs /\ Hand(t) # NULL
    BY <1>2, <1>5 DEF SrtStatus, At, MoverPc
  <2>2. pcb' \in [Pcbs -> PcbFields]
    <3>1. pcb[Hand(t)] \in PcbFields /\ pcb[Hand(t)].status \in Status
          /\ "READY" \in Status
      BY <2>1 DEF TypeOK, PcbFields, Status
    <3>2. [pcb[Hand(t)] EXCEPT !.prev_status = pcb[Hand(t)].status,
                               !.status = "READY"] \in PcbFields
      BY <3>1 DEF PcbFields
    <3>3. [pcb EXCEPT ![Hand(t)].prev_status = pcb[Hand(t)].status,
                      ![Hand(t)].status = "READY"]
            = [pcb EXCEPT ![Hand(t)] =
                 [pcb[Hand(t)] EXCEPT !.prev_status = pcb[Hand(t)].status,
                                      !.status = "READY"]]
      BY <2>1 DEF TypeOK
    <3> QED BY <1>5, <2>1, <3>2, <3>3 DEF SrtStatus, TypeOK
  <2>3. ThreadsTyped'
    BY <1>1, <1>5, <2>1, PcNames, GotoTyped DEF SrtStatus, TypeOK, MoverPc, Hand
  <2> QED BY <1>5, <2>2, <2>3 DEF SrtStatus, TypeOK
<1>6. CASE SrtCheckBusy(t)
  <2>1. thread[t].pc \in MoverPc /\ Hand(t) # NULL
    BY <1>2, <1>6 DEF SrtCheckBusy, At, MoverPc
  <2>2. ThreadsTyped'
    BY <1>1, <1>6, <2>1, PcNames, GotoTyped DEF SrtCheckBusy, TypeOK, MoverPc, Hand
  <2> QED BY <1>6, <2>2 DEF SrtCheckBusy, TypeOK
<1>7. CASE SrtWaitInterrupt(t)
  <2>1. thread[t].pc \in MoverPc /\ Hand(t) # NULL
    BY <1>2, <1>7 DEF SrtWaitInterrupt, SemWait, At, MoverPc
  <2> QED BY <1>1, <1>7, <2>1, Names, PcNames, SemWaitTyped
          DEF SrtWaitInterrupt, MoverPc, Hand
<1>8. CASE SrtSendInterrupt(t)
  <2>1. thread[t].pc \in MoverPc /\ Hand(t) # NULL
    BY <1>2, <1>8 DEF SrtSendInterrupt, At, MoverPc
  <2>2. ThreadsTyped'
    BY <1>1, <1>8, <2>1, PcNames, GotoTyped DEF SrtSendInterrupt, TypeOK, MoverPc, Hand
  <2>3. core' \in CoreFields
    <3>1. core.signals + 1 \in Nat
      BY DEF TypeOK, CoreFields
    <3> QED BY <1>8, <3>1 DEF SrtSendInterrupt, TypeOK, CoreFields
  <2> QED BY <1>8, <2>2, <2>3 DEF SrtSendInterrupt, TypeOK
<1>9. CASE SrtFlagInterrupted(t)
  <2>1. thread[t].pc \in MoverPc /\ Hand(t) # NULL
    BY <1>2, <1>9 DEF SrtFlagInterrupted, At, MoverPc
  <2>2. ThreadsTyped'
    BY <1>1, <1>9, <2>1, PcNames, GotoTyped DEF SrtFlagInterrupted, TypeOK, MoverPc,
       Hand
  <2>3. cpu' \in [busy : BOOLEAN, interrupted : BOOLEAN]
    BY <1>9 DEF SrtFlagInterrupted, TypeOK
  <2> QED BY <1>9, <2>2, <2>3 DEF SrtFlagInterrupted, TypeOK
<1>10. CASE SrtPlan(t)
  <2>1. thread[t].pc \in MoverPc
    BY <1>10 DEF SrtPlan, At, MoverPc
  <2>2. sem' \in [Semaphores -> Nat]
    BY <1>10, Names, PostTyped DEF SrtPlan
  <2>3. ThreadsTyped'
    BY <1>10, <2>1, ReturnTyped DEF SrtPlan
  <2> QED BY <1>10, <2>2, <2>3 DEF SrtPlan, TypeOK
<1> QED BY Mover(t), <1>3, <1>4, <1>5, <1>6, <1>7, <1>8, <1>9, <1>10 DEF Mover

\* The short-term controller keeps the types.
LEMMA StpTyped == TypeOK /\ Stp => TypeOK'
<1> SUFFICES ASSUME TypeOK, Stp PROVE TypeOK'
  OBVIOUS
<1>1. CASE StpWaitPlan
  BY <1>1, Names, PcNames, SemWaitTyped DEF StpWaitPlan
<1>2. CASE StpWaitDispatch
  BY <1>2, Names, PcNames, SemWaitTyped DEF StpWaitDispatch
<1>3. CASE StpPop
  <2>1. Head(queue["ready"]) \in Pcbs /\ queue' \in [Queues -> Seq(Pcbs)]
    BY <1>3, Names, PopTyped DEF StpPop
  <2>2. pcb' \in [Pcbs -> PcbFields]
    BY <1>3, <2>1, StatusTyped DEF StpPop, Status
  <2>3. ThreadsTyped'
    BY <1>3, <2>1, Names, PcNames, GotoWithTyped DEF StpPop, TypeOK
  <2> QED BY <1>3, <2>1, <2>2, <2>3 DEF StpPop, TypeOK
<1>4. CASE cpu_dispatch_pcb
  <2>1. thread["stp"].pcb \in Pcbs
    BY <1>4, Names, PcNames, HandTyped DEF cpu_dispatch_pcb, At, TypeOK
  <2>2. core' \in CoreFields
    BY <1>4, <2>1 DEF cpu_dispatch_pcb, TypeOK, CoreFields, PcbFields, Hand
  <2>3. ThreadsTyped'
    BY <1>4, <2>1, Names, PcNames, GotoTyped, PlannerAssumption
       DEF cpu_dispatch_pcb, TypeOK
  <2> QED BY <1>4, <2>2, <2>3 DEF cpu_dispatch_pcb, TypeOK
<1>5. CASE cpu_listen_dispatch_async
  <2>1. ThreadsTyped'
    BY <1>5, PcNames, ZenonT(40) DEF cpu_listen_dispatch_async, ThreadsTyped, TypeOK, Threads, Pcs
  <2>2. cpu' \in [busy : BOOLEAN, interrupted : BOOLEAN]
    BY <1>5 DEF cpu_listen_dispatch_async, TypeOK
  <2> QED BY <1>5, <2>1, <2>2 DEF cpu_listen_dispatch_async, TypeOK
<1> QED BY <1>1, <1>2, <1>3, <1>4, <1>5 DEF Stp

\* The estimate of the next burst is a natural number (planner.c:911).
LEMMA EstimateTyped ==
    ASSUME NEW estimate \in Nat, NEW executed \in Nat
    PROVE  NextEstimatedBurst(estimate, executed) \in Nat
<1> DEFINE a == estimate * AlfaNum
           b == executed * (AlfaDen - AlfaNum)
<1>1. AlfaNum \in Nat /\ AlfaDen - AlfaNum \in Nat /\ AlfaDen \in Nat \ {0}
  BY PlannerAssumption
<1>2. a \in Nat /\ b \in Nat
  BY <1>1
<1>3. NextEstimatedBurst(estimate, executed) = (a + b) \div AlfaDen
  BY DEF NextEstimatedBurst
<1> HIDE DEF a, b
<1>4. \A x \in Nat, d \in Nat \ {0} : x \div d \in Nat
  OBVIOUS
<1> QED BY <1>1, <1>2, <1>3, <1>4

(***************************************************************************)
(* The CPU is used by one process at a time.                               *)
(***************************************************************************)
\* The CPU process only works for the pcb that planner->exec names.
CoreWorksForExec == core.pc # "idle" => exec # NULL

CpuInv == TypeOK /\ CpuExclusive /\ CoreWorksForExec

\* The CPU process keeps the types while it works for planner->exec.
LEMMA CpuTyped == CpuInv /\ Cpu => TypeOK'
<1> SUFFICES ASSUME CpuInv, Cpu PROVE TypeOK'
  OBVIOUS
<1> SUFFICES core' \in CoreFields /\ UNCHANGED <<pcb, queue, exec, sem, thread,
                                 io_timer, suspend_timer, cpu, console>>
  BY DEF CpuInv, TypeOK, ThreadsTyped
<1>1. core \in CoreFields
  BY DEF CpuInv, TypeOK
<1>2. CASE CpuReceive
  BY <1>1, <1>2 DEF CpuReceive, CoreFields
<1>3. CASE CpuInterrupt
  <2>1. core.signals - 1 \in Nat
    BY <1>1, <1>3 DEF CpuInterrupt, CoreFields
  <2> QED BY <1>1, <1>3, <2>1 DEF CpuInterrupt, CoreFields
<1>4. CASE \E cond \in Condition, burst \in Bursts : CpuReturn(cond, burst)
  <2> PICK cond \in Condition, burst \in Bursts : CpuReturn(cond, burst)
    BY <1>4
  <2> DEFINE done == IF cond = "EXIT_PROGRAM" THEN core.completed \cup {exec}
                     ELSE core.completed
  <2>1. exec \in Pcbs /\ burst \in Nat
    BY PlannerAssumption DEF CpuReturn, CpuInv, CoreWorksForExec, TypeOK
  <2>2. done \in SUBSET Pcbs
    BY <1>1, <2>1 DEF CoreFields
  <2>3. core' = [core EXCEPT !.pc = "returned", !.cond = cond, !.burst = burst,
                             !.hay_interrupcion = FALSE, !.completed = done]
    BY DEF CpuReturn
  <2> HIDE DEF done
  <2>4. core' \in CoreFields
    BY <1>1, <2>1, <2>2, <2>3 DEF CoreFields
  <2> QED BY <2>4 DEF CpuReturn
<1> QED BY <1>2, <1>3, <1>4 DEF Cpu

\* The listener keeps the types: it finds planner->exec when a pcb returns.
LEMMA DispatchTyped == CpuInv /\ Dispatch => TypeOK'
<1> SUFFICES ASSUME CpuInv, Dispatch PROVE TypeOK'
  OBVIOUS
<1>0. TypeOK
  BY DEF CpuInv
<1>h. ASSUME At("dispatch", "switch") \/ At("dispatch", "finish")
      PROVE  Hand("dispatch") \in Pcbs /\ Hand("dispatch") # NULL
  BY <1>0, <1>h, Names, PcNames, HandTyped, PlannerAssumption, SMTT(30) DEF At, Hand, TypeOK
<1>1. CASE cpu_recieve_pcb_async
  <2>1. exec \in Pcbs
    BY <1>1, <1>0 DEF cpu_recieve_pcb_async, CpuInv, CoreWorksForExec, TypeOK
  <2>2. core.cond \in Condition /\ core.burst \in Nat /\ core' \in CoreFields
    BY <1>0, <1>1 DEF cpu_recieve_pcb_async, TypeOK, CoreFields
  <2>3. pcb' \in [Pcbs -> PcbFields]
    <3> DEFINE b == IF Algoritmo = "SRT"
                    THEN NextEstimatedBurst(pcb[exec].burst, core.burst)
                    ELSE pcb[exec].burst
               r == [pcb[exec] EXCEPT !.cond = core.cond, !.burst = b]
    <3>1. pcb[exec] \in PcbFields /\ pcb[exec].burst \in Nat
      BY <1>0, <2>1 DEF TypeOK, PcbFields
    <3>2. b \in Nat
      BY <2>2, <3>1, EstimateTyped
    <3>3. pcb' = [pcb EXCEPT ![exec].cond = core.cond, ![exec].burst = b]
      BY <1>1 DEF cpu_recieve_pcb_async
    <3> HIDE DEF b
    <3>4. r \in PcbFields
      BY <2>2, <3>1, <3>2 DEF PcbFields
    <3>5. pcb' = [pcb EXCEPT ![exec] = r]
      BY <1>0, <2>1, <3>3 DEF TypeOK
    <3> HIDE DEF r
    <3> QED BY <1>0, <3>4, <3>5 DEF TypeOK
  <2>4. ThreadsTyped'
    BY <1>0, <1>1, <2>1, Names, PcNames, GotoWithTyped
       DEF cpu_recieve_pcb_async, TypeOK
  <2>5. cpu' \in [busy : BOOLEAN, interrupted : BOOLEAN]
    BY <1>0, <1>1 DEF cpu_recieve_pcb_async, TypeOK
  <2> QED BY <1>0, <1>1, <2>2, <2>3, <2>4, <2>5 DEF cpu_recieve_pcb_async, TypeOK
<1>2. CASE DispatchExit
  <2>1. At("dispatch", "switch")
    BY <1>2 DEF DispatchExit, Returned
  <2>2. /\ pcb' \in [Pcbs -> PcbFields] /\ queue' \in [Queues -> Seq(Pcbs)]
        /\ sem' \in [Semaphores -> Nat]
    BY <1>0, <1>2, <1>h, <2>1, ExitTyped DEF DispatchExit
  <2>3. ThreadsTyped'
    BY <1>0, <1>2, <1>h, <2>1, Names, PcNames, GotoTyped DEF DispatchExit, TypeOK, Hand
  <2> QED BY <1>0, <1>2, <2>2, <2>3 DEF DispatchExit, TypeOK
<1>3. CASE DispatchIo
  <2> DEFINE p == Hand("dispatch")
             k == pcb[p].blocks + 1
  <2>1. At("dispatch", "switch") /\ p \in Pcbs
    BY <1>3, <1>h DEF DispatchIo, Returned
  <2>2. k \in Nat
    BY <1>0, <2>1 DEF TypeOK, PcbFields
  <2>3. PICK started \in {TRUE, ~TimerMayFail} :
           /\ pcb' = [pcb EXCEPT ![p].status = "BLOCKED", ![p].blocks = k,
                                 ![p].timer = IF started THEN k ELSE 0]
           /\ suspend_timer' = IF started
                               THEN [suspend_timer EXCEPT ![p][k] = "sleeping"]
                               ELSE suspend_timer
    BY <1>3 DEF DispatchIo, move_pcb_to_blocked
  <2>4. pcb' \in [Pcbs -> PcbFields]
    <3> DEFINE t == IF started THEN k ELSE 0
               r == [pcb[p] EXCEPT !.status = "BLOCKED", !.blocks = k, !.timer = t]
    <3>1. pcb[p] \in PcbFields /\ t \in Nat /\ "BLOCKED" \in Status
      BY <1>0, <2>1, <2>2 DEF TypeOK, Status
    <3> HIDE DEF t, k, p
    <3>2. r \in PcbFields
      BY <2>2, <3>1 DEF PcbFields
    <3>3. pcb' = [pcb EXCEPT ![p] = r]
      BY <1>0, <2>1, <2>3 DEF TypeOK, t
    <3> HIDE DEF r
    <3> QED BY <1>0, <3>2, <3>3 DEF TypeOK
  <2>5. suspend_timer' \in [Pcbs -> [1 .. MaxIO -> TimerState]]
    BY <1>0, <2>1, <2>3, SuspendTimerTyped DEF TypeOK, TimerState
  <2>6. queue' \in [Queues -> Seq(Pcbs)] /\ sem' \in [Semaphores -> Nat]
    BY <1>0, <1>3, <2>1, Names, PushTyped, PostTyped DEF DispatchIo, move_pcb_to_blocked
  <2>7. ThreadsTyped'
    BY <1>0, <1>3, <1>h, <2>1, Names, PcNames, GotoTyped DEF DispatchIo, TypeOK, Hand
  <2> QED BY <1>0, <1>3, <2>4, <2>5, <2>6, <2>7 DEF DispatchIo, TypeOK
<1>4. CASE DispatchInterrupted
  <2>1. At("dispatch", "switch")
    BY <1>4 DEF DispatchInterrupted, Returned
  <2>2. ThreadsTyped'
    BY <1>0, <1>4, <1>h, <2>1, Names, PcNames, GotoTyped
       DEF DispatchInterrupted, TypeOK, Hand, Movers, MoverPc
  <2> QED BY <1>0, <1>4, <2>2 DEF DispatchInterrupted, TypeOK
<1>5. CASE DispatchError
  <2>1. At("dispatch", "switch")
    BY <1>5 DEF DispatchError, Returned
  <2>2. /\ pcb' \in [Pcbs -> PcbFields] /\ queue' \in [Queues -> Seq(Pcbs)]
        /\ sem' \in [Semaphores -> Nat]
    BY <1>0, <1>5, <1>h, <2>1, ExitTyped DEF DispatchError
  <2>3. ThreadsTyped'
    BY <1>0, <1>5, <1>h, <2>1, Names, PcNames, GotoTyped DEF DispatchError, TypeOK, Hand
  <2> QED BY <1>0, <1>5, <2>2, <2>3 DEF DispatchError, TypeOK
<1>6. CASE DispatchFinish
  <2> DEFINE p == Hand("dispatch")
             token == IF cpu.interrupted THEN sem["stp_interrupt"] + 1
                      ELSE sem["stp_interrupt"]
             next == sem["stp_dispatch"] + 1
  <2>1. p \in Pcbs
    BY <1>6, <1>h DEF DispatchFinish
  <2>2. pcb' \in [Pcbs -> PcbFields]
    <3>1. pcb[p] \in PcbFields /\ "NULL_CONDITION" \in Condition
      BY <1>0, <2>1 DEF TypeOK, Condition
    <3>2. [pcb[p] EXCEPT !.cond = "NULL_CONDITION"] \in PcbFields
      BY <3>1 DEF PcbFields
    <3>3. [pcb EXCEPT ![p].cond = "NULL_CONDITION"] \in [Pcbs -> PcbFields]
      BY <1>0, <3>2 DEF TypeOK
    <3> QED BY <1>0, <1>6, <3>3 DEF DispatchFinish, TypeOK
  <2>3. sem' \in [Semaphores -> Nat]
    <3>1. token \in Nat /\ next \in Nat
      BY <1>0, Names, SMTT(30) DEF TypeOK
    <3>2. sem' = [sem EXCEPT !["stp_interrupt"] = token, !["stp_dispatch"] = next]
      BY <1>6 DEF DispatchFinish
    <3> HIDE DEF token, next
    <3> QED BY <1>0, <3>1, <3>2 DEF TypeOK
  <2>4. ThreadsTyped'
    BY <1>0, <1>6, Names, PcNames, ReleaseTyped DEF DispatchFinish, TypeOK
  <2>5. cpu' \in [busy : BOOLEAN, interrupted : BOOLEAN]
    BY <1>0, <1>6 DEF DispatchFinish, TypeOK
  <2> QED BY <1>0, <1>6, <2>2, <2>3, <2>4, <2>5 DEF DispatchFinish, TypeOK
<1> QED BY <1>1, <1>2, <1>3, <1>4, <1>5, <1>6 DEF Dispatch

\* What a step has to leave alone for the CPU's own invariant to be kept.
CpuFrame ==
    /\ exec' = exec
    /\ sem'["stp_dispatch"] = sem["stp_dispatch"]
    /\ thread'["stp"] = thread["stp"]
    /\ thread'["dispatch"] = thread["dispatch"]
    /\ core'.pc # "idle" => core.pc # "idle"

\* Such a step keeps what is known of the CPU.
LEMMA CpuFramed ==
    CpuInv /\ CpuFrame => CpuExclusive' /\ CoreWorksForExec'
BY DEF CpuInv, CpuFrame, CpuExclusive, CoreWorksForExec, At, AnyAt

\* The long- and medium-term planners are such steps.
LEMMA OthersLeaveCpuAlone ==
    ASSUME TypeOK,
           \/ \E p \in Pcbs : ltp_new_process(p)
           \/ LtpNew \/ LtpExit \/ MtpBlocked \/ MtpTimer
    PROVE  CpuFrame
<1> USE DEF CpuFrame, Goto, GotoWith, Release, SemWait
<1>0. sem \in [Semaphores -> Nat] /\ DOMAIN thread = Threads
  BY DEF TypeOK, ThreadsTyped
<1> USE Names
<1>1. CASE \E p \in Pcbs : ltp_new_process(p)
  BY <1>0, <1>1 DEF ltp_new_process, move_pcb_to_new
<1>2. CASE LtpNew
  BY <1>0, <1>2 DEF LtpNew, LtpWaitPlan, LtpWaitLevel, LtpTakeSuspended, LtpTakeNew,
     LtpAdmit, LtpReject, LtpDiscard, move_pcb_to_exit
<1>3. CASE LtpExit
  BY <1>0, <1>3 DEF LtpExit, ExitWait, ExitPop, ExitFinish
<1>4. CASE MtpBlocked
  BY <1>0, <1>4, SMTT(30) DEF MtpBlocked, BlockedWaitPlanner, BlockedWaitIo, mtp_block_pcb,
     BlockFails, BlockFailExit, BlockFailRelease, move_pcb_to_exit
<1>5. CASE MtpTimer
  BY <1>0, <1>5 DEF MtpTimer, mtp_unblock_pcb, UnblockToReady, UnblockSuspended,
     UnblockError, SuspendTimerFires, mtp_suspend_pcb, SuspendCheck, SuspendSwapped,
     SuspendSwapFails, move_pcb_to_exit, move_pcb_to_suspended_ready,
     move_pcb_to_suspended_blocked
<1> QED BY <1>1, <1>2, <1>3, <1>4, <1>5

\* ... and move_pcb_to_ready, also in the listener itself.
LEMMA MoverLeavesCpuAlone ==
    ASSUME NEW t \in Movers, CpuInv, Mover(t)
    PROVE  CpuExclusive' /\ CoreWorksForExec'
<1>0. /\ sem \in [Semaphores -> Nat] /\ DOMAIN thread = Threads
      /\ \A r \in Threads : DOMAIN thread[r] = {"pc", "pcb"}
      /\ t \in Threads
  BY DEF CpuInv, TypeOK, ThreadsTyped, Movers, Threads
<1>1. /\ exec' = exec
      /\ sem'["stp_dispatch"] = sem["stp_dispatch"]
      /\ \A r \in Threads \ {t} : thread'[r] = thread[r]
      /\ core'.pc = core.pc
      /\ thread[t].pc \in MoverPc
      /\ thread'[t].pc \in MoverPc \cup {ReturnPc(t)}
  <2> USE <1>0, Names DEF Goto, GotoWith, Release, Return, At, MoverPc
  <2>1. CASE move_pcb_to_ready__fifo(t)
    BY <2>1 DEF move_pcb_to_ready__fifo
  <2>2. CASE SrtInsert(t) \/ SrtStatus(t) \/ SrtCheckBusy(t)
    BY <2>2 DEF SrtInsert, SrtStatus, SrtCheckBusy
  <2>3. CASE SrtWaitInterrupt(t) \/ SrtPlan(t)
    BY <2>3 DEF SrtWaitInterrupt, SrtPlan, SemWait
  <2>4. CASE SrtSendInterrupt(t)
    BY <2>4 DEF SrtSendInterrupt, CpuInv, TypeOK, CoreFields
  <2>5. CASE SrtFlagInterrupted(t)
    BY <2>5 DEF SrtFlagInterrupted
  <2> QED BY Mover(t), <2>1, <2>2, <2>3, <2>4, <2>5 DEF Mover
<1>2. thread'["stp"] = thread["stp"]
  BY <1>1, Names DEF Movers
<1>3. CASE t = "dispatch"
  <2>1. /\ thread["dispatch"].pc \notin {"idle", "listening"}
        /\ thread'["dispatch"].pc \notin {"idle", "listening"}
    BY <1>1, <1>3 DEF ReturnPc, MoverPc
  <2> QED BY <1>1, <1>2, <2>1
          DEF CpuInv, CpuExclusive, CoreWorksForExec, At, AnyAt, Num
<1>4. CASE t # "dispatch"
  <2>1. CpuFrame
    BY <1>1, <1>2, <1>4, Names DEF CpuFrame
  <2> QED BY <2>1, CpuFramed
<1> QED BY <1>3, <1>4

\* The controller takes stp_sem_dispatch before it writes planner->exec.
LEMMA StpKeepsCpuExclusive == CpuInv /\ Stp => CpuExclusive' /\ CoreWorksForExec'
<1> SUFFICES ASSUME CpuInv, Stp PROVE CpuExclusive' /\ CoreWorksForExec'
  OBVIOUS
<1>0. /\ TypeOK /\ sem \in [Semaphores -> Nat] /\ DOMAIN thread = Threads
      /\ \A r \in Threads : DOMAIN thread[r] = {"pc", "pcb"}
  BY DEF CpuInv, TypeOK, ThreadsTyped
<1> USE <1>0, Names DEF CpuInv, CpuExclusive, CoreWorksForExec, At, AnyAt, Num, Goto,
        GotoWith, SemWait
<1>1. CASE StpWaitPlan
  BY <1>1 DEF StpWaitPlan
<1>2. CASE StpWaitDispatch
  BY <1>2 DEF StpWaitDispatch
<1>3. CASE StpPop
  <2>1. Head(queue["ready"]) # NULL
    BY <1>3, PopTyped, PlannerAssumption DEF StpPop
  <2> QED BY <1>3, <2>1 DEF StpPop
<1>4. CASE cpu_dispatch_pcb
  BY <1>4 DEF cpu_dispatch_pcb
<1>5. CASE cpu_listen_dispatch_async
  BY <1>5 DEF cpu_listen_dispatch_async
<1> QED BY <1>1, <1>2, <1>3, <1>4, <1>5 DEF Stp

\* The listener clears planner->exec before it posts stp_sem_dispatch.
LEMMA DispatchKeepsCpuExclusive ==
    CpuInv /\ (Cpu \/ Dispatch) => CpuExclusive' /\ CoreWorksForExec'
<1> SUFFICES ASSUME CpuInv, Cpu \/ Dispatch PROVE CpuExclusive' /\ CoreWorksForExec'
  OBVIOUS
<1>0. /\ TypeOK /\ sem \in [Semaphores -> Nat] /\ DOMAIN thread = Threads
      /\ \A r \in Threads : DOMAIN thread[r] = {"pc", "pcb"}
      /\ core \in CoreFields
  BY DEF CpuInv, TypeOK, ThreadsTyped
<1>1. CASE Cpu
  BY <1>0, <1>1, CpuFramed DEF CpuFrame, Cpu, CpuReceive, CpuInterrupt, CpuReturn,
     CoreFields
<1> USE <1>0, Names DEF CpuInv, CpuExclusive, CoreWorksForExec, At, AnyAt, Num, Goto,
        GotoWith, Release
<1>2. CASE cpu_recieve_pcb_async
  BY <1>2 DEF cpu_recieve_pcb_async, CoreFields
<1>3. CASE DispatchExit \/ DispatchError
  BY <1>3 DEF DispatchExit, DispatchError, Returned, move_pcb_to_exit
<1>4. CASE DispatchIo
  BY <1>4 DEF DispatchIo, Returned, move_pcb_to_blocked
<1>5. CASE DispatchInterrupted
  BY <1>5 DEF DispatchInterrupted, Returned
<1>6. CASE DispatchFinish
  BY <1>6 DEF DispatchFinish
<1> QED BY <1>1, <1>2, <1>3, <1>4, <1>5, <1>6 DEF Dispatch

\* The planner starts with the CPU free and every field of its type.
LEMMA CpuInvInit == Init => CpuInv
<1> SUFFICES ASSUME Init PROVE CpuInv
  OBVIOUS
<1>1. TypeOK
  BY InitTyped
<1> QED BY <1>1, Names, PlannerAssumption DEF Init, InitState, CpuInv, CpuExclusive,
           CoreWorksForExec, At, AnyAt, Num

\* For every set of processes, both algorithms and with or without faults: the state
\* keeps its types, so no semaphore is negative and no thread works on a null pcb.
\* (That a CPU step keeps them needs the other two conjuncts of the invariant: the
\* listener and the CPU process use planner->exec, which must not be null then.)
LEMMA CpuInvStep == CpuInv /\ [Next]_vars => CpuInv'
<1> SUFFICES ASSUME CpuInv, [Next]_vars PROVE CpuInv'
  OBVIOUS
<1>0. TypeOK
  BY DEF CpuInv
<1>1. CASE \E p \in Pcbs : ltp_new_process(p)
  <2>1. TypeOK'
    <3> PICK p \in Pcbs : ltp_new_process(p)
      BY <1>1
    <3>1. pcb' \in [Pcbs -> PcbFields]
      <4>1. pcb[p] \in PcbFields /\ "NEW" \in Status
        BY <1>0 DEF TypeOK, Status
      <4>2. [pcb[p] EXCEPT !.status = "NEW", !.burst = EstimacionInicial]
               \in PcbFields
        BY <4>1, PlannerAssumption DEF PcbFields
      <4> QED BY <1>0, <4>2 DEF ltp_new_process, move_pcb_to_new, TypeOK
    <3>2. queue' \in [Queues -> Seq(Pcbs)]
      BY <1>0, Names, PushTyped DEF ltp_new_process, move_pcb_to_new
    <3>3. sem' \in [Semaphores -> Nat]
      BY <1>0, Names, PostTyped DEF ltp_new_process, move_pcb_to_new
    <3> QED BY <1>0, <3>1, <3>2, <3>3 DEF ltp_new_process, TypeOK, ThreadsTyped
  <2> QED BY <1>0, <1>1, <2>1, OthersLeaveCpuAlone, CpuFramed DEF CpuInv
<1>2. CASE LtpNew \/ LtpExit \/ MtpBlocked \/ MtpTimer
  BY <1>0, <1>2, LtpNewTyped, LtpExitTyped, MtpBlockedTyped, MtpTimerTyped,
     OthersLeaveCpuAlone, CpuFramed DEF CpuInv
<1>3. CASE \E t \in Movers : Mover(t)
  BY <1>0, <1>3, MoverTyped, MoverLeavesCpuAlone DEF CpuInv
<1>4. CASE Stp
  BY <1>0, <1>4, StpTyped, StpKeepsCpuExclusive DEF CpuInv
<1>5. CASE Cpu \/ Dispatch
  BY <1>5, CpuTyped, DispatchTyped, DispatchKeepsCpuExclusive DEF CpuInv
<1>6. CASE UNCHANGED vars
  BY <1>6 DEF vars, CpuInv, TypeOK, ThreadsTyped, CpuExclusive, CoreWorksForExec, At,
     AnyAt
<1> QED BY <1>1, <1>2, <1>3, <1>4, <1>5, <1>6 DEF Next, System

\* CpuInv holds of every reachable state.
LEMMA CpuInvariant == Spec => []CpuInv
BY CpuInvInit, CpuInvStep, PTL DEF Spec

\* The state of the planner keeps its types (planner.c, kernel_global.h) for every
\* value of the constants: no semaphore is negative, every thread is at a point of
\* its own code and has a pcb in hand where it uses one.
THEOREM TypeCorrect == Spec => []TypeOK
BY CpuInvariant, PTL DEF CpuInv

\* planner.c, stp_sem_dispatch: for every number of processes, under FIFO and SRT,
\* with or without faults, one pcb at a time is between its pop from READY and the
\* end of the handling of its return, and planner->exec is null outside of that.
THEOREM OneProcessOnCpu == Spec => []CpuExclusive
BY CpuInvariant, PTL DEF CpuInv

(***************************************************************************)
(* The interrupt token.                                                    *)
(***************************************************************************)
Interrupting == {t \in Movers : AnyAt(t, {"send", "flag"})}

\* Three threads move pcbs to READY.
LEMMA FiniteMovers ==
    /\ IsFiniteSet(Movers)
    /\ \A S \in SUBSET Movers : IsFiniteSet(S) /\ Cardinality(S) \in Nat
<1>1. IsFiniteSet(Movers)
  <2>1. Movers = (({} \cup {"ltp_new"}) \cup {"timer"}) \cup {"dispatch"}
    BY DEF Movers
  <2>2. IsFiniteSet(({} \cup {"ltp_new"}) \cup {"timer"})
    <3>1. IsFiniteSet({} \cup {"ltp_new"})
      BY FS_EmptySet, FS_AddElement
    <3> QED BY <3>1, FS_AddElement
  <2> QED BY <2>1, <2>2, FS_AddElement
<1> QED BY <1>1, FS_Subset, FS_CardinalityType

\* One more thread in a set of them.
LEMMA EnterSet ==
    ASSUME NEW S \in SUBSET Movers, NEW t \in Movers \ S
    PROVE  Cardinality(S \cup {t}) = Cardinality(S) + 1
BY FiniteMovers, FS_AddElement

\* One thread less.
LEMMA LeaveSet ==
    ASSUME NEW S \in SUBSET Movers, NEW t \in S
    PROVE  Cardinality(S \ {t}) = Cardinality(S) - 1 /\ Cardinality(S) > 0
<1>1. Cardinality(S \ {t}) = Cardinality(S) - 1
  BY FiniteMovers, FS_RemoveElement
<1>2. S \ {t} \in SUBSET Movers
  OBVIOUS
<1>3. Cardinality(S \ {t}) \in Nat /\ Cardinality(S) \in Nat
  BY <1>2, FiniteMovers
<1> QED BY <1>1, <1>3

TokenFrame ==
    /\ sem'["stp_interrupt"] = sem["stp_interrupt"]
    /\ cpu'.interrupted = cpu.interrupted
    /\ Interrupting' = Interrupting

\* A step that leaves the three places of the token alone keeps it.
LEMMA TokenFramed == InterruptToken /\ TokenFrame => InterruptToken'
BY DEF InterruptToken, TokenFrame, Interrupting

\* Every step moves the token from one of its places to another, or leaves it.
LEMMA InterruptTokenStep ==
    ASSUME CpuInv, InterruptToken, [Next]_vars
    PROVE  InterruptToken'
<1>0. /\ sem \in [Semaphores -> Nat] /\ DOMAIN thread = Threads
      /\ \A r \in Threads : DOMAIN thread[r] = {"pc", "pcb"}
      /\ cpu \in [busy : BOOLEAN, interrupted : BOOLEAN]
  BY DEF CpuInv, TypeOK, ThreadsTyped
<1> USE <1>0, Names DEF At, AnyAt, Goto, GotoWith, Release, SemWait
<1>1. CASE \E p \in Pcbs : ltp_new_process(p)
  <2>1. TokenFrame
    BY <1>1 DEF ltp_new_process, move_pcb_to_new, TokenFrame, Interrupting
  <2> QED BY <2>1, TokenFramed
<1>2. CASE LtpNew
  <2>1. TokenFrame
    BY <1>2 DEF LtpNew, LtpWaitPlan, LtpWaitLevel, LtpTakeSuspended, LtpTakeNew,
       LtpAdmit, LtpReject, LtpDiscard, move_pcb_to_exit, TokenFrame, Interrupting,
       Movers
  <2> QED BY <2>1, TokenFramed
<1>3. CASE LtpExit
  <2>1. TokenFrame
    BY <1>3, SMTT(30) DEF LtpExit, ExitWait, ExitPop, ExitFinish, TokenFrame, Interrupting,
       Movers
  <2> QED BY <2>1, TokenFramed
<1>4. CASE MtpBlocked
  <2>1. TokenFrame
    BY <1>4 DEF MtpBlocked, BlockedWaitPlanner, BlockedWaitIo, mtp_block_pcb,
       BlockFails, BlockFailExit, BlockFailRelease, move_pcb_to_exit, TokenFrame,
       Interrupting, Movers
  <2> QED BY <2>1, TokenFramed
<1>5. CASE MtpTimer
  <2>1. TokenFrame
    BY <1>5 DEF MtpTimer, mtp_unblock_pcb, UnblockToReady, UnblockSuspended,
       UnblockError, SuspendTimerFires, mtp_suspend_pcb, SuspendCheck, SuspendSwapped,
       SuspendSwapFails, move_pcb_to_exit, move_pcb_to_suspended_ready,
       move_pcb_to_suspended_blocked, TokenFrame, Interrupting, Movers
  <2> QED BY <2>1, TokenFramed
<1>6. CASE \E t \in Movers : Mover(t)
  <2> PICK t \in Movers : Mover(t)
    BY <1>6
  <2>0. t \in Threads /\ Interrupting \in SUBSET Movers
    BY DEF Movers, Threads, Interrupting
  <2> USE <2>0 DEF Interrupting
  <2>a. ASSUME thread[t].pc \in {"send", "flag"} <=> thread'[t].pc \in {"send", "flag"},
               \A r \in Threads \ {t} : thread'[r] = thread[r]
        PROVE  Interrupting' = Interrupting
    BY <2>a DEF Movers
  <2>1. CASE move_pcb_to_ready__fifo(t) \/ SrtPlan(t)
    <3>1. /\ thread[t].pc \in {"to_ready", "plan"}
          /\ thread'[t].pc = ReturnPc(t)
          /\ \A r \in Threads \ {t} : thread'[r] = thread[r]
      BY <2>1 DEF move_pcb_to_ready__fifo, SrtPlan, Return
    <3>2. Interrupting' = Interrupting
      BY <3>1, <2>a DEF ReturnPc
    <3>3. TokenFrame
      BY <2>1, <3>2 DEF move_pcb_to_ready__fifo, SrtPlan, TokenFrame
    <3> QED BY <3>3, TokenFramed
  <2>2. CASE SrtInsert(t) \/ SrtStatus(t) \/ SrtCheckBusy(t) \/ SrtSendInterrupt(t)
    <3>1. Interrupting' = Interrupting
      BY <2>2, <2>a DEF SrtInsert, SrtStatus, SrtCheckBusy, SrtSendInterrupt
    <3>2. TokenFrame
      BY <2>2, <3>1 DEF SrtInsert, SrtStatus, SrtCheckBusy, SrtSendInterrupt, TokenFrame
    <3> QED BY <3>2, TokenFramed
  <2>3. CASE SrtWaitInterrupt(t)
    <3>1. t \notin Interrupting /\ Interrupting' = Interrupting \cup {t}
      BY <2>3 DEF SrtWaitInterrupt
    <3>2. Cardinality(Interrupting') = Cardinality(Interrupting) + 1
      BY <3>1, EnterSet
    <3> QED BY <2>3, <3>2, FiniteMovers DEF SrtWaitInterrupt, InterruptToken, Num
  <2>4. CASE SrtFlagInterrupted(t)
    <3>1. t \in Interrupting /\ Interrupting' = Interrupting \ {t}
      BY <2>4 DEF SrtFlagInterrupted
    <3>2. /\ Cardinality(Interrupting') = Cardinality(Interrupting) - 1
          /\ Cardinality(Interrupting) > 0 /\ Cardinality(Interrupting) \in Nat
      BY <3>1, LeaveSet, FiniteMovers
    <3>3. sem["stp_interrupt"] \in Nat /\ Num(cpu.interrupted) \in {0, 1}
      BY DEF Num
    <3>4. sem["stp_interrupt"] + Num(cpu.interrupted) + Cardinality(Interrupting) = 1
      BY DEF InterruptToken
    <3>5. sem["stp_interrupt"] = 0 /\ Cardinality(Interrupting) = 1
      BY <3>2, <3>3, <3>4
    <3>6. cpu'.interrupted = TRUE /\ sem' = sem
      BY <2>4 DEF SrtFlagInterrupted
    <3> QED BY <3>2, <3>5, <3>6 DEF InterruptToken, Num
  <2> QED BY <2>1, <2>2, <2>3, <2>4 DEF Mover
<1>7. CASE Stp
  <2>1. CASE StpWaitPlan \/ StpWaitDispatch \/ StpPop \/ cpu_dispatch_pcb
    <3>1. TokenFrame
      BY <2>1 DEF StpWaitPlan, StpWaitDispatch, StpPop, cpu_dispatch_pcb, TokenFrame,
         Interrupting, Movers
    <3> QED BY <3>1, TokenFramed
  <2>2. CASE cpu_listen_dispatch_async
    <3>1. thread["dispatch"].pc = "idle"
      BY <2>2 DEF cpu_listen_dispatch_async, CpuInv, CpuExclusive, Num
    <3>2. TokenFrame
      BY <2>2, <3>1 DEF cpu_listen_dispatch_async, TokenFrame, Interrupting, Movers
    <3> QED BY <3>2, TokenFramed
  <2> QED BY <1>7, <2>1, <2>2 DEF Stp
<1>8. CASE Cpu
  <2>1. TokenFrame
    BY <1>8 DEF Cpu, CpuReceive, CpuInterrupt, CpuReturn, TokenFrame, Interrupting
  <2> QED BY <2>1, TokenFramed
<1>9. CASE Dispatch
  <2>1. CASE cpu_recieve_pcb_async \/ DispatchExit \/ DispatchIo \/ DispatchInterrupted
             \/ DispatchError
    <3>1. TokenFrame
      BY <2>1 DEF cpu_recieve_pcb_async, DispatchExit, DispatchIo, DispatchInterrupted,
         DispatchError, Returned, move_pcb_to_exit, move_pcb_to_blocked, TokenFrame,
         Interrupting, Movers
    <3> QED BY <3>1, TokenFramed
  <2>2. CASE DispatchFinish
    <3>1. Interrupting' = Interrupting
      BY <2>2 DEF DispatchFinish, Interrupting
    <3>2. /\ cpu'.interrupted = FALSE
          /\ sem'["stp_interrupt"] = sem["stp_interrupt"] + Num(cpu.interrupted)
      <4>1. CASE cpu.interrupted = TRUE
        BY <2>2, <4>1 DEF DispatchFinish, Num
      <4>2. CASE cpu.interrupted = FALSE
        BY <2>2, <4>2 DEF DispatchFinish, Num
      <4> QED BY <4>1, <4>2
    <3>3. /\ sem["stp_interrupt"] \in Nat /\ Num(cpu.interrupted) \in {0, 1}
          /\ Cardinality(Interrupting) \in Nat
      BY FiniteMovers DEF Num, Interrupting
    <3>4. Num(cpu'.interrupted) = 0
      BY <3>2 DEF Num
    <3>5. sem["stp_interrupt"] + Num(cpu.interrupted) + Cardinality(Interrupting) = 1
      BY DEF InterruptToken, Interrupting
    <3>6. sem'["stp_interrupt"] + Num(cpu'.interrupted) + Cardinality(Interrupting') = 1
      BY <3>1, <3>2, <3>3, <3>4, <3>5
    <3> QED BY <3>6 DEF InterruptToken, Interrupting
  <2> QED BY <1>9, <2>1, <2>2 DEF Dispatch
<1>10. CASE UNCHANGED vars
  BY <1>10 DEF vars, InterruptToken
<1> QED BY <1>1, <1>2, <1>3, <1>4, <1>5, <1>6, <1>7, <1>8, <1>9, <1>10
        DEF Next, System

\* stp_sem_interrupt (planner.c:352, 902, 934): whatever the number of threads that
\* insert in READY at once and wherever the CPU stands, one thread at most
\* interrupts it, and the semaphore is posted back exactly once.
THEOREM OneInterruptAtATime == Spec => []InterruptToken
<1>1. Init => InterruptToken
  <2> SUFFICES ASSUME Init PROVE InterruptToken
    OBVIOUS
  <2>1. Interrupting = {}
    BY DEF Init, InitState, Interrupting, AnyAt, Movers, Threads
  <2>2. sem["stp_interrupt"] = 1 /\ cpu.interrupted = FALSE
    BY Names DEF Init, InitState
  <2> QED BY <2>1, <2>2, FS_EmptySet DEF InterruptToken, Interrupting, Num
<1>2. CpuInv /\ InterruptToken /\ [Next]_vars => InterruptToken'
  BY InterruptTokenStep
<1> QED BY <1>1, <1>2, CpuInvariant, PTL DEF Spec


(***************************************************************************)
(* The counters of the queues.                                             *)
(***************************************************************************)
\* What holds of the types whichever step is taken.
LEMMA TypeFacts ==
    ASSUME TypeOK
    PROVE  /\ sem \in [Semaphores -> Nat] /\ DOMAIN thread = Threads
           /\ \A r \in Threads : DOMAIN thread[r] = {"pc", "pcb"}
           /\ queue \in [Queues -> Seq(Pcbs)]
           /\ \A q \in Queues : Len(queue[q]) \in Nat
<1>1. queue \in [Queues -> Seq(Pcbs)]
  BY DEF TypeOK
<1>2. \A q \in Queues : Len(queue[q]) \in Nat
  <2> TAKE q \in Queues
  <2>1. queue[q] \in Seq(Pcbs)
    BY <1>1
  <2> QED BY <2>1
<1> QED BY <1>1, <1>2 DEF TypeOK, ThreadsTyped

\* squeue_push makes its queue one longer and leaves the others alone.
LEMMA Pushed ==
    ASSUME TypeOK, NEW q \in Queues, NEW p, Push(q, p)
    PROVE  /\ Len(queue'[q]) = Len(queue[q]) + 1
           /\ \A r \in Queues \ {q} : queue'[r] = queue[r]
<1>1. queue[q] \in Seq(Pcbs)
  BY DEF TypeOK
<1>2. queue'[q] = Append(queue[q], p)
  BY DEF TypeOK, Push
<1> QED BY <1>1, <1>2 DEF TypeOK, Push

\* squeue_pop makes its queue one shorter.
LEMMA Popped ==
    ASSUME TypeOK, NEW q \in Queues, queue[q] # <<>>,
           queue' = [queue EXCEPT ![q] = Tail(@)]
    PROVE  /\ Len(queue'[q]) = Len(queue[q]) - 1
           /\ Len(queue[q]) \in Nat \ {0}
           /\ \A r \in Queues \ {q} : queue'[r] = queue[r]
<1>1. queue[q] \in Seq(Pcbs)
  BY DEF TypeOK
<1>2. queue'[q] = Tail(queue[q])
  BY DEF TypeOK
<1>3. Len(queue[q]) \in Nat \ {0} /\ Len(Tail(queue[q])) = Len(queue[q]) - 1
  BY <1>1
<1> QED BY <1>2, <1>3 DEF TypeOK

\* What a step of move_pcb_to_ready can touch: the READY queue, its semaphore, the
\* interrupt and the thread that runs it, which stays in the procedure or returns.
LEMMA MoverEffect ==
    ASSUME TypeOK, NEW t \in Movers, Mover(t)
    PROVE  /\ \A q \in Queues \ {"ready"} : queue'[q] = queue[q]
           /\ \A s \in Semaphores \ {"stp_plan", "stp_interrupt"} : sem'[s] = sem[s]
           /\ \A r \in Threads \ {t} : thread'[r] = thread[r]
           /\ thread[t].pc \in MoverPc
           /\ thread'[t].pc \in MoverPc \cup {ReturnPc(t)}
           /\ UNCHANGED <<exec, io_timer, suspend_timer, console>>
<1>0. t \in Threads
  BY DEF Movers, Threads
<1> USE <1>0, Names, TypeFacts DEF Goto, GotoWith, Release, Return, At, MoverPc
<1>1. CASE move_pcb_to_ready__fifo(t)
  BY <1>1, Pushed, SMTT(30) DEF move_pcb_to_ready__fifo
<1>2. CASE SrtInsert(t)
  BY <1>2 DEF SrtInsert
<1>3. CASE SrtStatus(t) \/ SrtCheckBusy(t) \/ SrtSendInterrupt(t)
           \/ SrtFlagInterrupted(t)
  BY <1>3, SMTT(30) DEF SrtStatus, SrtCheckBusy, SrtSendInterrupt, SrtFlagInterrupted
<1>4. CASE SrtWaitInterrupt(t) \/ SrtPlan(t)
  BY <1>4, SMTT(30) DEF SrtWaitInterrupt, SrtPlan, SemWait
<1> QED BY <1>1, <1>2, <1>3, <1>4 DEF Mover

NewFrame ==
    /\ queue'["new"] = queue["new"]
    /\ queue'["suspended_ready"] = queue["suspended_ready"]
    /\ sem'["ltp_plan"] = sem["ltp_plan"]
    /\ AnyAt("ltp_new", {"wait_level", "take"})'
          <=> AnyAt("ltp_new", {"wait_level", "take"})

\* Every step keeps the count of the two queues of the admissions.
LEMMA NewCountedStep ==
    ASSUME TypeOK, NewCounted, [Next]_vars
    PROVE  NewCounted'
<1> USE TypeFacts, Names DEF At, AnyAt, Goto, GotoWith, Release, SemWait
<1>a. NewFrame => NewCounted'
  BY DEF NewFrame, NewCounted, Num
<1>1. CASE \E p \in Pcbs : ltp_new_process(p)
  <2> PICK p \in Pcbs : ltp_new_process(p)
    BY <1>1
  <2>1. Push("new", p) /\ sem' = [sem EXCEPT !["ltp_plan"] = @ + 1] /\ thread' = thread
    BY DEF ltp_new_process, move_pcb_to_new
  <2>2. /\ Len(queue'["new"]) = Len(queue["new"]) + 1
        /\ queue'["suspended_ready"] = queue["suspended_ready"]
    BY <2>1, Pushed
  <2> QED BY <2>1, <2>2, SMTT(30) DEF NewCounted, Num
<1> DEFINE taken == Num(AnyAt("ltp_new", {"wait_level", "take"}))
           waiting == Len(queue["new"]) + Len(queue["suspended_ready"])
           posted == sem["ltp_plan"]
<1>b. /\ waiting = posted + taken
      /\ waiting \in Nat /\ posted \in Nat /\ taken \in Nat
  BY DEF NewCounted, Num
<1>c. NewCounted' <=> waiting' = posted' + taken'
  BY DEF NewCounted
<1>2. CASE LtpWaitPlan \/ LtpWaitLevel
  <2>1. CASE LtpWaitLevel
    BY <1>a, <2>1 DEF LtpWaitLevel, NewFrame
  <2>2. CASE LtpWaitPlan
    <3>1. waiting' = waiting /\ posted' = posted - 1 /\ taken = 0 /\ taken' = 1
      BY <2>2 DEF LtpWaitPlan, Num
    <3> HIDE DEF taken, waiting, posted
    <3> QED BY <1>b, <1>c, <3>1
  <2> QED BY <1>2, <2>1, <2>2
<1>3. CASE LtpTakeSuspended
  <2>1. /\ Len(queue'["suspended_ready"]) = Len(queue["suspended_ready"]) - 1
        /\ queue'["new"] = queue["new"]
    BY <1>3, Popped DEF LtpTakeSuspended
  <2>2. waiting' = waiting - 1 /\ posted' = posted /\ taken = 1 /\ taken' = 0
    BY <1>3, <2>1 DEF LtpTakeSuspended, Num
  <2> HIDE DEF taken, waiting, posted
  <2> QED BY <1>b, <1>c, <2>2
<1>4. CASE LtpTakeNew
  <2>1. CASE queue["new"] # <<>>
    <3>1. /\ Len(queue'["new"]) = Len(queue["new"]) - 1
          /\ queue'["suspended_ready"] = queue["suspended_ready"]
      BY <1>4, <2>1, Popped DEF LtpTakeNew
    <3>2. waiting' = waiting - 1 /\ posted' = posted /\ taken = 1 /\ taken' = 0
      BY <1>4, <2>1, <3>1, SMTT(30) DEF LtpTakeNew, Num
    <3> HIDE DEF taken, waiting, posted
    <3> QED BY <1>b, <1>c, <3>2
  <2>2. CASE queue["new"] = <<>>
    <3>1. waiting = 0 /\ taken = 1
      BY <1>4, <2>2 DEF LtpTakeNew, Num
    <3> HIDE DEF taken, waiting, posted
    <3> QED BY <1>b, <3>1
  <2> QED BY <2>1, <2>2
<1>5. CASE LtpAdmit \/ LtpReject \/ LtpDiscard
  BY <1>5, <1>a, Pushed, SMTT(30) DEF LtpAdmit, LtpReject, LtpDiscard, move_pcb_to_exit, NewFrame
<1>6. CASE LtpExit
  BY <1>6, <1>a, Popped, ZenonT(60) DEF LtpExit, ExitWait, ExitPop, ExitFinish, NewFrame
<1>7. CASE MtpBlocked
  <2>1. NewFrame
    BY <1>7 DEF MtpBlocked, BlockedWaitPlanner, BlockedWaitIo, mtp_block_pcb, BlockFails,
       BlockFailExit, BlockFailRelease, move_pcb_to_exit, Push, NewFrame
  <2> QED BY <1>a, <2>1
<1>8. CASE UnblockSuspended
  <2>1. /\ Push("suspended_ready", thread["timer"].pcb)
        /\ sem' = [sem EXCEPT !["ltp_plan"] = @ + 1]
        /\ thread'["ltp_new"] = thread["ltp_new"]
    BY <1>8 DEF UnblockSuspended, move_pcb_to_suspended_ready
  <2>2. /\ Len(queue'["suspended_ready"]) = Len(queue["suspended_ready"]) + 1
        /\ queue'["new"] = queue["new"]
    BY <2>1, Pushed
  <2> QED BY <2>1, <2>2, SMTT(30) DEF NewCounted, Num
<1>9. CASE MtpTimer /\ ~UnblockSuspended
  <2>1. NewFrame
    BY <1>9 DEF MtpTimer, mtp_unblock_pcb, UnblockToReady, UnblockError,
       SuspendTimerFires, mtp_suspend_pcb, SuspendCheck, SuspendSwapped,
       SuspendSwapFails, move_pcb_to_exit, move_pcb_to_suspended_blocked, Push, NewFrame
  <2> QED BY <1>a, <2>1
<1>10. CASE \E t \in Movers : Mover(t)
  <2> PICK t \in Movers : Mover(t)
    BY <1>10
  <2>1. NewFrame
    BY MoverEffect DEF NewFrame, MoverPc, ReturnPc
  <2> QED BY <1>a, <2>1
<1>11. CASE Stp
  BY <1>11, <1>a, Popped DEF Stp, StpWaitPlan, StpWaitDispatch, StpPop, cpu_dispatch_pcb,
     cpu_listen_dispatch_async, NewFrame
<1>12. CASE Cpu
  BY <1>12, <1>a DEF Cpu, CpuReceive, CpuInterrupt, CpuReturn, NewFrame
<1>13. CASE Dispatch
  BY <1>13, <1>a DEF Dispatch, cpu_recieve_pcb_async, DispatchExit, DispatchIo,
     DispatchInterrupted, DispatchError, DispatchFinish, Returned, move_pcb_to_exit,
     move_pcb_to_blocked, Push, NewFrame
<1>14. CASE UNCHANGED vars
  BY <1>14, <1>a DEF vars, NewFrame
<1> QED BY <1>1, <1>2, <1>3, <1>4, <1>5, <1>6, <1>7, <1>8, <1>9, <1>10, <1>11, <1>12,
           <1>13, <1>14 DEF Next, System, LtpNew

\* move_pcb_to_exit announces the pcb it queues.
LEMMA ExitEffect ==
    ASSUME TypeOK, NEW p, NEW err, move_pcb_to_exit(p, err)
    PROVE  /\ Len(queue'["exit"]) = Len(queue["exit"]) + 1
           /\ sem'["ltp_exit"] = sem["ltp_exit"] + 1
           /\ \A q \in Queues \ {"exit"} : queue'[q] = queue[q]
           /\ \A s \in Semaphores \ {"ltp_exit", "multiprogramming"} : sem'[s] = sem[s]
<1>1. Push("exit", p)
  BY DEF move_pcb_to_exit
<1> QED BY <1>1, Pushed, TypeFacts, Names DEF move_pcb_to_exit

\* Every step keeps the count of the queue of finished processes.
LEMMA ExitCountedStep ==
    ASSUME TypeOK, ExitCounted, [Next]_vars
    PROVE  ExitCounted'
<1> DEFINE taken == Num(At("ltp_exit", "pop"))
           waiting == Len(queue["exit"])
           posted == sem["ltp_exit"]
           frame == waiting' = waiting /\ posted' = posted /\ taken' = taken
           pushed == /\ waiting' = waiting + 1 /\ posted' = posted + 1
                     /\ taken' = taken
<1> USE TypeFacts, Names DEF At, AnyAt, Goto, GotoWith, Release, SemWait
<1>b. /\ waiting = posted + taken
      /\ waiting \in Nat /\ posted \in Nat /\ taken \in Nat
  BY DEF ExitCounted, Num
<1>c. ExitCounted' <=> waiting' = posted' + taken'
  BY DEF ExitCounted
<1>d. frame \/ pushed => ExitCounted'
  <2> HIDE DEF taken, waiting, posted
  <2> QED BY <1>b, <1>c, SMTT(30)
<1>1. CASE \E p \in Pcbs : ltp_new_process(p)
  <2>1. frame
    BY <1>1 DEF ltp_new_process, move_pcb_to_new, Push
  <2> QED BY <1>d, <2>1
<1>2. CASE LtpNew
  <2>1. CASE LtpReject
    <3>1. pushed
      BY <2>1, ExitEffect DEF LtpReject
    <3> QED BY <1>d, <3>1
  <2>2. CASE ~LtpReject
    <3>1. frame
      BY <1>2, <2>2 DEF LtpNew, LtpWaitPlan, LtpWaitLevel, LtpTakeSuspended, LtpTakeNew,
         LtpAdmit, LtpDiscard
    <3> QED BY <1>d, <3>1
  <2> QED BY <2>1, <2>2
<1>3. CASE ExitWait
  <2>1. waiting' = waiting /\ posted' = posted - 1 /\ taken = 0 /\ taken' = 1
    BY <1>3 DEF ExitWait, Num
  <2> HIDE DEF taken, waiting, posted
  <2> QED BY <1>b, <1>c, <2>1
<1>4. CASE ExitPop
  <2>1. CASE queue["exit"] # <<>>
    <3>1. Len(queue'["exit"]) = Len(queue["exit"]) - 1
      BY <1>4, <2>1, Popped DEF ExitPop
    <3>2. waiting' = waiting - 1 /\ posted' = posted /\ taken = 1 /\ taken' = 0
      BY <1>4, <2>1, <3>1, SMTT(30) DEF ExitPop, Num
    <3> HIDE DEF taken, waiting, posted
    <3> QED BY <1>b, <1>c, <3>2
  <2>2. CASE queue["exit"] = <<>>
    <3>1. waiting = 0 /\ taken = 1
      BY <1>4, <2>2 DEF ExitPop, Num
    <3> HIDE DEF taken, waiting, posted
    <3> QED BY <1>b, <3>1
  <2> QED BY <2>1, <2>2
<1>5. CASE ExitFinish
  <2>1. frame
    BY <1>5 DEF ExitFinish
  <2> QED BY <1>d, <2>1
<1>6. CASE MtpBlocked
  <2>1. CASE BlockFailExit
    <3>1. pushed
      BY <2>1, ExitEffect DEF BlockFailExit
    <3> QED BY <1>d, <3>1
  <2>2. CASE ~BlockFailExit
    <3>1. frame
      BY <1>6, <2>2 DEF MtpBlocked, BlockedWaitPlanner, BlockedWaitIo, mtp_block_pcb,
         BlockFails, BlockFailRelease
    <3> QED BY <1>d, <3>1
  <2> QED BY <2>1, <2>2
<1>7. CASE MtpTimer
  <2>1. CASE UnblockError \/ SuspendSwapFails
    <3>1. pushed
      BY <2>1, ExitEffect DEF UnblockError, SuspendSwapFails
    <3> QED BY <1>d, <3>1
  <2>2. CASE ~UnblockError /\ ~SuspendSwapFails
    <3>1. frame
      BY <1>7, <2>2 DEF MtpTimer, mtp_unblock_pcb, UnblockToReady, UnblockSuspended,
       SuspendTimerFires, mtp_suspend_pcb, SuspendCheck, SuspendSwapped,
       move_pcb_to_suspended_ready, move_pcb_to_suspended_blocked, Push
    <3> QED BY <1>d, <3>1
  <2> QED BY <2>1, <2>2
<1>8. CASE \E t \in Movers : Mover(t)
  <2> PICK t \in Movers : Mover(t)
    BY <1>8
  <2>1. frame
    BY MoverEffect DEF Movers
  <2> QED BY <1>d, <2>1
<1>9. CASE Stp \/ Cpu
  <2>1. frame
    BY <1>9 DEF Stp, StpWaitPlan, StpWaitDispatch, StpPop, cpu_dispatch_pcb,
       cpu_listen_dispatch_async, Cpu, CpuReceive, CpuInterrupt, CpuReturn
  <2> QED BY <1>d, <2>1
<1>10. CASE Dispatch
  <2>1. CASE DispatchExit \/ DispatchError
    <3>1. pushed
      BY <2>1, ExitEffect DEF DispatchExit, DispatchError, Returned
    <3> QED BY <1>d, <3>1
  <2>2. CASE ~DispatchExit /\ ~DispatchError
    <3>1. frame
      BY <1>10, <2>2 DEF Dispatch, cpu_recieve_pcb_async, DispatchIo,
         DispatchInterrupted, DispatchFinish, Returned, move_pcb_to_blocked, Push
    <3> QED BY <1>d, <3>1
  <2> QED BY <2>1, <2>2
<1>11. CASE UNCHANGED vars
  <2>1. frame
    BY <1>11 DEF vars
  <2> QED BY <1>d, <2>1
<1> QED BY <1>1, <1>2, <1>3, <1>4, <1>5, <1>6, <1>7, <1>8, <1>9, <1>10, <1>11
        DEF Next, System, LtpExit

\* Every step keeps the count of the queue of blocked processes.
LEMMA BlockedCountedStep ==
    ASSUME TypeOK, BlockedCounted, [Next]_vars
    PROVE  BlockedCounted'
<1> DEFINE taken == Num(AnyAt("mtp_blocked", {"wait_io", "pop"}))
           waiting == Len(queue["blocked"])
           posted == sem["mtp_planner"]
           frame == waiting' = waiting /\ posted' = posted /\ taken' = taken
<1> USE TypeFacts, Names DEF At, AnyAt, Goto, GotoWith, Release, SemWait
<1>b. /\ waiting = posted + taken
      /\ waiting \in Nat /\ posted \in Nat /\ taken \in Nat
  BY DEF BlockedCounted, Num
<1>c. BlockedCounted' <=> waiting' = posted' + taken'
  BY DEF BlockedCounted
<1>d. frame => BlockedCounted'
  <2> HIDE DEF taken, waiting, posted
  <2> QED BY <1>b, <1>c
<1>1. CASE \E p \in Pcbs : ltp_new_process(p)
  <2>1. frame
    BY <1>1 DEF ltp_new_process, move_pcb_to_new, Push
  <2> QED BY <1>d, <2>1
<1>2. CASE LtpNew
  <2>1. frame
    BY <1>2 DEF LtpNew, LtpWaitPlan, LtpWaitLevel, LtpTakeSuspended, LtpTakeNew,
       LtpAdmit, LtpReject, LtpDiscard, move_pcb_to_exit, Push
  <2> QED BY <1>d, <2>1
<1>3. CASE LtpExit
  <2>1. frame
    BY <1>3 DEF LtpExit, ExitWait, ExitPop, ExitFinish
  <2> QED BY <1>d, <2>1
<1>4. CASE BlockedWaitPlanner
  <2>1. waiting' = waiting /\ posted' = posted - 1 /\ taken = 0 /\ taken' = 1
    BY <1>4 DEF BlockedWaitPlanner, Num
  <2> HIDE DEF taken, waiting, posted
  <2> QED BY <1>b, <1>c, <2>1
<1>5. CASE BlockedWaitIo \/ BlockFailRelease
  <2>1. frame
    BY <1>5, SMTT(30) DEF BlockedWaitIo, BlockFailRelease
  <2> QED BY <1>d, <2>1
<1>6. CASE mtp_block_pcb \/ BlockFails
  <2>1. Len(queue'["blocked"]) = Len(queue["blocked"]) - 1
    BY <1>6, Popped DEF mtp_block_pcb, BlockFails
  <2>2. waiting' = waiting - 1 /\ posted' = posted /\ taken = 1 /\ taken' = 0
    BY <1>6, <2>1, SMTT(30) DEF mtp_block_pcb, BlockFails, Num
  <2> HIDE DEF taken, waiting, posted
  <2> QED BY <1>b, <1>c, <2>2
<1>7. CASE BlockFailExit
  <2>1. frame
    BY <1>7 DEF BlockFailExit, move_pcb_to_exit, Push
  <2> QED BY <1>d, <2>1
<1>8. CASE MtpTimer
  <2>1. frame
    BY <1>8 DEF MtpTimer, mtp_unblock_pcb, UnblockToReady, UnblockSuspended,
       UnblockError, SuspendTimerFires, mtp_suspend_pcb, SuspendCheck, SuspendSwapped,
       SuspendSwapFails, move_pcb_to_exit, move_pcb_to_suspended_ready,
       move_pcb_to_suspended_blocked, Push
  <2> QED BY <1>d, <2>1
<1>9. CASE \E t \in Movers : Mover(t)
  <2> PICK t \in Movers : Mover(t)
    BY <1>9
  <2>1. frame
    BY MoverEffect DEF Movers
  <2> QED BY <1>d, <2>1
<1>10. CASE Stp \/ Cpu
  <2>1. frame
    BY <1>10 DEF Stp, StpWaitPlan, StpWaitDispatch, StpPop, cpu_dispatch_pcb,
       cpu_listen_dispatch_async, Cpu, CpuReceive, CpuInterrupt, CpuReturn
  <2> QED BY <1>d, <2>1
<1>11. CASE DispatchIo
  <2>1. Push("blocked", Hand("dispatch"))
    BY <1>11 DEF DispatchIo, move_pcb_to_blocked
  <2>2. waiting' = waiting + 1 /\ posted' = posted + 1 /\ taken' = taken
    BY <1>11, <2>1, Pushed DEF DispatchIo, move_pcb_to_blocked
  <2> HIDE DEF taken, waiting, posted
  <2> QED BY <1>b, <1>c, <2>2
<1>12. CASE Dispatch /\ ~DispatchIo
  <2>1. frame
    BY <1>12 DEF Dispatch, cpu_recieve_pcb_async, DispatchExit, DispatchInterrupted,
       DispatchError, DispatchFinish, Returned, move_pcb_to_exit, Push
  <2> QED BY <1>d, <2>1
<1>13. CASE UNCHANGED vars
  <2>1. frame
    BY <1>13 DEF vars
  <2> QED BY <1>d, <2>1
<1> QED BY <1>1, <1>2, <1>3, <1>4, <1>5, <1>6, <1>7, <1>8, <1>9, <1>10, <1>11, <1>12,
           <1>13 DEF Next, System, MtpBlocked

\* Where a thread is after Goto ...
LEMMA GotoMoves ==
    ASSUME TypeOK, NEW t \in Threads, NEW pc, Goto(t, pc)
    PROVE  /\ thread'[t].pc = pc /\ thread'[t].pcb = thread[t].pcb
           /\ \A r \in Threads \ {t} : thread'[r] = thread[r]
BY TypeFacts DEF Goto

\* ... and after GotoWith and Release.
LEMMA GotoWithMoves ==
    ASSUME TypeOK, NEW t \in Threads, NEW pc, NEW p, GotoWith(t, pc, p)
    PROVE  /\ thread'[t].pc = pc /\ thread'[t].pcb = p
           /\ \A r \in Threads \ {t} : thread'[r] = thread[r]
BY TypeFacts DEF GotoWith

\* Each part of the planner moves its own thread.
LEMMA OwnThread ==
    ASSUME TypeOK
    PROVE  /\ LtpNew => \A r \in Threads \ {"ltp_new"} : thread'[r] = thread[r]
           /\ LtpExit => \A r \in Threads \ {"ltp_exit"} : thread'[r] = thread[r]
           /\ MtpBlocked => \A r \in Threads \ {"mtp_blocked"} : thread'[r] = thread[r]
           /\ MtpTimer => \A r \in Threads \ {"timer"} : thread'[r] = thread[r]
           /\ Dispatch => \A r \in Threads \ {"dispatch"} : thread'[r] = thread[r]
           /\ Stp => \A r \in Threads \ {"stp", "dispatch"} : thread'[r] = thread[r]
           /\ Cpu => thread' = thread
<1> USE TypeFacts, Names DEF Goto, GotoWith, Release, SemWait
<1>1. LtpNew => \A r \in Threads \ {"ltp_new"} : thread'[r] = thread[r]
  BY DEF LtpNew, LtpWaitPlan, LtpWaitLevel, LtpTakeSuspended, LtpTakeNew, LtpAdmit,
         LtpReject, LtpDiscard
<1>2. LtpExit => \A r \in Threads \ {"ltp_exit"} : thread'[r] = thread[r]
  BY DEF LtpExit, ExitWait, ExitPop, ExitFinish
<1>3. MtpBlocked => \A r \in Threads \ {"mtp_blocked"} : thread'[r] = thread[r]
  BY DEF MtpBlocked, BlockedWaitPlanner, BlockedWaitIo, mtp_block_pcb, BlockFails,
         BlockFailExit, BlockFailRelease
<1>4. MtpTimer => \A r \in Threads \ {"timer"} : thread'[r] = thread[r]
  BY DEF MtpTimer, mtp_unblock_pcb, UnblockToReady, UnblockSuspended, UnblockError,
         SuspendTimerFires, mtp_suspend_pcb, SuspendCheck, SuspendSwapped,
         SuspendSwapFails
<1>5. Dispatch => \A r \in Threads \ {"dispatch"} : thread'[r] = thread[r]
  BY DEF Dispatch, cpu_recieve_pcb_async, DispatchExit, DispatchIo,
         DispatchInterrupted, DispatchError, DispatchFinish
<1>6. Stp => \A r \in Threads \ {"stp", "dispatch"} : thread'[r] = thread[r]
  BY DEF Stp, StpWaitPlan, StpWaitDispatch, StpPop, cpu_dispatch_pcb,
         cpu_listen_dispatch_async
<1>7. Cpu => thread' = thread
  BY DEF Cpu, CpuReceive, CpuInterrupt, CpuReturn
<1> QED BY <1>1, <1>2, <1>3, <1>4, <1>5, <1>6, <1>7

\* No step but those of move_pcb_to_ready itself enters or leaves it after its
\* insertion.
LEMMA OthersDoNotAnnounce ==
    ASSUME CpuInv, [Next]_vars, \A t \in Movers : ~Mover(t)
    PROVE  Announcing' = Announcing
<1> DEFINE inside == MoverPc \ {"to_ready"}
<1>a. ASSUME NEW t \in Movers,
             thread'[t].pc \notin inside, thread[t].pc \notin inside,
             \A r \in Threads \ {t} : thread'[r] = thread[r]
      PROVE  Announcing' = Announcing
  BY <1>a DEF Announcing, AnyAt, Movers, Threads
<1>b. (\A r \in Movers : thread'[r] = thread[r]) => Announcing' = Announcing
  BY DEF Announcing, AnyAt
<1>0. TypeOK
  BY DEF CpuInv
<1>1. CASE (\E p \in Pcbs : ltp_new_process(p)) \/ Cpu \/ UNCHANGED vars
  BY <1>0, <1>1, <1>b, OwnThread DEF ltp_new_process, vars
<1>2. CASE LtpNew
  <2>1. /\ thread["ltp_new"].pc \in {"wait_plan", "wait_level", "take", "page_table",
                                     "discard"}
        /\ thread'["ltp_new"].pc \in {"wait_plan", "wait_level", "take", "page_table",
                                      "discard", "to_ready"}
    <3> USE <1>0, Names DEF At
    <3>1. CASE LtpWaitPlan \/ LtpWaitLevel
      BY <3>1, GotoMoves DEF LtpWaitPlan, LtpWaitLevel, SemWait
    <3>2. CASE LtpTakeSuspended \/ LtpTakeNew
      <4>1. \/ GotoWith("ltp_new", "to_ready", Head(queue["suspended_ready"]))
            \/ GotoWith("ltp_new", "page_table", Head(queue["new"]))
            \/ Goto("ltp_new", "wait_plan")
        BY <3>2 DEF LtpTakeSuspended, LtpTakeNew
      <4>2. thread["ltp_new"].pc = "take"
        BY <3>2 DEF LtpTakeSuspended, LtpTakeNew
      <4> QED BY <4>1, <4>2, GotoMoves, GotoWithMoves
    <3>3. CASE LtpAdmit \/ LtpReject \/ LtpDiscard
      BY <3>3, GotoMoves, GotoWithMoves DEF LtpAdmit, LtpReject, LtpDiscard, Release
    <3> QED BY <1>2, <3>1, <3>2, <3>3 DEF LtpNew
  <2>2. thread'["ltp_new"].pc \notin inside /\ thread["ltp_new"].pc \notin inside
    BY <2>1 DEF MoverPc
  <2> QED BY <1>0, <1>2, <2>2, <1>a, OwnThread DEF Movers
<1>3. CASE LtpExit \/ MtpBlocked
  BY <1>0, <1>3, <1>b, OwnThread DEF Movers, Threads
<1>4. CASE MtpTimer
  <2>1. CASE \E p \in Pcbs, k \in 1 .. MaxIO : SuspendTimerFires(p, k)
    BY <2>1, <1>b DEF SuspendTimerFires
  <2>2. CASE ~ \E p \in Pcbs, k \in 1 .. MaxIO : SuspendTimerFires(p, k)
    <3>1. /\ thread["timer"].pc \in {"idle", "unblock", "suspend", "swap"}
          /\ thread'["timer"].pc \in {"idle", "unblock", "suspend", "swap", "to_ready"}
      <4> USE <1>0, Names, GotoMoves, GotoWithMoves DEF At, Release
      <4>1. CASE \E p \in Pcbs : mtp_unblock_pcb(p)
        BY <4>1 DEF mtp_unblock_pcb
      <4>2. CASE UnblockToReady \/ UnblockSuspended \/ UnblockError
        BY <4>2 DEF UnblockToReady, UnblockSuspended, UnblockError
      <4>3. CASE \E p \in Pcbs, k \in 1 .. MaxIO : mtp_suspend_pcb(p, k)
        BY <4>3 DEF mtp_suspend_pcb
      <4>4. CASE SuspendCheck \/ SuspendSwapped \/ SuspendSwapFails
        BY <4>4 DEF SuspendCheck, SuspendSwapped, SuspendSwapFails
      <4> QED BY <1>4, <2>2, <4>1, <4>2, <4>3, <4>4 DEF MtpTimer
    <3>2. thread'["timer"].pc \notin inside /\ thread["timer"].pc \notin inside
      BY <3>1 DEF MoverPc
    <3> QED BY <1>0, <1>4, <3>2, <1>a, OwnThread DEF Movers
  <2> QED BY <2>1, <2>2
<1>5. CASE Stp
  <2>1. CASE cpu_listen_dispatch_async
    <3>1. thread["dispatch"].pc = "idle" /\ thread'["dispatch"].pc = "listening"
      BY <1>0, <2>1, TypeFacts, Names, SMTT(30)
         DEF cpu_listen_dispatch_async, CpuInv, CpuExclusive, Num, At, AnyAt
    <3> QED BY <1>0, <1>5, <3>1, OwnThread DEF Announcing, AnyAt, MoverPc, Movers, Threads
  <2>2. CASE ~cpu_listen_dispatch_async
    <3>1. thread'["dispatch"] = thread["dispatch"]
      BY <1>0, <1>5, <2>2, TypeFacts, Names
         DEF Stp, StpWaitPlan, StpWaitDispatch, StpPop, cpu_dispatch_pcb, SemWait, Goto,
             GotoWith
    <3> QED BY <1>0, <1>5, <3>1, <1>b, OwnThread DEF Movers, Threads
  <2> QED BY <2>1, <2>2
<1>6. CASE Dispatch
  <2>1. /\ thread["dispatch"].pc \in {"listening", "switch", "finish"}
        /\ thread'["dispatch"].pc \in {"idle", "switch", "finish", "to_ready"}
    <3> USE <1>0, Names, GotoMoves, GotoWithMoves DEF At, Release
    <3>1. CASE cpu_recieve_pcb_async \/ DispatchFinish
      BY <3>1 DEF cpu_recieve_pcb_async, DispatchFinish
    <3>2. CASE DispatchExit \/ DispatchIo \/ DispatchInterrupted \/ DispatchError
      BY <3>2 DEF DispatchExit, DispatchIo, DispatchInterrupted, DispatchError, Returned
    <3> QED BY <1>6, <3>1, <3>2 DEF Dispatch
  <2>2. thread'["dispatch"].pc \notin inside /\ thread["dispatch"].pc \notin inside
    BY <2>1 DEF MoverPc
  <2> QED BY <1>0, <1>6, <2>2, <1>a, OwnThread DEF Movers
<1> QED BY <1>1, <1>2, <1>3, <1>4, <1>5, <1>6 DEF Next, System

\* squeue_insert_in_order makes the READY queue one longer.
LEMMA ReadyInsertion ==
    ASSUME TypeOK, NEW p \in Pcbs
    PROVE  Len(InsertReady(queue["ready"], p, pcb)) = Len(queue["ready"]) + 1
<1>1. queue["ready"] \in Seq(Pcbs)
  BY Names DEF TypeOK
<1>2. \A r \in Pcbs : pcb[r].burst \in Nat
  BY DEF TypeOK, PcbFields
<1>3. PICK k \in 1 .. Len(queue["ready"]) + 1 :
         InsertReady(queue["ready"], p, pcb) = Inserted(queue["ready"], p, k)
  BY <1>1, <1>2, InsertInOrder
<1> QED BY <1>1, <1>3, InsertedTyped

\* Every step keeps the count of the READY queue. A thread that inserted a pcb and
\* did not post it yet accounts for the difference, however long it stays between
\* the two: another may insert, and the controller pop, in the meantime.
LEMMA ReadyCountedStep ==
    ASSUME CpuInv, ReadyCounted, [Next]_vars
    PROVE  ReadyCounted'
<1>0. TypeOK /\ Announcing \in SUBSET Movers /\ Cardinality(Announcing) \in Nat
  BY FiniteMovers DEF CpuInv, Announcing
<1> DEFINE taken == Num(AnyAt("stp", {"wait_dispatch", "pop"}))
           waiting == Len(queue["ready"])
           posted == sem["stp_plan"]
           inside == Cardinality(Announcing)
           frame == /\ waiting' = waiting /\ posted' = posted /\ taken' = taken
                    /\ inside' = inside
<1>e. /\ waiting \in Nat /\ posted \in Nat /\ taken \in Nat /\ inside \in Nat
      /\ waiting = posted + taken + inside
      => /\ waiting + 1 = (posted + 1) + taken + inside
         /\ waiting + 1 = posted + taken + (inside + 1)
         /\ waiting = (posted + 1) + taken + (inside - 1)
  <2> HIDE DEF taken, waiting, posted, inside
  <2> QED OBVIOUS
<1> USE <1>0, TypeFacts, Names DEF At, AnyAt, Goto, GotoWith, Release, SemWait
<1>b. /\ waiting = posted + taken + inside
      /\ waiting \in Nat /\ posted \in Nat /\ taken \in Nat /\ inside \in Nat
  BY DEF ReadyCounted, Num
<1>c. ReadyCounted' <=> waiting' = posted' + taken' + inside'
  BY DEF ReadyCounted
<1>d. frame => ReadyCounted'
  <2> HIDE DEF taken, waiting, posted, inside
  <2> QED BY <1>b, <1>c
<1>1. CASE \E t \in Movers : Mover(t)
  <2> PICK t \in Movers : Mover(t)
    BY <1>1
  <2>0. /\ t \in Threads /\ \A r \in Threads \ {t} : thread'[r] = thread[r]
        /\ taken' = taken
    BY MoverEffect DEF Movers, Threads
  <2>1. CASE move_pcb_to_ready__fifo(t)
    <3>1. Push("ready", Hand(t)) /\ sem' = [sem EXCEPT !["stp_plan"] = @ + 1]
      BY <2>1 DEF move_pcb_to_ready__fifo
    <3>2. thread[t].pc = "to_ready" /\ thread'[t].pc = ReturnPc(t)
      BY <2>0, <2>1, SMTT(30) DEF move_pcb_to_ready__fifo, Return
    <3>3. Announcing' = Announcing
      <4>1. thread'[t].pc \notin MoverPc
        BY <3>2 DEF MoverPc, ReturnPc
      <4>2. thread[t].pc \notin MoverPc \ {"to_ready"}
        BY <3>2
      <4> QED BY <2>0, <4>1, <4>2 DEF Announcing, Movers, Threads
    <3>4. /\ waiting' = waiting + 1 /\ posted' = posted + 1 /\ inside' = inside
      BY <3>1, <3>3, Pushed
    <3> HIDE DEF taken, waiting, posted, inside
    <3>5. waiting + 1 = (posted + 1) + taken + inside
      BY <1>b, <1>e, Zenon
    <3> QED BY <1>c, <2>0, <3>4, <3>5, Zenon
  <2>2. CASE SrtInsert(t)
    <3>1. Hand(t) \in Pcbs
      BY <2>0, <2>2, HandTyped, PcNames DEF SrtInsert, Hand, TypeOK
    <3>2. Announcing' = Announcing \cup {t} /\ t \notin Announcing
      BY <2>0, <2>2 DEF SrtInsert, Announcing, MoverPc
    <3>3. inside' = inside + 1
      BY <3>2, EnterSet
    <3>4. waiting' = waiting + 1 /\ posted' = posted
      <4>1. sem' = sem /\ queue' = [queue EXCEPT !["ready"] = InsertReady(@, Hand(t), pcb)]
        BY <2>2 DEF SrtInsert
      <4>2. queue'["ready"] = InsertReady(queue["ready"], Hand(t), pcb)
        BY <4>1 DEF TypeOK
      <4>3. Len(queue'["ready"]) = Len(queue["ready"]) + 1
        BY <3>1, <4>2, ReadyInsertion, Zenon
      <4> QED BY <4>1, <4>3
    <3> HIDE DEF taken, waiting, posted, inside
    <3>5. waiting + 1 = posted + taken + (inside + 1)
      BY <1>b, <1>e, Zenon
    <3> QED BY <1>c, <2>0, <3>3, <3>4, <3>5, Zenon
  <2>3. CASE SrtStatus(t) \/ SrtCheckBusy(t) \/ SrtWaitInterrupt(t)
             \/ SrtSendInterrupt(t) \/ SrtFlagInterrupted(t)
    <3>1. /\ queue' = queue /\ sem'["stp_plan"] = sem["stp_plan"]
          /\ thread[t].pc \in MoverPc \ {"to_ready"}
          /\ thread'[t].pc \in MoverPc \ {"to_ready"}
      BY <2>0, <2>3, SMTT(30) DEF SrtStatus, SrtCheckBusy, SrtWaitInterrupt, SrtSendInterrupt,
         SrtFlagInterrupted, MoverPc
    <3>2. Announcing' = Announcing
      BY <2>0, <3>1, SMTT(30) DEF Announcing, Movers
    <3> QED BY <1>d, <2>0, <3>1, <3>2
  <2>4. CASE SrtPlan(t)
    <3>1. thread[t].pc = "plan" /\ thread'[t].pc = ReturnPc(t)
      BY <2>0, <2>4, SMTT(30) DEF SrtPlan, Return
    <3>2. Announcing' = Announcing \ {t} /\ t \in Announcing
      BY <2>0, <3>1, SMTT(30) DEF Announcing, MoverPc, ReturnPc, Movers
    <3>3. inside' = inside - 1
      BY <3>2, LeaveSet
    <3>4. waiting' = waiting /\ posted' = posted + 1
      BY <2>4 DEF SrtPlan
    <3> HIDE DEF taken, waiting, posted, inside
    <3>5. waiting = (posted + 1) + taken + (inside - 1)
      BY <1>b, <1>e, Zenon
    <3> QED BY <1>c, <2>0, <3>3, <3>4, <3>5, Zenon
  <2> QED BY <2>1, <2>2, <2>3, <2>4 DEF Mover
<1>2. CASE \A t \in Movers : ~Mover(t)
  <2>0. inside' = inside
    BY <1>2, OthersDoNotAnnounce
  <2>1. CASE \E p \in Pcbs : ltp_new_process(p)
    <3>1. frame
      BY <2>0, <2>1 DEF ltp_new_process, move_pcb_to_new, Push
    <3> QED BY <1>d, <3>1
  <2>2. CASE LtpNew
    <3>1. frame
      BY <2>0, <2>2 DEF LtpNew, LtpWaitPlan, LtpWaitLevel, LtpTakeSuspended, LtpTakeNew,
         LtpAdmit, LtpReject, LtpDiscard, move_pcb_to_exit, Push
    <3> QED BY <1>d, <3>1
  <2>3. CASE LtpExit
    <3>1. frame
      BY <2>0, <2>3 DEF LtpExit, ExitWait, ExitPop, ExitFinish
    <3> QED BY <1>d, <3>1
  <2>4. CASE MtpBlocked
    <3>1. frame
      BY <2>0, <2>4 DEF MtpBlocked, BlockedWaitPlanner, BlockedWaitIo, mtp_block_pcb,
         BlockFails, BlockFailExit, BlockFailRelease, move_pcb_to_exit, Push
    <3> QED BY <1>d, <3>1
  <2>5. CASE MtpTimer
    <3>1. frame
      BY <2>0, <2>5 DEF MtpTimer, mtp_unblock_pcb, UnblockToReady, UnblockSuspended,
         UnblockError, SuspendTimerFires, mtp_suspend_pcb, SuspendCheck, SuspendSwapped,
         SuspendSwapFails, move_pcb_to_exit, move_pcb_to_suspended_ready,
         move_pcb_to_suspended_blocked, Push
    <3> QED BY <1>d, <3>1
  <2>6. CASE StpWaitPlan
    <3>1. waiting' = waiting /\ posted' = posted - 1 /\ taken = 0 /\ taken' = 1
      BY <2>6 DEF StpWaitPlan, Num
    <3> HIDE DEF taken, waiting, posted, inside
    <3> QED BY <1>b, <1>c, <2>0, <3>1
  <2>7. CASE StpPop
    <3>1. Len(queue'["ready"]) = Len(queue["ready"]) - 1
      BY <2>7, Popped DEF StpPop
    <3>2. waiting' = waiting - 1 /\ posted' = posted /\ taken = 1 /\ taken' = 0
      BY <2>7, <3>1 DEF StpPop, Num
    <3> HIDE DEF taken, waiting, posted, inside
    <3> QED BY <1>b, <1>c, <2>0, <3>2
  <2>8. CASE StpWaitDispatch \/ cpu_dispatch_pcb \/ cpu_listen_dispatch_async
    <3>1. frame
      BY <2>0, <2>8, SMTT(30) DEF StpWaitDispatch, cpu_dispatch_pcb, cpu_listen_dispatch_async
    <3> QED BY <1>d, <3>1
  <2>9. CASE Cpu
    <3>1. frame
      BY <2>0, <2>9 DEF Cpu, CpuReceive, CpuInterrupt, CpuReturn
    <3> QED BY <1>d, <3>1
  <2>10. CASE Dispatch
    <3>1. frame
      BY <2>0, <2>10 DEF Dispatch, cpu_recieve_pcb_async, DispatchExit, DispatchIo,
         DispatchInterrupted, DispatchError, DispatchFinish, Returned, move_pcb_to_exit,
         move_pcb_to_blocked, Push
    <3> QED BY <1>d, <3>1
  <2>11. CASE UNCHANGED vars
    <3>1. frame
      BY <2>0, <2>11 DEF vars
    <3> QED BY <1>d, <3>1
  <2> QED BY <1>2, <2>1, <2>2, <2>3, <2>4, <2>5, <2>6, <2>7, <2>8, <2>9, <2>10, <2>11
          DEF Next, System, Stp
<1> QED BY <1>1, <1>2

\* At the start every queue is empty and every counter of one is zero.
LEMMA CountedInit == Init => SemaphoresCountQueues
<1> SUFFICES ASSUME Init PROVE SemaphoresCountQueues
  OBVIOUS
<1>1. Announcing = {}
  BY Names DEF Init, InitState, Announcing, AnyAt, Movers, MoverPc
<1> QED BY <1>1, FS_EmptySet, Names DEF Init, InitState, SemaphoresCountQueues,
           NewCounted, ExitCounted, BlockedCounted, ReadyCounted, At, AnyAt, Num

\* Every step keeps the four counts.
LEMMA CountedStep ==
    CpuInv /\ SemaphoresCountQueues /\ [Next]_vars => SemaphoresCountQueues'
BY NewCountedStep, ExitCountedStep, BlockedCountedStep, ReadyCountedStep
   DEF SemaphoresCountQueues, CpuInv

\* kernel_global.h:107-121, the counting semaphores: for every value of the
\* constants, with or without faults, each semaphore and the wait its controller
\* already made add up to the length of the queue: a controller that passed its
\* sem_wait never pops an empty queue, and nothing waits in a queue unannounced.
THEOREM SemaphoresCount == Spec => []SemaphoresCountQueues
BY CountedInit, CountedStep, CpuInvariant, PTL DEF Spec

(***************************************************************************)
(* The I/O device.                                                         *)
(***************************************************************************)
\* Every step keeps the three places of the device: nobody else uses it when
\* mtp_block_pcb starts an I/O, because the controller holds it since its sem_wait.
LEMMA IoDeviceStep ==
    ASSUME TypeOK, IoDeviceExclusive, [Next]_vars
    PROVE  IoDeviceExclusive'
<1>0. /\ IsFiniteSet(io_timer) /\ Cardinality(io_timer) \in Nat
      /\ io_timer \subseteq Pcbs
  BY PlannerAssumption, FS_Subset, FS_CardinalityType DEF TypeOK
<1> DEFINE free == sem["mtp_io"]
           used == Cardinality(io_timer)
           reserved == Num(AnyAt("mtp_blocked", {"pop", "fail", "release_io"}))
           frame == free' = free /\ used' = used /\ reserved' = reserved
<1> USE TypeFacts, Names DEF At, AnyAt, Goto, GotoWith, Release, SemWait
<1>b. /\ free + used + reserved = 1
      /\ free \in Nat /\ used \in Nat /\ reserved \in Nat
  BY <1>0 DEF IoDeviceExclusive, Num
<1>c. IoDeviceExclusive' <=> free' + used' + reserved' = 1
  BY DEF IoDeviceExclusive
<1>d. frame => IoDeviceExclusive'
  <2> HIDE DEF free, used, reserved
  <2> QED BY <1>b, <1>c
<1>1. CASE \E p \in Pcbs : ltp_new_process(p)
  <2>1. frame
    BY <1>1 DEF ltp_new_process, move_pcb_to_new
  <2> QED BY <1>d, <2>1
<1>2. CASE LtpNew
  <2>1. frame
    BY <1>2 DEF LtpNew, LtpWaitPlan, LtpWaitLevel, LtpTakeSuspended, LtpTakeNew,
       LtpAdmit, LtpReject, LtpDiscard, move_pcb_to_exit
  <2> QED BY <1>d, <2>1
<1>3. CASE LtpExit
  <2>1. frame
    BY <1>3 DEF LtpExit, ExitWait, ExitPop, ExitFinish
  <2> QED BY <1>d, <2>1
<1>4. CASE BlockedWaitPlanner \/ BlockFails \/ BlockFailExit
  <2>1. io_timer' = io_timer /\ free' = free
    BY <1>4 DEF BlockedWaitPlanner, BlockFails, BlockFailExit, move_pcb_to_exit
  <2>2. reserved' = reserved
    <3>1. CASE BlockedWaitPlanner
      BY <3>1 DEF BlockedWaitPlanner
    <3>2. CASE BlockFails
      BY <3>2 DEF BlockFails
    <3>3. CASE BlockFailExit
      BY <3>3 DEF BlockFailExit
    <3> QED BY <1>4, <3>1, <3>2, <3>3
  <2> QED BY <1>d, <2>1, <2>2
<1>5. CASE BlockedWaitIo
  <2>1. free' = free - 1 /\ used' = used /\ reserved = 0 /\ reserved' = 1
    BY <1>5 DEF BlockedWaitIo, Num
  <2> HIDE DEF free, used, reserved
  <2> QED BY <1>b, <1>c, <2>1
<1>6. CASE mtp_block_pcb
  <2>1. free' = free /\ reserved = 1 /\ reserved' = 0
    BY <1>6 DEF mtp_block_pcb, Num
  <2>2. used = 0
    <3> HIDE DEF free, used, reserved
    <3> QED BY <1>b, <2>1
  <2>3. io_timer = {}
    BY <1>0, <2>2, FS_EmptySet
  <2>4. io_timer' = {} \cup {Head(queue["blocked"])}
    BY <1>6, <2>3 DEF mtp_block_pcb
  <2>5. used' = used + 1
    BY <1>0, <2>2, <2>3, <2>4, FS_AddElement
  <2> HIDE DEF free, used, reserved
  <2> QED BY <1>b, <1>c, <2>1, <2>5
<1>7. CASE BlockFailRelease
  <2>1. free' = free + 1 /\ used' = used /\ reserved = 1 /\ reserved' = 0
    BY <1>7 DEF BlockFailRelease, Num
  <2> HIDE DEF free, used, reserved
  <2> QED BY <1>b, <1>c, <2>1, SMTT(30)
<1>8. CASE \E p \in Pcbs : mtp_unblock_pcb(p)
  <2> PICK p \in Pcbs : mtp_unblock_pcb(p)
    BY <1>8
  <2>1. free' = free + 1 /\ reserved' = reserved
    BY DEF mtp_unblock_pcb
  <2>2. io_timer' = io_timer \ {p} /\ p \in io_timer
    BY DEF mtp_unblock_pcb
  <2>3. used' = used - 1
    BY <1>0, <2>2, FS_RemoveElement
  <2> HIDE DEF free, used, reserved
  <2> QED BY <1>b, <1>c, <2>1, <2>3
<1>9. CASE MtpTimer /\ ~ \E p \in Pcbs : mtp_unblock_pcb(p)
  <2>1. frame
    BY <1>9 DEF MtpTimer, UnblockToReady, UnblockSuspended, UnblockError,
       SuspendTimerFires, mtp_suspend_pcb, SuspendCheck, SuspendSwapped,
       SuspendSwapFails, move_pcb_to_exit, move_pcb_to_suspended_ready,
       move_pcb_to_suspended_blocked
  <2> QED BY <1>d, <2>1
<1>10. CASE \E t \in Movers : Mover(t)
  <2> PICK t \in Movers : Mover(t)
    BY <1>10
  <2>1. frame
    BY MoverEffect DEF Movers
  <2> QED BY <1>d, <2>1
<1>11. CASE Stp \/ Cpu
  <2>1. frame
    BY <1>11 DEF Stp, StpWaitPlan, StpWaitDispatch, StpPop, cpu_dispatch_pcb,
       cpu_listen_dispatch_async, Cpu, CpuReceive, CpuInterrupt, CpuReturn
  <2> QED BY <1>d, <2>1
<1>12. CASE Dispatch
  <2>1. frame
    BY <1>12 DEF Dispatch, cpu_recieve_pcb_async, DispatchExit, DispatchIo,
       DispatchInterrupted, DispatchError, DispatchFinish, Returned, move_pcb_to_exit,
       move_pcb_to_blocked
  <2> QED BY <1>d, <2>1
<1>13. CASE UNCHANGED vars
  <2>1. frame
    BY <1>13 DEF vars
  <2> QED BY <1>d, <2>1
<1> QED BY <1>1, <1>2, <1>3, <1>4, <1>5, <1>6, <1>7, <1>8, <1>9, <1>10, <1>11, <1>12,
           <1>13 DEF Next, System, MtpBlocked

\* mtp_sem_io (kernel_global.h:115): for every value of the constants, with or
\* without failing timers, the device is free, reserved by the controller or used by
\* exactly one process.
THEOREM OneProcessOnDevice == Spec => []IoDeviceExclusive
<1>1. Init => IoDeviceExclusive
  BY FS_EmptySet, Names DEF Init, InitState, IoDeviceExclusive, AnyAt, Num
<1>2. TypeOK /\ IoDeviceExclusive /\ [Next]_vars => IoDeviceExclusive'
  BY IoDeviceStep
<1> QED BY <1>1, <1>2, TypeCorrect, PTL DEF Spec

(***************************************************************************)
(* The CPU dies, or the kernel is told to stop. Up to kernel_terminate the *)
(* counters of the queues are what they are in Planner, whatever happens   *)
(* to the connections: that is what RunningInv says. After it,             *)
(* planner_stop posts them with no process behind, and they count no more. *)
(***************************************************************************)
\* What holds of the planner as long as nobody stops it.
Running == CpuInv /\ SemaphoresCountQueues /\ IoDeviceExclusive

\* While the kernel runs the semaphores count the queues, the CPU is exclusive, and
\* nobody has posted them to make the controllers look at kernel->halt. A CPU that
\* died works on nothing: the pcb it had is lost, or its return on the way.
RunningInv ==
    ~halt =>
        /\ Running /\ terminate = "no" /\ DOMAIN link = Links
        /\ link["dispatch"] # "up" => core.pc \in {"idle", "returned"}

\* The steps of the planner keep it, as they do with a CPU that never dies.
LEMMA RunningStep == Running /\ [Next]_vars => Running'
BY CpuInvStep, CountedStep, IoDeviceStep DEF Running, CpuInv

\* Which controllers stand between the wait for a process and its pop.
Counts == [new |-> AnyAt("ltp_new", {"wait_level", "take"}),
           exit |-> At("ltp_exit", "pop"),
           blocked |-> AnyAt("mtp_blocked", {"wait_io", "pop"}),
           device |-> AnyAt("mtp_blocked", {"pop", "fail", "release_io"}),
           ready |-> AnyAt("stp", {"wait_dispatch", "pop"})]

\* A step that moves no process, posts no counter and takes no controller past its
\* waits keeps the counts.
LEMMA CountsFramed ==
    ASSUME SemaphoresCountQueues, IoDeviceExclusive, Counts' = Counts,
           Announcing' = Announcing, queue' = queue, sem' = sem, io_timer' = io_timer
    PROVE  SemaphoresCountQueues' /\ IoDeviceExclusive'
<1>1. /\ AnyAt("ltp_new", {"wait_level", "take"})' = AnyAt("ltp_new", {"wait_level", "take"})
      /\ At("ltp_exit", "pop")' = At("ltp_exit", "pop")
      /\ AnyAt("mtp_blocked", {"wait_io", "pop"})' = AnyAt("mtp_blocked", {"wait_io", "pop"})
      /\ AnyAt("mtp_blocked", {"pop", "fail", "release_io"})'
            = AnyAt("mtp_blocked", {"pop", "fail", "release_io"})
      /\ AnyAt("stp", {"wait_dispatch", "pop"})' = AnyAt("stp", {"wait_dispatch", "pop"})
  BY DEF Counts
<1> QED BY <1>1 DEF SemaphoresCountQueues, NewCounted, ExitCounted, BlockedCounted,
           ReadyCounted, IoDeviceExclusive

\* The CPU dies: the pcb it had is lost, and planner->exec still names it.
LEMMA CpuDiesKeepsRunning ==
    Running /\ CpuDies => Running' /\ core'.pc \in {"idle", "returned"}
<1> SUFFICES ASSUME Running, CpuDies
             PROVE  Running' /\ core'.pc \in {"idle", "returned"}
  OBVIOUS
<1>1. /\ core' \in CoreFields /\ core'.pc \in {"idle", "returned"}
      /\ core'.pc # "idle" => core.pc # "idle"
  <2>1. core \in CoreFields
    BY DEF Running, CpuInv, TypeOK
  <2>2. PICK arrives \in BOOLEAN :
           core' = [core EXCEPT !.pc = IF @ = "returned" /\ arrives THEN @ ELSE "idle",
                                !.signals = 0]
    BY DEF CpuDies
  <2>3. core' \in {[core EXCEPT !.pc = "idle", !.signals = 0], [core EXCEPT !.signals = 0]}
    BY <2>1, <2>2 DEF CoreFields
  <2> DEFINE c1 == [core EXCEPT !.pc = "idle", !.signals = 0]
             c2 == [core EXCEPT !.signals = 0]
  <2>5. c1 \in CoreFields /\ c1.pc = "idle"
    BY <2>1 DEF CoreFields
  <2>6. c2 \in CoreFields /\ c2.pc = core.pc
    BY <2>1 DEF CoreFields
  <2>7. core'.pc \in {core.pc, "idle"}
    BY <2>3, <2>5, <2>6
  <2>8. core.pc = "returned" \/ core'.pc = "idle"
    BY <2>1, <2>2 DEF CoreFields
  <2> QED BY <2>3, <2>5, <2>6, <2>7, <2>8
<1>2. CpuInv'
  <2>1. TypeOK'
    BY <1>1 DEF Running, CpuInv, CpuDies, TypeOK, ThreadsTyped
  <2>2. CpuFrame
    BY <1>1 DEF CpuDies, CpuFrame
  <2> QED BY <2>1, <2>2, CpuFramed DEF Running, CpuInv
<1>3. SemaphoresCountQueues' /\ IoDeviceExclusive'
  BY DEF Running, CpuDies, SemaphoresCountQueues, NewCounted, ExitCounted,
         BlockedCounted, ReadyCounted, Announcing, IoDeviceExclusive, At, AnyAt
<1> QED BY <1>1, <1>2, <1>3 DEF Running

\* A signal for a CPU that is gone: its thread goes on inside move_pcb_to_ready,
\* after the insertion and before the post.
LEMMA InterruptNobodyKeepsRunning ==
    ASSUME Running, NEW t \in Movers, InterruptNobody(t)
    PROVE  Running'
<1>0. TypeOK /\ t \in Threads
  BY DEF Running, CpuInv, Movers, Threads
<1>1. PICK to \in {"flag", "plan"} : Goto(t, to)
  BY DEF InterruptNobody
<1>2. /\ thread'[t].pc = to /\ thread[t].pc = "send"
      /\ \A r \in Threads \ {t} : thread'[r] = thread[r]
  BY <1>0, <1>1, GotoMoves DEF InterruptNobody, At
<1>3. ThreadsTyped'
  BY <1>0, <1>1, <1>2, Names, PcNames, GotoTyped DEF TypeOK, ThreadsTyped, MoverPc
<1>4. TypeOK'
  BY <1>0, <1>3 DEF InterruptNobody, TypeOK
<1>5. CpuInv'
  <2>1. thread["dispatch"].pc \notin {"idle", "listening"} \/ t # "dispatch"
    BY <1>2
  <2> QED BY <1>2, <1>4, <2>1, Names DEF Running, CpuInv, InterruptNobody,
             CpuExclusive, CoreWorksForExec, At, AnyAt, Movers
<1>6. Announcing' = Announcing
  BY <1>2 DEF Announcing, AnyAt, Movers, Threads, MoverPc
<1>7. Counts' = Counts
  BY <1>2, Names DEF Counts, At, AnyAt, Movers
<1>8. SemaphoresCountQueues' /\ IoDeviceExclusive'
  BY <1>6, <1>7, CountsFramed DEF Running, InterruptNobody
<1> QED BY <1>5, <1>8 DEF Running

\* A pcb for a CPU that is gone: the controller goes back to its waits and the
\* listener listens, as when the CPU took it.
LEMMA DispatchToNobodyKeepsRunning == Running /\ DispatchToNobody => Running'
<1> SUFFICES ASSUME Running, DispatchToNobody PROVE Running'
  OBVIOUS
<1>0. /\ TypeOK /\ DOMAIN thread = Threads
      /\ \A r \in Threads : DOMAIN thread[r] = {"pc", "pcb"}
  BY TypeFacts DEF Running, CpuInv
<1>1. /\ thread["stp"].pc = "send" /\ thread["dispatch"].pc = "idle"
      /\ sem["stp_dispatch"] = 0
  BY <1>0, Names, SMTT(30)
     DEF Running, CpuInv, TypeOK, CpuExclusive, DispatchToNobody, At, AnyAt, Num
<1>2. /\ thread' = [thread EXCEPT !["stp"] = [pc |-> "wait_plan", pcb |-> NULL],
                                  !["dispatch"].pc = "listening"]
      /\ cpu' = [cpu EXCEPT !.busy = TRUE] \/ cpu' = cpu
  BY DEF DispatchToNobody
<1>3. /\ thread'["stp"].pc = "wait_plan" /\ thread'["dispatch"].pc = "listening"
      /\ \A r \in Threads \ {"stp", "dispatch"} : thread'[r] = thread[r]
  BY <1>0, <1>2, Names
<1>4. TypeOK'
  <2>1. ThreadsTyped'
    <3>1. thread' \in [Threads -> [pc : Pcs, pcb : Pcbs \cup {NULL}]]
      <4> DEFINE taken == [thread["dispatch"] EXCEPT !.pc = "listening"]
                 back == [pc |-> "wait_plan", pcb |-> NULL]
      <4>1. thread["dispatch"] \in [pc : Pcs, pcb : Pcbs \cup {NULL}]
            /\ {"listening", "wait_plan"} \subseteq Pcs
        BY <1>0, Names DEF TypeOK, ThreadsTyped, Pcs
      <4>2. /\ taken \in [pc : Pcs, pcb : Pcbs \cup {NULL}]
            /\ back \in [pc : Pcs, pcb : Pcbs \cup {NULL}]
        BY <4>1
      <4>3. thread' = [thread EXCEPT !["stp"] = back, !["dispatch"] = taken]
        BY <1>0, <1>2, Names
      <4> HIDE DEF taken, back
      <4> QED BY <1>0, <4>2, <4>3 DEF TypeOK, ThreadsTyped
    <3>2. \A r \in Threads : thread'[r].pc \in PcsOf(r)
      BY <1>0, <1>3, Names, PcNames DEF TypeOK, ThreadsTyped
    <3>3. \A r \in Threads : thread'[r].pc \in HoldingPcs => thread'[r].pcb # NULL
      BY <1>0, <1>3, Names, PcNames DEF TypeOK, ThreadsTyped
    <3> QED BY <3>1, <3>2, <3>3 DEF ThreadsTyped
  <2>2. cpu' \in [busy : BOOLEAN, interrupted : BOOLEAN]
    BY <1>0, <1>2 DEF TypeOK
  <2> QED BY <1>0, <2>1, <2>2 DEF DispatchToNobody, TypeOK
<1>5. CpuInv'
  BY <1>1, <1>3, <1>4 DEF Running, CpuInv, DispatchToNobody, CpuExclusive,
     CoreWorksForExec, At, AnyAt, Num
<1>6. Announcing' = Announcing
  BY <1>1, <1>3 DEF Announcing, AnyAt, Movers, Threads, MoverPc
<1>7. Counts' = Counts
  BY <1>1, <1>3, Names DEF Counts, At, AnyAt
<1>8. SemaphoresCountQueues' /\ IoDeviceExclusive'
  BY <1>6, <1>7, CountsFramed DEF Running, DispatchToNobody
<1> QED BY <1>5, <1>8 DEF Running

\* stp_dispatch_error: the listener, which learns that the CPU is gone, sends the
\* process of planner->exec to the exit queue, tells its controller, and allows the
\* next dispatch.
LEMMA DispatchErrorKeepsRunning ==
    RunningInv /\ stp_dispatch_error => Running' /\ core'.pc \in {"idle", "returned"}
<1> SUFFICES ASSUME RunningInv, stp_dispatch_error
             PROVE  Running' /\ core'.pc \in {"idle", "returned"}
  OBVIOUS
<1>a. Running /\ core' = core /\ core.pc = "idle"
  BY DEF RunningInv, stp_dispatch_error, NothingArrives
<1>0. TypeOK /\ thread["dispatch"].pc = "listening" /\ exec \in Pcbs
  BY <1>a DEF Running, CpuInv, TypeOK, CpuExclusive, stp_dispatch_error, At, AnyAt
<1>1. /\ thread'["dispatch"].pc = "idle"
      /\ \A r \in Threads \ {"dispatch"} : thread'[r] = thread[r]
  BY <1>0, Names, GotoWithMoves DEF stp_dispatch_error, Release
<1>2. /\ Len(queue'["exit"]) = Len(queue["exit"]) + 1
      /\ \A q \in Queues \ {"exit"} : queue'[q] = queue[q]
  BY <1>0, Names, Pushed DEF stp_dispatch_error
<1>3. /\ sem'["ltp_exit"] = sem["ltp_exit"] + 1
      /\ sem'["stp_dispatch"] = sem["stp_dispatch"] + 1
      /\ \A s \in Semaphores \ {"ltp_exit", "stp_dispatch", "multiprogramming"} :
            sem'[s] = sem[s]
  BY <1>0, Names DEF stp_dispatch_error, TypeOK
<1>4. TypeOK'
  <2>1. pcb' \in [Pcbs -> PcbFields]
    <3>1. [pcb[exec] EXCEPT !.status = "EXIT", !.error = TRUE] \in PcbFields
      BY <1>0, ZenonT(60) DEF TypeOK, PcbFields, Status
    <3>2. pcb' = [pcb EXCEPT ![exec] = [pcb[exec] EXCEPT !.status = "EXIT", !.error = TRUE]]
      BY <1>0 DEF stp_dispatch_error, TypeOK
    <3> QED BY <1>0, <3>1, <3>2 DEF TypeOK
  <2>2. queue' \in [Queues -> Seq(Pcbs)]
    BY <1>0, Names, PushTyped DEF stp_dispatch_error
  <2>3. sem' \in [Semaphores -> Nat]
    <3> DEFINE exits == sem["ltp_exit"] + 1
               next == sem["stp_dispatch"] + 1
               level == IF pcb[exec].status \in InMemory
                        THEN sem["multiprogramming"] + 1 ELSE sem["multiprogramming"]
    <3>1. exits \in Nat /\ next \in Nat /\ level \in Nat
      BY <1>0, Names, SMTT(30) DEF TypeOK
    <3>2. sem' = [sem EXCEPT !["ltp_exit"] = exits, !["stp_dispatch"] = next,
                             !["multiprogramming"] = level]
      BY DEF stp_dispatch_error
    <3> HIDE DEF exits, next, level
    <3> QED BY <1>0, <3>1, <3>2 DEF TypeOK
  <2>4. ThreadsTyped'
    BY <1>0, Names, PcNames, ReleaseTyped DEF stp_dispatch_error, TypeOK
  <2> QED BY <1>0, <2>1, <2>2, <2>3, <2>4 DEF stp_dispatch_error, TypeOK
<1>5. CpuInv'
  <2>1. exec' = NULL
    BY DEF stp_dispatch_error
  <2>2. CpuExclusive'
    <3>1. sem["stp_dispatch"] = 0 /\ thread["stp"].pc \notin {"pop", "send", "busy"}
      <4>1. sem["stp_dispatch"] \in Nat
        BY <1>0, Names DEF TypeOK
      <4>2. sem["stp_dispatch"] + Num(thread["stp"].pc \in {"pop", "send", "busy"}) + 1 = 1
        BY <1>0, <1>a DEF Running, CpuInv, CpuExclusive, At, AnyAt, Num
      <4> QED BY <4>1, <4>2 DEF Num
    <3>2. thread'["stp"] = thread["stp"] /\ sem'["stp_dispatch"] = 1
      BY <1>1, <1>3, <3>1, Names
    <3> QED BY <1>1, <2>1, <3>1, <3>2 DEF CpuExclusive, At, AnyAt, Num
  <2> QED BY <1>4, <1>a, <2>2 DEF CpuInv, CoreWorksForExec
<1>6. Announcing' = Announcing
  BY <1>0, <1>1 DEF Announcing, AnyAt, Movers, Threads, MoverPc
<1>7. /\ \A r \in {"ltp_new", "ltp_exit", "mtp_blocked", "stp"} : thread'[r] = thread[r]
      /\ sem'["ltp_plan"] = sem["ltp_plan"] /\ sem'["mtp_planner"] = sem["mtp_planner"]
      /\ sem'["stp_plan"] = sem["stp_plan"] /\ sem'["mtp_io"] = sem["mtp_io"]
      /\ \A q \in {"new", "ready", "blocked", "suspended_ready"} : queue'[q] = queue[q]
  BY <1>1, <1>2, <1>3, Names
<1>8. NewCounted' /\ BlockedCounted' /\ ReadyCounted'
  BY <1>6, <1>7, <1>a DEF Running, SemaphoresCountQueues, NewCounted, BlockedCounted,
     ReadyCounted, AnyAt
<1>9. IoDeviceExclusive'
  BY <1>7, <1>a DEF Running, stp_dispatch_error, IoDeviceExclusive, AnyAt
<1>10. ExitCounted'
  <2>1. Num(At("ltp_exit", "pop"))' = Num(At("ltp_exit", "pop"))
    BY <1>7 DEF At
  <2>2. Num(At("ltp_exit", "pop")) \in Nat /\ sem["ltp_exit"] \in Nat
    BY <1>0, Names DEF Num, TypeOK
  <2>3. Len(queue["exit"]) = sem["ltp_exit"] + Num(At("ltp_exit", "pop"))
    BY <1>a DEF Running, SemaphoresCountQueues, ExitCounted
  <2> QED BY <1>2, <1>3, <2>1, <2>2, <2>3 DEF ExitCounted
<1> QED BY <1>5, <1>8, <1>9, <1>10, <1>a DEF Running, SemaphoresCountQueues

\* With the dispatch connection lost nobody sends the CPU anything to work on.
LEMMA LostCpuStaysIdle ==
    ASSUME GoOn, link["dispatch"] # "up", core.pc \in {"idle", "returned"}, TypeOK
    PROVE  core'.pc \in {"idle", "returned"}
<1>0. core \in CoreFields
  BY DEF TypeOK
<1>1. CASE LtpNew \/ LtpExit \/ MtpBlocked \/ MtpTimer
  BY <1>1 DEF LtpNew, LtpExit, MtpBlocked, MtpTimer, LtpWaitPlan, LtpWaitLevel,
     LtpTakeSuspended, LtpTakeNew, LtpAdmit, LtpReject, LtpDiscard, ExitWait, ExitPop,
     ExitFinish, BlockedWaitPlanner, BlockedWaitIo, mtp_block_pcb, BlockFails,
     BlockFailExit, BlockFailRelease, mtp_unblock_pcb, UnblockToReady, UnblockSuspended,
     UnblockError, SuspendTimerFires, mtp_suspend_pcb, SuspendCheck, SuspendSwapped,
     SuspendSwapFails, SemWait
<1>2. CASE \E t \in Movers : Mover(t)
  BY <1>0, <1>2 DEF Mover, move_pcb_to_ready__fifo, SrtInsert, SrtStatus, SrtCheckBusy,
     SrtWaitInterrupt, SrtSendInterrupt, SrtFlagInterrupted, SrtPlan, SemWait, CoreFields
<1>3. CASE Stp /\ ~At("stp", "send")
  BY <1>3 DEF Stp, StpWaitPlan, StpWaitDispatch, StpPop, cpu_dispatch_pcb,
     cpu_listen_dispatch_async, SemWait
<1>4. CASE Dispatch
  BY <1>0, <1>4 DEF Dispatch, cpu_recieve_pcb_async, DispatchExit, DispatchIo,
     DispatchInterrupted, DispatchError, DispatchFinish, CoreFields
<1> QED BY <1>1, <1>2, <1>3, <1>4 DEF GoOn

\* Every step keeps the invariant; kernel_terminate ends it.
LEMMA RunningInvStep == RunningInv /\ [NextStop]_<<vars, outside>> => RunningInv'
<1> SUFFICES ASSUME RunningInv, [NextStop]_<<vars, outside>>, ~halt' PROVE RunningInv'
  BY DEF RunningInv
<1> DEFINE lost(l, c) == l # "up" => c \in {"idle", "returned"}
<1> USE DEF outside
<1>0. ~halt => /\ Running /\ terminate = "no" /\ DOMAIN link = Links
               /\ lost(link["dispatch"], core.pc)
  BY DEF RunningInv
<1>a. ASSUME Running', terminate' = "no", DOMAIN link' = Links,
             lost(link'["dispatch"], core'.pc)
      PROVE  RunningInv'
  BY <1>a DEF RunningInv
<1>1. CASE UNCHANGED <<vars, outside>>
  <2>1. Running'
    BY <1>0, <1>1, RunningStep
  <2> QED BY <1>0, <1>1, <1>a, <2>1 DEF vars
<1>2. CASE SendKills
  <2>1. Running'
    BY <1>0, <1>2, RunningStep DEF SendKills
  <2> QED BY <1>0, <1>2, <1>a, <2>1 DEF vars, SendKills
<1>3. CASE GoOn
  <2>1. Next /\ UNCHANGED outside
    BY <1>3 DEF GoOn, Next, System
  <2>2. Running'
    BY <1>0, <2>1, RunningStep
  <2>3. lost(link'["dispatch"], core'.pc)
    BY <1>0, <1>3, <2>1, LostCpuStaysIdle DEF Running, CpuInv
  <2> QED BY <1>0, <1>a, <2>1, <2>2, <2>3
<1>4. CASE (\E p \in Pcbs : ltp_new_process(p)) /\ UNCHANGED outside
  <2>1. Running'
    BY <1>0, <1>4, RunningStep DEF Next
  <2> QED BY <1>0, <1>4, <1>a, <2>1 DEF ltp_new_process
<1>5. CASE CpuDies
  BY <1>0, <1>5, <1>a, CpuDiesKeepsRunning DEF CpuDies
<1>6. CASE \E t \in Movers : InterruptNobody(t)
  <2>1. Running'
    BY <1>0, <1>6, InterruptNobodyKeepsRunning DEF InterruptNobody
  <2>2. /\ link'["dispatch"] = link["dispatch"] /\ core' = core
        /\ DOMAIN link' = DOMAIN link
    BY <1>0, <1>6 DEF InterruptNobody, SendAccepted, SendRefused, Links
  <2> QED BY <1>0, <1>6, <1>a, <2>1, <2>2 DEF InterruptNobody
<1>7. CASE DispatchToNobody
  <2>1. Running'
    BY <1>0, <1>7, DispatchToNobodyKeepsRunning DEF DispatchToNobody
  <2>2. link["dispatch"] # "up" /\ core' = core /\ DOMAIN link' = DOMAIN link
    BY <1>7 DEF DispatchToNobody, SendAccepted, SendRefused
  <2> QED BY <1>0, <1>7, <1>a, <2>1, <2>2 DEF DispatchToNobody
<1>8. CASE stp_dispatch_error
  BY <1>0, <1>8, <1>a, DispatchErrorKeepsRunning DEF stp_dispatch_error
<1>9. CASE (\E t \in Controllers : ControllerEnds(t)) \/ ListenerEnds
  BY <1>9 DEF ControllerEnds, LeavesLoop, ListenerEnds
<1>10. CASE planner_stop \/ cpu_module_stop \/ kernel_terminate
  BY <1>0, <1>10 DEF planner_stop, cpu_module_stop, kernel_terminate, TerminateStep
<1> QED BY <1>1, <1>2, <1>3, <1>4, <1>5, <1>6, <1>7, <1>8, <1>9, <1>10
        DEF NextStop, Work

\* RunningInv holds of every reachable state of the planner that may be stopped.
LEMMA RunningInvariant == SpecStop => []RunningInv
<1>1. InitStop => RunningInv
  <2> SUFFICES ASSUME InitStop PROVE RunningInv
    OBVIOUS
  <2>1. Init /\ terminate = "no" /\ DOMAIN link = Links /\ link["dispatch"] = "up"
    BY DEF InitStop, Links
  <2>2. IoDeviceExclusive
    BY <2>1, FS_EmptySet, Names DEF Init, InitState, IoDeviceExclusive, AnyAt, Num
  <2> QED BY <2>1, <2>2, CpuInvInit, CountedInit DEF RunningInv, Running
<1> QED BY <1>1, RunningInvStep, PTL DEF SpecStop

\* planner.c:617, 785 and 871, for every value of the constants: the medium- and the
\* short-term controllers, which pop without looking, never take a null pcb before
\* they see kernel->halt, although the CPU may die at any moment and a send be lost.
THEOREM PopsFindAProcess == SpecStop => []NeverPopsEmpty
<1>1. RunningInv => NeverPopsEmpty
  <2> SUFFICES ASSUME Running PROVE NeverPopsEmpty
    BY DEF RunningInv, NeverPopsEmpty
  <2>1. /\ sem["mtp_planner"] \in Nat /\ sem["stp_plan"] \in Nat
        /\ Cardinality(Announcing) \in Nat
    BY FiniteMovers, Names DEF Running, CpuInv, TypeOK, Announcing
  <2>2. At("mtp_blocked", "pop") => Len(queue["blocked"]) > 0
    BY <2>1 DEF Running, SemaphoresCountQueues, BlockedCounted, At, AnyAt, Num
  <2>3. At("stp", "pop") => Len(queue["ready"]) > 0
    BY <2>1 DEF Running, SemaphoresCountQueues, ReadyCounted, At, AnyAt, Num
  <2> QED BY <2>2, <2>3 DEF NeverPopsEmpty
<1> QED BY <1>1, RunningInvariant, PTL

\* The same of what the semaphores count (kernel_global.h:107-121): until the kernel
\* is told to stop, the end of the CPU and the messages lost with it leave no queue
\* with a process that nobody was told of and no device reserved for nobody.
THEOREM CountedUntilStop ==
    SpecStop => [](~halt => SemaphoresCountQueues /\ IoDeviceExclusive)
<1>1. RunningInv => (~halt => SemaphoresCountQueues /\ IoDeviceExclusive)
  BY DEF RunningInv, Running
<1> QED BY <1>1, RunningInvariant, PTL

=============================================================================
