----------------------- MODULE PlannerLifeCycleProofs -----------------------
(***************************************************************************)
(* What follows from each process having one owner. The place a process is *)
(* in tells its state; so the planner under FIFO moves processes as the    *)
(* life cycle allows, no level of the multiprogramming degree is lost, and *)
(* a console hears what its program did.                                   *)
(***************************************************************************)
EXTENDS PlannerOwnerProofs

(***************************************************************************)
(* The places one by one.                                                  *)
(***************************************************************************)
Hands == {"ltp_new", "ltp_exit", "mtp_blocked", "dispatch", "timer"}

Places == Queues \cup {"cpu", "io"} \cup Hands

\* Process p is in place x.
Has(x, p) ==
    IF x \in Queues THEN \E i \in 1 .. Len(queue[x]) : queue[x][i] = p
    ELSE IF x = "cpu" THEN exec = p
    ELSE IF x = "io" THEN p \in io_timer
    ELSE thread[x].pcb = p /\ HasInHand(x)

Count(x, p) ==
    IF x \in Queues THEN Occurrences(p, queue[x])
    ELSE IF x = "cpu" THEN Num(exec = p)
    ELSE IF x = "io" THEN Num(p \in io_timer)
    ELSE Holds(x, p)

\* A process is in at most one place, and in one exactly while it is inside.
OnePlace ==
    \A p \in Pcbs :
        /\ \A x, y \in Places : Has(x, p) /\ Has(y, p) => x = y
        /\ Inside(p) <=> \E x \in Places : Has(x, p)

LEMMA PlaceNames ==
    /\ \A x \in Hands : x \in Threads /\ x \notin Queues /\ x \notin {"cpu", "io"}
    /\ "cpu" \notin Queues /\ "io" \notin Queues
    /\ \A x \in Queues : x \in Places
    /\ \A x \in Hands : x \in Places
    /\ "cpu" \in Places /\ "io" \in Places
BY DEF Hands, Threads, Queues, Places

\* A place that has the process counts, and no other.
LEMMA CountHas ==
    ASSUME TypeOK, NEW p, NEW x \in Places
    PROVE  Count(x, p) \in Nat /\ (Count(x, p) > 0 <=> Has(x, p))
<1>1. CASE x \in Queues
  <2> DEFINE S == {i \in 1 .. Len(queue[x]) : queue[x][i] = p}
  <2>1. queue[x] \in Seq(Pcbs)
    BY <1>1, TypeFacts
  <2>2. IsFiniteSet(S) /\ Occurrences(p, queue[x]) = Cardinality(S)
        /\ Cardinality(S) \in Nat
    BY <2>1, OccurrencesTyped DEF Occurrences
  <2>3. Cardinality(S) = 0 <=> S = {}
    BY <2>2, FS_EmptySet
  <2>4. S # {} <=> Has(x, p)
    BY <1>1 DEF Has
  <2> QED BY <1>1, <2>2, <2>3, <2>4 DEF Count
<1>2. CASE x \notin Queues
  BY <1>2 DEF Count, Has, Holds, Num
<1> QED BY <1>1, <1>2

\* The twelve places make up the two groups.
LEMMA GroupsOfPlaces ==
    ASSUME TypeOK, NEW p
    PROVE  Working(p) + Exiting(p)
              = Count("new", p) + Count("ready", p) + Count("blocked", p)
                + Count("suspended_ready", p) + Count("exit", p) + Count("cpu", p)
                + Count("io", p) + Count("ltp_new", p) + Count("mtp_blocked", p)
                + Count("dispatch", p) + Count("timer", p) + Count("ltp_exit", p)
<1>1. /\ \A q \in Queues : Count(q, p) = Occurrences(p, queue[q])
      /\ Count("cpu", p) = Num(exec = p) /\ Count("io", p) = Num(p \in io_timer)
      /\ \A t \in Hands : Count(t, p) = Holds(t, p)
  BY PlaceNames DEF Count
<1>2. /\ \A q \in {"new", "ready", "blocked", "suspended_ready", "exit"} :
            q \in Queues /\ q \in Places
      /\ \A t \in {"ltp_new", "ltp_exit", "mtp_blocked", "dispatch", "timer"} :
            t \in Hands /\ t \in Places
  BY PlaceNames, Names DEF Hands
<1>3. \A x \in Places : Count(x, p) \in Nat
  BY CountHas
<1>4. Queued(p) = Count("new", p) + Count("ready", p) + Count("blocked", p)
                  + Count("suspended_ready", p)
  BY <1>1, <1>2 DEF Queued
<1>5. InHands(p) = Count("ltp_new", p) + Count("mtp_blocked", p) + Count("dispatch", p)
                   + Count("timer", p)
  BY <1>1, <1>2 DEF InHands
<1>6. /\ Working(p) = Queued(p) + Count("cpu", p) + Count("io", p) + InHands(p)
      /\ Exiting(p) = Count("exit", p) + Count("ltp_exit", p)
  BY <1>1, <1>2 DEF Working, Exiting
<1>7. "cpu" \in Places /\ "io" \in Places
  BY PlaceNames
<1> QED BY <1>2, <1>3, <1>4, <1>5, <1>6, <1>7

\* At most one of twelve numbers that add up to one at most is not zero.
LEMMA AtMostOne ==
    ASSUME NEW a \in Nat, NEW b \in Nat, NEW c \in Nat, NEW d \in Nat, NEW e \in Nat,
           NEW f \in Nat, NEW g \in Nat, NEW h \in Nat, NEW i \in Nat, NEW j \in Nat,
           NEW k \in Nat, NEW l \in Nat,
           a + b + c + d + e + f + g + h + i + j + k + l <= 1
    PROVE  /\ a = 0 \/ (b = 0 /\ c = 0 /\ d = 0 /\ e = 0 /\ f = 0 /\ g = 0
                       /\ h = 0 /\ i = 0 /\ j = 0 /\ k = 0 /\ l = 0)
           /\ b = 0 \/ (c = 0 /\ d = 0 /\ e = 0 /\ f = 0 /\ g = 0 /\ h = 0
                       /\ i = 0 /\ j = 0 /\ k = 0 /\ l = 0)
           /\ c = 0 \/ (d = 0 /\ e = 0 /\ f = 0 /\ g = 0 /\ h = 0 /\ i = 0
                       /\ j = 0 /\ k = 0 /\ l = 0)
           /\ d = 0 \/ (e = 0 /\ f = 0 /\ g = 0 /\ h = 0 /\ i = 0 /\ j = 0
                       /\ k = 0 /\ l = 0)
           /\ e = 0 \/ (f = 0 /\ g = 0 /\ h = 0 /\ i = 0 /\ j = 0 /\ k = 0 /\ l = 0)
           /\ f = 0 \/ (g = 0 /\ h = 0 /\ i = 0 /\ j = 0 /\ k = 0 /\ l = 0)
           /\ g = 0 \/ (h = 0 /\ i = 0 /\ j = 0 /\ k = 0 /\ l = 0)
           /\ h = 0 \/ (i = 0 /\ j = 0 /\ k = 0 /\ l = 0)
           /\ i = 0 \/ (j = 0 /\ k = 0 /\ l = 0)
           /\ j = 0 \/ (k = 0 /\ l = 0)
           /\ k = 0 \/ l = 0
OBVIOUS

\* One owner is one place.
LEMMA OwnerIsPlace ==
    ASSUME TypeOK, OwnersExact
    PROVE  OnePlace
<1> SUFFICES ASSUME NEW p \in Pcbs
             PROVE  /\ \A x, y \in Places : Has(x, p) /\ Has(y, p) => x = y
                    /\ Inside(p) <=> \E x \in Places : Has(x, p)
  BY DEF OnePlace
<1> DEFINE c(x) == Count(x, p)
<1>1. \A x \in Places : c(x) \in Nat /\ (c(x) > 0 <=> Has(x, p))
  BY CountHas
<1>2. Num(Inside(p)) = c("new") + c("ready") + c("blocked") + c("suspended_ready")
                       + c("exit") + c("cpu") + c("io") + c("ltp_new")
                       + c("mtp_blocked") + c("dispatch") + c("timer") + c("ltp_exit")
  BY GroupsOfPlaces DEF OwnersExact
<1>3. Places = {"new", "ready", "blocked", "suspended_ready", "exit", "cpu", "io",
                "ltp_new", "ltp_exit", "mtp_blocked", "dispatch", "timer"}
  BY DEF Places, Queues, Hands
<1> HIDE DEF c
<1>4. Inside(p) => \E x \in Places : Has(x, p)
  BY <1>1, <1>2, <1>3 DEF Num
<1>5. ~Inside(p) => \A x \in Places : ~Has(x, p)
  BY <1>1, <1>2, <1>3 DEF Num
<1>6. \A x, y \in Places : x # y => c(x) = 0 \/ c(y) = 0
  <2>1. c("new") + c("ready") + c("blocked") + c("suspended_ready")
        + c("exit") + c("cpu") + c("io") + c("ltp_new")
        + c("mtp_blocked") + c("dispatch") + c("timer") + c("ltp_exit") <= 1
    BY <1>2 DEF Num
  <2>2. /\ c("new") = 0 \/ (c("ready") = 0 /\ c("blocked") = 0 /\ c("suspended_ready") = 0
                           /\ c("exit") = 0 /\ c("cpu") = 0 /\ c("io") = 0
                           /\ c("ltp_new") = 0 /\ c("mtp_blocked") = 0 /\ c("dispatch") = 0
                           /\ c("timer") = 0 /\ c("ltp_exit") = 0)
        /\ c("ready") = 0 \/ (c("blocked") = 0 /\ c("suspended_ready") = 0 /\ c("exit") = 0
                           /\ c("cpu") = 0 /\ c("io") = 0 /\ c("ltp_new") = 0
                           /\ c("mtp_blocked") = 0 /\ c("dispatch") = 0 /\ c("timer") = 0
                           /\ c("ltp_exit") = 0)
        /\ c("blocked") = 0 \/ (c("suspended_ready") = 0 /\ c("exit") = 0 /\ c("cpu") = 0
                           /\ c("io") = 0 /\ c("ltp_new") = 0 /\ c("mtp_blocked") = 0
                           /\ c("dispatch") = 0 /\ c("timer") = 0 /\ c("ltp_exit") = 0)
        /\ c("suspended_ready") = 0 \/ (c("exit") = 0 /\ c("cpu") = 0 /\ c("io") = 0
                           /\ c("ltp_new") = 0 /\ c("mtp_blocked") = 0 /\ c("dispatch") = 0
                           /\ c("timer") = 0 /\ c("ltp_exit") = 0)
        /\ c("exit") = 0 \/ (c("cpu") = 0 /\ c("io") = 0 /\ c("ltp_new") = 0
                           /\ c("mtp_blocked") = 0 /\ c("dispatch") = 0 /\ c("timer") = 0
                           /\ c("ltp_exit") = 0)
        /\ c("cpu") = 0 \/ (c("io") = 0 /\ c("ltp_new") = 0 /\ c("mtp_blocked") = 0
                           /\ c("dispatch") = 0 /\ c("timer") = 0 /\ c("ltp_exit") = 0)
        /\ c("io") = 0 \/ (c("ltp_new") = 0 /\ c("mtp_blocked") = 0 /\ c("dispatch") = 0
                           /\ c("timer") = 0 /\ c("ltp_exit") = 0)
        /\ c("ltp_new") = 0 \/ (c("mtp_blocked") = 0 /\ c("dispatch") = 0 /\ c("timer") = 0
                           /\ c("ltp_exit") = 0)
        /\ c("mtp_blocked") = 0 \/ (c("dispatch") = 0 /\ c("timer") = 0 /\ c("ltp_exit") = 0)
        /\ c("dispatch") = 0 \/ (c("timer") = 0 /\ c("ltp_exit") = 0)
        /\ c("timer") = 0 \/ c("ltp_exit") = 0
    BY <1>1, <1>3, <2>1, AtMostOne
  <2> QED BY <1>3, <2>2
<1> QED BY <1>1, <1>4, <1>5, <1>6

(***************************************************************************)
(* The state of a process in each place, under FIFO and without faults.    *)
(***************************************************************************)
\* The states a process may have in place x.
Says(x) ==
    IF x = "new" THEN {"NEW"}
    ELSE IF x = "ready" THEN {"READY"}
    ELSE IF x \in {"blocked", "io"} THEN {"BLOCKED", "SUSPENDED_BLOCKED"}
    ELSE IF x = "suspended_ready" THEN {"SUSPENDED_READY"}
    ELSE IF x \in {"exit", "ltp_exit"} THEN {"EXIT"}
    ELSE IF x \in {"cpu", "dispatch"} THEN {"EXEC"}
    ELSE IF x = "ltp_new" THEN IF At("ltp_new", "page_table") THEN {"NEW"}
                               ELSE {"NEW", "SUSPENDED_READY"}
    ELSE IF x = "timer" THEN IF At("timer", "unblock")
                             THEN {"BLOCKED", "SUSPENDED_BLOCKED"} ELSE {"BLOCKED"}
    ELSE {}

PlacesSay == \A p \in Pcbs, x \in Places : Has(x, p) => pcb[p].status \in Says(x)

\* The callback that swaps a process out does not own it, but no other thread takes
\* the process out of BLOCKED meanwhile.
SwapSays == At("timer", "swap") => pcb[thread["timer"].pcb].status = "BLOCKED"

\* Where the threads never are under FIFO.
FifoPcs ==
    /\ \A t \in Movers : thread[t].pc \notin MoverPc \ {"to_ready"}
    /\ ~At("dispatch", "to_ready")

\* What is known of the planner when no swap fails.
Owned == WorkingInv /\ OwnersExact /\ OnePlace

LEMMA OwnedInvariant ==
    ASSUME ~SwapMayFail
    PROVE  Spec => []Owned
<1>1. WorkingInv /\ OwnersExact => OnePlace
  BY OwnerIsPlace DEF WorkingInv, CpuInv
<1> QED BY <1>1, WorkingInvariant, OwnersInvariant, PTL DEF Owned

\* Where a thread goes.
LEMMA GoesTo ==
    ASSUME TypeOK, NEW t \in Threads, NEW S,
           \E pc \in S : \/ Goto(t, pc) \/ Release(t, pc)
                         \/ \E p : GotoWith(t, pc, p)
    PROVE  thread'[t].pc \in S
BY GotoMoves, GotoWithMoves DEF Release

LEMMA FifoPcsStep ==
    ASSUME Algoritmo = "FIFO", TypeOK, FifoPcs, [Next]_vars
    PROVE  FifoPcs'
<1> USE Names, TypeFacts DEF At, FifoPcs, MoverPc, Movers
<1>1. CASE (\E p \in Pcbs : ltp_new_process(p)) \/ Cpu \/ UNCHANGED vars
  BY <1>1, OwnThread DEF ltp_new_process, vars
<1>2. CASE LtpNew
  <2>1. thread'["ltp_new"].pc \in {"wait_plan", "wait_level", "take", "page_table",
                                   "discard", "to_ready"}
    <3>1. \E pc \in {"wait_plan", "wait_level", "take", "page_table", "discard",
                     "to_ready"} :
             \/ Goto("ltp_new", pc) \/ Release("ltp_new", pc)
             \/ \E p : GotoWith("ltp_new", pc, p)
      BY <1>2 DEF LtpNew, LtpWaitPlan, LtpWaitLevel, LtpTakeSuspended, LtpTakeNew, LtpAdmit,
         LtpReject, LtpDiscard, SemWait
    <3> QED BY <3>1, GoesTo
  <2> QED BY <1>2, <2>1, OwnThread
<1>3. CASE LtpExit \/ MtpBlocked
  BY <1>3, OwnThread, ZenonT(40)
<1>4. CASE MtpTimer
  <2>1. thread'["timer"].pc \in {thread["timer"].pc, "idle", "unblock", "to_ready",
                                 "suspend", "swap"}
    <3>1. \/ thread' = thread
          \/ \E pc \in {"idle", "unblock", "to_ready", "suspend", "swap"} :
                \/ Goto("timer", pc) \/ Release("timer", pc)
                \/ \E p : GotoWith("timer", pc, p)
      BY <1>4 DEF MtpTimer, mtp_unblock_pcb, UnblockToReady, UnblockSuspended,
         UnblockError, SuspendTimerFires, mtp_suspend_pcb, SuspendCheck, SuspendSwapped,
         SuspendSwapFails
    <3>2. CASE thread' = thread
      BY <3>2
    <3>3. CASE thread' # thread
      <4>1. thread'["timer"].pc \in {"idle", "unblock", "to_ready", "suspend", "swap"}
        BY <3>1, <3>3, GoesTo
      <4> QED BY <4>1
    <3> QED BY <3>2, <3>3
  <2> QED BY <1>4, <2>1, OwnThread, ZenonT(60)
<1>5. ASSUME NEW t \in Movers, Mover(t) PROVE FifoPcs'
  <2>1. move_pcb_to_ready__fifo(t)
    BY <1>5 DEF Mover, SrtInsert, SrtStatus, SrtCheckBusy, SrtWaitInterrupt,
       SrtSendInterrupt, SrtFlagInterrupted, SrtPlan, SemWait
  <2>2. thread'[t].pc = ReturnPc(t)
    <3>1. Goto(t, ReturnPc(t)) \/ Release(t, ReturnPc(t))
      BY <2>1 DEF move_pcb_to_ready__fifo, Return
    <3> QED BY <3>1, GotoMoves, GotoWithMoves DEF Release, Threads
  <2>3. \A r \in Threads \ {t} : thread'[r] = thread[r]
    BY <1>5, MoverEffect
  <2> QED BY <2>2, <2>3 DEF ReturnPc
<1>6. CASE Stp
  <2>1. thread'["dispatch"].pc \in {thread["dispatch"].pc, "listening"}
    BY <1>6, SMTT(30) DEF Goto, GotoWith, SemWait, Stp, StpWaitPlan, StpWaitDispatch, StpPop,
       cpu_dispatch_pcb, cpu_listen_dispatch_async
  <2> QED BY <1>6, <2>1, OwnThread, ZenonT(40)
<1>7. CASE Dispatch
  <2>1. thread'["dispatch"].pc \in {"switch", "finish", "idle"}
    <3>1. ~DispatchInterrupted
      BY DEF DispatchInterrupted
    <3>2. \E pc \in {"switch", "finish", "idle"} :
             \/ Goto("dispatch", pc) \/ Release("dispatch", pc)
             \/ \E p : GotoWith("dispatch", pc, p)
      BY <1>7, <3>1 DEF Dispatch, cpu_recieve_pcb_async, DispatchExit, DispatchIo,
         DispatchError, DispatchFinish
    <3> QED BY <3>2, GoesTo
  <2> QED BY <1>7, <2>1, OwnThread, ZenonT(40)
<1> QED BY <1>1, <1>2, <1>3, <1>4, <1>5, <1>6, <1>7 DEF Next, System

(***************************************************************************)
(* How the places change.                                                  *)
(***************************************************************************)
\* squeue_push puts its process in the queue, and no other anywhere.
LEMMA PushHas ==
    ASSUME TypeOK, NEW q \in Queues, NEW e \in Pcbs, Push(q, e)
    PROVE  /\ Has(q, e)'
           /\ \A x \in Queues, r \in Pcbs \ {e} : Has(x, r)' => Has(x, r)
<1>1. queue[q] \in Seq(Pcbs) /\ queue'[q] = Append(queue[q], e)
      /\ \A x \in Queues \ {q} : queue'[x] = queue[x]
  BY TypeFacts DEF Push
<1>2. /\ Len(queue'[q]) = Len(queue[q]) + 1 /\ Len(queue[q]) \in Nat
      /\ queue'[q][Len(queue[q]) + 1] = e
      /\ \A i \in 1 .. Len(queue[q]) : queue'[q][i] = queue[q][i]
  BY <1>1
<1>3. Has(q, e)'
  BY <1>2 DEF Has
<1>4. ASSUME NEW x \in Queues, NEW r \in Pcbs \ {e}, Has(x, r)' PROVE Has(x, r)
  <2>1. CASE x # q
    BY <1>1, <1>4, <2>1 DEF Has
  <2>2. CASE x = q
    <3> PICK i \in 1 .. Len(queue'[q]) : queue'[q][i] = r
      BY <1>4, <2>2 DEF Has
    <3>1. i \in 1 .. Len(queue[q])
      BY <1>2
    <3> QED BY <1>2, <2>2, <3>1 DEF Has
  <2> QED BY <2>1, <2>2
<1> QED BY <1>3, <1>4

\* squeue_pop takes the first process of its queue, and puts none in another.
LEMMA PopHas ==
    ASSUME TypeOK, NEW q \in Queues, queue[q] # <<>>,
           queue' = [queue EXCEPT ![q] = Tail(@)]
    PROVE  /\ Head(queue[q]) \in Pcbs /\ Has(q, Head(queue[q]))
           /\ \A x \in Queues, r \in Pcbs : Has(x, r)' => Has(x, r)
<1>1. queue[q] \in Seq(Pcbs) /\ queue'[q] = Tail(queue[q])
      /\ \A x \in Queues \ {q} : queue'[x] = queue[x]
  BY TypeFacts
<1>2. /\ Len(queue'[q]) = Len(queue[q]) - 1 /\ 1 \in 1 .. Len(queue[q])
      /\ queue[q][1] = Head(queue[q])
      /\ \A i \in 1 .. Len(queue'[q]) :
            i + 1 \in 1 .. Len(queue[q]) /\ queue'[q][i] = queue[q][i + 1]
  <2> DEFINE s == queue[q]
  <2>1. s \in Seq(Pcbs) /\ s # <<>> /\ queue'[q] = Tail(s)
    BY <1>1
  <2> HIDE DEF s
  <2>2. Len(s) \in Nat /\ Len(s) # 0 /\ Len(Tail(s)) = Len(s) - 1 /\ s[1] = Head(s)
        /\ \A i \in 1 .. Len(Tail(s)) : Tail(s)[i] = s[i + 1]
    BY <2>1
  <2>3. 1 \in 1 .. Len(s) /\ \A i \in 1 .. Len(Tail(s)) : i + 1 \in 1 .. Len(s)
    BY <2>2
  <2> QED BY <2>1, <2>2, <2>3 DEF s
<1>3. Head(queue[q]) \in Pcbs /\ Has(q, Head(queue[q]))
  BY <1>1, <1>2 DEF Has
<1>4. ASSUME NEW x \in Queues, NEW r \in Pcbs, Has(x, r)' PROVE Has(x, r)
  <2>1. CASE x # q
    BY <1>1, <1>4, <2>1 DEF Has
  <2>2. CASE x = q
    <3> PICK i \in 1 .. Len(queue'[q]) : queue'[q][i] = r
      BY <1>4, <2>2 DEF Has
    <3> QED BY <1>2, <2>2 DEF Has
  <2> QED BY <2>1, <2>2
<1> QED BY <1>3, <1>4

\* No place but x can have the process.
LEMMA OnlyPlace ==
    ASSUME OnePlace', NEW p \in Pcbs, NEW x \in Places, Has(x, p)'
    PROVE  \A y \in Places : Has(y, p)' => y = x
BY DEF OnePlace

\* What a step of thread t leaves of the places of process r: no new one, and no other
\* state.
Left(t, r) ==
    /\ pcb'[r].status = pcb[r].status
    /\ \A x \in Queues : Has(x, r)' => Has(x, r)
    /\ exec' = r => exec = r
    /\ r \in io_timer' => r \in io_timer
    /\ t \in Hands => ~Has(t, r)' \/ (Has(t, r) /\ Says(t) \subseteq Says(t)')

\* The states of a process that is left where it is are still the right ones.
LEMMA LeftSays ==
    ASSUME PlacesSay, NEW t \in Threads, \A u \in Threads \ {t} : thread'[u] = thread[u],
           NEW r \in Pcbs, Left(t, r)
    PROVE  \A x \in Places : Has(x, r)' => pcb'[r].status \in Says(x)'
<1> SUFFICES ASSUME NEW x \in Places, Has(x, r)' PROVE pcb'[r].status \in Says(x)'
  OBVIOUS
<1>1. Has(x, r) => pcb[r].status \in Says(x)
  BY DEF PlacesSay
<1>2. CASE x \in Queues
  BY <1>1, <1>2 DEF Left, Says, Queues
<1>3. CASE x = "cpu" \/ x = "io"
  BY <1>1, <1>3, PlaceNames DEF Left, Says, Has
<1>4. CASE x \in Hands /\ x # t
  <2>1. thread'[x] = thread[x]
    BY <1>4, PlaceNames
  <2>2. Has(x, r) /\ Says(x)' = Says(x)
    BY <1>4, <2>1, PlaceNames DEF Has, HasInHand, AnyAt, At, Says
  <2> QED BY <1>1, <2>2 DEF Left
<1>5. CASE x = t /\ x \in Hands
  BY <1>1, <1>5 DEF Left
<1> QED BY <1>2, <1>3, <1>4, <1>5 DEF Places

\* A step of thread t that leaves every process where it is.
LEMMA NoneMoves ==
    ASSUME PlacesSay, NEW t \in Threads, \A u \in Threads \ {t} : thread'[u] = thread[u],
           \A r \in Pcbs : Left(t, r)
    PROVE  PlacesSay'
BY LeftSays DEF PlacesSay

\* A step of thread t that puts process p in place y, with a state that it may have
\* there, and leaves the others.
LEMMA OneMoves ==
    ASSUME OnePlace', PlacesSay, NEW t \in Threads,
           \A u \in Threads \ {t} : thread'[u] = thread[u],
           NEW p \in Pcbs, NEW y \in Places, Has(y, p)', pcb'[p].status \in Says(y)',
           \A r \in Pcbs \ {p} : Left(t, r)
    PROVE  PlacesSay'
<1> SUFFICES ASSUME NEW r \in Pcbs
             PROVE  \A x \in Places : Has(x, r)' => pcb'[r].status \in Says(x)'
  BY DEF PlacesSay
<1>1. CASE r = p
  BY <1>1, OnlyPlace
<1>2. CASE r # p
  BY <1>2, LeftSays
<1> QED BY <1>1, <1>2

\* A step of thread t after which process p is in no place.
LEMMA OneGoes ==
    ASSUME OnePlace', PlacesSay, NEW t \in Threads,
           \A u \in Threads \ {t} : thread'[u] = thread[u],
           NEW p \in Pcbs, ~Inside(p)', \A r \in Pcbs \ {p} : Left(t, r)
    PROVE  PlacesSay'
<1> SUFFICES ASSUME NEW r \in Pcbs
             PROVE  \A x \in Places : Has(x, r)' => pcb'[r].status \in Says(x)'
  BY DEF PlacesSay
<1>1. CASE r = p
  BY <1>1 DEF OnePlace
<1>2. CASE r # p
  BY <1>2, LeftSays
<1> QED BY <1>1, <1>2

(***************************************************************************)
(* One step of the planner is one transition of one process, with the      *)
(* levels of the degree that it takes or gives back.                       *)
(***************************************************************************)
Levels == sem["multiprogramming"] + HeldLevel

\* Process p goes from one state to another, and no other process to a new one.
Goes(p, from, to) ==
    /\ pcb[p].status = from /\ pcb'[p].status = to
    /\ \A r \in Pcbs \ {p} : pcb'[r].status = pcb[r].status

NobodyGoes == \A r \in Pcbs : pcb'[r].status = pcb[r].status

\* Outside of memory, or inside of it.
GoesAside(p) ==
    \/ Goes(p, "NONE", "NEW") \/ Goes(p, "NEW", "EXIT")
    \/ Goes(p, "SUSPENDED_BLOCKED", "SUSPENDED_READY") \/ Goes(p, "EXIT", "DESTROYED")
    \/ Goes(p, "READY", "EXEC") /\ \A r \in Pcbs : pcb[r].status # "EXEC"
    \/ Goes(p, "EXEC", "BLOCKED") \/ Goes(p, "BLOCKED", "READY")

GoesIn(p) == Goes(p, "NEW", "READY") \/ Goes(p, "SUSPENDED_READY", "READY")

GoesOut(p) == Goes(p, "BLOCKED", "SUSPENDED_BLOCKED") \/ Goes(p, "EXEC", "EXIT")

LifeStep ==
    \/ NobodyGoes /\ Levels' = Levels
    \/ (\E p \in Pcbs : GoesAside(p)) /\ Levels' = Levels
    \/ (\E p \in Pcbs : GoesIn(p)) /\ HeldLevel = 1 /\ Levels' = Levels - 1
    \/ (\E p \in Pcbs : GoesOut(p)) /\ Levels' = Levels + 1

Faultless == Algoritmo = "FIFO" /\ ~SwapMayFail /\ ~TimerMayFail

\* What is known before a step.
LifeInv == Owned /\ SemaphoresCountQueues /\ FifoPcs /\ PlacesSay /\ SwapSays

\* Only the controller of new processes holds a level.
LEMMA LevelsKept ==
    ASSUME sem'["multiprogramming"] = sem["multiprogramming"],
           thread'["ltp_new"] = thread["ltp_new"]
    PROVE  Levels' = Levels
BY DEF Levels, HeldLevel, AnyAt

\* Another thread leaves a process that is being swapped out in BLOCKED.
LEMMA SwapKept ==
    ASSUME TypeOK, SwapSays, thread'["timer"] = thread["timer"],
           \A r \in Pcbs : \/ pcb'[r].status = pcb[r].status
                           \/ pcb[r].status # "BLOCKED" \/ pcb'[r].status = "BLOCKED"
    PROVE  SwapSays'
<1>1. At("timer", "swap") => thread["timer"].pcb \in Pcbs
  BY HandTyped, Names DEF TypeOK, At, HoldingPcs
<1> QED BY <1>1 DEF SwapSays, At

\* What the controllers of the long-term planner do to the hands: none of the program
\* counters outside of the list has a process in hand.
LEMMA EmptyHand ==
    ASSUME NEW t \in Hands, NEW r,
           thread'[t].pc \notin {"page_table", "to_ready", "switch", "unblock", "fail"},
           t = "ltp_exit" => thread'[t].pc # "finish"
    PROVE  ~Has(t, r)'
BY PlaceNames DEF Has, HasInHand, AnyAt, At

LEMMA FullHand ==
    ASSUME NEW t \in Hands, NEW p, thread'[t].pcb = p,
           \/ thread'[t].pc \in {"page_table", "to_ready", "switch", "unblock"}
           \/ t = "ltp_exit" /\ thread'[t].pc = "finish"
    PROVE  Has(t, p)' /\ \A r : r # p => ~Has(t, r)'
BY PlaceNames DEF Has, HasInHand, AnyAt, At

\* Nothing moves but the program counter of a thread, which has nothing in hand then.
LEMMA Idle ==
    ASSUME PlacesSay, NEW t \in Threads,
           \A u \in Threads \ {t} : thread'[u] = thread[u],
           \A r \in Pcbs : pcb'[r].status = pcb[r].status, queue' = queue,
           exec' = exec, io_timer' = io_timer,
           t \in Hands => \A r \in Pcbs : ~Has(t, r)' \/ (Has(t, r) /\ Says(t)' = Says(t))
    PROVE  PlacesSay'
<1>1. \A r \in Pcbs : Left(t, r)
  BY DEF Left, Has
<1> QED BY <1>1, NoneMoves

\* A process comes into the hand of thread t.
LEMMA ToHand ==
    ASSUME OnePlace', PlacesSay, NEW t \in Hands,
           \A u \in Threads \ {t} : thread'[u] = thread[u],
           NEW p \in Pcbs, thread'[t].pcb = p,
           \/ thread'[t].pc \in {"page_table", "to_ready", "switch", "unblock"}
           \/ t = "ltp_exit" /\ thread'[t].pc = "finish",
           pcb'[p].status \in Says(t)',
           \A r \in Pcbs \ {p} : pcb'[r].status = pcb[r].status,
           \A x \in Queues, r \in Pcbs : Has(x, r)' => Has(x, r),
           exec' \in {exec, NULL}, io_timer' \subseteq io_timer
    PROVE  PlacesSay'
<1>1. Has(t, p)' /\ \A r : r # p => ~Has(t, r)'
  BY FullHand
<1>2. \A r \in Pcbs \ {p} : Left(t, r)
  <2> TAKE r \in Pcbs \ {p}
  <2>1. exec' = r => exec = r
    BY PlannerAssumption
  <2> QED BY <1>1, <2>1 DEF Left
<1>3. t \in Threads /\ t \in Places
  BY PlaceNames
<1> QED BY <1>1, <1>2, <1>3, OneMoves

\* Thread t, which is left with nothing in hand, puts a process in queue q.
LEMMA ToQueue ==
    ASSUME TypeOK, OnePlace', PlacesSay, NEW t \in Hands,
           \A u \in Threads \ {t} : thread'[u] = thread[u],
           thread'[t].pc \notin {"page_table", "to_ready", "switch", "unblock", "fail"},
           t # "ltp_exit",
           NEW p \in Pcbs, NEW q \in Queues, Push(q, p), pcb'[p].status \in Says(q)',
           \A r \in Pcbs \ {p} : pcb'[r].status = pcb[r].status,
           exec' = exec, io_timer' = io_timer
    PROVE  PlacesSay'
<1>1. Has(q, p)' /\ \A x \in Queues, r \in Pcbs \ {p} : Has(x, r)' => Has(x, r)
  BY PushHas
<1>2. \A r : ~Has(t, r)'
  BY EmptyHand
<1>3. \A r \in Pcbs \ {p} : Left(t, r)
  BY <1>1, <1>2 DEF Left
<1>4. t \in Threads /\ q \in Places
  BY PlaceNames
<1> QED BY <1>1, <1>3, <1>4, OneMoves

\* The controller of new processes.
LEMMA LtpNewLife ==
    ASSUME Faultless, LifeInv, OnePlace', LtpNew
    PROVE  PlacesSay' /\ SwapSays' /\ LifeStep
<1>0. TypeOK /\ PlacesSay /\ SwapSays
  BY DEF LifeInv, Owned, WorkingInv, CpuInv
<1>a. /\ sem \in [Semaphores -> Nat] /\ pcb \in [Pcbs -> PcbFields]
      /\ queue \in [Queues -> Seq(Pcbs)] /\ thread["ltp_new"].pcb \in Pcbs \cup {NULL}
  BY <1>0, Names DEF TypeOK, ThreadsTyped
<1>b. \A u \in Threads \ {"ltp_new"} : thread'[u] = thread[u]
  BY <1>0, OwnThread
<1> DEFINE h == thread["ltp_new"].pcb
<1> USE Names, PlaceNames DEF At, AnyAt
<1>c. "ltp_new" \in Hands /\ \A q \in Queues : q \notin Hands
  BY DEF Hands, Queues
<1>1. CASE LtpWaitPlan \/ LtpWaitLevel \/ LtpDiscard
  <2>1. /\ thread'["ltp_new"].pc \in {"wait_level", "take", "wait_plan"}
        /\ pcb' = pcb /\ queue' = queue /\ exec' = exec /\ io_timer' = io_timer
    <3>1. \E pc \in {"wait_level", "take", "wait_plan"} :
             \/ Goto("ltp_new", pc) \/ Release("ltp_new", pc)
             \/ \E p : GotoWith("ltp_new", pc, p)
      BY <1>1 DEF LtpWaitPlan, LtpWaitLevel, LtpDiscard, SemWait
    <3> QED BY <1>0, <1>1, <3>1, GoesTo DEF LtpWaitPlan, LtpWaitLevel, LtpDiscard, SemWait
  <2>2. PlacesSay'
    BY <1>0, <1>b, <1>c, <2>1, EmptyHand, Idle
  <2>3. SwapSays'
    BY <1>0, <1>b, <2>1, SwapKept
  <2>4. Levels' = Levels
    <3>1. CASE LtpWaitPlan
      BY <1>0, <1>a, <3>1, GotoMoves, SMTT(30) DEF LtpWaitPlan, SemWait, Levels, HeldLevel, Num
    <3>2. CASE LtpWaitLevel
      BY <1>0, <1>a, <3>2, GotoMoves, SMTT(30) DEF LtpWaitLevel, SemWait, Levels, HeldLevel, Num
    <3>3. CASE LtpDiscard
      BY <1>0, <1>a, <3>3, GotoWithMoves, SMTT(30) DEF LtpDiscard, Release, Levels, HeldLevel, Num
    <3> QED BY <1>1, <3>1, <3>2, <3>3
  <2> QED BY <2>1, <2>2, <2>3, <2>4 DEF LifeStep, NobodyGoes
<1>2. CASE LtpTakeSuspended
  <2> DEFINE p == Head(queue["suspended_ready"])
  <2>1. /\ p \in Pcbs /\ Has("suspended_ready", p)
        /\ \A x \in Queues, r \in Pcbs : Has(x, r)' => Has(x, r)
    BY <1>0, <1>2, PopHas DEF LtpTakeSuspended
  <2>2. /\ thread'["ltp_new"].pc = "to_ready" /\ thread'["ltp_new"].pcb = p
        /\ pcb' = pcb /\ exec' = exec /\ io_timer' = io_timer /\ sem' = sem
    BY <1>0, <1>2, GotoWithMoves DEF LtpTakeSuspended
  <2> HIDE DEF p
  <2>4. pcb[p].status = "SUSPENDED_READY"
    BY <1>0, <2>1 DEF PlacesSay, Says
  <2>5. pcb'[p].status \in Says("ltp_new")'
    BY <2>2, <2>4 DEF Says
  <2>6. PlacesSay'
    BY <1>0, <1>b, <1>c, <2>1, <2>2, <2>5, ToHand
  <2>7. SwapSays'
    BY <1>0, <1>b, <2>2, SwapKept
  <2>8. Levels' = Levels
    BY <1>2, <2>2 DEF LtpTakeSuspended, Levels, HeldLevel, Num
  <2> QED BY <2>2, <2>6, <2>7, <2>8 DEF LifeStep, NobodyGoes
<1>3. CASE LtpTakeNew
  <2> DEFINE p == Head(queue["new"])
  <2>1. queue["new"] # <<>>
    <3>1. NewCounted /\ At("ltp_new", "take") /\ queue["suspended_ready"] = <<>>
      BY <1>3 DEF LtpTakeNew, LifeInv, SemaphoresCountQueues
    <3>2. Len(queue["new"]) + 0 = sem["ltp_plan"] + 1
      BY <3>1 DEF NewCounted, Num
    <3> QED BY <1>a, <3>2
  <2>2. /\ p \in Pcbs /\ Has("new", p)
        /\ \A x \in Queues, r \in Pcbs : Has(x, r)' => Has(x, r)
    BY <1>0, <1>3, <2>1, PopHas DEF LtpTakeNew
  <2>3. /\ thread'["ltp_new"].pc = "page_table" /\ thread'["ltp_new"].pcb = p
        /\ pcb' = pcb /\ exec' = exec /\ io_timer' = io_timer /\ sem' = sem
    BY <1>0, <1>3, <2>1, GotoWithMoves DEF LtpTakeNew
  <2> HIDE DEF p
  <2>5. pcb[p].status = "NEW"
    BY <1>0, <2>2 DEF PlacesSay, Says
  <2>6. pcb'[p].status \in Says("ltp_new")'
    BY <2>3, <2>5 DEF Says
  <2>7. PlacesSay'
    BY <1>0, <1>b, <1>c, <2>2, <2>3, <2>6, ToHand
  <2>8. SwapSays'
    BY <1>0, <1>b, <2>3, SwapKept
  <2>9. Levels' = Levels
    BY <1>3, <2>3 DEF LtpTakeNew, Levels, HeldLevel, Num
  <2> QED BY <2>3, <2>7, <2>8, <2>9 DEF LifeStep, NobodyGoes
<1>4. CASE LtpAdmit
  <2>1. /\ thread'["ltp_new"].pc = "to_ready" /\ thread'["ltp_new"].pcb = h
        /\ thread["ltp_new"].pc = "page_table" /\ queue' = queue
        /\ pcb' = pcb /\ exec' = exec /\ io_timer' = io_timer /\ sem' = sem
    BY <1>0, <1>4, GotoMoves DEF LtpAdmit
  <2>2. h \in Pcbs
    BY <1>0, <2>1, HandTyped DEF TypeOK, HoldingPcs
  <2>3. Has("ltp_new", h) /\ pcb[h].status = "NEW"
    BY <1>0, <1>c, <2>1, <2>2 DEF Has, HasInHand, PlacesSay, Says
  <2>4. \A x \in Queues, r \in Pcbs : Has(x, r)' => Has(x, r)
    BY <2>1 DEF Has
  <2>5. pcb'[h].status \in Says("ltp_new")'
    BY <2>1, <2>3 DEF Says
  <2>6. PlacesSay'
    BY <1>0, <1>b, <1>c, <2>1, <2>2, <2>4, <2>5, ToHand
  <2>7. SwapSays'
    BY <1>0, <1>b, <2>1, SwapKept
  <2>8. Levels' = Levels
    BY <2>1 DEF Levels, HeldLevel, Num
  <2> QED BY <2>1, <2>6, <2>7, <2>8 DEF LifeStep, NobodyGoes
<1>5. CASE LtpReject
  <2>1. /\ thread'["ltp_new"].pc = "discard" /\ thread["ltp_new"].pc = "page_table"
        /\ exec' = exec /\ io_timer' = io_timer /\ move_pcb_to_exit(h, TRUE)
    BY <1>0, <1>5, GotoMoves DEF LtpReject
  <2>2. h \in Pcbs
    BY <1>0, <2>1, HandTyped DEF TypeOK, HoldingPcs
  <2>3. pcb[h].status = "NEW"
    BY <1>0, <1>c, <2>1, <2>2 DEF Has, HasInHand, PlacesSay, Says
  <2>4. /\ pcb'[h].status = "EXIT" /\ Push("exit", h)
        /\ \A r \in Pcbs \ {h} : pcb'[r] = pcb[r]
    BY <1>0, <2>1, <2>2, ExitWrites
  <2>5. sem'["multiprogramming"] = sem["multiprogramming"]
    BY <1>a, <2>1, <2>3 DEF move_pcb_to_exit, InMemory
  <2>7. pcb'[h].status \in Says("exit")'
    BY <2>4 DEF Says
  <2>8. PlacesSay'
    BY <1>0, <1>b, <1>c, <2>1, <2>2, <2>4, <2>7, ToQueue
  <2>9. SwapSays'
    BY <1>0, <1>b, <2>3, <2>4, SwapKept
  <2>10. Levels' = Levels
    BY <2>1, <2>5 DEF Levels, HeldLevel, Num
  <2>11. Goes(h, "NEW", "EXIT")
    BY <2>3, <2>4 DEF Goes
  <2> QED BY <2>2, <2>8, <2>9, <2>10, <2>11 DEF LifeStep, GoesAside
<1> QED BY <1>1, <1>2, <1>3, <1>4, <1>5 DEF LtpNew

\* A step of another thread that changes no queue and no state, and that takes no
\* process in hand.
LEMMA StillLife ==
    ASSUME TypeOK, PlacesSay, SwapSays, NEW t \in Threads \ {"ltp_new", "timer"},
           \A u \in Threads \ {t} : thread'[u] = thread[u],
           thread'[t].pc \notin {"page_table", "to_ready", "switch", "unblock", "fail"},
           t = "ltp_exit" => thread'[t].pc # "finish",
           \A r \in Pcbs : pcb'[r].status = pcb[r].status,
           queue' = queue, exec' = exec, io_timer' = io_timer,
           sem'["multiprogramming"] = sem["multiprogramming"]
    PROVE  PlacesSay' /\ SwapSays' /\ LifeStep
<1>1. t \in Hands => \A r \in Pcbs : ~Has(t, r)'
  BY EmptyHand
<1>2. PlacesSay'
  BY <1>1, Idle
<1>3. thread'["timer"] = thread["timer"] /\ thread'["ltp_new"] = thread["ltp_new"]
  BY Names
<1>4. SwapSays'
  BY <1>3, SwapKept
<1>5. Levels' = Levels
  BY <1>3, LevelsKept
<1> QED BY <1>2, <1>4, <1>5 DEF LifeStep, NobodyGoes

\* A console submits a process.
LEMMA SubmitLife ==
    ASSUME Faultless, LifeInv, OnePlace', NEW h \in Pcbs, ltp_new_process(h)
    PROVE  PlacesSay' /\ SwapSays' /\ LifeStep
<1>0. TypeOK /\ PlacesSay /\ SwapSays
  BY DEF LifeInv, Owned, WorkingInv, CpuInv
<1>a. sem \in [Semaphores -> Nat] /\ pcb \in [Pcbs -> PcbFields]
  BY <1>0 DEF TypeOK
<1>1. /\ thread' = thread /\ exec' = exec /\ io_timer' = io_timer /\ Push("new", h)
      /\ sem'["multiprogramming"] = sem["multiprogramming"] /\ pcb[h].status = "NONE"
  BY <1>a, Names DEF ltp_new_process, move_pcb_to_new
<1>2. /\ pcb'[h].status = "NEW"
      /\ \A r \in Pcbs \ {h} : pcb'[r] = pcb[r]
  BY <1>a DEF ltp_new_process, move_pcb_to_new, PcbFields
<1>3. Has("new", h)' /\ \A x \in Queues, r \in Pcbs \ {h} : Has(x, r)' => Has(x, r)
  BY <1>0, <1>1, PushHas, Names
<1>4. \A r \in Pcbs \ {h} : Left("stp", r)
  BY <1>1, <1>2, <1>3, PlaceNames DEF Left, Hands
<1>5. "stp" \in Threads /\ "new" \in Places /\ pcb'[h].status \in Says("new")'
  BY <1>2, PlaceNames, Names DEF Says
<1>6. PlacesSay'
  BY <1>0, <1>1, <1>3, <1>4, <1>5, OneMoves
<1>7. SwapSays'
  BY <1>0, <1>1, <1>2, SwapKept
<1>8. Levels' = Levels
  BY <1>1, LevelsKept
<1>9. Goes(h, "NONE", "NEW")
  BY <1>1, <1>2 DEF Goes
<1> QED BY <1>6, <1>7, <1>8, <1>9 DEF LifeStep, GoesAside

\* The controller of finished processes.
LEMMA LtpExitLife ==
    ASSUME Faultless, LifeInv, OnePlace', LtpExit
    PROVE  PlacesSay' /\ SwapSays' /\ LifeStep
<1>0. TypeOK /\ PlacesSay /\ SwapSays
  BY DEF LifeInv, Owned, WorkingInv, CpuInv
<1>a. /\ sem \in [Semaphores -> Nat] /\ pcb \in [Pcbs -> PcbFields]
      /\ queue \in [Queues -> Seq(Pcbs)]
  BY <1>0 DEF TypeOK
<1>b. \A u \in Threads \ {"ltp_exit"} : thread'[u] = thread[u]
  BY <1>0, OwnThread
<1>c. thread'["timer"] = thread["timer"] /\ thread'["ltp_new"] = thread["ltp_new"]
  BY <1>b, Names
<1>d. "ltp_exit" \in Hands /\ "ltp_exit" \in Threads \ {"ltp_new", "timer"}
  BY Names DEF Hands
<1>1. CASE ExitWait
  <2>1. /\ thread'["ltp_exit"].pc = "pop"
        /\ pcb' = pcb /\ queue' = queue /\ exec' = exec /\ io_timer' = io_timer
        /\ sem'["multiprogramming"] = sem["multiprogramming"]
    BY <1>0, <1>1, <1>a, <1>d, GotoMoves, Names DEF ExitWait, SemWait
  <2> QED BY <1>0, <1>b, <1>d, <2>1, StillLife
<1>2. CASE ExitPop
  <2> DEFINE p == Head(queue["exit"])
  <2>1. queue["exit"] # <<>>
    <3>1. Len(queue["exit"]) = sem["ltp_exit"] + 1
      BY <1>2 DEF ExitPop, LifeInv, SemaphoresCountQueues, ExitCounted, Num, At
    <3> QED BY <1>a, <3>1, Names
  <2>2. /\ p \in Pcbs /\ Has("exit", p)
        /\ \A x \in Queues, r \in Pcbs : Has(x, r)' => Has(x, r)
    BY <1>0, <1>2, <2>1, PopHas, Names DEF ExitPop
  <2>3. /\ thread'["ltp_exit"].pc = "finish" /\ thread'["ltp_exit"].pcb = p
        /\ pcb' = pcb /\ exec' = exec /\ io_timer' = io_timer /\ sem' = sem
    BY <1>0, <1>2, <1>d, <2>1, GotoWithMoves DEF ExitPop
  <2> HIDE DEF p
  <2>5. pcb'[p].status \in Says("ltp_exit")'
    BY <1>0, <2>2, <2>3, PlaceNames, Names DEF PlacesSay, Says
  <2>6. PlacesSay'
    BY <1>0, <1>b, <1>d, <2>2, <2>3, <2>5, ToHand
  <2>7. SwapSays'
    BY <1>0, <1>c, <2>3, SwapKept
  <2>8. Levels' = Levels
    BY <1>c, <2>3, LevelsKept
  <2> QED BY <2>3, <2>6, <2>7, <2>8 DEF LifeStep, NobodyGoes
<1>3. CASE ExitFinish
  <2>0. thread["ltp_exit"].pcb \in Pcbs
    BY <1>0, <1>3, <1>d, HandTyped DEF ExitFinish, At, TypeOK, HoldingPcs
  <2> PICK h \in Pcbs : h = thread["ltp_exit"].pcb
    BY <2>0
  <2>1. /\ thread["ltp_exit"].pc = "finish" /\ thread'["ltp_exit"].pc = "wait"
        /\ queue' = queue /\ exec' = exec /\ io_timer' = io_timer /\ sem' = sem
        /\ pcb' = [pcb EXCEPT ![h].status = "DESTROYED"]
    BY <1>0, <1>3, <1>d, GotoWithMoves DEF ExitFinish, At, Release
  <2>3. Has("ltp_exit", h) /\ pcb[h].status = "EXIT"
    <3>1. Has("ltp_exit", h)
      BY <2>1, PlaceNames, <1>d DEF Has, HasInHand, At
    <3> QED BY <1>0, <1>d, <3>1, PlaceNames, Names DEF PlacesSay, Says
  <2>4. /\ pcb'[h].status = "DESTROYED"
        /\ \A r \in Pcbs \ {h} : pcb'[r] = pcb[r]
    BY <1>0, <2>1, StatusWritten
  <2>5. \A r \in Pcbs : ~Has("ltp_exit", r)'
    BY <1>d, <2>1, EmptyHand
  <2>6. \A r \in Pcbs \ {h} : Left("ltp_exit", r)
    BY <2>1, <2>4, <2>5 DEF Left, Has
  <2>7. ~Inside(h)'
    BY <2>4 DEF Inside
  <2>8. PlacesSay'
    BY <1>0, <1>b, <1>d, <2>6, <2>7, OneGoes
  <2>9. SwapSays'
    BY <1>0, <1>c, <2>3, <2>4, SwapKept
  <2>10. Levels' = Levels
    BY <1>c, <2>1, LevelsKept
  <2>11. Goes(h, "EXIT", "DESTROYED")
    BY <2>3, <2>4 DEF Goes
  <2> QED BY <2>8, <2>9, <2>10, <2>11 DEF LifeStep, GoesAside
<1> QED BY <1>1, <1>2, <1>3 DEF LtpExit

\* The controller of blocked processes.
LEMMA MtpBlockedLife ==
    ASSUME Faultless, LifeInv, OnePlace', MtpBlocked
    PROVE  PlacesSay' /\ SwapSays' /\ LifeStep
<1>0. TypeOK /\ PlacesSay /\ SwapSays
  BY DEF LifeInv, Owned, WorkingInv, CpuInv
<1>a. sem \in [Semaphores -> Nat]
  BY <1>0 DEF TypeOK
<1>b. \A u \in Threads \ {"mtp_blocked"} : thread'[u] = thread[u]
  BY <1>0, OwnThread
<1>c. thread'["timer"] = thread["timer"] /\ thread'["ltp_new"] = thread["ltp_new"]
  BY <1>b, Names
<1>d. "mtp_blocked" \in Hands /\ "mtp_blocked" \in Threads \ {"ltp_new", "timer"}
  BY Names DEF Hands
<1>1. CASE BlockedWaitPlanner \/ BlockedWaitIo
  <2>1. /\ thread'["mtp_blocked"].pc \in {"wait_io", "pop"}
        /\ pcb' = pcb /\ queue' = queue /\ exec' = exec /\ io_timer' = io_timer
        /\ sem'["multiprogramming"] = sem["multiprogramming"]
    BY <1>0, <1>1, <1>a, <1>d, GotoMoves, Names DEF BlockedWaitPlanner, BlockedWaitIo, SemWait
  <2> QED BY <1>0, <1>b, <1>d, <2>1, StillLife
<1>2. CASE mtp_block_pcb
  <2>1. /\ Head(queue["blocked"]) \in Pcbs /\ Has("blocked", Head(queue["blocked"]))
        /\ \A x \in Queues, r \in Pcbs : Has(x, r)' => Has(x, r)
    BY <1>0, <1>2, PopHas, Names DEF mtp_block_pcb
  <2> PICK p \in Pcbs : p = Head(queue["blocked"])
    BY <2>1
  <2>2. /\ thread'["mtp_blocked"].pc = "wait_planner" /\ io_timer' = io_timer \cup {p}
        /\ pcb' = pcb /\ exec' = exec /\ sem' = sem
    BY <1>0, <1>2, <1>d, GotoMoves DEF mtp_block_pcb
  <2>3. pcb'[p].status \in Says("io")'
    BY <1>0, <2>1, <2>2, PlaceNames, Names DEF PlacesSay, Says
  <2>4. \A r \in Pcbs : ~Has("mtp_blocked", r)'
    BY <1>d, <2>2, EmptyHand
  <2>5. \A r \in Pcbs \ {p} : Left("mtp_blocked", r)
    BY <2>1, <2>2, <2>4 DEF Left
  <2>6. Has("io", p)' /\ "io" \in Places
    BY <2>2, PlaceNames DEF Has
  <2>7. PlacesSay'
    BY <1>0, <1>b, <1>d, <2>1, <2>3, <2>5, <2>6, OneMoves
  <2>8. SwapSays'
    BY <1>0, <1>c, <2>2, SwapKept
  <2>9. Levels' = Levels
    BY <1>c, <2>2, LevelsKept
  <2> QED BY <2>2, <2>7, <2>8, <2>9 DEF LifeStep, NobodyGoes
<1>3. ~BlockFails
  BY DEF BlockFails, Faultless
<1>4. ~BlockFailExit
  <2> SUFFICES ASSUME BlockFailExit PROVE FALSE
    OBVIOUS
  <2> DEFINE h == thread["mtp_blocked"].pcb
  <2>1. thread["mtp_blocked"].pc = "fail"
    BY DEF BlockFailExit, At
  <2>2. h \in Pcbs
    BY <1>0, <1>d, <2>1, HandTyped DEF TypeOK, HoldingPcs
  <2>3. Has("mtp_blocked", h)
    BY <1>d, <2>1, PlaceNames DEF Has, HasInHand, AnyAt
  <2> QED BY <1>0, <1>d, <2>2, <2>3, PlaceNames DEF PlacesSay, Says
<1>5. CASE BlockFailRelease
  <2>1. /\ thread'["mtp_blocked"].pc = "wait_planner"
        /\ pcb' = pcb /\ queue' = queue /\ exec' = exec /\ io_timer' = io_timer
        /\ sem'["multiprogramming"] = sem["multiprogramming"]
    BY <1>0, <1>5, <1>a, <1>d, GotoWithMoves, Names DEF BlockFailRelease, Release
  <2> QED BY <1>0, <1>b, <1>d, <2>1, StillLife
<1> QED BY <1>1, <1>2, <1>3, <1>4, <1>5 DEF MtpBlocked

\* The timers: the callbacks of both, one at a time.
LEMMA MtpTimerLife ==
    ASSUME Faultless, LifeInv, OnePlace', MtpTimer
    PROVE  PlacesSay' /\ SwapSays' /\ LifeStep
<1>0. TypeOK /\ PlacesSay /\ SwapSays /\ OnePlace
  BY DEF LifeInv, Owned, WorkingInv, CpuInv
<1>a. /\ sem \in [Semaphores -> Nat] /\ pcb \in [Pcbs -> PcbFields]
      /\ thread["stp"].pc \in PcsOf("stp")
  BY <1>0, Names DEF TypeOK, ThreadsTyped
<1>b. \A u \in Threads \ {"timer"} : thread'[u] = thread[u]
  BY <1>0, OwnThread
<1>c. thread'["ltp_new"] = thread["ltp_new"]
  BY <1>b, Names
<1>d. "timer" \in Hands /\ "timer" \in Threads
  BY Names DEF Hands
<1>e. ASSUME thread["timer"].pc \in {"unblock", "swap"}
      PROVE  thread["timer"].pcb \in Pcbs
  BY <1>0, <1>d, <1>e, HandTyped DEF TypeOK, HoldingPcs
<1>f. ASSUME NEW h \in Pcbs, h = thread["timer"].pcb, thread["timer"].pc = "unblock"
      PROVE  Has("timer", h) /\ pcb[h].status \in {"BLOCKED", "SUSPENDED_BLOCKED"}
  <2>1. Has("timer", h)
    BY <1>d, <1>f, PlaceNames DEF Has, HasInHand, AnyAt
  <2> QED BY <1>0, <1>d, <1>f, <2>1, PlaceNames DEF PlacesSay, Says, At
<1>1. ASSUME NEW p \in Pcbs, mtp_unblock_pcb(p) PROVE PlacesSay' /\ SwapSays' /\ LifeStep
  <2>1. /\ thread'["timer"].pc = "unblock" /\ thread'["timer"].pcb = p
        /\ p \in io_timer /\ io_timer' = io_timer \ {p} /\ pcb' = pcb /\ exec' = exec
        /\ queue' = queue /\ sem'["multiprogramming"] = sem["multiprogramming"]
    BY <1>0, <1>1, <1>a, <1>d, GotoWithMoves, Names DEF mtp_unblock_pcb
  <2>2. pcb[p].status \in Says("io")
    BY <1>0, <2>1, PlaceNames DEF PlacesSay, Has
  <2>3. pcb'[p].status \in Says("timer")'
    BY <2>1, <2>2, PlaceNames DEF Says, At
  <2>4. \A x \in Queues, r \in Pcbs : Has(x, r)' => Has(x, r)
    BY <2>1 DEF Has
  <2>5. PlacesSay'
    BY <1>0, <1>b, <1>d, <2>1, <2>3, <2>4, ToHand
  <2>6. SwapSays'
    BY <2>1 DEF SwapSays, At
  <2>7. Levels' = Levels
    BY <1>c, <2>1, LevelsKept
  <2> QED BY <2>1, <2>5, <2>6, <2>7 DEF LifeStep, NobodyGoes
<1>2. CASE UnblockToReady
  <2> PICK h \in Pcbs : h = thread["timer"].pcb
    BY <1>2, <1>e DEF UnblockToReady, At
  <2>1. /\ thread'["timer"].pc = "to_ready" /\ thread'["timer"].pcb = h
        /\ io_timer' = io_timer /\ pcb' = pcb /\ exec' = exec
        /\ queue' = queue /\ sem' = sem /\ pcb[h].status = "BLOCKED"
    BY <1>0, <1>2, <1>d, GotoMoves DEF UnblockToReady
  <2>2. pcb'[h].status \in Says("timer")'
    BY <2>1, PlaceNames DEF Says, At
  <2>3. \A x \in Queues, r \in Pcbs : Has(x, r)' => Has(x, r)
    BY <2>1 DEF Has
  <2>4. PlacesSay'
    BY <1>0, <1>b, <1>d, <2>1, <2>2, <2>3, ToHand
  <2>5. SwapSays'
    BY <2>1 DEF SwapSays, At
  <2>6. Levels' = Levels
    BY <1>c, <2>1, LevelsKept
  <2> QED BY <2>1, <2>4, <2>5, <2>6 DEF LifeStep, NobodyGoes
<1>3. CASE UnblockSuspended
  <2> PICK h \in Pcbs : h = thread["timer"].pcb
    BY <1>3, <1>e DEF UnblockSuspended, At
  <2>1. /\ thread'["timer"].pc = "idle" /\ pcb[h].status = "SUSPENDED_BLOCKED"
        /\ move_pcb_to_suspended_ready(h) /\ exec' = exec /\ io_timer' = io_timer
    BY <1>0, <1>3, <1>d, GotoWithMoves DEF UnblockSuspended, Release
  <2>2. /\ Push("suspended_ready", h) /\ pcb'[h].status = "SUSPENDED_READY"
        /\ \A r \in Pcbs \ {h} : pcb'[r] = pcb[r]
        /\ sem'["multiprogramming"] = sem["multiprogramming"]
    BY <1>0, <1>a, <2>1, StatusWritten, Names DEF move_pcb_to_suspended_ready
  <2>3. pcb'[h].status \in Says("suspended_ready")'
    BY <2>2 DEF Says
  <2>4. PlacesSay'
    BY <1>0, <1>b, <1>d, <2>1, <2>2, <2>3, ToQueue, Names
  <2>5. SwapSays'
    BY <2>1 DEF SwapSays, At
  <2>6. Levels' = Levels
    BY <1>c, <2>2, LevelsKept
  <2>7. Goes(h, "SUSPENDED_BLOCKED", "SUSPENDED_READY")
    BY <2>1, <2>2 DEF Goes
  <2> QED BY <2>4, <2>5, <2>6, <2>7 DEF LifeStep, GoesAside
<1>4. ~UnblockError
  <2> SUFFICES ASSUME UnblockError PROVE FALSE
    OBVIOUS
  <2> PICK h \in Pcbs : h = thread["timer"].pcb
    BY <1>e DEF UnblockError, At
  <2> QED BY <1>f DEF UnblockError, At
<1>5. ASSUME NEW p \in Pcbs, NEW k \in 1 .. MaxIO, SuspendTimerFires(p, k)
      PROVE  PlacesSay' /\ SwapSays' /\ LifeStep
  <2>1. /\ thread' = thread /\ pcb' = pcb /\ queue' = queue /\ exec' = exec
        /\ io_timer' = io_timer /\ sem' = sem
    BY <1>5 DEF SuspendTimerFires
  <2>2. "stp" \in Threads \ {"ltp_new", "timer"}
    BY Names
  <2>3. thread'["stp"].pc \notin {"page_table", "to_ready", "switch", "unblock", "fail"}
    BY <1>a, <2>1 DEF PcsOf
  <2> QED BY <1>0, <2>1, <2>2, <2>3, StillLife
<1>6. ASSUME NEW p \in Pcbs, NEW k \in 1 .. MaxIO, mtp_suspend_pcb(p, k)
      PROVE  PlacesSay' /\ SwapSays' /\ LifeStep
  <2>1. /\ thread'["timer"].pc = "suspend" /\ queue' = queue /\ exec' = exec
        /\ io_timer' = io_timer /\ sem' = sem /\ pcb' = [pcb EXCEPT ![p].timer = 0]
    BY <1>0, <1>6, <1>d, GotoWithMoves DEF mtp_suspend_pcb
  <2>2. \A r \in Pcbs : pcb'[r].status = pcb[r].status
    BY <1>a, <2>1 DEF PcbFields
  <2>3. PlacesSay'
    BY <1>0, <1>b, <1>d, <2>1, <2>2, EmptyHand, Idle
  <2>4. SwapSays'
    BY <2>1 DEF SwapSays, At
  <2>5. Levels' = Levels
    BY <1>c, <2>1, LevelsKept
  <2> QED BY <2>2, <2>3, <2>4, <2>5 DEF LifeStep, NobodyGoes
<1>7. CASE SuspendCheck
  <2>1. /\ thread'["timer"].pc \in {"swap", "idle"} /\ queue' = queue /\ exec' = exec
        /\ io_timer' = io_timer /\ sem' = sem /\ pcb' = pcb
        /\ thread'["timer"].pc = "swap" => /\ thread'["timer"].pcb = thread["timer"].pcb
                                           /\ pcb[thread["timer"].pcb].status = "BLOCKED"
    BY <1>0, <1>7, <1>d, GotoMoves, GotoWithMoves DEF SuspendCheck, Release
  <2>2. PlacesSay'
    BY <1>0, <1>b, <1>d, <2>1, EmptyHand, Idle
  <2>3. SwapSays'
    BY <2>1 DEF SwapSays, At
  <2>4. Levels' = Levels
    BY <1>c, <2>1, LevelsKept
  <2> QED BY <2>1, <2>2, <2>3, <2>4 DEF LifeStep, NobodyGoes
<1>8. CASE SuspendSwapped
  <2> PICK h \in Pcbs : h = thread["timer"].pcb
    BY <1>8, <1>e DEF SuspendSwapped, At
  <2>1. /\ thread["timer"].pc = "swap" /\ thread'["timer"].pc = "idle"
        /\ move_pcb_to_suspended_blocked(h)
        /\ queue' = queue /\ exec' = exec /\ io_timer' = io_timer
    BY <1>0, <1>8, <1>d, GotoWithMoves
       DEF SuspendSwapped, At, Release, move_pcb_to_suspended_blocked
  <2>2. pcb[h].status = "BLOCKED"
    BY <1>0, <2>1 DEF SwapSays, At
  <2>3. /\ pcb'[h].status = "SUSPENDED_BLOCKED"
        /\ \A r \in Pcbs \ {h} : pcb'[r] = pcb[r]
    <3>1. pcb' = [pcb EXCEPT ![h].status = "SUSPENDED_BLOCKED"]
      BY <2>1, <2>2 DEF move_pcb_to_suspended_blocked, Alive
    <3> QED BY <1>0, <3>1, StatusWritten, ZenonT(40)
  <2>4. PICK y \in Places : Has(y, h)
    BY <1>0, <2>2 DEF OnePlace, Inside
  <2>5. y \in {"blocked", "io"}
    <3>1. pcb[h].status \in Says(y)
      BY <1>0, <2>4 DEF PlacesSay
    <3>2. y # "timer"
      BY <1>d, <2>1, <2>4, PlaceNames DEF Has, HasInHand, AnyAt, At
    <3> QED BY <2>2, <3>1, <3>2 DEF Says, Places, Hands, Queues
  <2>6. Has(y, h)' /\ pcb'[h].status \in Says(y)'
    BY <2>1, <2>3, <2>4, <2>5, PlaceNames, Names DEF Has, Says
  <2>7. \A r \in Pcbs : ~Has("timer", r)'
    BY <1>d, <2>1, EmptyHand
  <2>8. \A r \in Pcbs \ {h} : Left("timer", r)
    BY <2>1, <2>3, <2>7 DEF Left, Has
  <2>9. PlacesSay'
    BY <1>0, <1>b, <1>d, <2>6, <2>8, OneMoves
  <2>10. SwapSays'
    BY <2>1 DEF SwapSays, At
  <2>11. Levels' = Levels + 1
    <3>1. /\ sem'["multiprogramming"] = sem["multiprogramming"] + 1
          /\ sem["multiprogramming"] \in Nat
      BY <1>a, <2>1, Names DEF move_pcb_to_suspended_blocked
    <3>2. HeldLevel' = HeldLevel /\ HeldLevel \in Nat
      BY <1>c DEF HeldLevel, AnyAt, Num
    <3> QED BY <3>1, <3>2 DEF Levels
  <2>12. Goes(h, "BLOCKED", "SUSPENDED_BLOCKED")
    BY <2>2, <2>3 DEF Goes
  <2> QED BY <2>9, <2>10, <2>11, <2>12 DEF LifeStep, GoesOut
<1>9. ~SuspendSwapFails
  BY DEF SuspendSwapFails, Faultless
<1> QED BY <1>1, <1>2, <1>3, <1>4, <1>5, <1>6, <1>7, <1>8, <1>9 DEF MtpTimer

\* move_pcb_to_ready under FIFO, called by the controller of new processes or by the
\* end of an I/O.
LEMMA MoverLife ==
    ASSUME Faultless, LifeInv, OnePlace', NEW t \in Movers, Mover(t)
    PROVE  PlacesSay' /\ SwapSays' /\ LifeStep
<1>0. TypeOK /\ PlacesSay /\ SwapSays /\ FifoPcs
  BY DEF LifeInv, Owned, WorkingInv, CpuInv
<1>a. sem \in [Semaphores -> Nat] /\ pcb \in [Pcbs -> PcbFields]
  BY <1>0 DEF TypeOK
<1>b. \A u \in Threads \ {t} : thread'[u] = thread[u]
  BY <1>0, MoverEffect
<1>1. move_pcb_to_ready__fifo(t)
  <2>1. thread[t].pc \notin MoverPc \ {"to_ready"}
    BY <1>0 DEF FifoPcs
  <2> QED BY <2>1 DEF Mover, SrtInsert, SrtStatus, SrtCheckBusy, SrtWaitInterrupt,
             SrtSendInterrupt, SrtFlagInterrupted, SrtPlan, SemWait, At, MoverPc, Faultless
<1>2. thread[t].pc = "to_ready" /\ t \in {"ltp_new", "timer"}
  BY <1>0, <1>1 DEF move_pcb_to_ready__fifo, At, Movers, FifoPcs
<1>c. t \in Hands /\ t \in Threads /\ t # "ltp_exit"
  BY <1>2, Names DEF Hands
<1>3. thread[t].pcb \in Pcbs
  BY <1>0, <1>2, <1>c, HandTyped DEF TypeOK, HoldingPcs, MoverPc
<1> PICK h \in Pcbs : h = thread[t].pcb
  BY <1>3
<1>4. /\ thread'[t].pc \in {"wait_plan", "idle"}
      /\ pcb' = [pcb EXCEPT ![h].status = "READY"] /\ Push("ready", h)
      /\ exec' = exec /\ io_timer' = io_timer
      /\ sem'["multiprogramming"] = sem["multiprogramming"]
  <2>1. Goto(t, ReturnPc(t)) \/ Release(t, ReturnPc(t))
    BY <1>1 DEF move_pcb_to_ready__fifo, Return
  <2>2. thread'[t].pc = ReturnPc(t)
    BY <1>0, <1>c, <2>1, GotoMoves, GotoWithMoves DEF Release
  <2> QED BY <1>1, <1>2, <1>a, <2>2, Names DEF move_pcb_to_ready__fifo, Hand, ReturnPc
<1>5. pcb'[h].status = "READY" /\ \A r \in Pcbs \ {h} : pcb'[r] = pcb[r]
  BY <1>0, <1>4, StatusWritten
<1>6. Has(t, h) /\ pcb[h].status \in Says(t)
  <2>1. Has(t, h)
    BY <1>2, <1>c, PlaceNames DEF Has, HasInHand, AnyAt
  <2> QED BY <1>0, <1>c, <2>1, PlaceNames DEF PlacesSay
<1>7. PlacesSay'
  <2>1. pcb'[h].status \in Says("ready")'
    BY <1>5 DEF Says
  <2>2. thread'[t].pc \notin {"page_table", "to_ready", "switch", "unblock", "fail"}
    BY <1>4
  <2> QED BY <1>0, <1>b, <1>c, <1>4, <1>5, <2>1, <2>2, ToQueue, Names
<1>8. CASE t = "ltp_new"
  <2>1. pcb[h].status \in {"NEW", "SUSPENDED_READY"}
    BY <1>2, <1>6, <1>8, PlaceNames DEF Says, At
  <2>2. SwapSays'
    BY <1>0, <1>b, <1>5, <1>8, <2>1, SwapKept, Names
  <2>3. HeldLevel = 1 /\ HeldLevel' = 0
    <3>1. thread'["ltp_new"].pc = "wait_plan"
      <4>1. Goto(t, "wait_plan") \/ Release(t, "wait_plan")
        BY <1>1, <1>8 DEF move_pcb_to_ready__fifo, Return, ReturnPc
      <4> QED BY <1>0, <1>8, <1>c, <4>1, GotoMoves, GotoWithMoves DEF Release
    <3> QED BY <1>2, <1>8, <3>1 DEF HeldLevel, AnyAt, Num
  <2>4. Levels' = Levels - 1
    BY <1>4, <1>a, <2>3, Names DEF Levels
  <2>5. GoesIn(h)
    BY <1>5, <2>1 DEF GoesIn, Goes
  <2> QED BY <1>7, <2>2, <2>3, <2>4, <2>5 DEF LifeStep
<1>9. CASE t = "timer"
  <2>1. pcb[h].status = "BLOCKED"
    BY <1>2, <1>6, <1>9, PlaceNames DEF Says, At
  <2>2. SwapSays'
    BY <1>4, <1>9 DEF SwapSays, At
  <2>3. Levels' = Levels
    BY <1>b, <1>4, <1>9, LevelsKept, Names
  <2>4. GoesAside(h)
    BY <1>5, <2>1 DEF GoesAside, Goes
  <2> QED BY <1>7, <2>2, <2>3, <2>4 DEF LifeStep
<1> QED BY <1>2, <1>8, <1>9

\* A process that runs is with the CPU or with the thread that listens to it.
LEMMA RunsSomewhere ==
    ASSUME LifeInv, NEW r \in Pcbs, pcb[r].status = "EXEC"
    PROVE  Has("cpu", r) \/ Has("dispatch", r)
<1>1. OnePlace /\ PlacesSay
  BY DEF LifeInv, Owned
<1>2. PICK x \in Places : Has(x, r)
  BY <1>1 DEF OnePlace, Inside
<1>3. pcb[r].status \in Says(x)
  BY <1>1, <1>2 DEF PlacesSay
<1> QED BY <1>2, <1>3 DEF Says, Places, Hands, Queues

\* The controller of the short term.
LEMMA StpLife ==
    ASSUME Faultless, LifeInv, OnePlace', Stp
    PROVE  PlacesSay' /\ SwapSays' /\ LifeStep
<1>0. TypeOK /\ PlacesSay /\ SwapSays /\ CpuExclusive
  BY DEF LifeInv, Owned, WorkingInv, CpuInv
<1>a. /\ sem \in [Semaphores -> Nat] /\ pcb \in [Pcbs -> PcbFields]
      /\ exec \in Pcbs \cup {NULL} /\ NULL \notin Pcbs
  BY <1>0, PlannerAssumption DEF TypeOK
<1>b. \A u \in Threads \ {"stp", "dispatch"} : thread'[u] = thread[u]
  BY <1>0, OwnThread
<1>c. thread'["timer"] = thread["timer"] /\ thread'["ltp_new"] = thread["ltp_new"]
  BY <1>b, Names
<1>d. "stp" \in Threads \ {"ltp_new", "timer"} /\ "stp" \notin Hands
  BY Names DEF Hands
<1>1. CASE StpWaitPlan \/ StpWaitDispatch
  <2>1. /\ thread'["stp"].pc \in {"wait_dispatch", "pop"}
        /\ pcb' = pcb /\ queue' = queue /\ exec' = exec /\ io_timer' = io_timer
        /\ sem'["multiprogramming"] = sem["multiprogramming"]
        /\ \A u \in Threads \ {"stp"} : thread'[u] = thread[u]
    BY <1>0, <1>1, <1>a, <1>d, GotoMoves, Names DEF StpWaitPlan, StpWaitDispatch, SemWait
  <2> QED BY <1>0, <1>d, <2>1, StillLife
<1>2. CASE cpu_dispatch_pcb
  <2>1. /\ thread'["stp"].pc = "busy"
        /\ pcb' = pcb /\ queue' = queue /\ exec' = exec /\ io_timer' = io_timer
        /\ sem' = sem /\ \A u \in Threads \ {"stp"} : thread'[u] = thread[u]
    BY <1>0, <1>2, <1>d, GotoMoves DEF cpu_dispatch_pcb
  <2> QED BY <1>0, <1>d, <2>1, StillLife
<1>3. CASE cpu_listen_dispatch_async
  <2>1. /\ thread'["dispatch"].pc = "listening"
        /\ pcb' = pcb /\ queue' = queue /\ exec' = exec /\ io_timer' = io_timer
        /\ sem' = sem
    BY <1>0, <1>3, TypeFacts, Names DEF cpu_listen_dispatch_async
  <2>2. ASSUME NEW r \in Pcbs, NEW x \in Places, Has(x, r)'
        PROVE  Has(x, r) /\ Says(x)' = Says(x)
    <3>1. CASE x \in Queues \cup {"cpu", "io"}
      BY <2>1, <2>2, <3>1, PlaceNames DEF Has, Says, Queues
    <3>2. CASE x = "dispatch"
      BY <2>1, <2>2, <3>2, PlaceNames DEF Has, HasInHand, AnyAt, At, Hands
    <3>3. CASE x \in Hands \ {"dispatch"}
      <4>1. thread'[x] = thread[x] /\ x \in Threads
        BY <1>b, <1>d, <3>3, PlaceNames
      <4> QED BY <2>2, <3>3, <4>1, PlaceNames DEF Has, HasInHand, AnyAt, At, Says
    <3> QED BY <3>1, <3>2, <3>3 DEF Places
  <2>3. PlacesSay'
    BY <1>0, <2>1, <2>2 DEF PlacesSay
  <2>4. SwapSays'
    BY <1>0, <1>c, <2>1, SwapKept
  <2>5. Levels' = Levels
    BY <1>c, <2>1, LevelsKept
  <2> QED BY <2>1, <2>3, <2>4, <2>5 DEF LifeStep, NobodyGoes
<1>4. CASE StpPop
  <2>1. /\ Head(queue["ready"]) \in Pcbs /\ Has("ready", Head(queue["ready"]))
        /\ \A x \in Queues, r \in Pcbs : Has(x, r)' => Has(x, r)
    BY <1>0, <1>4, PopHas, Names DEF StpPop
  <2> PICK p \in Pcbs : p = Head(queue["ready"])
    BY <2>1
  <2>2. /\ exec' = p /\ io_timer' = io_timer /\ sem' = sem
        /\ pcb' = [pcb EXCEPT ![p].status = "EXEC"]
        /\ \A u \in Threads \ {"stp"} : thread'[u] = thread[u]
    BY <1>0, <1>4, <1>d, GotoWithMoves DEF StpPop
  <2>3. pcb'[p].status = "EXEC" /\ \A r \in Pcbs \ {p} : pcb'[r] = pcb[r]
    BY <1>0, <2>2, StatusWritten, ZenonT(40)
  <2>4. pcb[p].status = "READY"
    BY <1>0, <2>1, PlaceNames, Names DEF PlacesSay, Says
  <2>5. exec = NULL /\ At("dispatch", "idle")
    <3> DEFINE d == Num(~At("dispatch", "idle"))
    <3>1. At("stp", "pop") /\ Num(AnyAt("stp", {"pop", "send", "busy"})) = 1
      BY <1>4 DEF StpPop, At, AnyAt, Num
    <3>2. d \in Nat /\ (d = 0 => At("dispatch", "idle"))
      BY DEF Num
    <3>3. sem["stp_dispatch"] \in Nat /\ sem["stp_dispatch"] + 1 + d = 1
      BY <1>0, <1>a, <3>1, Names DEF CpuExclusive
    <3> HIDE DEF d
    <3>4. At("dispatch", "idle")
      BY <3>2, <3>3
    <3> QED BY <1>0, <3>1, <3>4 DEF CpuExclusive, At, AnyAt
  <2>6. \A r \in Pcbs : pcb[r].status # "EXEC"
    <3> SUFFICES ASSUME NEW r \in Pcbs, pcb[r].status = "EXEC" PROVE FALSE
      OBVIOUS
    <3>1. Has("cpu", r) \/ Has("dispatch", r)
      BY RunsSomewhere
    <3> QED BY <1>a, <2>5, <3>1, PlaceNames DEF Has, HasInHand, AnyAt, At, Hands
  <2>7. Has("cpu", p)' /\ "cpu" \in Places /\ pcb'[p].status \in Says("cpu")'
    BY <2>2, <2>3, PlaceNames DEF Has, Says
  <2>8. \A r \in Pcbs \ {p} : Left("stp", r)
    BY <1>d, <2>1, <2>2, <2>3 DEF Left
  <2>9. PlacesSay'
    BY <1>0, <1>d, <2>2, <2>7, <2>8, OneMoves
  <2>10. SwapSays'
    BY <1>0, <1>c, <2>3, <2>4, SwapKept
  <2>11. Levels' = Levels
    BY <1>c, <2>2, LevelsKept
  <2>12. GoesAside(p)
    BY <2>3, <2>4, <2>6 DEF GoesAside, Goes
  <2> QED BY <2>9, <2>10, <2>11, <2>12 DEF LifeStep
<1> QED BY <1>1, <1>2, <1>3, <1>4 DEF Stp

\* The CPU.
LEMMA CpuLife ==
    ASSUME Faultless, LifeInv, OnePlace', Cpu
    PROVE  PlacesSay' /\ SwapSays' /\ LifeStep
<1>0. TypeOK /\ PlacesSay /\ SwapSays
  BY DEF LifeInv, Owned, WorkingInv, CpuInv
<1>1. /\ thread' = thread /\ pcb' = pcb /\ queue' = queue /\ exec' = exec
      /\ io_timer' = io_timer /\ sem' = sem
  BY DEF Cpu, CpuReceive, CpuInterrupt, CpuReturn
<1>2. "stp" \in Threads \ {"ltp_new", "timer"}
  BY Names
<1>3. thread'["stp"].pc \notin {"page_table", "to_ready", "switch", "unblock", "fail"}
  BY <1>0, <1>1, Names DEF TypeOK, ThreadsTyped, PcsOf
<1> QED BY <1>0, <1>1, <1>2, <1>3, StillLife

\* The thread that listens to the CPU.
LEMMA DispatchLife ==
    ASSUME Faultless, LifeInv, OnePlace', Dispatch
    PROVE  PlacesSay' /\ SwapSays' /\ LifeStep
<1>0. TypeOK /\ PlacesSay /\ SwapSays /\ CpuExclusive
  BY DEF LifeInv, Owned, WorkingInv, CpuInv
<1>a. /\ sem \in [Semaphores -> Nat] /\ pcb \in [Pcbs -> PcbFields]
      /\ exec \in Pcbs \cup {NULL}
  BY <1>0 DEF TypeOK
<1>b. \A u \in Threads \ {"dispatch"} : thread'[u] = thread[u]
  BY <1>0, OwnThread
<1>c. thread'["timer"] = thread["timer"] /\ thread'["ltp_new"] = thread["ltp_new"]
  BY <1>b, Names
<1>d. /\ "dispatch" \in Hands /\ "dispatch" # "ltp_exit"
      /\ "dispatch" \in Threads \ {"ltp_new", "timer"}
  BY Names DEF Hands
<1>e. ASSUME At("dispatch", "switch")
      PROVE  \E h \in Pcbs : /\ h = thread["dispatch"].pcb
                             /\ pcb[h].status = "EXEC"
  <2>1. thread["dispatch"].pcb \in Pcbs
    BY <1>0, <1>d, <1>e, HandTyped DEF TypeOK, HoldingPcs, At
  <2> PICK h \in Pcbs : h = thread["dispatch"].pcb
    BY <2>1
  <2>2. Has("dispatch", h)
    BY <1>d, <1>e, PlaceNames DEF Has, HasInHand, AnyAt, At
  <2> QED BY <1>0, <1>d, <2>2, PlaceNames DEF PlacesSay, Says
<1>1. CASE cpu_recieve_pcb_async
  <2>1. exec \in Pcbs
    BY <1>0, <1>1, <1>a DEF cpu_recieve_pcb_async, CpuExclusive
  <2> PICK h \in Pcbs : h = exec
    BY <2>1
  <2>2. /\ thread'["dispatch"].pc = "switch" /\ thread'["dispatch"].pcb = h
        /\ queue' = queue /\ exec' = NULL /\ io_timer' = io_timer /\ sem' = sem
    BY <1>0, <1>1, <1>d, GotoWithMoves DEF cpu_recieve_pcb_async
  <2>3. \A r \in Pcbs : pcb'[r].status = pcb[r].status
    BY <1>1, <1>a DEF cpu_recieve_pcb_async, PcbFields
  <2>4. pcb[h].status = "EXEC"
    BY <1>0, PlaceNames DEF PlacesSay, Has, Says
  <2>5. pcb'[h].status \in Says("dispatch")'
    BY <2>3, <2>4 DEF Says
  <2>6. \A x \in Queues, r \in Pcbs : Has(x, r)' => Has(x, r)
    BY <2>2 DEF Has
  <2>7. PlacesSay'
    BY <1>0, <1>b, <1>d, <2>2, <2>3, <2>5, <2>6, ToHand
  <2>8. SwapSays'
    BY <1>0, <1>c, <2>3, SwapKept
  <2>9. Levels' = Levels
    BY <1>c, <2>2, LevelsKept
  <2> QED BY <2>3, <2>7, <2>8, <2>9 DEF LifeStep, NobodyGoes
<1>2. CASE DispatchExit \/ DispatchError
  <2> PICK h \in Pcbs : h = thread["dispatch"].pcb /\ pcb[h].status = "EXEC"
    BY <1>2, <1>e DEF DispatchExit, DispatchError, Returned
  <2> PICK err \in BOOLEAN : move_pcb_to_exit(h, err)
    BY <1>2 DEF DispatchExit, DispatchError, Hand
  <2>1. thread'["dispatch"].pc = "finish" /\ exec' = exec /\ io_timer' = io_timer
    BY <1>0, <1>2, <1>d, GotoMoves DEF DispatchExit, DispatchError
  <2>2. /\ Push("exit", h) /\ pcb'[h].status = "EXIT"
        /\ \A r \in Pcbs \ {h} : pcb'[r] = pcb[r]
    BY <1>0, ExitWrites
  <2>3. pcb'[h].status \in Says("exit")'
    BY <2>2 DEF Says
  <2>4. PlacesSay'
    BY <1>0, <1>b, <1>d, <2>1, <2>2, <2>3, ToQueue, Names
  <2>5. SwapSays'
    BY <1>0, <1>c, <2>2, SwapKept
  <2>6. Levels' = Levels + 1
    <3>1. /\ sem'["multiprogramming"] = sem["multiprogramming"] + 1
          /\ sem["multiprogramming"] \in Nat
      BY <1>a, Names DEF move_pcb_to_exit, InMemory
    <3>2. HeldLevel' = HeldLevel /\ HeldLevel \in Nat
      BY <1>c DEF HeldLevel, AnyAt, Num
    <3> QED BY <3>1, <3>2 DEF Levels
  <2>7. GoesOut(h)
    BY <2>2 DEF GoesOut, Goes
  <2> QED BY <2>4, <2>5, <2>6, <2>7 DEF LifeStep
<1>3. CASE DispatchIo
  <2> PICK h \in Pcbs : h = thread["dispatch"].pcb /\ pcb[h].status = "EXEC"
    BY <1>3, <1>e DEF DispatchIo, Returned
  <2>1. /\ thread'["dispatch"].pc = "finish" /\ exec' = exec /\ io_timer' = io_timer
        /\ move_pcb_to_blocked(h)
    BY <1>0, <1>3, <1>d, GotoMoves DEF DispatchIo, Hand
  <2>2. /\ Push("blocked", h)
        /\ sem'["multiprogramming"] = sem["multiprogramming"]
    BY <1>a, <2>1, Names DEF move_pcb_to_blocked
  <2>3. pcb'[h].status = "BLOCKED" /\ \A r \in Pcbs \ {h} : pcb'[r] = pcb[r]
    <3>1. PICK started \in {TRUE, ~TimerMayFail} :
             pcb' = [pcb EXCEPT ![h].status = "BLOCKED",
                                ![h].blocks = pcb[h].blocks + 1,
                                ![h].timer = IF started THEN pcb[h].blocks + 1 ELSE 0]
      BY <2>1, Zenon DEF move_pcb_to_blocked
    <3> QED BY <1>a, <3>1 DEF PcbFields
  <2>4. pcb'[h].status \in Says("blocked")'
    BY <2>3 DEF Says
  <2>5. PlacesSay'
    BY <1>0, <1>b, <1>d, <2>1, <2>2, <2>3, <2>4, ToQueue, Names
  <2>6. SwapSays'
    BY <1>0, <1>c, <2>3, SwapKept
  <2>7. Levels' = Levels
    BY <1>c, <2>2, LevelsKept
  <2>8. GoesAside(h)
    BY <2>3 DEF GoesAside, Goes
  <2> QED BY <2>5, <2>6, <2>7, <2>8 DEF LifeStep
<1>4. ~DispatchInterrupted
  BY DEF DispatchInterrupted, Faultless
<1>5. CASE DispatchFinish
  <2>1. /\ thread'["dispatch"].pc = "idle" /\ queue' = queue /\ exec' = exec
        /\ io_timer' = io_timer /\ sem'["multiprogramming"] = sem["multiprogramming"]
    BY <1>0, <1>5, <1>a, <1>d, GotoWithMoves, Names DEF DispatchFinish, Release
  <2>2. \A r \in Pcbs : pcb'[r].status = pcb[r].status
    BY <1>5, <1>a DEF DispatchFinish, PcbFields
  <2> QED BY <1>0, <1>b, <1>d, <2>1, <2>2, StillLife
<1> QED BY <1>1, <1>2, <1>3, <1>4, <1>5 DEF Dispatch

\* Every step of the planner is one transition, and leaves each process with the state
\* of its place.
LEMMA OneTransition ==
    ASSUME Faultless, LifeInv, OnePlace', [Next]_vars
    PROVE  PlacesSay' /\ SwapSays' /\ LifeStep
<1>1. CASE UNCHANGED vars
  <2>1. TypeOK /\ PlacesSay /\ SwapSays
    BY DEF LifeInv, Owned, WorkingInv, CpuInv
  <2>2. /\ thread' = thread /\ pcb' = pcb /\ queue' = queue /\ exec' = exec
        /\ io_timer' = io_timer /\ sem' = sem
    BY <1>1 DEF vars
  <2>3. "stp" \in Threads \ {"ltp_new", "timer"}
    BY Names
  <2>4. thread'["stp"].pc \notin {"page_table", "to_ready", "switch", "unblock", "fail"}
    BY <2>1, <2>2, Names DEF TypeOK, ThreadsTyped, PcsOf
  <2> QED BY <2>1, <2>2, <2>3, <2>4, StillLife
<1>2. CASE Next
  BY <1>2, SubmitLife, LtpNewLife, LtpExitLife, MtpBlockedLife, MtpTimerLife, MoverLife,
     StpLife, CpuLife, DispatchLife DEF Next, System
<1> QED BY <1>1, <1>2

\* At the start no place has a process.
LEMMA NobodyAnywhere ==
    ASSUME Init
    PROVE  \A p \in Pcbs, x \in Places : ~Has(x, p)
<1> TAKE p \in Pcbs, x \in Places
<1>1. CASE x \in Queues
  BY <1>1 DEF Init, InitState, Has
<1>2. CASE x \in {"cpu", "io"}
  BY <1>2, PlaceNames, PlannerAssumption DEF Init, InitState, Has
<1>3. CASE x \in Hands
  BY <1>3, PlaceNames, PlannerAssumption DEF Init, InitState, Has
<1> QED BY <1>1, <1>2, <1>3 DEF Places

LEMMA LifeInvariant ==
    ASSUME Faultless
    PROVE  Spec => []LifeInv
<1>1. Init => FifoPcs /\ PlacesSay /\ SwapSays
  <2> SUFFICES ASSUME Init PROVE FifoPcs /\ PlacesSay /\ SwapSays
    OBVIOUS
  <2>1. /\ thread["ltp_new"].pc = "wait_plan" /\ thread["timer"].pc = "idle"
        /\ thread["dispatch"].pc = "idle"
    BY Names DEF Init, InitState
  <2>2. \A p \in Pcbs, x \in Places : ~Has(x, p)
    BY NobodyAnywhere
  <2> QED BY <2>1, <2>2 DEF FifoPcs, PlacesSay, SwapSays, At, MoverPc, Movers
<1>2. /\ Owned /\ SemaphoresCountQueues /\ FifoPcs /\ PlacesSay /\ SwapSays
      /\ Owned' /\ [Next]_vars
      => FifoPcs' /\ PlacesSay' /\ SwapSays'
  <2>1. Owned => TypeOK
    BY DEF Owned, WorkingInv, CpuInv
  <2>2. Owned' => OnePlace'
    BY DEF Owned
  <2> QED BY <2>1, <2>2, FifoPcsStep, OneTransition DEF LifeInv, Faultless
<1>3. Spec => []Owned
  BY OwnedInvariant DEF Faultless
<1> QED BY <1>1, <1>2, <1>3, SemaphoresCount, PTL DEF Spec, LifeInv

(***************************************************************************)
(* The multiprogramming degree.                                            *)
(***************************************************************************)
\* A transition changes the processes in memory by the one that goes in or out.
LEMMA ResidentsMove ==
    ASSUME NEW p \in Pcbs
    PROVE  /\ NobodyGoes \/ GoesAside(p) => Resident' = Resident
           /\ GoesIn(p) => p \notin Resident /\ Resident' = Resident \cup {p}
           /\ GoesOut(p) => p \in Resident /\ Resident' = Resident \ {p}
<1>1. NobodyGoes => Resident' = Resident
  BY DEF NobodyGoes, Resident
<1>2. GoesAside(p) => Resident' = Resident
  BY DEF GoesAside, Goes, Resident, InMemory
<1>3. GoesIn(p) => p \notin Resident /\ Resident' = Resident \cup {p}
  BY DEF GoesIn, Goes, Resident, InMemory
<1>4. GoesOut(p) => p \in Resident /\ Resident' = Resident \ {p}
  BY DEF GoesOut, Goes, Resident, InMemory
<1> QED BY <1>1, <1>2, <1>3, <1>4

LEMMA DegreeStep ==
    ASSUME TypeOK, TypeOK', DegreeConservation, LifeStep
    PROVE  DegreeConservation'
<1> DEFINE n == Cardinality(Resident)
           m == Cardinality(Resident')
           l == Levels
           k == Levels'
<1>1. IsFiniteSet(Resident) /\ n \in Nat
  BY PlannerAssumption, FS_Subset, FS_CardinalityType DEF Resident
<1>2. l \in Nat
  <2>1. sem["multiprogramming"] \in Nat
    BY Names DEF TypeOK
  <2>2. HeldLevel \in Nat
    BY DEF HeldLevel, Num
  <2> QED BY <2>1, <2>2 DEF Levels
<1>3. l + n = GradoMultiprogramacion
  <2> DEFINE s == sem["multiprogramming"]
             h == HeldLevel
  <2>1. s \in Nat /\ h \in Nat
    BY Names DEF HeldLevel, Num, TypeOK
  <2>2. s + n + h = GradoMultiprogramacion /\ l = s + h
    BY DEF DegreeConservation, Levels
  <2> HIDE DEF s, h, l, n
  <2> QED BY <1>1, <2>1, <2>2
<1>4. k + m = GradoMultiprogramacion
  <2>1. CASE (NobodyGoes \/ \E p \in Pcbs : GoesAside(p)) /\ k = l
    <3>1. Resident' = Resident
      BY <2>1, ResidentsMove DEF NobodyGoes, Resident
    <3> QED BY <1>3, <2>1, <3>1
  <2>2. ASSUME NEW p \in Pcbs, GoesIn(p), k = l - 1 PROVE k + m = GradoMultiprogramacion
    <3>1. m = n + 1
      BY <1>1, <2>2, ResidentsMove, FS_AddElement
    <3> HIDE DEF k, l, m, n
    <3> QED BY <1>1, <1>2, <1>3, <2>2, <3>1
  <2>3. ASSUME NEW p \in Pcbs, GoesOut(p), k = l + 1 PROVE k + m = GradoMultiprogramacion
    <3>1. m = n - 1
      BY <1>1, <2>3, ResidentsMove, FS_RemoveElement
    <3> HIDE DEF k, l, m, n
    <3> QED BY <1>1, <1>2, <1>3, <2>3, <3>1
  <2> QED BY <2>1, <2>2, <2>3 DEF LifeStep
<1>5. m \in Nat
  BY PlannerAssumption, FS_Subset, FS_CardinalityType DEF Resident
<1> DEFINE s == sem'["multiprogramming"]
           h == HeldLevel'
<1>6. s \in Nat /\ h \in Nat /\ k = s + h
  BY Names DEF HeldLevel, Num, TypeOK, Levels
<1>7. s + m + h = GradoMultiprogramacion
  <2> HIDE DEF s, h, k, m
  <2> QED BY <1>4, <1>5, <1>6
<1> QED BY <1>7 DEF DegreeConservation

\* ltp_sem_multiprogramming_level (kernel_global.h:110): under FIFO, if neither
\* swapp_process nor timer_start fails, for every set of processes and every degree,
\* no level is lost and none is given back twice, in whatever order the admissions,
\* the timers, the swaps and the exits interleave. (Under SRT an interrupted process is
\* READY in the queue before its status says so, and after a failed swap or timer a
\* process gives its level back twice.)
THEOREM NoLevelIsLost ==
    ASSUME Faultless
    PROVE  Spec => []DegreeConservation
<1>1. Init => DegreeConservation
  <2> SUFFICES ASSUME Init PROVE DegreeConservation
    OBVIOUS
  <2>1. Resident = {}
    BY DEF Init, InitState, Resident, InMemory
  <2>2. Cardinality(Resident) = 0
    BY <2>1, FS_EmptySet
  <2>3. sem["multiprogramming"] = GradoMultiprogramacion /\ HeldLevel = 0
    BY Names DEF Init, InitState, HeldLevel, AnyAt, Num
  <2> QED BY <2>2, <2>3, PlannerAssumption DEF DegreeConservation
<1>2. LifeInv /\ LifeInv' /\ DegreeConservation /\ [Next]_vars => DegreeConservation'
  <2>1. LifeInv => TypeOK
    BY DEF LifeInv, Owned, WorkingInv, CpuInv
  <2>2. LifeInv' => TypeOK' /\ OnePlace'
    BY DEF LifeInv, Owned, WorkingInv, CpuInv
  <2> QED BY <2>1, <2>2, OneTransition, DegreeStep
<1> QED BY <1>1, <1>2, LifeInvariant, PTL DEF Spec

(***************************************************************************)
(* The planner implements the life cycle.                                  *)
(***************************************************************************)
States == [p \in Pcbs |-> pcb[p].status]

\* A transition of the planner is one of the life cycle.
LEMMA GoesIsMove ==
    ASSUME NEW p \in Pcbs, NEW from, NEW to, Goes(p, from, to)
    PROVE  LifeCycle!Move(p, from, to)
BY DEF Goes, LifeCycle!Move

LEMMA LifeCycleStep ==
    ASSUME TypeOK, DegreeConservation, LifeStep
    PROVE  LifeCycle!Next \/ States' = States
<1>1. CASE NobodyGoes
  BY <1>1 DEF NobodyGoes, States
<1>2. ASSUME NEW p \in Pcbs, GoesAside(p) PROVE LifeCycle!Next
  <2>1. CASE Goes(p, "NONE", "NEW")
    BY <2>1, GoesIsMove DEF LifeCycle!Next, LifeCycle!Submit
  <2>2. CASE Goes(p, "NEW", "EXIT")
    BY <2>2, GoesIsMove DEF LifeCycle!Next, LifeCycle!Reject
  <2>3. CASE Goes(p, "SUSPENDED_BLOCKED", "SUSPENDED_READY") \/ Goes(p, "BLOCKED", "READY")
    BY <2>3, GoesIsMove DEF LifeCycle!Next, LifeCycle!Unblock
  <2>4. CASE Goes(p, "EXIT", "DESTROYED")
    BY <2>4, GoesIsMove DEF LifeCycle!Next, LifeCycle!Destroy
  <2>5. CASE Goes(p, "READY", "EXEC") /\ \A r \in Pcbs : pcb[r].status # "EXEC"
    <3>1. LifeCycle!Alone("EXEC")
      BY <2>5 DEF LifeCycle!Alone
    <3> QED BY <2>5, <3>1, GoesIsMove DEF LifeCycle!Next, LifeCycle!Run
  <2>6. CASE Goes(p, "EXEC", "BLOCKED")
    BY <2>6, GoesIsMove DEF LifeCycle!Next, LifeCycle!Block
  <2> QED BY <1>2, <2>1, <2>2, <2>3, <2>4, <2>5, <2>6 DEF GoesAside
<1>3. ASSUME NEW p \in Pcbs, GoesIn(p), HeldLevel = 1 PROVE LifeCycle!Next
  <2>1. LifeCycle!Resident = Resident
    BY DEF LifeCycle!Resident, Resident, InMemory
  <2>2. Cardinality(Resident) < GradoMultiprogramacion
    <3> DEFINE n == Cardinality(Resident)
               s == sem["multiprogramming"]
    <3>1. n \in Nat /\ s \in Nat /\ s + n + 1 = GradoMultiprogramacion
      BY <1>3, PlannerAssumption, FS_Subset, FS_CardinalityType, Names
         DEF Resident, TypeOK, DegreeConservation
    <3> HIDE DEF n, s
    <3>2. n < GradoMultiprogramacion
      BY <3>1
    <3> QED BY <3>2 DEF n
  <2>3. LifeCycle!Cardinality(Resident) = Cardinality(Resident)
    BY DEF Cardinality, LifeCycle!Cardinality
  <2>4. LifeCycle!Cardinality(LifeCycle!Resident) < GradoMultiprogramacion
    BY <2>1, <2>2, <2>3
  <2>5. LifeCycle!Move(p, "NEW", "READY") \/ LifeCycle!Move(p, "SUSPENDED_READY", "READY")
    BY <1>3, GoesIsMove DEF GoesIn
  <2>6. LifeCycle!Admit(p)
    BY <2>4, <2>5 DEF LifeCycle!Admit
  <2> QED BY <2>6 DEF LifeCycle!Next
<1>4. ASSUME NEW p \in Pcbs, GoesOut(p) PROVE LifeCycle!Next
  BY <1>4, GoesIsMove DEF GoesOut, LifeCycle!Next, LifeCycle!Suspend, LifeCycle!Finish
<1> QED BY <1>1, <1>2, <1>3, <1>4 DEF LifeStep

\* The planner (planner.c) refines the seven-state life cycle of ProcessLifeCycle:
\* under FIFO, if neither swapp_process nor timer_start fails, for every set of
\* processes and every degree, each step of its threads is one transition of one
\* process that the life cycle allows, or none: no process enters memory over the
\* degree, shares the CPU, or changes its state behind the back of another thread.
THEOREM PlannerIsALifeCycle ==
    ASSUME Faultless
    PROVE  Spec => LifeCycleSpec
<1>1. Init => LifeCycle!Init
  BY DEF Init, InitState, LifeCycle!Init
<1>2. LifeInv /\ LifeInv' /\ DegreeConservation /\ [Next]_vars
      => [LifeCycle!Next]_States
  <2>1. LifeInv => TypeOK
    BY DEF LifeInv, Owned, WorkingInv, CpuInv
  <2>2. LifeInv' => OnePlace'
    BY DEF LifeInv, Owned
  <2> QED BY <2>1, <2>2, OneTransition, LifeCycleStep
<1> QED BY <1>1, <1>2, LifeInvariant, NoLevelIsLost, PTL
       DEF Spec, LifeCycleSpec, LifeCycle!Spec, States

(***************************************************************************)
(* What the consoles hear.                                                 *)
(***************************************************************************)
\* A process in EXIT is in one of two places.
Finished(p) == Has("exit", p) \/ Has("ltp_exit", p)

\* Its program has executed EXIT and the kernel has not looked at the answer yet.
Retired(p) ==
    \/ exec = p /\ core.pc = "returned" /\ core.cond = "EXIT_PROGRAM"
    \/ /\ At("dispatch", "switch") /\ thread["dispatch"].pcb = p
       /\ pcb[p].cond = "EXIT_PROGRAM"

\* The error flag of a process that ended says whether its program executed EXIT, and
\* that of a process that goes on is down. A console that was told something was told
\* the truth, and its process is destroyed.
Honest(p) ==
    /\ Finished(p) => (pcb[p].error <=> p \notin core.completed)
    /\ ~Finished(p) /\ Alive(p) => /\ ~pcb[p].error
                                   /\ p \in core.completed <=> Retired(p)
    /\ console[p] # "none" => ~Alive(p)
    /\ console[p] = "SUCCESS" => p \in core.completed
    /\ console[p] = "FAILURE" => p \notin core.completed

\* The controller of blocked processes starts every timer; the CPU waits for the pcb
\* that the controller of the short term sends.
NoTimerFails == thread["mtp_blocked"].pc \notin {"fail", "release_io"}

SendsToIdle == At("stp", "send") => core.pc = "idle"

HonestInv ==
    Owned /\ NoTimerFails /\ SendsToIdle /\ \A p \in Pcbs : Honest(p)

\* A step that changes nothing of what Honest looks at.
LEMMA SameEnd ==
    ASSUME NEW p, Honest(p), pcb'[p].error = pcb[p].error, Alive(p)' <=> Alive(p),
           (p \in core'.completed) <=> (p \in core.completed), console'[p] = console[p],
           Finished(p)' <=> Finished(p), Retired(p)' <=> Retired(p)
    PROVE  Honest(p)'
BY DEF Honest

\* ... because it leaves the queue and the controller of the finished processes alone,
LEMMA FinishedKept ==
    ASSUME queue'["exit"] = queue["exit"], thread'["ltp_exit"] = thread["ltp_exit"], NEW p
    PROVE  Finished(p)' <=> Finished(p)
BY PlaceNames, Names DEF Finished, Has, HasInHand, AnyAt, At, Hands

\* ... and the listener of the CPU.
LEMMA RetiredKept ==
    ASSUME core'.pc = core.pc, core'.cond = core.cond, exec' = exec, NEW p,
           \/ thread'["dispatch"] = thread["dispatch"] /\ pcb'[p].cond = pcb[p].cond
           \/ ~At("dispatch", "switch") /\ ~At("dispatch", "switch")'
    PROVE  Retired(p)' <=> Retired(p)
BY DEF Retired, At

LEMMA HonestKept ==
    ASSUME NEW p, Honest(p), pcb'[p].error = pcb[p].error, pcb'[p].cond = pcb[p].cond,
           Alive(p)' <=> Alive(p), queue'["exit"] = queue["exit"],
           thread'["ltp_exit"] = thread["ltp_exit"],
           \/ thread'["dispatch"] = thread["dispatch"]
           \/ ~At("dispatch", "switch") /\ ~At("dispatch", "switch")',
           exec' = exec, core'.pc = core.pc, core'.cond = core.cond,
           core'.completed = core.completed, console' = console
    PROVE  Honest(p)'
<1>1. Finished(p)' <=> Finished(p)
  BY FinishedKept
<1>2. Retired(p)' <=> Retired(p)
  BY RetiredKept
<1> QED BY <1>1, <1>2, SameEnd

\* Pushing keeps what a queue has; popping, all but the first.
LEMMA PushKeeps ==
    ASSUME TypeOK, NEW q \in Queues, NEW e \in Pcbs, Push(q, e), NEW r, Has(q, r)
    PROVE  Has(q, r)'
<1>1. queue[q] \in Seq(Pcbs) /\ queue'[q] = Append(queue[q], e)
  BY TypeFacts DEF Push
<1>2. PICK i \in 1 .. Len(queue[q]) : queue[q][i] = r
  BY DEF Has
<1>3. i \in 1 .. Len(queue'[q]) /\ queue'[q][i] = r
  BY <1>1, <1>2
<1> QED BY <1>3 DEF Has

LEMMA PopKeeps ==
    ASSUME TypeOK, NEW q \in Queues, queue[q] # <<>>,
           queue' = [queue EXCEPT ![q] = Tail(@)], NEW r, Has(q, r), r # Head(queue[q])
    PROVE  Has(q, r)'
<1>1. queue[q] \in Seq(Pcbs) /\ queue'[q] = Tail(queue[q])
  BY TypeFacts
<1>2. PICK i \in 1 .. Len(queue[q]) : queue[q][i] = r
  BY DEF Has
<1>3. /\ Len(queue'[q]) = Len(queue[q]) - 1 /\ Len(queue[q]) \in Nat
      /\ queue[q][1] = Head(queue[q])
      /\ \A j \in 1 .. Len(queue'[q]) : queue'[q][j] = queue[q][j + 1]
  <2> DEFINE s == queue[q]
  <2>1. s \in Seq(Pcbs) /\ s # <<>> /\ queue'[q] = Tail(s)
    BY <1>1
  <2> HIDE DEF s
  <2>2. Len(s) \in Nat /\ Len(Tail(s)) = Len(s) - 1 /\ s[1] = Head(s)
        /\ \A j \in 1 .. Len(Tail(s)) : Tail(s)[j] = s[j + 1]
    BY <2>1
  <2> QED BY <2>1, <2>2 DEF s
<1>4. i # 1
  BY <1>2, <1>3
<1>5. i - 1 \in 1 .. Len(queue'[q]) /\ queue'[q][i - 1] = r
  BY <1>2, <1>3, <1>4
<1> QED BY <1>5 DEF Has

\* A process in the hand of a thread that works is alive and not finished.
LEMMA HandIsAlive ==
    ASSUME OnePlace, NEW t \in Hands \ {"ltp_exit"}, NEW h \in Pcbs, Has(t, h)
    PROVE  Alive(h) /\ ~Finished(h)
<1>1. Inside(h)
  BY PlaceNames DEF OnePlace
<1>2. ~Has("exit", h) /\ ~Has("ltp_exit", h)
  BY PlaceNames, Names DEF OnePlace, Hands
<1> QED BY <1>1, <1>2 DEF Inside, Alive, Finished

\* A thread sends the process in its hand to EXIT, with the error flag that it should.
LEMMA HonestExit ==
    ASSUME HonestInv, NEW t \in Hands \ {"ltp_exit"}, NEW h \in Pcbs, Has(t, h),
           NEW err \in BOOLEAN, move_pcb_to_exit(h, err), err <=> h \notin core.completed,
           thread'["ltp_exit"] = thread["ltp_exit"], exec' = exec, core' = core,
           console' = console,
           \/ thread'["dispatch"] = thread["dispatch"]
           \/ thread["dispatch"].pcb = h /\ thread'["dispatch"].pcb = h,
           NEW p \in Pcbs
    PROVE  Honest(p)'
<1>0. TypeOK /\ OnePlace /\ Honest(p) /\ Honest(h) /\ pcb \in [Pcbs -> PcbFields]
  BY DEF HonestInv, Owned, WorkingInv, CpuInv, TypeOK
<1>1. Alive(h) /\ ~Finished(h)
  BY <1>0, HandIsAlive
<1>2. /\ Push("exit", h)
      /\ \A r \in Pcbs \ {h} : pcb'[r] = pcb[r]
  BY <1>0, ExitWrites
<1>3. CASE p = h
  <2>1. Finished(h)'
    BY <1>0, <1>2, PushHas, Names DEF Finished
  <2>2. pcb'[h].error = err
    <3>1. ~pcb[h].error
      BY <1>0, <1>1 DEF Honest
    <3>2. pcb'[h].error = (pcb[h].error \/ err)
      BY <1>0 DEF move_pcb_to_exit, PcbFields
    <3> QED BY <3>1, <3>2
  <2>3. console[h] = "none"
    BY <1>0, <1>1 DEF Honest
  <2> QED BY <1>3, <2>1, <2>2, <2>3 DEF Honest
<1>4. CASE p # h
  <2>1. pcb'[p] = pcb[p]
    BY <1>2, <1>4
  <2>2. Has("exit", p)' <=> Has("exit", p)
    BY <1>0, <1>2, <1>4, PushHas, PushKeeps, Names
  <2>3. Has("ltp_exit", p)' <=> Has("ltp_exit", p)
    BY PlaceNames DEF Has, HasInHand, AnyAt, At, Hands
  <2>4. Finished(p)' <=> Finished(p)
    BY <2>2, <2>3 DEF Finished
  <2>5. Retired(p)' <=> Retired(p)
    BY <1>4, <2>1 DEF Retired, At
  <2> QED BY <1>0, <2>1, <2>4, <2>5, SameEnd DEF Alive
<1> QED BY <1>3, <1>4

\* What HonestInv says of a thread with a process in hand.
LEMMA InHand ==
    ASSUME HonestInv, NEW t \in Hands \ {"ltp_exit"},
           thread[t].pc \in {"page_table", "to_ready", "switch", "unblock"}
    PROVE  \E h \in Pcbs :
              /\ h = thread[t].pcb /\ Has(t, h) /\ Alive(h) /\ Inside(h)
              /\ t # "dispatch" => h \notin core.completed
              /\ t = "dispatch" => exec # h
<1>0. TypeOK /\ OnePlace
  BY DEF HonestInv, Owned, WorkingInv, CpuInv
<1>1. thread[t].pcb \in Pcbs
  BY <1>0, HandTyped, PlaceNames DEF TypeOK, HoldingPcs, MoverPc
<1> PICK h \in Pcbs : h = thread[t].pcb
  BY <1>1
<1>2. Has(t, h)
  BY PlaceNames DEF Has, HasInHand, AnyAt
<1>3. Alive(h) /\ ~Finished(h) /\ Inside(h)
  BY <1>0, <1>2, HandIsAlive, PlaceNames DEF OnePlace
<1>4. exec # h
  <2>1. ~Has("cpu", h)
    BY <1>0, <1>2, PlaceNames DEF OnePlace
  <2> QED BY <2>1, PlaceNames DEF Has
<1>5. ASSUME t # "dispatch" PROVE h \notin core.completed
  <2>1. ~Has("dispatch", h)
    BY <1>0, <1>2, <1>5, PlaceNames DEF OnePlace, Hands
  <2>2. ~Retired(h)
    BY <1>4, <2>1, PlaceNames DEF Retired, Has, HasInHand, AnyAt, At, Hands
  <2> QED BY <1>3, <2>2 DEF HonestInv, Honest
<1> QED BY <1>2, <1>3, <1>4, <1>5

\* A console submits a process.
LEMMA SubmitHonest ==
    ASSUME HonestInv, NEW h \in Pcbs, ltp_new_process(h), NEW p \in Pcbs
    PROVE  Honest(p)'
<1>0. TypeOK /\ Honest(p) /\ pcb \in [Pcbs -> PcbFields]
  BY DEF HonestInv, Owned, WorkingInv, CpuInv, TypeOK
<1>1. /\ thread' = thread /\ exec' = exec /\ core' = core /\ console' = console
      /\ queue'["exit"] = queue["exit"]
  BY <1>0, TypeFacts, Names DEF ltp_new_process, move_pcb_to_new, Push
<1>2. /\ pcb'[p].error = pcb[p].error /\ pcb'[p].cond = pcb[p].cond
      /\ Alive(p)' <=> Alive(p)
  BY <1>0 DEF ltp_new_process, move_pcb_to_new, PcbFields, Alive
<1> QED BY <1>0, <1>1, <1>2, HonestKept

\* The controller of new processes rejects only those that never ran.
LEMMA LtpNewHonest ==
    ASSUME HonestInv, LtpNew, NEW p \in Pcbs
    PROVE  Honest(p)'
<1>0. TypeOK /\ Honest(p)
  BY DEF HonestInv, Owned, WorkingInv, CpuInv
<1>a. /\ thread'["ltp_exit"] = thread["ltp_exit"]
      /\ thread'["dispatch"] = thread["dispatch"]
  BY <1>0, OwnThread, Names
<1>1. CASE LtpReject
  <2> PICK h \in Pcbs : /\ h = thread["ltp_new"].pcb /\ Has("ltp_new", h)
                        /\ h \notin core.completed
    BY <1>1, InHand DEF LtpReject, At, Hands
  <2>1. /\ move_pcb_to_exit(h, TRUE) /\ exec' = exec /\ core' = core
        /\ console' = console
    BY <1>1 DEF LtpReject
  <2> QED BY <1>a, <2>1, HonestExit DEF Hands
<1>2. CASE ~LtpReject
  <2>1. /\ queue'["exit"] = queue["exit"] /\ pcb' = pcb /\ exec' = exec /\ core' = core
        /\ console' = console
    BY <1>0, <1>2, TypeFacts, Names DEF LtpNew, LtpWaitPlan, LtpWaitLevel, LtpTakeSuspended,
       LtpTakeNew, LtpAdmit, LtpDiscard, SemWait
  <2> QED BY <1>0, <1>a, <2>1, HonestKept DEF Alive
<1> QED BY <1>1, <1>2

\* The controller of finished processes tells the console what the error flag says.
LEMMA LtpExitHonest ==
    ASSUME HonestInv, LtpExit, NEW p \in Pcbs
    PROVE  Honest(p)'
<1>0. TypeOK /\ Honest(p)
  BY DEF HonestInv, Owned, WorkingInv, CpuInv
<1>a. thread'["dispatch"] = thread["dispatch"]
  BY <1>0, OwnThread, Names
<1>b. "ltp_exit" \in Hands /\ "ltp_exit" \in Threads
  BY Names DEF Hands
<1>1. CASE ExitWait
  <2>1. /\ thread["ltp_exit"].pc = "wait" /\ thread'["ltp_exit"].pc = "pop"
        /\ queue' = queue /\ pcb' = pcb /\ exec' = exec /\ core' = core
        /\ console' = console
    BY <1>0, <1>b, <1>1, GotoMoves DEF ExitWait, SemWait, At
  <2>2. Finished(p)' <=> Finished(p)
    BY <1>b, <2>1, PlaceNames, Names DEF Finished, Has, HasInHand, AnyAt, At
  <2>3. Retired(p)' <=> Retired(p)
    BY <1>a, <2>1, RetiredKept
  <2> QED BY <1>0, <2>1, <2>2, <2>3, SameEnd DEF Alive
<1>2. CASE ExitPop
  <2>1. /\ thread["ltp_exit"].pc = "pop"
        /\ pcb' = pcb /\ exec' = exec /\ core' = core /\ console' = console
    BY <1>2 DEF ExitPop, At
  <2>2. ~Has("ltp_exit", p)
    BY <1>b, <2>1, PlaceNames DEF Has, HasInHand, AnyAt, At
  <2>3. Finished(p)' <=> Finished(p)
    <3>1. CASE queue["exit"] = <<>>
      <4>1. thread'["ltp_exit"].pc = "wait" /\ queue' = queue
        BY <1>0, <1>b, <1>2, <3>1, GotoMoves DEF ExitPop
      <4>2. ~Has("ltp_exit", p)'
        BY <1>b, <4>1, EmptyHand
      <4> QED BY <2>2, <4>1, <4>2, Names DEF Finished, Has
    <3>2. CASE queue["exit"] # <<>>
      <4> DEFINE e == Head(queue["exit"])
      <4>1. /\ thread'["ltp_exit"].pc = "finish" /\ thread'["ltp_exit"].pcb = e
            /\ queue' = [queue EXCEPT !["exit"] = Tail(@)]
        BY <1>0, <1>b, <1>2, <3>2, GotoWithMoves DEF ExitPop
      <4>2. Has("ltp_exit", p)' <=> p = e
        BY <1>b, <4>1, PlaceNames DEF Has, HasInHand, At
      <4>3. Has("exit", e)
        BY <1>0, <3>2, <4>1, PopHas, Names
      <4>4. Has("exit", p)' => Has("exit", p)
        BY <1>0, <3>2, <4>1, PopHas, Names
      <4>5. Has("exit", p) => Has("exit", p)' \/ p = e
        BY <1>0, <3>2, <4>1, PopKeeps, Names
      <4> QED BY <2>2, <4>2, <4>3, <4>4, <4>5 DEF Finished
    <3> QED BY <3>1, <3>2
  <2>4. Retired(p)' <=> Retired(p)
    BY <1>a, <2>1, RetiredKept
  <2> QED BY <1>0, <2>1, <2>3, <2>4, SameEnd DEF Alive
<1>3. CASE ExitFinish
  <2>1. thread["ltp_exit"].pc = "finish" /\ thread["ltp_exit"].pcb \in Pcbs
    BY <1>0, <1>b, <1>3, HandTyped DEF ExitFinish, At, TypeOK, HoldingPcs
  <2> PICK h \in Pcbs : h = thread["ltp_exit"].pcb
    BY <2>1
  <2>2. /\ thread'["ltp_exit"].pc = "wait" /\ queue' = queue /\ exec' = exec
        /\ core' = core /\ pcb' = [pcb EXCEPT ![h].status = "DESTROYED"]
        /\ console' = [console EXCEPT
                          ![h] = IF pcb[h].error THEN "FAILURE" ELSE "SUCCESS"]
    BY <1>0, <1>b, <1>3, GotoWithMoves DEF ExitFinish, Release
  <2>3. /\ pcb'[p].error = pcb[p].error /\ pcb'[p].cond = pcb[p].cond
        /\ p # h => pcb'[p] = pcb[p]
        /\ p = h => pcb'[p].status = "DESTROYED"
    BY <1>0, <2>2 DEF TypeOK, PcbFields
  <2>4. CASE p = h
    <3>1. Finished(h)
      BY <1>b, <2>1, PlaceNames DEF Finished, Has, HasInHand, At
    <3>2. console'[h] = IF pcb[h].error THEN "FAILURE" ELSE "SUCCESS"
      BY <1>0, <2>2 DEF TypeOK
    <3>3. pcb[h].error <=> h \notin core.completed
      BY <1>0, <2>4, <3>1 DEF Honest
    <3> QED BY <2>2, <2>3, <2>4, <3>2, <3>3 DEF Honest, Alive
  <2>5. CASE p # h
    <3>1. ~Has("ltp_exit", p) /\ ~Has("ltp_exit", p)'
      BY <1>b, <2>2, <2>5, EmptyHand, PlaceNames DEF Has
    <3>2. Finished(p)' <=> Finished(p)
      BY <2>2, <3>1, Names DEF Finished, Has
    <3>3. Retired(p)' <=> Retired(p)
      BY <1>a, <2>2, <2>3, RetiredKept
    <3>4. console'[p] = console[p]
      BY <1>0, <2>2, <2>5 DEF TypeOK
    <3> QED BY <1>0, <2>2, <2>3, <2>5, <3>2, <3>3, <3>4, SameEnd DEF Alive
  <2> QED BY <2>4, <2>5
<1> QED BY <1>1, <1>2, <1>3 DEF LtpExit

\* The controller of blocked processes.
LEMMA MtpBlockedHonest ==
    ASSUME ~TimerMayFail, HonestInv, MtpBlocked, NEW p \in Pcbs
    PROVE  Honest(p)'
<1>0. TypeOK /\ Honest(p) /\ NoTimerFails
  BY DEF HonestInv, Owned, WorkingInv, CpuInv
<1>a. /\ thread'["ltp_exit"] = thread["ltp_exit"]
      /\ thread'["dispatch"] = thread["dispatch"]
  BY <1>0, OwnThread, Names
<1>1. BlockedWaitPlanner \/ BlockedWaitIo \/ mtp_block_pcb
  BY <1>0 DEF MtpBlocked, BlockFails, BlockFailExit, BlockFailRelease, NoTimerFails, At
<1>2. /\ queue'["exit"] = queue["exit"] /\ pcb' = pcb /\ exec' = exec /\ core' = core
      /\ console' = console
  BY <1>0, <1>1, TypeFacts, Names DEF BlockedWaitPlanner, BlockedWaitIo, mtp_block_pcb,
     SemWait
<1> QED BY <1>0, <1>a, <1>2, HonestKept DEF Alive

\* The callbacks of the timers.
LEMMA MtpTimerHonest ==
    ASSUME ~SwapMayFail, HonestInv, MtpTimer, NEW p \in Pcbs
    PROVE  Honest(p)'
<1>0. TypeOK /\ Honest(p) /\ pcb \in [Pcbs -> PcbFields]
  BY DEF HonestInv, Owned, WorkingInv, CpuInv, TypeOK
<1>a. /\ thread'["ltp_exit"] = thread["ltp_exit"]
      /\ thread'["dispatch"] = thread["dispatch"]
  BY <1>0, OwnThread, Names
<1>b. ASSUME At("timer", "unblock")
      PROVE  \E h \in Pcbs : /\ h = thread["timer"].pcb /\ Has("timer", h)
                             /\ h \notin core.completed
  BY <1>b, InHand DEF At, Hands
<1>1. CASE UnblockError
  <2> PICK h \in Pcbs : /\ h = thread["timer"].pcb /\ Has("timer", h)
                        /\ h \notin core.completed
    BY <1>1, <1>b DEF UnblockError
  <2>1. /\ move_pcb_to_exit(h, TRUE) /\ exec' = exec /\ core' = core
        /\ console' = console
    BY <1>1 DEF UnblockError
  <2> QED BY <1>a, <2>1, HonestExit DEF Hands
<1>2. CASE UnblockSuspended
  <2> PICK h \in Pcbs : h = thread["timer"].pcb
    BY <1>2, <1>b DEF UnblockSuspended
  <2>1. /\ queue'["exit"] = queue["exit"] /\ exec' = exec /\ core' = core
        /\ console' = console /\ pcb' = [pcb EXCEPT ![h].status = "SUSPENDED_READY"]
        /\ pcb[h].status = "SUSPENDED_BLOCKED"
    BY <1>0, <1>2, TypeFacts, Names DEF UnblockSuspended, move_pcb_to_suspended_ready, Push
  <2>2. /\ pcb'[p].error = pcb[p].error /\ pcb'[p].cond = pcb[p].cond
        /\ Alive(p)' <=> Alive(p)
    BY <1>0, <2>1 DEF PcbFields, Alive
  <2> QED BY <1>0, <1>a, <2>1, <2>2, HonestKept
<1>3. CASE SuspendSwapped
  <2>1. /\ queue' = queue /\ exec' = exec /\ core' = core /\ console' = console
        /\ \/ pcb' = pcb
           \/ /\ Alive(thread["timer"].pcb)
              /\ pcb' = [pcb EXCEPT ![thread["timer"].pcb].status = "SUSPENDED_BLOCKED"]
    BY <1>3 DEF SuspendSwapped, move_pcb_to_suspended_blocked
  <2>2. /\ pcb'[p].error = pcb[p].error /\ pcb'[p].cond = pcb[p].cond
        /\ Alive(p)' <=> Alive(p)
    BY <1>0, <2>1 DEF PcbFields, Alive
  <2> QED BY <1>0, <1>a, <2>1, <2>2, HonestKept
<1>4. ASSUME NEW h \in Pcbs, NEW k \in 1 .. MaxIO, mtp_suspend_pcb(h, k)
      PROVE  Honest(p)'
  <2>1. /\ queue' = queue /\ exec' = exec /\ core' = core /\ console' = console
        /\ pcb' = [pcb EXCEPT ![h].timer = 0]
    BY <1>4 DEF mtp_suspend_pcb
  <2>2. /\ pcb'[p].error = pcb[p].error /\ pcb'[p].cond = pcb[p].cond
        /\ Alive(p)' <=> Alive(p)
    BY <1>0, <2>1 DEF PcbFields, Alive
  <2> QED BY <1>0, <1>a, <2>1, <2>2, HonestKept
<1>5. CASE \/ \E h \in Pcbs : mtp_unblock_pcb(h)
           \/ UnblockToReady \/ SuspendCheck
           \/ \E h \in Pcbs, k \in 1 .. MaxIO : SuspendTimerFires(h, k)
  <2>1. /\ queue' = queue /\ exec' = exec /\ core' = core /\ console' = console
        /\ pcb' = pcb
    BY <1>5 DEF mtp_unblock_pcb, UnblockToReady, SuspendCheck, SuspendTimerFires
  <2> QED BY <1>0, <1>a, <2>1, HonestKept DEF Alive
<1>6. ~SuspendSwapFails
  BY DEF SuspendSwapFails
<1> QED BY <1>1, <1>2, <1>3, <1>4, <1>5, <1>6 DEF MtpTimer

\* Both versions of move_pcb_to_ready.
LEMMA MoverHonest ==
    ASSUME HonestInv, NEW t \in Movers, Mover(t), NEW p \in Pcbs
    PROVE  Honest(p)'
<1>0. /\ TypeOK /\ Honest(p) /\ pcb \in [Pcbs -> PcbFields] /\ core \in CoreFields
      /\ t \in Hands \ {"ltp_exit"}
  BY DEF HonestInv, Owned, WorkingInv, CpuInv, TypeOK, Movers, Hands
<1>a. /\ thread'["ltp_exit"] = thread["ltp_exit"]
      /\ \/ thread'["dispatch"] = thread["dispatch"]
         \/ ~At("dispatch", "switch") /\ ~At("dispatch", "switch")'
      /\ queue'["exit"] = queue["exit"] /\ exec' = exec /\ console' = console
  <2>1. /\ \A r \in Threads \ {t} : thread'[r] = thread[r]
        /\ thread[t].pc \in MoverPc /\ thread'[t].pc \in MoverPc \cup {ReturnPc(t)}
        /\ queue'["exit"] = queue["exit"] /\ exec' = exec /\ console' = console
    BY <1>0, MoverEffect, Names
  <2>2. CASE t = "dispatch"
    BY <2>1, <2>2, Names DEF At, MoverPc, ReturnPc
  <2>3. CASE t # "dispatch"
    BY <2>1, <2>3, Names DEF Movers
  <2> QED BY <2>1, <2>2, <2>3, Names
<1>b. /\ core'.pc = core.pc /\ core'.cond = core.cond
      /\ core'.completed = core.completed
  <2>1. core' = core \/ core' = [core EXCEPT !.signals = @ + 1]
    BY DEF Mover, move_pcb_to_ready__fifo, SrtInsert, SrtStatus, SrtCheckBusy,
       SrtWaitInterrupt, SrtSendInterrupt, SrtFlagInterrupted, SrtPlan, SemWait
  <2> QED BY <1>0, <2>1 DEF CoreFields
<1>c. /\ pcb'[p].error = pcb[p].error /\ pcb'[p].cond = pcb[p].cond
      /\ Alive(p)' <=> Alive(p)
  <2>1. CASE move_pcb_to_ready__fifo(t)
    <3> PICK h \in Pcbs : h = thread[t].pcb /\ Alive(h)
      BY <1>0, <2>1, InHand DEF move_pcb_to_ready__fifo, At
    <3>1. pcb' = [pcb EXCEPT ![h].status = "READY"]
      BY <2>1 DEF move_pcb_to_ready__fifo, Hand
    <3> QED BY <1>0, <3>1 DEF PcbFields, Alive
  <2>2. CASE SrtStatus(t)
    <3>1. \/ pcb' = pcb
          \/ /\ Alive(Hand(t))
             /\ pcb' = [pcb EXCEPT ![Hand(t)].prev_status = pcb[Hand(t)].status,
                                   ![Hand(t)].status = "READY"]
      BY <2>2 DEF SrtStatus
    <3> QED BY <1>0, <3>1 DEF PcbFields, Alive
  <2>3. CASE ~move_pcb_to_ready__fifo(t) /\ ~SrtStatus(t)
    <3>1. pcb' = pcb
      BY <2>3 DEF Mover, SrtInsert, SrtCheckBusy, SrtWaitInterrupt, SrtSendInterrupt,
         SrtFlagInterrupted, SrtPlan, SemWait
    <3> QED BY <3>1 DEF Alive
  <2> QED BY <2>1, <2>2, <2>3
<1> QED BY <1>0, <1>a, <1>b, <1>c, HonestKept

\* Between the end of a stay on the CPU and the next dispatch the CPU waits.
LEMMA StpIdle ==
    ASSUME HonestInv, At("stp", "pop")
    PROVE  exec = NULL /\ core.pc = "idle" /\ At("dispatch", "idle")
<1>0. CpuExclusive /\ CoreWorksForExec /\ sem["stp_dispatch"] \in Nat
  BY Names DEF HonestInv, Owned, WorkingInv, CpuInv, TypeOK
<1> DEFINE d == Num(~At("dispatch", "idle"))
<1>1. Num(AnyAt("stp", {"pop", "send", "busy"})) = 1
  BY DEF At, AnyAt, Num
<1>2. d \in Nat /\ (d = 0 => At("dispatch", "idle"))
  BY DEF Num
<1>3. sem["stp_dispatch"] + 1 + d = 1
  BY <1>0, <1>1 DEF CpuExclusive
<1> HIDE DEF d
<1>4. At("dispatch", "idle")
  BY <1>0, <1>2, <1>3
<1>5. exec = NULL
  BY <1>0, <1>4 DEF CpuExclusive, At, AnyAt
<1> QED BY <1>0, <1>4, <1>5 DEF CoreWorksForExec

\* ... and so does the listener until the pcb was sent.
LEMMA StpSends ==
    ASSUME HonestInv, AnyAt("stp", {"send", "busy"})
    PROVE  At("dispatch", "idle")
<1>0. CpuExclusive /\ sem["stp_dispatch"] \in Nat
  BY Names DEF HonestInv, Owned, WorkingInv, CpuInv, TypeOK
<1> DEFINE d == Num(~At("dispatch", "idle"))
<1>1. Num(AnyAt("stp", {"pop", "send", "busy"})) = 1
  BY DEF AnyAt, Num
<1>2. d \in Nat /\ (d = 0 => At("dispatch", "idle"))
  BY DEF Num
<1>3. sem["stp_dispatch"] + 1 + d = 1
  BY <1>0, <1>1 DEF CpuExclusive
<1> HIDE DEF d
<1> QED BY <1>0, <1>2, <1>3

\* The controller of the short term.
LEMMA StpHonest ==
    ASSUME HonestInv, Stp, NEW p \in Pcbs
    PROVE  Honest(p)'
<1>0. /\ TypeOK /\ OnePlace /\ Honest(p) /\ SendsToIdle
      /\ pcb \in [Pcbs -> PcbFields] /\ core \in CoreFields
  BY DEF HonestInv, Owned, WorkingInv, CpuInv, TypeOK
<1>a. thread'["ltp_exit"] = thread["ltp_exit"]
  BY <1>0, OwnThread, Names
<1>b. "stp" \in Threads /\ "dispatch" \in Threads /\ "dispatch" # "stp"
  BY Names
<1>1. CASE StpWaitPlan \/ StpWaitDispatch
  <2>1. /\ thread'["dispatch"] = thread["dispatch"]
        /\ thread'["stp"].pc \in {"wait_dispatch", "pop"}
        /\ queue' = queue /\ pcb' = pcb /\ exec' = exec /\ core' = core
        /\ console' = console
    BY <1>0, <1>1, <1>b, GotoMoves DEF StpWaitPlan, StpWaitDispatch, SemWait
  <2> QED BY <1>0, <1>a, <2>1, HonestKept DEF Alive
<1>2. CASE StpPop
  <2>1. exec = NULL /\ core.pc = "idle" /\ At("dispatch", "idle")
    BY <1>2, StpIdle DEF StpPop
  <2>2. /\ Head(queue["ready"]) \in Pcbs /\ Has("ready", Head(queue["ready"]))
    BY <1>0, <1>2, PopHas, Names DEF StpPop
  <2> PICK h \in Pcbs : h = Head(queue["ready"]) /\ Has("ready", h)
    BY <2>2
  <2>3. /\ thread'["dispatch"] = thread["dispatch"]
        /\ queue'["exit"] = queue["exit"] /\ core' = core /\ console' = console
        /\ pcb' = [pcb EXCEPT ![h].status = "EXEC"]
    BY <1>0, <1>2, <1>b, GotoWithMoves, TypeFacts, Names DEF StpPop
  <2>4. Alive(h)
    BY <1>0, PlaceNames, Names DEF OnePlace, Inside, Alive
  <2>5. /\ pcb'[p].error = pcb[p].error /\ pcb'[p].cond = pcb[p].cond
        /\ Alive(p)' <=> Alive(p)
    BY <1>0, <2>3, <2>4 DEF PcbFields, Alive
  <2>6. ~Retired(p) /\ ~Retired(p)'
    BY <2>1, <2>3 DEF Retired, At
  <2>7. Finished(p)' <=> Finished(p)
    BY <1>a, <2>3, FinishedKept
  <2> QED BY <1>0, <2>3, <2>5, <2>6, <2>7, SameEnd
<1>3. CASE cpu_dispatch_pcb
  <2>1. /\ thread'["dispatch"] = thread["dispatch"] /\ thread'["stp"].pc = "busy"
        /\ queue' = queue /\ exec' = exec /\ pcb' = pcb /\ console' = console
        /\ core' = [core EXCEPT !.pc = "dispatched", !.cond = pcb[Hand("stp")].cond]
        /\ At("stp", "send")
    BY <1>0, <1>3, <1>b, GotoMoves DEF cpu_dispatch_pcb
  <2>2. core.pc = "idle" /\ At("dispatch", "idle")
    BY <1>0, <2>1, StpSends DEF SendsToIdle, At, AnyAt
  <2>3. core'.pc = "dispatched" /\ core'.completed = core.completed
    BY <1>0, <2>1 DEF CoreFields
  <2>4. ~Retired(p) /\ ~Retired(p)'
    BY <2>1, <2>2, <2>3 DEF Retired, At
  <2>5. Finished(p)' <=> Finished(p)
    BY <1>a, <2>1, FinishedKept
  <2> QED BY <1>0, <2>1, <2>3, <2>4, <2>5, SameEnd DEF Alive
<1>4. CASE cpu_listen_dispatch_async
  <2>1. /\ thread'["dispatch"].pc = "listening" /\ thread'["stp"].pc = "wait_plan"
        /\ queue' = queue /\ exec' = exec /\ pcb' = pcb /\ console' = console
        /\ core' = core /\ At("stp", "busy")
    BY <1>0, <1>4, <1>b, TypeFacts DEF cpu_listen_dispatch_async
  <2>2. At("dispatch", "idle")
    BY <2>1, StpSends DEF At, AnyAt
  <2>3. ~At("dispatch", "switch") /\ ~At("dispatch", "switch")'
    BY <2>1, <2>2 DEF At
  <2> QED BY <1>0, <1>a, <2>1, <2>3, HonestKept DEF Alive
<1> QED BY <1>1, <1>2, <1>3, <1>4 DEF Stp

\* The CPU: a program executes EXIT while its process is there.
LEMMA CpuHonest ==
    ASSUME HonestInv, Cpu, NEW p \in Pcbs
    PROVE  Honest(p)'
<1>0. /\ TypeOK /\ OnePlace /\ Honest(p)
      /\ core \in CoreFields /\ exec \in Pcbs \cup {NULL}
  BY DEF HonestInv, Owned, WorkingInv, CpuInv, TypeOK
<1>1. /\ thread' = thread /\ pcb' = pcb /\ queue' = queue /\ exec' = exec
      /\ console' = console
  BY DEF Cpu, CpuReceive, CpuInterrupt, CpuReturn
<1>2. Finished(p)' <=> Finished(p)
  BY <1>1, FinishedKept
<1>3. CASE CpuReceive
  <2>1. /\ core.pc = "dispatched" /\ core'.pc = "running"
        /\ core'.completed = core.completed
    BY <1>0, <1>3 DEF CpuReceive, CoreFields
  <2>2. Retired(p)' <=> Retired(p)
    BY <1>1, <2>1 DEF Retired, At
  <2> QED BY <1>0, <1>1, <1>2, <2>1, <2>2, SameEnd DEF Alive
<1>4. CASE CpuInterrupt
  <2>1. /\ core'.pc = core.pc /\ core'.cond = core.cond
        /\ core'.completed = core.completed
    BY <1>0, <1>4 DEF CpuInterrupt, CoreFields
  <2> QED BY <1>0, <1>1, <2>1, HonestKept DEF Alive
<1>5. ASSUME NEW cond \in Condition, NEW burst \in Bursts, CpuReturn(cond, burst)
      PROVE  Honest(p)'
  <2>1. /\ core.pc = "running" /\ core'.pc = "returned" /\ core'.cond = cond
        /\ core'.completed = IF cond = "EXIT_PROGRAM" THEN core.completed \cup {exec}
                             ELSE core.completed
    BY <1>0, <1>5 DEF CpuReturn, CoreFields
  <2>3. CASE exec # p
    <3>1. Retired(p)' <=> Retired(p)
      BY <1>1, <2>3 DEF Retired, At
    <3> QED BY <1>0, <1>1, <1>2, <2>1, <2>3, <3>1, SameEnd DEF Alive
  <2>4. CASE exec = p
    <3>1. Has("cpu", p)
      BY <2>4, PlaceNames DEF Has
    <3>2. ~Finished(p) /\ Alive(p)
      <4>1. ~Has("exit", p) /\ ~Has("ltp_exit", p) /\ Inside(p)
        BY <1>0, <3>1, PlaceNames, Names DEF OnePlace, Hands
      <4> QED BY <4>1 DEF Finished, Alive, Inside
    <3>3. ~ (At("dispatch", "switch") /\ thread["dispatch"].pcb = p)
      <4>1. ~Has("dispatch", p)
        BY <1>0, <3>1, PlaceNames DEF OnePlace, Hands
      <4> QED BY <4>1, PlaceNames DEF Has, HasInHand, AnyAt, At, Hands
    <3>4. ~Retired(p)
      BY <2>1, <3>3 DEF Retired
    <3>5. Retired(p)' <=> cond = "EXIT_PROGRAM"
      BY <1>1, <2>1, <2>4, <3>3 DEF Retired, At
    <3>6. p \notin core.completed /\ ~pcb[p].error /\ console[p] = "none"
      BY <1>0, <3>2, <3>4 DEF Honest
    <3>7. (p \in core'.completed) <=> Retired(p)'
      BY <2>1, <2>4, <3>5, <3>6
    <3> QED BY <1>1, <1>2, <3>2, <3>6, <3>7 DEF Honest, Alive
  <2> QED BY <2>3, <2>4
<1> QED BY <1>3, <1>4, <1>5 DEF Cpu

\* The thread that listens to the CPU: the error flag goes up unless the answer is EXIT.
LEMMA DispatchHonest ==
    ASSUME HonestInv, Dispatch, NEW p \in Pcbs
    PROVE  Honest(p)'
<1>0. /\ TypeOK /\ OnePlace /\ Honest(p) /\ CpuExclusive
      /\ pcb \in [Pcbs -> PcbFields] /\ core \in CoreFields /\ exec \in Pcbs \cup {NULL}
  BY DEF HonestInv, Owned, WorkingInv, CpuInv, TypeOK
<1>a. thread'["ltp_exit"] = thread["ltp_exit"]
  BY <1>0, OwnThread, Names
<1>b. "dispatch" \in Hands \ {"ltp_exit"} /\ "dispatch" \in Threads
  BY Names DEF Hands
<1>c. ASSUME At("dispatch", "switch")
      PROVE  \E h \in Pcbs : /\ h = thread["dispatch"].pcb /\ Has("dispatch", h)
                             /\ Alive(h) /\ exec # h
                             /\ h \in core.completed <=> pcb[h].cond = "EXIT_PROGRAM"
  <2> PICK h \in Pcbs : /\ h = thread["dispatch"].pcb /\ Has("dispatch", h)
                        /\ Alive(h) /\ exec # h
    BY <1>b, <1>c, InHand DEF At
  <2>1. ~Finished(h)
    BY <1>0, <1>b, HandIsAlive
  <2>2. h \in core.completed <=> Retired(h)
    BY <2>1 DEF HonestInv, Honest
  <2>3. Retired(h) <=> pcb[h].cond = "EXIT_PROGRAM"
    BY <1>c DEF Retired
  <2> QED BY <2>2, <2>3
<1>1. CASE cpu_recieve_pcb_async
  <2> PICK h \in Pcbs : h = exec
    BY <1>0, <1>1 DEF cpu_recieve_pcb_async, CpuExclusive
  <2>1. /\ thread["dispatch"].pc = "listening" /\ core.pc = "returned"
        /\ thread'["dispatch"].pc = "switch" /\ thread'["dispatch"].pcb = h
        /\ exec' = NULL /\ queue' = queue /\ console' = console
    BY <1>0, <1>b, <1>1, GotoWithMoves DEF cpu_recieve_pcb_async, At
  <2>2. core'.pc = "idle" /\ core'.completed = core.completed
    BY <1>0, <1>1 DEF cpu_recieve_pcb_async, CoreFields
  <2>3. /\ \A r \in Pcbs : /\ pcb'[r].error = pcb[r].error
                           /\ pcb'[r].status = pcb[r].status
        /\ pcb'[h].cond = core.cond
    BY <1>0, <1>1 DEF cpu_recieve_pcb_async, PcbFields
  <2>4. Retired(p)' <=> Retired(p)
    BY <2>1, <2>2, <2>3 DEF Retired, At
  <2>5. Finished(p)' <=> Finished(p)
    BY <1>a, <2>1, FinishedKept
  <2> QED BY <1>0, <2>1, <2>2, <2>3, <2>4, <2>5, SameEnd DEF Alive
<1>2. CASE DispatchExit \/ DispatchError
  <2> PICK h \in Pcbs : /\ h = thread["dispatch"].pcb /\ Has("dispatch", h)
                        /\ h \in core.completed <=> pcb[h].cond = "EXIT_PROGRAM"
    BY <1>2, <1>c DEF DispatchExit, DispatchError, Returned
  <2>1. \E err \in BOOLEAN : /\ move_pcb_to_exit(h, err)
                             /\ err <=> pcb[h].cond # "EXIT_PROGRAM"
    BY <1>2 DEF DispatchExit, DispatchError, Returned, Hand
  <2> PICK err \in BOOLEAN : /\ move_pcb_to_exit(h, err)
                             /\ err <=> pcb[h].cond # "EXIT_PROGRAM"
    BY <2>1
  <2>2. /\ thread'["dispatch"].pcb = h
        /\ exec' = exec /\ core' = core /\ console' = console
    BY <1>0, <1>b, <1>2, GotoMoves DEF DispatchExit, DispatchError
  <2> QED BY <1>a, <1>b, <2>2, HonestExit
<1>3. CASE DispatchIo \/ DispatchInterrupted
  <2> PICK h \in Pcbs : /\ h = thread["dispatch"].pcb /\ Alive(h)
                        /\ pcb[h].cond # "EXIT_PROGRAM"
    BY <1>3, <1>c DEF DispatchIo, DispatchInterrupted, Returned, Hand
  <2>1. /\ thread["dispatch"].pc = "switch"
        /\ thread'["dispatch"].pc \in {"finish", "to_ready"}
        /\ exec' = exec /\ core' = core /\ console' = console
    BY <1>0, <1>b, <1>3, GotoMoves DEF DispatchIo, DispatchInterrupted, Returned, At
  <2>2. /\ queue'["exit"] = queue["exit"] /\ pcb'[p].error = pcb[p].error
        /\ Alive(p)' <=> Alive(p)
    <3>1. CASE DispatchInterrupted
      BY <3>1 DEF DispatchInterrupted, Alive
    <3>2. CASE DispatchIo
      <4>1. move_pcb_to_blocked(h)
        BY <3>2 DEF DispatchIo, Hand
      <4>2. queue'["exit"] = queue["exit"]
        BY <1>0, <4>1, TypeFacts, Names DEF move_pcb_to_blocked, Push
      <4> QED BY <1>0, <4>1, <4>2 DEF move_pcb_to_blocked, PcbFields, Alive
    <3> QED BY <1>3, <3>1, <3>2
  <2>3. Retired(p)' <=> Retired(p)
    BY <2>1 DEF Retired, At
  <2>4. Finished(p)' <=> Finished(p)
    BY <1>a, <2>2, FinishedKept
  <2> QED BY <1>0, <2>1, <2>2, <2>3, <2>4, SameEnd
<1>4. CASE DispatchFinish
  <2>1. /\ thread["dispatch"].pc = "finish" /\ thread'["dispatch"].pc = "idle"
        /\ queue' = queue /\ exec' = exec /\ core' = core /\ console' = console
    BY <1>0, <1>b, <1>4, GotoWithMoves DEF DispatchFinish, At, Release
  <2>2. pcb'[p].error = pcb[p].error /\ (Alive(p)' <=> Alive(p))
    BY <1>0, <1>4 DEF DispatchFinish, PcbFields, Alive
  <2>3. Retired(p)' <=> Retired(p)
    BY <2>1, RetiredKept DEF At
  <2>4. Finished(p)' <=> Finished(p)
    BY <1>a, <2>1, FinishedKept
  <2> QED BY <1>0, <2>1, <2>2, <2>3, <2>4, SameEnd
<1> QED BY <1>1, <1>2, <1>3, <1>4 DEF Dispatch

\* What the controllers of blocked processes and of the short term rely on.
LEMMA TimersStart ==
    ASSUME ~TimerMayFail, HonestInv, [Next]_vars
    PROVE  NoTimerFails'
<1>0. TypeOK /\ NoTimerFails
  BY DEF HonestInv, Owned, WorkingInv, CpuInv
<1>1. CASE MtpBlocked
  <2>1. BlockedWaitPlanner \/ BlockedWaitIo \/ mtp_block_pcb
    BY <1>0, <1>1 DEF MtpBlocked, BlockFails, BlockFailExit, BlockFailRelease,
       NoTimerFails, At
  <2>2. thread'["mtp_blocked"].pc \in {"wait_io", "pop", "wait_planner"}
    BY <1>0, <2>1, GotoMoves, Names DEF BlockedWaitPlanner, BlockedWaitIo,
       mtp_block_pcb, SemWait
  <2> QED BY <2>2 DEF NoTimerFails
<1>2. CASE ~MtpBlocked
  <2>1. thread'["mtp_blocked"] = thread["mtp_blocked"]
    <3>1. \A t \in Movers : Mover(t) => thread'["mtp_blocked"] = thread["mtp_blocked"]
      BY <1>0, MoverEffect, Names DEF Movers
    <3>2. \A h \in Pcbs : ltp_new_process(h) => thread' = thread
      BY DEF ltp_new_process
    <3> QED BY <1>0, <1>2, <3>1, <3>2, OwnThread, Names DEF Next, System, vars
  <2> QED BY <1>0, <2>1 DEF NoTimerFails
<1> QED BY <1>1, <1>2

LEMMA CpuWaits ==
    ASSUME HonestInv, [Next]_vars
    PROVE  SendsToIdle'
<1>0. /\ TypeOK /\ SendsToIdle /\ core \in CoreFields
      /\ "stp" \in Threads /\ "dispatch" \in Threads /\ "dispatch" # "stp"
  BY Names DEF HonestInv, Owned, WorkingInv, CpuInv, TypeOK
<1>1. CASE Stp
  <2>1. CASE StpWaitPlan \/ StpWaitDispatch
    <3>1. thread'["stp"].pc \in {"wait_dispatch", "pop"}
      BY <1>0, <2>1, GotoMoves DEF StpWaitPlan, StpWaitDispatch, SemWait
    <3> QED BY <3>1 DEF SendsToIdle, At
  <2>2. CASE StpPop
    <3>1. core.pc = "idle" /\ core' = core
      BY <2>2, StpIdle DEF StpPop
    <3> QED BY <3>1 DEF SendsToIdle
  <2>3. CASE cpu_dispatch_pcb
    <3>1. thread'["stp"].pc = "busy"
      BY <1>0, <2>3, GotoMoves DEF cpu_dispatch_pcb
    <3> QED BY <3>1 DEF SendsToIdle, At
  <2>4. CASE cpu_listen_dispatch_async
    <3>1. thread'["stp"].pc = "wait_plan"
      BY <1>0, <2>4, TypeFacts DEF cpu_listen_dispatch_async
    <3> QED BY <3>1 DEF SendsToIdle, At
  <2> QED BY <1>1, <2>1, <2>2, <2>3, <2>4 DEF Stp
<1>2. CASE Cpu
  <2>1. thread' = thread /\ (core.pc # "idle" \/ core'.pc = core.pc)
    BY <1>0, <1>2 DEF Cpu, CpuReceive, CpuInterrupt, CpuReturn, CoreFields
  <2>2. CASE core.pc # "idle"
    BY <1>0, <2>1, <2>2 DEF SendsToIdle, At
  <2>3. CASE core'.pc = core.pc
    BY <1>0, <2>1, <2>3 DEF SendsToIdle, At
  <2> QED BY <2>1, <2>2, <2>3
<1>3. CASE ~Stp /\ ~Cpu
  <2>1. thread'["stp"] = thread["stp"]
    <3>1. \A t \in Movers : Mover(t) => thread'["stp"] = thread["stp"]
      BY <1>0, MoverEffect, Names DEF Movers
    <3>2. \A h \in Pcbs : ltp_new_process(h) => thread' = thread
      BY DEF ltp_new_process
    <3> QED BY <1>0, <1>3, <3>1, <3>2, OwnThread, Names DEF Next, System, vars
  <2>2. core'.pc \in {core.pc, "idle"}
    <3>1. CASE Dispatch
      BY <1>0, <3>1 DEF Dispatch, cpu_recieve_pcb_async, DispatchExit, DispatchIo,
         DispatchInterrupted, DispatchError, DispatchFinish, CoreFields
    <3>2. ASSUME NEW t \in Movers, Mover(t) PROVE core'.pc = core.pc
      BY <1>0, <3>2 DEF Mover, move_pcb_to_ready__fifo, SrtInsert, SrtStatus,
         SrtCheckBusy, SrtWaitInterrupt, SrtSendInterrupt, SrtFlagInterrupted, SrtPlan,
         SemWait, CoreFields
    <3>3. LtpNew \/ LtpExit \/ MtpBlocked => core' = core
      BY DEF LtpNew, LtpWaitPlan, LtpWaitLevel, LtpTakeSuspended, LtpTakeNew, LtpAdmit,
         LtpReject, LtpDiscard, LtpExit, ExitWait, ExitPop, ExitFinish, MtpBlocked,
         BlockedWaitPlanner, BlockedWaitIo, mtp_block_pcb, BlockFails, BlockFailExit,
         BlockFailRelease, SemWait
    <3>4. MtpTimer => core' = core
      BY DEF MtpTimer, mtp_unblock_pcb, UnblockToReady, UnblockSuspended, UnblockError,
         SuspendTimerFires, mtp_suspend_pcb, SuspendCheck, SuspendSwapped,
         SuspendSwapFails
    <3>5. \A h \in Pcbs : ltp_new_process(h) => core' = core
      BY DEF ltp_new_process
    <3> QED BY <1>3, <3>1, <3>2, <3>3, <3>4, <3>5 DEF Next, System, vars
  <2> QED BY <1>0, <2>1, <2>2 DEF SendsToIdle, At
<1> QED BY <1>1, <1>2, <1>3

LEMMA HonestStep ==
    ASSUME ~SwapMayFail, ~TimerMayFail, HonestInv, [Next]_vars, NEW p \in Pcbs
    PROVE  Honest(p)'
<1>1. CASE UNCHANGED vars
  <2>1. Honest(p)
    BY DEF HonestInv
  <2> QED BY <1>1, <2>1, HonestKept DEF vars, Alive
<1>2. CASE Next
  BY <1>2, SubmitHonest, LtpNewHonest, LtpExitHonest, MtpBlockedHonest, MtpTimerHonest,
     MoverHonest, StpHonest, CpuHonest, DispatchHonest DEF Next, System
<1> QED BY <1>1, <1>2

\* What a console hears is true (ExitFinish, on_exit of planner.c): for every set of
\* processes, either algorithm and every degree, it is told SUCCESS only if the program
\* of its process executed EXIT and FAILURE only if it did not. Both faults break it: a
\* timer that does not start sends its process to EXIT without the error flag, and a
\* swap that fails leaves a process with two owners that finish it.
THEOREM ConsolesHearTheTruth ==
    ASSUME ~SwapMayFail, ~TimerMayFail
    PROVE  Spec => []AnswerIsTrue
<1> DEFINE Truth == NoTimerFails /\ SendsToIdle /\ \A p \in Pcbs : Honest(p)
<1>1. Init => Truth
  <2> SUFFICES ASSUME Init PROVE Truth
    OBVIOUS
  <2>1. NoTimerFails /\ SendsToIdle
    BY Names DEF Init, InitState, NoTimerFails, SendsToIdle, At
  <2>2. ASSUME NEW p \in Pcbs PROVE Honest(p)
    <3>1. ~Finished(p)
      BY NobodyAnywhere, PlaceNames, Names DEF Finished, Hands
    <3>2. ~Retired(p)
      BY Names DEF Init, InitState, Retired, At
    <3> QED BY <3>1, <3>2 DEF Init, InitState, Honest
  <2> QED BY <2>1, <2>2
<1>2. Owned /\ Truth /\ [Next]_vars => Truth'
  BY TimersStart, CpuWaits, HonestStep DEF HonestInv
<1>3. Owned /\ Truth => AnswerIsTrue
  BY DEF Honest, AnswerIsTrue
<1> HIDE DEF Truth
<1> QED BY <1>1, <1>2, <1>3, OwnedInvariant, PTL DEF Spec

=============================================================================
