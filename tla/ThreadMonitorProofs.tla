------------------------- MODULE ThreadMonitorProofs -------------------------
(***************************************************************************)
(* What terminate_and_wait promises: as long as no refused thread counted  *)
(* itself out, the count is the number of counted threads in their         *)
(* routine, the semaphore is posted only when that number is zero for      *)
(* good, and so the main thread goes on with none of them running.         *)
(***************************************************************************)
EXTENDS ThreadMonitor, FiniteSetTheorems, TLAPS

\* The counted threads that are in their routine.
Running == {t \in Threads \ refused : pc[t] = "running"}

Shape ==
    /\ active_thread_count \in Int
    /\ terminated \in BOOLEAN
    /\ threads \subseteq Threads
    /\ threads \cap refused = {}
    /\ refused \subseteq Threads
    /\ sem_terminated \in Nat
    /\ pc \in [Threads -> {"none", "created", "running", "removing", "unlocking", "gone"}]
    /\ main \in {"running", "terminated", "waiting", "waited", "destroyed"}

CountIsRunning == CountIsRight => active_thread_count = Cardinality(Running)

PostedAtTheEnd ==
    sem_terminated > 0 /\ CountIsRight => terminated = TRUE /\ Running = {}

ReturnedAtTheEnd ==
    main \in {"waited", "destroyed"} /\ CountIsRight => Running = {}

MainTerminates == main # "running" <=> terminated = TRUE

\* A thread that the monitor counted or refused is past its subscription.
ListedStarted == \A t \in threads \cup refused : pc[t] \notin {"none", "created"}

WaitInv ==
    /\ Shape /\ CountIsRunning /\ PostedAtTheEnd /\ ReturnedAtTheEnd
    /\ MainTerminates /\ ListedStarted

\* The set of counted running threads is finite, and while the count is right it
\* is a natural number that is zero only if the set is empty.
LEMMA CountOfRunning ==
    ASSUME Shape, CountIsRunning
    PROVE  /\ IsFiniteSet(Running)
           /\ CountIsRight => /\ active_thread_count \in Nat
                              /\ active_thread_count = 0 <=> Running = {}
<1>1. IsFiniteSet(Threads)
  BY MonitorAssumption, FS_Union DEF Threads
<1>2. IsFiniteSet(Running)
  BY <1>1, FS_Subset DEF Running
<1>3. QED
  BY <1>2, FS_CardinalityType, FS_EmptySet DEF CountIsRunning

\* A step that moves a thread outside its routine, and refuses nobody, keeps the
\* set of running threads and what is known of the refused ones.
LEMMA SameRunning ==
    ASSUME NEW t \in Threads, pc[t] # "running", Shape, ListedStarted,
           NEW p \in {"removing", "unlocking", "gone"},
           pc' = [pc EXCEPT ![t] = p], UNCHANGED refused, threads' \subseteq threads
    PROVE  Running' = Running /\ (CountIsRight' => CountIsRight) /\ ListedStarted'
<1>1. Running' = Running
  BY DEF Running, Shape
<1>2. CountIsRight' => CountIsRight
  BY DEF CountIsRight, Shape
<1>3. ListedStarted'
  BY DEF ListedStarted, Shape
<1>4. QED
  BY <1>1, <1>2, <1>3

\* The invariant holds at the start.
LEMMA WaitInit ==
    ASSUME Init PROVE WaitInv
<1>1. Running = {}
  BY DEF Init, Running
<1>2. terminated \in BOOLEAN
  BY Zenon DEF Init
<1>3. Shape
  BY <1>2 DEF Init, Shape
<1>4. QED
  BY <1>1, <1>3, FS_EmptySet
  DEF Init, WaitInv, CountIsRunning, PostedAtTheEnd, ReturnedAtTheEnd,
      MainTerminates, ListedStarted

\* A thread that enters its routine counted, by new() or by subscribe.
LEMMA AddStep ==
    ASSUME NEW t \in Threads, WaitInv, ~terminated, Add(t),
           pc[t] \in {"none", "created"}, pc' = [pc EXCEPT ![t] = "running"],
           UNCHANGED <<refused, terminated, sem_terminated, main>>
    PROVE  WaitInv'
<1> USE DEF WaitInv
<1>1. t \notin refused
  BY DEF ListedStarted
<1>2. t \notin Running /\ Running' = Running \cup {t}
  BY <1>1 DEF Running, Shape
<1>3. CountIsRight' => CountIsRight
  BY <1>1 DEF CountIsRight, Shape
<1>4. CountIsRunning'
  BY <1>2, <1>3, CountOfRunning, FS_AddElement, ZenonT(40) DEF Add, CountIsRunning
<1>5. Shape'
  BY <1>1 DEF Add, Shape
<1>6. ListedStarted'
  BY <1>1 DEF Add, ListedStarted, Shape
<1>7. QED
  BY <1>3, <1>4, <1>5, <1>6
  DEF PostedAtTheEnd, ReturnedAtTheEnd, MainTerminates, Shape

\* A thread that subscribe refuses.
LEMMA RefusedStep ==
    ASSUME NEW t \in Threads, WaitInv, terminated, Add(t), pc[t] = "created",
           pc' = [pc EXCEPT ![t] = "running"], refused' = refused \cup {t},
           UNCHANGED <<terminated, sem_terminated, main>>
    PROVE  WaitInv'
<1> USE DEF WaitInv
<1>1. Running' = Running
  BY DEF Running, Shape
<1>2. CountIsRight' => CountIsRight
  BY DEF CountIsRight, ListedStarted, Shape
<1>3. Shape'
  BY DEF Add, Shape, ListedStarted
<1>4. ListedStarted'
  BY DEF Add, ListedStarted, Shape
<1>5. QED
  BY <1>1, <1>2, <1>3, <1>4
  DEF Add, CountIsRunning, PostedAtTheEnd, ReturnedAtTheEnd, MainTerminates

\* Every step keeps the invariant.
LEMMA WaitStep ==
    ASSUME WaitInv, [Next]_vars
    PROVE  WaitInv'
<1> USE DEF WaitInv
<1>0. /\ IsFiniteSet(Running)
      /\ CountIsRight => /\ active_thread_count \in Nat
                         /\ active_thread_count = 0 <=> Running = {}
  BY CountOfRunning
<1>1. ASSUME NEW t \in Threads, thread_new(t) PROVE WaitInv'
  BY <1>1, AddStep DEF thread_new
<1>2. ASSUME NEW t \in Threads, Create(t) PROVE WaitInv'
  <2>1. t \notin threads \cup refused
    BY <1>2 DEF Create, ListedStarted
  <2>2. Running' = Running /\ CountIsRight' = CountIsRight /\ ListedStarted'
    <3>1. Running' = Running
      BY <1>2 DEF Create, Running, Shape
    <3>2. CountIsRight' <=> CountIsRight
      BY <1>2, <2>1 DEF Create, CountIsRight, Shape
    <3>3. ListedStarted'
      BY <1>2, <2>1 DEF Create, monitor, ListedStarted, Shape
    <3>4. QED
      BY <3>1, <3>2, <3>3 DEF CountIsRight
  <2>3. Shape'
    BY <1>2 DEF Create, monitor, Shape
  <2>4. QED
    BY <1>2, <2>2, <2>3 DEF Create, monitor, CountIsRunning, PostedAtTheEnd,
                            ReturnedAtTheEnd, MainTerminates
<1>3. ASSUME NEW t \in Threads, thread_subscribe(t) PROVE WaitInv'
  <2>1. CASE terminated
    BY <1>3, <2>1, RefusedStep DEF thread_subscribe
  <2>2. CASE ~terminated
    BY <1>3, <2>2, AddStep DEF thread_subscribe
  <2>3. QED
    BY <2>1, <2>2
<1>4. ASSUME NEW t \in Threads, RemoveCount(t) PROVE WaitInv'
  <2>1. Shape'
    BY <1>4 DEF RemoveCount, Shape
  <2>2. ListedStarted'
    BY <1>4 DEF RemoveCount, ListedStarted, Shape
  <2>3. CASE t \in refused
    <3>1. ~CountIsRight'
      BY <1>4, <2>3 DEF RemoveCount, CountIsRight, Shape
    <3>2. QED
      BY <1>4, <2>1, <2>2, <3>1 DEF RemoveCount, CountIsRunning, PostedAtTheEnd,
                                    ReturnedAtTheEnd, MainTerminates
  <2>4. CASE t \notin refused
    <3>1. t \in Running /\ Running' = Running \ {t}
      BY <1>4, <2>4 DEF RemoveCount, Running, Shape
    <3>2. CountIsRight' => CountIsRight
      BY <1>4, <2>4 DEF RemoveCount, CountIsRight, Shape
    <3>3. CountIsRunning'
      BY <1>0, <1>4, <3>1, <3>2, FS_RemoveElement DEF RemoveCount, CountIsRunning
    <3>4. QED
      BY <1>4, <2>1, <2>2, <3>1, <3>2, <3>3
      DEF RemoveCount, PostedAtTheEnd, ReturnedAtTheEnd, MainTerminates
  <2>5. QED
    BY <2>3, <2>4
<1>5. ASSUME NEW t \in Threads, RemovePost(t) PROVE WaitInv'
  <2>1. Running' = Running /\ (CountIsRight' => CountIsRight) /\ ListedStarted'
    BY <1>5, SameRunning DEF RemovePost
  <2>2. Shape'
    BY <1>5 DEF RemovePost, Shape
  <2>3. PostedAtTheEnd'
    BY <1>0, <1>5, <2>1 DEF RemovePost, LastOne, PostedAtTheEnd
  <2>4. QED
    BY <1>5, <2>1, <2>2, <2>3
    DEF RemovePost, CountIsRunning, ReturnedAtTheEnd, MainTerminates
<1>6. ASSUME NEW t \in Threads, Unlock(t) PROVE WaitInv'
  <2>1. Running' = Running /\ (CountIsRight' => CountIsRight) /\ ListedStarted'
    BY <1>6, SameRunning DEF Unlock
  <2>2. Shape'
    BY <1>6 DEF Unlock, Shape
  <2>3. QED
    BY <1>6, <2>1, <2>2
    DEF Unlock, CountIsRunning, PostedAtTheEnd, ReturnedAtTheEnd, MainTerminates
<1>7. ASSUME UNCHANGED <<threads, refused, pc>>
      PROVE  Running' = Running /\ (CountIsRight' => CountIsRight) /\ ListedStarted'
  BY <1>7 DEF Running, CountIsRight, ListedStarted
<1>8. CASE Terminate
  <2>1. Running' = Running /\ (CountIsRight' => CountIsRight) /\ ListedStarted'
    BY <1>7, <1>8 DEF Terminate
  <2>2. QED
    BY <1>8, <2>1 DEF Terminate, Shape, CountIsRunning, PostedAtTheEnd,
                      ReturnedAtTheEnd, MainTerminates
<1>9. CASE CheckCount
  <2>1. Running' = Running /\ (CountIsRight' => CountIsRight) /\ ListedStarted'
    BY <1>7, <1>9 DEF CheckCount, monitor
  <2>2. QED
    BY <1>0, <1>9, <2>1 DEF CheckCount, monitor, Shape, CountIsRunning,
                            PostedAtTheEnd, ReturnedAtTheEnd, MainTerminates
<1>10. CASE Wait
  <2>1. Running' = Running /\ (CountIsRight' => CountIsRight) /\ ListedStarted'
    BY <1>7, <1>10 DEF Wait
  <2>2. QED
    BY <1>10, <2>1 DEF Wait, Shape, CountIsRunning, PostedAtTheEnd,
                       ReturnedAtTheEnd, MainTerminates
<1>11. CASE thread_monitor_destroy
  <2>1. Running' = Running /\ (CountIsRight' => CountIsRight) /\ ListedStarted'
    BY <1>7, <1>11 DEF thread_monitor_destroy, monitor
  <2>2. QED
    BY <1>11, <2>1 DEF thread_monitor_destroy, monitor, Shape, CountIsRunning,
                       PostedAtTheEnd, ReturnedAtTheEnd, MainTerminates
<1>12. CASE UNCHANGED vars
  <2>1. Running' = Running /\ (CountIsRight' => CountIsRight) /\ ListedStarted'
    BY <1>7, <1>12 DEF vars, monitor
  <2>2. QED
    BY <1>12, <2>1 DEF vars, monitor, Shape, CountIsRunning, PostedAtTheEnd,
                       ReturnedAtTheEnd, MainTerminates
<1>13. QED
  BY <1>1, <1>2, <1>3, <1>4, <1>5, <1>6, <1>8, <1>9, <1>10, <1>11, <1>12
  DEF Next, Started, Leave, Main

\* terminate_and_wait returns only when no counted thread is in its routine, up
\* to the first refused thread that counts itself out: for any number of threads
\* of both kinds.
THEOREM CountedAreWaitedFor == Spec => []WaitsForCounted
<1>1. WaitInv => WaitsForCounted
  BY DEF WaitInv, Shape, ReturnedAtTheEnd, WaitsForCounted, Running
<1>2. Init => WaitInv
  BY WaitInit
<1>3. WaitInv /\ [Next]_vars => WaitInv'
  BY WaitStep
<1>4. QED
  BY <1>1, <1>2, <1>3, PTL DEF Spec

\* The count of the monitor, its lists and its threads keep their types, for any
\* number of threads of both kinds.
THEOREM MonitorTypes == Spec => []TypeOK
<1>1. WaitInv => TypeOK
  BY DEF WaitInv, Shape, TypeOK
<1>2. Init => WaitInv
  BY WaitInit
<1>3. WaitInv /\ [Next]_vars => WaitInv'
  BY WaitStep
<1>4. QED
  BY <1>1, <1>2, <1>3, PTL DEF Spec

=============================================================================
