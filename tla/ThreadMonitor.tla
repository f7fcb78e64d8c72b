---------------------------- MODULE ThreadMonitor ----------------------------
(***************************************************************************)
(* The thread monitor (shared/src/thread_monitor.c) and its two kinds of   *)
(* users.  A thread made with monitor->new() is counted by its creator,    *)
(* under the monitor's mutex, before it can end.  The threads of           *)
(* socket_handler.c (handle_server, handle_client and the asynchronous     *)
(* sends and receives) are made with pthread_create and subscribe          *)
(* themselves; they ignore the result, so a thread that subscribe refused  *)
(* still unsubscribes when it ends.  The main thread terminates the        *)
(* monitor, waits and destroys it (shared.test/src/socket.handler.test.c). *)
(*                                                                         *)
(* terminate_and_wait reads active_thread_count without the mutex, so      *)
(* thread_remove is cut where that read can fall: after the decrement, and *)
(* between sem_post and the unlock.  A failing pthread_create makes no     *)
(* thread and a failing pthread_detach is left out.  The memory of a       *)
(* destroyed monitor keeps its contents: what is checked is that nobody    *)
(* looks.                                                                  *)
(***************************************************************************)
EXTENDS Integers, FiniteSets

CONSTANTS Owned,       \* threads made with monitor->new()
          Subscribers, \* threads that subscribe themselves
          NoThread

ASSUME MonitorAssumption ==
    /\ IsFiniteSet(Owned) /\ IsFiniteSet(Subscribers)
    /\ Owned \cap Subscribers = {}
    /\ NoThread \notin Owned \cup Subscribers

Threads == Owned \cup Subscribers

VARIABLES
    active_thread_count, \* of the monitor; negative when refused threads leave
    terminated,          \* of the monitor
    threads,             \* the monitor's list of subscribed threads
    refused,             \* the threads that subscribe refused, which ignored it
    sem_terminated,      \* semaphore of terminate_and_wait
    mutex_monitor,       \* the thread inside the monitor, or NoThread
    pc,                  \* where each thread is
    main                 \* where the main thread is

monitor == <<active_thread_count, terminated, threads, sem_terminated, mutex_monitor>>
vars == <<monitor, refused, pc, main>>

Init ==
    /\ active_thread_count = 0 /\ terminated = FALSE /\ threads = {}
    /\ refused = {}
    /\ sem_terminated = 0 /\ mutex_monitor = NoThread
    /\ pc = [t \in Threads |-> "none"]
    /\ main = "running"

\* The main thread, or a thread that runs, is there to make another one: the
\* server makes a thread for each client it accepts.
HasCreator == main = "running" \/ \E t \in Threads : pc[t] = "running"

\* thread_add: refused once the monitor is terminated.
Add(t) ==
    IF terminated
      THEN UNCHANGED <<active_thread_count, threads>>
      ELSE /\ active_thread_count' = active_thread_count + 1
           /\ threads' = threads \cup {t}

\* monitor->new(): the thread may start before it is in the list, but it cannot
\* leave before its creator gives the mutex back.
thread_new(t) ==
    /\ t \in Owned /\ pc[t] = "none" /\ HasCreator
    /\ mutex_monitor = NoThread
    /\ ~terminated
    /\ Add(t)
    /\ pc' = [pc EXCEPT ![t] = "running"]
    /\ UNCHANGED <<refused, terminated, sem_terminated, mutex_monitor, main>>

\* pthread_create of a thread that will subscribe itself.
Create(t) ==
    /\ t \in Subscribers /\ pc[t] = "none" /\ HasCreator
    /\ pc' = [pc EXCEPT ![t] = "created"]
    /\ UNCHANGED <<monitor, refused, main>>

\* thread_subscribe: the thread does not look at the answer.
thread_subscribe(t) ==
    /\ pc[t] = "created" /\ mutex_monitor = NoThread
    /\ Add(t)
    /\ refused' = IF terminated THEN refused \cup {t} ELSE refused
    /\ pc' = [pc EXCEPT ![t] = "running"]
    /\ UNCHANGED <<terminated, sem_terminated, mutex_monitor, main>>

\* The routine of the thread is over: execute_thread, or thread_unsubscribe,
\* takes the mutex and thread_remove counts the thread out, subscribed or not.
RemoveCount(t) ==
    /\ pc[t] = "running" /\ mutex_monitor = NoThread
    /\ mutex_monitor' = t
    /\ active_thread_count' = active_thread_count - 1
    /\ pc' = [pc EXCEPT ![t] = "removing"]
    /\ UNCHANGED <<refused, terminated, threads, sem_terminated, main>>

\* Slip: thread_remove does not look at terminated, and an idle monitor posts.
LastOneAnyTime == active_thread_count <= 0

\* Slip: the comparison is strict, and the last thread posts nothing.
LastOneNegative == terminated /\ active_thread_count < 0

LastOne == terminated /\ active_thread_count <= 0

\* thread_remove takes it off the list and wakes terminate_and_wait if it was
\* the last one.
RemovePost(t) ==
    /\ pc[t] = "removing"
    /\ threads' = threads \ {t}
    /\ sem_terminated' = IF LastOne THEN sem_terminated + 1 ELSE sem_terminated
    /\ pc' = [pc EXCEPT ![t] = "unlocking"]
    /\ UNCHANGED <<active_thread_count, refused, terminated, mutex_monitor, main>>

Unlock(t) ==
    /\ pc[t] = "unlocking"
    /\ mutex_monitor' = NoThread
    /\ pc' = [pc EXCEPT ![t] = "gone"]
    /\ UNCHANGED <<active_thread_count, refused, terminated, threads, sem_terminated, main>>

\* terminate_and_wait.
Terminate ==
    /\ main = "running" /\ mutex_monitor = NoThread
    /\ terminated' = TRUE
    /\ main' = "terminated"
    /\ UNCHANGED <<active_thread_count, refused, threads, sem_terminated, mutex_monitor, pc>>

\* ... reads the count without the mutex ...
CheckCount ==
    /\ main = "terminated"
    /\ main' = IF active_thread_count > 0 THEN "waiting" ELSE "waited"
    /\ UNCHANGED <<monitor, refused, pc>>

\* ... and sleeps on the semaphore.
Wait ==
    /\ main = "waiting" /\ sem_terminated > 0
    /\ sem_terminated' = sem_terminated - 1
    /\ main' = "waited"
    /\ UNCHANGED <<active_thread_count, refused, terminated, threads, mutex_monitor, pc>>

thread_monitor_destroy ==
    /\ main = "waited"
    /\ main' = "destroyed"
    /\ UNCHANGED <<monitor, refused, pc>>

Leave(t) == RemoveCount(t) \/ RemovePost(t) \/ Unlock(t)
Started(t) == thread_subscribe(t) \/ Leave(t)
Main == CheckCount \/ Wait \/ thread_monitor_destroy

Next ==
    \/ \E t \in Threads : thread_new(t) \/ Create(t) \/ Started(t)
    \/ Terminate
    \/ Main

\* A thread that exists goes on and its routine ends: the routines of
\* the repository return when their connection is closed.  Nobody has to make a
\* thread or to terminate the monitor.  The mutex is taken again and again by
\* different threads, a finite number of times, so weak fairness is enough.
Fairness == WF_vars(Main) /\ \A t \in Threads : WF_vars(Started(t))

Spec == Init /\ [][Next]_vars /\ Fairness

-----------------------------------------------------------------------------
\* Type correctness: the count of threads is an integer, which thread_unsubscribe of
\* a refused thread may take below zero, and no thread is both listed and refused.
TypeOK ==
    /\ active_thread_count \in Int
    /\ terminated \in BOOLEAN
    /\ threads \subseteq Threads
    /\ refused \subseteq Threads
    /\ threads \cap refused = {}
    /\ sem_terminated \in Nat
    /\ pc \in [Threads -> {"none", "created", "running", "removing", "unlocking", "gone"}]
    /\ main \in {"running", "terminated", "waiting", "waited", "destroyed"}

\* No thread that subscribe refused has counted itself out yet.
CountIsRight == \A t \in refused : pc[t] = "running"

\* When terminate_and_wait returns, no thread that the monitor counted is still
\* in its routine (thread_monitor.h:23, "se desbloquea cuando todos los hilos
\* han completado su ejecucion"), up to the first refused thread that ends: it
\* unsubscribes all the same, and takes the place of one that was counted.
WaitsForCounted ==
    main \in {"waited", "destroyed"} /\ CountIsRight
        => \A t \in threads : pc[t] # "running"

\* terminate_and_wait returns, also when threads subscribe, or are refused,
\* while it looks at the count and goes to sleep.
TerminateReturns == terminated ~> main \in {"waited", "destroyed"}

=============================================================================
