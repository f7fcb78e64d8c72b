------------------------- MODULE PlannerOwnerProofs -------------------------
(***************************************************************************)
(* Who owns a process. The places of the planner that can have a process   *)
(* are counted in two groups: those where it works its way through its     *)
(* life (Working) and those where it ends (Exiting). Every step of the     *)
(* planner takes a process from one place and puts it in another; the      *)
(* proofs follow the two counts.                                           *)
(***************************************************************************)
EXTENDS PlannerProofs

(***************************************************************************)
(* Occurrences of a process in a queue.                                    *)
(***************************************************************************)
\* The positions of p in a queue are a finite set.
LEMMA OccurrencesTyped ==
    ASSUME NEW P, NEW q \in Seq(P), NEW p
    PROVE  /\ IsFiniteSet({i \in 1 .. Len(q) : q[i] = p})
           /\ Occurrences(p, q) \in Nat
<1>1. IsFiniteSet(1 .. Len(q))
  BY FS_Interval
<1>2. {i \in 1 .. Len(q) : q[i] = p} \subseteq 1 .. Len(q)
  OBVIOUS
<1>3. IsFiniteSet({i \in 1 .. Len(q) : q[i] = p})
  BY <1>1, <1>2, FS_Subset
<1> QED BY <1>3, FS_CardinalityType DEF Occurrences

\* A process that is somewhere in a queue occurs in it.
LEMMA OccursAt ==
    ASSUME NEW P, NEW q \in Seq(P), NEW i \in 1 .. Len(q)
    PROVE  Occurrences(q[i], q) > 0
<1> DEFINE S == {j \in 1 .. Len(q) : q[j] = q[i]}
<1>1. IsFiniteSet(S) /\ Cardinality(S) \in Nat /\ S # {}
  <2>1. IsFiniteSet(S) /\ Occurrences(q[i], q) \in Nat
    BY OccurrencesTyped
  <2> QED BY <2>1 DEF Occurrences
<1>2. Cardinality(S) # 0
  BY <1>1, FS_EmptySet
<1> QED BY <1>1, <1>2 DEF Occurrences

\* An empty queue has no process.
LEMMA NoOccurrences ==
    ASSUME NEW p PROVE Occurrences(p, <<>>) = 0
<1>1. {i \in 1 .. Len(<<>>) : <<>>[i] = p} = {}
  OBVIOUS
<1> QED BY <1>1, FS_EmptySet DEF Occurrences

\* squeue_push adds one occurrence of what it pushes.
LEMMA AppendOccurrences ==
    ASSUME NEW P, NEW q \in Seq(P), NEW e \in P, NEW p
    PROVE  Occurrences(p, Append(q, e)) = Occurrences(p, q) + Num(e = p)
<1> DEFINE S == {i \in 1 .. Len(q) : q[i] = p}
           T == {i \in 1 .. Len(Append(q, e)) : Append(q, e)[i] = p}
           n == Len(q) + 1
<1>1. IsFiniteSet(S) /\ Cardinality(S) \in Nat
  BY OccurrencesTyped, FS_CardinalityType
<1>2. Occurrences(p, q) = Cardinality(S) /\ Occurrences(p, Append(q, e)) = Cardinality(T)
  BY DEF Occurrences
<1>3. CASE e = p
  <2>1. T = S \cup {n} /\ n \notin S
    BY <1>3
  <2> HIDE DEF S, T, n
  <2>2. Cardinality(T) = Cardinality(S) + 1
    BY <1>1, <2>1, FS_AddElement
  <2> QED BY <1>2, <1>3, <2>2 DEF Num
<1>4. CASE e # p
  <2>1. T = S
    BY <1>4
  <2> HIDE DEF S, T
  <2> QED BY <1>1, <1>2, <1>4, <2>1 DEF Num
<1> QED BY <1>3, <1>4

\* Moving positions one to one does not change how many they are.
LEMMA ShiftedPositions ==
    ASSUME NEW S, NEW T, IsFiniteSet(S), NEW f \in [S -> T],
           \A i, j \in S : f[i] = f[j] => i = j,
           \A k \in T : \E i \in S : f[i] = k
    PROVE  Cardinality(S) = Cardinality(T)
<1>1. f \in Bijection(S, T)
  BY DEF Bijection, Injection, Surjection, IsInjective
<1>2. ExistsBijection(S, T)
  BY <1>1 DEF ExistsBijection
<1> QED BY <1>2, FS_Bijection

\* squeue_pop takes one occurrence of the first.
LEMMA TailOccurrences ==
    ASSUME NEW P, NEW q \in Seq(P), q # <<>>, NEW p
    PROVE  Occurrences(p, q) = Occurrences(p, Tail(q)) + Num(Head(q) = p)
<1> DEFINE S == {i \in 1 .. Len(q) : q[i] = p}
           T == {i \in 1 .. Len(Tail(q)) : Tail(q)[i] = p}
<1>0. Len(q) \in Nat \ {0} /\ Tail(q) \in Seq(P) /\ Len(Tail(q)) = Len(q) - 1
  OBVIOUS
<1>a. \A i \in 1 .. Len(q) - 1 : Tail(q)[i] = q[i + 1]
  OBVIOUS
<1>b. Head(q) = q[1]
  OBVIOUS
<1>1. /\ IsFiniteSet(S) /\ Cardinality(S) \in Nat
      /\ IsFiniteSet(T) /\ Cardinality(T) \in Nat
  BY <1>0, OccurrencesTyped, FS_CardinalityType
<1>2. Cardinality(T) = Cardinality(S \ {1})
  <2> DEFINE f == [i \in T |-> i + 1]
  <2>1. f \in [T -> S \ {1}]
    BY <1>0, <1>a
  <2>2. \A i, j \in T : f[i] = f[j] => i = j
    OBVIOUS
  <2>3. \A k \in S \ {1} : \E i \in T : f[i] = k
    <3> SUFFICES ASSUME NEW k \in S \ {1} PROVE k - 1 \in T /\ f[k - 1] = k
      OBVIOUS
    <3> QED BY <1>0, <1>a
  <2> HIDE DEF f, S, T
  <2> QED BY <1>1, <2>1, <2>2, <2>3, ShiftedPositions
<1>3. Occurrences(p, q) = Cardinality(S) /\ Occurrences(p, Tail(q)) = Cardinality(T)
  BY DEF Occurrences
<1>4. CASE Head(q) = p
  <2>1. 1 \in S
    BY <1>0, <1>b, <1>4
  <2> HIDE DEF S, T
  <2>2. Cardinality(S \ {1}) = Cardinality(S) - 1
    BY <1>1, <2>1, FS_RemoveElement
  <2> QED BY <1>1, <1>2, <1>3, <1>4, <2>2 DEF Num
<1>5. CASE Head(q) # p
  <2>1. S \ {1} = S
    BY <1>b, <1>5
  <2>2. Cardinality(S) = Cardinality(T)
    BY <1>2, <2>1
  <2> HIDE DEF S, T
  <2> QED BY <1>1, <1>3, <1>5, <2>2 DEF Num
<1> QED BY <1>4, <1>5

\* squeue_insert_in_order adds one occurrence, wherever it puts it.
LEMMA InsertedOccurrences ==
    ASSUME NEW P, NEW q \in Seq(P), NEW e \in P, NEW k \in 1 .. Len(q) + 1, NEW p
    PROVE  Occurrences(p, Inserted(q, e, k)) = Occurrences(p, q) + Num(e = p)
<1> DEFINE new == Inserted(q, e, k)
           S == {i \in 1 .. Len(q) : q[i] = p}
           T == {i \in 1 .. Len(new) : new[i] = p}
<1>0. /\ Len(new) = Len(q) + 1 /\ Len(q) \in Nat /\ new \in Seq(P)
      /\ \A i \in 1 .. Len(q) + 1 :
            new[i] = IF i < k THEN q[i] ELSE IF i = k THEN e ELSE q[i - 1]
  BY InsertedTyped DEF Inserted
<1> HIDE DEF new
<1>1. /\ IsFiniteSet(S) /\ Cardinality(S) \in Nat
      /\ IsFiniteSet(T) /\ Cardinality(T) \in Nat
  <2>1. IsFiniteSet(S) /\ IsFiniteSet(T)
    BY <1>0, OccurrencesTyped
  <2> QED BY <2>1, FS_CardinalityType
<1>2. Cardinality(S) = Cardinality(T \ {k})
  <2> DEFINE f == [i \in S |-> IF i < k THEN i ELSE i + 1]
  <2>1. f \in [S -> T \ {k}]
    BY <1>0
  <2>2. \A i, j \in S : f[i] = f[j] => i = j
    OBVIOUS
  <2>3. \A m \in T \ {k} : \E i \in S : f[i] = m
    <3> SUFFICES ASSUME NEW m \in T \ {k} PROVE \E i \in S : f[i] = m
      OBVIOUS
    <3>1. CASE m < k
      <4>1. m \in S /\ f[m] = m
        BY <1>0, <3>1
      <4> QED BY <4>1
    <3>2. CASE m > k
      <4>1. m - 1 \in S /\ f[m - 1] = m
        BY <1>0, <3>2
      <4> QED BY <4>1
    <3> QED BY <3>1, <3>2
  <2> HIDE DEF f, S, T
  <2> QED BY <1>1, <2>1, <2>2, <2>3, ShiftedPositions
<1>3. /\ Occurrences(p, q) = Cardinality(S)
      /\ Occurrences(p, Inserted(q, e, k)) = Cardinality(T)
  BY DEF Occurrences, new
<1>4. CASE e = p
  <2>1. k \in T
    BY <1>0, <1>4
  <2> HIDE DEF S, T
  <2>2. Cardinality(T \ {k}) = Cardinality(T) - 1
    BY <1>1, <2>1, FS_RemoveElement
  <2> QED BY <1>1, <1>2, <1>3, <1>4, <2>2 DEF Num
<1>5. CASE e # p
  <2>1. T \ {k} = T
    BY <1>0, <1>5
  <2>2. Cardinality(S) = Cardinality(T)
    BY <1>2, <2>1
  <2> HIDE DEF S, T
  <2> QED BY <1>1, <1>3, <1>5, <2>2 DEF Num
<1> QED BY <1>4, <1>5

(***************************************************************************)
(* The two groups of places.                                               *)
(***************************************************************************)
Holds(t, p) == Num(thread[t].pcb = p /\ HasInHand(t))

Queued(p) == Occurrences(p, queue["new"]) + Occurrences(p, queue["ready"])
             + Occurrences(p, queue["blocked"])
             + Occurrences(p, queue["suspended_ready"])

InHands(p) == Holds("ltp_new", p) + Holds("mtp_blocked", p) + Holds("dispatch", p)
              + Holds("timer", p)

Working(p) == Queued(p) + Num(exec = p) + Num(p \in io_timer) + InHands(p)

Exiting(p) == Occurrences(p, queue["exit"]) + Holds("ltp_exit", p)

\* The elements of a set are counted one thread at a time.
LEMMA CountOne ==
    ASSUME NEW A, IsFiniteSet(A), NEW t, t \notin A, NEW S
    PROVE  /\ IsFiniteSet(A \cup {t})
           /\ Cardinality(S \cap (A \cup {t})) = Cardinality(S \cap A) + Num(t \in S)
<1>1. IsFiniteSet(A \cup {t}) /\ IsFiniteSet(S \cap A)
  BY FS_AddElement, FS_Intersection
<1>2. Cardinality(S \cap A) \in Nat
  BY <1>1, FS_CardinalityType
<1>3. CASE t \in S
  <2>1. S \cap (A \cup {t}) = (S \cap A) \cup {t} /\ t \notin S \cap A
    BY <1>3
  <2>2. Cardinality(S \cap (A \cup {t})) = Cardinality(S \cap A) + 1
    BY <1>1, <2>1, FS_AddElement
  <2> QED BY <1>1, <1>3, <2>2 DEF Num
<1>4. CASE t \notin S
  <2>1. S \cap (A \cup {t}) = S \cap A
    BY <1>4
  <2>2. Cardinality(S \cap (A \cup {t})) = Cardinality(S \cap A)
    BY <2>1
  <2> QED BY <1>1, <1>2, <1>4, <2>2 DEF Num
<1> QED BY <1>3, <1>4

\* A set of threads has as many elements as threads are in it.
LEMMA ThreadsCounted ==
    ASSUME NEW S \in SUBSET Threads
    PROVE  Cardinality(S) = Num("stp" \in S) + Num("ltp_exit" \in S)
                            + Num("ltp_new" \in S) + Num("mtp_blocked" \in S)
                            + Num("dispatch" \in S) + Num("timer" \in S)
<1> DEFINE A0 == {}
           A1 == A0 \cup {"stp"}
           A2 == A1 \cup {"ltp_exit"}
           A3 == A2 \cup {"ltp_new"}
           A4 == A3 \cup {"mtp_blocked"}
           A5 == A4 \cup {"dispatch"}
           A6 == A5 \cup {"timer"}
<1>0. S \cap A6 = S /\ S \cap A0 = {}
  BY DEF Threads
<1>c. S \cap A6 = S
  BY <1>0
<1>a1. A1 = A0 \cup {"stp"} /\ "stp" \notin A0
  OBVIOUS
<1>a2. A2 = A1 \cup {"ltp_exit"} /\ "ltp_exit" \notin A1
  OBVIOUS
<1>a3. A3 = A2 \cup {"ltp_new"} /\ "ltp_new" \notin A2
  OBVIOUS
<1>a4. A4 = A3 \cup {"mtp_blocked"} /\ "mtp_blocked" \notin A3
  OBVIOUS
<1>a5. A5 = A4 \cup {"dispatch"} /\ "dispatch" \notin A4
  OBVIOUS
<1>a6. A6 = A5 \cup {"timer"} /\ "timer" \notin A5
  OBVIOUS
<1>b. IsFiniteSet(A0) /\ Cardinality(S \cap A0) = 0
  BY <1>0, FS_EmptySet
<1> HIDE DEF A0, A1, A2, A3, A4, A5, A6
<1>1. /\ IsFiniteSet(A1)
      /\ Cardinality(S \cap A1) = Cardinality(S \cap A0) + Num("stp" \in S)
  <2>1. IsFiniteSet(A0) /\ "stp" \notin A0
    BY <1>a1, <1>b
  <2>2. /\ IsFiniteSet(A0 \cup {"stp"})
        /\ Cardinality(S \cap (A0 \cup {"stp"}))
              = Cardinality(S \cap A0) + Num("stp" \in S)
    BY <2>1, CountOne
  <2> QED BY <1>a1, <2>2
<1>2. /\ IsFiniteSet(A2)
      /\ Cardinality(S \cap A2) = Cardinality(S \cap A1) + Num("ltp_exit" \in S)
  <2>1. IsFiniteSet(A1) /\ "ltp_exit" \notin A1
    BY <1>a2, <1>1
  <2>2. /\ IsFiniteSet(A1 \cup {"ltp_exit"})
        /\ Cardinality(S \cap (A1 \cup {"ltp_exit"}))
              = Cardinality(S \cap A1) + Num("ltp_exit" \in S)
    BY <2>1, CountOne
  <2> QED BY <1>a2, <2>2
<1>3. /\ IsFiniteSet(A3)
      /\ Cardinality(S \cap A3) = Cardinality(S \cap A2) + Num("ltp_new" \in S)
  <2>1. IsFiniteSet(A2) /\ "ltp_new" \notin A2
    BY <1>a3, <1>2
  <2>2. /\ IsFiniteSet(A2 \cup {"ltp_new"})
        /\ Cardinality(S \cap (A2 \cup {"ltp_new"}))
              = Cardinality(S \cap A2) + Num("ltp_new" \in S)
    BY <2>1, CountOne
  <2> QED BY <1>a3, <2>2
<1>4. /\ IsFiniteSet(A4)
      /\ Cardinality(S \cap A4) = Cardinality(S \cap A3) + Num("mtp_blocked" \in S)
  <2>1. IsFiniteSet(A3) /\ "mtp_blocked" \notin A3
    BY <1>a4, <1>3
  <2>2. /\ IsFiniteSet(A3 \cup {"mtp_blocked"})
        /\ Cardinality(S \cap (A3 \cup {"mtp_blocked"}))
              = Cardinality(S \cap A3) + Num("mtp_blocked" \in S)
    BY <2>1, CountOne
  <2> QED BY <1>a4, <2>2
<1>5. /\ IsFiniteSet(A5)
      /\ Cardinality(S \cap A5) = Cardinality(S \cap A4) + Num("dispatch" \in S)
  <2>1. IsFiniteSet(A4) /\ "dispatch" \notin A4
    BY <1>a5, <1>4
  <2>2. /\ IsFiniteSet(A4 \cup {"dispatch"})
        /\ Cardinality(S \cap (A4 \cup {"dispatch"}))
              = Cardinality(S \cap A4) + Num("dispatch" \in S)
    BY <2>1, CountOne
  <2> QED BY <1>a5, <2>2
<1>6. /\ IsFiniteSet(A6)
      /\ Cardinality(S \cap A6) = Cardinality(S \cap A5) + Num("timer" \in S)
  <2>1. IsFiniteSet(A5) /\ "timer" \notin A5
    BY <1>a6, <1>5
  <2>2. /\ IsFiniteSet(A5 \cup {"timer"})
        /\ Cardinality(S \cap (A5 \cup {"timer"}))
              = Cardinality(S \cap A5) + Num("timer" \in S)
    BY <2>1, CountOne
  <2> QED BY <1>a6, <2>2
<1>7. Cardinality(S) = Cardinality(S \cap A6) /\ Cardinality(S \cap A0) = 0
  BY <1>c, <1>b
<1>8. Num("stp" \in S) \in Nat
  BY DEF Num
<1>9. Cardinality(S \cap A1) = Num("stp" \in S)
  BY <1>1, <1>7, <1>8
<1> QED BY <1>2, <1>3, <1>4, <1>5, <1>6, <1>7, <1>9

\* Every count is a number.
LEMMA CountsTyped ==
    ASSUME TypeOK, NEW p
    PROVE  /\ \A q \in Queues : Occurrences(p, queue[q]) \in Nat
           /\ \A t : Holds(t, p) \in {0, 1}
           /\ Num(exec = p) \in {0, 1} /\ Num(p \in io_timer) \in {0, 1}
           /\ Queued(p) \in Nat /\ InHands(p) \in Nat
           /\ Working(p) \in Nat /\ Exiting(p) \in Nat
<1>1. \A q \in Queues : Occurrences(p, queue[q]) \in Nat
  <2> TAKE q \in Queues
  <2>1. queue[q] \in Seq(Pcbs)
    BY TypeFacts
  <2> QED BY <2>1, OccurrencesTyped
<1>2. \A t : Holds(t, p) \in {0, 1}
  BY DEF Holds, Num
<1>3. Num(exec = p) \in {0, 1} /\ Num(p \in io_timer) \in {0, 1}
  BY DEF Num
<1>4. /\ Occurrences(p, queue["new"]) \in Nat /\ Occurrences(p, queue["ready"]) \in Nat
      /\ Occurrences(p, queue["blocked"]) \in Nat
      /\ Occurrences(p, queue["suspended_ready"]) \in Nat
      /\ Occurrences(p, queue["exit"]) \in Nat
  BY <1>1, Names
<1>5. /\ Holds("ltp_new", p) \in Nat /\ Holds("mtp_blocked", p) \in Nat
      /\ Holds("dispatch", p) \in Nat /\ Holds("timer", p) \in Nat
      /\ Holds("ltp_exit", p) \in Nat
  BY DEF Holds, Num
<1>6. Queued(p) \in Nat
  BY <1>4 DEF Queued
<1>7. InHands(p) \in Nat
  BY <1>5 DEF InHands
<1>8. Working(p) \in Nat
  BY <1>3, <1>6, <1>7 DEF Working
<1>9. Exiting(p) \in Nat
  BY <1>4, <1>5 DEF Exiting
<1> QED BY <1>1, <1>2, <1>3, <1>6, <1>7, <1>8, <1>9

\* The owners of a process are those of the two groups.
LEMMA OwnersSplit ==
    ASSUME TypeOK, NEW p
    PROVE  Owners(p) = Working(p) + Exiting(p)
<1> DEFINE S == {t \in Threads : thread[t].pcb = p /\ HasInHand(t)}
<1>1. Cardinality(S) = Num("stp" \in S) + Num("ltp_exit" \in S)
                       + Num("ltp_new" \in S) + Num("mtp_blocked" \in S)
                       + Num("dispatch" \in S) + Num("timer" \in S)
  BY ThreadsCounted
<1>2. ~ HasInHand("stp")
  BY Names DEF TypeOK, ThreadsTyped, PcsOf, HasInHand, AnyAt
<1>3. Num("stp" \in S) = 0
  BY <1>2 DEF Num
<1>4. /\ Num("ltp_exit" \in S) = Holds("ltp_exit", p)
      /\ Num("ltp_new" \in S) = Holds("ltp_new", p)
      /\ Num("mtp_blocked" \in S) = Holds("mtp_blocked", p)
      /\ Num("dispatch" \in S) = Holds("dispatch", p)
      /\ Num("timer" \in S) = Holds("timer", p)
  BY Names DEF Holds, Num
<1>5. Cardinality(S) = InHands(p) + Holds("ltp_exit", p)
  <2> HIDE DEF S
  <2> QED BY <1>1, <1>3, <1>4, CountsTyped DEF InHands
<1>6. Owners(p) = Occurrences(p, queue["new"]) + Occurrences(p, queue["ready"])
    + Occurrences(p, queue["blocked"]) + Occurrences(p, queue["suspended_ready"])
    + Occurrences(p, queue["exit"]) + Num(exec = p) + Num(p \in io_timer)
    + Cardinality(S)
  BY DEF Owners
<1> HIDE DEF S
<1> QED BY <1>5, <1>6, CountsTyped, Names DEF Working, Exiting, Queued

\* squeue_push gives the queue one occurrence of what it pushes.
LEMMA PushOccurs ==
    ASSUME TypeOK, NEW q \in Queues, NEW e \in Pcbs, Push(q, e), NEW p
    PROVE  /\ Occurrences(p, queue'[q]) = Occurrences(p, queue[q]) + Num(e = p)
           /\ Occurrences(p, queue'[q]) \in Nat
           /\ \A r \in Queues \ {q} : queue'[r] = queue[r]
<1>1. queue[q] \in Seq(Pcbs) /\ queue'[q] = Append(queue[q], e)
  BY TypeFacts DEF Push
<1>2. \A r \in Queues \ {q} : queue'[r] = queue[r]
  BY TypeFacts DEF Push
<1>3. queue'[q] \in Seq(Pcbs)
  BY <1>1
<1>4. Occurrences(p, queue'[q]) = Occurrences(p, queue[q]) + Num(e = p)
  BY <1>1, AppendOccurrences
<1>5. Occurrences(p, queue'[q]) \in Nat
  BY <1>3, OccurrencesTyped
<1> QED BY <1>2, <1>4, <1>5

\* squeue_pop takes one occurrence of what it pops.
LEMMA PopOccurs ==
    ASSUME TypeOK, NEW q \in Queues, queue[q] # <<>>,
           queue' = [queue EXCEPT ![q] = Tail(@)], NEW p
    PROVE  /\ Head(queue[q]) \in Pcbs
           /\ Occurrences(p, queue[q])
                 = Occurrences(p, queue'[q]) + Num(Head(queue[q]) = p)
           /\ Occurrences(p, queue'[q]) \in Nat
           /\ \A r \in Queues \ {q} : queue'[r] = queue[r]
<1>1. queue[q] \in Seq(Pcbs) /\ queue'[q] = Tail(queue[q])
  BY TypeFacts
<1>2. \A r \in Queues \ {q} : queue'[r] = queue[r]
  BY TypeFacts
<1>3. Head(queue[q]) \in Pcbs /\ queue'[q] \in Seq(Pcbs)
  BY <1>1
<1>4. Occurrences(p, queue[q]) = Occurrences(p, queue'[q]) + Num(Head(queue[q]) = p)
  BY <1>1, TailOccurrences
<1>5. Occurrences(p, queue'[q]) \in Nat
  BY <1>3, OccurrencesTyped
<1> QED BY <1>2, <1>3, <1>4, <1>5

\* squeue_insert_in_order gives the READY queue one occurrence of what it inserts.
LEMMA InsertOccurs ==
    ASSUME TypeOK, NEW e \in Pcbs,
           queue' = [queue EXCEPT !["ready"] = InsertReady(@, e, pcb)], NEW p
    PROVE  /\ Occurrences(p, queue'["ready"]) = Occurrences(p, queue["ready"]) + Num(e = p)
           /\ Occurrences(p, queue'["ready"]) \in Nat
           /\ \A r \in Queues \ {"ready"} : queue'[r] = queue[r]
<1>1. queue["ready"] \in Seq(Pcbs) /\ queue'["ready"] = InsertReady(queue["ready"], e, pcb)
  BY TypeFacts, Names
<1>2. \A r \in Queues \ {"ready"} : queue'[r] = queue[r]
  BY TypeFacts
<1>3. \A r \in Pcbs : pcb[r].burst \in Nat
  BY DEF TypeOK, PcbFields
<1>4. PICK k \in 1 .. Len(queue["ready"]) + 1 :
         InsertReady(queue["ready"], e, pcb) = Inserted(queue["ready"], e, k)
  BY <1>1, <1>3, InsertInOrder
<1>5. Occurrences(p, Inserted(queue["ready"], e, k))
         = Occurrences(p, queue["ready"]) + Num(e = p)
  BY <1>1, InsertedOccurrences
<1>6. Inserted(queue["ready"], e, k) \in Seq(Pcbs)
  BY <1>1, InsertedTyped
<1>7. Occurrences(p, queue'["ready"]) \in Nat
  BY <1>1, <1>4, <1>6, OccurrencesTyped
<1> QED BY <1>1, <1>2, <1>4, <1>5, <1>7

\* What changes in one of the queues of working processes changes in their count.
LEMMA QueuedChange ==
    ASSUME TypeOK, NEW q \in Queues \ {"exit"}, NEW p,
           Occurrences(p, queue'[q]) \in Nat,
           \A r \in Queues \ {q} : queue'[r] = queue[r]
    PROVE  /\ Queued(p)' + Occurrences(p, queue[q])
                 = Queued(p) + Occurrences(p, queue'[q])
           /\ Queued(p)' \in Nat
           /\ Occurrences(p, queue'["exit"]) = Occurrences(p, queue["exit"])
<1> DEFINE n == Occurrences(p, queue["new"])
           r == Occurrences(p, queue["ready"])
           b == Occurrences(p, queue["blocked"])
           s == Occurrences(p, queue["suspended_ready"])
           was == Occurrences(p, queue[q])
           is == Occurrences(p, queue'[q])
<1>1. n \in Nat /\ r \in Nat /\ b \in Nat /\ s \in Nat /\ is \in Nat
  BY CountsTyped, Names
<1>2. Queued(p) = n + r + b + s
  BY DEF Queued
<1>3. Queued(p)' = n' + r' + b' + s'
  BY DEF Queued
<1>4. Occurrences(p, queue'["exit"]) = Occurrences(p, queue["exit"])
  BY Names
<1>5. \/ q = "new" /\ was = n /\ n' = is /\ r' = r /\ b' = b /\ s' = s
      \/ q = "ready" /\ was = r /\ n' = n /\ r' = is /\ b' = b /\ s' = s
      \/ q = "blocked" /\ was = b /\ n' = n /\ r' = r /\ b' = is /\ s' = s
      \/ q = "suspended_ready" /\ was = s /\ n' = n /\ r' = r /\ b' = b /\ s' = is
  <2>1. CASE q = "new"
    BY <2>1, Names
  <2>2. CASE q = "ready"
    BY <2>2, Names
  <2>3. CASE q = "blocked"
    BY <2>3, Names
  <2>4. CASE q = "suspended_ready"
    BY <2>4, Names
  <2> QED BY <2>1, <2>2, <2>3, <2>4 DEF Queues
<1> HIDE DEF n, r, b, s, was, is
<1>6. Queued(p)' + was = Queued(p) + is /\ Queued(p)' \in Nat
  BY <1>1, <1>2, <1>3, <1>5
<1> QED BY <1>4, <1>6 DEF was, is

\* What changes in the hand of one of the threads of working processes changes in
\* their count.
LEMMA InHandsChange ==
    ASSUME NEW t \in {"ltp_new", "mtp_blocked", "dispatch", "timer"}, NEW p,
           \A r \in Threads \ {t} : thread'[r] = thread[r]
    PROVE  /\ InHands(p)' + Holds(t, p) = InHands(p) + Holds(t, p)'
           /\ InHands(p)' \in Nat
           /\ Holds("ltp_exit", p)' = Holds("ltp_exit", p)
<1> DEFINE n == Holds("ltp_new", p)
           b == Holds("mtp_blocked", p)
           d == Holds("dispatch", p)
           c == Holds("timer", p)
           was == Holds(t, p)
           is == Holds(t, p)'
<1>1. n \in Nat /\ b \in Nat /\ d \in Nat /\ c \in Nat /\ is \in Nat
  BY DEF Holds, Num
<1>2. InHands(p) = n + b + d + c
  BY DEF InHands
<1>3. InHands(p)' = n' + b' + d' + c'
  BY DEF InHands
<1>4. \A r \in Threads \ {t} : Holds(r, p)' = Holds(r, p)
  BY DEF Holds, HasInHand, AnyAt, At
<1>5. Holds("ltp_exit", p)' = Holds("ltp_exit", p)
  BY <1>4, Names
<1>6. \/ was = n /\ n' = is /\ b' = b /\ d' = d /\ c' = c
      \/ was = b /\ n' = n /\ b' = is /\ d' = d /\ c' = c
      \/ was = d /\ n' = n /\ b' = b /\ d' = is /\ c' = c
      \/ was = c /\ n' = n /\ b' = b /\ d' = d /\ c' = is
  <2> HIDE DEF Holds
  <2>1. CASE t = "ltp_new"
    BY <1>4, <2>1, Names
  <2>2. CASE t = "mtp_blocked"
    BY <1>4, <2>2, Names
  <2>3. CASE t = "dispatch"
    BY <1>4, <2>3, Names
  <2>4. CASE t = "timer"
    BY <1>4, <2>4, Names
  <2> QED BY <2>1, <2>2, <2>3, <2>4
<1> HIDE DEF n, b, d, c, was, is
<1>7. InHands(p)' + was = InHands(p) + is /\ InHands(p)' \in Nat
  BY <1>1, <1>2, <1>3, <1>6
<1> QED BY <1>5, <1>7 DEF was, is

(***************************************************************************)
(* What a step does to the two counts of a process.                        *)
(***************************************************************************)
Same(p) == Working(p)' = Working(p) /\ Exiting(p)' = Exiting(p)

\* The counts, before and after a step, by parts.
LEMMA Sums ==
    ASSUME TypeOK, NEW p
    PROVE  /\ Working(p) = Queued(p) + Num(exec = p) + Num(p \in io_timer) + InHands(p)
           /\ Working(p)' = Queued(p)' + Num(exec' = p) + Num(p \in io_timer')
                            + InHands(p)'
           /\ Exiting(p) = Occurrences(p, queue["exit"]) + Holds("ltp_exit", p)
           /\ Exiting(p)' = Occurrences(p, queue'["exit"]) + Holds("ltp_exit", p)'
           /\ Queued(p) \in Nat /\ InHands(p) \in Nat
           /\ Occurrences(p, queue["exit"]) \in Nat
           /\ Holds("ltp_exit", p) \in Nat /\ Holds("ltp_exit", p)' \in Nat
           /\ Num(exec = p) \in Nat /\ Num(p \in io_timer) \in Nat
           /\ Num(exec' = p) \in Nat /\ Num(p \in io_timer') \in Nat
<1>1. /\ Queued(p) \in Nat /\ InHands(p) \in Nat
      /\ Occurrences(p, queue["exit"]) \in Nat
  BY CountsTyped, Names
<1>2. /\ Holds("ltp_exit", p) \in Nat /\ Holds("ltp_exit", p)' \in Nat
      /\ Num(exec = p) \in Nat /\ Num(p \in io_timer) \in Nat
      /\ Num(exec' = p) \in Nat /\ Num(p \in io_timer') \in Nat
  BY DEF Holds, Num
<1> QED BY <1>1, <1>2 DEF Working, Exiting

\* A step that leaves the places alone, and what the threads have in hand.
LEMMA SamePlaces ==
    ASSUME NEW p, queue' = queue, exec' = exec, io_timer' = io_timer, NEW t \in Threads,
           \A r \in Threads \ {t} : thread'[r] = thread[r],
           Holds(t, p)' = Holds(t, p)
    PROVE  Same(p)
<1>0. \A r \in Threads : Holds(r, p)' = Holds(r, p)
  <2>1. \A r \in Threads \ {t} : Holds(r, p)' = Holds(r, p)
    BY DEF Holds, HasInHand, AnyAt, At
  <2> QED BY <2>1
<1>1. Queued(p)' = Queued(p)
  BY DEF Queued
<1>2. InHands(p)' = InHands(p) /\ Holds("ltp_exit", p)' = Holds("ltp_exit", p)
  BY <1>0, Names DEF InHands
<1>3. Working(p)' = Working(p)
  BY <1>1, <1>2 DEF Working
<1> QED BY <1>2, <1>3 DEF Same, Exiting

\* A thread takes a process out of a queue ...
LEMMA QueueToHand ==
    ASSUME TypeOK, NEW q \in Queues \ {"exit"}, NEW p,
           NEW t \in {"ltp_new", "mtp_blocked", "dispatch", "timer"},
           queue[q] # <<>>, queue' = [queue EXCEPT ![q] = Tail(@)],
           exec' = exec, io_timer' = io_timer,
           \A r \in Threads \ {t} : thread'[r] = thread[r],
           Holds(t, p) = 0, Holds(t, p)' = Num(Head(queue[q]) = p)
    PROVE  Same(p)
<1> DEFINE was == Occurrences(p, queue[q])
           is == Occurrences(p, queue'[q])
           moved == Num(Head(queue[q]) = p)
<1>1. was = is + moved /\ is \in Nat /\ \A r \in Queues \ {q} : queue'[r] = queue[r]
  BY PopOccurs
<1>2. /\ Queued(p)' + was = Queued(p) + is /\ Queued(p)' \in Nat
      /\ Occurrences(p, queue'["exit"]) = Occurrences(p, queue["exit"])
  BY <1>1, QueuedChange
<1>3. moved \in Nat
  BY DEF Num
<1>4. /\ InHands(p)' = InHands(p) + moved
      /\ Holds("ltp_exit", p)' = Holds("ltp_exit", p)
  <2>1. /\ InHands(p)' + Holds(t, p) = InHands(p) + Holds(t, p)' /\ InHands(p)' \in Nat
        /\ Holds("ltp_exit", p)' = Holds("ltp_exit", p)
    BY InHandsChange
  <2>2. InHands(p) \in Nat
    BY Sums
  <2>3. InHands(p)' + 0 = InHands(p) + moved
    BY <2>1
  <2> HIDE DEF moved
  <2> QED BY <1>3, <2>1, <2>2, <2>3
<1> HIDE DEF was, is, moved
<1>5. Queued(p)' + moved = Queued(p) /\ Queued(p) \in Nat /\ InHands(p) \in Nat
  <2>1. Queued(p) \in Nat /\ InHands(p) \in Nat
    BY Sums
  <2> QED BY <1>1, <1>2, <1>3, <2>1
<1>6. Num(exec' = p) = Num(exec = p) /\ Num(p \in io_timer') = Num(p \in io_timer)
  OBVIOUS
<1>7. Working(p)' = Working(p)
  BY <1>2, <1>3, <1>4, <1>5, <1>6, Sums, SMTT(30)
<1>8. Exiting(p)' = Exiting(p)
  BY <1>2, <1>4, Sums
<1> QED BY <1>7, <1>8 DEF Same

\* ... or another of the places does.
LEMMA QueueToPlace ==
    ASSUME TypeOK, NEW q \in Queues \ {"exit"}, NEW p,
           queue[q] # <<>>, queue' = [queue EXCEPT ![q] = Tail(@)],
           InHands(p)' = InHands(p), Holds("ltp_exit", p)' = Holds("ltp_exit", p),
           Num(exec' = p) + Num(p \in io_timer')
              = Num(exec = p) + Num(p \in io_timer) + Num(Head(queue[q]) = p)
    PROVE  Same(p)
<1> DEFINE was == Occurrences(p, queue[q])
           is == Occurrences(p, queue'[q])
           moved == Num(Head(queue[q]) = p)
           out == Num(exec = p) + Num(p \in io_timer)
<1>1. was = is + moved /\ is \in Nat /\ \A r \in Queues \ {q} : queue'[r] = queue[r]
  BY PopOccurs
<1>2. /\ Queued(p)' + was = Queued(p) + is /\ Queued(p)' \in Nat
      /\ Occurrences(p, queue'["exit"]) = Occurrences(p, queue["exit"])
  BY <1>1, QueuedChange
<1>3. moved \in Nat /\ out \in Nat /\ out' = out + moved
  BY DEF Num
<1>4. /\ Working(p) = Queued(p) + out + InHands(p)
      /\ Working(p)' = Queued(p)' + out' + InHands(p)'
      /\ Queued(p) \in Nat /\ InHands(p) \in Nat
  <2> DEFINE e == Num(exec = p)
             i == Num(p \in io_timer)
  <2>1. /\ Working(p) = Queued(p) + e + i + InHands(p)
        /\ Working(p)' = Queued(p)' + e' + i' + InHands(p)'
        /\ Queued(p) \in Nat /\ InHands(p) \in Nat
    BY Sums
  <2>2. out = e + i /\ out' = e' + i' /\ e \in Nat /\ i \in Nat /\ e' \in Nat /\ i' \in Nat
    BY DEF Num
  <2> HIDE DEF e, i, out
  <2> QED BY <1>2, <2>1, <2>2, SMTT(30)
<1> HIDE DEF was, is, moved, out
<1>5. Queued(p)' + moved = Queued(p)
  BY <1>1, <1>2, <1>3, <1>4, SMTT(30)
<1>6. Working(p)' = Working(p)
  BY <1>2, <1>3, <1>4, <1>5
<1> QED BY <1>2, <1>6 DEF Same, Exiting

\* ... and puts one in another.
LEMMA HandToQueue ==
    ASSUME TypeOK, NEW q \in Queues \ {"exit"}, NEW e, NEW p,
           NEW t \in {"ltp_new", "mtp_blocked", "dispatch", "timer"},
           Occurrences(p, queue'[q]) = Occurrences(p, queue[q]) + Num(e = p),
           Occurrences(p, queue'[q]) \in Nat,
           \A r \in Queues \ {q} : queue'[r] = queue[r],
           exec' = exec, io_timer' = io_timer,
           \A r \in Threads \ {t} : thread'[r] = thread[r],
           Holds(t, p) = Num(e = p), Holds(t, p)' = 0
    PROVE  Same(p)
<1> DEFINE was == Occurrences(p, queue[q])
           is == Occurrences(p, queue'[q])
           moved == Num(e = p)
<1>1. is = was + moved /\ is \in Nat /\ moved \in Nat
  BY DEF Num
<1>2. /\ Queued(p)' + was = Queued(p) + is /\ Queued(p)' \in Nat
      /\ Occurrences(p, queue'["exit"]) = Occurrences(p, queue["exit"])
  BY QueuedChange
<1>3. /\ InHands(p)' + moved = InHands(p) /\ InHands(p)' \in Nat
      /\ Holds("ltp_exit", p)' = Holds("ltp_exit", p)
  <2>1. /\ InHands(p)' + Holds(t, p) = InHands(p) + Holds(t, p)' /\ InHands(p)' \in Nat
        /\ Holds("ltp_exit", p)' = Holds("ltp_exit", p)
    BY InHandsChange
  <2>2. InHands(p) \in Nat
    BY Sums
  <2> QED BY <2>1, <2>2
<1>4. was \in Nat
  BY CountsTyped
<1> HIDE DEF was, is, moved
<1> QED BY <1>1, <1>2, <1>3, <1>4, Sums DEF Same

\* A thread takes the process out of the device, or the CPU.
LEMMA PlaceToHand ==
    ASSUME TypeOK, NEW p, queue' = queue, NEW moved \in Nat,
           NEW t \in {"ltp_new", "mtp_blocked", "dispatch", "timer"},
           \A r \in Threads \ {t} : thread'[r] = thread[r],
           Holds(t, p) = 0, Holds(t, p)' = moved,
           Num(exec' = p) + Num(p \in io_timer') + moved
              = Num(exec = p) + Num(p \in io_timer)
    PROVE  Same(p)
<1> DEFINE e == Num(exec = p)
           i == Num(p \in io_timer)
<1>1. /\ Working(p) = Queued(p) + e + i + InHands(p)
      /\ Working(p)' = Queued(p)' + e' + i' + InHands(p)'
      /\ Queued(p) \in Nat /\ InHands(p) \in Nat
      /\ e \in Nat /\ i \in Nat /\ e' \in Nat /\ i' \in Nat
  BY Sums
<1>2. /\ InHands(p)' + Holds(t, p) = InHands(p) + Holds(t, p)' /\ InHands(p)' \in Nat
      /\ Holds("ltp_exit", p)' = Holds("ltp_exit", p)
  BY InHandsChange
<1>3. InHands(p)' = InHands(p) + moved
  BY <1>1, <1>2
<1>4. Queued(p)' = Queued(p) /\ e' + i' + moved = e + i
  BY DEF Queued
<1> HIDE DEF e, i
<1>5. Working(p)' = Working(p)
  <2> DEFINE q == Queued(p)
             h == InHands(p)
  <2>1. /\ Working(p) = q + e + i + h /\ Working(p)' = q + e' + i' + (h + moved)
        /\ q \in Nat /\ h \in Nat
    BY <1>1, <1>3, <1>4
  <2>2. /\ e \in Nat /\ i \in Nat /\ e' \in Nat /\ i' \in Nat /\ moved \in Nat
        /\ e' + i' + moved = e + i
    BY <1>1, <1>4
  <2> HIDE DEF q, h
  <2>3. q + e' + i' + (h + moved) = q + (e' + i' + moved) + h
    BY <2>1, <2>2
  <2>4. q + (e + i) + h = q + e + i + h
    BY <2>1, <2>2
  <2> QED BY <2>1, <2>2, <2>3, <2>4
<1> QED BY <1>2, <1>5 DEF Same, Exiting

\* A thread moves the process in its hand to EXIT.
LEMMA HandToExit ==
    ASSUME TypeOK, NEW e \in Pcbs, NEW p,
           NEW t \in {"ltp_new", "mtp_blocked", "dispatch", "timer"},
           Push("exit", e), exec' = exec, io_timer' = io_timer,
           \A r \in Threads \ {t} : thread'[r] = thread[r],
           Holds(t, p) = Num(e = p), Holds(t, p)' = 0
    PROVE  /\ Working(p)' = Working(p) - Num(e = p)
           /\ Exiting(p)' = Exiting(p) + Num(e = p)
<1> DEFINE moved == Num(e = p)
<1>1. /\ Occurrences(p, queue'["exit"]) = Occurrences(p, queue["exit"]) + moved
      /\ \A r \in Queues \ {"exit"} : queue'[r] = queue[r]
      /\ moved \in Nat
  BY PushOccurs, Names, SMTT(30) DEF Num
<1>2. Queued(p)' = Queued(p)
  BY <1>1, Names DEF Queued
<1>3. /\ InHands(p)' + moved = InHands(p) /\ InHands(p)' \in Nat
      /\ Holds("ltp_exit", p)' = Holds("ltp_exit", p)
  <2>1. /\ InHands(p)' + Holds(t, p) = InHands(p) + Holds(t, p)' /\ InHands(p)' \in Nat
        /\ Holds("ltp_exit", p)' = Holds("ltp_exit", p)
    BY InHandsChange
  <2>2. InHands(p) \in Nat
    BY Sums
  <2> QED BY <2>1, <2>2
<1> HIDE DEF moved
<1>4. Working(p)' = Working(p) - moved /\ Exiting(p)' = Exiting(p) + moved
  BY <1>1, <1>2, <1>3, Sums
<1> QED BY <1>4 DEF moved

\* A process that was submitted and not destroyed.
Inside(p) == pcb[p].status \notin {"NONE", "DESTROYED"}

\* A process some thread works for, although it may not have it in hand.
Known(p) == \E t \in Threads : thread[t].pcb = p

\* The process stays in its group of places; its status is written, if it is, by a
\* thread that took it from one of them or still points to it.
Stays(p) ==
    /\ Same(p)
    /\ \/ pcb'[p].status = pcb[p].status
       \/ Inside(p)' /\ (Working(p) > 0 \/ (Alive(p) /\ Known(p)))

Enters(p) ==
    /\ pcb[p].status = "NONE" /\ Inside(p)'
    /\ Working(p)' = Working(p) + 1 /\ Exiting(p)' = Exiting(p)

Leaves(p) ==
    /\ Inside(p)' /\ Working(p) > 0
    /\ Working(p)' = Working(p) - 1 /\ Exiting(p)' = Exiting(p) + 1

Ends(p) ==
    /\ pcb'[p].status = "DESTROYED" /\ Exiting(p) > 0
    /\ Working(p)' = Working(p) /\ Exiting(p)' = Exiting(p) - 1

\* mtp_suspend_pcb sends a process it does not own to EXIT when the swap fails.
SwapLoses(p) ==
    /\ SwapMayFail /\ Inside(p)'
    /\ Working(p)' = Working(p) /\ Exiting(p)' = Exiting(p) + 1

Effect(p) == Stays(p) \/ Enters(p) \/ Leaves(p) \/ Ends(p) \/ SwapLoses(p)

\* A process in the hand of a thread counts.
LEMMA HoldsCounts ==
    ASSUME TypeOK, NEW p, NEW t \in {"ltp_new", "mtp_blocked", "dispatch", "timer"},
           Holds(t, p) = 1
    PROVE  Working(p) > 0
<1> DEFINE n == Holds("ltp_new", p)
           b == Holds("mtp_blocked", p)
           d == Holds("dispatch", p)
           c == Holds("timer", p)
<1>1. n \in Nat /\ b \in Nat /\ d \in Nat /\ c \in Nat
  BY DEF Holds, Num
<1>2. InHands(p) = n + b + d + c
  BY DEF InHands
<1>3. n = 1 \/ b = 1 \/ d = 1 \/ c = 1
  OBVIOUS
<1> HIDE DEF n, b, d, c
<1>4. InHands(p) > 0 /\ InHands(p) \in Nat
  BY <1>1, <1>2, <1>3
<1> QED BY <1>4, Sums

\* So does one in a queue.
LEMMA QueuedCounts ==
    ASSUME TypeOK, NEW q \in Queues \ {"exit"}, NEW i \in 1 .. Len(queue[q])
    PROVE  Working(queue[q][i]) > 0
<1> DEFINE p == queue[q][i]
           n == Occurrences(p, queue["new"])
           r == Occurrences(p, queue["ready"])
           b == Occurrences(p, queue["blocked"])
           s == Occurrences(p, queue["suspended_ready"])
<1>0. queue[q] \in Seq(Pcbs)
  BY TypeFacts
<1>1. Occurrences(p, queue[q]) > 0
  BY <1>0, OccursAt
<1>2. n \in Nat /\ r \in Nat /\ b \in Nat /\ s \in Nat
  BY CountsTyped, Names
<1>3. Queued(p) = n + r + b + s
  BY DEF Queued
<1>4. n > 0 \/ r > 0 \/ b > 0 \/ s > 0
  BY <1>1 DEF Queues
<1> HIDE DEF n, r, b, s
<1>5. Queued(p) > 0 /\ Queued(p) \in Nat
  BY <1>2, <1>3, <1>4
<1> HIDE DEF p
<1>6. Working(p) > 0
  BY <1>5, Sums
<1> QED BY <1>6 DEF p

\* Writing the status of one pcb.
LEMMA StatusWritten ==
    ASSUME TypeOK, NEW h \in Pcbs, NEW s, pcb' = [pcb EXCEPT ![h].status = s]
    PROVE  /\ pcb'[h].status = s
           /\ \A p \in Pcbs \ {h} : pcb'[p] = pcb[p]
BY DEF TypeOK, PcbFields

\* move_pcb_to_exit, as far as the places go.
LEMMA ExitWrites ==
    ASSUME TypeOK, NEW h \in Pcbs, NEW err, move_pcb_to_exit(h, err)
    PROVE  /\ Push("exit", h) /\ pcb'[h].status = "EXIT"
           /\ \A p \in Pcbs \ {h} : pcb'[p] = pcb[p]
<1> DEFINE bad == pcb[h].error \/ err
<1>1. pcb' = [pcb EXCEPT ![h].status = "EXIT", ![h].error = bad]
  BY DEF move_pcb_to_exit
<1> HIDE DEF bad
<1>2. pcb[h] \in PcbFields /\ pcb \in [Pcbs -> PcbFields]
  BY DEF TypeOK
<1>3. pcb' = [pcb EXCEPT ![h] = [pcb[h] EXCEPT !.status = "EXIT", !.error = bad]]
  BY <1>1, <1>2
<1>4. [pcb[h] EXCEPT !.status = "EXIT", !.error = bad].status = "EXIT"
  BY <1>2 DEF PcbFields
<1>5. pcb'[h].status = "EXIT" /\ \A p \in Pcbs \ {h} : pcb'[p] = pcb[p]
  BY <1>2, <1>3, <1>4
<1> QED BY <1>5 DEF move_pcb_to_exit

\* A thread that sends the process in its hand to EXIT.
LEMMA ExitFromHand ==
    ASSUME TypeOK, NEW p \in Pcbs,
           NEW t \in {"ltp_new", "mtp_blocked", "dispatch", "timer"},
           thread[t].pcb \in Pcbs, HasInHand(t),
           NEW err, move_pcb_to_exit(thread[t].pcb, err),
           exec' = exec, io_timer' = io_timer,
           \A r \in Threads \ {t} : thread'[r] = thread[r],
           ~ HasInHand(t)'
    PROVE  Effect(p)
<1> DEFINE e == thread[t].pcb
<1>1. Holds(t, p) = Num(e = p) /\ Holds(t, p)' = 0
  BY DEF Holds, Num
<1>2. Push("exit", e) /\ pcb'[e].status = "EXIT" /\ \A r \in Pcbs \ {e} : pcb'[r] = pcb[r]
  BY ExitWrites
<1>3. /\ Working(p)' = Working(p) - Num(e = p)
      /\ Exiting(p)' = Exiting(p) + Num(e = p)
  BY <1>1, <1>2, HandToExit
<1>4. Working(p) \in Nat /\ Exiting(p) \in Nat
  BY CountsTyped
<1>5. CASE e = p
  <2>1. Working(p)' = Working(p) - 1 /\ Exiting(p)' = Exiting(p) + 1
    BY <1>3, <1>5 DEF Num
  <2>2. Holds(t, p) = 1
    BY <1>1, <1>5 DEF Num
  <2>3. Working(p) > 0
    BY <2>2, HoldsCounts
  <2> QED BY <1>2, <1>5, <2>1, <2>3 DEF Effect, Leaves, Inside
<1>6. CASE e # p
  <2>1. Working(p)' = Working(p) /\ Exiting(p)' = Exiting(p)
    BY <1>3, <1>4, <1>6 DEF Num
  <2> QED BY <1>2, <1>6, <2>1 DEF Effect, Stays, Same
<1> QED BY <1>5, <1>6

\* Nothing happened to the process.
LEMMA StaysPut ==
    ASSUME NEW p \in Pcbs, Same(p), pcb'[p].status = pcb[p].status
    PROVE  Effect(p)
BY DEF Effect, Stays

\* A console submits a process.
LEMMA SubmitEffect ==
    ASSUME TypeOK, NEW h \in Pcbs, ltp_new_process(h), NEW p \in Pcbs
    PROVE  Effect(p)
<1>1. /\ Occurrences(p, queue'["new"]) = Occurrences(p, queue["new"]) + Num(h = p)
      /\ Occurrences(p, queue'["new"]) \in Nat
      /\ \A r \in Queues \ {"new"} : queue'[r] = queue[r]
  BY Names, PushOccurs DEF ltp_new_process, move_pcb_to_new
<1>2. /\ Queued(p)' + Occurrences(p, queue["new"])
            = Queued(p) + Occurrences(p, queue'["new"])
      /\ Queued(p)' \in Nat
      /\ Occurrences(p, queue'["exit"]) = Occurrences(p, queue["exit"])
  BY <1>1, Names, QueuedChange
<1>3. /\ InHands(p)' = InHands(p) /\ Holds("ltp_exit", p)' = Holds("ltp_exit", p)
      /\ exec' = exec /\ io_timer' = io_timer
  BY DEF ltp_new_process, InHands, Holds, HasInHand, AnyAt, At
<1>4. Occurrences(p, queue["new"]) \in Nat /\ Num(h = p) \in Nat
  BY Names, CountsTyped DEF Num
<1>5. Queued(p)' = Queued(p) + Num(h = p)
  <2>1. Queued(p) \in Nat
    BY Sums
  <2> QED BY <1>1, <1>2, <1>4, <2>1
<1>6. Working(p)' = Working(p) + Num(h = p) /\ Exiting(p)' = Exiting(p)
  BY <1>2, <1>3, <1>4, <1>5, Sums
<1>7. /\ pcb[h].status = "NONE" /\ pcb'[h].status = "NEW"
      /\ \A r \in Pcbs \ {h} : pcb'[r] = pcb[r]
  BY DEF ltp_new_process, move_pcb_to_new, TypeOK, PcbFields
<1>8. CASE h = p
  BY <1>6, <1>7, <1>8 DEF Effect, Enters, Inside, Num
<1>9. CASE h # p
  <2>1. Working(p) \in Nat
    BY CountsTyped
  <2> QED BY <1>6, <1>7, <1>9, <2>1 DEF Effect, Stays, Same, Num
<1> QED BY <1>8, <1>9

\* The controller of new processes.
LEMMA LtpNewEffect ==
    ASSUME TypeOK, LtpNew, NEW p \in Pcbs
    PROVE  Effect(p)
<1> USE TypeFacts, Names DEF At, AnyAt
<1>0. \A r \in Threads \ {"ltp_new"} : thread'[r] = thread[r]
  BY OwnThread
<1>1. CASE LtpWaitPlan \/ LtpWaitLevel \/ LtpAdmit \/ LtpDiscard
  <2>1. Holds("ltp_new", p)' = Holds("ltp_new", p)
    BY <1>1, SMTT(30) DEF LtpWaitPlan, LtpWaitLevel, LtpAdmit, LtpDiscard, SemWait, Goto, Release,
       GotoWith, Holds, HasInHand, Num
  <2>2. Same(p)
    BY <1>0, <1>1, <2>1, SamePlaces
       DEF LtpWaitPlan, LtpWaitLevel, LtpAdmit, LtpDiscard, SemWait
  <2>3. pcb' = pcb
    BY <1>1 DEF LtpWaitPlan, LtpWaitLevel, LtpAdmit, LtpDiscard, SemWait
  <2> QED BY <2>2, <2>3, StaysPut
<1>2. CASE LtpTakeSuspended
  <2>1. /\ Holds("ltp_new", p) = 0
        /\ Holds("ltp_new", p)' = Num(Head(queue["suspended_ready"]) = p)
    BY <1>2 DEF LtpTakeSuspended, GotoWith, Holds, HasInHand, Num
  <2>2. Same(p)
    BY <1>0, <1>2, <2>1, QueueToHand DEF LtpTakeSuspended
  <2> QED BY <1>2, <2>2, StaysPut DEF LtpTakeSuspended
<1>3. CASE LtpTakeNew /\ queue["new"] # <<>>
  <2>1. /\ Holds("ltp_new", p) = 0
        /\ Holds("ltp_new", p)' = Num(Head(queue["new"]) = p)
    BY <1>3, SMTT(30) DEF LtpTakeNew, GotoWith, Holds, HasInHand, Num
  <2>2. Same(p)
    BY <1>0, <1>3, <2>1, QueueToHand DEF LtpTakeNew
  <2> QED BY <1>3, <2>2, StaysPut DEF LtpTakeNew
<1>4. CASE LtpTakeNew /\ queue["new"] = <<>>
  <2>1. Holds("ltp_new", p)' = Holds("ltp_new", p)
    BY <1>4 DEF LtpTakeNew, Goto, Holds, HasInHand, Num
  <2>2. Same(p)
    BY <1>0, <1>4, <2>1, SamePlaces DEF LtpTakeNew
  <2> QED BY <1>4, <2>2, StaysPut DEF LtpTakeNew
<1>5. CASE LtpReject
  <2>1. HasInHand("ltp_new") /\ ~HasInHand("ltp_new")' /\ thread["ltp_new"].pcb \in Pcbs
    BY <1>5, HandTyped, PcNames DEF LtpReject, Goto, HasInHand, TypeOK
  <2> QED BY <1>0, <1>5, <2>1, ExitFromHand DEF LtpReject
<1> QED BY <1>1, <1>2, <1>3, <1>4, <1>5 DEF LtpNew

\* The controller of finished processes.
LEMMA LtpExitEffect ==
    ASSUME TypeOK, LtpExit, NEW p \in Pcbs
    PROVE  Effect(p)
<1> USE TypeFacts, Names DEF At, AnyAt
<1>0. \A r \in Threads \ {"ltp_exit"} : thread'[r] = thread[r]
  BY OwnThread
<1>a. InHands(p)' = InHands(p)
  BY <1>0 DEF InHands, Holds, HasInHand
<1>1. CASE ExitWait
  <2>1. Holds("ltp_exit", p)' = Holds("ltp_exit", p)
    BY <1>1 DEF ExitWait, SemWait, Goto, Holds, HasInHand, Num
  <2>2. Same(p)
    BY <1>0, <1>1, <2>1, SamePlaces DEF ExitWait, SemWait
  <2> QED BY <1>1, <2>2, StaysPut DEF ExitWait, SemWait
<1>2. CASE ExitPop /\ queue["exit"] = <<>>
  <2>1. Holds("ltp_exit", p)' = Holds("ltp_exit", p)
    BY <1>2 DEF ExitPop, Goto, Holds, HasInHand, Num
  <2>2. Same(p)
    BY <1>0, <1>2, <2>1, SamePlaces DEF ExitPop
  <2> QED BY <1>2, <2>2, StaysPut DEF ExitPop
<1>3. CASE ExitPop /\ queue["exit"] # <<>>
  <2> DEFINE moved == Num(Head(queue["exit"]) = p)
  <2>1. Holds("ltp_exit", p) = 0 /\ Holds("ltp_exit", p)' = moved
    BY <1>3, SMTT(30) DEF ExitPop, GotoWith, Holds, HasInHand, Num
  <2>2. /\ Occurrences(p, queue["exit"]) = Occurrences(p, queue'["exit"]) + moved
        /\ Occurrences(p, queue'["exit"]) \in Nat /\ moved \in Nat
        /\ \A r \in Queues \ {"exit"} : queue'[r] = queue[r]
    BY <1>3, PopOccurs DEF ExitPop, Num
  <2>3. Queued(p)' = Queued(p) /\ exec' = exec /\ io_timer' = io_timer
    BY <1>3, <2>2 DEF ExitPop, Queued
  <2> HIDE DEF moved
  <2>4. Working(p)' = Working(p)
    BY <1>a, <2>3 DEF Working
  <2>5. Exiting(p)' = Exiting(p)
    BY <2>1, <2>2 DEF Exiting
  <2> QED BY <1>3, <2>4, <2>5, StaysPut DEF ExitPop, Same
<1>4. CASE ExitFinish
  <2> DEFINE h == thread["ltp_exit"].pcb
  <2>1. Holds("ltp_exit", p) = Num(h = p) /\ Holds("ltp_exit", p)' = 0 /\ h \in Pcbs
    BY <1>4, HandTyped, PcNames
       DEF ExitFinish, Release, GotoWith, Holds, HasInHand, Num, TypeOK
  <2>2. Working(p)' = Working(p)
    BY <1>4, <1>a DEF ExitFinish, Working, Queued
  <2>3. /\ Exiting(p) = Occurrences(p, queue["exit"]) + Num(h = p)
        /\ Exiting(p)' = Occurrences(p, queue["exit"]) + 0
    BY <1>4, <2>1 DEF ExitFinish, Exiting
  <2>4. Occurrences(p, queue["exit"]) \in Nat
    BY CountsTyped
  <2>5. /\ pcb'[h].status = "DESTROYED"
        /\ \A r \in Pcbs \ {h} : pcb'[r] = pcb[r]
    BY <1>4, <2>1, StatusWritten DEF ExitFinish
  <2>6. CASE h = p
    <3>1. Num(h = p) = 1
      BY <2>6 DEF Num
    <3>2. Exiting(p) > 0 /\ Exiting(p)' = Exiting(p) - 1
      <4> DEFINE x == Occurrences(p, queue["exit"])
                 e == Exiting(p)
                 f == Exiting(p)'
      <4>1. x \in Nat /\ e = x + 1 /\ f = x + 0
        BY <2>3, <2>4, <3>1
      <4> HIDE DEF x, e, f
      <4>2. e > 0 /\ f = e - 1
        BY <4>1
      <4> QED BY <4>2 DEF e, f
    <3>3. pcb'[p].status = "DESTROYED"
      BY <2>5, <2>6
    <3> QED BY <2>2, <3>2, <3>3 DEF Effect, Ends
  <2>7. CASE h # p
    BY <2>2, <2>3, <2>4, <2>5, <2>7 DEF Effect, Stays, Same, Num
  <2> QED BY <2>6, <2>7
<1> QED BY <1>1, <1>2, <1>3, <1>4 DEF LtpExit

\* The controller of blocked processes. The device is free when it starts an I/O.
LEMMA MtpBlockedEffect ==
    ASSUME TypeOK, IoDeviceExclusive, MtpBlocked, NEW p \in Pcbs
    PROVE  Effect(p)
<1> USE TypeFacts, Names DEF At, AnyAt
<1>0. \A r \in Threads \ {"mtp_blocked"} : thread'[r] = thread[r]
  BY OwnThread
<1>1. CASE BlockedWaitPlanner \/ BlockedWaitIo \/ BlockFailRelease
  <2>1. Holds("mtp_blocked", p)' = Holds("mtp_blocked", p)
    BY <1>1, SMTT(30) DEF BlockedWaitPlanner, BlockedWaitIo, BlockFailRelease, SemWait, Goto, Release,
       GotoWith, Holds, HasInHand, Num
  <2>2. Same(p)
    BY <1>0, <1>1, <2>1, SamePlaces
       DEF BlockedWaitPlanner, BlockedWaitIo, BlockFailRelease, SemWait
  <2> QED BY <1>1, <2>2, StaysPut
          DEF BlockedWaitPlanner, BlockedWaitIo, BlockFailRelease, SemWait
<1>2. CASE BlockFails
  <2>1. /\ Holds("mtp_blocked", p) = 0
        /\ Holds("mtp_blocked", p)' = Num(Head(queue["blocked"]) = p)
    BY <1>2 DEF BlockFails, GotoWith, Holds, HasInHand, Num
  <2>2. Same(p)
    BY <1>0, <1>2, <2>1, QueueToHand DEF BlockFails
  <2> QED BY <1>2, <2>2, StaysPut DEF BlockFails
<1>3. CASE BlockFailExit
  <2>1. /\ HasInHand("mtp_blocked") /\ ~HasInHand("mtp_blocked")'
        /\ thread["mtp_blocked"].pcb \in Pcbs
    BY <1>3, HandTyped, PcNames DEF BlockFailExit, Goto, HasInHand, TypeOK
  <2> QED BY <1>0, <1>3, <2>1, ExitFromHand DEF BlockFailExit
<1>4. CASE mtp_block_pcb
  <2>1. io_timer = {}
    <3>1. IsFiniteSet(io_timer) /\ Cardinality(io_timer) \in Nat /\ sem["mtp_io"] \in Nat
      BY PlannerAssumption, FS_Subset, FS_CardinalityType DEF TypeOK
    <3>2. sem["mtp_io"] + Cardinality(io_timer) + 1 = 1
      BY <1>4 DEF IoDeviceExclusive, mtp_block_pcb, Num
    <3>3. Cardinality(io_timer) = 0
      BY <3>1, <3>2, SMTT(30)
    <3> QED BY <3>1, <3>3, FS_EmptySet
  <2>2. /\ Num(exec' = p) = Num(exec = p) /\ Num(exec = p) \in Nat
        /\ Num(p \in io_timer) = 0
        /\ Num(p \in io_timer') = Num(Head(queue["blocked"]) = p)
        /\ Num(Head(queue["blocked"]) = p) \in Nat
    BY <1>4, <2>1 DEF mtp_block_pcb, Num
  <2>3. \A r \in Threads : Holds(r, p)' = Holds(r, p)
    <3>1. Holds("mtp_blocked", p)' = Holds("mtp_blocked", p)
      BY <1>4 DEF mtp_block_pcb, Goto, Holds, HasInHand, Num
    <3>2. \A r \in Threads \ {"mtp_blocked"} : Holds(r, p)' = Holds(r, p)
      BY <1>0 DEF Holds, HasInHand
    <3> QED BY <3>1, <3>2
  <2>4. InHands(p)' = InHands(p) /\ Holds("ltp_exit", p)' = Holds("ltp_exit", p)
    BY <2>3 DEF InHands
  <2>5. Num(exec' = p) + Num(p \in io_timer')
           = Num(exec = p) + Num(p \in io_timer) + Num(Head(queue["blocked"]) = p)
    BY <2>2
  <2>6. Same(p)
    BY <1>4, <2>4, <2>5, QueueToPlace DEF mtp_block_pcb
  <2> QED BY <1>4, <2>6, StaysPut DEF mtp_block_pcb
<1> QED BY <1>1, <1>2, <1>3, <1>4 DEF MtpBlocked

\* A process that a thread has just put in a queue, and whose status it wrote.
LEMMA StaysWritten ==
    ASSUME TypeOK, NEW p \in Pcbs, NEW e \in Pcbs, Same(p),
           NEW t \in {"ltp_new", "mtp_blocked", "dispatch", "timer"}, Holds(t, e) = 1,
           pcb'[e].status \notin {"NONE", "DESTROYED"},
           \A r \in Pcbs \ {e} : pcb'[r] = pcb[r]
    PROVE  Effect(p)
<1>1. CASE p = e
  <2>1. Working(p) > 0
    BY <1>1, HoldsCounts
  <2> QED BY <1>1, <2>1 DEF Effect, Stays, Inside
<1>2. CASE p # e
  BY <1>2 DEF Effect, Stays
<1> QED BY <1>1, <1>2

\* A live process whose status was written by a thread that points to it.
LEMMA StaysPointed ==
    ASSUME NEW p \in Pcbs, NEW e \in Pcbs, Same(p), NEW t \in Threads, thread[t].pcb = e,
           \/ /\ Alive(e) /\ pcb'[e].status \notin {"NONE", "DESTROYED"}
              /\ \A r \in Pcbs \ {e} : pcb'[r] = pcb[r]
           \/ pcb' = pcb
    PROVE  Effect(p)
BY DEF Effect, Stays, Inside, Known

\* The callbacks of the timers.
LEMMA MtpTimerEffect ==
    ASSUME TypeOK, MtpTimer, NEW p \in Pcbs
    PROVE  Effect(p)
<1> USE TypeFacts, Names DEF At, AnyAt
<1>0. \A r \in Threads \ {"timer"} : thread'[r] = thread[r]
  BY OwnThread
<1>1. CASE \E h \in Pcbs : mtp_unblock_pcb(h)
  <2> PICK h \in Pcbs : mtp_unblock_pcb(h)
    BY <1>1
  <2>1. Holds("timer", p) = 0 /\ Holds("timer", p)' = Num(h = p)
    BY DEF mtp_unblock_pcb, GotoWith, Holds, HasInHand, Num
  <2>2. /\ Num(p \in io_timer') + Num(h = p) = Num(p \in io_timer)
        /\ Num(h = p) \in Nat
    BY SMTT(30) DEF mtp_unblock_pcb, Num
  <2>3. queue' = queue /\ exec' = exec /\ pcb' = pcb
    BY DEF mtp_unblock_pcb
  <2>4. Num(exec' = p) + Num(p \in io_timer') + Num(h = p)
           = Num(exec = p) + Num(p \in io_timer)
    <3>1. Num(exec' = p) = Num(exec = p) /\ Num(exec = p) \in Nat
          /\ Num(p \in io_timer') \in Nat
      BY <2>3 DEF Num
    <3> QED BY <2>2, <3>1, SMTT(30)
  <2>5. Same(p)
    BY <1>0, <2>1, <2>2, <2>3, <2>4, PlaceToHand
  <2> QED BY <2>3, <2>5, StaysPut
<1>2. CASE UnblockToReady \/ SuspendCheck
           \/ \E h \in Pcbs, k \in 1 .. MaxIO : SuspendTimerFires(h, k)
  <2>1. Holds("timer", p)' = Holds("timer", p)
    BY <1>2, SMTT(30) DEF UnblockToReady, SuspendCheck, SuspendTimerFires, Goto, Release, GotoWith,
       Holds, HasInHand, Num
  <2>2. Same(p)
    BY <1>0, <1>2, <2>1, SamePlaces DEF UnblockToReady, SuspendCheck, SuspendTimerFires
  <2> QED BY <1>2, <2>2, StaysPut DEF UnblockToReady, SuspendCheck, SuspendTimerFires
<1>3. CASE \E h \in Pcbs, k \in 1 .. MaxIO : mtp_suspend_pcb(h, k)
  <2> PICK h \in Pcbs, k \in 1 .. MaxIO : mtp_suspend_pcb(h, k)
    BY <1>3
  <2>1. Holds("timer", p)' = Holds("timer", p)
    BY DEF mtp_suspend_pcb, GotoWith, Holds, HasInHand, Num
  <2>2. Same(p)
    BY <1>0, <2>1, SamePlaces DEF mtp_suspend_pcb
  <2>3. pcb'[p].status = pcb[p].status
    BY SMTT(30) DEF mtp_suspend_pcb, TypeOK, PcbFields
  <2> QED BY <2>2, <2>3, StaysPut
<1>4. CASE UnblockSuspended
  <2> DEFINE e == thread["timer"].pcb
  <2>1. e \in Pcbs
    BY <1>4, HandTyped, PcNames DEF UnblockSuspended, TypeOK
  <2>2. /\ Holds("timer", p) = Num(e = p) /\ Holds("timer", p)' = 0
        /\ Holds("timer", e) = 1
    BY <1>4 DEF UnblockSuspended, Release, GotoWith, Holds, HasInHand, Num
  <2>3. /\ Push("suspended_ready", e)
        /\ pcb' = [pcb EXCEPT ![e].status = "SUSPENDED_READY"]
    BY <1>4 DEF UnblockSuspended, move_pcb_to_suspended_ready
  <2>4. Same(p)
    <3>1. /\ Occurrences(p, queue'["suspended_ready"])
                = Occurrences(p, queue["suspended_ready"]) + Num(e = p)
          /\ Occurrences(p, queue'["suspended_ready"]) \in Nat
          /\ \A r \in Queues \ {"suspended_ready"} : queue'[r] = queue[r]
      BY <2>1, <2>3, PushOccurs
    <3> HIDE DEF e
    <3> QED BY <1>0, <1>4, <2>2, <3>1, HandToQueue DEF UnblockSuspended
  <2>5. pcb'[e].status = "SUSPENDED_READY" /\ \A r \in Pcbs \ {e} : pcb'[r] = pcb[r]
    BY <2>1, <2>3, StatusWritten
  <2> QED BY <2>1, <2>2, <2>4, <2>5, StaysWritten
<1>5. CASE UnblockError
  <2>1. HasInHand("timer") /\ ~HasInHand("timer")' /\ thread["timer"].pcb \in Pcbs
    BY <1>5, HandTyped, PcNames
       DEF UnblockError, Release, GotoWith, HasInHand, TypeOK
  <2> QED BY <1>0, <1>5, <2>1, ExitFromHand DEF UnblockError
<1>6. CASE SuspendSwapped
  <2> DEFINE e == thread["timer"].pcb
  <2>1. e \in Pcbs
    BY <1>6, HandTyped, PcNames DEF SuspendSwapped, TypeOK
  <2>2. Holds("timer", p)' = Holds("timer", p)
    BY <1>6 DEF SuspendSwapped, Release, GotoWith, Holds, HasInHand, Num
  <2>3. Same(p)
    BY <1>0, <1>6, <2>2, SamePlaces DEF SuspendSwapped, move_pcb_to_suspended_blocked
  <2>4. CASE Alive(e)
    <3>1. pcb' = [pcb EXCEPT ![e].status = "SUSPENDED_BLOCKED"]
      BY <1>6, <2>4 DEF SuspendSwapped, move_pcb_to_suspended_blocked
    <3>2. pcb'[e].status = "SUSPENDED_BLOCKED" /\ \A r \in Pcbs \ {e} : pcb'[r] = pcb[r]
      BY <2>1, <3>1, StatusWritten
    <3> QED BY <2>1, <2>3, <2>4, <3>2, StaysPointed
  <2>5. CASE ~Alive(e)
    <3>1. pcb' = pcb
      BY <1>6, <2>5 DEF SuspendSwapped, move_pcb_to_suspended_blocked
    <3> QED BY <2>1, <2>3, <3>1, StaysPointed
  <2> QED BY <2>4, <2>5
<1>7. CASE SuspendSwapFails
  <2> DEFINE e == thread["timer"].pcb
  <2>1. e \in Pcbs
    BY <1>7, HandTyped, PcNames DEF SuspendSwapFails, TypeOK
  <2>2. Push("exit", e) /\ pcb'[e].status = "EXIT" /\ \A r \in Pcbs \ {e} : pcb'[r] = pcb[r]
    BY <1>7, <2>1, ExitWrites DEF SuspendSwapFails
  <2>3. /\ Occurrences(p, queue'["exit"]) = Occurrences(p, queue["exit"]) + Num(e = p)
        /\ \A r \in Queues \ {"exit"} : queue'[r] = queue[r]
    BY <2>1, <2>2, PushOccurs
  <2>4. \A r \in Threads : Holds(r, p)' = Holds(r, p)
    <3>1. Holds("timer", p)' = Holds("timer", p)
      BY <1>7 DEF SuspendSwapFails, Release, GotoWith, Holds, HasInHand, Num
    <3>2. \A r \in Threads \ {"timer"} : Holds(r, p)' = Holds(r, p)
      BY <1>0 DEF Holds, HasInHand
    <3> QED BY <3>1, <3>2
  <2>5. exec' = exec /\ io_timer' = io_timer
    BY <1>7 DEF SuspendSwapFails
  <2>6. Queued(p)' = Queued(p) /\ InHands(p)' = InHands(p)
    <3>1. Queued(p)' = Queued(p)
      BY <2>3 DEF Queued
    <3>2. InHands(p)' = InHands(p)
      BY <2>4 DEF InHands
    <3> QED BY <3>1, <3>2
  <2>7. Working(p)' = Working(p)
    BY <2>5, <2>6 DEF Working
  <2>8. Exiting(p)' = Exiting(p) + Num(e = p)
    <3>1. /\ Exiting(p) = Occurrences(p, queue["exit"]) + Holds("ltp_exit", p)
          /\ Exiting(p)' = Occurrences(p, queue["exit"]) + Num(e = p) + Holds("ltp_exit", p)
      BY <2>3, <2>4 DEF Exiting
    <3>2. /\ Occurrences(p, queue["exit"]) \in Nat /\ Holds("ltp_exit", p) \in Nat
          /\ Num(e = p) \in Nat
      BY CountsTyped DEF Num, Holds
    <3> QED BY <3>1, <3>2
  <2>9. CASE e = p
    <3>1. SwapMayFail
      BY <1>7 DEF SuspendSwapFails
    <3> QED BY <2>2, <2>7, <2>8, <2>9, <3>1 DEF Effect, SwapLoses, Inside, Num
  <2>10. CASE e # p
    <3>1. Exiting(p) \in Nat
      BY CountsTyped
    <3> QED BY <2>2, <2>7, <2>8, <2>10, <3>1, SMTT(30) DEF Effect, Stays, Same, Num
  <2> QED BY <2>9, <2>10
<1> QED BY <1>1, <1>2, <1>3, <1>4, <1>5, <1>6, <1>7 DEF MtpTimer

\* planner->move_pcb_to_ready, in the thread that calls it.
LEMMA MoverOwnEffect ==
    ASSUME TypeOK, NEW t \in Movers, Mover(t), NEW p \in Pcbs
    PROVE  Effect(p)
<1> DEFINE e == Hand(t)
<1>0. /\ t \in Threads /\ t \in {"ltp_new", "mtp_blocked", "dispatch", "timer"}
      /\ t # "ltp_exit"
      /\ \A r \in Threads \ {t} : thread'[r] = thread[r]
      /\ UNCHANGED <<exec, io_timer>>
  BY MoverEffect DEF Movers, Threads
<1>a. e \in Pcbs
  BY <1>0, MoverEffect DEF TypeOK, ThreadsTyped, HoldingPcs, Hand
<1> USE TypeFacts, Names DEF At, AnyAt
<1>1. CASE move_pcb_to_ready__fifo(t)
  <2>0. Holds(t, e) = 1
    BY <1>0, <1>1 DEF move_pcb_to_ready__fifo, Holds, HasInHand, Num, Hand
  <2>1. Holds(t, p) = Num(e = p) /\ Holds(t, p)' = 0
    BY <1>0, <1>1, SMTT(30) DEF move_pcb_to_ready__fifo, Return, ReturnPc, Goto, Release, GotoWith,
       Holds, HasInHand, Num, Hand, Movers
  <2>2. Push("ready", e) /\ pcb' = [pcb EXCEPT ![e].status = "READY"]
    BY <1>1 DEF move_pcb_to_ready__fifo
  <2>3. /\ Occurrences(p, queue'["ready"]) = Occurrences(p, queue["ready"]) + Num(e = p)
        /\ Occurrences(p, queue'["ready"]) \in Nat
        /\ \A r \in Queues \ {"ready"} : queue'[r] = queue[r]
    BY <1>a, <2>2, PushOccurs
  <2>4. pcb'[e].status = "READY" /\ \A r \in Pcbs \ {e} : pcb'[r] = pcb[r]
    BY <1>a, <2>2, StatusWritten
  <2> HIDE DEF e
  <2>5. Same(p)
    BY <1>0, <2>1, <2>3, HandToQueue, ZenonT(40)
  <2> QED BY <1>0, <1>a, <2>0, <2>4, <2>5, StaysWritten
<1>2. CASE SrtInsert(t)
  <2>1. /\ Holds(t, p) = Num(e = p) /\ Holds(t, p)' = 0
    BY <1>0, <1>2 DEF SrtInsert, Goto, Holds, HasInHand, Num, Hand
  <2>2. queue' = [queue EXCEPT !["ready"] = InsertReady(@, e, pcb)] /\ pcb' = pcb
    BY <1>2 DEF SrtInsert
  <2>3. /\ Occurrences(p, queue'["ready"]) = Occurrences(p, queue["ready"]) + Num(e = p)
        /\ Occurrences(p, queue'["ready"]) \in Nat
        /\ \A r \in Queues \ {"ready"} : queue'[r] = queue[r]
    BY <1>a, <2>2, InsertOccurs
  <2> HIDE DEF e
  <2>4. Same(p)
    BY <1>0, <2>1, <2>3, HandToQueue, ZenonT(40)
  <2> QED BY <2>2, <2>4, StaysPut
<1>3. CASE SrtStatus(t)
  <2>1. Holds(t, p)' = Holds(t, p)
    BY <1>0, <1>3 DEF SrtStatus, Goto, Holds, HasInHand, Num
  <2>2. Same(p)
    BY <1>0, <1>3, <2>1, SamePlaces DEF SrtStatus
  <2>3. CASE Alive(e)
    <3>1. pcb' = [pcb EXCEPT ![e].prev_status = pcb[e].status, ![e].status = "READY"]
      BY <1>3, <2>3 DEF SrtStatus, Hand
    <3>2. pcb'[e].status = "READY" /\ \A r \in Pcbs \ {e} : pcb'[r] = pcb[r]
      <4> HIDE DEF e
      <4> QED BY <1>a, <3>1 DEF TypeOK, PcbFields
    <3> QED BY <1>0, <1>a, <2>2, <2>3, <3>2, StaysPointed DEF Hand
  <2>4. CASE ~Alive(e)
    <3>1. pcb' = pcb
      BY <1>3, <2>4 DEF SrtStatus, Hand
    <3> QED BY <2>2, <3>1, StaysPut
  <2> QED BY <2>3, <2>4
<1>4. CASE SrtCheckBusy(t) \/ SrtWaitInterrupt(t) \/ SrtSendInterrupt(t)
           \/ SrtFlagInterrupted(t) \/ SrtPlan(t)
  <2>1. Holds(t, p)' = Holds(t, p)
    <3>1. CASE SrtPlan(t)
      BY <1>0, <3>1, SMTT(30) DEF SrtPlan, Return, ReturnPc, Goto, Release, GotoWith, Holds,
         HasInHand, Num, Movers
    <3>2. CASE ~SrtPlan(t)
      BY <1>0, <1>4, <3>2, SMTT(30) DEF SrtCheckBusy, SrtWaitInterrupt, SrtSendInterrupt,
         SrtFlagInterrupted, SemWait, Goto, Holds, HasInHand, Num
    <3> QED BY <3>1, <3>2
  <2>2. queue' = queue /\ pcb' = pcb
    BY <1>4 DEF SrtCheckBusy, SrtWaitInterrupt, SrtSendInterrupt, SrtFlagInterrupted,
       SrtPlan, SemWait
  <2>3. Same(p)
    BY <1>0, <2>1, <2>2, SamePlaces
  <2> QED BY <2>2, <2>3, StaysPut
<1> QED BY <1>1, <1>2, <1>3, <1>4 DEF Mover

\* The short-term controller.
LEMMA StpEffect ==
    ASSUME CpuInv, Stp, NEW p \in Pcbs
    PROVE  Effect(p)
<1>0. TypeOK
  BY DEF CpuInv
<1> USE <1>0, TypeFacts, Names DEF At, AnyAt
<1>1. CASE StpWaitPlan \/ StpWaitDispatch \/ cpu_dispatch_pcb
  <2>1. /\ Holds("stp", p)' = Holds("stp", p)
        /\ \A r \in Threads \ {"stp"} : thread'[r] = thread[r]
    BY <1>1, SMTT(30) DEF StpWaitPlan, StpWaitDispatch, cpu_dispatch_pcb, SemWait, Goto, Holds,
       HasInHand, Num
  <2>2. Same(p)
    BY <1>1, <2>1, SamePlaces DEF StpWaitPlan, StpWaitDispatch, cpu_dispatch_pcb, SemWait
  <2> QED BY <1>1, <2>2, StaysPut
          DEF StpWaitPlan, StpWaitDispatch, cpu_dispatch_pcb, SemWait
<1>2. CASE cpu_listen_dispatch_async
  <2>0. thread["dispatch"].pc = "idle"
    BY <1>2, SMTT(30) DEF cpu_listen_dispatch_async, CpuInv, CpuExclusive, Num
  <2>1. \A r \in Threads : Holds(r, p)' = Holds(r, p)
    <3>1. Holds("stp", p)' = Holds("stp", p)
      BY <1>2 DEF cpu_listen_dispatch_async, Holds, HasInHand, Num
    <3>2. Holds("dispatch", p)' = Holds("dispatch", p)
      BY <1>2, <2>0 DEF cpu_listen_dispatch_async, Holds, HasInHand, Num
    <3>3. \A r \in Threads \ {"stp", "dispatch"} : Holds(r, p)' = Holds(r, p)
      BY OwnThread DEF Holds, HasInHand
    <3> QED BY <3>1, <3>2, <3>3
  <2>2. InHands(p)' = InHands(p) /\ Holds("ltp_exit", p)' = Holds("ltp_exit", p)
    BY <2>1 DEF InHands
  <2>3. UNCHANGED <<pcb, queue, exec, io_timer>>
    BY <1>2 DEF cpu_listen_dispatch_async
  <2>4. Working(p)' = Working(p) /\ Exiting(p)' = Exiting(p)
    BY <2>2, <2>3 DEF Working, Exiting, Queued
  <2> QED BY <2>3, <2>4, StaysPut DEF Same
<1>3. CASE StpPop
  <2> DEFINE h == Head(queue["ready"])
  <2>1. exec = NULL
    BY <1>3, SMTT(30) DEF StpPop, CpuInv, CpuExclusive, Num
  <2>2. h \in Pcbs /\ h = queue["ready"][1] /\ 1 \in 1 .. Len(queue["ready"])
    <3>1. queue["ready"] \in Seq(Pcbs) /\ queue["ready"] # <<>>
      BY <1>3 DEF StpPop
    <3> QED BY <3>1, SMTT(30)
  <2>3. \A r \in Threads : Holds(r, p)' = Holds(r, p)
    <3>1. Holds("stp", p)' = Holds("stp", p)
      BY <1>3 DEF StpPop, GotoWith, Holds, HasInHand, Num
    <3>2. \A r \in Threads \ {"stp"} : Holds(r, p)' = Holds(r, p)
      BY <1>3 DEF StpPop, GotoWith, Holds, HasInHand
    <3> QED BY <3>1, <3>2
  <2>4. InHands(p)' = InHands(p) /\ Holds("ltp_exit", p)' = Holds("ltp_exit", p)
    BY <2>3 DEF InHands
  <2>5. Num(exec' = p) + Num(p \in io_timer')
           = Num(exec = p) + Num(p \in io_timer) + Num(h = p)
    <3>1. Num(exec = p) = 0 /\ Num(exec' = p) = Num(h = p) /\ io_timer' = io_timer
      BY <1>3, <2>1, PlannerAssumption DEF StpPop, Num
    <3>2. Num(h = p) \in Nat /\ Num(p \in io_timer) \in Nat
      BY DEF Num
    <3> QED BY <3>1, <3>2
  <2>6. Same(p)
    BY <1>3, <2>4, <2>5, QueueToPlace DEF StpPop
  <2>7. pcb'[h].status = "EXEC" /\ \A r \in Pcbs \ {h} : pcb'[r] = pcb[r]
    BY <1>3, <2>2, StatusWritten DEF StpPop
  <2>8. Working(h) > 0
    BY <2>2, QueuedCounts
  <2> HIDE DEF h
  <2>9. CASE h = p
    BY <2>6, <2>7, <2>8, <2>9 DEF Effect, Stays, Inside
  <2>10. CASE h # p
    BY <2>6, <2>7, <2>10 DEF Effect, Stays
  <2> QED BY <2>9, <2>10
<1> QED BY <1>1, <1>2, <1>3 DEF Stp

\* The listener of the CPU. The pcb it takes is planner->exec.
LEMMA DispatchEffect ==
    ASSUME CpuInv, Dispatch, NEW p \in Pcbs
    PROVE  Effect(p)
<1>0. TypeOK
  BY DEF CpuInv
<1> USE <1>0, TypeFacts, Names DEF At, AnyAt
<1>a. \A r \in Threads \ {"dispatch"} : thread'[r] = thread[r]
  BY OwnThread
<1>1. CASE cpu_recieve_pcb_async
  <2>1. exec \in Pcbs
    BY <1>1 DEF cpu_recieve_pcb_async, CpuInv, CpuExclusive, TypeOK
  <2>2. /\ Holds("dispatch", p) = 0 /\ Holds("dispatch", p)' = Num(exec = p)
        /\ Num(exec' = p) = 0 /\ io_timer' = io_timer
    BY <1>1, PlannerAssumption
       DEF cpu_recieve_pcb_async, GotoWith, Holds, HasInHand, Num
  <2>3. Num(exec' = p) + Num(p \in io_timer') + Num(exec = p)
           = Num(exec = p) + Num(p \in io_timer)
    <3>1. Num(exec = p) \in Nat /\ Num(p \in io_timer) \in Nat
      BY DEF Num
    <3> QED BY <2>2, <3>1
  <2>4. Num(exec = p) \in Nat
    BY DEF Num
  <2>5. Same(p)
    BY <1>1, <1>a, <2>2, <2>3, <2>4, PlaceToHand DEF cpu_recieve_pcb_async
  <2>6. pcb'[p].status = pcb[p].status
    BY <1>1, <2>1, SMTT(30) DEF cpu_recieve_pcb_async, TypeOK, PcbFields
  <2> QED BY <2>5, <2>6, StaysPut
<1>2. CASE DispatchExit \/ DispatchError
  <2>1. /\ HasInHand("dispatch") /\ ~HasInHand("dispatch")'
        /\ thread["dispatch"].pcb \in Pcbs
    <3>1. thread["dispatch"].pc = "switch" /\ thread'["dispatch"].pc = "finish"
      BY <1>2 DEF DispatchExit, DispatchError, Returned, Goto
    <3> QED BY <3>1, HandTyped, PcNames DEF HasInHand, TypeOK
  <2>2. /\ exec' = exec /\ io_timer' = io_timer
        /\ \E err \in BOOLEAN : move_pcb_to_exit(thread["dispatch"].pcb, err)
    BY <1>2 DEF DispatchExit, DispatchError, Hand
  <2> QED BY <1>a, <2>1, <2>2, ExitFromHand
<1>3. CASE DispatchIo
  <2> DEFINE e == thread["dispatch"].pcb
  <2>1. e \in Pcbs
    BY <1>3, HandTyped, PcNames DEF DispatchIo, Returned, TypeOK
  <2>2. /\ Holds("dispatch", p) = Num(e = p) /\ Holds("dispatch", p)' = 0
        /\ Holds("dispatch", e) = 1
    BY <1>3 DEF DispatchIo, Returned, Goto, Holds, HasInHand, Num
  <2>3. Push("blocked", e) /\ exec' = exec /\ io_timer' = io_timer
    BY <1>3 DEF DispatchIo, move_pcb_to_blocked, Hand
  <2>4. Same(p)
    <3>1. /\ Occurrences(p, queue'["blocked"])
                = Occurrences(p, queue["blocked"]) + Num(e = p)
          /\ Occurrences(p, queue'["blocked"]) \in Nat
          /\ \A r \in Queues \ {"blocked"} : queue'[r] = queue[r]
      BY <2>1, <2>3, PushOccurs
    <3> HIDE DEF e
    <3> QED BY <1>a, <2>2, <2>3, <3>1, HandToQueue
  <2>5. pcb'[e].status = "BLOCKED" /\ \A r \in Pcbs \ {e} : pcb'[r] = pcb[r]
    <3> DEFINE k == pcb[e].blocks + 1
    <3>1. PICK started \in {TRUE, ~TimerMayFail} :
             pcb' = [pcb EXCEPT ![e].status = "BLOCKED", ![e].blocks = k,
                                ![e].timer = IF started THEN k ELSE 0]
      BY <1>3 DEF DispatchIo, move_pcb_to_blocked, Hand
    <3> HIDE DEF e
    <3> QED BY <2>1, <3>1 DEF TypeOK, PcbFields
  <2> QED BY <2>1, <2>2, <2>4, <2>5, StaysWritten
<1>4. CASE DispatchInterrupted
  <2>1. Holds("dispatch", p)' = Holds("dispatch", p)
    BY <1>4 DEF DispatchInterrupted, Returned, Goto, Holds, HasInHand, Num
  <2>2. Same(p)
    BY <1>a, <1>4, <2>1, SamePlaces DEF DispatchInterrupted
  <2> QED BY <1>4, <2>2, StaysPut DEF DispatchInterrupted
<1>5. CASE DispatchFinish
  <2>1. Holds("dispatch", p)' = Holds("dispatch", p)
    BY <1>5 DEF DispatchFinish, Release, GotoWith, Holds, HasInHand, Num
  <2>2. Same(p)
    BY <1>a, <1>5, <2>1, SamePlaces DEF DispatchFinish
  <2>3. pcb'[p].status = pcb[p].status
    BY <1>5 DEF DispatchFinish, TypeOK, PcbFields
  <2> QED BY <2>2, <2>3, StaysPut
<1> QED BY <1>1, <1>2, <1>3, <1>4, <1>5 DEF Dispatch

\* Every step of the planner is one of the effects, on every process.
LEMMA StepEffect ==
    ASSUME CpuInv, IoDeviceExclusive, [Next]_vars, NEW p \in Pcbs
    PROVE  Effect(p)
<1>0. TypeOK
  BY DEF CpuInv
<1>1. CASE \E h \in Pcbs : ltp_new_process(h)
  BY <1>0, <1>1, SubmitEffect
<1>2. CASE Cpu \/ UNCHANGED vars
  <2>1. UNCHANGED <<pcb, queue, exec, io_timer, thread>>
    BY <1>2 DEF Cpu, CpuReceive, CpuInterrupt, CpuReturn, vars
  <2>2. Same(p)
    BY <2>1, Names, SamePlaces DEF Holds, HasInHand, AnyAt, At
  <2> QED BY <2>1, <2>2, StaysPut
<1> QED BY <1>0, <1>1, <1>2, LtpNewEffect, LtpExitEffect, MtpBlockedEffect, MtpTimerEffect,
           MoverOwnEffect, StpEffect, DispatchEffect DEF Next, System

(***************************************************************************)
(* At most one place works for a process.                                  *)
(***************************************************************************)
\* A process is in one of the working places at most, and in none before it is
\* submitted. A failing swap may give an owner more to a process, but only in EXIT.
WorkInv ==
    \A p \in Pcbs :
        /\ Working(p) <= 1
        /\ pcb[p].status = "NONE" => Working(p) = 0 /\ Exiting(p) = 0

\* The threads and the suspension timers only know submitted processes.
Submitted ==
    /\ \A t \in Threads :
          thread[t].pcb \in Pcbs => pcb[thread[t].pcb].status # "NONE"
    /\ \A p \in Pcbs, k \in 1 .. MaxIO :
          suspend_timer[p][k] # "none" => pcb[p].status # "NONE"

\* Nobody has a process before the start.
LEMMA InitCounts ==
    ASSUME Init, NEW p \in Pcbs
    PROVE  Working(p) = 0 /\ Exiting(p) = 0
<1>1. \A q \in Queues : Occurrences(p, queue[q]) = 0
  BY NoOccurrences DEF Init, InitState
<1>2. \A t \in Threads : Holds(t, p) = 0
  BY PlannerAssumption DEF Init, InitState, Holds, Num
<1>3. Num(exec = p) = 0 /\ Num(p \in io_timer) = 0
  BY PlannerAssumption DEF Init, InitState, Num
<1>4. Queued(p) = 0 /\ InHands(p) = 0
  BY <1>1, <1>2, Names DEF Queued, InHands
<1> QED BY <1>1, <1>2, <1>3, <1>4, Names DEF Working, Exiting

\* A submitted process never goes back.
LEMMA NoneIsLeft ==
    ASSUME NEW p \in Pcbs, Effect(p), pcb'[p].status = "NONE"
    PROVE  pcb[p].status = "NONE" /\ Same(p)
BY DEF Effect, Stays, Enters, Leaves, Ends, SwapLoses, Inside

\* Every step keeps the working places exclusive.
LEMMA WorkInvStep ==
    ASSUME CpuInv, IoDeviceExclusive, WorkInv, [Next]_vars
    PROVE  WorkInv'
<1> SUFFICES ASSUME NEW p \in Pcbs
             PROVE  /\ Working(p)' <= 1
                    /\ pcb'[p].status = "NONE" => Working(p)' = 0 /\ Exiting(p)' = 0
  BY DEF WorkInv
<1>1. Effect(p) /\ Working(p) \in Nat
  BY StepEffect, CountsTyped DEF CpuInv
<1>2. Working(p) <= 1 /\ (pcb[p].status = "NONE" => Working(p) = 0 /\ Exiting(p) = 0)
  BY DEF WorkInv
<1>3. Working(p)' <= 1
  BY <1>1, <1>2 DEF Effect, Stays, Same, Enters, Leaves, Ends, SwapLoses
<1>4. ASSUME pcb'[p].status = "NONE" PROVE Working(p)' = 0 /\ Exiting(p)' = 0
  BY <1>1, <1>2, <1>4, NoneIsLeft DEF Same
<1> QED BY <1>3, <1>4

\* A process in a place was submitted.
LEMMA PlacedIsSubmitted ==
    ASSUME TypeOK, WorkInv, NEW p \in Pcbs, Working(p) > 0 \/ Exiting(p) > 0
    PROVE  pcb[p].status # "NONE"
BY DEF WorkInv

\* The CPU and the I/O device count.
LEMMA PlaceCounts ==
    ASSUME TypeOK, NEW p, exec = p \/ p \in io_timer
    PROVE  Working(p) > 0
<1> DEFINE e == Num(exec = p)
           i == Num(p \in io_timer)
           q == Queued(p)
           h == InHands(p)
<1>1. /\ Working(p) = q + e + i + h
      /\ q \in Nat /\ e \in Nat /\ i \in Nat /\ h \in Nat
  BY Sums
<1>2. e = 1 \/ i = 1
  BY DEF Num
<1> HIDE DEF q, e, i, h
<1> QED BY <1>1, <1>2

\* A thread that only goes on, or lets go of its pcb, gets no other.
LEMMA KeepsHand ==
    ASSUME TypeOK, NEW t \in Threads,
           (\E pc \in Pcs : Goto(t, pc)) \/ (\E pc \in Pcs : Release(t, pc))
    PROVE  thread'[t].pcb \in {thread[t].pcb, NULL}
BY GotoMoves, GotoWithMoves DEF Release

\* The pcbs that a step puts in the hands of the threads come from a place or from
\* a suspension timer.
LEMMA HandsFrom ==
    ASSUME CpuInv, [Next]_vars, NEW t \in Threads, thread'[t].pcb \in Pcbs
    PROVE  LET h == thread'[t].pcb
           IN  \/ h = thread[t].pcb
               \/ Working(h) > 0 \/ Exiting(h) > 0
               \/ \E k \in 1 .. MaxIO : suspend_timer[h][k] # "none"
<1>0. TypeOK
  BY DEF CpuInv
<1> USE <1>0, TypeFacts, Names DEF At, AnyAt
<1>a. ASSUME NEW q \in Queues \ {"exit"}, queue[q] # <<>>
      PROVE  Working(Head(queue[q])) > 0
  <2>1. queue[q] \in Seq(Pcbs)
    OBVIOUS
  <2>2. Head(queue[q]) = queue[q][1] /\ 1 \in 1 .. Len(queue[q])
    BY <1>a, <2>1
  <2> QED BY <2>2, QueuedCounts
<1>1. CASE \E h \in Pcbs : ltp_new_process(h)
  BY <1>1 DEF ltp_new_process
<1>2. CASE LtpNew
  <2>1. \A r \in Threads \ {"ltp_new"} : thread'[r] = thread[r]
    BY <1>2, OwnThread
  <2>2. CASE LtpTakeSuspended \/ LtpTakeNew
    <3>1. \/ /\ thread'["ltp_new"].pcb = Head(queue["suspended_ready"])
             /\ queue["suspended_ready"] # <<>>
          \/ /\ thread'["ltp_new"].pcb = Head(queue["new"]) /\ queue["new"] # <<>>
          \/ thread'["ltp_new"].pcb = thread["ltp_new"].pcb
      BY <2>2, SMTT(30) DEF LtpTakeSuspended, LtpTakeNew, GotoWith, Goto
    <3> QED BY <1>a, <2>1, <3>1
  <2>3. CASE ~(LtpTakeSuspended \/ LtpTakeNew)
    <3>1. \/ \E pc \in Pcs : Goto("ltp_new", pc)
          \/ \E pc \in Pcs : Release("ltp_new", pc)
      BY <1>2, <2>3 DEF LtpNew, LtpWaitPlan, LtpWaitLevel, LtpAdmit, LtpReject, LtpDiscard,
         SemWait, Pcs, HoldingPcs, MoverPc
    <3> QED BY <2>1, <3>1, KeepsHand, PlannerAssumption
  <2> QED BY <2>2, <2>3
<1>3. CASE LtpExit
  <2>1. \A r \in Threads \ {"ltp_exit"} : thread'[r] = thread[r]
    BY <1>3, OwnThread
  <2>2. CASE ExitPop /\ queue["exit"] # <<>>
    <3>1. thread'["ltp_exit"].pcb = Head(queue["exit"])
      BY <2>2 DEF ExitPop, GotoWith
    <3>2. queue["exit"] \in Seq(Pcbs)
      OBVIOUS
    <3>3. Head(queue["exit"]) = queue["exit"][1] /\ 1 \in 1 .. Len(queue["exit"])
      BY <2>2, <3>2
    <3>4. Occurrences(Head(queue["exit"]), queue["exit"]) > 0
      BY <3>2, <3>3, OccursAt
    <3>5. Exiting(Head(queue["exit"])) > 0
      <4> DEFINE x == Occurrences(Head(queue["exit"]), queue["exit"])
                 y == Holds("ltp_exit", Head(queue["exit"]))
      <4>1. x \in Nat /\ y \in Nat /\ x > 0
        BY <3>4, CountsTyped DEF Holds, Num
      <4>2. Exiting(Head(queue["exit"])) = x + y
        BY DEF Exiting
      <4> HIDE DEF x, y
      <4> QED BY <4>1, <4>2
    <3> QED BY <2>1, <3>1, <3>5
  <2>3. CASE ~(ExitPop /\ queue["exit"] # <<>>)
    <3>1. thread'["ltp_exit"].pcb \in {thread["ltp_exit"].pcb, NULL}
      BY <1>3, <2>3, SMTT(30) DEF LtpExit, ExitWait, ExitPop, ExitFinish, SemWait, Goto, Release,
         GotoWith
    <3> QED BY <2>1, <3>1, KeepsHand, PlannerAssumption
  <2> QED BY <2>2, <2>3
<1>4. CASE MtpBlocked
  <2>1. \A r \in Threads \ {"mtp_blocked"} : thread'[r] = thread[r]
    BY <1>4, OwnThread
  <2>2. CASE BlockFails
    <3>1. thread'["mtp_blocked"].pcb = Head(queue["blocked"]) /\ queue["blocked"] # <<>>
      BY <2>2 DEF BlockFails, GotoWith
    <3> QED BY <1>a, <2>1, <3>1
  <2>3. CASE ~BlockFails
    <3>1. \/ \E pc \in Pcs : Goto("mtp_blocked", pc)
          \/ \E pc \in Pcs : Release("mtp_blocked", pc)
      BY <1>4, <2>3 DEF MtpBlocked, BlockedWaitPlanner, BlockedWaitIo, mtp_block_pcb,
         BlockFailExit, BlockFailRelease, SemWait, Pcs, HoldingPcs, MoverPc
    <3> QED BY <2>1, <3>1, KeepsHand, PlannerAssumption
  <2> QED BY <2>2, <2>3
<1>5. CASE MtpTimer
  <2>1. \A r \in Threads \ {"timer"} : thread'[r] = thread[r]
    BY <1>5, OwnThread
  <2>2. CASE \E h \in Pcbs : mtp_unblock_pcb(h)
    <3> PICK h \in Pcbs : mtp_unblock_pcb(h)
      BY <2>2
    <3>1. thread'["timer"].pcb = h /\ h \in io_timer
      BY DEF mtp_unblock_pcb, GotoWith
    <3>2. Working(h) > 0
      BY <3>1, PlaceCounts
    <3> QED BY <2>1, <3>1, <3>2
  <2>3. CASE \E h \in Pcbs, k \in 1 .. MaxIO : mtp_suspend_pcb(h, k)
    <3> PICK h \in Pcbs, k \in 1 .. MaxIO : mtp_suspend_pcb(h, k)
      BY <2>3
    <3>1. thread'["timer"].pcb = h /\ suspend_timer[h][k] # "none"
      BY DEF mtp_suspend_pcb, GotoWith
    <3> QED BY <2>1, <3>1
  <2>4. CASE ~(\E h \in Pcbs : mtp_unblock_pcb(h))
             /\ ~(\E h \in Pcbs, k \in 1 .. MaxIO : mtp_suspend_pcb(h, k))
    <3>1. \/ \E pc \in Pcs : Goto("timer", pc)
          \/ \E pc \in Pcs : Release("timer", pc)
          \/ thread' = thread
      BY <1>5, <2>4 DEF MtpTimer, UnblockToReady, UnblockSuspended, UnblockError,
         SuspendTimerFires, SuspendCheck, SuspendSwapped, SuspendSwapFails, Pcs,
         HoldingPcs, MoverPc
    <3> QED BY <2>1, <3>1, KeepsHand, PlannerAssumption
  <2> QED BY <2>2, <2>3, <2>4
<1>6. CASE \E m \in Movers : Mover(m)
  <2> PICK m \in Movers : Mover(m)
    BY <1>6
  <2>1. \A r \in Threads \ {m} : thread'[r] = thread[r]
    BY MoverEffect
  <2>2. thread'[m].pcb \in {thread[m].pcb, NULL} /\ m \in Threads
    <3>1. m \in Threads /\ ReturnPc(m) \in Pcs
      BY DEF Movers, Threads, ReturnPc, Pcs, HoldingPcs
    <3>2. (\E pc \in Pcs : Goto(m, pc)) \/ (\E pc \in Pcs : Release(m, pc))
      BY <3>1 DEF Mover, move_pcb_to_ready__fifo, SrtInsert, SrtStatus, SrtCheckBusy,
         SrtWaitInterrupt, SrtSendInterrupt, SrtFlagInterrupted, SrtPlan, SemWait, Return,
         Pcs, HoldingPcs, MoverPc
    <3> QED BY <3>1, <3>2, KeepsHand
  <2> QED BY <2>1, <2>2, PlannerAssumption
<1>7. CASE Stp
  <2>1. \A r \in Threads \ {"stp", "dispatch"} : thread'[r] = thread[r]
    BY <1>7, OwnThread
  <2>2. CASE StpPop
    <3>1. thread'["stp"].pcb = Head(queue["ready"]) /\ queue["ready"] # <<>>
          /\ thread'["dispatch"] = thread["dispatch"]
      BY <2>2 DEF StpPop, GotoWith
    <3> QED BY <1>a, <2>1, <3>1
  <2>3. CASE ~StpPop
    <3>1. /\ thread'["stp"].pcb \in {thread["stp"].pcb, NULL}
          /\ thread'["dispatch"].pcb = thread["dispatch"].pcb
      <4>1. CASE cpu_listen_dispatch_async
        BY <4>1 DEF cpu_listen_dispatch_async
      <4>2. CASE StpWaitPlan \/ StpWaitDispatch \/ cpu_dispatch_pcb
        BY <4>2, GotoMoves DEF StpWaitPlan, StpWaitDispatch, cpu_dispatch_pcb, SemWait
      <4> QED BY <1>7, <2>3, <4>1, <4>2 DEF Stp
    <3> QED BY <2>1, <3>1, PlannerAssumption
  <2> QED BY <2>2, <2>3
<1>8. CASE Dispatch
  <2>1. \A r \in Threads \ {"dispatch"} : thread'[r] = thread[r]
    BY <1>8, OwnThread
  <2>2. CASE cpu_recieve_pcb_async
    <3>1. thread'["dispatch"].pcb = exec
      BY <2>2 DEF cpu_recieve_pcb_async, GotoWith
    <3>2. Working(exec) > 0
      BY PlaceCounts
    <3> QED BY <2>1, <3>1, <3>2
  <2>3. CASE ~cpu_recieve_pcb_async
    <3>1. \/ \E pc \in Pcs : Goto("dispatch", pc)
          \/ \E pc \in Pcs : Release("dispatch", pc)
      BY <1>8, <2>3 DEF Dispatch, DispatchExit, DispatchIo, DispatchInterrupted,
         DispatchError, DispatchFinish, Pcs, HoldingPcs, MoverPc
    <3> QED BY <2>1, <3>1, KeepsHand, PlannerAssumption
  <2> QED BY <2>2, <2>3
<1>9. CASE Cpu \/ UNCHANGED vars
  BY <1>9, OwnThread DEF vars
<1> QED BY <1>1, <1>2, <1>3, <1>4, <1>5, <1>6, <1>7, <1>8, <1>9 DEF Next, System

\* Every step keeps the threads and the timers to submitted processes.
LEMMA SubmittedStep ==
    ASSUME CpuInv, IoDeviceExclusive, WorkInv, Submitted, [Next]_vars
    PROVE  Submitted'
<1>0. TypeOK
  BY DEF CpuInv
<1>1. \A p \in Pcbs : pcb[p].status # "NONE" => pcb'[p].status # "NONE"
  BY StepEffect, NoneIsLeft
<1>2. ASSUME NEW t \in Threads, thread'[t].pcb \in Pcbs
      PROVE  pcb'[thread'[t].pcb].status # "NONE"
  <2> DEFINE h == thread'[t].pcb
  <2>1. \/ h = thread[t].pcb
        \/ Working(h) > 0 \/ Exiting(h) > 0
        \/ \E k \in 1 .. MaxIO : suspend_timer[h][k] # "none"
    BY <1>2, HandsFrom
  <2>2. pcb[h].status # "NONE"
    BY <1>0, <1>2, <2>1, PlacedIsSubmitted DEF Submitted
  <2> QED BY <1>1, <1>2, <2>2
<1>3. ASSUME NEW p \in Pcbs, NEW k \in 1 .. MaxIO, suspend_timer'[p][k] # "none"
      PROVE  pcb'[p].status # "NONE"
  <2>1. CASE suspend_timer[p][k] # "none"
    BY <1>1, <2>1 DEF Submitted
  <2>2. CASE suspend_timer[p][k] = "none"
    <3>1. DispatchIo
      <4> USE DEF TypeOK
      <4>1. suspend_timer' # suspend_timer
        BY <1>3, <2>2
      <4>2. ~ \E h \in Pcbs : ltp_new_process(h)
        BY <4>1 DEF ltp_new_process
      <4>3. ~LtpNew
        BY <4>1 DEF LtpNew, LtpWaitPlan, LtpWaitLevel, LtpTakeSuspended, LtpTakeNew,
           LtpAdmit, LtpReject, LtpDiscard, SemWait
      <4>4. ~LtpExit
        BY <4>1 DEF LtpExit, ExitWait, ExitPop, ExitFinish, SemWait
      <4>5. ~MtpBlocked
        BY <4>1 DEF MtpBlocked, BlockedWaitPlanner, BlockedWaitIo, mtp_block_pcb,
           BlockFails, BlockFailExit, BlockFailRelease, SemWait
      <4>6. ~MtpTimer
        <5>1. \A h \in Pcbs : ~mtp_unblock_pcb(h)
          <6> SUFFICES ASSUME NEW h \in Pcbs, mtp_unblock_pcb(h) PROVE FALSE
            OBVIOUS
          <6>1. CASE suspend_timer' = suspend_timer
            BY <4>1, <6>1
          <6>2. CASE suspend_timer' # suspend_timer
            <7> DEFINE j == pcb[h].timer
            <7>1. /\ suspend_timer[h][j] = "sleeping"
                  /\ suspend_timer' = [suspend_timer EXCEPT ![h][j] = "done"]
              BY <6>2 DEF mtp_unblock_pcb
            <7> HIDE DEF j
            <7> QED BY <1>0, <1>3, <2>2, <7>1
          <6> QED BY <6>1, <6>2
        <5>2. \A h \in Pcbs, j \in 1 .. MaxIO :
                 ~SuspendTimerFires(h, j) /\ ~mtp_suspend_pcb(h, j)
          <6> SUFFICES ASSUME NEW h \in Pcbs, NEW j \in 1 .. MaxIO,
                              SuspendTimerFires(h, j) \/ mtp_suspend_pcb(h, j)
                       PROVE  FALSE
            OBVIOUS
          <6>1. /\ suspend_timer[h][j] \in {"sleeping", "fired"}
                /\ \E v \in {"fired", "done"} :
                      suspend_timer' = [suspend_timer EXCEPT ![h][j] = v]
            BY DEF SuspendTimerFires, mtp_suspend_pcb
          <6> QED BY <1>0, <1>3, <2>2, <6>1
        <5>3. ~UnblockToReady /\ ~UnblockSuspended /\ ~UnblockError /\ ~SuspendCheck
              /\ ~SuspendSwapped /\ ~SuspendSwapFails
          BY <4>1 DEF UnblockToReady, UnblockSuspended, UnblockError, SuspendCheck,
             SuspendSwapped, SuspendSwapFails
        <5> QED BY <5>1, <5>2, <5>3 DEF MtpTimer
      <4>7. \A t \in Movers : ~Mover(t)
        BY <1>0, <4>1, MoverEffect
      <4>8. ~Stp /\ ~Cpu
        BY <4>1 DEF Stp, StpWaitPlan, StpWaitDispatch, StpPop, cpu_dispatch_pcb,
           cpu_listen_dispatch_async, SemWait, Cpu, CpuReceive, CpuInterrupt, CpuReturn
      <4>9. Dispatch => DispatchIo
        BY <4>1 DEF Dispatch, cpu_recieve_pcb_async, DispatchExit, DispatchInterrupted,
           DispatchError, DispatchFinish
      <4> QED BY <4>1, <4>2, <4>3, <4>4, <4>5, <4>6, <4>7, <4>8, <4>9 DEF Next, System, vars
    <3> DEFINE e == thread["dispatch"].pcb
    <3>2. e \in Pcbs
      BY <1>0, <3>1, HandTyped, PcNames, Names DEF DispatchIo, Returned, At, TypeOK
    <3>3. e = p
      <4> DEFINE j == pcb[e].blocks + 1
      <4>1. suspend_timer' \in {[suspend_timer EXCEPT ![e][j] = "sleeping"],
                                suspend_timer}
        BY <3>1 DEF DispatchIo, move_pcb_to_blocked, Hand
      <4> HIDE DEF e, j
      <4> QED BY <1>0, <1>3, <2>2, <3>2, <4>1 DEF TypeOK
    <3>4. pcb[p].status # "NONE"
      BY <3>2, <3>3, Names DEF Submitted
    <3> QED BY <1>1, <3>4
  <2> QED BY <2>1, <2>2
<1> QED BY <1>2, <1>3 DEF Submitted

WorkingInv == CpuInv /\ IoDeviceExclusive /\ WorkInv /\ Submitted

\* For every value of the constants, with or without faults.
LEMMA WorkingInvariant == Spec => []WorkingInv
<1>1. Init => WorkInv /\ Submitted
  <2> SUFFICES ASSUME Init PROVE WorkInv /\ Submitted
    OBVIOUS
  <2>1. WorkInv
    BY InitCounts DEF WorkInv
  <2>2. Submitted
    BY PlannerAssumption DEF Init, InitState, Submitted
  <2> QED BY <2>1, <2>2
<1>2. CpuInv /\ IoDeviceExclusive /\ WorkInv /\ Submitted /\ [Next]_vars
         => WorkInv' /\ Submitted'
  BY WorkInvStep, SubmittedStep
<1> QED BY <1>1, <1>2, CpuInvariant, OneProcessOnDevice, PTL DEF Spec, WorkingInv

(***************************************************************************)
(* One owner.                                                              *)
(***************************************************************************)
OwnersExact == \A p \in Pcbs : Working(p) + Exiting(p) = Num(Inside(p))

\* Without the failed swap, every step keeps the number of owners exact.
LEMMA OwnersExactStep ==
    ASSUME ~SwapMayFail, WorkingInv, OwnersExact, [Next]_vars
    PROVE  OwnersExact'
<1> SUFFICES ASSUME NEW p \in Pcbs
             PROVE  Working(p)' + Exiting(p)' = Num(Inside(p)')
  BY DEF OwnersExact, Num
<1>0. TypeOK
  BY DEF WorkingInv, CpuInv
<1>1. Effect(p) /\ Working(p) \in Nat /\ Exiting(p) \in Nat
  BY <1>0, StepEffect, CountsTyped DEF WorkingInv
<1>2. /\ Inside(p) => Working(p) + Exiting(p) = 1
      /\ ~Inside(p) => Working(p) + Exiting(p) = 0
  BY DEF OwnersExact, Num
<1>3. CASE Stays(p)
  <2>1. Inside(p)' <=> Inside(p)
    <3>1. CASE pcb'[p].status = pcb[p].status
      BY <3>1 DEF Inside
    <3>2. CASE Inside(p)' /\ Working(p) > 0
      BY <1>1, <1>2, <3>2
    <3>3. CASE Inside(p)' /\ Alive(p) /\ Known(p)
      BY <3>3 DEF WorkingInv, Submitted, Known, Alive, Inside
    <3> QED BY <1>3, <3>1, <3>2, <3>3 DEF Stays
  <2> QED BY <1>2, <1>3, <2>1 DEF Stays, Same, Num
<1>4. CASE Enters(p)
  BY <1>1, <1>2, <1>4 DEF Enters, Inside, Num
<1>5. CASE Leaves(p)
  BY <1>1, <1>2, <1>5 DEF Leaves, Num
<1>6. CASE Ends(p)
  BY <1>1, <1>2, <1>6 DEF Ends, Inside, Num
<1>7. ~SwapLoses(p)
  BY DEF SwapLoses
<1> QED BY <1>1, <1>3, <1>4, <1>5, <1>6, <1>7 DEF Effect

\* Without the failed swap, a process inside has one owner in one of the two groups.
LEMMA OwnersInvariant ==
    ASSUME ~SwapMayFail
    PROVE  Spec => []OwnersExact
<1>1. Init => OwnersExact
  <2> SUFFICES ASSUME Init, NEW p \in Pcbs PROVE Working(p) + Exiting(p) = Num(Inside(p))
    BY DEF OwnersExact
  <2>1. pcb[p].status = "NONE"
    BY DEF Init, InitState
  <2> QED BY <2>1, InitCounts DEF Inside, Num
<1>2. WorkingInv /\ OwnersExact /\ [Next]_vars => OwnersExact'
  BY OwnersExactStep
<1> QED BY <1>1, <1>2, WorkingInvariant, PTL DEF Spec

\* The queues, the CPU, the I/O device and the hands of the threads (planner.c): if
\* swapp_process does not fail, for every value of the other constants, whether
\* timers start or not and in whatever order they fire, a process that was submitted
\* and not destroyed is in exactly one place, and any other in none. (With a failing
\* swap the property does not hold: mtp_suspend_pcb queues a process in EXIT that
\* another place still has.)
THEOREM EveryProcessOneOwner ==
    ASSUME ~SwapMayFail
    PROVE  Spec => []OneOwner
<1>1. WorkingInv /\ OwnersExact => OneOwner
  BY OwnersSplit DEF WorkingInv, CpuInv, OwnersExact, OneOwner, Inside
<1> QED BY <1>1, OwnersInvariant, WorkingInvariant, PTL

(***************************************************************************)
(* The READY queue is sorted.                                              *)
(***************************************************************************)
\* The estimate of a process changes when it is submitted and, under SRT, when the
\* CPU returns it.
BurstMoves(p) ==
    \/ pcb'[p].burst = pcb[p].burst
    \/ pcb[p].status = "NONE" /\ pcb'[p].burst = EstimacionInicial
    \/ Algoritmo = "SRT" /\ exec = p

\* Writing to one pcb keeps its estimate unless the estimate is written.
LEMMA BurstKept ==
    ASSUME pcb \in [Pcbs -> PcbFields], NEW h, NEW p \in Pcbs, NEW s, NEW e, NEW k, NEW j
    PROVE  /\ [pcb EXCEPT ![h].status = s][p].burst = pcb[p].burst
           /\ [pcb EXCEPT ![h].cond = s][p].burst = pcb[p].burst
           /\ [pcb EXCEPT ![h].timer = s][p].burst = pcb[p].burst
           /\ [pcb EXCEPT ![h].status = s, ![h].error = e][p].burst = pcb[p].burst
           /\ [pcb EXCEPT ![h].prev_status = s, ![h].status = e][p].burst = pcb[p].burst
           /\ [pcb EXCEPT ![h].status = s, ![h].blocks = k, ![h].timer = j][p].burst
                 = pcb[p].burst
BY DEF PcbFields

\* Every step moves the estimates this way.
LEMMA BurstStep ==
    ASSUME TypeOK, [Next]_vars, NEW p \in Pcbs
    PROVE  BurstMoves(p)
<1>0. pcb \in [Pcbs -> PcbFields]
  BY DEF TypeOK
<1>1. \A h, err : move_pcb_to_exit(h, err) => pcb'[p].burst = pcb[p].burst
  BY <1>0 DEF move_pcb_to_exit, PcbFields
<1>2. CASE \E h \in Pcbs : ltp_new_process(h)
  <2> PICK h \in Pcbs : ltp_new_process(h)
    BY <1>2
  <2>1. pcb[h].status = "NONE" /\ pcb' = [pcb EXCEPT ![h].status = "NEW",
                                                     ![h].burst = EstimacionInicial]
    BY DEF ltp_new_process, move_pcb_to_new
  <2> QED BY <1>0, <2>1 DEF BurstMoves, PcbFields
<1>3. CASE LtpNew \/ LtpExit
  <2>1. CASE LtpReject
    BY <1>1, <2>1 DEF LtpReject, BurstMoves
  <2>2. CASE ExitFinish
    BY <1>0, <2>2, BurstKept DEF ExitFinish, BurstMoves
  <2>3. CASE pcb' = pcb
    BY <2>3 DEF BurstMoves
  <2> QED BY <1>3, <2>1, <2>2, <2>3 DEF LtpNew, LtpWaitPlan, LtpWaitLevel, LtpTakeSuspended,
             LtpTakeNew, LtpAdmit, LtpDiscard, LtpExit, ExitWait, ExitPop, SemWait
<1>4. CASE MtpBlocked
  <2>1. CASE BlockFailExit
    BY <1>1, <2>1 DEF BlockFailExit, BurstMoves
  <2>2. CASE pcb' = pcb
    BY <2>2 DEF BurstMoves
  <2> QED BY <1>4, <2>1, <2>2 DEF MtpBlocked, BlockedWaitPlanner, BlockedWaitIo,
             mtp_block_pcb, BlockFails, BlockFailRelease, SemWait
<1>5. CASE MtpTimer
  <2>1. CASE UnblockError \/ SuspendSwapFails
    BY <1>1, <2>1 DEF UnblockError, SuspendSwapFails, BurstMoves
  <2>2. CASE UnblockSuspended \/ SuspendSwapped
    <3>1. \/ pcb' = [pcb EXCEPT ![thread["timer"].pcb].status = "SUSPENDED_READY"]
          \/ pcb' = [pcb EXCEPT ![thread["timer"].pcb].status = "SUSPENDED_BLOCKED"]
          \/ pcb' = pcb
      BY <2>2 DEF UnblockSuspended, SuspendSwapped, move_pcb_to_suspended_ready,
         move_pcb_to_suspended_blocked
    <3> QED BY <1>0, <3>1 DEF BurstMoves, PcbFields
  <2>3. CASE \E h \in Pcbs, k \in 1 .. MaxIO : mtp_suspend_pcb(h, k)
    BY <1>0, <2>3, BurstKept DEF mtp_suspend_pcb, BurstMoves
  <2>4. CASE pcb' = pcb
    BY <2>4 DEF BurstMoves
  <2> QED BY <1>5, <2>1, <2>2, <2>3, <2>4 DEF MtpTimer, mtp_unblock_pcb, UnblockToReady,
             SuspendTimerFires, SuspendCheck
<1>6. ASSUME NEW t \in Movers, Mover(t) PROVE BurstMoves(p)
  <2>1. CASE move_pcb_to_ready__fifo(t) \/ SrtStatus(t)
    <3>1. \/ pcb' = [pcb EXCEPT ![Hand(t)].status = "READY"]
          \/ pcb' = [pcb EXCEPT ![Hand(t)].prev_status = pcb[Hand(t)].status,
                                ![Hand(t)].status = "READY"]
          \/ pcb' = pcb
      BY <2>1 DEF move_pcb_to_ready__fifo, SrtStatus
    <3> QED BY <1>0, <3>1 DEF BurstMoves, PcbFields
  <2>2. CASE pcb' = pcb
    BY <2>2 DEF BurstMoves
  <2> QED BY <1>6, <2>1, <2>2 DEF Mover, SrtInsert, SrtCheckBusy, SrtWaitInterrupt,
             SrtSendInterrupt, SrtFlagInterrupted, SrtPlan, SemWait
<1>7. CASE Stp \/ Cpu
  <2>1. CASE StpPop
    BY <1>0, <2>1, BurstKept DEF StpPop, BurstMoves
  <2>2. CASE pcb' = pcb
    BY <2>2 DEF BurstMoves
  <2> QED BY <1>7, <2>1, <2>2 DEF Stp, StpWaitPlan, StpWaitDispatch, cpu_dispatch_pcb,
             cpu_listen_dispatch_async, SemWait, Cpu, CpuReceive, CpuInterrupt, CpuReturn
<1>8. CASE Dispatch
  <2>1. CASE cpu_recieve_pcb_async
    <3> DEFINE next == IF Algoritmo = "SRT"
                       THEN NextEstimatedBurst(pcb[exec].burst, core.burst)
                       ELSE pcb[exec].burst
    <3>1. pcb' = [pcb EXCEPT ![exec].cond = core.cond, ![exec].burst = next]
      BY <1>0, <2>1 DEF cpu_recieve_pcb_async, PcbFields
    <3>2. next = pcb[exec].burst \/ Algoritmo = "SRT"
      OBVIOUS
    <3> HIDE DEF next
    <3> QED BY <1>0, <3>1, <3>2 DEF BurstMoves, PcbFields
  <2>2. CASE DispatchExit \/ DispatchError
    BY <1>1, <2>2 DEF DispatchExit, DispatchError, BurstMoves
  <2>3. CASE DispatchIo
    <3>1. PICK s, k, j : pcb' = [pcb EXCEPT ![Hand("dispatch")].status = s,
                                            ![Hand("dispatch")].blocks = k,
                                            ![Hand("dispatch")].timer = j]
      <4> DEFINE h == Hand("dispatch")
                 n == pcb[h].blocks + 1
      <4>1. \E j : pcb' = [pcb EXCEPT ![h].status = "BLOCKED", ![h].blocks = n,
                                      ![h].timer = j]
        BY <2>3 DEF DispatchIo, move_pcb_to_blocked
      <4> HIDE DEF h, n
      <4> QED BY <4>1 DEF h
    <3> QED BY <1>0, <3>1, BurstKept DEF BurstMoves
  <2>4. CASE DispatchFinish \/ DispatchInterrupted
    <3>1. \/ pcb' = [pcb EXCEPT ![Hand("dispatch")].cond = "NULL_CONDITION"]
          \/ pcb' = pcb
      BY <2>4 DEF DispatchFinish, DispatchInterrupted
    <3> QED BY <1>0, <3>1 DEF BurstMoves, PcbFields
  <2> QED BY <1>8, <2>1, <2>2, <2>3, <2>4 DEF Dispatch
<1>9. CASE UNCHANGED vars
  BY <1>9 DEF vars, BurstMoves
<1> QED BY <1>2, <1>3, <1>4, <1>5, <1>6, <1>7, <1>8, <1>9 DEF Next, System

\* The processes of READY have been submitted and are not on the CPU.
LEMMA ReadyOffCpu ==
    ASSUME WorkingInv, NEW i \in 1 .. Len(queue["ready"])
    PROVE  LET p == queue["ready"][i]
           IN  p \in Pcbs /\ pcb[p].status # "NONE" /\ exec # p
<1> DEFINE p == queue["ready"][i]
<1>0. TypeOK
  BY DEF WorkingInv, CpuInv
<1>1. p \in Pcbs
  BY <1>0, TypeFacts, Names
<1>2. Working(p) > 0
  BY <1>0, Names, QueuedCounts
<1>3. pcb[p].status # "NONE"
  BY <1>0, <1>1, <1>2, PlacedIsSubmitted DEF WorkingInv
<1>4. exec # p
  <2> SUFFICES ASSUME exec = p PROVE FALSE
    OBVIOUS
  <2>1. Occurrences(p, queue["ready"]) > 0
    BY <1>0, Names, TypeFacts, OccursAt
  <2>2. Num(exec = p) = 1
    BY DEF Num
  <2>3. Working(p) <= 1
    BY <1>1 DEF WorkingInv, WorkInv
  <2> DEFINE n == Occurrences(p, queue["new"])
             r == Occurrences(p, queue["ready"])
             b == Occurrences(p, queue["blocked"])
             s == Occurrences(p, queue["suspended_ready"])
             w == Working(p)
             x == Num(exec = p)
             o == Num(p \in io_timer)
             h == InHands(p)
  <2>4. /\ n \in Nat /\ r \in Nat /\ b \in Nat /\ s \in Nat
        /\ x \in Nat /\ o \in Nat /\ h \in Nat
    <3>1. n \in Nat /\ r \in Nat /\ b \in Nat /\ s \in Nat
      BY <1>0, CountsTyped, Names
    <3>2. x \in Nat /\ o \in Nat
      BY DEF Num
    <3>3. h \in Nat
      BY <1>0, CountsTyped
    <3> QED BY <3>1, <3>2, <3>3
  <2>5. w = (n + r + b + s) + x + o + h /\ r > 0 /\ x = 1 /\ w <= 1
    BY <2>1, <2>2, <2>3 DEF Working, Queued
  <2> HIDE DEF n, r, b, s, w, x, o, h
  <2> QED BY <2>4, <2>5
<1> QED BY <1>1, <1>3, <1>4

\* Every step writes only to a pcb that a console submits, a thread has in hand, the
\* CPU has or is about to get, or a suspension timer names.
LEMMA OnlyTheirs ==
    ASSUME TypeOK, [Next]_vars, NEW p \in Pcbs, pcb'[p] # pcb[p]
    PROVE  \/ ltp_new_process(p)
           \/ Known(p)
           \/ exec = p
           \/ queue["ready"] # <<>> /\ Head(queue["ready"]) = p
           \/ \E k \in 1 .. MaxIO : suspend_timer[p][k] # "none"
<1> DEFINE theirs == \/ ltp_new_process(p) \/ Known(p) \/ exec = p
                     \/ queue["ready"] # <<>> /\ Head(queue["ready"]) = p
                     \/ \E k \in 1 .. MaxIO : suspend_timer[p][k] # "none"
<1> SUFFICES theirs
  OBVIOUS
<1>0. pcb \in [Pcbs -> PcbFields]
  BY DEF TypeOK
<1>a. ASSUME NEW t \in Threads, \A r \in Pcbs \ {thread[t].pcb} : pcb'[r] = pcb[r]
      PROVE  theirs
  BY <1>a DEF Known
<1>b. \A h, err : move_pcb_to_exit(h, err) => \A r \in Pcbs \ {h} : pcb'[r] = pcb[r]
  BY <1>0 DEF move_pcb_to_exit
<1> USE Names, <1>0
<1>1. CASE \E h \in Pcbs : ltp_new_process(h)
  <2> PICK h \in Pcbs : ltp_new_process(h)
    BY <1>1
  <2>1. h = p
    BY DEF ltp_new_process, move_pcb_to_new
  <2> QED BY <2>1
<1>2. CASE LtpNew
  <2>1. LtpReject
    BY <1>2 DEF LtpNew, LtpWaitPlan, LtpWaitLevel, LtpTakeSuspended, LtpTakeNew, LtpAdmit,
       LtpDiscard, SemWait
  <2> QED BY <1>a, <1>b, <2>1 DEF LtpReject
<1>3. CASE LtpExit
  <2>1. ExitFinish
    BY <1>3 DEF LtpExit, ExitWait, ExitPop, SemWait
  <2>2. \A r \in Pcbs \ {thread["ltp_exit"].pcb} : pcb'[r] = pcb[r]
    BY <2>1 DEF ExitFinish
  <2> QED BY <1>a, <2>2
<1>4. CASE MtpBlocked
  <2>1. BlockFailExit
    BY <1>4 DEF MtpBlocked, BlockedWaitPlanner, BlockedWaitIo, mtp_block_pcb, BlockFails,
       BlockFailRelease, SemWait
  <2> QED BY <1>a, <1>b, <2>1 DEF BlockFailExit
<1>5. CASE MtpTimer
  <2>1. CASE UnblockError \/ SuspendSwapFails
    BY <1>a, <1>b, <2>1 DEF UnblockError, SuspendSwapFails
  <2>2. CASE UnblockSuspended \/ SuspendSwapped
    <3>1. \A r \in Pcbs \ {thread["timer"].pcb} : pcb'[r] = pcb[r]
      BY <2>2 DEF UnblockSuspended, SuspendSwapped, move_pcb_to_suspended_ready,
         move_pcb_to_suspended_blocked
    <3> QED BY <1>a, <3>1
  <2>3. CASE \E h \in Pcbs, k \in 1 .. MaxIO : mtp_suspend_pcb(h, k)
    <3> PICK h \in Pcbs, k \in 1 .. MaxIO : mtp_suspend_pcb(h, k)
      BY <2>3
    <3>1. h = p /\ suspend_timer[h][k] = "fired"
      BY DEF mtp_suspend_pcb
    <3> QED BY <3>1
  <2> QED BY <1>5, <2>1, <2>2, <2>3 DEF MtpTimer, mtp_unblock_pcb, UnblockToReady,
             SuspendTimerFires, SuspendCheck
<1>6. ASSUME NEW t \in Movers, Mover(t) PROVE theirs
  <2>1. move_pcb_to_ready__fifo(t) \/ SrtStatus(t)
    BY <1>6 DEF Mover, SrtInsert, SrtCheckBusy, SrtWaitInterrupt, SrtSendInterrupt,
       SrtFlagInterrupted, SrtPlan, SemWait
  <2>2. \A r \in Pcbs \ {thread[t].pcb} : pcb'[r] = pcb[r]
    BY <2>1 DEF move_pcb_to_ready__fifo, SrtStatus, Hand
  <2> QED BY <1>a, <2>2 DEF Movers, Threads
<1>7. CASE Stp \/ Cpu
  <2>1. StpPop
    BY <1>7 DEF Stp, StpWaitPlan, StpWaitDispatch, cpu_dispatch_pcb,
       cpu_listen_dispatch_async, SemWait, Cpu, CpuReceive, CpuInterrupt, CpuReturn
  <2> QED BY <2>1 DEF StpPop
<1>8. CASE Dispatch
  <2>1. CASE cpu_recieve_pcb_async
    BY <2>1 DEF cpu_recieve_pcb_async
  <2>2. CASE DispatchExit \/ DispatchError
    BY <1>a, <1>b, <2>2 DEF DispatchExit, DispatchError, Hand
  <2>3. CASE DispatchIo \/ DispatchFinish
    <3>1. \A r \in Pcbs \ {thread["dispatch"].pcb} : pcb'[r] = pcb[r]
      BY <2>3 DEF DispatchIo, DispatchFinish, move_pcb_to_blocked, Hand
    <3> QED BY <1>a, <3>1
  <2> QED BY <1>8, <2>1, <2>2, <2>3 DEF Dispatch, DispatchInterrupted
<1> QED BY <1>1, <1>2, <1>3, <1>4, <1>5, <1>6, <1>7, <1>8 DEF Next, System, vars

\* A process is submitted by its console.
LEMMA OnlySubmitted ==
    ASSUME WorkingInv, [Next]_vars, NEW p \in Pcbs, pcb[p].status = "NONE",
           pcb'[p] # pcb[p]
    PROVE  ltp_new_process(p)
<1>0. TypeOK
  BY DEF WorkingInv, CpuInv
<1>1. ~Known(p) /\ \A k \in 1 .. MaxIO : suspend_timer[p][k] = "none"
  BY DEF WorkingInv, Submitted, Known
<1>2. ~ (queue["ready"] # <<>> /\ Head(queue["ready"]) = p)
  <2> SUFFICES ASSUME queue["ready"] # <<>>, Head(queue["ready"]) = p PROVE FALSE
    OBVIOUS
  <2>1. 1 \in 1 .. Len(queue["ready"]) /\ queue["ready"][1] = p
    BY <1>0, TypeFacts, Names
  <2> QED BY <2>1, ReadyOffCpu
<1>3. exec # p
  BY <1>0, PlaceCounts, PlacedIsSubmitted DEF WorkingInv
<1> QED BY <1>0, <1>1, <1>2, <1>3, OnlyTheirs

\* Under FIFO every submitted process has the same estimate.
SameBursts ==
    Algoritmo = "FIFO" =>
        \A p \in Pcbs : pcb[p].status # "NONE" => pcb[p].burst = EstimacionInicial

LEMMA SameBurstsStep ==
    ASSUME WorkingInv, SameBursts, [Next]_vars
    PROVE  SameBursts'
<1> SUFFICES ASSUME Algoritmo = "FIFO", NEW p \in Pcbs, pcb'[p].status # "NONE"
             PROVE  pcb'[p].burst = EstimacionInicial
  BY DEF SameBursts
<1>1. CASE pcb[p].status # "NONE"
  BY <1>1, BurstStep DEF BurstMoves, SameBursts, WorkingInv, CpuInv
<1>2. CASE pcb[p].status = "NONE"
  <2>1. ltp_new_process(p)
    BY <1>2, OnlySubmitted
  <2>2. pcb \in [Pcbs -> PcbFields]
    BY DEF WorkingInv, CpuInv, TypeOK
  <2> QED BY <2>1, <2>2 DEF ltp_new_process, move_pcb_to_new, PcbFields
<1> QED BY <1>1, <1>2

\* A queue whose processes keep their estimates stays sorted, and so does its tail.
LEMMA StillSorted ==
    ASSUME NEW q \in Seq(Pcbs), NEW old, NEW new,
           \A i \in 1 .. Len(q) : new[q[i]].burst = old[q[i]].burst,
           BurstsSorted(q, old)
    PROVE  BurstsSorted(q, new) /\ (q # <<>> => BurstsSorted(Tail(q), new))
<1>1. BurstsSorted(q, new)
  BY DEF BurstsSorted
<1>2. ASSUME q # <<>> PROVE BurstsSorted(Tail(q), new)
  <2>1. /\ Len(Tail(q)) = Len(q) - 1 /\ Len(q) \in Nat
        /\ \A i \in 1 .. Len(Tail(q)) : Tail(q)[i] = q[i + 1] /\ i + 1 \in 1 .. Len(q)
    BY <1>2
  <2> SUFFICES ASSUME NEW i \in 1 .. Len(Tail(q)), NEW j \in 1 .. Len(Tail(q)), i < j
               PROVE  new[Tail(q)[i]].burst <= new[Tail(q)[j]].burst
    BY DEF BurstsSorted
  <2>2. i + 1 < j + 1
    BY <2>1
  <2> QED BY <1>1, <2>1, <2>2 DEF BurstsSorted
<1> QED BY <1>1, <1>2

\* Who changes the READY queue: the three callers of move_pcb_to_ready and the
\* controller of the short term.
LEMMA ReadyChanges ==
    ASSUME TypeOK, [Next]_vars, queue'["ready"] # queue["ready"]
    PROVE  \/ \E t \in Movers : move_pcb_to_ready__fifo(t) \/ SrtInsert(t)
           \/ StpPop
<1> USE Names, TypeFacts DEF Push
<1>1. ~ \E p \in Pcbs : ltp_new_process(p)
  BY DEF ltp_new_process, move_pcb_to_new
<1>2. ~LtpNew /\ ~LtpExit
  BY DEF LtpNew, LtpExit, LtpWaitPlan, LtpWaitLevel, LtpTakeSuspended, LtpTakeNew, LtpAdmit,
     LtpReject, LtpDiscard, ExitWait, ExitPop, ExitFinish, SemWait, move_pcb_to_exit
<1>3. ~MtpBlocked
  BY DEF MtpBlocked, BlockedWaitPlanner, BlockedWaitIo, mtp_block_pcb, BlockFails,
     BlockFailExit, BlockFailRelease, SemWait, move_pcb_to_exit
<1>4. ~MtpTimer
  BY DEF MtpTimer, mtp_unblock_pcb, UnblockToReady, UnblockSuspended, UnblockError,
     SuspendTimerFires, mtp_suspend_pcb, SuspendCheck, SuspendSwapped, SuspendSwapFails,
     move_pcb_to_exit, move_pcb_to_suspended_ready, move_pcb_to_suspended_blocked
<1>5. \A t \in Movers : Mover(t) => move_pcb_to_ready__fifo(t) \/ SrtInsert(t)
  BY DEF Mover, SrtStatus, SrtCheckBusy, SrtWaitInterrupt, SrtSendInterrupt,
     SrtFlagInterrupted, SrtPlan, SemWait
<1>6. Stp \/ Cpu => StpPop
  BY DEF Stp, StpWaitPlan, StpWaitDispatch, cpu_dispatch_pcb, cpu_listen_dispatch_async,
     SemWait, Cpu, CpuReceive, CpuInterrupt, CpuReturn
<1>7. ~Dispatch
  BY DEF Dispatch, cpu_recieve_pcb_async, DispatchExit, DispatchIo, DispatchInterrupted,
     DispatchError, DispatchFinish, move_pcb_to_exit, move_pcb_to_blocked
<1> QED BY <1>1, <1>2, <1>3, <1>4, <1>5, <1>6, <1>7 DEF Next, System, vars

\* Every step keeps READY sorted.
LEMMA ReadySortedStep ==
    ASSUME WorkingInv, SameBursts, ReadySorted, [Next]_vars
    PROVE  ReadySorted'
<1> DEFINE ready == queue["ready"]
<1>0. TypeOK /\ ready \in Seq(Pcbs) /\ queue \in [Queues -> Seq(Pcbs)]
  BY TypeFacts, Names DEF WorkingInv, CpuInv
<1>1. \A i \in 1 .. Len(ready) : ready[i] \in Pcbs /\ pcb[ready[i]].status # "NONE"
                                 /\ exec # ready[i]
  BY ReadyOffCpu
<1>2. \A i \in 1 .. Len(ready) : pcb'[ready[i]].burst = pcb[ready[i]].burst
  BY <1>0, <1>1, BurstStep DEF BurstMoves
<1>3. BurstsSorted(ready, pcb)
  BY DEF ReadySorted
<1>4. BurstsSorted(ready, pcb') /\ (ready # <<>> => BurstsSorted(Tail(ready), pcb'))
  BY <1>0, <1>2, <1>3, StillSorted
<1>5. CASE queue'["ready"] = ready
  BY <1>4, <1>5 DEF ReadySorted
<1>6. CASE StpPop
  <2>1. queue'["ready"] = Tail(ready) /\ ready # <<>>
    BY <1>0, <1>6, Names DEF StpPop
  <2> QED BY <1>4, <2>1 DEF ReadySorted
<1>7. ASSUME NEW t \in Movers, SrtInsert(t) PROVE ReadySorted'
  <2>1. Hand(t) \in Pcbs
    BY <1>0, <1>7, HandTyped
       DEF SrtInsert, At, Hand, TypeOK, HoldingPcs, MoverPc, Movers, Threads
  <2>2. queue'["ready"] = InsertReady(ready, Hand(t), pcb) /\ pcb' = pcb
    BY <1>0, <1>7, Names DEF SrtInsert
  <2>3. \A p \in Pcbs : pcb[p].burst \in Nat
    BY <1>0 DEF TypeOK, PcbFields
  <2>4. BurstsSorted(InsertReady(ready, Hand(t), pcb), pcb)
    BY <1>0, <1>3, <2>1, <2>3, InsertInOrder
  <2> QED BY <2>2, <2>4 DEF ReadySorted
<1>8. ASSUME NEW t \in Movers, move_pcb_to_ready__fifo(t) PROVE ReadySorted'
  <2> DEFINE h == Hand(t)
             new == Append(ready, h)
  <2>1. h \in Pcbs
    BY <1>0, <1>8, HandTyped
       DEF move_pcb_to_ready__fifo, At, Hand, TypeOK, HoldingPcs, MoverPc, Movers, Threads
  <2>2. queue'["ready"] = new /\ Algoritmo = "FIFO"
    BY <1>0, <1>8, Names DEF move_pcb_to_ready__fifo, Push
  <2>3. pcb[h].status # "NONE"
    BY <2>1 DEF WorkingInv, Submitted, Hand, Movers, Threads
  <2>4. \A i \in 1 .. Len(new) : new[i] \in Pcbs /\ pcb[new[i]].status # "NONE"
    BY <1>0, <1>1, <2>1, <2>3
  <2>5. Len(new) \in Nat /\ EstimacionInicial \in Nat
    BY <1>0, <2>1, PlannerAssumption
  <2> HIDE DEF new
  <2>6. \A i \in 1 .. Len(new) : pcb[new[i]].burst = EstimacionInicial
    BY <2>2, <2>4 DEF SameBursts
  <2>7. \A i \in 1 .. Len(new) : pcb'[new[i]].burst = EstimacionInicial
    <3> TAKE i \in 1 .. Len(new)
    <3>1. BurstMoves(new[i])
      BY <1>0, <2>4, BurstStep
    <3> QED BY <2>2, <2>4, <2>6, <3>1 DEF BurstMoves
  <2> QED BY <2>2, <2>5, <2>7 DEF ReadySorted, BurstsSorted
<1> QED BY <1>0, <1>5, <1>6, <1>7, <1>8, ReadyChanges

\* planner.c, move_pcb_to_ready__srt and squeue_insert_in_order: for every number of
\* processes, degree and estimate, and with every fault, the READY queue is sorted by
\* estimated burst at every moment. Each insertion compares with estimates that no
\* other thread changes while their processes wait: that is what the owner argument
\* is needed for.
THEOREM ReadyIsSorted == Spec => []ReadySorted
<1>1. Init => SameBursts /\ ReadySorted
  <2> SUFFICES ASSUME Init PROVE SameBursts /\ ReadySorted
    OBVIOUS
  <2>1. queue["ready"] = <<>> /\ \A p \in Pcbs : pcb[p].status = "NONE"
    BY Names DEF Init, InitState
  <2> QED BY <2>1 DEF SameBursts, ReadySorted, BurstsSorted
<1>2. WorkingInv /\ SameBursts /\ ReadySorted /\ [Next]_vars => SameBursts' /\ ReadySorted'
  BY SameBurstsStep, ReadySortedStep
<1> QED BY <1>1, <1>2, WorkingInvariant, PTL DEF Spec

=============================================================================
