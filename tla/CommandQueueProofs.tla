------------------------- MODULE CommandQueueProofs -------------------------
(***************************************************************************)
(* Proofs about the command queue, for every set of lanes and calls, every *)
(* bound on caps and every number of resets.                               *)
(***************************************************************************)
EXTENDS CommandQueue, FiniteSetTheorems, SequenceTheorems, TLAPS

(***************************************************************************)
(* The inductive invariant.  It speaks of queues q, active sets a, closures *)
(* r, generations g, promises p, enqueue times t, clocks c as parameters,   *)
(* so that one lemma about the pump serves every action that pumps.        *)
(***************************************************************************)
InQueue(q, e) == \E i \in 1..Len(q[LaneOf[e]]) : q[LaneOf[e]][i] = e

QueueSound(q, r, p, t, c) ==
    \A l \in Lanes : \A i \in 1..Len(q[l]) :
        /\ LaneOf[q[l][i]] = l
        /\ p[q[l][i]] = "pending"
        /\ r[q[l][i]] = NotRunning
        /\ t[q[l][i]] < c[l]

QueueSorted(q, t) ==
    \A l \in Lanes : \A i, j \in 1..Len(q[l]) : i < j => t[q[l][i]] < t[q[l][j]]

ActiveExact(a, r, g) ==
    \A l \in Lanes : a[l] = {e \in Entries : LaneOf[e] = l /\ r[e] = g[l]}

TasksSound(r, g, p, t, c) ==
    \A e \in Entries :
        /\ r[e] # NotRunning => p[e] = "pending" /\ r[e] <= g[LaneOf[e]]
        /\ r[e] # NotRunning \/ p[e] \in {"resolved", "rejected"} => t[e] < c[LaneOf[e]]

PendingLocated(q, r, p) ==
    \A e \in Entries : p[e] = "pending" => InQueue(q, e) \/ r[e] # NotRunning

StartedFirst(q, r, p, t) ==
    \A f \in Entries : (r[f] # NotRunning \/ p[f] \in {"resolved", "rejected"}) =>
        \A i \in 1..Len(q[LaneOf[f]]) : t[f] < t[q[LaneOf[f]][i]]

LanesConsistent(q, a, r, g, p, t, c) ==
    /\ QueueSound(q, r, p, t, c)
    /\ QueueSorted(q, t)
    /\ ActiveExact(a, r, g)
    /\ TasksSound(r, g, p, t, c)
    /\ PendingLocated(q, r, p)
    /\ StartedFirst(q, r, p, t)

\* The tasks waitForActiveTasks was given had all been started: they are not
\* started again, so one that left the active sets stays out of them.
WaitedStarted == \A e \in activeAtStart : Started(e)

IInv ==
    /\ TypeOK
    /\ LanesConsistent(queue, active, taskGeneration, generation, promise, enqueuedAt, now)
    /\ NoStrandedWork
    /\ WaitedStarted
    /\ DrainedIsTrue

-----------------------------------------------------------------------------
(* What the pump does to one queue.                                         *)

\* What is left of a queue when its first n entries have been shifted.
LEMMA RemainingIs ==
    ASSUME NEW q \in Seq(Entries), NEW n \in 0..Len(q)
    PROVE  /\ Remaining(q, n) \in Seq(Entries)
           /\ Len(Remaining(q, n)) = Len(q) - n
           /\ \A i \in 1..(Len(q) - n) : Remaining(q, n)[i] = q[n + i]
<1>1. Len(q) \in Nat /\ \A i \in (n + 1)..Len(q) : q[i] \in Entries
  BY LenProperties, ElementOfSeq
<1>2. n + 1 \in Int /\ Len(q) \in Int
  BY <1>1
<1>3. /\ SubSeq(q, n + 1, Len(q)) \in Seq(Entries)
      /\ Len(SubSeq(q, n + 1, Len(q))) = IF n + 1 <= Len(q) THEN Len(q) - (n + 1) + 1 ELSE 0
      /\ \A i \in 1..(Len(q) - (n + 1) + 1) : SubSeq(q, n + 1, Len(q))[i] = q[(n + 1) + i - 1]
  BY <1>1, <1>2, SubSeqProperties
<1>4. QED
  BY <1>1, <1>3 DEF Remaining

\* Shifting n entries off a queue without duplicates starts n tasks.
LEMMA ShiftedCardinality ==
    ASSUME NEW q \in Seq(Entries), NEW n \in 0..Len(q),
           \A i, j \in 1..Len(q) : q[i] = q[j] => i = j
    PROVE  /\ Shifted(q, n) \subseteq Entries
           /\ IsFiniteSet(Shifted(q, n))
           /\ Cardinality(Shifted(q, n)) = n
<1> DEFINE f == [i \in 1..n |-> q[i]]
<1>1. Len(q) \in Nat /\ n \in Nat /\ 1..n \subseteq 1..Len(q)
  BY LenProperties
<1>2. IsFiniteSet(1..n) /\ Cardinality(1..n) = n
  BY <1>1, FS_Interval
<1>3. f \in Surjection(1..n, Shifted(q, n))
  BY DEF Surjection, Shifted
<1>4. f \in Injection(1..n, Shifted(q, n))
  BY <1>1 DEF Injection, IsInjective, Shifted
<1>5. /\ IsFiniteSet(Shifted(q, n))
      /\ Cardinality(Shifted(q, n)) = Cardinality(1..n) <=> f \in Injection(1..n, Shifted(q, n))
  BY <1>2, <1>3, FS_Surjection
<1>6. Shifted(q, n) \subseteq Entries
  BY <1>1, ElementOfSeq DEF Shifted
<1>7. QED
  BY <1>2, <1>4, <1>5, <1>6

\* The pump takes no more entries than there are, fills the lane if any are
\* left, and does not take it over its cap.
LEMMA PumpFills ==
    ASSUME NEW q \in Seq(Entries), NEW a \in SUBSET Entries, NEW m \in Nat,
           \A i, j \in 1..Len(q) : q[i] = q[j] => i = j,
           \A i \in 1..Len(q) : q[i] \notin a
    PROVE  LET n == PumpCount(q, a, m) IN
           /\ n \in 0..Len(q)
           /\ Remaining(q, n) # << >> => Cardinality(a \cup Shifted(q, n)) >= m
           /\ n # 0 => Cardinality(a \cup Shifted(q, n)) <= m
<1> DEFINE n == PumpCount(q, a, m)
<1>1. Len(q) \in Nat
  BY LenProperties
<1>2. IsFiniteSet(a) /\ Cardinality(a) \in Nat
  BY ConstantsAssumption, FS_Subset, FS_CardinalityType
<1>3. n \in 0..Len(q)
  BY <1>1, <1>2 DEF PumpCount
<1> HIDE DEF n
<1>4. IsFiniteSet(Shifted(q, n)) /\ Cardinality(Shifted(q, n)) = n
  BY <1>3, ShiftedCardinality
<1>5. a \cap Shifted(q, n) = {}
  BY <1>1, <1>3 DEF Shifted
<1>6. Cardinality(a \cup Shifted(q, n)) = Cardinality(a) + n
  <2>1. Cardinality({}) = 0
    BY FS_EmptySet
  <2>2. Cardinality(a \cup Shifted(q, n))
          = Cardinality(a) + Cardinality(Shifted(q, n)) - Cardinality(a \cap Shifted(q, n))
    BY <1>2, <1>4, FS_Union
  <2>3. n \in Int
    BY <1>1, <1>3
  <2>4. Cardinality(a \cap Shifted(q, n)) = 0
    BY <1>5, <2>1
  <2>5. QED
    BY <1>2, <1>4, <2>2, <2>3, <2>4
<1>7. ASSUME Remaining(q, n) # << >>
      PROVE  n # Len(q)
  <2>1. Remaining(q, Len(q)) = << >>
    BY <1>1, RemainingIs, EmptySeq
  <2>2. QED
    BY <1>7, <2>1
<1>8. n # Len(q) => m <= Cardinality(a) + n
  BY <1>1, <1>2 DEF PumpCount, n
<1>9. n # 0 => Cardinality(a) + n <= m
  BY <1>1, <1>2 DEF PumpCount, n
<1>10. QED
  BY <1>2, <1>3, <1>6, <1>7, <1>8, <1>9 DEF n

-----------------------------------------------------------------------------
(* The pump keeps the lanes consistent.                                     *)

\* Starting any number of entries from the front of consistent queues leaves
\* the lanes consistent.
LEMMA PumpKeepsConsistent ==
    ASSUME NEW q \in [Lanes -> Seq(Entries)], NEW a \in [Lanes -> SUBSET Entries],
           NEW r \in [Entries -> Nat \cup {NotRunning}], NEW g \in [Lanes -> Nat],
           NEW p \in [Entries -> PromiseState], NEW t \in [Entries -> Nat], NEW c \in [Lanes -> Nat],
           NEW n \in [Lanes -> Nat], \A l \in Lanes : n[l] \in 0..Len(q[l]),
           LanesConsistent(q, a, r, g, p, t, c)
    PROVE  /\ PumpedQueue(q, n) \in [Lanes -> Seq(Entries)]
           /\ PumpedActive(q, a, n) \in [Lanes -> SUBSET Entries]
           /\ PumpedTasks(q, r, n, g) \in [Entries -> Nat \cup {NotRunning}]
           /\ LanesConsistent(PumpedQueue(q, n), PumpedActive(q, a, n),
                              PumpedTasks(q, r, n, g), g, p, t, c)
<1> DEFINE Q == PumpedQueue(q, n)
           A == PumpedActive(q, a, n)
           R == PumpedTasks(q, r, n, g)
<1>1. \A l \in Lanes : /\ q[l] \in Seq(Entries)
                       /\ Len(q[l]) \in Nat
                       /\ \A i \in 1..Len(q[l]) : q[l][i] \in Entries
  BY LenProperties, ElementOfSeq
<1>2. \A l \in Lanes : /\ Q[l] \in Seq(Entries)
                       /\ Len(Q[l]) = Len(q[l]) - n[l]
                       /\ \A i \in 1..(Len(q[l]) - n[l]) : Q[l][i] = q[l][n[l] + i]
  BY <1>1, RemainingIs DEF PumpedQueue
<1>4. \A e \in Entries : LaneOf[e] \in Lanes
  BY ConstantsAssumption
<1>5. \A l \in Lanes : Shifted(q[l], n[l]) \subseteq Entries
  BY <1>1 DEF Shifted
<1>6. /\ Q \in [Lanes -> Seq(Entries)]
      /\ A \in [Lanes -> SUBSET Entries]
      /\ R \in [Entries -> Nat \cup {NotRunning}]
  <2>1. Q \in [Lanes -> Seq(Entries)]
    BY <1>2 DEF PumpedQueue
  <2>2. A \in [Lanes -> SUBSET Entries]
    BY <1>5 DEF PumpedActive
  <2>3. R \in [Entries -> Nat \cup {NotRunning}]
    BY <1>4 DEF PumpedTasks
  <2>4. QED
    BY <2>1, <2>2, <2>3
\* An entry of Entries is shifted iff it sits in the first n[l] places of its lane.
<1>7. \A e \in Entries : e \in Shifted(q[LaneOf[e]], n[LaneOf[e]]) <=>
          \E i \in 1..n[LaneOf[e]] : q[LaneOf[e]][i] = e
  BY DEF Shifted
<1>8. \A e \in Entries : R[e] = IF e \in Shifted(q[LaneOf[e]], n[LaneOf[e]])
                                THEN g[LaneOf[e]] ELSE r[e]
  BY DEF PumpedTasks
<1>9. \A l \in Lanes : A[l] = a[l] \cup Shifted(q[l], n[l])
  BY DEF PumpedActive
<1> HIDE DEF Q, A, R
<1>3. \A l \in Lanes : \A i \in 1..Len(Q[l]) :
          n[l] + i \in 1..Len(q[l]) /\ Q[l][i] = q[l][n[l] + i]
  <2> SUFFICES ASSUME NEW l \in Lanes, NEW i \in 1..Len(Q[l])
               PROVE  n[l] + i \in 1..Len(q[l]) /\ Q[l][i] = q[l][n[l] + i]
    OBVIOUS
  <2>1. Len(q[l]) \in Nat /\ n[l] \in Nat /\ Len(Q[l]) = Len(q[l]) - n[l]
    BY <1>1, <1>2
  <2>2. i \in 1..(Len(q[l]) - n[l])
    BY <2>1
  <2>3. Q[l][i] = q[l][n[l] + i]
    BY <1>2, <2>2
  <2>4. n[l] + i \in 1..Len(q[l])
    <3> DEFINE len == Len(q[l])
               m == n[l]
    <3>1. len \in Nat /\ m \in Nat /\ i \in 1..(len - m)
      BY <2>1, <2>2
    <3> HIDE DEF len, m
    <3>2. m + i \in 1..len
      BY <3>1
    <3>3. QED
      BY <3>2 DEF len, m
  <2>5. QED
    BY <2>3, <2>4
<1>10. \A l \in Lanes : \A i \in 1..n[l] :
          /\ i \in 1..Len(q[l])
          /\ q[l][i] \in Entries
          /\ LaneOf[q[l][i]] = l
          /\ p[q[l][i]] = "pending"
          /\ r[q[l][i]] = NotRunning
          /\ t[q[l][i]] < c[l]
  <2> SUFFICES ASSUME NEW l \in Lanes, NEW i \in 1..n[l]
               PROVE  i \in 1..Len(q[l])
    BY <1>1 DEF LanesConsistent, QueueSound
  <2>1. n[l] \in Nat /\ n[l] <= Len(q[l]) /\ Len(q[l]) \in Nat
    BY <1>1
  <2>2. QED
    BY <2>1
<1>11. QueueSound(Q, R, p, t, c)
  <2> SUFFICES ASSUME NEW l \in Lanes, NEW i \in 1..Len(Q[l])
               PROVE  /\ LaneOf[Q[l][i]] = l
                      /\ p[Q[l][i]] = "pending"
                      /\ R[Q[l][i]] = NotRunning
                      /\ t[Q[l][i]] < c[l]
    BY DEF QueueSound
  <2> DEFINE k == n[l] + i
             e == q[l][k]
  <2>1. k \in 1..Len(q[l]) /\ Q[l][i] = e /\ e \in Entries /\ k > n[l]
    BY <1>1, <1>3
  <2>2. LaneOf[e] = l /\ p[e] = "pending" /\ r[e] = NotRunning /\ t[e] < c[l]
    BY <2>1 DEF LanesConsistent, QueueSound
  <2>3. \A j \in 1..n[l] : q[l][j] # e
    <3> SUFFICES ASSUME NEW j \in 1..n[l], q[l][j] = e PROVE FALSE
      OBVIOUS
    <3>1. j \in 1..Len(q[l]) /\ j < k
      BY <1>10, <2>1
    <3>2. t[q[l][j]] < t[e]
      BY <2>1, <3>1 DEF LanesConsistent, QueueSorted
    <3>3. t[e] \in Nat
      BY <2>1
    <3>4. QED
      BY <3>2, <3>3
  <2>4. e \notin Shifted(q[LaneOf[e]], n[LaneOf[e]])
    BY <1>7, <2>1, <2>2, <2>3
  <2>5. QED
    BY <1>8, <2>1, <2>2, <2>4
<1>12. QueueSorted(Q, t)
  <2> SUFFICES ASSUME NEW l \in Lanes, NEW i \in 1..Len(Q[l]), NEW j \in 1..Len(Q[l]), i < j
               PROVE  t[Q[l][i]] < t[Q[l][j]]
    BY DEF QueueSorted
  <2>1. /\ n[l] + i \in 1..Len(q[l]) /\ Q[l][i] = q[l][n[l] + i]
        /\ n[l] + j \in 1..Len(q[l]) /\ Q[l][j] = q[l][n[l] + j]
    BY <1>3
  <2>2. n[l] + i < n[l] + j
    BY <1>1, <1>2
  <2>3. QED
    BY <2>1, <2>2 DEF LanesConsistent, QueueSorted
<1>13. ActiveExact(A, R, g)
  <2> SUFFICES ASSUME NEW l \in Lanes
               PROVE  A[l] = {e \in Entries : LaneOf[e] = l /\ R[e] = g[l]}
    BY DEF ActiveExact
  <2>1. a[l] = {e \in Entries : LaneOf[e] = l /\ r[e] = g[l]}
    BY DEF LanesConsistent, ActiveExact
  <2>2. ASSUME NEW e \in Entries
        PROVE  e \in A[l] <=> LaneOf[e] = l /\ R[e] = g[l]
    <3>1. CASE e \in Shifted(q[l], n[l])
      <4>1. LaneOf[e] = l
        BY <1>10, <3>1 DEF Shifted
      <4>2. QED
        BY <1>8, <1>9, <3>1, <4>1
    <3>2. CASE e \notin Shifted(q[l], n[l])
      BY <1>8, <1>9, <2>1, <3>2
    <3>3. QED
      BY <3>1, <3>2
  <2>3. A[l] \subseteq Entries
    BY <1>6
  <2>4. QED
    BY <2>2, <2>3
<1>14. TasksSound(R, g, p, t, c)
  <2> SUFFICES ASSUME NEW e \in Entries
               PROVE  /\ R[e] # NotRunning => p[e] = "pending" /\ R[e] <= g[LaneOf[e]]
                      /\ R[e] # NotRunning \/ p[e] \in {"resolved", "rejected"} => t[e] < c[LaneOf[e]]
    BY DEF TasksSound
  <2>1. CASE e \in Shifted(q[LaneOf[e]], n[LaneOf[e]])
    <3> DEFINE l == LaneOf[e]
    <3>0. l \in Lanes
      BY <1>4
    <3> HIDE DEF l
    <3>4. PICK i \in 1..n[l] : q[l][i] = e
      BY <1>7, <2>1 DEF l
    <3>1. p[e] = "pending" /\ t[e] < c[LaneOf[e]]
      BY <1>10, <3>0, <3>4
    <3>2. R[e] = g[LaneOf[e]] /\ g[LaneOf[e]] \in Nat
      BY <1>4, <1>8, <2>1
    <3>3. QED
      BY <3>1, <3>2
  <2>2. CASE e \notin Shifted(q[LaneOf[e]], n[LaneOf[e]])
    BY <1>8, <2>2 DEF LanesConsistent, TasksSound
  <2>3. QED
    BY <2>1, <2>2
<1>15. PendingLocated(Q, R, p)
  <2> SUFFICES ASSUME NEW e \in Entries, p[e] = "pending", R[e] = NotRunning
               PROVE  InQueue(Q, e)
    BY DEF PendingLocated
  <2> DEFINE l == LaneOf[e]
  <2>1. l \in Lanes /\ g[l] # NotRunning
    BY <1>4 DEF NotRunning
  <2>2. e \notin Shifted(q[l], n[l]) /\ r[e] = NotRunning
    BY <1>8, <2>1
  <2>3. PICK k \in 1..Len(q[l]) : q[l][k] = e
    BY <2>2 DEF LanesConsistent, PendingLocated, InQueue
  <2>4. k \notin 1..n[l]
    BY <1>7, <2>2, <2>3
  <2> HIDE DEF l
  <2>5. n[l] \in Nat /\ Len(q[l]) \in Nat /\ Len(Q[l]) = Len(q[l]) - n[l]
    BY <1>1, <1>2, <2>1
  <2>6. k - n[l] \in 1..(Len(q[l]) - n[l]) /\ n[l] + (k - n[l]) = k
    <3> DEFINE len == Len(q[l])
               m == n[l]
    <3>1. len \in Nat /\ m \in Nat /\ k \in 1..len /\ k \notin 1..m
      BY <2>4, <2>5
    <3> HIDE DEF len, m
    <3>2. k - m \in 1..(len - m) /\ m + (k - m) = k
      BY <3>1
    <3>3. QED
      BY <3>2 DEF len, m
  <2>7. Q[l][k - n[l]] = e
    BY <1>2, <2>1, <2>3, <2>6
  <2>8. QED
    BY <2>5, <2>6, <2>7 DEF InQueue, l
<1>16. StartedFirst(Q, R, p, t)
  <2> SUFFICES ASSUME NEW f \in Entries, R[f] # NotRunning \/ p[f] \in {"resolved", "rejected"},
                      NEW i \in 1..Len(Q[LaneOf[f]])
               PROVE  t[f] < t[Q[LaneOf[f]][i]]
    BY DEF StartedFirst
  <2> DEFINE l == LaneOf[f]
             k == n[l] + i
  <2>1. l \in Lanes /\ k \in 1..Len(q[l]) /\ Q[l][i] = q[l][k] /\ k > n[l]
    <3>1. l \in Lanes
      BY <1>4
    <3>2. n[l] \in Nat /\ i \in Nat /\ i > 0
      BY <1>2, <3>1
    <3> HIDE DEF l
    <3>3. n[l] + i \in 1..Len(q[l]) /\ Q[l][i] = q[l][n[l] + i]
      BY <1>3, <3>1 DEF l
    <3>4. QED
      BY <3>1, <3>2, <3>3
  <2>2. CASE f \in Shifted(q[l], n[l])
    <3>1. PICK j \in 1..n[l] : q[l][j] = f
      BY <2>2 DEF Shifted
    <3>2. j \in 1..Len(q[l]) /\ j < k
      <4>1. j \in 1..Len(q[l])
        BY <1>10, <2>1
      <4>2. n[l] \in Nat /\ k > n[l] /\ k \in Nat
        BY <1>2, <2>1
      <4> HIDE DEF l, k
      <4>3. QED
        BY <4>1, <4>2
    <3>3. QED
      BY <2>1, <3>1, <3>2 DEF LanesConsistent, QueueSorted
  <2>3. CASE f \notin Shifted(q[l], n[l])
    BY <1>8, <2>1, <2>3 DEF LanesConsistent, StartedFirst
  <2>4. QED
    BY <2>2, <2>3
<1>17. QED
  BY <1>6, <1>11, <1>12, <1>13, <1>14, <1>15, <1>16 DEF LanesConsistent, Q, A, R

\* The lanes that are not drained have no room, or nothing to start.
FullOutside(D, q, a, m) ==
    \A l \in Lanes \ D : q[l] # << >> => Cardinality(a[l]) >= m[l]

\* DrainLanes, as a relation between the values before and after it.
Drained(D, q, a, r, m, g, Q, A, R) ==
    LET n == StartCounts(D, q, a, m)
    IN  /\ Q = PumpedQueue(q, n)
        /\ A = PumpedActive(q, a, n)
        /\ R = PumpedTasks(q, r, n, g)

\* What draining leaves behind: consistent lanes, room only in lanes with an
\* empty queue, no lane taken over its cap, and only waiting entries started.
DrainOutcome(Q, A, R, a, r, m, g, p, t, c) ==
    /\ Q \in [Lanes -> Seq(Entries)]
    /\ A \in [Lanes -> SUBSET Entries]
    /\ R \in [Entries -> Nat \cup {NotRunning}]
    /\ LanesConsistent(Q, A, R, g, p, t, c)
    /\ \A l \in Lanes : Q[l] # << >> => Cardinality(A[l]) >= m[l]
    /\ \A l \in Lanes : A[l] \ a[l] # {} => Cardinality(A[l]) <= m[l]
    /\ \A e \in Entries : R[e] = r[e] \/ (r[e] = NotRunning /\ p[e] = "pending")

\* A step that drains the lanes of D has that outcome.
LEMMA DrainLanesKeeps ==
    ASSUME NEW D \in SUBSET Lanes,
           NEW q \in [Lanes -> Seq(Entries)], NEW a \in [Lanes -> SUBSET Entries],
           NEW r \in [Entries -> Nat \cup {NotRunning}], NEW m \in [Lanes -> Nat],
           NEW g \in [Lanes -> Nat], NEW p \in [Entries -> PromiseState],
           NEW t \in [Entries -> Nat], NEW c \in [Lanes -> Nat],
           LanesConsistent(q, a, r, g, p, t, c),
           FullOutside(D, q, a, m),
           NEW Q, NEW A, NEW R, Drained(D, q, a, r, m, g, Q, A, R)
    PROVE  DrainOutcome(Q, A, R, a, r, m, g, p, t, c)
<1> DEFINE n == StartCounts(D, q, a, m)
<1>0. Q = PumpedQueue(q, n) /\ A = PumpedActive(q, a, n) /\ R = PumpedTasks(q, r, n, g)
  BY DEF Drained
<1>1. \A l \in Lanes : /\ q[l] \in Seq(Entries)
                       /\ a[l] \in SUBSET Entries
                       /\ m[l] \in Nat
                       /\ Len(q[l]) \in Nat
                       /\ \A i \in 1..Len(q[l]) : q[l][i] \in Entries
  BY LenProperties, ElementOfSeq
<1>2. \A l \in Lanes : \A i, j \in 1..Len(q[l]) : q[l][i] = q[l][j] => i = j
  <2> SUFFICES ASSUME NEW l \in Lanes, NEW i \in 1..Len(q[l]), NEW j \in 1..Len(q[l]),
                      i < j
               PROVE  q[l][i] # q[l][j]
    BY <1>1
  <2>1. t[q[l][i]] < t[q[l][j]]
    BY DEF LanesConsistent, QueueSorted
  <2>2. t[q[l][i]] \in Nat
    BY <1>1
  <2>3. QED
    BY <2>1, <2>2
<1>3. \A l \in Lanes : \A i \in 1..Len(q[l]) : q[l][i] \notin a[l]
  BY DEF LanesConsistent, QueueSound, ActiveExact, NotRunning
<1>4. \A l \in Lanes :
        /\ PumpCount(q[l], a[l], m[l]) \in 0..Len(q[l])
        /\ Remaining(q[l], PumpCount(q[l], a[l], m[l])) # << >> =>
             Cardinality(a[l] \cup Shifted(q[l], PumpCount(q[l], a[l], m[l]))) >= m[l]
        /\ PumpCount(q[l], a[l], m[l]) # 0 =>
             Cardinality(a[l] \cup Shifted(q[l], PumpCount(q[l], a[l], m[l]))) <= m[l]
  BY <1>1, <1>2, <1>3, PumpFills
<1>5. \A l \in Lanes : n[l] = IF l \in D THEN PumpCount(q[l], a[l], m[l]) ELSE 0
  BY DEF StartCounts
<1>6. n \in [Lanes -> Nat] /\ \A l \in Lanes : n[l] \in 0..Len(q[l])
  <2>1. n = [l \in Lanes |-> n[l]]
    BY DEF StartCounts
  <2> HIDE DEF n
  <2>2. ASSUME NEW l \in Lanes PROVE n[l] \in 0..Len(q[l]) /\ n[l] \in Nat
    <3>1. Len(q[l]) \in Nat /\ PumpCount(q[l], a[l], m[l]) \in 0..Len(q[l])
      BY <1>1, <1>4
    <3>2. n[l] \in 0..Len(q[l])
      <4>1. n[l] = PumpCount(q[l], a[l], m[l]) \/ n[l] = 0
        BY <1>5
      <4>2. QED
        BY <3>1, <4>1
    <3>3. QED
      BY <3>1, <3>2
  <2>3. QED
    BY <2>1, <2>2
<1> HIDE DEF n
<1>7. /\ Q \in [Lanes -> Seq(Entries)]
      /\ A \in [Lanes -> SUBSET Entries]
      /\ R \in [Entries -> Nat \cup {NotRunning}]
      /\ LanesConsistent(Q, A, R, g, p, t, c)
  BY <1>0, <1>6, PumpKeepsConsistent
<1>8. \A l \in Lanes : Q[l] = Remaining(q[l], n[l]) /\ A[l] = a[l] \cup Shifted(q[l], n[l])
  BY <1>0 DEF PumpedQueue, PumpedActive
<1>9. \A e \in Entries : R[e] = IF e \in Shifted(q[LaneOf[e]], n[LaneOf[e]])
                                THEN g[LaneOf[e]] ELSE r[e]
  BY <1>0 DEF PumpedTasks
<1>10. \A l \in Lanes : Q[l] # << >> => Cardinality(A[l]) >= m[l]
  <2> SUFFICES ASSUME NEW l \in Lanes, Q[l] # << >>
               PROVE  Cardinality(A[l]) >= m[l]
    OBVIOUS
  <2>1. CASE l \in D
    BY <1>4, <1>5, <1>8, <2>1
  <2>2. CASE l \notin D
    <3>1. n[l] = 0
      BY <1>5, <2>2
    <3>2. Shifted(q[l], 0) = {}
      BY DEF Shifted
    <3>3. q[l] # << >>
      <4>1. ASSUME q[l] = << >> PROVE FALSE
        <5>1. Len(q[l]) = 0
          BY <4>1
        <5>2. Remaining(q[l], 0) \in Seq(Entries) /\ Len(Remaining(q[l], 0)) = 0
          BY <1>1, <5>1, RemainingIs
        <5>3. QED
          BY <1>8, <3>1, <5>2, EmptySeq
      <4>2. QED
        BY <4>1
    <3>4. A[l] = a[l]
      BY <1>8, <3>1, <3>2
    <3>5. QED
      BY <2>2, <3>3, <3>4 DEF FullOutside
  <2>3. QED
    BY <2>1, <2>2
<1>11. \A l \in Lanes : A[l] \ a[l] # {} => Cardinality(A[l]) <= m[l]
  <2> SUFFICES ASSUME NEW l \in Lanes, A[l] \ a[l] # {}
               PROVE  Cardinality(A[l]) <= m[l]
    OBVIOUS
  <2>1. Shifted(q[l], n[l]) # {}
    BY <1>8
  <2>2. n[l] # 0
    BY <2>1 DEF Shifted
  <2>3. QED
    BY <1>4, <1>5, <1>8, <2>2
<1>12. \A e \in Entries : R[e] = r[e] \/ (r[e] = NotRunning /\ p[e] = "pending")
  <2> SUFFICES ASSUME NEW e \in Entries, e \in Shifted(q[LaneOf[e]], n[LaneOf[e]])
               PROVE  r[e] = NotRunning /\ p[e] = "pending"
    BY <1>9
  <2> DEFINE l == LaneOf[e]
  <2>1. l \in Lanes
    BY ConstantsAssumption
  <2> HIDE DEF l
  <2>2. PICK i \in 1..n[l] : q[l][i] = e
    BY DEF Shifted, l
  <2>3. i \in 1..Len(q[l])
    BY <1>1, <1>6, <2>1
  <2>4. QED
    BY <2>1, <2>2, <2>3 DEF LanesConsistent, QueueSound
<1>13. QED
  BY <1>7, <1>10, <1>11, <1>12 DEF DrainOutcome

-----------------------------------------------------------------------------
(* What each action does to the lanes before it pumps them.                 *)

\* enqueueCommandInLane appends an entry that has never been called.
LEMMA EnqueueConsistent ==
    ASSUME NEW q \in [Lanes -> Seq(Entries)], NEW a \in [Lanes -> SUBSET Entries],
           NEW r \in [Entries -> Nat \cup {NotRunning}], NEW g \in [Lanes -> Nat],
           NEW p \in [Entries -> PromiseState], NEW t \in [Entries -> Nat], NEW c \in [Lanes -> Nat],
           LanesConsistent(q, a, r, g, p, t, c),
           NEW e \in Entries, p[e] = "uncalled"
    PROVE  LET Q == [q EXCEPT ![LaneOf[e]] = Append(@, e)] IN
           /\ Q \in [Lanes -> Seq(Entries)]
           /\ LanesConsistent(Q, a, r, g, [p EXCEPT ![e] = "pending"],
                              [t EXCEPT ![e] = c[LaneOf[e]]], [c EXCEPT ![LaneOf[e]] = @ + 1])
<1> DEFINE l == LaneOf[e]
           Q == [q EXCEPT ![LaneOf[e]] = Append(@, e)]
           P == [p EXCEPT ![e] = "pending"]
           T == [t EXCEPT ![e] = c[LaneOf[e]]]
           C == [c EXCEPT ![LaneOf[e]] = @ + 1]
<1>1. l \in Lanes /\ q[l] \in Seq(Entries) /\ Len(q[l]) \in Nat
  BY ConstantsAssumption, LenProperties
<1>2. \A k \in Lanes : /\ Len(q[k]) \in Nat
                       /\ \A i \in 1..Len(q[k]) : q[k][i] \in Entries
  BY LenProperties, ElementOfSeq
<1>3. /\ Append(q[l], e) \in Seq(Entries)
      /\ Len(Append(q[l], e)) = Len(q[l]) + 1
      /\ \A i \in 1..Len(q[l]) : Append(q[l], e)[i] = q[l][i]
      /\ Append(q[l], e)[Len(q[l]) + 1] = e
  BY <1>1, AppendProperties
<1>4. /\ Q \in [Lanes -> Seq(Entries)]
      /\ Q[l] = Append(q[l], e)
      /\ \A k \in Lanes : k # l => Q[k] = q[k]
  BY <1>1, <1>3
<1>5. /\ P[e] = "pending" /\ T[e] = c[l] /\ c[l] \in Nat
      /\ \A f \in Entries : f # e => P[f] = p[f] /\ T[f] = t[f]
      /\ T \in [Entries -> Nat]
  BY <1>1
<1>5a. /\ C \in [Lanes -> Nat] /\ C[l] = c[l] + 1
       /\ \A k \in Lanes : c[k] \in Nat /\ C[k] \in Nat /\ c[k] <= C[k]
  BY <1>1
<1>6. r[e] = NotRunning
  BY DEF LanesConsistent, TasksSound
<1>7. \A k \in Lanes : \A i \in 1..Len(q[k]) : q[k][i] # e
  BY DEF LanesConsistent, QueueSound
<1> HIDE DEF Q, P, T, C, l
\* Every place of the new queues is an old place, or the last of lane l.
<1>8. \A k \in Lanes : \A i \in 1..Len(Q[k]) :
        \/ i \in 1..Len(q[k]) /\ Q[k][i] = q[k][i]
        \/ k = l /\ i = Len(q[l]) + 1 /\ Q[k][i] = e
  <2> SUFFICES ASSUME NEW k \in Lanes, NEW i \in 1..Len(Q[k])
               PROVE  \/ i \in 1..Len(q[k]) /\ Q[k][i] = q[k][i]
                      \/ k = l /\ i = Len(q[l]) + 1 /\ Q[k][i] = e
    OBVIOUS
  <2>1. CASE k # l
    BY <1>4, <2>1
  <2>2. CASE k = l
    <3>1. Len(Q[k]) = Len(q[l]) + 1
      BY <1>3, <1>4, <2>2
    <3>2. i \in 1..Len(q[l]) \/ i = Len(q[l]) + 1
      BY <1>1, <3>1
    <3>3. QED
      BY <1>3, <1>4, <2>2, <3>2
  <2>3. QED
    BY <2>1, <2>2
<1>9. QueueSound(Q, r, P, T, C)
  <2> SUFFICES ASSUME NEW k \in Lanes, NEW i \in 1..Len(Q[k])
               PROVE  /\ LaneOf[Q[k][i]] = k
                      /\ P[Q[k][i]] = "pending"
                      /\ r[Q[k][i]] = NotRunning
                      /\ T[Q[k][i]] < C[k]
    BY DEF QueueSound
  <2>1. CASE i \in 1..Len(q[k]) /\ Q[k][i] = q[k][i]
    <3> DEFINE f == q[k][i]
    <3>1. f \in Entries /\ f # e /\ t[f] \in Nat
      BY <1>2, <1>7, <2>1
    <3>2. LaneOf[f] = k /\ p[f] = "pending" /\ r[f] = NotRunning /\ t[f] < c[k]
      BY <2>1 DEF LanesConsistent, QueueSound
    <3>3. P[f] = p[f] /\ T[f] = t[f]
      BY <1>5, <3>1
    <3>4. QED
      BY <1>5a, <2>1, <3>1, <3>2, <3>3
  <2>2. CASE k = l /\ Q[k][i] = e
    BY <1>5, <1>6, <1>5a, <2>2 DEF l
  <2>3. QED
    BY <1>8, <2>1, <2>2
<1>10. QueueSorted(Q, T)
  <2> SUFFICES ASSUME NEW k \in Lanes, NEW i \in 1..Len(Q[k]), NEW j \in 1..Len(Q[k]), i < j
               PROVE  T[Q[k][i]] < T[Q[k][j]]
    BY DEF QueueSorted
  <2>1. i \in 1..Len(q[k]) /\ Q[k][i] = q[k][i]
    <3>1. CASE k = l /\ i = Len(q[l]) + 1
      BY <1>1, <1>3, <1>4, <3>1
    <3>2. QED
      BY <1>8, <3>1
  <2>2. /\ q[k][i] \in Entries
        /\ T[q[k][i]] = t[q[k][i]]
        /\ t[q[k][i]] < c[k]
    BY <1>2, <1>5, <1>7, <2>1 DEF LanesConsistent, QueueSound
  <2>3. CASE j \in 1..Len(q[k]) /\ Q[k][j] = q[k][j]
    <3>1. T[q[k][j]] = t[q[k][j]]
      BY <1>2, <1>5, <1>7, <2>3
    <3>2. t[q[k][i]] < t[q[k][j]]
      BY <2>1, <2>3 DEF LanesConsistent, QueueSorted
    <3>3. QED
      BY <2>1, <2>2, <2>3, <3>1, <3>2
  <2>4. CASE k = l /\ Q[k][j] = e
    BY <1>5, <2>1, <2>2, <2>4
  <2>5. QED
    BY <1>8, <2>3, <2>4
<1>11. ActiveExact(a, r, g)
  BY DEF LanesConsistent
<1>12. TasksSound(r, g, P, T, C)
  <2> SUFFICES ASSUME NEW f \in Entries
               PROVE  /\ r[f] # NotRunning => P[f] = "pending" /\ r[f] <= g[LaneOf[f]]
                      /\ r[f] # NotRunning \/ P[f] \in {"resolved", "rejected"} => T[f] < C[LaneOf[f]]
    BY DEF TasksSound
  <2>1. CASE f = e
    BY <1>5, <1>6, <1>5a, <2>1 DEF l
  <2>2. CASE f # e
    <3>1. P[f] = p[f] /\ T[f] = t[f] /\ t[f] \in Nat
      BY <1>5, <2>2
    <3>2. c[LaneOf[f]] \in Nat /\ C[LaneOf[f]] \in Nat /\ c[LaneOf[f]] <= C[LaneOf[f]]
      BY <1>5a, ConstantsAssumption
    <3>3. QED
      BY <3>1, <3>2 DEF LanesConsistent, TasksSound
  <2>3. QED
    BY <2>1, <2>2
<1>13. PendingLocated(Q, r, P)
  <2> SUFFICES ASSUME NEW f \in Entries, P[f] = "pending", r[f] = NotRunning
               PROVE  InQueue(Q, f)
    BY DEF PendingLocated
  <2> DEFINE k == LaneOf[f]
  <2>1. k \in Lanes /\ Len(q[k]) \in Nat
    BY <1>2, ConstantsAssumption
  <2>2. CASE f = e
    <3>1. Len(Q[l]) = Len(q[l]) + 1 /\ Q[l][Len(q[l]) + 1] = e
      BY <1>3, <1>4
    <3>2. Len(q[l]) + 1 \in 1..Len(Q[l])
      BY <1>1, <3>1
    <3>3. QED
      BY <2>2, <3>1, <3>2 DEF InQueue, l
  <2>3. CASE f # e
    <3>1. PICK i \in 1..Len(q[k]) : q[k][i] = f
      BY <1>5, <2>3 DEF LanesConsistent, PendingLocated, InQueue
    <3> HIDE DEF k
    <3>2. i \in 1..Len(Q[k]) /\ Q[k][i] = q[k][i]
      <4>1. CASE k = l
        <5>1. Len(Q[l]) = Len(q[l]) + 1
          BY <1>3, <1>4
        <5>2. i \in 1..Len(Q[l])
          BY <1>1, <4>1, <5>1
        <5>3. QED
          BY <1>3, <1>4, <4>1, <5>2
      <4>2. CASE k # l
        BY <1>4, <2>1, <4>2
      <4>3. QED
        BY <4>1, <4>2
    <3>3. QED
      BY <3>1, <3>2 DEF InQueue, k
  <2>4. QED
    BY <2>2, <2>3
<1>14. StartedFirst(Q, r, P, T)
  <2> SUFFICES ASSUME NEW f \in Entries, r[f] # NotRunning \/ P[f] \in {"resolved", "rejected"},
                      NEW i \in 1..Len(Q[LaneOf[f]])
               PROVE  T[f] < T[Q[LaneOf[f]][i]]
    BY DEF StartedFirst
  <2> DEFINE k == LaneOf[f]
  <2>1. k \in Lanes /\ f # e /\ P[f] = p[f] /\ T[f] = t[f]
    BY <1>5, <1>6, ConstantsAssumption
  <2>2. t[f] < c[k]
    BY <2>1 DEF LanesConsistent, TasksSound
  <2>3. CASE i \in 1..Len(q[k]) /\ Q[k][i] = q[k][i]
    <3>1. T[q[k][i]] = t[q[k][i]]
      BY <1>2, <1>5, <1>7, <2>1, <2>3
    <3>2. t[f] < t[q[k][i]]
      BY <2>1, <2>3 DEF LanesConsistent, StartedFirst
    <3>3. QED
      BY <2>1, <2>3, <3>1, <3>2
  <2>4. CASE k = l /\ Q[k][i] = e
    BY <1>5, <2>1, <2>2, <2>4
  <2>5. QED
    BY <1>8, <2>1, <2>3, <2>4
<1>15. QED
  BY <1>4, <1>9, <1>10, <1>11, <1>12, <1>13, <1>14 DEF LanesConsistent, Q, P, T, C, l

\* A settling task leaves the active set of its lane when it is of the lane's
\* generation, and stops executing in any case.
LEMMA SettleConsistent ==
    ASSUME NEW q \in [Lanes -> Seq(Entries)], NEW a \in [Lanes -> SUBSET Entries],
           NEW r \in [Entries -> Nat \cup {NotRunning}], NEW g \in [Lanes -> Nat],
           NEW p \in [Entries -> PromiseState], NEW t \in [Entries -> Nat], NEW c \in [Lanes -> Nat],
           LanesConsistent(q, a, r, g, p, t, c),
           NEW e \in Entries, r[e] # NotRunning, NEW outcome \in {"resolved", "rejected"},
           NEW A, A = IF r[e] = g[LaneOf[e]] THEN [a EXCEPT ![LaneOf[e]] = @ \ {e}] ELSE a,
           NEW R, R = [r EXCEPT ![e] = NotRunning],
           NEW P, P = [p EXCEPT ![e] = outcome]
    PROVE  LanesConsistent(q, A, R, g, P, t, c)
<1>1. \A k \in Lanes : A[k] = a[k] \/ (A[k] = a[k] \ {e} /\ LaneOf[e] = k)
  OBVIOUS
<1>2. LaneOf[e] \in Lanes /\ (r[e] = g[LaneOf[e]] => e \notin A[LaneOf[e]])
  BY ConstantsAssumption
<1>3. /\ R[e] = NotRunning /\ P[e] = outcome
      /\ \A f \in Entries : f # e => R[f] = r[f] /\ P[f] = p[f]
  OBVIOUS
<1>4. \A k \in Lanes : \A i \in 1..Len(q[k]) : q[k][i] \in Entries /\ q[k][i] # e
  <2>1. \A k \in Lanes : \A i \in 1..Len(q[k]) : q[k][i] \in Entries
    BY ElementOfSeq
  <2>2. \A k \in Lanes : \A i \in 1..Len(q[k]) : r[q[k][i]] = NotRunning
    BY DEF LanesConsistent, QueueSound
  <2>3. QED
    BY <2>1, <2>2
<1>5. \A k \in Lanes : g[k] # NotRunning
  BY DEF NotRunning
<1>6. QueueSound(q, R, P, t, c)
  BY <1>3, <1>4 DEF LanesConsistent, QueueSound
<1>7. QueueSorted(q, t)
  BY DEF LanesConsistent
<1>8. ActiveExact(A, R, g)
  <2> SUFFICES ASSUME NEW k \in Lanes
               PROVE  A[k] = {f \in Entries : LaneOf[f] = k /\ R[f] = g[k]}
    BY DEF ActiveExact
  <2>1. a[k] = {f \in Entries : LaneOf[f] = k /\ r[f] = g[k]}
    BY DEF LanesConsistent, ActiveExact
  <2>2. e \notin A[k]
    BY <1>1, <1>2, <2>1
  <2>3. ASSUME NEW f \in Entries
        PROVE  f \in A[k] <=> LaneOf[f] = k /\ R[f] = g[k]
    <3>1. CASE f = e
      BY <1>3, <1>5, <2>2, <3>1
    <3>2. CASE f # e
      <4>1. f \in A[k] <=> f \in a[k]
        BY <1>1, <3>2
      <4>2. QED
        BY <1>3, <2>1, <3>2, <4>1
    <3>3. QED
      BY <3>1, <3>2
  <2>4. A[k] \subseteq Entries
    BY <1>1, <2>1
  <2>5. QED
    BY <2>3, <2>4
<1>9. TasksSound(R, g, P, t, c)
  BY <1>3 DEF LanesConsistent, TasksSound
<1>10. PendingLocated(q, R, P)
  BY <1>3 DEF LanesConsistent, PendingLocated
<1>11. StartedFirst(q, R, P, t)
  BY <1>3 DEF LanesConsistent, StartedFirst
<1>12. QED
  BY <1>6, <1>7, <1>8, <1>9, <1>10, <1>11 DEF LanesConsistent

\* resetAllLanes: nothing executes in the new generation.
LEMMA ResetConsistent ==
    ASSUME NEW q \in [Lanes -> Seq(Entries)], NEW a \in [Lanes -> SUBSET Entries],
           NEW r \in [Entries -> Nat \cup {NotRunning}], NEW g \in [Lanes -> Nat],
           NEW p \in [Entries -> PromiseState], NEW t \in [Entries -> Nat], NEW c \in [Lanes -> Nat],
           LanesConsistent(q, a, r, g, p, t, c)
    PROVE  LanesConsistent(q, [l \in Lanes |-> {}], r, [l \in Lanes |-> g[l] + 1], p, t, c)
<1> DEFINE A == [l \in Lanes |-> {}]
           G == [l \in Lanes |-> g[l] + 1]
<1>1. \A l \in Lanes : A[l] = {} /\ G[l] = g[l] + 1 /\ g[l] \in Nat
  OBVIOUS
<1>2. \A e \in Entries : LaneOf[e] \in Lanes
  BY ConstantsAssumption
<1> HIDE DEF A, G
<1>3. \A e \in Entries : r[e] # NotRunning => r[e] \in Nat /\ r[e] <= g[LaneOf[e]]
  BY DEF LanesConsistent, TasksSound
<1>4. \A e \in Entries : r[e] # G[LaneOf[e]]
  <2> SUFFICES ASSUME NEW e \in Entries PROVE r[e] # G[LaneOf[e]]
    OBVIOUS
  <2>1. CASE r[e] = NotRunning
    BY <1>1, <1>2, <2>1 DEF NotRunning
  <2>2. CASE r[e] # NotRunning
    BY <1>1, <1>2, <1>3, <2>2
  <2>3. QED
    BY <2>1, <2>2
<1>5. ActiveExact(A, r, G)
  BY <1>1, <1>4 DEF ActiveExact
<1>6. TasksSound(r, G, p, t, c)
  <2>1. \A e \in Entries : r[e] # NotRunning => r[e] <= G[LaneOf[e]]
    BY <1>1, <1>2, <1>3
  <2>2. QED
    BY <2>1 DEF LanesConsistent, TasksSound
<1>7. QED
  BY <1>5, <1>6 DEF LanesConsistent, A, G

\* clearCommandLane empties a queue and settles the promises it held.
LEMMA ClearConsistent ==
    ASSUME NEW q \in [Lanes -> Seq(Entries)], NEW a \in [Lanes -> SUBSET Entries],
           NEW r \in [Entries -> Nat \cup {NotRunning}], NEW g \in [Lanes -> Nat],
           NEW p \in [Entries -> PromiseState], NEW t \in [Entries -> Nat], NEW c \in [Lanes -> Nat],
           LanesConsistent(q, a, r, g, p, t, c), NEW l \in Lanes,
           NEW Q, Q = [q EXCEPT ![l] = << >>],
           NEW P, P = [e \in Entries |->
                         IF e \in Shifted(q[l], Len(q[l])) THEN "cleared" ELSE p[e]]
    PROVE  LanesConsistent(Q, a, r, g, P, t, c)
<1>1. Len(Q[l]) = 0 /\ \A k \in Lanes : k # l => Q[k] = q[k]
  OBVIOUS
<1>2. \A e \in Entries : P[e] = IF e \in Shifted(q[l], Len(q[l])) THEN "cleared" ELSE p[e]
  OBVIOUS
<1>3. \A k \in Lanes : \A i \in 1..Len(q[k]) : q[k][i] \in Entries
  BY ElementOfSeq
<1>4. \A k \in Lanes : \A i \in 1..Len(Q[k]) : k # l /\ i \in 1..Len(q[k]) /\ Q[k][i] = q[k][i]
  BY <1>1
<1>5. \A e \in Entries : e \in Shifted(q[l], Len(q[l])) =>
          LaneOf[e] = l /\ r[e] = NotRunning /\ p[e] = "pending"
  BY DEF LanesConsistent, QueueSound, Shifted
<1>6. \A e \in Entries : P[e] = p[e] \/ (P[e] = "cleared" /\ LaneOf[e] = l /\ r[e] = NotRunning)
  BY <1>2, <1>5
<1>7. QueueSound(Q, r, P, t, c)
  <2> SUFFICES ASSUME NEW k \in Lanes, NEW i \in 1..Len(Q[k])
               PROVE  /\ LaneOf[Q[k][i]] = k
                      /\ P[Q[k][i]] = "pending"
                      /\ r[Q[k][i]] = NotRunning
                      /\ t[Q[k][i]] < c[k]
    BY DEF QueueSound
  <2>1. k # l /\ i \in 1..Len(q[k]) /\ Q[k][i] = q[k][i] /\ q[k][i] \in Entries
    BY <1>3, <1>4
  <2>2. QED
    BY <1>6, <2>1 DEF LanesConsistent, QueueSound
<1>8. QueueSorted(Q, t)
  BY <1>4 DEF LanesConsistent, QueueSorted
<1>9. TasksSound(r, g, P, t, c)
  <2>1. \A e \in Entries : P[e] \in {"resolved", "rejected"} => p[e] = P[e]
    BY <1>6
  <2>2. \A e \in Entries : r[e] # NotRunning => P[e] = p[e]
    BY <1>6
  <2>3. QED
    BY <2>1, <2>2 DEF LanesConsistent, TasksSound
<1>10. PendingLocated(Q, r, P)
  <2> SUFFICES ASSUME NEW e \in Entries, P[e] = "pending", r[e] = NotRunning
               PROVE  InQueue(Q, e)
    BY DEF PendingLocated
  <2>1. p[e] = "pending" /\ e \notin Shifted(q[l], Len(q[l]))
    BY <1>2
  <2>2. PICK i \in 1..Len(q[LaneOf[e]]) : q[LaneOf[e]][i] = e
    BY <2>1 DEF LanesConsistent, PendingLocated, InQueue
  <2>3. LaneOf[e] \in Lanes /\ LaneOf[e] # l
    BY <2>1, <2>2, ConstantsAssumption DEF Shifted
  <2>4. QED
    BY <1>1, <2>2, <2>3 DEF InQueue
<1>11. StartedFirst(Q, r, P, t)
  <2> SUFFICES ASSUME NEW f \in Entries, r[f] # NotRunning \/ P[f] \in {"resolved", "rejected"},
                      NEW i \in 1..Len(Q[LaneOf[f]])
               PROVE  t[f] < t[Q[LaneOf[f]][i]]
    BY DEF StartedFirst
  <2>1. LaneOf[f] \in Lanes
    BY ConstantsAssumption
  <2>2. i \in 1..Len(q[LaneOf[f]]) /\ Q[LaneOf[f]][i] = q[LaneOf[f]][i]
    BY <1>4, <2>1
  <2>3. r[f] # NotRunning \/ p[f] \in {"resolved", "rejected"}
    BY <1>6
  <2>4. QED
    BY <2>2, <2>3 DEF LanesConsistent, StartedFirst
<1>12. QED
  BY <1>7, <1>8, <1>9, <1>10, <1>11 DEF LanesConsistent

-----------------------------------------------------------------------------
(* The invariant is inductive.                                              *)

\* What WaitedStarted and DrainedIsTrue need of a step that leaves the waiter
\* alone: what has been started is not started again.
LEMMA WaiterKept ==
    ASSUME TypeOK, WaitedStarted, DrainedIsTrue, UNCHANGED waiterVars,
           \A e \in Entries : Started(e) => Started(e)',
           \A e \in Entries : Started(e) /\ taskGeneration'[e] = generation'[LaneOf[e]]
                                => taskGeneration[e] = generation[LaneOf[e]]
    PROVE  WaitedStarted' /\ DrainedIsTrue'
<1>1. activeAtStart' = activeAtStart /\ waiter' = waiter /\ activeAtStart \subseteq Entries
  BY DEF waiterVars, TypeOK
<1>2. WaitedStarted'
  BY <1>1 DEF WaitedStarted
<1>3. DrainedIsTrue'
  BY <1>1 DEF WaitedStarted, DrainedIsTrue
<1>4. QED
  BY <1>2, <1>3

\* The initial state satisfies the invariant.
LEMMA InitIInv == Init => IInv
<1> SUFFICES ASSUME Init PROVE IInv
  OBVIOUS
<1>1. TypeOK
  <2>1. << >> \in Seq(Entries) /\ 1 \in 1..MaxConcurrency
    BY ConstantsAssumption, EmptySeq
  <2>2. queue \in [Lanes -> Seq(Entries)] /\ maxConcurrent \in [Lanes -> 1..MaxConcurrency]
    BY <2>1 DEF Init
  <2>3. QED
    BY <2>2 DEF Init, TypeOK, PromiseState, WaiterState
<1>2. \A l \in Lanes : Len(queue[l]) = 0 /\ queue[l] = << >>
  BY DEF Init
<1>3. \A e \in Entries : LaneOf[e] \in Lanes
  BY ConstantsAssumption
<1>4. QueueSound(queue, taskGeneration, promise, enqueuedAt, now)
  BY <1>2 DEF QueueSound
<1>5. QueueSorted(queue, enqueuedAt)
  BY <1>2 DEF QueueSorted
<1>6. ActiveExact(active, taskGeneration, generation)
  BY <1>3 DEF Init, ActiveExact, NotRunning
<1>7. TasksSound(taskGeneration, generation, promise, enqueuedAt, now)
  BY DEF Init, TasksSound
<1>8. PendingLocated(queue, taskGeneration, promise)
  BY DEF Init, PendingLocated
<1>9. StartedFirst(queue, taskGeneration, promise, enqueuedAt)
  BY DEF Init, StartedFirst
<1>10. NoStrandedWork
  BY <1>2 DEF NoStrandedWork
<1>11. WaitedStarted /\ DrainedIsTrue
  BY DEF Init, WaitedStarted, DrainedIsTrue
<1>12. QED
  BY <1>1, <1>4, <1>5, <1>6, <1>7, <1>8, <1>9, <1>10, <1>11 DEF IInv, LanesConsistent

\* enqueueCommandInLane keeps the invariant, and starts tasks within the cap.
LEMMA EnqueueStep ==
    ASSUME IInv, NEW e \in Entries, EnqueueCommandInLane(e)
    PROVE  /\ IInv'
           /\ \A l \in Lanes : active'[l] \ active[l] # {} =>
                 Cardinality(active'[l]) <= maxConcurrent'[l]
<1> DEFINE q == [queue EXCEPT ![LaneOf[e]] = Append(@, e)]
           P == [promise EXCEPT ![e] = "pending"]
           T == [enqueuedAt EXCEPT ![e] = now[LaneOf[e]]]
           C == [now EXCEPT ![LaneOf[e]] = @ + 1]
<1>1. /\ queue \in [Lanes -> Seq(Entries)] /\ active \in [Lanes -> SUBSET Entries]
      /\ maxConcurrent \in [Lanes -> 1..MaxConcurrency] /\ maxConcurrent \in [Lanes -> Nat]
      /\ generation \in [Lanes -> Nat] /\ taskGeneration \in [Entries -> Nat \cup {NotRunning}]
      /\ promise \in [Entries -> PromiseState] /\ enqueuedAt \in [Entries -> Nat]
      /\ now \in [Lanes -> Nat]
  BY DEF IInv, TypeOK
<1>2. LanesConsistent(queue, active, taskGeneration, generation, promise, enqueuedAt, now)
  BY DEF IInv
<1>3. /\ promise[e] = "uncalled" /\ promise' = P /\ enqueuedAt' = T /\ now' = C
      /\ Drained({LaneOf[e]}, q, active, taskGeneration, maxConcurrent, generation,
                 queue', active', taskGeneration')
      /\ UNCHANGED <<gatewayDraining, maxConcurrent, generation, waiterVars>>
  BY DEF EnqueueCommandInLane, DrainLanes, Drained
<1>4. q \in [Lanes -> Seq(Entries)] /\ LanesConsistent(q, active, taskGeneration, generation, P, T, C)
  BY <1>1, <1>2, <1>3, EnqueueConsistent
<1>5. P \in [Entries -> PromiseState] /\ T \in [Entries -> Nat] /\ C \in [Lanes -> Nat]
  BY <1>1, ConstantsAssumption DEF PromiseState
<1>6. FullOutside({LaneOf[e]}, q, active, maxConcurrent)
  BY <1>1 DEF IInv, NoStrandedWork, FullOutside
<1>7. P[e] = "pending" /\ \A f \in Entries : f # e => P[f] = promise[f]
  BY <1>1
<1>8. {LaneOf[e]} \in SUBSET Lanes
  BY ConstantsAssumption
<1> HIDE DEF q, P, T, C
<1>9. /\ queue' \in [Lanes -> Seq(Entries)]
      /\ active' \in [Lanes -> SUBSET Entries]
      /\ taskGeneration' \in [Entries -> Nat \cup {NotRunning}]
      /\ LanesConsistent(queue', active', taskGeneration', generation, P, T, C)
      /\ \A l \in Lanes : queue'[l] # << >> => Cardinality(active'[l]) >= maxConcurrent[l]
      /\ \A l \in Lanes : active'[l] \ active[l] # {} => Cardinality(active'[l]) <= maxConcurrent[l]
      /\ \A f \in Entries : \/ taskGeneration'[f] = taskGeneration[f]
                            \/ taskGeneration[f] = NotRunning /\ P[f] = "pending"
  <2>1. /\ {LaneOf[e]} \in SUBSET Lanes /\ q \in [Lanes -> Seq(Entries)]
        /\ active \in [Lanes -> SUBSET Entries] /\ maxConcurrent \in [Lanes -> Nat]
        /\ taskGeneration \in [Entries -> Nat \cup {NotRunning}] /\ generation \in [Lanes -> Nat]
        /\ P \in [Entries -> PromiseState] /\ T \in [Entries -> Nat] /\ C \in [Lanes -> Nat]
    BY <1>1, <1>4, <1>5, <1>8
  <2>2. /\ LanesConsistent(q, active, taskGeneration, generation, P, T, C)
        /\ FullOutside({LaneOf[e]}, q, active, maxConcurrent)
        /\ Drained({LaneOf[e]}, q, active, taskGeneration, maxConcurrent, generation, queue', active', taskGeneration')
    BY <1>3, <1>4, <1>6
  <2>3. DrainOutcome(queue', active', taskGeneration',
                     active, taskGeneration, maxConcurrent, generation, P, T, C)
    BY <2>1, <2>2, DrainLanesKeeps
  <2>4. QED
    BY <2>3 DEF DrainOutcome
<1>10. TypeOK'
  BY <1>1, <1>3, <1>5, <1>9 DEF TypeOK, waiterVars, IInv
<1>11. LanesConsistent(queue, active, taskGeneration, generation, promise, enqueuedAt, now)'
  BY <1>3, <1>9
<1>12. NoStrandedWork'
  BY <1>3, <1>9 DEF NoStrandedWork
<1>13. \A f \in Entries : Started(f) =>
          taskGeneration'[f] = taskGeneration[f] /\ promise'[f] = promise[f]
  <2>1. taskGeneration[e] = NotRunning
    BY <1>2, <1>3 DEF LanesConsistent, TasksSound
  <2>2. QED
    BY <1>3, <1>7, <1>9, <2>1 DEF Started, Running
<1>14. WaitedStarted' /\ DrainedIsTrue'
  <2>1. \A f \in Entries : Started(f) => Started(f)'
    BY <1>13 DEF Started, Running
  <2>2. \A f \in Entries : Started(f) /\ taskGeneration'[f] = generation'[LaneOf[f]]
                             => taskGeneration[f] = generation[LaneOf[f]]
    BY <1>3, <1>13
  <2>3. QED
    BY <1>3, <2>1, <2>2, WaiterKept DEF IInv
<1>15. QED
  BY <1>3, <1>9, <1>10, <1>11, <1>12, <1>14 DEF IInv

\* The settling of a task keeps the invariant, and starts tasks within the cap.
LEMMA SettleStep ==
    ASSUME IInv, NEW e \in Entries, NEW outcome \in {"resolved", "rejected"},
           TaskSettles(e, outcome)
    PROVE  /\ IInv'
           /\ \A l \in Lanes : active'[l] \ active[l] # {} =>
                 Cardinality(active'[l]) <= maxConcurrent'[l]
<1> DEFINE D == IF CompletesCurrentGeneration(e) THEN {LaneOf[e]} ELSE {}
           a == IF CompletesCurrentGeneration(e)
                THEN [active EXCEPT ![LaneOf[e]] = @ \ {e}] ELSE active
           r == [taskGeneration EXCEPT ![e] = NotRunning]
           P == [promise EXCEPT ![e] = outcome]
<1>1. /\ queue \in [Lanes -> Seq(Entries)] /\ active \in [Lanes -> SUBSET Entries]
      /\ maxConcurrent \in [Lanes -> 1..MaxConcurrency] /\ maxConcurrent \in [Lanes -> Nat]
      /\ generation \in [Lanes -> Nat] /\ taskGeneration \in [Entries -> Nat \cup {NotRunning}]
      /\ promise \in [Entries -> PromiseState] /\ enqueuedAt \in [Entries -> Nat]
      /\ now \in [Lanes -> Nat]
  BY DEF IInv, TypeOK
<1>2. LanesConsistent(queue, active, taskGeneration, generation, promise, enqueuedAt, now)
  BY DEF IInv
<1>3. /\ taskGeneration[e] # NotRunning /\ promise' = P
      /\ Drained(D, queue, a, r, maxConcurrent, generation, queue', active', taskGeneration')
      /\ UNCHANGED <<gatewayDraining, maxConcurrent, generation, enqueuedAt, now, waiterVars>>
  BY DEF TaskSettles, DrainLanes, Drained
<1>4. LanesConsistent(queue, a, r, generation, P, enqueuedAt, now)
  <2>1. a = IF taskGeneration[e] = generation[LaneOf[e]]
            THEN [active EXCEPT ![LaneOf[e]] = @ \ {e}] ELSE active
    BY DEF CompletesCurrentGeneration
  <2>2. r = [taskGeneration EXCEPT ![e] = NotRunning] /\ P = [promise EXCEPT ![e] = outcome]
    OBVIOUS
  <2> HIDE DEF a, r, P
  <2>3. QED
    BY <1>1, <1>2, <1>3, <2>1, <2>2, SettleConsistent
<1>5. /\ a \in [Lanes -> SUBSET Entries]
      /\ r \in [Entries -> Nat \cup {NotRunning}]
      /\ P \in [Entries -> PromiseState]
      /\ D \in SUBSET Lanes
  BY <1>1, ConstantsAssumption DEF PromiseState, Settled
<1>6. \A l \in Lanes : a[l] \subseteq active[l] /\ (l \notin D => a[l] = active[l])
  BY <1>1
<1>7. FullOutside(D, queue, a, maxConcurrent)
  BY <1>6 DEF IInv, NoStrandedWork, FullOutside
<1>8. /\ P[e] = outcome /\ r[e] = NotRunning
      /\ \A f \in Entries : f # e => P[f] = promise[f] /\ r[f] = taskGeneration[f]
  BY <1>1
<1> HIDE DEF a, r, P, D
<1>9. /\ active' \in [Lanes -> SUBSET Entries]
      /\ queue' \in [Lanes -> Seq(Entries)]
      /\ taskGeneration' \in [Entries -> Nat \cup {NotRunning}]
      /\ LanesConsistent(queue', active', taskGeneration', generation, P, enqueuedAt, now)
      /\ \A l \in Lanes : queue'[l] # << >> => Cardinality(active'[l]) >= maxConcurrent[l]
      /\ \A l \in Lanes : active'[l] \ a[l] # {} => Cardinality(active'[l]) <= maxConcurrent[l]
      /\ \A f \in Entries : \/ taskGeneration'[f] = r[f]
                            \/ r[f] = NotRunning /\ P[f] = "pending"
  <2>1. /\ D \in SUBSET Lanes /\ queue \in [Lanes -> Seq(Entries)]
        /\ a \in [Lanes -> SUBSET Entries] /\ maxConcurrent \in [Lanes -> Nat]
        /\ r \in [Entries -> Nat \cup {NotRunning}] /\ generation \in [Lanes -> Nat]
        /\ P \in [Entries -> PromiseState] /\ enqueuedAt \in [Entries -> Nat] /\ now \in [Lanes -> Nat]
    BY <1>1, <1>5
  <2>2. /\ LanesConsistent(queue, a, r, generation, P, enqueuedAt, now)
        /\ FullOutside(D, queue, a, maxConcurrent)
        /\ Drained(D, queue, a, r, maxConcurrent, generation, queue', active', taskGeneration')
    BY <1>3, <1>4, <1>7
  <2>3. DrainOutcome(queue', active', taskGeneration',
                     a, r, maxConcurrent, generation, P, enqueuedAt, now)
    BY <2>1, <2>2, DrainLanesKeeps
  <2>4. QED
    BY <2>3 DEF DrainOutcome
<1>10. TypeOK'
  BY <1>1, <1>3, <1>5, <1>9 DEF TypeOK, waiterVars, IInv
<1>11. LanesConsistent(queue, active, taskGeneration, generation, promise, enqueuedAt, now)'
  BY <1>3, <1>9
<1>12. NoStrandedWork'
  BY <1>3, <1>9 DEF NoStrandedWork
<1>13. \A f \in Entries : Started(f) =>
          \/ f # e /\ taskGeneration'[f] = taskGeneration[f] /\ promise'[f] = promise[f]
          \/ f = e /\ taskGeneration'[f] = NotRunning /\ promise'[f] = outcome
  BY <1>3, <1>8, <1>9 DEF Started, Running
<1>14. WaitedStarted' /\ DrainedIsTrue'
  <2>1. \A f \in Entries : Started(f) => Started(f)'
    BY <1>13 DEF Started, Running
  <2>2. \A f \in Entries : Started(f) /\ taskGeneration'[f] = generation'[LaneOf[f]]
                             => taskGeneration[f] = generation[LaneOf[f]]
    BY <1>1, <1>3, <1>13, ConstantsAssumption DEF NotRunning
  <2>3. QED
    BY <1>3, <2>1, <2>2, WaiterKept DEF IInv
<1>15. \A l \in Lanes : active'[l] \ active[l] # {} => Cardinality(active'[l]) <= maxConcurrent'[l]
  BY <1>3, <1>6, <1>9
<1>16. QED
  BY <1>10, <1>11, <1>12, <1>14, <1>15 DEF IInv

\* A changed cap keeps the invariant, and starts tasks within the new cap.
LEMMA SetConcurrencyStep ==
    ASSUME IInv, NEW k \in Lanes, NEW m \in 0..MaxConcurrency, SetCommandLaneConcurrency(k, m)
    PROVE  /\ IInv'
           /\ \A l \in Lanes : active'[l] \ active[l] # {} =>
                 Cardinality(active'[l]) <= maxConcurrent'[l]
<1> DEFINE M == [maxConcurrent EXCEPT ![k] = IF m < 1 THEN 1 ELSE m]
<1>1. /\ queue \in [Lanes -> Seq(Entries)] /\ active \in [Lanes -> SUBSET Entries]
      /\ maxConcurrent \in [Lanes -> 1..MaxConcurrency]
      /\ generation \in [Lanes -> Nat] /\ taskGeneration \in [Entries -> Nat \cup {NotRunning}]
      /\ promise \in [Entries -> PromiseState] /\ enqueuedAt \in [Entries -> Nat]
      /\ now \in [Lanes -> Nat]
  BY DEF IInv, TypeOK
<1>2. LanesConsistent(queue, active, taskGeneration, generation, promise, enqueuedAt, now)
  BY DEF IInv
<1>3. /\ maxConcurrent' = M
      /\ Drained({k}, queue, active, taskGeneration, M, generation,
                 queue', active', taskGeneration')
      /\ UNCHANGED <<gatewayDraining, generation, promise, enqueuedAt, now, waiterVars>>
  BY DEF SetCommandLaneConcurrency, DrainLanes, Drained
<1>4. M \in [Lanes -> 1..MaxConcurrency] /\ M \in [Lanes -> Nat]
  <2>1. (IF m < 1 THEN 1 ELSE m) \in 1..MaxConcurrency
    BY ConstantsAssumption
  <2>2. M \in [Lanes -> 1..MaxConcurrency]
    BY <1>1, <2>1
  <2>3. QED
    BY <2>2
<1>5. FullOutside({k}, queue, active, M)
  BY <1>1 DEF IInv, NoStrandedWork, FullOutside
<1> HIDE DEF M
<1>6. /\ queue' \in [Lanes -> Seq(Entries)]
      /\ active' \in [Lanes -> SUBSET Entries]
      /\ taskGeneration' \in [Entries -> Nat \cup {NotRunning}]
      /\ LanesConsistent(queue', active', taskGeneration', generation, promise, enqueuedAt, now)
      /\ \A l \in Lanes : queue'[l] # << >> => Cardinality(active'[l]) >= M[l]
      /\ \A l \in Lanes : active'[l] \ active[l] # {} => Cardinality(active'[l]) <= M[l]
      /\ \A f \in Entries : \/ taskGeneration'[f] = taskGeneration[f]
                            \/ taskGeneration[f] = NotRunning /\ promise[f] = "pending"
  <2>1. /\ {k} \in SUBSET Lanes /\ queue \in [Lanes -> Seq(Entries)]
        /\ active \in [Lanes -> SUBSET Entries] /\ M \in [Lanes -> Nat]
        /\ taskGeneration \in [Entries -> Nat \cup {NotRunning}] /\ generation \in [Lanes -> Nat]
        /\ promise \in [Entries -> PromiseState] /\ enqueuedAt \in [Entries -> Nat] /\ now \in [Lanes -> Nat]
    BY <1>1, <1>4
  <2>2. /\ LanesConsistent(queue, active, taskGeneration, generation, promise, enqueuedAt, now)
        /\ FullOutside({k}, queue, active, M)
        /\ Drained({k}, queue, active, taskGeneration, M, generation, queue', active', taskGeneration')
    BY <1>2, <1>3, <1>5
  <2>3. DrainOutcome(queue', active', taskGeneration',
                     active, taskGeneration, M, generation, promise, enqueuedAt, now)
    BY <2>1, <2>2, DrainLanesKeeps
  <2>4. QED
    BY <2>3 DEF DrainOutcome
<1>7. TypeOK'
  BY <1>1, <1>3, <1>4, <1>6 DEF TypeOK, waiterVars, IInv
<1>8. LanesConsistent(queue, active, taskGeneration, generation, promise, enqueuedAt, now)'
  BY <1>3, <1>6
<1>9. NoStrandedWork'
  BY <1>3, <1>6 DEF NoStrandedWork
<1>10. \A f \in Entries : Started(f) =>
          taskGeneration'[f] = taskGeneration[f] /\ promise'[f] = promise[f]
  BY <1>3, <1>6 DEF Started, Running
<1>11. WaitedStarted' /\ DrainedIsTrue'
  <2>1. \A f \in Entries : Started(f) => Started(f)'
    BY <1>10 DEF Started, Running
  <2>2. \A f \in Entries : Started(f) /\ taskGeneration'[f] = generation'[LaneOf[f]]
                             => taskGeneration[f] = generation[LaneOf[f]]
    BY <1>3, <1>10
  <2>3. QED
    BY <1>3, <2>1, <2>2, WaiterKept DEF IInv
<1>12. QED
  BY <1>3, <1>6, <1>7, <1>8, <1>9, <1>11 DEF IInv

\* A reset keeps the invariant, and starts tasks within the cap.
LEMMA ResetStep ==
    ASSUME IInv, ResetAllLanes
    PROVE  /\ IInv'
           /\ \A l \in Lanes : active'[l] \ active[l] # {} =>
                 Cardinality(active'[l]) <= maxConcurrent'[l]
<1> DEFINE D == {l \in Lanes : queue[l] # << >>}
           a == [l \in Lanes |-> {}]
           G == [l \in Lanes |-> generation[l] + 1]
<1>1. /\ queue \in [Lanes -> Seq(Entries)] /\ active \in [Lanes -> SUBSET Entries]
      /\ maxConcurrent \in [Lanes -> 1..MaxConcurrency] /\ maxConcurrent \in [Lanes -> Nat]
      /\ generation \in [Lanes -> Nat] /\ taskGeneration \in [Entries -> Nat \cup {NotRunning}]
      /\ promise \in [Entries -> PromiseState] /\ enqueuedAt \in [Entries -> Nat]
      /\ now \in [Lanes -> Nat]
  BY DEF IInv, TypeOK
<1>2. LanesConsistent(queue, active, taskGeneration, generation, promise, enqueuedAt, now)
  BY DEF IInv
<1>3. /\ generation' = G /\ gatewayDraining' = FALSE
      /\ Drained(D, queue, a, taskGeneration, maxConcurrent, G,
                 queue', active', taskGeneration')
      /\ UNCHANGED <<maxConcurrent, promise, enqueuedAt, now, waiterVars>>
  BY DEF ResetAllLanes, DrainLanes, Drained
<1>4. LanesConsistent(queue, a, taskGeneration, G, promise, enqueuedAt, now)
  BY <1>1, <1>2, ResetConsistent
<1>5. /\ a \in [Lanes -> SUBSET Entries] /\ G \in [Lanes -> Nat] /\ D \in SUBSET Lanes
      /\ \A l \in Lanes : a[l] = {}
  BY <1>1
<1>6. FullOutside(D, queue, a, maxConcurrent)
  BY DEF FullOutside
<1> HIDE DEF D, a, G
<1>7. /\ queue' \in [Lanes -> Seq(Entries)]
      /\ active' \in [Lanes -> SUBSET Entries]
      /\ taskGeneration' \in [Entries -> Nat \cup {NotRunning}]
      /\ LanesConsistent(queue', active', taskGeneration', G, promise, enqueuedAt, now)
      /\ \A l \in Lanes : queue'[l] # << >> => Cardinality(active'[l]) >= maxConcurrent[l]
      /\ \A l \in Lanes : active'[l] \ a[l] # {} => Cardinality(active'[l]) <= maxConcurrent[l]
      /\ \A f \in Entries : \/ taskGeneration'[f] = taskGeneration[f]
                            \/ taskGeneration[f] = NotRunning /\ promise[f] = "pending"
  <2>1. /\ D \in SUBSET Lanes /\ queue \in [Lanes -> Seq(Entries)]
        /\ a \in [Lanes -> SUBSET Entries] /\ maxConcurrent \in [Lanes -> Nat]
        /\ taskGeneration \in [Entries -> Nat \cup {NotRunning}] /\ G \in [Lanes -> Nat]
        /\ promise \in [Entries -> PromiseState] /\ enqueuedAt \in [Entries -> Nat] /\ now \in [Lanes -> Nat]
    BY <1>1, <1>5
  <2>2. /\ LanesConsistent(queue, a, taskGeneration, G, promise, enqueuedAt, now)
        /\ FullOutside(D, queue, a, maxConcurrent)
        /\ Drained(D, queue, a, taskGeneration, maxConcurrent, G, queue', active', taskGeneration')
    BY <1>3, <1>4, <1>6
  <2>3. DrainOutcome(queue', active', taskGeneration',
                     a, taskGeneration, maxConcurrent, G, promise, enqueuedAt, now)
    BY <2>1, <2>2, DrainLanesKeeps
  <2>4. QED
    BY <2>3 DEF DrainOutcome
<1>8. TypeOK'
  BY <1>1, <1>3, <1>5, <1>7 DEF TypeOK, waiterVars, IInv
<1>9. LanesConsistent(queue, active, taskGeneration, generation, promise, enqueuedAt, now)'
  BY <1>3, <1>7
<1>10. NoStrandedWork'
  BY <1>3, <1>7 DEF NoStrandedWork
<1>11. \A f \in Entries : Started(f) =>
          taskGeneration'[f] = taskGeneration[f] /\ promise'[f] = promise[f]
  BY <1>3, <1>7 DEF Started, Running
<1>12. \A f \in Entries : taskGeneration[f] # generation'[LaneOf[f]]
  <2> SUFFICES ASSUME NEW f \in Entries PROVE taskGeneration[f] # generation'[LaneOf[f]]
    OBVIOUS
  <2>1. LaneOf[f] \in Lanes
    BY ConstantsAssumption
  <2>2. generation'[LaneOf[f]] = generation[LaneOf[f]] + 1 /\ generation[LaneOf[f]] \in Nat
    BY <1>1, <1>3, <2>1 DEF G
  <2>3. CASE taskGeneration[f] = NotRunning
    BY <2>2, <2>3 DEF NotRunning
  <2>4. CASE taskGeneration[f] # NotRunning
    <3>1. taskGeneration[f] \in Nat /\ taskGeneration[f] <= generation[LaneOf[f]]
      BY <1>1, <1>2, <2>4 DEF LanesConsistent, TasksSound
    <3>2. QED
      BY <2>2, <3>1
  <2>5. QED
    BY <2>3, <2>4
<1>13. WaitedStarted' /\ DrainedIsTrue'
  <2>1. \A f \in Entries : Started(f) => Started(f)'
    BY <1>11 DEF Started, Running
  <2>2. \A f \in Entries : Started(f) /\ taskGeneration'[f] = generation'[LaneOf[f]]
                             => taskGeneration[f] = generation[LaneOf[f]]
    BY <1>11, <1>12
  <2>3. QED
    BY <1>3, <2>1, <2>2, WaiterKept DEF IInv
<1>14. \A l \in Lanes : active'[l] \ active[l] # {} => Cardinality(active'[l]) <= maxConcurrent'[l]
  BY <1>3, <1>5, <1>7
<1>15. QED
  BY <1>8, <1>9, <1>10, <1>13, <1>14 DEF IInv

\* clearCommandLane keeps the invariant.
LEMMA ClearStep ==
    ASSUME IInv, NEW k \in Lanes, ClearCommandLane(k)
    PROVE  IInv'
<1> DEFINE q == [queue EXCEPT ![k] = << >>]
           P == [e \in Entries |->
                   IF e \in Shifted(queue[k], Len(queue[k])) THEN "cleared" ELSE promise[e]]
<1>1. /\ queue \in [Lanes -> Seq(Entries)] /\ active \in [Lanes -> SUBSET Entries]
      /\ generation \in [Lanes -> Nat] /\ taskGeneration \in [Entries -> Nat \cup {NotRunning}]
      /\ promise \in [Entries -> PromiseState] /\ enqueuedAt \in [Entries -> Nat]
      /\ now \in [Lanes -> Nat]
  BY DEF IInv, TypeOK
<1>2. LanesConsistent(queue, active, taskGeneration, generation, promise, enqueuedAt, now)
  BY DEF IInv
<1>3. /\ queue' = q /\ promise' = P
      /\ UNCHANGED <<gatewayDraining, active, taskGeneration, maxConcurrent, generation,
                     enqueuedAt, now, waiterVars>>
  BY DEF ClearCommandLane
<1>4. LanesConsistent(q, active, taskGeneration, generation, P, enqueuedAt, now)
  <2>1. /\ q = [queue EXCEPT ![k] = << >>]
        /\ P = [e \in Entries |->
                  IF e \in Shifted(queue[k], Len(queue[k])) THEN "cleared" ELSE promise[e]]
    OBVIOUS
  <2> HIDE DEF q, P
  <2>2. QED
    BY <1>1, <1>2, <2>1, ClearConsistent
<1>5. q \in [Lanes -> Seq(Entries)] /\ P \in [Entries -> PromiseState]
  <2>1. << >> \in Seq(Entries)
    BY EmptySeq
  <2>2. q \in [Lanes -> Seq(Entries)]
    BY <1>1, <2>1
  <2>3. \A e \in Entries :
          (IF e \in Shifted(queue[k], Len(queue[k])) THEN "cleared" ELSE promise[e]) \in PromiseState
    BY <1>1 DEF PromiseState, Settled
  <2>4. QED
    BY <2>2, <2>3
<1>6. \A l \in Lanes : q[l] # << >> => queue[l] # << >>
  BY <1>1
<1>7. \A f \in Entries : \/ P[f] = promise[f]
                         \/ promise[f] = "pending" /\ taskGeneration[f] = NotRunning
  <2>1. \A f \in Entries : f \in Shifted(queue[k], Len(queue[k])) =>
            promise[f] = "pending" /\ taskGeneration[f] = NotRunning
    BY <1>2 DEF LanesConsistent, QueueSound, Shifted
  <2>2. \A f \in Entries : P[f] = IF f \in Shifted(queue[k], Len(queue[k]))
                                 THEN "cleared" ELSE promise[f]
    OBVIOUS
  <2> HIDE DEF P
  <2>3. QED
    BY <2>1, <2>2
<1> HIDE DEF q, P
<1>8. TypeOK'
  BY <1>1, <1>3, <1>5 DEF TypeOK, waiterVars, IInv
<1>9. LanesConsistent(queue, active, taskGeneration, generation, promise, enqueuedAt, now)'
  BY <1>3, <1>4
<1>10. NoStrandedWork'
  BY <1>3, <1>6 DEF IInv, NoStrandedWork
<1>11. WaitedStarted' /\ DrainedIsTrue'
  <2>1. \A f \in Entries : Started(f) => Started(f)'
    BY <1>3, <1>7 DEF Started, Running
  <2>2. \A f \in Entries : Started(f) /\ taskGeneration'[f] = generation'[LaneOf[f]]
                             => taskGeneration[f] = generation[LaneOf[f]]
    BY <1>3
  <2>3. QED
    BY <1>3, <2>1, <2>2, WaiterKept DEF IInv
<1>12. QED
  BY <1>8, <1>9, <1>10, <1>11 DEF IInv

\* A refused call keeps the invariant.
LEMMA RefuseStep ==
    ASSUME IInv, NEW e \in Entries, RefuseWhileDraining(e)
    PROVE  IInv'
<1> DEFINE P == [promise EXCEPT ![e] = "refused"]
<1>1. /\ promise[e] = "uncalled" /\ promise' = P
      /\ UNCHANGED <<gatewayDraining, laneVars, maxConcurrent, generation,
                     enqueuedAt, now, waiterVars>>
  BY DEF RefuseWhileDraining
<1>2. P[e] = "refused" /\ \A f \in Entries : f # e => P[f] = promise[f]
  BY DEF IInv, TypeOK
<1>3. P \in [Entries -> PromiseState]
  BY DEF IInv, TypeOK, PromiseState, Settled
<1> HIDE DEF P
<1>4. LanesConsistent(queue, active, taskGeneration, generation, promise, enqueuedAt, now)
  BY DEF IInv
<1>5. taskGeneration[e] = NotRunning
  BY <1>1, <1>4 DEF LanesConsistent, TasksSound
<1>6. \A l \in Lanes : \A i \in 1..Len(queue[l]) : queue[l][i] # e /\ queue[l][i] \in Entries
  <2>1. \A l \in Lanes : \A i \in 1..Len(queue[l]) : promise[queue[l][i]] = "pending"
    BY <1>4 DEF LanesConsistent, QueueSound
  <2>2. queue \in [Lanes -> Seq(Entries)]
    BY DEF IInv, TypeOK
  <2>3. \A l \in Lanes : \A i \in 1..Len(queue[l]) : queue[l][i] \in Entries
    BY <2>2, ElementOfSeq
  <2>4. QED
    BY <1>1, <2>1, <2>3
<1>7. LanesConsistent(queue, active, taskGeneration, generation, P, enqueuedAt, now)
  <2>1. QueueSound(queue, taskGeneration, P, enqueuedAt, now)
    BY <1>2, <1>4, <1>6 DEF LanesConsistent, QueueSound
  <2>2. TasksSound(taskGeneration, generation, P, enqueuedAt, now)
    BY <1>2, <1>4, <1>5 DEF LanesConsistent, TasksSound
  <2>3. PendingLocated(queue, taskGeneration, P)
    BY <1>2, <1>4 DEF LanesConsistent, PendingLocated
  <2>4. StartedFirst(queue, taskGeneration, P, enqueuedAt)
    BY <1>2, <1>4, <1>5 DEF LanesConsistent, StartedFirst
  <2>5. QED
    BY <1>4, <2>1, <2>2, <2>3, <2>4 DEF LanesConsistent
<1>8. TypeOK'
  BY <1>1, <1>3 DEF TypeOK, laneVars, waiterVars, IInv
<1>9. LanesConsistent(queue, active, taskGeneration, generation, promise, enqueuedAt, now)'
  BY <1>1, <1>7 DEF laneVars
<1>10. NoStrandedWork'
  BY <1>1 DEF IInv, NoStrandedWork, laneVars
<1>11. WaitedStarted' /\ DrainedIsTrue'
  <2>1. \A f \in Entries : Started(f) => Started(f)'
    BY <1>1, <1>2, <1>5 DEF Started, Running, laneVars
  <2>2. \A f \in Entries : Started(f) /\ taskGeneration'[f] = generation'[LaneOf[f]]
                             => taskGeneration[f] = generation[LaneOf[f]]
    BY <1>1 DEF laneVars
  <2>3. QED
    BY <1>1, <2>1, <2>2, WaiterKept DEF IInv
<1>12. QED
  BY <1>8, <1>9, <1>10, <1>11 DEF IInv

\* A step that leaves the lanes alone keeps the parts of the invariant about them.
LEMMA LanesKept ==
    ASSUME IInv, UNCHANGED <<laneVars, maxConcurrent, generation, promise, enqueuedAt, now>>
    PROVE  /\ LanesConsistent(queue, active, taskGeneration, generation, promise, enqueuedAt, now)'
           /\ NoStrandedWork'
BY DEF IInv, laneVars, NoStrandedWork

\* The waiting of waitForActiveTasks keeps the invariant.
LEMMA WaitStep ==
    ASSUME IInv, WaitForActiveTasks \/ PollActiveTasks \/ MarkGatewayDraining
    PROVE  IInv'
<1>1. LanesConsistent(queue, active, taskGeneration, generation, promise, enqueuedAt, now)
  BY DEF IInv
<1>2. UNCHANGED <<laneVars, maxConcurrent, generation, promise, enqueuedAt, now>>
  BY DEF WaitForActiveTasks, PollActiveTasks, MarkGatewayDraining
<1>3. \A f \in Entries : Started(f)' <=> Started(f)
  BY <1>2 DEF Started, Running, laneVars
<1>4. /\ LanesConsistent(queue, active, taskGeneration, generation, promise, enqueuedAt, now)'
      /\ NoStrandedWork'
  BY <1>2, LanesKept
<1>5. \A e \in Entries : e \in active[LaneOf[e]] <=> taskGeneration[e] = generation[LaneOf[e]]
  BY <1>1, ConstantsAssumption DEF LanesConsistent, ActiveExact
<1>6. CASE WaitForActiveTasks
  <2>1. /\ activeAtStart' = UNION {active[l] : l \in Lanes}
        /\ waiter' \in {"drained", "polling"}
        /\ waiter' = "drained" => activeAtStart' = {}
        /\ UNCHANGED gatewayDraining
    BY <1>6 DEF WaitForActiveTasks
  <2>2. \A e \in activeAtStart' : e \in Entries /\ taskGeneration[e] # NotRunning
    <3>1. \A l \in Lanes : generation[l] # NotRunning
      BY DEF IInv, TypeOK, NotRunning
    <3>2. QED
      BY <1>1, <2>1, <3>1 DEF LanesConsistent, ActiveExact
  <2>3. TypeOK'
    BY <1>2, <2>1, <2>2 DEF IInv, TypeOK, laneVars, WaiterState
  <2>4. WaitedStarted'
    <3>1. \A e \in activeAtStart' : Started(e)
      BY <2>2 DEF Started, Running
    <3>2. QED
      BY <1>3, <2>2, <3>1 DEF WaitedStarted
  <2>5. DrainedIsTrue'
    BY <2>1 DEF DrainedIsTrue
  <2>6. QED
    BY <1>4, <2>3, <2>4, <2>5 DEF IInv
<1>7. CASE PollActiveTasks
  <2>1. /\ activeAtStart' = activeAtStart
        /\ waiter' \in {"drained", "timedOut"}
        /\ waiter' = "drained" => \A l \in Lanes : active[l] \cap activeAtStart = {}
        /\ UNCHANGED gatewayDraining
    BY <1>7 DEF PollActiveTasks
  <2>2. TypeOK'
    BY <1>2, <2>1 DEF IInv, TypeOK, laneVars, WaiterState
  <2>3. WaitedStarted'
    BY <1>3, <2>1, <2>2 DEF IInv, WaitedStarted, TypeOK
  <2>4. DrainedIsTrue'
    <3> SUFFICES ASSUME waiter' = "drained", NEW e \in activeAtStart'
                 PROVE  taskGeneration'[e] # generation'[LaneOf[e]]
      BY DEF DrainedIsTrue
    <3>1. e \in Entries /\ LaneOf[e] \in Lanes
      BY <2>1, ConstantsAssumption DEF IInv, TypeOK
    <3>2. e \notin active[LaneOf[e]]
      BY <2>1, <3>1
    <3>3. QED
      BY <1>2, <1>5, <3>1, <3>2 DEF laneVars
  <2>5. QED
    BY <1>4, <2>2, <2>3, <2>4 DEF IInv
<1>8. CASE MarkGatewayDraining
  <2>1. gatewayDraining' = TRUE /\ UNCHANGED waiterVars
    BY <1>8 DEF MarkGatewayDraining
  <2>2. TypeOK'
    BY <1>2, <2>1 DEF IInv, TypeOK, laneVars, waiterVars
  <2>3. \A f \in Entries : Started(f) => Started(f)'
    BY <1>3
  <2>4. \A f \in Entries : Started(f) /\ taskGeneration'[f] = generation'[LaneOf[f]]
                             => taskGeneration[f] = generation[LaneOf[f]]
    BY <1>2 DEF laneVars
  <2>5. WaitedStarted' /\ DrainedIsTrue'
    BY <2>1, <2>3, <2>4, WaiterKept DEF IInv
  <2>6. QED
    BY <1>4, <2>2, <2>5 DEF IInv
<1>9. QED
  BY <1>6, <1>7, <1>8

\* A stuttering step keeps the invariant.
LEMMA StutterStep == IInv /\ UNCHANGED vars => IInv'
<1> SUFFICES ASSUME IInv, UNCHANGED vars PROVE IInv'
  OBVIOUS
<1>1. TypeOK'
  BY DEF IInv, vars, laneVars, waiterVars, TypeOK
<1>2. /\ LanesConsistent(queue, active, taskGeneration, generation, promise, enqueuedAt, now)'
      /\ NoStrandedWork'
  BY LanesKept DEF vars, laneVars
<1>3. WaitedStarted' /\ DrainedIsTrue'
  BY DEF IInv, vars, laneVars, waiterVars, WaitedStarted, DrainedIsTrue, Started, Running
<1>4. QED
  BY <1>1, <1>2, <1>3 DEF IInv

-----------------------------------------------------------------------------
(* The theorems.                                                            *)

\* Every step keeps the invariant, and starts tasks within the caps.
LEMMA NextStep ==
    ASSUME IInv, [Next]_vars
    PROVE  /\ IInv'
           /\ \A l \in Lanes : active'[l] \ active[l] # {} =>
                 Cardinality(active'[l]) <= maxConcurrent'[l]
<1>1. ASSUME NEW e \in Entries, RefuseWhileDraining(e)
      PROVE  IInv' /\ active' = active
  BY <1>1, RefuseStep DEF RefuseWhileDraining, laneVars
<1>2. CASE \E e \in Entries : EnqueueCommandInLane(e)
  BY <1>2, EnqueueStep
<1>3. CASE \E e \in Entries, outcome \in {"resolved", "rejected"} : TaskSettles(e, outcome)
  BY <1>3, SettleStep
<1>4. CASE \E l \in Lanes, m \in 0..MaxConcurrency : SetCommandLaneConcurrency(l, m)
  BY <1>4, SetConcurrencyStep
<1>5. ASSUME NEW l \in Lanes, ClearCommandLane(l)
      PROVE  IInv' /\ active' = active
  BY <1>5, ClearStep DEF ClearCommandLane
<1>6. CASE ResetAllLanes
  BY <1>6, ResetStep
<1>7. CASE WaitForActiveTasks \/ PollActiveTasks \/ MarkGatewayDraining
  <2>1. active' = active
    BY <1>7 DEF WaitForActiveTasks, PollActiveTasks, MarkGatewayDraining, laneVars
  <2>2. QED
    BY <1>7, <2>1, WaitStep
<1>8. CASE UNCHANGED vars
  BY <1>8, StutterStep DEF vars, laneVars
<1>9. QED
  BY <1>1, <1>2, <1>3, <1>4, <1>5, <1>6, <1>7, <1>8 DEF Next

\* The invariant holds in every reachable state.
LEMMA Invariance == Spec => []IInv
<1>1. Init => IInv
  BY InitIInv
<1>2. IInv /\ [Next]_vars => IInv'
  BY NextStep
<1>3. QED
  BY <1>1, <1>2, PTL DEF Spec

\* Every variable keeps its range: no code path of the queue produces a cap
\* below one or an entry in a foreign place.
THEOREM TypeCorrect == Spec => []TypeOK
<1>1. IInv => TypeOK
  BY DEF IInv
<1>2. QED
  BY <1>1, Invariance, PTL

\* drainLane: whatever the order of enqueues, completions, cap changes, clears
\* and resets, a lane with waiting entries is a full lane.
THEOREM WorkIsNeverStranded == Spec => []NoStrandedWork
<1>1. IInv => NoStrandedWork
  BY DEF IInv
<1>2. QED
  BY <1>1, Invariance, PTL

\* activeTaskIds holds exactly the tasks executing in the lane's generation.
THEOREM ActiveIdsAreExact == Spec => []ActiveIsExact
<1>1. IInv => ActiveIsExact
  BY DEF IInv, LanesConsistent, ActiveExact, ActiveIsExact
<1>2. QED
  BY <1>1, Invariance, PTL

\* enqueueCommandInLane: a pending promise has its entry in exactly one place,
\* so that no call is lost and none is run twice.
THEOREM NothingLostOrDuplicated == Spec => []PendingIsLocated
<1>1. ASSUME IInv PROVE PendingIsLocated
  <2>1. /\ LanesConsistent(queue, active, taskGeneration, generation, promise, enqueuedAt, now)
        /\ queue \in [Lanes -> Seq(Entries)]
    BY <1>1 DEF IInv, TypeOK
  <2>2. \A e \in Entries : LaneOf[e] \in Lanes
    BY ConstantsAssumption
  <2>3. \A e \in Entries : DOMAIN queue[LaneOf[e]] = 1..Len(queue[LaneOf[e]])
    BY <2>1, <2>2, LenProperties
  <2>4. \A e \in Entries : Queued(e) <=> InQueue(queue, e)
    BY <2>3 DEF Queued, InQueue
  <2>5. \A e \in Entries : Queued(e) => promise[e] = "pending" /\ ~Running(e)
    BY <2>1, <2>2, <2>4 DEF LanesConsistent, QueueSound, InQueue, Running
  <2>6. \A e \in Entries : Running(e) => promise[e] = "pending"
    BY <2>1 DEF LanesConsistent, TasksSound, Running
  <2>7. \A e \in Entries : promise[e] = "pending" => Queued(e) \/ Running(e)
    BY <2>1, <2>4 DEF LanesConsistent, PendingLocated, Running
  <2>8. QED
    BY <2>5, <2>6, <2>7 DEF PendingIsLocated
<1>2. QED
  BY <1>1, Invariance, PTL

\* drainLane takes entries in the order they were pushed, whatever happens between.
THEOREM LanesAreFIFO == Spec => []NoOvertaking
<1>1. ASSUME IInv PROVE NoOvertaking
  <2> SUFFICES ASSUME NEW e \in Entries, NEW f \in Entries,
                      LaneOf[e] = LaneOf[f], Queued(e), Started(f)
               PROVE  enqueuedAt[f] < enqueuedAt[e]
    BY DEF NoOvertaking
  <2>1. StartedFirst(queue, taskGeneration, promise, enqueuedAt)
    BY <1>1 DEF IInv, LanesConsistent
  <2>2. LaneOf[e] \in Lanes /\ queue \in [Lanes -> Seq(Entries)]
    BY <1>1, ConstantsAssumption DEF IInv, TypeOK
  <2>3. PICK i \in 1..Len(queue[LaneOf[e]]) : queue[LaneOf[e]][i] = e
    BY <2>2, LenProperties DEF Queued
  <2>4. QED
    BY <2>1, <2>3 DEF StartedFirst, Started, Running
<1>2. QED
  BY <1>1, Invariance, PTL

\* waitForActiveTasks never says "drained" while a task it waited for executes.
THEOREM DrainedMeansDone == Spec => []DrainedIsTrue
<1>1. IInv => DrainedIsTrue
  BY DEF IInv
<1>2. QED
  BY <1>1, Invariance, PTL

\* No step starts a task beyond the cap of its lane.
THEOREM CapIsRespected == Spec => StartsRespectCap
<1>1. IInv /\ [Next]_vars =>
        [\A l \in Lanes : active'[l] \ active[l] # {} =>
            Cardinality(active'[l]) <= maxConcurrent'[l]]_vars
  BY NextStep
<1>2. QED
  BY <1>1, Invariance, PTL DEF Spec, StartsRespectCap

=============================================================================
