-------------------------- MODULE EmbeddedRunsProofs --------------------------
(***************************************************************************)
(* Proofs about agent runs on nested lanes, for any number of sessions,     *)
(* runs and in-process restarts.                                            *)
(*                                                                         *)
(* What is proved of the command queue is taken over: its invariant is     *)
(* kept by the steps of the runs because each of them is one of its         *)
(* actions.  On top of that come the nesting (a run that waits in a global  *)
(* lane, or executes there, has a session task that waits for it) and caps  *)
(* of one (no two executing tasks of a lane have the same generation).      *)
(***************************************************************************)
EXTENDS EmbeddedRuns, FiniteSetTheorems, SequenceTheorems, TLAPS

CQ == INSTANCE CommandQueueProofs WITH Entries <- Calls, MaxConcurrency <- 1

-----------------------------------------------------------------------------
(* The calls and their lanes.                                               *)

\* The calls are told apart, and so are their lanes.
LEMMA CallFacts ==
    ASSUME NEW r \in Runs
    PROVE  /\ SessionCall(r) \in Calls /\ GlobalCall(r) \in Calls
           /\ r \in CronRuns => CronCall(r) \in Calls
           /\ SessionCall(r)[1] = "session" /\ GlobalCall(r)[1] = "global" /\ CronCall(r)[1] = "cron"
           /\ SessionCall(r)[2] = r /\ GlobalCall(r)[2] = r /\ CronCall(r)[2] = r
  BY DEF Calls, SessionCall, GlobalCall, CronCall

\* Every call is made by a session, for a run, or for a cron job.
LEMMA CallsAre ==
    ASSUME NEW c \in Calls
    PROVE  \/ \E r \in Runs : c = SessionCall(r)
           \/ \E r \in Runs : c = GlobalCall(r)
           \/ \E r \in CronRuns : c = CronCall(r)
  BY DEF Calls

\* The lane of each kind of call.
LEMMA LanesOfCalls ==
    /\ LaneOf \in [Calls -> Lanes]
    /\ \A r \in Runs : /\ LaneOf[SessionCall(r)] = ResolveSessionLane(SessionOf[r])
                       /\ LaneOf[GlobalCall(r)] = GlobalLaneOf(r)
    /\ \A r \in CronRuns : LaneOf[CronCall(r)] = CronLane
  <1> USE RunsAssumption
  <1>1. \A r \in Runs : GlobalLaneOf(r) \in {NestedLane, MainLane}
    BY DEF GlobalLaneOf, ResolveGlobalLane, ResolveNestedAgentLane
  <1>2. \A r \in Runs : ResolveSessionLane(SessionOf[r]) \in Lanes /\ GlobalLaneOf(r) \in Lanes
    BY <1>1 DEF Lanes
  <1>3. CronLane \in Lanes
    BY DEF Lanes
  <1>4. \A r \in Runs : /\ LaneOf[SessionCall(r)] = ResolveSessionLane(SessionOf[r])
                        /\ LaneOf[GlobalCall(r)] = GlobalLaneOf(r)
    BY CallFacts DEF LaneOf
  <1>5. \A r \in CronRuns : LaneOf[CronCall(r)] = CronLane
    BY CallFacts DEF LaneOf
  <1>6. LaneOf = [c \in Calls |-> LaneOf[c]]
    <2> DEFINE f(c) == CASE c[1] = "session" -> ResolveSessionLane(SessionOf[c[2]])
                         [] c[1] = "global"  -> GlobalLaneOf(c[2])
                         [] c[1] = "cron"    -> CronLane
    <2>1. LaneOf = [c \in Calls |-> f(c)]
      BY DEF LaneOf
    <2> HIDE DEF f
    <2> QED
      BY <2>1
  <1>7. \A c \in Calls : LaneOf[c] \in Lanes
    BY <1>2, <1>3, <1>4, <1>5, CallsAre
  <1> QED
    BY <1>4, <1>5, <1>6, <1>7

\* Only the session tasks of a session are on its lane.
LEMMA SessionLanes ==
    ASSUME NEW s \in Sessions, NEW c \in Calls, LaneOf[c] = ResolveSessionLane(s)
    PROVE  \E r \in Runs : c = SessionCall(r) /\ SessionOf[r] = s
  <1> USE RunsAssumption
  <1>1. Len(ResolveSessionLane(s)) = 2 /\ Len(CronLane) = 1 /\ Len(MainLane) = 1 /\ Len(NestedLane) = 1
    BY DEF ResolveSessionLane, CronLane, MainLane, NestedLane
  <1>2. \A r \in Runs : GlobalLaneOf(r) \in {NestedLane, MainLane}
    BY DEF GlobalLaneOf, ResolveGlobalLane, ResolveNestedAgentLane
  <1>3. PICK r \in Runs : c = SessionCall(r)
    BY <1>1, <1>2, CallsAre, LanesOfCalls
  <1>4. ResolveSessionLane(SessionOf[r]) = ResolveSessionLane(s)
    BY <1>3, LanesOfCalls
  <1> QED
    BY <1>3, <1>4 DEF ResolveSessionLane

\* What the proofs about the queue assume of its constants holds here.
LEMMA ConstantsHold == CQ!ConstantsAssumption
  <1>1. IsFiniteSet({SessionCall(r) : r \in Runs}) /\ IsFiniteSet({GlobalCall(r) : r \in Runs})
        /\ IsFiniteSet({CronCall(r) : r \in CronRuns})
    <2>1. [r \in Runs |-> SessionCall(r)] \in Surjection(Runs, {SessionCall(r) : r \in Runs})
      BY DEF Surjection
    <2>2. [r \in Runs |-> GlobalCall(r)] \in Surjection(Runs, {GlobalCall(r) : r \in Runs})
      BY DEF Surjection
    <2>3. [r \in CronRuns |-> CronCall(r)] \in Surjection(CronRuns, {CronCall(r) : r \in CronRuns})
      BY DEF Surjection
    <2>4. IsFiniteSet(Runs) /\ IsFiniteSet(CronRuns)
      BY RunsAssumption, FS_Subset
    <2> QED
      BY <2>1, <2>2, <2>3, <2>4, FS_Surjection
  <1>2. IsFiniteSet(Calls)
    BY <1>1, FS_Union DEF Calls
  <1>3. CQ!IsFiniteSet(Calls)
    BY <1>2 DEF IsFiniteSet, CQ!IsFiniteSet
  <1> QED
    BY <1>3, LanesOfCalls, RunsAssumption DEF CQ!ConstantsAssumption

-----------------------------------------------------------------------------
(* The queue of the model is the queue of the proofs about it.              *)

\* Both count with the same operator.
LEMMA SameSize ==
    ASSUME NEW S
    PROVE  Queue!Cardinality(S) = Cardinality(S) /\ CQ!Cardinality(S) = Cardinality(S)
  BY DEF Queue!Cardinality, CQ!Cardinality, Cardinality

\* The pump is the same ...
LEMMA SamePump ==
    ASSUME NEW D, NEW q, NEW a, NEW r, NEW m, NEW g
    PROVE  Queue!DrainLanes(D, q, a, r, m, g) <=> CQ!DrainLanes(D, q, a, r, m, g)
  <1>1. ASSUME NEW p, NEW b, NEW k PROVE Queue!PumpCount(p, b, k) = CQ!PumpCount(p, b, k)
    BY SameSize DEF Queue!PumpCount, CQ!PumpCount
  <1>2. Queue!StartCounts(D, q, a, m) = CQ!StartCounts(D, q, a, m)
    BY <1>1 DEF Queue!StartCounts, CQ!StartCounts
  <1>3. ASSUME NEW n PROVE Queue!PumpedQueue(q, n) = CQ!PumpedQueue(q, n)
    BY DEF Queue!PumpedQueue, CQ!PumpedQueue, Queue!Remaining, CQ!Remaining
  <1>4. ASSUME NEW n PROVE Queue!PumpedActive(q, a, n) = CQ!PumpedActive(q, a, n)
    BY DEF Queue!PumpedActive, CQ!PumpedActive, Queue!Shifted, CQ!Shifted
  <1>5. ASSUME NEW n PROVE Queue!PumpedTasks(q, r, n, g) = CQ!PumpedTasks(q, r, n, g)
    BY DEF Queue!PumpedTasks, CQ!PumpedTasks, Queue!Shifted, CQ!Shifted
  <1> QED
    BY <1>2, <1>3, <1>4, <1>5 DEF Queue!DrainLanes, CQ!DrainLanes

\* ... and with it every action the runs use.
LEMMA SameActions ==
    /\ \A c \in Calls : /\ Queue!EnqueueCommandInLane(c) <=> CQ!EnqueueCommandInLane(c)
                        /\ Queue!RefuseWhileDraining(c) <=> CQ!RefuseWhileDraining(c)
                        /\ Queue!TaskSettles(c, "resolved") <=> CQ!TaskSettles(c, "resolved")
    /\ \A l \in Lanes : Queue!ClearCommandLane(l) <=> CQ!ClearCommandLane(l)
    /\ Queue!MarkGatewayDraining <=> CQ!MarkGatewayDraining
    /\ Queue!ResetAllLanes <=> CQ!ResetAllLanes
    /\ Queue!Init <=> CQ!Init
    /\ Queue!TypeOK <=> CQ!TypeOK
  <1> USE SamePump DEF Queue!waiterVars, CQ!waiterVars, Queue!laneVars, CQ!laneVars
  <1>1. ASSUME NEW c \in Calls
        PROVE  Queue!EnqueueCommandInLane(c) <=> CQ!EnqueueCommandInLane(c)
    BY DEF Queue!EnqueueCommandInLane, CQ!EnqueueCommandInLane
  <1>2. ASSUME NEW c \in Calls
        PROVE  Queue!RefuseWhileDraining(c) <=> CQ!RefuseWhileDraining(c)
    BY DEF Queue!RefuseWhileDraining, CQ!RefuseWhileDraining
  <1>3. ASSUME NEW c \in Calls
        PROVE  Queue!TaskSettles(c, "resolved") <=> CQ!TaskSettles(c, "resolved")
    BY DEF Queue!TaskSettles, CQ!TaskSettles, Queue!NotRunning, CQ!NotRunning,
           Queue!CompletesCurrentGeneration, CQ!CompletesCurrentGeneration
  <1>4. ASSUME NEW l \in Lanes
        PROVE  Queue!ClearCommandLane(l) <=> CQ!ClearCommandLane(l)
    BY DEF Queue!ClearCommandLane, CQ!ClearCommandLane, Queue!Shifted, CQ!Shifted
  <1>5. Queue!MarkGatewayDraining <=> CQ!MarkGatewayDraining
    BY DEF Queue!MarkGatewayDraining, CQ!MarkGatewayDraining
  <1>6. Queue!ResetAllLanes <=> CQ!ResetAllLanes
    BY DEF Queue!ResetAllLanes, CQ!ResetAllLanes
  <1>7. Queue!Init <=> CQ!Init
    BY DEF Queue!Init, CQ!Init, Queue!NotRunning, CQ!NotRunning
  <1>8. Queue!TypeOK <=> CQ!TypeOK
    BY DEF Queue!TypeOK, CQ!TypeOK, Queue!NotRunning, CQ!NotRunning, Queue!PromiseState,
           CQ!PromiseState, Queue!Settled, CQ!Settled, Queue!WaiterState, CQ!WaiterState
  <1> QED
    BY <1>1, <1>2, <1>3, <1>4, <1>5, <1>6, <1>7, <1>8

\* So the queue's invariant is kept.
LEMMA QueueKeeps ==
    ASSUME CQ!IInv,
           \/ \E c \in Calls : Enqueue(c) \/ Queue!TaskSettles(c, "resolved")
           \/ \E l \in Lanes : Queue!ClearCommandLane(l)
           \/ Queue!MarkGatewayDraining
           \/ Queue!ResetAllLanes
    PROVE  CQ!IInv'
  <1> USE ConstantsHold
  <1>1. ASSUME NEW c \in Calls, CQ!EnqueueCommandInLane(c) PROVE CQ!IInv'
    BY <1>1, CQ!EnqueueStep
  <1>2. ASSUME NEW c \in Calls, CQ!RefuseWhileDraining(c) PROVE CQ!IInv'
    BY <1>2, CQ!RefuseStep
  <1>3. ASSUME NEW c \in Calls, CQ!TaskSettles(c, "resolved") PROVE CQ!IInv'
    BY <1>3, CQ!SettleStep
  <1>4. ASSUME NEW l \in Lanes, CQ!ClearCommandLane(l) PROVE CQ!IInv'
    BY <1>4, CQ!ClearStep
  <1>5. ASSUME CQ!MarkGatewayDraining PROVE CQ!IInv'
    BY <1>5, CQ!WaitStep
  <1>6. ASSUME CQ!ResetAllLanes PROVE CQ!IInv'
    BY <1>6, CQ!ResetStep
  <1> QED
    BY <1>1, <1>2, <1>3, <1>4, <1>5, <1>6, SameActions DEF Enqueue

-----------------------------------------------------------------------------
(* The pump of a lane that runs one task at a time.                          *)

\* What is left of a queue, and what is taken off it.
LEMMA TakesNoneOrOne ==
    ASSUME NEW q \in Seq(Calls)
    PROVE  /\ Queue!Remaining(q, 0) = q /\ Queue!Shifted(q, 0) = {}
           /\ q # << >> => /\ Queue!Remaining(q, 1) = Tail(q) /\ Queue!Shifted(q, 1) = {Head(q)}
                           /\ Head(q) \in Calls /\ Tail(q) \in Seq(Calls)
  <1>1. Queue!Remaining(q, 0) = q
    BY DEF Queue!Remaining
  <1>2. Queue!Shifted(q, 0) = {}
    BY DEF Queue!Shifted
  <1>3. ASSUME q # << >> PROVE Queue!Remaining(q, 1) = Tail(q)
    BY <1>3 DEF Queue!Remaining
  <1>4. ASSUME q # << >> PROVE Queue!Shifted(q, 1) = {Head(q)}
    BY <1>4 DEF Queue!Shifted
  <1>5. q # << >> => Head(q) \in Calls /\ Tail(q) \in Seq(Calls)
    OBVIOUS
  <1> QED
    BY <1>1, <1>2, <1>3, <1>4, <1>5

\* A lane that is pumped takes its next entry if it is idle.
Starts(l, D, q, a) == l \in D /\ a[l] = {} /\ q[l] # << >>

\* Under a cap of one the pump starts a task only if none executes.
LEMMA CountsOne ==
    ASSUME NEW p \in Seq(Calls), NEW b \in SUBSET Calls
    PROVE  Queue!PumpCount(p, b, 1) = IF b = {} /\ p # << >> THEN 1 ELSE 0
  <1>1. Len(p) \in Nat /\ (p = << >> <=> Len(p) = 0)
    OBVIOUS
  <1>2. IsFiniteSet(b)
    BY ConstantsHold, FS_Subset DEF CQ!ConstantsAssumption, IsFiniteSet, CQ!IsFiniteSet
  <1>3. Queue!Cardinality(b) \in Nat /\ (Queue!Cardinality(b) = 0 <=> b = {})
    BY <1>2, SameSize, FS_CardinalityType, FS_EmptySet
  <1> QED
    BY <1>1, <1>3 DEF Queue!PumpCount

\* The outcome of a pump: queues Q, active sets A, executing closures R.
Drained(D, q, a, r, m, g, Q, A, R) ==
    LET n == Queue!StartCounts(D, q, a, m)
    IN  /\ Q = Queue!PumpedQueue(q, n)
        /\ A = Queue!PumpedActive(q, a, n)
        /\ R = Queue!PumpedTasks(q, r, n, g)

DrainedOne(D, q, a, r, g, Q, A, R) ==
    /\ \A l \in Lanes :
         IF Starts(l, D, q, a) THEN Q[l] = Tail(q[l]) /\ A[l] = {Head(q[l])}
         ELSE Q[l] = q[l] /\ A[l] = a[l]
    /\ \A c \in Calls :
         R[c] = IF Starts(LaneOf[c], D, q, a) /\ c = Head(q[LaneOf[c]]) THEN g[LaneOf[c]] ELSE r[c]

\* Under caps of one at most one task of each lane is started.
LEMMA DrainsOne ==
    ASSUME NEW D \in SUBSET Lanes, NEW q \in [Lanes -> Seq(Calls)],
           NEW a \in [Lanes -> SUBSET Calls], NEW r, NEW m, NEW g, NEW Q, NEW A, NEW R,
           m = [l \in Lanes |-> 1], Drained(D, q, a, r, m, g, Q, A, R)
    PROVE  DrainedOne(D, q, a, r, g, Q, A, R)
  <1> DEFINE n == Queue!StartCounts(D, q, a, m)
  <1>1. \A l \in Lanes : n[l] = IF Starts(l, D, q, a) THEN 1 ELSE 0
    <2> SUFFICES ASSUME NEW l \in Lanes PROVE n[l] = IF Starts(l, D, q, a) THEN 1 ELSE 0
      OBVIOUS
    <2>1. Queue!PumpCount(q[l], a[l], m[l]) = IF a[l] = {} /\ q[l] # << >> THEN 1 ELSE 0
      BY CountsOne
    <2> QED
      BY <2>1 DEF Queue!StartCounts, Starts
  <1>2. Q = Queue!PumpedQueue(q, n) /\ A = Queue!PumpedActive(q, a, n) /\ R = Queue!PumpedTasks(q, r, n, g)
    BY DEF Drained
  <1> HIDE DEF n
  <1>3. ASSUME NEW l \in Lanes
        PROVE  IF Starts(l, D, q, a) THEN Q[l] = Tail(q[l]) /\ A[l] = {Head(q[l])}
               ELSE Q[l] = q[l] /\ A[l] = a[l]
    <2>1. Q[l] = Queue!Remaining(q[l], n[l]) /\ A[l] = a[l] \cup Queue!Shifted(q[l], n[l])
      BY <1>2 DEF Queue!PumpedQueue, Queue!PumpedActive
    <2>2. CASE Starts(l, D, q, a)
      <3>1. n[l] = 1 /\ a[l] = {} /\ q[l] # << >> /\ q[l] \in Seq(Calls)
        BY <1>1, <2>2 DEF Starts
      <3> QED
        BY <2>1, <2>2, <3>1, TakesNoneOrOne
    <2>3. CASE ~Starts(l, D, q, a)
      <3>1. n[l] = 0 /\ q[l] \in Seq(Calls)
        BY <1>1, <2>3
      <3> QED
        BY <2>1, <2>3, <3>1, TakesNoneOrOne
    <2> QED
      BY <2>2, <2>3
  <1>4. ASSUME NEW c \in Calls
        PROVE  R[c] = IF Starts(LaneOf[c], D, q, a) /\ c = Head(q[LaneOf[c]])
                      THEN g[LaneOf[c]] ELSE r[c]
    <2> DEFINE l == LaneOf[c]
    <2>1. l \in Lanes
      BY LanesOfCalls
    <2>2. R[c] = IF c \in Queue!Shifted(q[l], n[l]) THEN g[l] ELSE r[c]
      BY <1>2 DEF Queue!PumpedTasks
    <2>3. CASE Starts(l, D, q, a)
      <3>1. n[l] = 1 /\ q[l] # << >> /\ q[l] \in Seq(Calls)
        BY <1>1, <2>1, <2>3 DEF Starts
      <3>2. Queue!Shifted(q[l], n[l]) = {Head(q[l])}
        BY <3>1, TakesNoneOrOne
      <3> QED
        BY <2>2, <2>3, <3>2
    <2>4. CASE ~Starts(l, D, q, a)
      <3>1. n[l] = 0 /\ q[l] \in Seq(Calls)
        BY <1>1, <2>1, <2>4
      <3>2. Queue!Shifted(q[l], n[l]) = {}
        BY <3>1, TakesNoneOrOne
      <3> QED
        BY <2>2, <2>4, <3>2
    <2> QED
      BY <2>3, <2>4
  <1> QED
    BY <1>3, <1>4 DEF DrainedOne

-----------------------------------------------------------------------------
(* The inductive invariant.                                                 *)

\* No two executing tasks of a lane were started in the same generation of it.
OnePer(tasks) ==
    \A c, d \in Calls :
        (LaneOf[c] = LaneOf[d] /\ tasks[c] # Queue!NotRunning /\ tasks[c] = tasks[d]) => c = d

OnePerGeneration == OnePer(taskGeneration)

\* A run that waits in its global lane or executes has a session task that waits for it.
NestedRuns == \A r \in Runs : promise[GlobalCall(r)] = "pending" => Queue!Running(SessionCall(r))

\* A registered run executes.
RegisteredRuns == \A r \in Runs : phase[r] = "during" => Queue!Running(GlobalCall(r))

RegistryTypes ==
    /\ activeRuns \in [Sessions -> Runs \cup {NoRun}]
    /\ phase \in [Runs -> {"before", "during", "after"}]
    /\ lateSessions \subseteq Sessions

IInv ==
    /\ CQ!IInv
    /\ maxConcurrent = [l \in Lanes |-> 1]
    /\ OnePerGeneration
    /\ NestedRuns
    /\ RegistryTypes
    /\ RegisteredRuns
    /\ RegistryIsExact

\* What of the queue's invariant is used here.
LEMMA QueueFacts ==
    ASSUME CQ!IInv, maxConcurrent = [l \in Lanes |-> 1]
    PROVE  /\ queue \in [Lanes -> Seq(Calls)] /\ active \in [Lanes -> SUBSET Calls]
           /\ generation \in [Lanes -> Nat] /\ taskGeneration \in [Calls -> Nat \cup {Queue!NotRunning}]
           /\ promise \in [Calls -> Queue!PromiseState]
           /\ \A l \in Lanes, c \in Calls :
                c \in active[l] <=> LaneOf[c] = l /\ taskGeneration[c] = generation[l]
           /\ \A c \in Calls : Queue!Running(c) =>
                promise[c] = "pending" /\ taskGeneration[c] <= generation[LaneOf[c]]
           /\ \A l \in Lanes : \A i \in 1..Len(queue[l]) :
                /\ queue[l][i] \in Calls /\ LaneOf[queue[l][i]] = l
                /\ promise[queue[l][i]] = "pending" /\ ~Queue!Running(queue[l][i])
           /\ \A l \in Lanes : queue[l] # << >> =>
                /\ active[l] # {} /\ Head(queue[l]) \in Calls /\ LaneOf[Head(queue[l])] = l
                /\ ~Queue!Running(Head(queue[l]))
  <1> USE DEF Queue!NotRunning, CQ!NotRunning
  <1>1. /\ queue \in [Lanes -> Seq(Calls)] /\ active \in [Lanes -> SUBSET Calls]
        /\ generation \in [Lanes -> Nat] /\ taskGeneration \in [Calls -> Nat \cup {Queue!NotRunning}]
        /\ promise \in [Calls -> Queue!PromiseState]
    BY DEF CQ!IInv, CQ!TypeOK, CQ!PromiseState, Queue!PromiseState, CQ!Settled, Queue!Settled
  <1>2. \A l \in Lanes, c \in Calls :
           c \in active[l] <=> LaneOf[c] = l /\ taskGeneration[c] = generation[l]
    BY DEF CQ!IInv, CQ!LanesConsistent, CQ!ActiveExact
  <1>3. \A c \in Calls : Queue!Running(c) =>
           promise[c] = "pending" /\ taskGeneration[c] <= generation[LaneOf[c]]
    BY DEF CQ!IInv, CQ!LanesConsistent, CQ!TasksSound, Queue!Running
  <1>4. ASSUME NEW l \in Lanes, NEW i \in 1..Len(queue[l])
        PROVE  /\ queue[l][i] \in Calls /\ LaneOf[queue[l][i]] = l
               /\ promise[queue[l][i]] = "pending" /\ ~Queue!Running(queue[l][i])
    <2>1. queue[l][i] \in Calls
      BY <1>1, ElementOfSeq
    <2>2. /\ LaneOf[queue[l][i]] = l /\ promise[queue[l][i]] = "pending"
          /\ taskGeneration[queue[l][i]] = CQ!NotRunning
      BY DEF CQ!IInv, CQ!LanesConsistent, CQ!QueueSound
    <2> QED
      BY <2>1, <2>2 DEF Queue!Running
  <1>5. ASSUME NEW l \in Lanes, queue[l] # << >>
        PROVE  /\ active[l] # {} /\ Head(queue[l]) \in Calls /\ LaneOf[Head(queue[l])] = l
               /\ ~Queue!Running(Head(queue[l]))
    <2>1. CQ!Cardinality(active[l]) >= 1
      BY <1>5 DEF CQ!IInv, CQ!NoStrandedWork
    <2>2. active[l] # {}
      BY <2>1, SameSize, FS_EmptySet
    <2>3. Head(queue[l]) = queue[l][1] /\ 1 \in 1..Len(queue[l])
      BY <1>1, <1>5
    <2> QED
      BY <1>4, <2>2, <2>3
  <1> QED
    BY <1>1, <1>2, <1>3, <1>4, <1>5

-----------------------------------------------------------------------------
(* The steps of the queue.                                                  *)

Exact(sets, tasks, gens) ==
    \A l \in Lanes, c \in Calls : c \in sets[l] <=> LaneOf[c] = l /\ tasks[c] = gens[l]

\* A pump starts a task in idle lanes only, and leaves the executing ones alone.
LEMMA Pumps ==
    ASSUME NEW D, NEW q, NEW a, NEW r, NEW g, NEW Q, NEW A, NEW R,
           DrainedOne(D, q, a, r, g, Q, A, R),
           NEW actives, NEW tasks, NEW gens \in [Lanes -> Nat],
           Exact(actives, tasks, gens), OnePer(tasks), Exact(A, R, g),
           \A l \in Lanes : q[l] # << >> => tasks[Head(q[l])] = Queue!NotRunning,
           \A l \in Lanes : a[l] \subseteq actives[l],
           \A c \in Calls : r[c] \in {tasks[c], Queue!NotRunning}
    PROVE  OnePer(R) /\ \A c \in Calls : tasks[c] # Queue!NotRunning => R[c] = r[c]
  <1>1. \A c \in Calls : LaneOf[c] \in Lanes
    BY LanesOfCalls
  <1>2. \A c \in Calls : tasks[c] # Queue!NotRunning => R[c] = r[c]
    BY <1>1 DEF Starts, DrainedOne
  <1>3. OnePer(R)
    <2> SUFFICES ASSUME NEW c \in Calls, NEW d \in Calls, LaneOf[c] = LaneOf[d],
                        R[c] # Queue!NotRunning, R[c] = R[d]
                 PROVE  c = d
      BY DEF OnePer
    <2> DEFINE l == LaneOf[c]
    <2>1. CASE R[c] = g[l]
      <3>1. c \in A[l] /\ d \in A[l]
        <4>1. l \in Lanes /\ LaneOf[c] = l /\ LaneOf[d] = l /\ R[c] = g[l] /\ R[d] = g[l]
          BY <1>1, <2>1
        <4> HIDE DEF l
        <4> QED
          BY <4>1 DEF Exact
      <3>2. CASE Starts(l, D, q, a)
        BY <1>1, <3>1, <3>2 DEF DrainedOne
      <3>3. CASE ~Starts(l, D, q, a)
        <4>1. c \in actives[l] /\ d \in actives[l]
          BY <1>1, <3>1, <3>3 DEF DrainedOne
        <4>2. tasks[c] = gens[l] /\ tasks[d] = gens[l] /\ gens[l] \in Nat
          BY <1>1, <4>1 DEF Exact
        <4> QED
          BY <4>2 DEF OnePer, Queue!NotRunning
      <3> QED
        BY <3>2, <3>3
    <2>2. CASE R[c] # g[l]
      <3>1. R[c] = r[c] /\ R[d] = r[d]
        BY <1>1, <2>2 DEF DrainedOne
      <3> QED
        BY <3>1 DEF OnePer
    <2> QED
      BY <2>1, <2>2
  <1> QED
    BY <1>2, <1>3

\* The same, of a step of the queue.
Pumping(D, q, a, r) ==
    /\ Queue!DrainLanes(D, q, a, r, maxConcurrent, generation') /\ maxConcurrent' = maxConcurrent
    /\ D \in SUBSET Lanes /\ q \in [Lanes -> Seq(Calls)] /\ a \in [Lanes -> SUBSET Calls]
    /\ \A l \in Lanes : q[l] # << >> => ~Queue!Running(Head(q[l]))
    /\ \A l \in Lanes : a[l] \subseteq active[l]
    /\ \A c \in Calls : r[c] \in {taskGeneration[c], Queue!NotRunning}

\* Caps of one stay effective, and what executes is not replaced.
LEMMA PumpingKeeps ==
    ASSUME IInv, CQ!IInv', NEW D, NEW q, NEW a, NEW r, Pumping(D, q, a, r)
    PROVE  /\ OnePerGeneration'
           /\ \A c \in Calls : Queue!Running(c) => taskGeneration'[c] = r[c]
           /\ DrainedOne(D, q, a, r, generation', queue', active', taskGeneration')
  <1>1. Exact(active, taskGeneration, generation) /\ generation \in [Lanes -> Nat]
    BY QueueFacts DEF IInv, Exact
  <1>2. Exact(active', taskGeneration', generation')
    <2>1. \A l \in Lanes : active'[l] = {c \in Calls : LaneOf[c] = l /\ taskGeneration'[c] = generation'[l]}
      BY DEF CQ!IInv, CQ!LanesConsistent, CQ!ActiveExact
    <2> QED
      BY <2>1 DEF Exact
  <1>3. maxConcurrent = [l \in Lanes |-> 1]
    BY DEF IInv
  <1>4. Drained(D, q, a, r, maxConcurrent, generation', queue', active', taskGeneration')
    BY DEF Pumping, Queue!DrainLanes, Drained
  <1>5. DrainedOne(D, q, a, r, generation', queue', active', taskGeneration')
    BY <1>3, <1>4, DrainsOne DEF Pumping
  <1>6. OnePer(taskGeneration)
    BY DEF IInv, OnePerGeneration
  <1>7. OnePer(taskGeneration') /\ \A c \in Calls : taskGeneration[c] # Queue!NotRunning => taskGeneration'[c] = r[c]
    BY <1>1, <1>2, <1>5, <1>6, Pumps DEF Pumping, Queue!Running
  <1> QED
    BY <1>5, <1>7 DEF OnePerGeneration, Queue!Running

\* A step of the queue in which the calls of E are made and the tasks of T end.
QueueMoves(E, T) ==
    /\ CQ!IInv' /\ UNCHANGED maxConcurrent /\ OnePerGeneration'
    /\ \A c \in Calls \ T : Queue!Running(c) => taskGeneration'[c] = taskGeneration[c]
    /\ \A c \in Calls \ E : promise'[c] = "pending" => promise[c] = "pending"
    /\ generation' = generation \/ \A l \in Lanes : generation'[l] = generation[l] + 1

\* What becomes of a lane: nothing, or its next task is started in place of the last.
Keeps(l) == queue'[l] = queue[l] /\ active'[l] = active[l]

TakesNext(l) ==
    IF queue[l] = << >> THEN queue'[l] = << >> /\ active'[l] = {}
    ELSE queue'[l] = Tail(queue[l]) /\ active'[l] = {Head(queue[l])}

\* A call: its task starts in an idle lane, and is appended to the queue otherwise.
Takes(l, c) ==
    IF active[l] = {} THEN queue[l] = << >> /\ queue'[l] = << >> /\ active'[l] = {c}
    ELSE queue'[l] = Append(queue[l], c) /\ active'[l] = active[l]

\* A call touches its own lane only, and only if it is accepted.
LEMMA EnqueueMoves ==
    ASSUME IInv, NEW c \in Calls, Enqueue(c)
    PROVE  /\ QueueMoves({c}, {}) /\ promise[c] = "uncalled"
           /\ \A k \in Lanes \ {LaneOf[c]} : Keeps(k)
           /\ Keeps(LaneOf[c]) \/ Takes(LaneOf[c], c)
  <1>1. CQ!IInv'
    BY QueueKeeps DEF IInv
  <1>2. CASE Queue!RefuseWhileDraining(c)
    <2>1. /\ promise' = [promise EXCEPT ![c] = "refused"]
          /\ taskGeneration' = taskGeneration /\ generation' = generation /\ maxConcurrent' = maxConcurrent
          /\ promise[c] = "uncalled" /\ queue' = queue /\ active' = active
      BY <1>2 DEF Queue!RefuseWhileDraining, Queue!laneVars
    <2>2. OnePerGeneration'
      BY <2>1 DEF IInv, OnePerGeneration
    <2> QED
      BY <1>1, <2>1, <2>2, QueueFacts DEF QueueMoves, IInv, Keeps
  <1>3. CASE Queue!EnqueueCommandInLane(c)
    <2> DEFINE l == LaneOf[c]
               q == [queue EXCEPT ![l] = Append(queue[l], c)]
    <2>1. /\ promise[c] = "uncalled" /\ promise' = [promise EXCEPT ![c] = "pending"]
          /\ generation' = generation /\ maxConcurrent' = maxConcurrent
          /\ Queue!DrainLanes({l}, q, active, taskGeneration, maxConcurrent, generation')
      BY <1>3 DEF Queue!EnqueueCommandInLane
    <2>2. l \in Lanes /\ ~Queue!Running(c)
      BY <2>1, LanesOfCalls, QueueFacts DEF IInv
    <2>3. queue \in [Lanes -> Seq(Calls)] /\ active \in [Lanes -> SUBSET Calls]
      BY QueueFacts DEF IInv
    <2>4. /\ q \in [Lanes -> Seq(Calls)] /\ q[l] = Append(queue[l], c)
          /\ \A k \in Lanes \ {l} : q[k] = queue[k]
      BY <2>2, <2>3
    <2>5. Head(q[l]) = IF queue[l] = << >> THEN c ELSE Head(queue[l])
      BY <2>2, <2>3, <2>4
    <2> HIDE DEF q
    <2>6. \A k \in Lanes : q[k] # << >> => LaneOf[Head(q[k])] = k /\ ~Queue!Running(Head(q[k]))
      <3> SUFFICES ASSUME NEW k \in Lanes, q[k] # << >>
                   PROVE  LaneOf[Head(q[k])] = k /\ ~Queue!Running(Head(q[k]))
        OBVIOUS
      <3>1. queue[k] # << >> => LaneOf[Head(queue[k])] = k /\ ~Queue!Running(Head(queue[k]))
        BY QueueFacts DEF IInv
      <3> QED
        BY <2>2, <2>4, <2>5, <3>1
    <2>7. /\ OnePerGeneration' /\ \A d \in Calls : Queue!Running(d) => taskGeneration'[d] = taskGeneration[d]
          /\ DrainedOne({l}, q, active, taskGeneration, generation', queue', active', taskGeneration')
      <3>1. Pumping({l}, q, active, taskGeneration)
        BY <2>1, <2>2, <2>3, <2>4, <2>6 DEF Pumping
      <3> QED
        BY <1>1, <3>1, PumpingKeeps
    <2>8. \A d \in Calls \ {c} : promise'[d] = promise[d]
      BY <2>1, QueueFacts DEF IInv
    <2>9. \A k \in Lanes \ {l} : Keeps(k)
      BY <2>4, <2>7 DEF DrainedOne, Starts, Keeps
    <2>10. Takes(l, c)
      <3>1. active[l] = {} => queue[l] = << >>
        BY <2>2, QueueFacts DEF IInv
      <3>2. CASE active[l] = {}
        <4>1. q[l] = Append(<< >>, c)
          BY <2>4, <3>1, <3>2
        <4>2. Append(<< >>, c) = <<c>>
          OBVIOUS
        <4>3. <<c>> # << >> /\ Tail(<<c>>) = << >> /\ Head(<<c>>) = c
          OBVIOUS
        <4>4. q[l] # << >> /\ Tail(q[l]) = << >> /\ Head(q[l]) = c
          BY <4>1, <4>2, <4>3
        <4> QED
          BY <2>2, <2>7, <3>1, <3>2, <4>4 DEF DrainedOne, Starts, Takes
      <3>3. CASE active[l] # {}
        BY <2>2, <2>4, <2>7, <3>3 DEF DrainedOne, Starts, Takes
      <3> QED
        BY <3>2, <3>3
    <2> QED
      BY <1>1, <2>1, <2>7, <2>8, <2>9, <2>10 DEF QueueMoves
  <1> QED
    BY <1>2, <1>3 DEF Enqueue

\* The end of a task of the present generation moves its lane on, that of an older one nothing.
LEMMA SettleMoves ==
    ASSUME IInv, NEW c \in Calls, Queue!TaskSettles(c, "resolved")
    PROVE  /\ QueueMoves({}, {c}) /\ Queue!Running(c)
           /\ IF Queue!CompletesCurrentGeneration(c)
              THEN /\ active[LaneOf[c]] = {c} /\ TakesNext(LaneOf[c])
                   /\ \A k \in Lanes \ {LaneOf[c]} : Keeps(k)
              ELSE \A k \in Lanes : Keeps(k)
  <1> DEFINE l == LaneOf[c]
             D == IF Queue!CompletesCurrentGeneration(c) THEN {l} ELSE {}
             a == IF Queue!CompletesCurrentGeneration(c) THEN [active EXCEPT ![l] = active[l] \ {c}] ELSE active
             r == [taskGeneration EXCEPT ![c] = Queue!NotRunning]
  <1>1. /\ CQ!IInv' /\ generation' = generation /\ maxConcurrent' = maxConcurrent
        /\ Queue!Running(c) /\ promise' = [promise EXCEPT ![c] = "resolved"]
        /\ Queue!DrainLanes(D, queue, a, r, maxConcurrent, generation')
    BY QueueKeeps DEF IInv, Queue!TaskSettles, Queue!Running
  <1>2. /\ queue \in [Lanes -> Seq(Calls)] /\ active \in [Lanes -> SUBSET Calls]
        /\ taskGeneration \in [Calls -> Nat \cup {Queue!NotRunning}] /\ promise \in [Calls -> Queue!PromiseState]
    BY QueueFacts DEF IInv
  <1>3. l \in Lanes
    BY LanesOfCalls
  <1>4. D \in SUBSET Lanes /\ a \in [Lanes -> SUBSET Calls] /\ \A k \in Lanes : a[k] \subseteq active[k]
    BY <1>2, <1>3
  <1>5. /\ r[c] = Queue!NotRunning /\ \A d \in Calls \ {c} : r[d] = taskGeneration[d]
        /\ \A d \in Calls \ {c} : promise'[d] = promise[d]
    BY <1>1, <1>2
  <1>6. \A d \in Calls : r[d] \in {taskGeneration[d], Queue!NotRunning}
    BY <1>5
  <1>7. \A k \in Lanes : queue[k] # << >> => LaneOf[Head(queue[k])] = k /\ ~Queue!Running(Head(queue[k]))
    BY QueueFacts DEF IInv
  <1>10. Queue!CompletesCurrentGeneration(c) =>
            /\ D = {l} /\ active[l] = {c} /\ a[l] = {} /\ \A k \in Lanes \ {l} : a[k] = active[k]
    <2> SUFFICES ASSUME Queue!CompletesCurrentGeneration(c)
                 PROVE  D = {l} /\ active[l] = {c} /\ a[l] = {} /\ \A k \in Lanes \ {l} : a[k] = active[k]
      OBVIOUS
    <2>1. taskGeneration[c] = generation[l]
      BY DEF Queue!CompletesCurrentGeneration
    <2>2. c \in active[l]
      BY <1>3, <2>1, QueueFacts DEF IInv
    <2>3. ASSUME NEW d \in active[l] PROVE d = c
      <3>1. d \in Calls
        BY <1>2, <1>3
      <3>2. LaneOf[d] = l /\ taskGeneration[d] = generation[l]
        BY <1>3, <3>1, QueueFacts DEF IInv
      <3> QED
        BY <1>1, <2>1, <3>1, <3>2 DEF IInv, OnePerGeneration, OnePer, Queue!Running
    <2>4. active[l] = {c}
      BY <2>2, <2>3
    <2> QED
      BY <1>2, <1>3, <2>4
  <1>11. ~Queue!CompletesCurrentGeneration(c) => D = {} /\ a = active
    OBVIOUS
  <1> HIDE DEF D, a, r
  <1>8. /\ OnePerGeneration' /\ \A d \in Calls : Queue!Running(d) => taskGeneration'[d] = r[d]
        /\ DrainedOne(D, queue, a, r, generation', queue', active', taskGeneration')
    <2>1. Pumping(D, queue, a, r)
      BY <1>1, <1>2, <1>4, <1>6, <1>7 DEF Pumping
    <2> QED
      BY <1>1, <2>1, PumpingKeeps
  <1>9. promise'[c] = "resolved"
    BY <1>1, <1>2
  <1>12. QueueMoves({}, {c})
    BY <1>1, <1>5, <1>8, <1>9 DEF QueueMoves
  <1>13. CASE Queue!CompletesCurrentGeneration(c)
    <2>1. TakesNext(l)
      BY <1>3, <1>8, <1>10, <1>13 DEF DrainedOne, Starts, TakesNext
    <2>2. \A k \in Lanes \ {l} : Keeps(k)
      BY <1>8, <1>10, <1>13 DEF DrainedOne, Starts, Keeps
    <2> QED
      BY <1>1, <1>10, <1>12, <1>13, <2>1, <2>2
  <1>14. CASE ~Queue!CompletesCurrentGeneration(c)
    <2>1. \A k \in Lanes : Keeps(k)
      BY <1>8, <1>11, <1>14 DEF DrainedOne, Starts, Keeps
    <2> QED
      BY <1>1, <1>12, <1>14, <2>1
  <1> QED
    BY <1>13, <1>14

\* A reset moves every lane on to its next task.
LEMMA ResetMoves ==
    ASSUME IInv, Queue!ResetAllLanes
    PROVE  QueueMoves({}, {}) /\ \A k \in Lanes : TakesNext(k)
  <1> DEFINE D == {k \in Lanes : queue[k] # << >>}
             a == [k \in Lanes |-> {}]
  <1>1. /\ CQ!IInv' /\ generation' = [k \in Lanes |-> generation[k] + 1] /\ UNCHANGED <<maxConcurrent, promise>>
        /\ Queue!DrainLanes(D, queue, a, taskGeneration, maxConcurrent, generation')
    BY QueueKeeps DEF IInv, Queue!ResetAllLanes
  <1>2. queue \in [Lanes -> Seq(Calls)]
    BY QueueFacts DEF IInv
  <1>3. D \in SUBSET Lanes /\ a \in [Lanes -> SUBSET Calls] /\ \A k \in Lanes : a[k] \subseteq active[k]
    OBVIOUS
  <1>4. \A k \in Lanes : queue[k] # << >> => LaneOf[Head(queue[k])] = k /\ ~Queue!Running(Head(queue[k]))
    BY QueueFacts DEF IInv
  <1>6. \A k \in Lanes : a[k] = {} /\ (k \in D <=> queue[k] # << >>)
    OBVIOUS
  <1> HIDE DEF D, a
  <1>5. /\ OnePerGeneration' /\ \A d \in Calls : Queue!Running(d) => taskGeneration'[d] = taskGeneration[d]
        /\ DrainedOne(D, queue, a, taskGeneration, generation', queue', active', taskGeneration')
    <2>1. Pumping(D, queue, a, taskGeneration)
      BY <1>1, <1>2, <1>3, <1>4 DEF Pumping
    <2> QED
      BY <1>1, <2>1, PumpingKeeps
  <1>7. \A k \in Lanes : TakesNext(k)
    BY <1>5, <1>6 DEF DrainedOne, Starts, TakesNext
  <1> QED
    BY <1>1, <1>5, <1>7 DEF QueueMoves

\* Clearing a lane empties its queue and leaves what executes alone.
LEMMA ClearMoves ==
    ASSUME IInv, NEW k \in Lanes, Queue!ClearCommandLane(k)
    PROVE  /\ QueueMoves({}, {})
           /\ active' = active /\ queue'[k] = << >> /\ \A l \in Lanes \ {k} : queue'[l] = queue[l]
  <1>1. /\ CQ!IInv' /\ generation' = generation /\ maxConcurrent' = maxConcurrent
        /\ taskGeneration' = taskGeneration
        /\ active' = active /\ queue' = [queue EXCEPT ![k] = << >>]
        /\ \A c \in Calls : promise'[c] \in {promise[c], "cleared"}
    BY QueueKeeps DEF IInv, Queue!ClearCommandLane
  <1>2. OnePerGeneration'
    BY <1>1 DEF IInv, OnePerGeneration
  <1>3. queue \in [Lanes -> Seq(Calls)]
    BY QueueFacts DEF IInv
  <1> QED
    BY <1>1, <1>2, <1>3 DEF QueueMoves

\* Draining is only a mark.
LEMMA MarkMoves ==
    ASSUME IInv, Queue!MarkGatewayDraining
    PROVE  QueueMoves({}, {}) /\ queue' = queue /\ active' = active
  <1>1. CQ!IInv' /\ UNCHANGED <<maxConcurrent, generation, promise, taskGeneration, queue, active>>
    BY QueueKeeps DEF IInv, Queue!MarkGatewayDraining, Queue!laneVars
  <1>2. OnePerGeneration'
    BY <1>1 DEF IInv, OnePerGeneration
  <1> QED
    BY <1>1, <1>2 DEF QueueMoves

\* A step of the queue keeps the invariant if the run's call is made by its session task,
\* the session task outlives the run, and the run its registration.
LEMMA QueueStep ==
    ASSUME IInv, NEW E, NEW T, QueueMoves(E, T), UNCHANGED registryVars, E = {} \/ T = {},
           \A r \in Runs : /\ GlobalCall(r) \in E => Queue!Running(SessionCall(r))
                           /\ SessionCall(r) \in T => IsSettled(GlobalCall(r))
                           /\ GlobalCall(r) \in T => phase[r] # "during"
    PROVE  IInv'
  <1>1. activeRuns' = activeRuns /\ phase' = phase /\ lateSessions' = lateSessions
    BY DEF registryVars
  <1>2. ASSUME NEW r \in Runs, promise[GlobalCall(r)] = "pending"
        PROVE  /\ Queue!Running(SessionCall(r))
               /\ taskGeneration'[SessionCall(r)] = taskGeneration[SessionCall(r)]
    <2>1. Queue!Running(SessionCall(r))
      BY <1>2 DEF IInv, NestedRuns
    <2>2. SessionCall(r) \notin T
      BY <1>2 DEF IsSettled, Queue!Settled
    <2> QED
      BY <2>1, <2>2, CallFacts DEF QueueMoves
  <1>3. NestedRuns'
    <2> SUFFICES ASSUME NEW r \in Runs, promise'[GlobalCall(r)] = "pending"
                 PROVE  Queue!Running(SessionCall(r))'
      BY DEF NestedRuns
    <2>1. CASE GlobalCall(r) \in E
      <3>1. Queue!Running(SessionCall(r)) /\ SessionCall(r) \notin T
        BY <2>1
      <3> QED
        BY <3>1, CallFacts DEF QueueMoves, Queue!Running
    <2>2. CASE GlobalCall(r) \notin E
      <3>1. promise[GlobalCall(r)] = "pending"
        BY <2>2, CallFacts DEF QueueMoves
      <3> QED
        BY <1>2, <3>1 DEF Queue!Running
    <2> QED
      BY <2>1, <2>2
  <1>4. RegisteredRuns'
    <2> SUFFICES ASSUME NEW r \in Runs, phase[r] = "during" PROVE Queue!Running(GlobalCall(r))'
      BY <1>1 DEF RegisteredRuns
    <2>1. Queue!Running(GlobalCall(r)) /\ GlobalCall(r) \notin T
      BY DEF IInv, RegisteredRuns
    <2> QED
      BY <2>1, CallFacts DEF QueueMoves, Queue!Running
  <1>5. ASSUME NEW r \in Runs, phase[r] = "during", OfThisLifetime(r)'
        PROVE  OfThisLifetime(r)
    <2> DEFINE c == SessionCall(r)
               l == LaneOf[c]
    <2>1. promise[GlobalCall(r)] = "pending"
      BY <1>5, QueueFacts, CallFacts DEF IInv, RegisteredRuns
    <2>2. /\ c \in Calls /\ l \in Lanes
          /\ taskGeneration'[c] = taskGeneration[c] /\ Queue!Running(c)
      BY <1>2, <2>1, CallFacts, LanesOfCalls
    <2>3. taskGeneration[c] <= generation[l] /\ generation[l] \in Nat
          /\ taskGeneration[c] \in Nat \cup {Queue!NotRunning}
      BY <2>2, QueueFacts DEF IInv
    <2>4. taskGeneration'[c] = generation'[l]
      BY <1>5 DEF OfThisLifetime, Queue!CompletesCurrentGeneration
    <2>5. generation'[l] = generation[l] \/ generation'[l] = generation[l] + 1
      BY <2>2 DEF QueueMoves
    <2>6. taskGeneration[c] = generation[l]
      BY <2>2, <2>3, <2>4, <2>5 DEF Queue!NotRunning
    <2> QED
      BY <2>6 DEF OfThisLifetime, Queue!CompletesCurrentGeneration
  <1>6. RegistryIsExact'
    <2>1. \A s \in Sessions : activeRuns'[s] # NoRun =>
             phase'[activeRuns'[s]] = "during" /\ SessionOf[activeRuns'[s]] = s
      BY <1>1 DEF IInv, RegistryIsExact
    <2>2. \A r \in Runs : (phase'[r] = "during" /\ OfThisLifetime(r)' /\ SessionOf[r] \notin lateSessions')
             => activeRuns'[SessionOf[r]] = r
      BY <1>1, <1>5 DEF IInv, RegistryIsExact
    <2> QED
      BY <2>1, <2>2 DEF RegistryIsExact
  <1> QED
    BY <1>1, <1>3, <1>4, <1>6 DEF IInv, QueueMoves, RegistryTypes

-----------------------------------------------------------------------------
(* The actions.                                                             *)

\* A step of the registry leaves the queue alone.
LEMMA QueueStays ==
    ASSUME IInv, UNCHANGED queueVars
    PROVE  /\ CQ!IInv' /\ maxConcurrent' = [l \in Lanes |-> 1] /\ OnePerGeneration' /\ NestedRuns'
           /\ \A c \in Calls : Queue!Running(c)' <=> Queue!Running(c)
           /\ \A r \in Runs : OfThisLifetime(r)' <=> OfThisLifetime(r)
  <1>1. CQ!IInv'
    <2>1. UNCHANGED CQ!vars
      BY DEF queueVars, CQ!vars, CQ!laneVars, CQ!waiterVars
    <2> QED
      BY <2>1, ConstantsHold, CQ!StutterStep DEF IInv
  <1>2. OnePerGeneration' /\ NestedRuns'
    BY DEF queueVars, IInv, OnePerGeneration, NestedRuns, Queue!Running
  <1>3. /\ \A c \in Calls : Queue!Running(c)' <=> Queue!Running(c)
        /\ \A r \in Runs : OfThisLifetime(r)' <=> OfThisLifetime(r)
    BY DEF queueVars, Queue!Running, OfThisLifetime, Queue!CompletesCurrentGeneration
  <1> QED
    BY <1>1, <1>2, <1>3 DEF IInv, queueVars

\* A run registers.  Another registered run of its session is not of the lane's present
\* generation unless the new one is a run that a restart had given up.
LEMMA SetActiveKeeps ==
    ASSUME IInv, NEW r \in Runs, SetActiveEmbeddedRun(r)
    PROVE  IInv'
  <1> USE RunsAssumption
  <1> DEFINE s == SessionOf[r]
  <1>1. /\ UNCHANGED queueVars /\ Queue!Running(GlobalCall(r)) /\ phase[r] = "before"
        /\ phase' = [phase EXCEPT ![r] = "during"] /\ activeRuns' = [activeRuns EXCEPT ![s] = r]
        /\ lateSessions' = lateSessions \cup (IF OfThisLifetime(r) THEN {} ELSE {s})
    BY DEF SetActiveEmbeddedRun
  <1>2. /\ activeRuns \in [Sessions -> Runs \cup {NoRun}] /\ s \in Sessions
        /\ phase \in [Runs -> {"before", "during", "after"}] /\ lateSessions \subseteq Sessions
    BY DEF IInv, RegistryTypes
  <1>3. RegistryTypes'
    BY <1>1, <1>2 DEF RegistryTypes
  <1>4. RegisteredRuns'
    BY <1>1, <1>2, QueueStays, CallFacts DEF IInv, RegisteredRuns
  <1>5. \A t \in Sessions : activeRuns'[t] # NoRun =>
           phase'[activeRuns'[t]] = "during" /\ SessionOf[activeRuns'[t]] = t
    BY <1>1, <1>2 DEF IInv, RegistryIsExact
  <1>6. ASSUME NEW q \in Runs, phase'[q] = "during", OfThisLifetime(q)', SessionOf[q] \notin lateSessions'
        PROVE  activeRuns'[SessionOf[q]] = q
    <2>1. OfThisLifetime(q) /\ SessionOf[q] \notin lateSessions
      BY <1>1, <1>6, QueueStays
    <2>2. CASE q = r
      BY <1>1, <1>2, <2>2
    <2>3. CASE q # r /\ SessionOf[q] # s
      <3>1. phase[q] = "during"
        BY <1>1, <1>2, <1>6, <2>3
      <3>2. activeRuns[SessionOf[q]] = q
        BY <2>1, <3>1 DEF IInv, RegistryIsExact
      <3> QED
        BY <1>1, <1>2, <2>3, <3>2
    <2>4. CASE q # r /\ SessionOf[q] = s
      <3>1. phase[q] = "during" /\ OfThisLifetime(r)
        BY <1>1, <1>2, <1>6, <2>4
      <3>2. promise[GlobalCall(q)] = "pending" /\ promise[GlobalCall(r)] = "pending"
        BY <1>1, <3>1, QueueFacts, CallFacts DEF IInv, RegisteredRuns
      <3>3. Queue!Running(SessionCall(q)) /\ Queue!Running(SessionCall(r))
        BY <3>2 DEF IInv, NestedRuns
      <3>4. LaneOf[SessionCall(q)] = LaneOf[SessionCall(r)]
        BY <2>4, LanesOfCalls
      <3>5. taskGeneration[SessionCall(q)] = taskGeneration[SessionCall(r)]
        BY <2>1, <3>1, <3>4 DEF OfThisLifetime, Queue!CompletesCurrentGeneration
      <3>6. SessionCall(q) = SessionCall(r)
        BY <3>3, <3>4, <3>5, CallFacts DEF IInv, OnePerGeneration, OnePer, Queue!Running
      <3> QED
        BY <2>4, <3>6, CallFacts
    <2> QED
      BY <2>2, <2>3, <2>4
  <1>7. RegistryIsExact'
    BY <1>5, <1>6 DEF RegistryIsExact
  <1> QED
    BY <1>1, <1>3, <1>4, <1>7, QueueStays DEF IInv

\* A run clears its handle, if it is still the one registered.
LEMMA ClearActiveKeeps ==
    ASSUME IInv, NEW r \in Runs, ClearActiveEmbeddedRun(r)
    PROVE  IInv'
  <1> USE RunsAssumption
  <1> DEFINE s == SessionOf[r]
  <1>1. /\ UNCHANGED queueVars /\ phase[r] = "during" /\ lateSessions' = lateSessions
        /\ phase' = [phase EXCEPT ![r] = "after"]
        /\ activeRuns' = IF activeRuns[s] = r THEN [activeRuns EXCEPT ![s] = NoRun] ELSE activeRuns
    BY DEF ClearActiveEmbeddedRun
  <1>2. /\ activeRuns \in [Sessions -> Runs \cup {NoRun}] /\ s \in Sessions
        /\ phase \in [Runs -> {"before", "during", "after"}]
    BY DEF IInv, RegistryTypes
  <1>3. RegistryTypes'
    BY <1>1, <1>2 DEF IInv, RegistryTypes
  <1>4. RegisteredRuns'
    BY <1>1, <1>2, QueueStays, CallFacts DEF IInv, RegisteredRuns
  <1>5. ASSUME NEW t \in Sessions, activeRuns'[t] # NoRun
        PROVE  phase'[activeRuns'[t]] = "during" /\ SessionOf[activeRuns'[t]] = t
    <2>1. activeRuns'[t] = activeRuns[t]
      BY <1>1, <1>2, <1>5
    <2>2. phase[activeRuns[t]] = "during" /\ SessionOf[activeRuns[t]] = t /\ activeRuns[t] \in Runs
      BY <1>2, <1>5, <2>1 DEF IInv, RegistryIsExact
    <2>3. activeRuns[t] # r
      BY <1>1, <1>2, <1>5, <2>2
    <2> QED
      BY <1>1, <1>2, <2>1, <2>2, <2>3
  <1>6. ASSUME NEW q \in Runs, phase'[q] = "during", OfThisLifetime(q)', SessionOf[q] \notin lateSessions'
        PROVE  activeRuns'[SessionOf[q]] = q
    <2>1. q # r /\ phase[q] = "during" /\ OfThisLifetime(q)
      BY <1>1, <1>2, <1>6, QueueStays
    <2>2. activeRuns[SessionOf[q]] = q
      BY <1>1, <1>6, <2>1 DEF IInv, RegistryIsExact
    <2> QED
      BY <1>1, <1>2, <2>1, <2>2
  <1>7. RegistryIsExact'
    BY <1>5, <1>6 DEF RegistryIsExact
  <1> QED
    BY <1>1, <1>3, <1>4, <1>7, QueueStays DEF IInv

\* A session task ends after the run it waits for, which has called the global lane for it.
LEMMA RunKeeps ==
    ASSUME IInv, NEW r \in Runs,
           \/ RunEmbeddedPiAgent(r) \/ EnqueueGlobal(r) \/ EnqueueCronRun(r) \/ CronTaskRunsJob(r)
           \/ CronTaskSettles(r) \/ GlobalTaskSettles(r) \/ SessionTaskSettles(r)
    PROVE  IInv'
  <1> USE CallFacts
  <1>1. CASE RunEmbeddedPiAgent(r) \/ CronTaskRunsJob(r)
    <2>1. Enqueue(SessionCall(r)) /\ UNCHANGED registryVars
      BY <1>1 DEF RunEmbeddedPiAgent, CronTaskRunsJob
    <2>2. QueueMoves({SessionCall(r)}, {})
      BY <2>1, EnqueueMoves
    <2>3. \A q \in Runs : GlobalCall(q) \notin {SessionCall(r)}
      OBVIOUS
    <2> QED
      BY <2>1, <2>2, <2>3, QueueStep
  <1>2. CASE EnqueueGlobal(r)
    <2>1. Enqueue(GlobalCall(r)) /\ UNCHANGED registryVars /\ Queue!Running(SessionCall(r))
      BY <1>2 DEF EnqueueGlobal, OwesGlobalCall
    <2>2. QueueMoves({GlobalCall(r)}, {})
      BY <2>1, EnqueueMoves
    <2>3. \A q \in Runs : GlobalCall(q) \in {GlobalCall(r)} => q = r
      OBVIOUS
    <2> QED
      BY <2>1, <2>2, <2>3, QueueStep
  <1>3. CASE EnqueueCronRun(r)
    <2>1. Enqueue(CronCall(r)) /\ UNCHANGED registryVars /\ CronCall(r) \in Calls
      BY <1>3 DEF EnqueueCronRun
    <2>2. QueueMoves({CronCall(r)}, {})
      BY <2>1, EnqueueMoves
    <2>3. \A q \in Runs : GlobalCall(q) \notin {CronCall(r)}
      OBVIOUS
    <2> QED
      BY <2>1, <2>2, <2>3, QueueStep
  <1>4. CASE CronTaskSettles(r)
    <2>1. Queue!TaskSettles(CronCall(r), "resolved") /\ UNCHANGED registryVars /\ CronCall(r) \in Calls
      BY <1>4 DEF CronTaskSettles
    <2>2. QueueMoves({}, {CronCall(r)})
      BY <2>1, SettleMoves
    <2>3. \A q \in Runs : GlobalCall(q) \notin {CronCall(r)} /\ SessionCall(q) \notin {CronCall(r)}
      OBVIOUS
    <2> QED
      BY <2>1, <2>2, <2>3, QueueStep
  <1>5. CASE GlobalTaskSettles(r)
    <2>1. /\ Queue!TaskSettles(GlobalCall(r), "resolved") /\ UNCHANGED registryVars
          /\ phase[r] # "during"
      BY <1>5 DEF GlobalTaskSettles
    <2>2. QueueMoves({}, {GlobalCall(r)})
      BY <2>1, SettleMoves
    <2>3. \A q \in Runs : SessionCall(q) \notin {GlobalCall(r)} /\ (GlobalCall(q) \in {GlobalCall(r)} => q = r)
      OBVIOUS
    <2> QED
      BY <2>1, <2>2, <2>3, QueueStep
  <1>6. CASE SessionTaskSettles(r)
    <2>1. /\ Queue!TaskSettles(SessionCall(r), "resolved") /\ UNCHANGED registryVars
          /\ IsSettled(GlobalCall(r))
      BY <1>6 DEF SessionTaskSettles
    <2>2. QueueMoves({}, {SessionCall(r)})
      BY <2>1, SettleMoves
    <2>3. \A q \in Runs : GlobalCall(q) \notin {SessionCall(r)} /\ (SessionCall(q) \in {SessionCall(r)} => q = r)
      OBVIOUS
    <2> QED
      BY <2>1, <2>2, <2>3, QueueStep
  <1> QED
    BY <1>1, <1>2, <1>3, <1>4, <1>5, <1>6

\* What happens to whole lanes leaves the runs their session tasks.
LEMMA LanesKeep ==
    ASSUME IInv, MarkGatewayDraining \/ ResetAllLanes \/ \E s \in Sessions : ClearSessionLane(s)
    PROVE  IInv'
  <1>1. UNCHANGED registryVars
    BY DEF MarkGatewayDraining, ResetAllLanes, ClearSessionLane
  <1>2. \A s \in Sessions : ResolveSessionLane(s) \in Lanes
    BY DEF Lanes
  <1>3. QueueMoves({}, {})
    BY <1>2, MarkMoves, ResetMoves, ClearMoves DEF MarkGatewayDraining, ResetAllLanes, ClearSessionLane
  <1> QED
    BY <1>1, <1>3, QueueStep

\* The invariant holds at first ...
LEMMA Initially ==
    ASSUME Init
    PROVE  IInv
  <1>1. CQ!IInv
    BY SameActions, ConstantsHold, CQ!InitIInv DEF Init
  <1>2. /\ maxConcurrent = [l \in Lanes |-> 1]
        /\ \A c \in Calls : ~Queue!Running(c) /\ promise[c] = "uncalled"
    BY DEF Init, Queue!Init, Queue!Running
  <1>3. OnePerGeneration /\ NestedRuns
    BY <1>2, CallFacts DEF OnePerGeneration, OnePer, NestedRuns, Queue!Running
  <1>4. RegistryTypes /\ RegisteredRuns /\ RegistryIsExact
    BY DEF Init, RegistryTypes, RegisteredRuns, RegistryIsExact
  <1> QED
    BY <1>1, <1>2, <1>3, <1>4 DEF IInv

\* ... and every step keeps it.
LEMMA Stepwise ==
    ASSUME IInv, [Next]_vars
    PROVE  IInv'
  <1>1. CASE UNCHANGED vars
    <2>1. UNCHANGED queueVars /\ activeRuns' = activeRuns /\ phase' = phase /\ lateSessions' = lateSessions
      BY <1>1 DEF vars, registryVars
    <2>2. RegistryTypes' /\ RegisteredRuns'
      BY <2>1, QueueStays, CallFacts DEF IInv, RegistryTypes, RegisteredRuns
    <2>3. RegistryIsExact'
      BY <2>1, QueueStays DEF IInv, RegistryIsExact
    <2> QED
      BY <2>1, <2>2, <2>3, QueueStays DEF IInv
  <1>2. CASE Next
    BY <1>2, RunKeeps, LanesKeep, SetActiveKeeps, ClearActiveKeeps DEF Next
  <1> QED
    BY <1>1, <1>2

\* The nesting and the caps hold in every reachable state.
THEOREM Invariance == Spec => []IInv
  BY Initially, Stepwise, PTL DEF Spec

\* Every variable keeps its range, those of the queue included.
THEOREM TypeCorrect == Spec => []TypeOK
  <1>1. IInv => TypeOK
    BY SameActions DEF IInv, CQ!IInv, TypeOK, RegistryTypes
  <1> QED
    BY <1>1, Invariance, PTL

\* Two runs of a session execute together only across an in-process restart.
THEOREM SessionsAreSerial == Spec => []OneRunPerSession
  <1>1. ASSUME IInv PROVE OneRunPerSession
    <2> SUFFICES ASSUME NEW p \in Runs, NEW q \in Runs, p # q, SessionOf[p] = SessionOf[q],
                        Queue!Running(GlobalCall(p)), Queue!Running(GlobalCall(q)),
                        taskGeneration[SessionCall(p)] = taskGeneration[SessionCall(q)]
                 PROVE  FALSE
      BY DEF OneRunPerSession
    <2>1. promise[GlobalCall(p)] = "pending" /\ promise[GlobalCall(q)] = "pending"
      BY <1>1, QueueFacts, CallFacts DEF IInv
    <2>2. Queue!Running(SessionCall(p))
      BY <1>1, <2>1 DEF IInv, NestedRuns
    <2>3. LaneOf[SessionCall(p)] = LaneOf[SessionCall(q)]
      BY LanesOfCalls
    <2>4. SessionCall(p) = SessionCall(q)
      BY <1>1, <2>2, <2>3, CallFacts DEF IInv, OnePerGeneration, OnePer, Queue!Running
    <2> QED
      BY <2>4, CallFacts
  <1> QED
    BY <1>1, Invariance, PTL

\* The registry names the run that can be steered and aborted.
THEOREM RegistryIsRight == Spec => []RegistryIsExact
  <1>1. IInv => RegistryIsExact
    BY DEF IInv
  <1> QED
    BY <1>1, Invariance, PTL

-----------------------------------------------------------------------------
(* The session lanes implement the serial executor, as far as safety goes.  *)

\* The run whose task is in the active set A of a session lane, and the runs of a queue.
RunIn(A) == IF \E r \in Runs : SessionCall(r) \in A
            THEN CHOOSE r \in Runs : SessionCall(r) \in A ELSE NoRun
Names(q) == [i \in DOMAIN q |-> q[i][2]]

\* What the refinement mapping shows of a session.
ShownCurrent == [s \in Sessions |-> RunIn(active[ResolveSessionLane(s)])]
ShownLine == [s \in Sessions |-> Names(queue[ResolveSessionLane(s)])]

\* The run of an active set is one of its members, and the only one if there is just one.
LEMMA RunInFacts ==
    ASSUME NEW A
    PROVE  /\ RunIn(A) = NoRun <=> \A r \in Runs : SessionCall(r) \notin A
           /\ RunIn(A) # NoRun => RunIn(A) \in Runs /\ SessionCall(RunIn(A)) \in A
           /\ \A r \in Runs : A = {SessionCall(r)} => RunIn(A) = r
           /\ A = {} => RunIn(A) = NoRun
  <1>1. CASE \E r \in Runs : SessionCall(r) \in A
    <2>1. RunIn(A) \in Runs /\ SessionCall(RunIn(A)) \in A
      BY <1>1 DEF RunIn
    <2>2. RunIn(A) # NoRun
      BY <2>1, RunsAssumption
    <2>3. \A r \in Runs : A = {SessionCall(r)} => RunIn(A) = r
      BY <2>1, CallFacts
    <2> QED
      BY <1>1, <2>1, <2>2, <2>3
  <1>2. CASE ~ \E r \in Runs : SessionCall(r) \in A
    BY <1>2 DEF RunIn
  <1> QED
    BY <1>1, <1>2

\* The runs of a queue, in its order.
LEMMA NamesFacts ==
    ASSUME NEW q \in Seq(Calls)
    PROVE  /\ Names(q) \in Seq(Runs) /\ (Names(q) = << >> <=> q = << >>)
           /\ Len(Names(q)) = Len(q) /\ \A i \in 1..Len(q) : Names(q)[i] = q[i][2]
  <1>1. \A c \in Calls : c[2] \in Runs
    BY CallsAre, CallFacts, RunsAssumption
  <1>2. DOMAIN q = 1..Len(q) /\ Len(q) \in Nat /\ \A i \in 1..Len(q) : q[i] \in Calls
    BY ElementOfSeq
  <1>3. Names(q) = [i \in 1..Len(q) |-> q[i][2]]
    BY <1>2 DEF Names
  <1>4. Names(q) \in Seq(Runs) /\ Len(Names(q)) = Len(q)
    BY <1>1, <1>2, <1>3
  <1>5. Names(q) = << >> <=> q = << >>
    BY <1>4, EmptySeq
  <1> QED
    BY <1>3, <1>4, <1>5

\* Taking the first entry off a queue takes its run off the line.
LEMMA NamesOfTail ==
    ASSUME NEW q \in Seq(Calls), q # << >>
    PROVE  Head(Names(q)) = Head(q)[2] /\ Names(Tail(q)) = Tail(Names(q))
  <1>1. /\ Names(q) \in Seq(Runs) /\ Names(q) # << >> /\ Len(Names(q)) = Len(q)
        /\ \A i \in 1..Len(q) : Names(q)[i] = q[i][2]
    BY NamesFacts
  <1>2. Len(q) \in Nat /\ Len(q) > 0
    BY EmptySeq
  <1>3. Head(Names(q)) = Head(q)[2]
    <2>1. Head(q) = q[1] /\ Head(Names(q)) = Names(q)[1]
      BY <1>1
    <2> QED
      BY <1>1, <1>2, <2>1
  <1>4. /\ Tail(q) \in Seq(Calls) /\ Len(Tail(q)) = Len(q) - 1
        /\ \A i \in 1..Len(Tail(q)) : Tail(q)[i] = q[i+1]
    BY HeadTailProperties
  <1>5. /\ Tail(Names(q)) \in Seq(Runs) /\ Len(Tail(Names(q))) = Len(q) - 1
        /\ \A i \in 1..Len(Tail(Names(q))) : Tail(Names(q))[i] = Names(q)[i+1]
    BY <1>1, HeadTailProperties
  <1>6. /\ Names(Tail(q)) \in Seq(Runs) /\ Len(Names(Tail(q))) = Len(Tail(q))
        /\ \A i \in 1..Len(Tail(q)) : Names(Tail(q))[i] = Tail(q)[i][2]
    BY <1>4, NamesFacts
  <1>7. \A i \in 1..Len(Names(Tail(q))) : Names(Tail(q))[i] = Tail(Names(q))[i]
    BY <1>1, <1>2, <1>4, <1>5, <1>6
  <1> QED
    BY <1>3, <1>4, <1>5, <1>6, <1>7, SeqEqual

\* Appending the call of a run appends the run to the line.
LEMMA NamesOfAppend ==
    ASSUME NEW q \in Seq(Calls), NEW r \in Runs
    PROVE  Names(Append(q, SessionCall(r))) = Append(Names(q), r)
  <1> DEFINE c == SessionCall(r)
  <1>1. c \in Calls /\ c[2] = r
    BY CallFacts
  <1> HIDE DEF c
  <1>2. /\ Names(q) \in Seq(Runs) /\ Len(Names(q)) = Len(q) /\ Len(q) \in Nat
        /\ \A i \in 1..Len(q) : Names(q)[i] = q[i][2]
    BY NamesFacts
  <1>3. /\ Append(q, c) \in Seq(Calls) /\ Len(Append(q, c)) = Len(q) + 1
        /\ \A i \in 1..Len(q) : Append(q, c)[i] = q[i]
        /\ Append(q, c)[Len(q) + 1] = c
    BY <1>1, AppendProperties
  <1>4. /\ Append(Names(q), r) \in Seq(Runs) /\ Len(Append(Names(q), r)) = Len(q) + 1
        /\ \A i \in 1..Len(q) : Append(Names(q), r)[i] = Names(q)[i]
        /\ Append(Names(q), r)[Len(q) + 1] = r
    BY <1>2, AppendProperties
  <1>5. /\ Names(Append(q, c)) \in Seq(Runs) /\ Len(Names(Append(q, c))) = Len(Append(q, c))
        /\ \A i \in 1..Len(Append(q, c)) : Names(Append(q, c))[i] = Append(q, c)[i][2]
    BY <1>3, NamesFacts
  <1>6. \A i \in 1..(Len(q) + 1) : Names(Append(q, c))[i] = Append(Names(q), r)[i]
    <2> SUFFICES ASSUME NEW i \in 1..(Len(q) + 1)
                 PROVE  Names(Append(q, c))[i] = Append(Names(q), r)[i]
      OBVIOUS
    <2>1. Names(Append(q, c))[i] = Append(q, c)[i][2]
      BY <1>3, <1>5
    <2>2. CASE i = Len(q) + 1
      BY <1>1, <1>3, <1>4, <2>1, <2>2
    <2>3. CASE i # Len(q) + 1
      <3>1. i \in 1..Len(q)
        BY <1>2, <2>3
      <3> QED
        BY <1>2, <1>3, <1>4, <2>1, <3>1
    <2> QED
      BY <2>2, <2>3
  <1>7. Names(Append(q, c)) = Append(Names(q), r)
    BY <1>3, <1>4, <1>5, <1>6, SeqEqual
  <1> QED
    BY <1>7 DEF c

\* That is the mapping of the module.
LEMMA Shown ==
    /\ [s \in Sessions |-> ActiveRun(s)] = ShownCurrent
    /\ [s \in Sessions |-> [i \in DOMAIN queue[ResolveSessionLane(s)] |->
                              queue[ResolveSessionLane(s)][i][2]]] = ShownLine
    /\ ([s \in Sessions |-> ActiveRun(s)])' = ShownCurrent'
    /\ ([s \in Sessions |-> [i \in DOMAIN queue[ResolveSessionLane(s)] |->
                              queue[ResolveSessionLane(s)][i][2]]])' = ShownLine'
  BY DEF ActiveRun, RunIn, Names, ShownCurrent, ShownLine

\* What a session shows of its lane: nothing happens ...
LEMMA ShowsKeeps ==
    ASSUME NEW s \in Sessions, Keeps(ResolveSessionLane(s))
    PROVE  ShownCurrent'[s] = ShownCurrent[s] /\ ShownLine'[s] = ShownLine[s]
  BY DEF Keeps, ShownCurrent, ShownLine

\* ... the next run takes over ...
LEMMA ShowsTakesNext ==
    ASSUME IInv, NEW s \in Sessions, TakesNext(ResolveSessionLane(s))
    PROVE  IF ShownLine[s] = << >>
           THEN ShownCurrent'[s] = NoRun /\ ShownLine'[s] = ShownLine[s]
           ELSE ShownCurrent'[s] = Head(ShownLine[s]) /\ ShownLine'[s] = Tail(ShownLine[s])
  <1> DEFINE l == ResolveSessionLane(s)
             q == queue[l]
  <1>1. l \in Lanes
    BY DEF Lanes
  <1>2. q \in Seq(Calls)
    BY <1>1, QueueFacts DEF IInv
  <1>3. /\ ShownLine[s] = Names(q) /\ ShownLine'[s] = Names(queue'[l])
        /\ ShownCurrent'[s] = RunIn(active'[l])
    BY DEF ShownLine, ShownCurrent
  <1>4. CASE q = << >>
    <2>1. queue'[l] = << >> /\ active'[l] = {}
      BY <1>4 DEF TakesNext
    <2>2. ShownLine[s] = << >> /\ ShownLine'[s] = ShownLine[s]
      BY <1>2, <1>3, <1>4, <2>1, NamesFacts
    <2> QED
      BY <1>3, <2>1, <2>2, RunInFacts
  <1>5. CASE q # << >>
    <2>1. queue'[l] = Tail(q) /\ active'[l] = {Head(q)}
      BY <1>5 DEF TakesNext
    <2>2. Head(q) \in Calls /\ LaneOf[Head(q)] = l
      BY <1>1, <1>5, QueueFacts DEF IInv
    <2>3. PICK r \in Runs : Head(q) = SessionCall(r)
      BY <2>2, SessionLanes
    <2>4. ShownCurrent'[s] = r /\ Head(q)[2] = r
      BY <1>3, <2>1, <2>3, RunInFacts, CallFacts
    <2>5. Names(q) # << >> /\ Head(Names(q)) = r /\ Names(Tail(q)) = Tail(Names(q))
      BY <1>2, <1>5, <2>4, NamesFacts, NamesOfTail
    <2> QED
      BY <1>3, <2>1, <2>4, <2>5
  <1> QED
    BY <1>4, <1>5

\* ... or a run is submitted.
LEMMA ShowsTakes ==
    ASSUME IInv, NEW r \in Runs, Takes(ResolveSessionLane(SessionOf[r]), SessionCall(r))
    PROVE  LET s == SessionOf[r] IN
           IF ShownCurrent[s] = NoRun
           THEN ShownCurrent'[s] = r /\ ShownLine'[s] = ShownLine[s]
           ELSE ShownLine'[s] = Append(ShownLine[s], r) /\ ShownCurrent'[s] = ShownCurrent[s]
  <1> DEFINE s == SessionOf[r]
             l == ResolveSessionLane(s)
  <1>1. s \in Sessions /\ l \in Lanes
    BY RunsAssumption DEF Lanes
  <1>2. queue[l] \in Seq(Calls) /\ active[l] \in SUBSET Calls
    BY <1>1, QueueFacts DEF IInv
  <1>3. /\ ShownLine[s] = Names(queue[l]) /\ ShownLine'[s] = Names(queue'[l])
        /\ ShownCurrent[s] = RunIn(active[l]) /\ ShownCurrent'[s] = RunIn(active'[l])
    BY <1>1 DEF ShownLine, ShownCurrent
  <1>4. CASE active[l] = {}
    <2>1. queue'[l] = queue[l] /\ active'[l] = {SessionCall(r)}
      BY <1>4 DEF Takes
    <2>2. ShownCurrent[s] = NoRun /\ ShownCurrent'[s] = r
      BY <1>3, <1>4, <2>1, RunInFacts
    <2> QED
      BY <1>3, <2>1, <2>2
  <1>5. CASE active[l] # {}
    <2>1. queue'[l] = Append(queue[l], SessionCall(r)) /\ active'[l] = active[l]
      BY <1>5 DEF Takes
    <2>2. PICK c \in Calls : c \in active[l]
      BY <1>2, <1>5
    <2>3. LaneOf[c] = l
      BY <1>1, <2>2, QueueFacts DEF IInv
    <2>4. \E p \in Runs : c = SessionCall(p)
      BY <1>1, <2>3, SessionLanes
    <2>5. ShownCurrent[s] # NoRun
      BY <1>3, <2>2, <2>4, RunInFacts
    <2> QED
      BY <1>2, <1>3, <2>1, <2>5, NamesOfAppend
  <1> QED
    BY <1>4, <1>5

\* What the step of a session lane shows to be, for the sessions of S.
Promoted(S) ==
    /\ \A s \in S : TakesNext(ResolveSessionLane(s))
    /\ \A s \in Sessions \ S : Keeps(ResolveSessionLane(s))

\* Such a step lets the sessions of S take the next run in line.
LEMMA Promotes ==
    ASSUME IInv, NEW S \in SUBSET Sessions, Promoted(S)
    PROVE  Serial!Promote(S)
  <1>1. ASSUME NEW s \in Sessions
        PROVE  /\ ShownCurrent'[s] = IF s \notin S THEN ShownCurrent[s]
                                     ELSE IF ShownLine[s] = << >> THEN NoRun ELSE Head(ShownLine[s])
               /\ ShownLine'[s] = IF s \in S /\ ShownLine[s] # << >> THEN Tail(ShownLine[s])
                                  ELSE ShownLine[s]
    <2>1. CASE s \in S
      BY <2>1, ShowsTakesNext DEF Promoted
    <2>2. CASE s \notin S
      BY <2>2, ShowsKeeps DEF Promoted
    <2> QED
      BY <2>1, <2>2
  <1>2. /\ ShownCurrent' = [s \in Sessions |-> ShownCurrent'[s]]
        /\ ShownLine' = [s \in Sessions |-> ShownLine'[s]]
    BY DEF ShownCurrent, ShownLine
  <1>3. /\ ShownCurrent' = [s \in Sessions |-> IF s \notin S THEN ShownCurrent[s]
                                     ELSE IF ShownLine[s] = << >> THEN NoRun ELSE Head(ShownLine[s])]
        /\ ShownLine' = [s \in Sessions |-> IF s \in S /\ ShownLine[s] # << >> THEN Tail(ShownLine[s])
                                            ELSE ShownLine[s]]
    BY <1>1, <1>2
  <1> QED
    BY <1>3, Shown DEF Serial!Promote

\* A step that leaves the session lanes alone does not show.
LEMMA Stutters ==
    ASSUME \A s \in Sessions : Keeps(ResolveSessionLane(s))
    PROVE  UNCHANGED Serial!vars
  <1>1. \A s \in Sessions : ShownCurrent'[s] = ShownCurrent[s] /\ ShownLine'[s] = ShownLine[s]
    BY ShowsKeeps
  <1>2. /\ ShownCurrent' = [s \in Sessions |-> ShownCurrent'[s]]
        /\ ShownLine' = [s \in Sessions |-> ShownLine'[s]]
        /\ ShownCurrent = [s \in Sessions |-> ShownCurrent[s]]
        /\ ShownLine = [s \in Sessions |-> ShownLine[s]]
    BY DEF ShownCurrent, ShownLine
  <1>3. ShownCurrent' = ShownCurrent /\ ShownLine' = ShownLine
    BY <1>1, <1>2
  <1> QED
    BY <1>3, Shown DEF Serial!vars

\* A call that has not been made is neither executed nor waiting.
LEMMA UncalledIsNew ==
    ASSUME IInv, NEW r \in Runs, promise[SessionCall(r)] = "uncalled"
    PROVE  /\ ShownCurrent[SessionOf[r]] # r
           /\ \A i \in DOMAIN ShownLine[SessionOf[r]] : ShownLine[SessionOf[r]][i] # r
  <1> DEFINE s == SessionOf[r]
             l == ResolveSessionLane(s)
             c == SessionCall(r)
  <1>1. s \in Sessions /\ l \in Lanes /\ c \in Calls
    BY RunsAssumption, CallFacts DEF Lanes
  <1>2. queue[l] \in Seq(Calls) /\ active[l] \in SUBSET Calls
    BY <1>1, QueueFacts DEF IInv
  <1>3. ShownLine[s] = Names(queue[l]) /\ ShownCurrent[s] = RunIn(active[l])
    BY <1>1 DEF ShownLine, ShownCurrent
  <1>4. ShownCurrent[s] # r
    <2> SUFFICES ASSUME RunIn(active[l]) = r PROVE FALSE
      BY <1>3
    <2>1. c \in active[l]
      BY RunInFacts, RunsAssumption
    <2>2. taskGeneration[c] = generation[l] /\ generation[l] \in Nat
      BY <1>1, <2>1, QueueFacts DEF IInv
    <2>3. Queue!Running(c)
      BY <2>2 DEF Queue!Running, Queue!NotRunning
    <2>4. promise[c] = "pending"
      BY <1>1, <2>3, QueueFacts DEF IInv
    <2> QED
      BY <2>4
  <1>5. ASSUME NEW i \in DOMAIN ShownLine[s], ShownLine[s][i] = r
        PROVE  FALSE
    <2>1. i \in 1..Len(queue[l]) /\ queue[l][i][2] = r
      BY <1>2, <1>3, <1>5, NamesFacts
    <2>2. queue[l][i] \in Calls /\ LaneOf[queue[l][i]] = l /\ promise[queue[l][i]] = "pending"
      BY <1>1, <2>1, QueueFacts DEF IInv
    <2>3. PICK p \in Runs : queue[l][i] = SessionCall(p)
      BY <1>1, <2>2, SessionLanes
    <2>4. p = r
      BY <2>1, <2>3, CallFacts
    <2> QED
      BY <2>2, <2>3, <2>4
  <1> QED
    BY <1>4, <1>5

\* A call on a session lane submits the run; a call that is refused does nothing.
LEMMA Submits ==
    ASSUME IInv, NEW r \in Runs, Enqueue(SessionCall(r))
    PROVE  Serial!Submit(r) \/ UNCHANGED Serial!vars
  <1> DEFINE s == SessionOf[r]
             l == ResolveSessionLane(s)
             c == SessionCall(r)
  <1>1. s \in Sessions /\ l \in Lanes /\ c \in Calls /\ LaneOf[c] = l
    BY RunsAssumption, CallFacts, LanesOfCalls DEF Lanes
  <1>2. /\ promise[c] = "uncalled" /\ \A k \in Lanes \ {l} : Keeps(k)
        /\ Keeps(l) \/ Takes(l, c)
    BY <1>1, EnqueueMoves
  <1>3. \A t \in Sessions \ {s} : ResolveSessionLane(t) \in Lanes \ {l}
    BY DEF Lanes, ResolveSessionLane
  <1>4. CASE Keeps(l)
    <2>1. \A t \in Sessions : Keeps(ResolveSessionLane(t))
      BY <1>2, <1>3, <1>4
    <2> QED
      BY <2>1, Stutters
  <1>5. CASE Takes(l, c)
    <2>1. \A t \in Sessions \ {s} : ShownCurrent'[t] = ShownCurrent[t] /\ ShownLine'[t] = ShownLine[t]
      BY <1>2, <1>3, ShowsKeeps
    <2>2. IF ShownCurrent[s] = NoRun
          THEN ShownCurrent'[s] = r /\ ShownLine'[s] = ShownLine[s]
          ELSE ShownLine'[s] = Append(ShownLine[s], r) /\ ShownCurrent'[s] = ShownCurrent[s]
      BY <1>5, ShowsTakes
    <2>3. /\ ShownCurrent' = [t \in Sessions |-> ShownCurrent'[t]]
          /\ ShownLine' = [t \in Sessions |-> ShownLine'[t]]
          /\ ShownCurrent = [t \in Sessions |-> ShownCurrent[t]]
          /\ ShownLine = [t \in Sessions |-> ShownLine[t]]
      BY DEF ShownCurrent, ShownLine
    <2>4. IF ShownCurrent[s] = NoRun
          THEN ShownCurrent' = [ShownCurrent EXCEPT ![s] = r] /\ ShownLine' = ShownLine
          ELSE ShownLine' = [ShownLine EXCEPT ![s] = Append(ShownLine[s], r)]
               /\ ShownCurrent' = ShownCurrent
      <3>1. CASE ShownCurrent[s] = NoRun
        <4>1. \A t \in Sessions : /\ ShownCurrent'[t] = [ShownCurrent EXCEPT ![s] = r][t]
                                  /\ ShownLine'[t] = ShownLine[t]
          BY <1>1, <2>1, <2>2, <2>3, <3>1
        <4> QED
          BY <2>3, <3>1, <4>1
      <3>2. CASE ShownCurrent[s] # NoRun
        <4>1. \A t \in Sessions : /\ ShownLine'[t] = [ShownLine EXCEPT ![s] = Append(ShownLine[s], r)][t]
                                  /\ ShownCurrent'[t] = ShownCurrent[t]
          BY <1>1, <2>1, <2>2, <2>3, <3>2
        <4> QED
          BY <2>3, <3>2, <4>1
      <3> QED
        BY <3>1, <3>2
    <2>5. ShownCurrent[s] # r /\ \A i \in DOMAIN ShownLine[s] : ShownLine[s][i] # r
      BY <1>2, UncalledIsNew
    <2> QED
      BY <2>4, <2>5, Shown DEF Serial!Submit, Serial!InLine
  <1> QED
    BY <1>2, <1>4, <1>5

\* A call or the end of a task on another lane does not show.
LEMMA OtherLanesStutter ==
    ASSUME IInv, NEW c \in Calls, Enqueue(c) \/ Queue!TaskSettles(c, "resolved"),
           \A r \in Runs : c # SessionCall(r)
    PROVE  UNCHANGED Serial!vars
  <1>1. \A s \in Sessions : ResolveSessionLane(s) \in Lanes \ {LaneOf[c]}
    BY SessionLanes DEF Lanes
  <1>2. \A k \in Lanes \ {LaneOf[c]} : Keeps(k)
    BY EnqueueMoves, SettleMoves
  <1> QED
    BY <1>1, <1>2, Stutters

\* The end of a session task is the end of the session's run, unless a restart lies between.
LEMMA Finishes ==
    ASSUME IInv, NEW r \in Runs, Queue!TaskSettles(SessionCall(r), "resolved")
    PROVE  Serial!Finish(SessionOf[r]) \/ UNCHANGED Serial!vars
  <1> DEFINE s == SessionOf[r]
             l == ResolveSessionLane(s)
             c == SessionCall(r)
  <1>1. s \in Sessions /\ l \in Lanes /\ c \in Calls /\ LaneOf[c] = l
    BY RunsAssumption, CallFacts, LanesOfCalls DEF Lanes
  <1>2. IF Queue!CompletesCurrentGeneration(c)
        THEN active[l] = {c} /\ TakesNext(l) /\ \A k \in Lanes \ {l} : Keeps(k)
        ELSE \A k \in Lanes : Keeps(k)
    BY <1>1, SettleMoves
  <1>3. \A t \in Sessions : /\ ResolveSessionLane(t) \in Lanes
                            /\ t # s => ResolveSessionLane(t) # l
    BY DEF Lanes, ResolveSessionLane
  <1>4. CASE Queue!CompletesCurrentGeneration(c)
    <2>1. Promoted({s})
      BY <1>2, <1>3, <1>4 DEF Promoted
    <2>2. ShownCurrent[s] # NoRun
      <3>1. ShownCurrent[s] = RunIn(active[l]) /\ active[l] = {c}
        BY <1>1, <1>2, <1>4 DEF ShownCurrent
      <3> QED
        BY <3>1, RunInFacts, RunsAssumption
    <2>3. Serial!Promote({s})
      BY <1>1, <2>1, Promotes
    <2> QED
      BY <2>2, <2>3, Shown DEF Serial!Finish
  <1>5. CASE ~Queue!CompletesCurrentGeneration(c)
    BY <1>2, <1>3, <1>5, Stutters
  <1> QED
    BY <1>4, <1>5

\* Clearing a session lane empties the line of that session.
LEMMA Drops ==
    ASSUME IInv, NEW s \in Sessions, ClearSessionLane(s)
    PROVE  Serial!Drop(s)
  <1> DEFINE l == ResolveSessionLane(s)
  <1>1. l \in Lanes /\ \A t \in Sessions \ {s} : ResolveSessionLane(t) \in Lanes \ {l}
    BY DEF Lanes, ResolveSessionLane
  <1>2. active' = active /\ queue'[l] = << >> /\ \A k \in Lanes \ {l} : queue'[k] = queue[k]
    BY <1>1, ClearMoves DEF ClearSessionLane
  <1>3. ShownCurrent' = ShownCurrent
    BY <1>2 DEF ShownCurrent
  <1>4. << >> \in Seq(Calls)
    OBVIOUS
  <1>5. Names(<< >>) = << >>
    BY <1>4, NamesFacts
  <1>6. \A t \in Sessions : ShownLine'[t] = IF t = s THEN << >> ELSE ShownLine[t]
    BY <1>1, <1>2, <1>5 DEF ShownLine
  <1>7. ShownLine' = [t \in Sessions |-> ShownLine'[t]] /\ ShownLine = [t \in Sessions |-> ShownLine[t]]
    BY DEF ShownLine
  <1>8. ShownLine' = [ShownLine EXCEPT ![s] = << >>]
    BY <1>6, <1>7
  <1> QED
    BY <1>3, <1>8, Shown DEF Serial!Drop

\* Every step of the runs shows as a step of the serial executor or not at all.
LEMMA StepsShow ==
    ASSUME IInv, [Next]_vars
    PROVE  [Serial!Next]_(Serial!vars)
  <1> USE CallFacts
  <1>1. ASSUME NEW r \in Runs, RunEmbeddedPiAgent(r) \/ CronTaskRunsJob(r)
        PROVE  [Serial!Next]_(Serial!vars)
    <2>1. Enqueue(SessionCall(r))
      BY <1>1 DEF RunEmbeddedPiAgent, CronTaskRunsJob
    <2> QED
      BY <2>1, Submits DEF Serial!Next
  <1>2. ASSUME NEW r \in Runs, EnqueueGlobal(r) \/ EnqueueCronRun(r) \/ CronTaskSettles(r)
                               \/ GlobalTaskSettles(r)
        PROVE  UNCHANGED Serial!vars
    <2>1. \E c \in Calls : /\ Enqueue(c) \/ Queue!TaskSettles(c, "resolved")
                           /\ \A q \in Runs : c # SessionCall(q)
      BY <1>2 DEF EnqueueGlobal, EnqueueCronRun, CronTaskSettles, GlobalTaskSettles
    <2> QED
      BY <2>1, OtherLanesStutter
  <1>3. ASSUME NEW r \in Runs, SessionTaskSettles(r)
        PROVE  [Serial!Next]_(Serial!vars)
    <2>1. Queue!TaskSettles(SessionCall(r), "resolved") /\ SessionOf[r] \in Sessions
      BY <1>3, RunsAssumption DEF SessionTaskSettles
    <2> QED
      BY <2>1, Finishes DEF Serial!Next
  <1>4. ASSUME NEW r \in Runs, SetActiveEmbeddedRun(r) \/ ClearActiveEmbeddedRun(r)
        PROVE  UNCHANGED Serial!vars
    <2>1. UNCHANGED queueVars
      BY <1>4 DEF SetActiveEmbeddedRun, ClearActiveEmbeddedRun
    <2> QED
      BY <2>1, Stutters DEF queueVars, Keeps
  <1>5. ASSUME NEW s \in Sessions, ClearSessionLane(s)
        PROVE  [Serial!Next]_(Serial!vars)
    BY <1>5, Drops DEF Serial!Next
  <1>6. ASSUME MarkGatewayDraining
        PROVE  UNCHANGED Serial!vars
    BY <1>6, MarkMoves, Stutters DEF MarkGatewayDraining, Keeps
  <1>7. ASSUME ResetAllLanes
        PROVE  [Serial!Next]_(Serial!vars)
    <2>1. Promoted(Sessions)
      BY <1>7, ResetMoves DEF ResetAllLanes, Promoted, Lanes
    <2>2. Serial!Promote(Sessions)
      BY <2>1, Promotes
    <2> QED
      BY <2>2 DEF Serial!Next, Serial!Restart
  <1>8. ASSUME UNCHANGED vars
        PROVE  UNCHANGED Serial!vars
    BY <1>8, Stutters DEF vars, queueVars, Keeps
  <1> QED
    BY <1>1, <1>2, <1>3, <1>4, <1>5, <1>6, <1>7, <1>8 DEF Next

\* The session lanes are a serial executor: one run of a session at a time, the others in
\* line in the order of the calls.  (That the run at the front comes to an end is left to TLC.)
THEOREM LanesAreSerialExecutors == Spec => Serial!Init /\ [][Serial!Next]_(Serial!vars)
  <1>1. Init => Serial!Init
    <2> SUFFICES ASSUME Init PROVE Serial!Init
      OBVIOUS
    <2>1. \A l \in Lanes : queue[l] = << >> /\ active[l] = {}
      BY DEF Init, Queue!Init
    <2>2. Names(<< >>) = << >> /\ RunIn({}) = NoRun
      <3>1. << >> \in Seq(Calls)
        OBVIOUS
      <3> QED
        BY <3>1, NamesFacts, RunInFacts
    <2>3. /\ ShownCurrent = [s \in Sessions |-> NoRun]
          /\ ShownLine = [s \in Sessions |-> << >>]
      BY <2>1, <2>2 DEF ShownCurrent, ShownLine, Lanes
    <2> QED
      BY <2>3, Shown DEF Serial!Init
  <1> QED
    BY <1>1, Invariance, StepsShow, PTL DEF Spec

=============================================================================
