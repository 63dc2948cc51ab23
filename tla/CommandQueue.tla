---------------------------- MODULE CommandQueue ----------------------------
(***************************************************************************)
(* The lane-aware in-process command queue of src/process/command-queue.ts. *)
(*                                                                         *)
(* The program is a single JavaScript thread: what runs between two awaits *)
(* is one atomic step here.  drainLane and its pump run to completion      *)
(* inside the step of their caller, so the flag LaneState.draining is only *)
(* ever TRUE in the middle of a step and is not a variable of the model.   *)
(*                                                                         *)
(* An element of Entries is one call of enqueueCommandInLane: its queue    *)
(* entry, its promise and, once started, its task id (nextTaskId is        *)
(* incremented at every start and an entry is started at most once).       *)
(***************************************************************************)
EXTENDS Integers, Sequences, FiniteSets

CONSTANTS Lanes,          \* the lanes ("main", "cron", "session:...", ...)
          Entries,        \* the calls of enqueueCommandInLane
          LaneOf,         \* the lane each call names
          MaxConcurrency, \* bound on the caps setCommandLaneConcurrency is given
          MaxGeneration   \* bound on the number of resetAllLanes

ASSUME ConstantsAssumption ==
    /\ LaneOf \in [Entries -> Lanes]
    /\ IsFiniteSet(Entries)
    /\ MaxConcurrency \in Nat \ {0}
    /\ MaxGeneration \in Nat

VARIABLES
    gatewayDraining, \* reject new work: the gateway is about to restart
    queue,           \* LaneState.queue: the entries not yet started
    active,          \* LaneState.activeTaskIds
    maxConcurrent,   \* LaneState.maxConcurrent
    generation,      \* LaneState.generation
    taskGeneration,  \* the generation each executing closure captured, or NotRunning
    promise,         \* the state of the promise each call returned
    enqueuedAt,      \* QueueEntry.enqueuedAt
    now,             \* the clock that enqueuedAt reads, for each lane: one tick per entry
    waiter,          \* the state of the promise of waitForActiveTasks
    activeAtStart    \* the task ids that promise waits for

laneVars   == <<queue, active, taskGeneration>>
waiterVars == <<waiter, activeAtStart>>
vars == <<gatewayDraining, laneVars, maxConcurrent, generation, promise,
          enqueuedAt, now, waiterVars>>

NotRunning == -1

Settled == {"resolved", "rejected", "cleared", "refused"}
PromiseState == {"uncalled", "pending"} \cup Settled
WaiterState == {"none", "polling", "drained", "timedOut"}

Init ==
    /\ gatewayDraining = FALSE
    /\ queue = [l \in Lanes |-> << >>]
    /\ active = [l \in Lanes |-> {}]
    /\ maxConcurrent = [l \in Lanes |-> 1]
    /\ generation = [l \in Lanes |-> 0]
    /\ taskGeneration = [e \in Entries |-> NotRunning]
    /\ promise = [e \in Entries |-> "uncalled"]
    /\ enqueuedAt = [e \in Entries |-> 0]
    /\ now = [l \in Lanes |-> 0]
    /\ waiter = "none"
    /\ activeAtStart = {}

-----------------------------------------------------------------------------
(* drainLane: start queued entries, oldest first, while there is room.      *)

\* Mutant: `<=` for `<` in the loop of pump.
PumpCount_OffByOne(q, a, m) ==
    LET room == m + 1 - Cardinality(a) IN
    IF room <= 0 THEN 0 ELSE IF Len(q) <= room THEN Len(q) ELSE room

PumpCount(q, a, m) ==
    LET room == m - Cardinality(a) IN
    IF room <= 0 THEN 0 ELSE IF Len(q) <= room THEN Len(q) ELSE room

Shifted(q, n) == {q[i] : i \in 1..n}
Remaining(q, n) == SubSeq(q, n + 1, Len(q))

\* What the pump leaves behind after starting n[l] entries of every lane l.
PumpedQueue(q, n) == [l \in Lanes |-> Remaining(q[l], n[l])]
PumpedActive(q, a, n) == [l \in Lanes |-> a[l] \cup Shifted(q[l], n[l])]
PumpedTasks(q, r, n, g) ==
    [e \in Entries |-> IF e \in Shifted(q[LaneOf[e]], n[LaneOf[e]]) THEN g[LaneOf[e]] ELSE r[e]]

StartCounts(D, q, a, m) ==
    [l \in Lanes |-> IF l \in D THEN PumpCount(q[l], a[l], m[l]) ELSE 0]

\* Pump the lanes of D, from queues q, active sets a, executing closures r,
\* under caps m and generations g.
DrainLanes(D, q, a, r, m, g) ==
    LET n == StartCounts(D, q, a, m)
    IN  /\ queue' = PumpedQueue(q, n)
        /\ active' = PumpedActive(q, a, n)
        /\ taskGeneration' = PumpedTasks(q, r, n, g)

-----------------------------------------------------------------------------
\* enqueueCommandInLane while the gateway drains: the call is refused.
RefuseWhileDraining(e) ==
    /\ promise[e] = "uncalled"
    /\ gatewayDraining
    /\ promise' = [promise EXCEPT ![e] = "refused"]
    /\ UNCHANGED <<gatewayDraining, laneVars, maxConcurrent, generation,
                   enqueuedAt, now, waiterVars>>

\* Mutant: unshift for push.
EnqueueCommandInLane_Front(e) ==
    /\ promise[e] = "uncalled"
    /\ ~gatewayDraining
    /\ promise' = [promise EXCEPT ![e] = "pending"]
    /\ enqueuedAt' = [enqueuedAt EXCEPT ![e] = now[LaneOf[e]]]
    /\ now' = [now EXCEPT ![LaneOf[e]] = @ + 1]
    /\ DrainLanes({LaneOf[e]}, [queue EXCEPT ![LaneOf[e]] = <<e>> \o @],
                  active, taskGeneration, maxConcurrent, generation)
    /\ UNCHANGED <<gatewayDraining, maxConcurrent, generation, waiterVars>>

\* enqueueCommandInLane: push the entry and drain its lane.
EnqueueCommandInLane(e) ==
    /\ promise[e] = "uncalled"
    /\ ~gatewayDraining
    /\ promise' = [promise EXCEPT ![e] = "pending"]
    /\ enqueuedAt' = [enqueuedAt EXCEPT ![e] = now[LaneOf[e]]]
    /\ now' = [now EXCEPT ![LaneOf[e]] = @ + 1]
    /\ DrainLanes({LaneOf[e]},
                  [queue EXCEPT ![LaneOf[e]] = Append(@, e)],
                  active, taskGeneration, maxConcurrent, generation)
    /\ UNCHANGED <<gatewayDraining, maxConcurrent, generation, waiterVars>>

\* completeTask: a completion of an older generation must not touch the lane.
CompletesCurrentGeneration(e) == taskGeneration[e] = generation[LaneOf[e]]

\* Mutant: the catch branch forgets to pump.
TaskSettles_NoPumpOnError(e, outcome) ==
    /\ taskGeneration[e] # NotRunning
    /\ promise' = [promise EXCEPT ![e] = outcome]
    /\ DrainLanes(IF CompletesCurrentGeneration(e) /\ outcome = "resolved"
                  THEN {LaneOf[e]} ELSE {},
                  queue,
                  IF CompletesCurrentGeneration(e)
                  THEN [active EXCEPT ![LaneOf[e]] = @ \ {e}] ELSE active,
                  [taskGeneration EXCEPT ![e] = NotRunning],
                  maxConcurrent, generation)
    /\ UNCHANGED <<gatewayDraining, maxConcurrent, generation, enqueuedAt, now,
                   waiterVars>>

\* The async closure of pump after its await: completeTask, pump if the task
\* is of the lane's generation, then settle the caller's promise.
TaskSettles(e, outcome) ==
    /\ taskGeneration[e] # NotRunning
    /\ promise' = [promise EXCEPT ![e] = outcome]
    /\ DrainLanes(IF CompletesCurrentGeneration(e) THEN {LaneOf[e]} ELSE {},
                  queue,
                  IF CompletesCurrentGeneration(e)
                  THEN [active EXCEPT ![LaneOf[e]] = @ \ {e}] ELSE active,
                  [taskGeneration EXCEPT ![e] = NotRunning],
                  maxConcurrent, generation)
    /\ UNCHANGED <<gatewayDraining, maxConcurrent, generation, enqueuedAt, now,
                   waiterVars>>

\* Mutants: the new cap is stored without a drain; without Math.max(1, ...).
SetCommandLaneConcurrency_NoDrain(l, m) ==
    /\ maxConcurrent' = [maxConcurrent EXCEPT ![l] = IF m < 1 THEN 1 ELSE m]
    /\ UNCHANGED <<gatewayDraining, laneVars, generation, promise, enqueuedAt, now, waiterVars>>

SetCommandLaneConcurrency_NoClamp(l, m) ==
    /\ maxConcurrent' = [maxConcurrent EXCEPT ![l] = m]
    /\ DrainLanes({l}, queue, active, taskGeneration, maxConcurrent', generation)
    /\ UNCHANGED <<gatewayDraining, generation, promise, enqueuedAt, now, waiterVars>>

\* setCommandLaneConcurrency: the cap is at least 1; a raised cap is used at once.
SetCommandLaneConcurrency(l, m) ==
    /\ maxConcurrent' = [maxConcurrent EXCEPT ![l] = IF m < 1 THEN 1 ELSE m]
    /\ DrainLanes({l}, queue, active, taskGeneration, maxConcurrent', generation)
    /\ UNCHANGED <<gatewayDraining, generation, promise, enqueuedAt, now, waiterVars>>

\* Mutant: the removed entries are not rejected.
ClearCommandLane_Silent(l) ==
    /\ queue' = [queue EXCEPT ![l] = << >>]
    /\ UNCHANGED <<gatewayDraining, active, taskGeneration, maxConcurrent, generation, promise,
                   enqueuedAt, now, waiterVars>>

\* clearCommandLane: every entry not yet started is rejected.
ClearCommandLane(l) ==
    /\ queue' = [queue EXCEPT ![l] = << >>]
    /\ promise' = [e \in Entries |->
                     IF e \in Shifted(queue[l], Len(queue[l])) THEN "cleared"
                     ELSE promise[e]]
    /\ UNCHANGED <<gatewayDraining, active, taskGeneration, maxConcurrent, generation,
                   enqueuedAt, now, waiterVars>>

MarkGatewayDraining ==
    /\ gatewayDraining' = TRUE
    /\ UNCHANGED <<laneVars, maxConcurrent, generation, promise, enqueuedAt, now,
                   waiterVars>>

\* Mutant: the generation is bumped but the stale task ids are kept.
ResetAllLanes_KeepsActive ==
    /\ \A l \in Lanes : generation[l] < MaxGeneration
    /\ gatewayDraining' = FALSE
    /\ generation' = [l \in Lanes |-> generation[l] + 1]
    /\ DrainLanes({l \in Lanes : queue[l] # << >>}, queue, active,
                  taskGeneration, maxConcurrent, generation')
    /\ UNCHANGED <<maxConcurrent, promise, enqueuedAt, now, waiterVars>>

\* resetAllLanes: new generation, nothing active, queued entries kept and pumped.
ResetAllLanes ==
    /\ \A l \in Lanes : generation[l] < MaxGeneration
    /\ gatewayDraining' = FALSE
    /\ generation' = [l \in Lanes |-> generation[l] + 1]
    /\ DrainLanes({l \in Lanes : queue[l] # << >>}, queue, [l \in Lanes |-> {}],
                  taskGeneration, maxConcurrent, generation')
    /\ UNCHANGED <<maxConcurrent, promise, enqueuedAt, now, waiterVars>>

\* waitForActiveTasks: remember what is executing now; done at once if nothing is.
WaitForActiveTasks ==
    /\ waiter # "polling"
    /\ activeAtStart' = UNION {active[l] : l \in Lanes}
    /\ waiter' = IF activeAtStart' = {} THEN "drained" ELSE "polling"
    /\ UNCHANGED <<gatewayDraining, laneVars, maxConcurrent, generation, promise,
                   enqueuedAt, now>>

\* Mutant: one idle lane is taken for all lanes being idle.
PollActiveTasks_AnyIdleLane ==
    LET hasPending == \A l \in Lanes : active[l] \cap activeAtStart # {} IN
    /\ waiter = "polling"
    /\ \/ ~hasPending /\ waiter' = "drained"
       \/ hasPending /\ waiter' = "timedOut"
    /\ UNCHANGED <<gatewayDraining, laneVars, maxConcurrent, generation, promise,
                   enqueuedAt, now, activeAtStart>>

\* The check of waitForActiveTasks.  The deadline may have passed or not.
PollActiveTasks ==
    LET hasPending == \E l \in Lanes : active[l] \cap activeAtStart # {} IN
    /\ waiter = "polling"
    /\ \/ ~hasPending /\ waiter' = "drained"
       \/ hasPending /\ waiter' = "timedOut"
    /\ UNCHANGED <<gatewayDraining, laneVars, maxConcurrent, generation, promise,
                   enqueuedAt, now, activeAtStart>>

Next ==
    \/ \E e \in Entries : RefuseWhileDraining(e)
    \/ \E e \in Entries : EnqueueCommandInLane(e)
    \/ \E e \in Entries, outcome \in {"resolved", "rejected"} : TaskSettles(e, outcome)
    \/ \E l \in Lanes, m \in 0..MaxConcurrency : SetCommandLaneConcurrency(l, m)
    \/ \E l \in Lanes : ClearCommandLane(l)
    \/ MarkGatewayDraining
    \/ ResetAllLanes
    \/ WaitForActiveTasks
    \/ PollActiveTasks

Spec == Init /\ [][Next]_vars

(* A task of the current generation ends (agent runs have a timeout); one   *)
(* cut off by an in-process restart may never reach its finally block.      *)
CurrentTaskSettles(e) ==
    CompletesCurrentGeneration(e) /\ \E outcome \in {"resolved", "rejected"} : TaskSettles(e, outcome)

Fairness == \A e \in Entries : WF_vars(CurrentTaskSettles(e))

FairSpec == Spec /\ Fairness

-----------------------------------------------------------------------------
(*                               Properties                                *)

\* The range of every variable.
TypeOK ==
    /\ gatewayDraining \in BOOLEAN
    /\ queue \in [Lanes -> Seq(Entries)]
    /\ active \in [Lanes -> SUBSET Entries]
    /\ maxConcurrent \in [Lanes -> 1..MaxConcurrency]
    /\ generation \in [Lanes -> Nat]
    /\ taskGeneration \in [Entries -> Nat \cup {NotRunning}]
    /\ promise \in [Entries -> PromiseState]
    /\ enqueuedAt \in [Entries -> Nat]
    /\ now \in [Lanes -> Nat]
    /\ waiter \in WaiterState
    /\ activeAtStart \in SUBSET Entries

Queued(e) == \E i \in DOMAIN queue[LaneOf[e]] : queue[LaneOf[e]][i] = e
Running(e) == taskGeneration[e] # NotRunning
Started(e) == Running(e) \/ promise[e] \in {"resolved", "rejected"}

\* No work is stranded: a lane with queued entries is full.  Every path that
\* makes room (completion, a raised cap, a reset) has to pump.
NoStrandedWork ==
    \A l \in Lanes : queue[l] # << >> => Cardinality(active[l]) >= maxConcurrent[l]

\* activeTaskIds holds exactly the executing tasks of the lane's generation: no
\* id leaks (it would block the lane for ever) and none is dropped early.
ActiveIsExact ==
    \A l \in Lanes :
        active[l] = {e \in Entries : LaneOf[e] = l /\ taskGeneration[e] = generation[l]}

\* A caller whose promise is pending has its entry in exactly one place: once in
\* the queue of its lane, or executing.  Nothing is lost and nothing runs twice.
PendingIsLocated ==
    \A e \in Entries :
        /\ promise[e] = "pending" <=> Queued(e) \/ Running(e)
        /\ ~(Queued(e) /\ Running(e))

\* FIFO per lane, also across clears, cap changes and resets: an entry that has
\* been started was enqueued before every entry still waiting in its lane.
NoOvertaking ==
    \A e, f \in Entries :
        (LaneOf[e] = LaneOf[f] /\ Queued(e) /\ Started(f)) => enqueuedAt[f] < enqueuedAt[e]

\* waitForActiveTasks says "drained" only if no task it waited for still executes
\* in the current generation.
DrainedIsTrue ==
    waiter = "drained" =>
        \A e \in activeAtStart : taskGeneration[e] # generation[LaneOf[e]]

\* Starting a task never takes a lane over its cap (a lowered cap lets the
\* surplus finish but starts nothing).
StartsRespectCap ==
    [][\A l \in Lanes : active'[l] \ active[l] # {} =>
            Cardinality(active'[l]) <= maxConcurrent'[l]]_vars

\* Every queued entry is eventually started or cleared.
QueuedEventuallyLeaves == \A e \in Entries : Queued(e) ~> ~Queued(e)

=============================================================================
