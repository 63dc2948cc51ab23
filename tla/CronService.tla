----------------------------- MODULE CronService -----------------------------
(***************************************************************************)
(* The cron service: src/cron/service.  Jobs live in one file; a service   *)
(* keeps a copy of it in memory and a timer.  Every operation is a section *)
(* under locked(), which runs one section after the other, so a section is *)
(* one step here.  Jobs run outside the lock: between the section that     *)
(* marks a job as running and the one that applies its outcome anything    *)
(* may happen.                                                             *)
(*                                                                         *)
(* A crash loses the memory and whatever runs; the service that is started *)
(* next finds the markers in the file.                                     *)
(*                                                                         *)
(* A recurring job has a slot at every instant of the clock (schedule kind *)
(* "every"); the other jobs are one-shots (kind "at") for the instant at   *)
(* which the clock starts.                                                 *)
(* A run is taken to be shorter than STUCK_RUN_MS.                         *)
(***************************************************************************)
EXTENDS Integers, FiniteSets

CONSTANTS Jobs,
          Recurring,         \* the jobs with a schedule of kind "every"
          Calls,             \* the manual runs ("cron run")
          JobOf,             \* the job each manual run names
          InitialStores,     \* what the file may hold at first
          MaxCrashes,        \* bound on the number of crashes
          MaxTime,           \* bound on the clock
          MaxEdits,          \* bound on the number of updates, adds and removes
          PatchedTimes,      \* the next runs that a patch of a job's state may name
          MaxConcurrentRuns, \* cron.maxConcurrentRuns
          MaxImmediate       \* missed jobs that are run at once at the start

Undefined == 0 \* nextRunAtMs is not set
OneShotAt == 1 \* the time the one-shots name

Job == [there : {"new", "yes", "removed"}, enabled : BOOLEAN,
        next : 0..(MaxTime + 1), running : BOOLEAN, last : {"none", "ok", "failed"}]

ASSUME CronAssumption ==
    /\ Recurring \subseteq Jobs
    /\ JobOf \in [Calls -> Jobs]
    /\ InitialStores \subseteq [Jobs -> Job]
    /\ MaxCrashes \in Nat /\ MaxTime \in Nat \ {0}
    /\ PatchedTimes \subseteq 1..(MaxTime + 1)
    /\ MaxConcurrentRuns \in Nat \ {0} /\ MaxImmediate \in Nat /\ MaxEdits \in Nat

VARIABLES
    now,         \* the clock
    disk,        \* the jobs in the file
    store,       \* state.store
    stage,       \* how far the start of the service has come
    timer,       \* state.timer is set
    tick,        \* the present call of onTimer
    work,        \* what the catch-up and the tick do with each job
    detached,    \* the store was reloaded since the tick took its jobs from it
    interrupted, \* startupInterruptedJobIds
    deferred,    \* deferredJobIds of the catch-up plan
    call,        \* how far each manual run has come
    edits,       \* the updates, adds and removes so far
    crashes,     \* the crashes so far
    released     \* history: jobs that were disabled while a run of them was under way

vars == <<now, disk, store, stage, timer, tick, work, detached, interrupted, deferred, call,
          edits, crashes, released>>

NoWork == [j \in Jobs |-> "none"]
Waiting(js) == [j \in Jobs |-> IF j \in js THEN "waiting" ELSE "none"]
Runners == {"catchup", "tick"}

Init ==
    /\ now = 1
    /\ disk \in InitialStores
    /\ store = disk
    /\ stage = "created"
    /\ timer = FALSE
    /\ tick = "idle"
    /\ work = [w \in Runners |-> NoWork]
    /\ detached = FALSE
    /\ interrupted = {}
    /\ deferred = {}
    /\ call = [c \in Calls |-> "uncalled"]
    /\ edits = 0
    /\ crashes = 0
    /\ released = {}

-----------------------------------------------------------------------------
(* Jobs and their schedules.                                                *)

There(q, j) == q[j].there = "yes"
Due(job) == job.enabled /\ job.next # Undefined /\ job.next <= now

\* computeJobNextRunAtMs: the next instant; a one-shot keeps its time until it
\* has been run.
ComputeNext(j, job) ==
    IF ~job.enabled \/ (j \notin Recurring /\ job.last = "ok") THEN Undefined
    ELSE IF j \in Recurring THEN now + 1 ELSE OneShotAt

\* normalizeJobTickState: a disabled job has neither a next run nor a marker.
Normalized(job) ==
    IF job.enabled THEN job ELSE [job EXCEPT !.next = Undefined, !.running = FALSE]

\* recomputeNextRuns: a next run that is missing or past is computed anew.
RecomputeNextRuns(q) ==
    [j \in Jobs |->
        LET job == Normalized(q[j]) IN
        IF There(q, j) /\ job.enabled /\ (job.next = Undefined \/ job.next <= now)
        THEN [job EXCEPT !.next = ComputeNext(j, job)]
        ELSE IF There(q, j) THEN job ELSE q[j]]

\* Mutant: maintenance advances what is past, like recomputeNextRuns.
RecomputeForMaintenance_Expired(q) == RecomputeNextRuns(q)

\* recomputeNextRunsForMaintenance: only a missing next run is computed.  (With
\* recomputeExpired one that was executed already is too, but every outcome that
\* is applied has moved it.)
RecomputeForMaintenance(q) ==
    [j \in Jobs |->
        LET job == Normalized(q[j]) IN
        IF There(q, j) /\ job.enabled /\ job.next = Undefined
        THEN [job EXCEPT !.next = ComputeNext(j, job)]
        ELSE IF There(q, j) THEN job ELSE q[j]]

\* isRunnableJob
Runnable(q) == {j \in Jobs : There(q, j) /\ Due(q[j]) /\ ~q[j].running}

\* ... for the catch-up (skipAtIfAlreadyRan): of the one-shots that have been run
\* only those that wait for another attempt.
Missed(q) ==
    {j \in Runnable(q) : j \in Recurring \/ q[j].last = "none"
                          \/ (q[j].last = "failed" /\ q[j].next > OneShotAt)}

Marked(q, js) ==
    [j \in Jobs |-> IF j \in js /\ There(q, j) THEN [q[j] EXCEPT !.running = TRUE] ELSE q[j]]

Gone == [there |-> "removed", enabled |-> FALSE, next |-> Undefined, running |-> FALSE,
         last |-> "none"]

\* applyJobResult: what the job may be afterwards.  A one-shot is over, disabled
\* or removed, or it is tried again later.
Outcomes(j, job) ==
    IF j \in Recurring
    THEN {[job EXCEPT !.running = FALSE,
                      !.next = IF job.enabled THEN now + 1 ELSE Undefined]}
    ELSE {[job EXCEPT !.running = FALSE, !.last = o, !.enabled = FALSE, !.next = Undefined]
             : o \in {"ok", "failed"}}
         \cup {Gone, [job EXCEPT !.running = FALSE, !.last = "failed", !.next = now + 1]}

\* The stores that may come of applying the outcomes of the jobs js to q.
Applied(q, js) ==
    LET May(j) == IF j \in js /\ There(q, j) THEN Outcomes(j, q[j]) ELSE {q[j]} IN
    {r \in [Jobs -> UNION {May(j) : j \in Jobs}] : \A j \in Jobs : r[j] \in May(j)}

Keep(q) == store' = q
Persist(q) == disk' = q
PersistIfChanged(q) == IF q # store THEN disk' = q ELSE UNCHANGED disk

\* armTimer
HasNextWake(q) == \E j \in Jobs : There(q, j) /\ q[j].enabled /\ q[j].next # Undefined
ArmTimer(q) == timer' = HasNextWake(q)

-----------------------------------------------------------------------------
(* The start of a service.                                                  *)

\* Mutant: only the jobs that are switched off lose the marker.
ClearInterruptedMarkers_Enabled ==
    LET js == {j \in Jobs : There(disk, j) /\ disk[j].running}
        q  == [j \in Jobs |-> [disk[j] EXCEPT !.running = @ /\ disk[j].enabled]]
    IN  /\ stage = "created"
        /\ interrupted' = js
        /\ Keep(q)
        /\ Persist(q)
        /\ stage' = "loaded"
        /\ UNCHANGED <<now, timer, tick, work, detached, deferred, call, edits, crashes,
                       released>>

\* start, first section: load the file and clear the markers a former service left.
ClearInterruptedMarkers ==
    LET js == {j \in Jobs : There(disk, j) /\ disk[j].running}
        q  == [j \in Jobs |-> [disk[j] EXCEPT !.running = @ /\ j \notin js]]
    IN  /\ stage = "created"
        /\ interrupted' = js
        /\ Keep(q)
        /\ Persist(q)
        /\ stage' = "loaded"
        /\ UNCHANGED <<now, timer, tick, work, detached, deferred, call, edits,
                       crashes, released>>

\* planStartupCatchup: the jobs longest overdue are run now, the others put off.
PlanStartupCatchup ==
    LET missed == Missed(store) \ interrupted IN
    /\ stage = "loaded"
    /\ \E js \in SUBSET missed :
        /\ Cardinality(js) = IF Cardinality(missed) < MaxImmediate
                             THEN Cardinality(missed) ELSE MaxImmediate
        /\ \A j \in js, k \in missed \ js : store[j].next <= store[k].next
        /\ work' = [work EXCEPT !["catchup"] = Waiting(js)]
        /\ deferred' = missed \ js
        /\ Keep(Marked(store, js))
        /\ IF missed = {} THEN UNCHANGED disk ELSE Persist(Marked(store, js))
    /\ stage' = IF missed = {} THEN "caughtUp" ELSE "catchingUp"
    /\ UNCHANGED <<now, timer, tick, detached, interrupted, call, edits, crashes, released>>

Idle(w) == \A j \in Jobs : work[w][j] \in {"none", "done"}
Finished(w) == {j \in Jobs : work[w][j] = "done"}

\* applyStartupCatchupOutcomes: on the store in memory, without a reload.
ApplyStartupCatchupOutcomes ==
    /\ stage = "catchingUp"
    /\ Idle("catchup")
    /\ \E r \in Applied(store, Finished("catchup")) :
        LET q == RecomputeForMaintenance(
                   [j \in Jobs |-> IF j \in deferred /\ There(r, j) /\ r[j].enabled
                                   THEN [r[j] EXCEPT !.next = now + 1] ELSE r[j]])
        IN  Keep(q) /\ Persist(q)
    /\ work' = [work EXCEPT !["catchup"] = NoWork]
    /\ deferred' = {}
    /\ stage' = "caughtUp"
    /\ UNCHANGED <<now, timer, tick, detached, interrupted, call, edits, crashes, released>>

\* start, last section: recompute the next runs and arm the timer.
FinishStart ==
    LET q == RecomputeNextRuns(store) IN
    /\ stage = "caughtUp"
    /\ Keep(q)
    /\ PersistIfChanged(q)
    /\ ArmTimer(q)
    /\ interrupted' = {}
    /\ stage' = "started"
    /\ UNCHANGED <<now, tick, work, detached, deferred, call, edits, crashes, released>>

-----------------------------------------------------------------------------
(* The timer.                                                               *)

\* Mutant: a timer that fires during a tick is not set again.
OnTimer_NotRearmed ==
    /\ timer
    /\ IF tick = "idle" THEN tick' = "collecting" /\ UNCHANGED timer
       ELSE timer' = FALSE /\ UNCHANGED tick
    /\ UNCHANGED <<now, disk, store, stage, work, detached, interrupted, deferred, call,
                   edits, crashes, released>>

\* onTimer: the timer is set again at once, as a watchdog; a tick under way is
\* left alone.
OnTimer ==
    /\ timer
    /\ tick' = IF tick = "idle" THEN "collecting" ELSE tick
    /\ UNCHANGED <<now, disk, store, stage, timer, work, detached, interrupted, deferred, call,
                   edits, crashes, released>>

\* ... its first section: reload, and mark the jobs that are due.
CollectDueJobs ==
    LET due == Runnable(disk)
        q   == IF due = {} THEN RecomputeForMaintenance(disk) ELSE Marked(disk, due)
    IN  /\ tick = "collecting"
        /\ Keep(q)
        /\ Persist(q)
        /\ work' = [work EXCEPT !["tick"] = Waiting(due)]
        /\ detached' = FALSE
        /\ tick' = IF due = {} THEN "ending" ELSE "running"
        /\ UNCHANGED <<now, stage, timer, interrupted, deferred, call, edits,
                       crashes, released>>

\* A worker takes a job; the catch-up has one worker.  runDueJob marks the job
\* again, in the object it was given.
RunDueJob(w, j) ==
    /\ work[w][j] = "waiting"
    /\ Cardinality({k \in Jobs : work[w][k] = "executing"})
          < IF w = "catchup" THEN 1 ELSE MaxConcurrentRuns
    /\ work' = [work EXCEPT ![w][j] = "executing"]
    /\ IF w = "tick" /\ ~detached THEN Keep(Marked(store, {j})) ELSE UNCHANGED store
    /\ UNCHANGED <<now, disk, stage, timer, tick, detached, interrupted, deferred, call,
                   edits, crashes, released>>

JobEnds(w, j) ==
    /\ work[w][j] = "executing"
    /\ work' = [work EXCEPT ![w][j] = "done"]
    /\ UNCHANGED <<now, disk, stage, store, timer, tick, detached, interrupted, deferred,
                   call, edits, crashes, released>>

\* ... the last section of the tick: reload, and apply the outcomes.
ApplyOutcomes ==
    /\ tick = "running"
    /\ Idle("tick")
    /\ \E r \in Applied(disk, Finished("tick")) :
        LET q == RecomputeForMaintenance(r) IN Keep(q) /\ Persist(q)
    /\ work' = [work EXCEPT !["tick"] = NoWork]
    /\ tick' = "ending"
    /\ UNCHANGED <<now, stage, timer, detached, interrupted, deferred, call, edits,
                   crashes, released>>

\* ... and its finally block.
EndTick ==
    /\ tick = "ending"
    /\ tick' = "idle"
    /\ ArmTimer(store)
    /\ UNCHANGED <<now, disk, stage, store, work, detached, interrupted, deferred, call,
                   edits, crashes, released>>

-----------------------------------------------------------------------------
(* The calls of the API.                                                    *)

Loaded == stage # "created"

\* An edit keeps the new store, persists it and arms the timer.
Edit(q) ==
    /\ Loaded /\ edits < MaxEdits
    /\ edits' = edits + 1
    /\ Keep(q) /\ Persist(q) /\ ArmTimer(q)
    /\ UNCHANGED <<now, stage, tick, work, detached, interrupted, deferred, call, crashes>>

UnderWay(j) == \/ \E w \in Runners : work[w][j] # "none"
               \/ \E c \in Calls : JobOf[c] = j /\ call[c] = "executing"

\* The next run after a patch of `enabled` or of the schedule (of the same kind), whether
\* it changes anything or not ...
Rescheduled(j, job) ==
    IF job.enabled THEN [job EXCEPT !.next = ComputeNext(j, job)] ELSE Normalized(job)

\* ... and after any other patch, which only repairs a missing one.
Repaired(j, job) ==
    IF job.enabled /\ job.next = Undefined THEN [job EXCEPT !.next = ComputeNext(j, job)] ELSE job

\* What a patch may make of a job; a patch of `state` may name a next run.
Patched(j, job) ==
    {Rescheduled(j, [job EXCEPT !.enabled = e]) : e \in BOOLEAN}
      \cup {Repaired(j, [job EXCEPT !.next = n]) : n \in {job.next} \cup PatchedTimes}

\* update: a job that is or stays switched off loses next run and marker.
Update(j) ==
    /\ There(store, j)
    /\ \E job \in Patched(j, store[j]) :
        /\ released' = IF UnderWay(j) /\ ~job.enabled THEN released \cup {j} ELSE released
        /\ Edit([store EXCEPT ![j] = job])

\* add: the next runs of all jobs are recomputed.
Add(j) ==
    LET job == [store[j] EXCEPT !.there = "yes"] IN
    /\ store[j].there = "new"
    /\ j \in Recurring \/ now <= OneShotAt
    /\ UNCHANGED released
    /\ Edit(RecomputeNextRuns([store EXCEPT ![j] = [job EXCEPT !.next = ComputeNext(j, job)]]))

Remove(j) == There(store, j) /\ UNCHANGED released /\ Edit([store EXCEPT ![j] = Gone])

\* list and status: maintenance, but no timer.
Read ==
    LET q == RecomputeForMaintenance(store) IN
    /\ Loaded
    /\ Keep(q) /\ PersistIfChanged(q)
    /\ UNCHANGED <<now, stage, timer, tick, work, detached, interrupted, deferred, call,
                   edits, crashes, released>>

\* inspectManualRunPreflight: maintenance in memory; is the job idle, and is it due
\* or the run forced?
ManualPreflight(c, forced) ==
    LET j == JobOf[c]
        q == RecomputeForMaintenance(store)
    IN  /\ Loaded /\ call[c] = "uncalled" /\ There(q, j)
        /\ Keep(q)
        /\ call' = [call EXCEPT ![c] =
                      IF ~q[j].running /\ (forced \/ Due(q[j])) THEN "checked" ELSE "over"]
        /\ UNCHANGED <<now, disk, stage, timer, tick, work, detached, interrupted, deferred,
                       edits, crashes, released>>

Reserve(c, free) ==
    LET q == Marked(store, {JobOf[c]}) IN
    /\ call[c] = "checked"
    /\ call' = [call EXCEPT ![c] = IF free THEN "executing" ELSE "over"]
    /\ IF free THEN Keep(q) /\ Persist(q) ELSE UNCHANGED <<store, disk>>
    /\ released' = IF free /\ ~q[JobOf[c]].enabled THEN released \cup {JobOf[c]} ELSE released
    /\ UNCHANGED <<now, stage, timer, tick, work, detached, interrupted, deferred,
                   edits, crashes>>

\* Mutant: the marker is not looked at again.
PrepareManualRun_Trusts(c) == Reserve(c, There(store, JobOf[c]))

\* Mutant: the marker is set in memory only.
PrepareManualRun_InMemory(c) ==
    LET free == There(store, JobOf[c]) /\ ~store[JobOf[c]].running IN
    /\ call[c] = "checked"
    /\ call' = [call EXCEPT ![c] = IF free THEN "executing" ELSE "over"]
    /\ IF free THEN Keep(Marked(store, {JobOf[c]})) ELSE UNCHANGED store
    /\ released' = IF free /\ ~store[JobOf[c]].enabled THEN released \cup {JobOf[c]}
                   ELSE released
    /\ UNCHANGED <<now, disk, stage, timer, tick, work, detached, interrupted, deferred,
                   edits, crashes>>

\* prepareManualRun: a second section reserves the job.
PrepareManualRun(c) == Reserve(c, There(store, JobOf[c]) /\ ~store[JobOf[c]].running)

\* finishPreparedManualRun: apply the outcome in memory, reload, put the job back.
FinishManualRun(c) ==
    LET j == JobOf[c] IN
    /\ call[c] = "executing"
    /\ call' = [call EXCEPT ![c] = "over"]
    /\ IF There(store, j)
       THEN /\ \E r \in Applied(store, {j}) :
                LET q == RecomputeForMaintenance(
                           IF There(disk, j) THEN [disk EXCEPT ![j] = r[j]] ELSE disk)
                IN  Keep(q) /\ Persist(q) /\ ArmTimer(q)
            /\ detached' = TRUE
       ELSE UNCHANGED <<store, disk, timer, detached>>
    /\ UNCHANGED <<now, stage, tick, work, interrupted, deferred, edits, crashes, released>>

-----------------------------------------------------------------------------
(* Time and crashes.                                                        *)

TimePasses ==
    /\ now < MaxTime
    /\ now' = now + 1
    /\ UNCHANGED <<disk, store, stage, timer, tick, work, detached, interrupted, deferred, call,
                   edits, crashes, released>>

\* The process dies and is started again.
Crash ==
    /\ crashes < MaxCrashes
    /\ crashes' = crashes + 1
    /\ stage' = "created" /\ store' = disk
    /\ timer' = FALSE /\ tick' = "idle" /\ detached' = FALSE
    /\ work' = [w \in Runners |-> NoWork]
    /\ interrupted' = {} /\ deferred' = {}
    /\ call' = [c \in Calls |-> IF call[c] = "uncalled" THEN "uncalled" ELSE "over"]
    /\ UNCHANGED <<now, disk, edits, released>>

Next ==
    \/ ClearInterruptedMarkers
    \/ PlanStartupCatchup
    \/ ApplyStartupCatchupOutcomes
    \/ FinishStart
    \/ OnTimer
    \/ CollectDueJobs
    \/ ApplyOutcomes
    \/ EndTick
    \/ \E j \in Jobs :
        \/ \E w \in Runners : RunDueJob(w, j) \/ JobEnds(w, j)
        \/ Update(j)
        \/ Add(j)
        \/ Remove(j)
    \/ Read
    \/ \E c \in Calls :
        \/ \E forced \in BOOLEAN : ManualPreflight(c, forced)
        \/ PrepareManualRun(c)
        \/ FinishManualRun(c)
    \/ TimePasses
    \/ Crash

Spec == Init /\ [][Next]_vars

(* The start and the tick go on, the timer fires, jobs end (they have a    *)
(* timeout).                                                                *)
Fairness ==
    /\ WF_vars(ClearInterruptedMarkers \/ PlanStartupCatchup \/ ApplyStartupCatchupOutcomes
                \/ FinishStart)
    /\ WF_vars(OnTimer \/ CollectDueJobs \/ ApplyOutcomes \/ EndTick)
    /\ \A w \in Runners, j \in Jobs : WF_vars(RunDueJob(w, j) \/ JobEnds(w, j))
    /\ \A c \in Calls : WF_vars(PrepareManualRun(c) \/ FinishManualRun(c))

FairSpec == Spec /\ Fairness

-----------------------------------------------------------------------------
(*                               Properties                                *)

\* The range of every variable.
TypeOK ==
    /\ now \in 1..MaxTime
    /\ disk \in [Jobs -> Job]
    /\ store \in [Jobs -> Job]
    /\ stage \in {"created", "loaded", "catchingUp", "caughtUp", "started"}
    /\ timer \in BOOLEAN
    /\ tick \in {"idle", "collecting", "running", "ending"}
    /\ work \in [Runners -> [Jobs -> {"none", "waiting", "executing", "done"}]]
    /\ detached \in BOOLEAN
    /\ interrupted \in SUBSET Jobs
    /\ deferred \in SUBSET Jobs
    /\ call \in [Calls -> {"uncalled", "checked", "executing", "over"}]
    /\ edits \in 0..MaxEdits
    /\ crashes \in 0..MaxCrashes
    /\ released \in SUBSET Jobs

\* A job runs twice at once only if it was disabled at some time between its start and
\* the section that applies its outcome, which clears its marker.  Nothing else does:
\* the tick, the catch-up and a manual run check the marker, and a manual run reserves
\* the job in another section than the one that found it idle.
ConcurrentRunsHaveACause ==
    \A j \in Jobs :
        Cardinality({w \in Runners : work[w][j] = "executing"})
            + Cardinality({c \in Calls : JobOf[c] = j /\ call[c] = "executing"}) > 1
        => j \in released

\* A job that somebody has, waiting or executing, bears its marker in the file, whatever
\* sections came in between: there a tick that reloads finds it, and a service started
\* after a crash knows it as interrupted (ops.ts:447, "persist the running marker before
\* releasing lock").  Except for jobs removed meanwhile, and those that were disabled.
RunsAreRecorded ==
    \A j \in Jobs \ released : UnderWay(j) => disk[j].there = "removed" \/ disk[j].running

\* A started service whose jobs have a next run has its timer set, also while a
\* tick is stuck in a job.  (The end of the tick is about to set it.)
SchedulerStaysArmed ==
    (stage = "started" /\ HasNextWake(store)) => timer \/ tick = "ending"

PassedOver(j) ==
    /\ There(disk, j) /\ Due(disk[j])
    /\ There(disk', j) /\ disk'[j].enabled /\ disk'[j].next > disk[j].next

RunWasApplied(j) ==
    \/ \E w \in Runners : work[w][j] = "done" /\ work'[w][j] = "none"
    \/ \E c \in Calls : JobOf[c] = j /\ call[c] = "executing" /\ call'[c] = "over"

EditedAlone(j) == edits' = edits + 1 /\ \A k \in Jobs \ {j} : disk'[k] = store[k]

\* A slot that is due is passed over only by the outcome of a run of the job, by
\* the catch-up that puts it off, by the last section of a start, by an add, which
\* recomputes all jobs, or by an update of that job alone; never by maintenance, and
\* never by the update of another job (ops.ts:313, "should not mutate other jobs").
SlotsArePassedOverByRuns ==
    [][\A j \in Jobs : PassedOver(j) =>
            \/ RunWasApplied(j)
            \/ j \in deferred
            \/ stage = "caughtUp" /\ stage' = "started"
            \/ \E k \in Jobs : disk[k].there = "new" /\ disk'[k].there = "yes"
            \/ EditedAlone(j)]_vars

\* A job that is due does not stay so: it is run, edited or passed over, and a
\* marker left behind by a crash does not keep it from being run.
DueJobsAreRun ==
    \A j \in Jobs : (There(disk, j) /\ Due(disk[j])) ~> ~(There(disk, j) /\ Due(disk[j]))

=============================================================================
