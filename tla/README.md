# Formal models of the maumau gateway

maumau is a personal assistant that runs as one long-lived Node.js process, the
*gateway*. Messages from chat services come in through channel adapters, are
debounced, queued behind the session they belong to, executed as agent turns on
concurrency *lanes*, and answered through an outbound delivery queue. Timers
(heartbeat, cron) start turns without a message. The process restarts itself in
place when its configuration changes.

This directory holds TLA+ models of the parts of that process in which order,
concurrency and failure matter, the TLC configurations that check them, and
proofs checked by TLAPS. Paths below are relative to `src/src/` unless they start
with `docs/`.

The process is a single JavaScript thread. Everywhere in these models *a step is
what runs between two awaits*: synchronous code is one atomic action, with all the
calls it makes, and every `await`, timer or callback is a point where anything else
may come in between.

## 1. The system

### Components modelled so far

| component | state it keeps | operations | hard behaviours |
|---|---|---|---|
| Command queue (`process/command-queue.ts`) | per lane: FIFO of entries, ids of executing tasks, cap, generation; one drain flag | enqueue, pump, complete, set cap, clear, mark draining, reset all, wait for active | tasks of an older generation that end (or never end) after a reset; every path that makes room has to pump |
| Followup queue (`auto-reply/reply/queue/`, `utils/queue-helpers.ts`) | registry session -> queue object: items, summary of dropped messages, settings, drain flag | enqueue with drop policy, drain (item, batch, summary), clear | items are removed by number after an awaited send; overflow, clear, redelivery and settings changes in the meantime |
| Outbound delivery queue (`infra/outbound/`) | a JSON file per delivery with a retry count, `.delivered` markers, `failed/` | enqueue, ack, fail, move to failed, recovery scan | crashes between any two file operations; a scan that meets live deliveries or another scan; a disk that fails |
| Heartbeat (`infra/heartbeat-wake.ts`, `infra/heartbeat-runner.ts`) | pending wakes, one timer, batch flag, registered handler; per runner: agents, interval timer | request, timer, batch, busy retry, start/stop/reconfigure runner, enable/disable | the interval timer fires once and is armed again only by the run it asked for; a batch of a replaced handler ends late |
| Embedded runs (`agents/pi-embedded-runner/`, `agents/lanes.ts`) | no state of their own but the registry session -> handle of the running agent | ask for a run or a compaction, queue it on a global lane, register, clear, end; manual cron runs around it | a task that keeps one lane while it waits for another; drains, clears and restarts in between; a run given up by a restart that goes on |
| Cron service (`cron/service/`) | jobs in one file and in memory (enabled, next run, running marker, last status), timer, tick flag | start with catch-up, tick, manual run, add/update/remove, list, apply outcome | jobs run outside the lock; markers on disk survive a crash; four operations recompute next runs, each by another rule |
| Gateway lock (`infra/gateway-lock.ts`) | a lock file with its owner, the port as a witness | create exclusively, read, judge the owner, remove, poll, release | the file is removed by path, whoever's it is; a judgement is outdated when it is acted upon; crashes before the payload is written |
| Inbound debounce (`auto-reply/inbound-debounce.ts`) | per key: buffer with timer, chain of tasks | enqueue (six branches), timer, flush | callers do not wait for one another; slots reserved ahead of time; a limit on tracked keys |
| Gateway run loop (`cli/gateway-cli/run-loop.ts`, `infra/restart.ts`) | server handle, lock, shutdown flag, restart timer, idle polls | start, signals, drain, close, release, respawn or restart in place | signals at any time, also during a start; timeouts; closes and starts that fail |

How they interact:

* The run loop calls `markGatewayDraining`, `waitForActiveTasks` and, for every new
  iteration, `resetAllLanes` of the command queue. After a reset, tasks of the former
  lifecycle may still run or may never end: that is why lanes have generations.
* Inbound messages pass the debouncer of their channel, then become an agent turn or a
  followup.
* Agent turns are tasks on lanes: a session lane (cap 1) inside a global lane
  (`EmbeddedRuns`, composed with `CommandQueue`). A manual cron run holds a slot of the
  cron lane around them. A turn
  that ends (`finalizeWithFollowup`) schedules the drain of its session's followup
  queue; a message that arrives meanwhile is enqueued there.
* The heartbeat does not run while the main lane has work
  (`getQueueSize(CommandLane.Main)`): the wake layer retries. A restart in place
  registers a new handler while the old runner may be in the middle of a batch.
* The run loop takes the gateway lock before it starts a server and gives it back for
  every restart (one step each in `GatewayRunLoop`, several in `GatewayLock`).
* Every start of the gateway begins a recovery scan of the delivery queue in the
  background; a restart in place does not stop the former one.

### Components planned

Subagent announce queue and exec approvals (see the plan), then, as candidates: subagent
registry, ACP session manager, session write lock, reply dispatcher, config reloader,
channel manager, pairing stores, auth-profile cooldowns, process supervisor.

### Not modelled

Adapters, parsers, formatters, prompts and tools (calls of external services with
sequential code around them), the CLI, wizard and TUI, configuration schema and IO,
memory search, media conversion, browser control, plugin loading, the service-manager
commands, the native apps and the web UI. `PROJECT.json` lists each with its reason.

## 2. Modules

| module | what it is |
|---|---|
| `CommandQueue` | the lane queue; one action per exported function plus the completion of a task |
| `MCCommandQueue` | instance for TLC |
| `CommandQueueProofs` | inductive invariant and seven theorems |
| `FollowupQueue`, `MCFollowupQueue` | one session's followup queue with its registry, drains and queue objects |
| `FollowupQueueProofs` | inductive invariant and five theorems |
| `DeliveryQueue`, `MCDeliveryQueue` | the write-ahead queue, the delivery wrapper and the recovery scan |
| `DeliveryQueueProofs` | inductive invariant and four theorems |
| `HeartbeatWake` | the wake layer (variables and actions, no specification of its own) |
| `HeartbeatRunner`, `MCHeartbeat` | the runner on top of the wake layer; its actions compose with those of `HeartbeatWake` |
| `HeartbeatProofs` | inductive invariant of both layers and five theorems |
| `SerialExecutor` | abstract specification: what a session's lane promises its callers |
| `EmbeddedRuns`, `MCEmbeddedRuns` | agent runs on nested lanes, an instance of `CommandQueue`, and the run registry; implements `SerialExecutor` |
| `EmbeddedRunsProofs` | inductive invariant, three properties and the refinement of `SerialExecutor` |
| `CronService`, `MCCronService` | the cron service over its file |
| `CronServiceProofs` | inductive invariant and five theorems |
| `GatewayLock`, `MCGatewayLock` | the processes that contend for the lock file |
| `InboundDebounce`, `MCInboundDebounce` | the debouncer |
| `InboundDebounceProofs` | inductive invariant and two theorems |
| `GatewayRunLoop` | the process: loop, shutdown task, restart scheduling |
| `GatewayProofs` | extends both gateway modules: an inductive invariant each, eight theorems |

Operators whose name contains an underscore (`PumpCount_OffByOne`) are mutants:
deliberately wrong variants of the definition after them, used to see that a
property notices the mistake. No specification uses them.

### CommandQueue

An element of `Entries` is one call of `enqueueCommandInLane`: queue entry, promise and
task in one. `queue`, `active`, `maxConcurrent`, `generation` are the fields of
`LaneState`; `taskGeneration[e]` is what the executing closure captured.
`DrainLanes` is `drainLane` with its pump for a set of lanes and is part of every
action that calls it, so the flag `LaneState.draining` is only true in the middle of a
step and is not a variable. `enqueuedAt` is a logical clock that exists to state FIFO
order. Tasks of an older generation may end at any time and then change nothing but
their promise.

### FollowupQueue

Queue objects have identities (`Objects`), because a drain keeps working on an object
that has been cleared or deleted from the registry. `drain[o]` says at which await the
drain of `o` is: the debounce, the collect step, or a send of an item, a batch or a
summary. `accepted`, `handed`, `reported`, `discarded` are history; `mishap` records
four events after which a message is really lost in the code (an overflow during a
send, a summary that takes the place of an item, a policy change with a summary
pending, a clear under a running drain) and three that only weaken other promises. The
safety properties are stated with these exceptions: they show that nothing else loses a
message, not that the exceptions do not occur. Finding 1 shows one of them on its own.

A member of `Messages` is one *delivery*; a message that its provider delivers again is two
members with one `IdOf`. `recent` is the cache of ids by which a redelivery is refused, and
`IdExpires` forgets one (after five minutes or 10,000 others); the queue itself is asked
next (`Known`).

### DeliveryQueue

`json[d]` is the retry count in `<id>.json` or `None`; `marker` and `failed` are the
other two places a delivery can be. `job[w]` is the program counter of a worker: a
delivery's own call of `deliverOutboundPayloads` or a recovery scan, which steps
through loading (one file at a time), choosing, sending, acknowledging and failing.
Each awaited file operation is a step, and `Crash` comes between any two. History
variables record why a duplicate can happen (`unrecorded`: the success never reached
the disk; `raced`: a scan met the delivery in flight). A send reaches the wire, throws, or
sends nothing: a `message_sending` hook may cancel every payload (`Cancellable`), and the
entry is acknowledged all the same (`SendsNothing`; `NothingLost` names it). An entry of an
earlier version (`Legacy`) is rewritten while it is loaded (`Migrates`), which may bring
back one that was acknowledged or set aside between the read and the write.

What the model shows besides the finding: the scan runs beside live deliveries of the
same process, so an entry in flight can be sent twice (`raced`); `failDelivery` reads,
changes and rewrites a file, so it can bring back an entry acknowledged in between.
Both are within what `DuplicatesHaveACause` and `SettledStaysSettled` allow.

### HeartbeatWake, HeartbeatRunner

`pending` holds one reason per target; `batch[b]` is a batch that has been taken out of
it and calls the handler once per wake. Batches have identities because the
registration of a new handler resets `running` and `scheduled` while a batch of the
old one is under way, whose `finally` block then clears the flag of its successor.
Delays are abstracted: an armed timer may fire at any time, so the kind and due time of
the one timer make no difference. `runHeartbeatOnce` is one step with any outcome
(ran, skipped, busy, error).

### GatewayRunLoop

`loop` is the loop (`starting`, `waiting`, `gone`), `shutdown` the asynchronous task
that `request` starts, with its phase, its kind and whether it called `close` on a
server. The two run concurrently: a signal may come while the server is being
started. `server` is the loop's handle and `listening` whether a server is really up.
`emitGatewayRestart` emits, authorises and handles the signal in one synchronous call,
so its tokens never differ between two steps and are left out. `mishap` records what
the properties make an exception for.

### EmbeddedRuns, SerialExecutor

The lanes are an instance of `CommandQueue`: `Queue == INSTANCE CommandQueue`, whose
entries are the calls `<<"session", r>>`, `<<"global", r>>` and, for manual cron runs,
`<<"cron", r>>`. Every step of the lanes is an action of that module, conjoined with
when this code takes it. The task of a session lane calls `enqueueGlobal` before its
first await; `Quiet` keeps every other action from coming between. `phase` and
`activeRuns` are the registry. The registry is keyed by session id and the lanes by
session key; the model takes the two as one.

`SerialExecutor` says what `docs/concepts/queue.md` promises: per session a current run
and a line, first come first served, every current run ends; a restart in place makes a
session give its current run up. The refinement maps the current run of a session to
the task that is active in its lane and the line to the lane's queue; lanes,
generations, nesting and refusals disappear.

### CronService

A step is a section under `locked()`: sections of one store never overlap, so what
matters is what happens *between* sections while jobs execute. `disk` is the file,
`store` the copy in memory; the tick reloads, the API calls do not. `work` is what the
catch-up and the tick do with each job, `call` how far a manual run has come.
`detached` records that a reload has replaced the objects a tick still writes to. The
four rules for next runs are four operators: `ComputeNext`, `RecomputeNextRuns`,
`RecomputeForMaintenance` and `Outcomes`; an update has two more (`Rescheduled` after a
patch of `enabled` or of the schedule, also one that changes nothing, `Repaired` after any
other), and a patch of a job's state may name a next run (`PatchedTimes`). Time is a small counter; recurring jobs have a
slot at every instant, so a backoff is "the next instant".

### GatewayLock

`pc[p]` is where a process is: at one of the file operations of `acquireGatewayLock`, or
holding, serving, closing. `lastPayload[p]` is the owner it has read. `outdated` are
the processes for which file or port have changed since they looked; with it
the property can say which robberies are races and which the protocol itself causes.
`OwnerStatus` is the set of answers a contender may get about the owner. The code asks the
port first, and no connection is "dead": the port is `free`, or the probe has `missed` a
server that listens (it takes longer than a second, the connection fails, or the server is
bound to another address than 127.0.0.1). A connection to a program that is no gateway, or
no probe for want of a port, leaves the question to the process id. `unknown` is an owner
that lives and of which the operating system does not tell the start time or the command
line. `verdict` records the answer a removal rests on.
The specification is called `LockSpec`, and its parts `LockInit`, `LockNext` and so on, so
that a module can extend it together with `GatewayRunLoop`.

### InboundDebounce

`chain[k]` is the chain of promises of a key as a sequence of tasks that have not ended;
a task is ready or waits for its release. At most one buffer per key is open and it
belongs to the last task. The callers' awaits do not show: nothing in the code depends
on them, and channel code calls `enqueue` without waiting.

## 3. Runs

All runs pass or fail as stated; times with two workers.

| run | instance | checks | size |
|---|---|---|---|
| `command_queue` | 3 calls of one lane, an idle lane, caps 1..2, 1 reset | six invariants, `StartsRespectCap`, `QueuedEventuallyLeaves` | 102,008 states, 40 s |
| `followup_queue` | 2 messages, a redelivery, 1 id that expires, 2 destinations, 2 settings, 1 clear, 2 objects | `TypeOK`, `NothingVanishesUnlessLossy`, `HandedAtMostOnce`, `HandedInOrder`, `BatchHasOneDestination`, `EventuallyAccountedFor` | 204,214 states, 117 s |
| `followup_overflow` | default policy, cap 2, one route | violates `NothingVanishes` | |
| `delivery_queue` | 1 best-effort, abortable, cancellable delivery, or a legacy entry, 2 overlapping scans, failing disk, `MAX_RETRIES` 2 | `NothingLost`, `DuplicatesHaveACause`, `SettledStaysSettled` | 350,932 states, 15 s |
| `delivery_budget` | 2 deliveries, one perhaps a legacy entry, 1 scan after another, `MAX_RETRIES` 2 | `EntriesAreResolved` | 318,418 states, 70 s |
| `delivery_ack` | 1 best-effort delivery and its replay | violates `AckedWasDelivered` | |
| `heartbeat` | 2 runners, 2 targets, 2 reasons, 2 batches | `PendingIsScheduled`, `OneBatchAtATime`, `HeartbeatsStayArmed`, `RequestsAreKept` | 465,996 states |
| `embedded_runs` | 2 chat runs and a cron run, 2 sessions, 1 reset | `OneRunPerSession`, `RegistryIsExact`, `ImplementsSerialExecutor` | 35,982 states, 76 s |
| `cron_service` | a recurring job, a one-shot, 1 manual run, 2 edits, 1 crash, 2 instants, patches to instant 2 | `ConcurrentRunsHaveACause`, `RunsAreRecorded`, `SchedulerStaysArmed`, `SlotsArePassedOverByRuns`, `DueJobsAreRun` | 270,236 states, 143 s |
| `gateway_lock` | 3 processes | `OneRightfulHolder`, `RobbedHasACause`, `AbandonedLockIsTaken` | 26,958 states, 8 s |
| `inbound_debounce` | 2 keys of which 1 may be tracked, 4 messages each | `FlushedInOrder`, `EveryMessageIsFlushed` | 103,957 states, 48 s |
| `gateway_run_loop` | 2 idle polls beside the timer and the config watcher | `OneServer`, `LockCoversServer`, `WorkIsDrained`, `DrainIsOver`, `RestartIsCarriedOut` | 4,093 states |

Every module has a type invariant `TypeOK` (`LockTypeOK` in `GatewayLock`); where a run does not list it, it is there
as documentation and for the proofs.

### Why these bounds

* *Command queue.* Three calls fill a lane of cap 1 or 2 and queue behind one another,
  which a cap change, a clear and one reset (old tasks that end late, or never) can hit
  at any point; the idle lane is there for the code that goes over all lanes. Any
  number of lanes, calls, caps and resets is covered by the proofs.
* *Followup queue.* A cap of 1 or 2 with three messages overflows before, during and
  after a send; one clear with two objects gives the orphaned drain and its successor.
  One of the three is a redelivery of another; once the id has expired it is a third
  message, which may come before, during and after the first is sent. The settings are
  collecting with the policy `new`, and one by one with `summarize`; a queue may change
  from either to the other. The policy `old` (`summarize` without the lines) has no
  setting of its own in a run: a third one takes the run to twice its time. The proofs of
  the safety properties cover every policy.
* *Delivery queue.* A file is touched by at most its delivery and the scans; two scans
  and one delivery give every pair of workers on one file. `RetryCap` exceeds
  `MAX_RETRIES` by one, and counts saturate there, so the boundary is crossed; with two
  retries there is a count that waits for its backoff (`ScanSkips`) and one that does not.
* *Heartbeat.* Two runners give "old and new"; two batches give "stale and current"; a
  third would need two replacements during one run. The priorities are two of the four.
* *Run loop.* There is one loop, one shutdown, one timer; two polls are the least for
  one to outlive the restart the other has caused. `busy` abstracts any number of tasks.

* *Embedded runs.* Two runs share a session and two share a global lane, so each can wait
  for the other in both ways; the cron run adds the third lane, and all global lanes
  have cap 1, the case in which a wrong lane deadlocks. One reset gives a former and a
  present lifetime.
* *Cron service.* Any two of tick, catch-up, manual run and edit can meet over one job;
  the second job is the one that becomes due or is passed over meanwhile. (The safety
  properties are proved for any jobs, manual runs, edits and crashes.) Two edits
  disable and enable. Two instants let a slot become due during a run.
* *Gateway lock.* Three is the least number in which one contender acts on a judgement
  while a second has just taken the lock from a third. The safety properties are proved
  for any number.
* *Debounce.* Four messages give a buffer, an immediate message behind it, and a second
  buffer behind that; one key of two makes the other find the map full.

Deadlock is checked except in `embedded_runs`, `cron_service`, `gateway_lock`,
`inbound_debounce` and `gateway_run_loop`: there all calls may have been made, the time
bound be reached, or the processes have ended. Symmetry is used in safety runs only (scans, runners and batches are
interchangeable; no action tells them apart).

### Fairness

* *Command queue.* A task of the current generation ends (agent turns have a timeout,
  `agents/timeout.ts`). Tasks of older generations need not: their `finally` blocks may
  never run, as the comment on `resetAllLanes` says.
* *Followup queue.* Debounce timers fire and turns end (weak fairness); a send that is
  tried again and again succeeds some time (strong fairness).
* *Delivery queue.* Eventually no more crashes, and the process restarts in place again
  and again, as it does on configuration changes; a scan advances; a scan that is
  offered an entry again and again finds its backoff over and the disk working once.
* *Embedded runs.* Code that only awaits something settled goes on; a run of the present
  generation ends and clears its handle (runs have a timeout). One that a restart cut
  off may hang for ever. Nothing is assumed of callers, drains and resets.
* *Cron service.* The start and the tick go on and the timer fires; jobs end (they are
  run with a timeout); a manual run that was reserved goes on.
* *Gateway lock.* A contender goes on until it holds the lock or its time is up; a file
  gets old. A holder may stay for ever.
* *Debounce.* Timers fire, tasks run, and `onFlush` settles.
* *Run loop.* Timeouts fire (drain, watchdog over drain and close, lock acquisition) and
  file operations end. A close or a start may hang for ever.

### Findings

1. `followup_overflow` (`auto-reply/reply/queue/drain.ts:138`): the batch is removed by
   number after an awaited send; an arrival during the send may have spliced the sent
   items off already, and the splice then removes messages that were never sent.
2. `delivery_ack` (`infra/outbound/delivery-queue-recovery.ts:192`): a recovered
   best-effort delivery fails without anybody noticing and is acknowledged.

### Known limits of the code

Seen while modelling; they show in the models as exceptions that the properties name, or
follow from the code without a run of their own.

* *Followup queue.* In mode `followup` a summary without items is never sent and the
  drain schedules itself again for ever (`drain.ts:163`; `docs/concepts/queue.md:69`
  says the summary is injected). An arrival in the gap between the cross-channel check and
  the copy of the items (`drain.ts:104`) mixes a batch. `drain.ts:180` deletes whatever
  queue is registered, also one created for a message that came after a clear: nobody
  drains that message any more. A message that is delivered again
  after its id has expired is handed over again.
* *Delivery queue.* An entry whose payloads a hook has cancelled leaves the queue as if it
  had been delivered. Two writers of one entry in one process share its temporary file
  (`delivery-queue-storage.ts:77`); their renames are modelled as two whole writes.
* *Heartbeat.* An interval wake that is refused while heartbeats are disabled is not
  armed again (`infra/heartbeat-runner.ts:1060`), and enabling them (`docs/cli/system.md:41`)
  only sets a flag. The retry cooldown of the wake layer is not the hard minimum its
  comment promises.
* *Run loop.* A restart accepted while a server is being started sets the drain flag and
  wakes no loop (`cli/gateway-cli/run-loop.ts:127`): the gateway serves and refuses all
  work. A signal during a start can orphan a server. After a failed start in place the
  lock is given away and the next successful start serves without it. A close that throws
  leaves a server that listens and no handle. The properties name these events
  (`interrupted`, `unlocked`, `halfClosed`) and show that nothing else leads there.
  `leftBehind` also stands for queued work that is started during the drain and has no
  timeout. A start that fails is taken not to have bound the port (steps after
  `gateway/server.impl.ts:725` are not undone when one fails).
* *Embedded runs.* A run that a restart in place has given up goes on if it does not
  hang, beside a new run of its session, and takes over its registry entry when it
  registers late; `docs/concepts/queue.md:20` promises one run per session. A queued
  session task that starts during the drain has its nested call refused, although
  queued entries are meant to survive the restart (`process/command-queue.ts:256`).
* *Cron service.* The last section of a start recomputes past next runs
  (`cron/service/ops.ts:124`), and so passes over jobs that became due during the
  catch-up, which the comment at `cron/service/timer.ts:988` wants to "execute on a
  future tick"; `add` does the same to every due job, and an update that names `enabled` or
  a schedule to its own job, also if it changes nothing (`ops.ts:301`). A job runs twice at once when it
  is disabled and enabled again during a run, or when a disabled job is run by force:
  the marker is cleared. That the markers keep runs apart is shown under the condition
  that a job ends within `STUCK_RUN_MS` (two hours), and that due jobs are run under the
  condition that jobs end, which a job timeout of zero does not guarantee.
* *Gateway lock.* An owner that is alive and not listening, because it is starting or
  closing, is judged dead (`infra/gateway-lock.ts:112`), and so is one that serves when the
  probe times out, fails, or asks 127.0.0.1 while the server is bound to a tailnet or custom
  address (`infra/gateway-lock.ts:92`; `gateway/net.ts:251`). The file is removed by path
  whoever has created it since. What keeps two gateways apart in the end is the port.
  A file whose creator died before it wrote the payload stops every start for
  `staleMs`, longer than the time limit of a start.
* *Debounce.* Buffers are lost when the process ends; an `onFlush` that never settles
  blocks its key, and one that keeps its timer running by a stream without end is never
  flushed (the model has finitely many messages).

What the models leave out of these components: a second cron service on one file, patches of
a job's markers or of its last run (the schema of `cron.update` admits them, no client in
the repository sends them), a patch that changes the kind of a schedule or the time of a
one-shot, a store that cannot be written; `MAUMAU_ALLOW_MULTI_GATEWAY`, with which nothing
is locked, process ids that are used again, and, in `GatewayRunLoop`, a start without a
lock; a run of a former lifetime that registers late, in `RegistryIsExact`.

## 4. Proofs

`CommandQueueProofs` proves, for every set of lanes, finite set of calls, cap bound and
number of resets:

| theorem | property |
|---|---|
| `TypeCorrect` | `TypeOK` |
| `WorkIsNeverStranded` | `NoStrandedWork`: a lane with waiting entries is full |
| `ActiveIdsAreExact` | `ActiveIsExact`: the active ids are the tasks of the lane's generation |
| `NothingLostOrDuplicated` | `PendingIsLocated`: a pending call is in exactly one place |
| `LanesAreFIFO` | `NoOvertaking` |
| `DrainedMeansDone` | `DrainedIsTrue` |
| `CapIsRespected` | `StartsRespectCap`, an action property |

Assumptions: `ConstantsAssumption` of `CommandQueue` (each call names a lane, finitely
many calls, a positive cap bound). Nothing else is assumed.

*The argument.* None of the properties is inductive alone. The invariant `IInv` adds
`LanesConsistent`: queued entries are pending, not running, belong to their lane and are
sorted by enqueue time below the clock; active ids are exactly the closures of the
current generation, and no closure is of a future generation; every pending call is
queued or running; whatever was started is older than whatever is queued.
`WaitedStarted` says that the tasks `waitForActiveTasks` looks at had been started, so
an id that has left the active sets cannot come back.
The state is passed to these operators as parameters: one lemma (`PumpKeepsConsistent`)
says what pumping a lane does to any consistent queue, `PumpFills` that it leaves the
lane full or its queue empty, and `DrainLanesKeeps` carries both over to a set of
lanes. Each action then has to show only that it is consistent *before* it pumps. One
lemma per action gives `NextStep`; the temporal theorems follow by PTL.

`GatewayProofs` proves of the run loop, for any number of deferred restarts, `TypeCorrect`
(`TypeOK`), `OneServerAtATime` (`OneServer`), `ServerIsLocked` (`LockCoversServer`),
`RestartDrainsFirst` (`WorkIsDrained`) and `DrainEndsWithRestart` (`DrainIsOver`), from
`MaxPolls \in Nat` alone. The difficulty is that the loop and the shutdown task run
concurrently and each knows only part of the state. `IInv` says what they agree on:
a handle always belongs to a server that is up (`HandleIsReal`); unless a signal
interrupted a start, a shutdown meets a loop that waits and closes the server there is
(`ShutdownKnows`); the lock is missing only while the shutdown task takes it again or
after a failed restart (`LockIsTracked`); the drain flag is set during every restart
and outlives one only after an interrupted start (`DrainIsTracked`).

`GatewayProofs` proves of the lock file, for any set of processes, `LockTypeCorrect`
(`LockTypeOK`), `LockIsExclusive` (`OneRightfulHolder`) and `RobberyHasACause`
(`RobbedHasACause`, an action property), from `LockAssumption` (`NoOne` is no process)
alone. `LockInv` adds to the types: the owner of the file is a process that has created it, or a dead one
(`OwnerHasCreated`); who has created a file and was not robbed owns the one that is there
(`FileIsKept`); what a contender has read is what the file says (`ReadingIsTrue`), and
what it has concluded is still so, but for a probe that missed the server
(`JudgementIsTrue`), unless it is counted as outdated.
`FileIsKept` alone gives exclusion. The cause of a robbery needs all four: a remover is
not the owner, and if it is not outdated its judgement holds at the moment it removes.

`InboundDebounceProofs` proves, for any finite set of keys, any bound on the tracked ones
and any number of messages, `TypeCorrect` (`TypeOK`) and `InOrder` (`FlushedInOrder`), from
`DebounceAssumption`. What will be flushed is in the chain, so `IInv` says of each key that
the tasks of its chain hold, one after the other and without a gap, the messages between
the last one flushed and the last one arrived (`Contiguous`), and that an open buffer is
the last task of its chain and not taken up (`BufferIsLast`): that is why a message may
still join it. Both are operators of the state of one key; one lemma per kind of change of
a chain (`PushKeeps`, `JoinKeeps`, `ReleaseKeeps`, `BeginKeeps`, `EndKeeps`, ...) shows that
they are kept, and `OneKey` that an action which changes one key keeps them for all.

`DeliveryQueueProofs` proves, for any sets of calls and scans and any bounds, `TypeCorrect`
(`TypeOK`), `NothingIsLost` (`NothingLost`), `DuplicatesAreExplained`
(`DuplicatesHaveACause`) and `SettledIsNotSentAgain` (`SettledStaysSettled`, an action
property), from `DeliveryAssumption`. A scan loads an entry long before it works on it,
and nobody reserves an entry, so `IInv` speaks of who *holds* an entry: who works on it, or
has it loaded and not yet looked at (`Holds`). Two hold the same entry only after the event
that the history counts as a race (`OneHolder`); hence what is on the wire without having
been noticed was sent by one worker, once (`SentOnce`), and nobody holds what was settled
(`SettledIsOver`). `AckHasReason` says why an entry is acknowledged: it went out, its call
was aborted, a hook had cancelled it, or its failure went unnoticed (finding 2).

`FollowupQueueProofs` proves, for any messages, settings and number of queue objects,
`TypeCorrect` (`TypeOK`), `NothingIsLost` (`NothingVanishesUnlessLossy`), `NoMessageTwice`
(`HandedAtMostOnce`), `MessagesInOrder` (`HandedInOrder`) and `BatchesStayTogether`
(`BatchHasOneDestination`), from `FollowupAssumption`; that the caps of the settings have a
largest one is part of it, and is needed for the bound in `TypeOK` only. What was sent is
removed by *number*, so that a message is neither lost nor sent again depends on where the
messages being sent are in a queue that may have changed since. `ObjectSound` says it for
one queue object and its drain: the items were accepted, not handed over, and are in the
order of acceptance; what remains after the removal comes after what is being sent
(`InOrder`, the clause that makes removal by number harmless for `HandedAtMostOnce` even
after an overflow); the messages being sent are still the front of the queue unless an
overflow or a clear happened (`SendsPrefix`). For the whole queue: no message is in the
hands of two objects (`Apart`); without a clear only the registered object is drained, and
the others are empty (`OnlyRegistered`); what becomes unreachable is empty (`Tidy`). These
are operators of the whole state, and one lemma per kind of change (`Pushes`,
`Reconfigured`, `Clears`, `SendSettles`, `DrainSteps`) shows what it does to any sound
state; `InstallSettles` and `ScheduleSettles` add the last part that all actions share.

`HeartbeatProofs` proves, for any sets of targets, handlers, batches and agents,
`WakesAreScheduled` (`PendingIsScheduled`), `BatchesAreSerial` (`OneBatchAtATime`),
`RunnerStaysArmed` (`HeartbeatsStayArmed`), `NoRequestIsLost` (`RequestsAreKept`, an action
property), and `TypeCorrect` of both layers. The wake layer and the runner are one state:
`WakeInv` adds to `PendingIsScheduled` that the flag `running` tells the one batch under
way as long as no registration has cut one off (`RunningBatch`); `HandlerIsOfRunner` says
that the registered handler is that of a runner that is not stopped. `StaysArmed` is
stricter than the property: what arms the registered runner again is its interval timer,
a pending wake for everybody, or a batch that has such a call to make or to finish and
was not refused it (`WillRun`), because a call for everybody that was refused arms nothing.

`EmbeddedRunsProofs` proves, for any finite set of runs, any lanes, caps and number of
resets, `TypeCorrect` (`TypeOK`), `SessionsAreSerial` (`OneRunPerSession`),
`RegistryIsRight` (`RegistryIsExact`) and `LanesAreSerialExecutors`: every behaviour
satisfies `Serial!Init /\ [][Serial!Next]_(Serial!vars)`, the safety part of
`ImplementsSerialExecutor`. The lanes are an instance of `CommandQueue`, so their
invariant comes from `CommandQueueProofs`, once it is shown that every step of
`EmbeddedRuns` is a step of the lanes or leaves them alone. `IInv` adds what the caps and
the nesting make of them: a lane with cap 1 executes one task per generation
(`OnePerGeneration`), a run waits in its global lane or executes only while its session
task waits for it (`NestedRuns`), and a registered run executes (`RegisteredRuns`). For
the refinement, every step is shown to be one action of `SerialExecutor` or none. Runs
must be finitely many (`RunsAssumption`) because `CommandQueue` asks it of its calls.

`CronServiceProofs` proves, for any jobs and schedules of the two kinds, any manual runs, and
any number of edits, crashes and concurrent runs, `TypeCorrect` (`TypeOK`), `RunsAreSerial`
(`ConcurrentRunsHaveACause`), `MarkersAreOnFile` (`RunsAreRecorded`), `SlotsAreKept`
(`SlotsArePassedOverByRuns`, an action property) and `SchedulerIsArmed`
(`SchedulerStaysArmed`), from `CronAssumption`. What keeps two runs of a job apart is a
marker that other sections, which know nothing of the run, read, reload, recompute and
rewrite in two copies. `IInv` says: file and memory hold the same schedule, up to markers,
repairs of a missing next run, and what disabled jobs hold (`SameSchedule`), which is why a
reload between two sections loses nothing; a job that somebody has, waiting or executing,
bears its marker in *both* copies (`MarkersAreSet`), unless it was removed, or disabled
meanwhile, which clears it; one runner or one manual run has it (`OneHolder`); and a
process that has not loaded the file has no timer, tick or run (`NothingBeforeStart`), so a
start clears only the markers of a former process. What each operator does to a store is a
lemma of its own (`MaintenanceIs`, `RecomputeIs`, `MarkedIs`, `AppliedIs`); every action is
one or two of them. `SlotsAreKept` adds that maintenance never moves a next run that is
set, names the sections that do, and shows that an update touches no job but its own.

`SchedulerIsArmed` has a hypothesis: no job in the first file lacks a next run it should
have. `MaintainedStep` shows that every section leaves both copies so (`Maintained`), hence
no service ever writes another file; the hypothesis only excludes one written by hand. It
is needed: TLC finds that with such a file, a manual run's preflight repairs the job in
memory only, the tick that reloads the file loses the repair, and after a later edit and
`list` call the job has a next run again while the timer is off, until the tick under way
ends and arms it. Without `Maintained` the property is not inductive either, because the
section that reloads the file leaves the timer as the copy in memory has set it.

*Only model-checked.* All liveness, with the liveness half of
`ImplementsSerialExecutor`: the prover does not handle fairness or ENABLED. Every safety
property that a passing run checks is proved. No module uses RECURSIVE operators.

## 5. Plan

Models, in this order:

1. `ExecApproval`: a decision, its timeout and the end of the grace period race.
2. The subagent announce queue as an instance of what it shares with `FollowupQueue`.
3. Two cron services of one process over one file: `stop` only clears the timer, and a
   tick in progress arms it again (`cron/service/timer.ts:729`), so after a hot reload of
   the cron configuration an old service goes on beside its successor.
4. The lock step of `GatewayRunLoop` refined by `GatewayLock`.

Abstract specifications: an at-least-once mailbox, implemented by `DeliveryQueue`.

Proofs: with the models above, their own; the safety part of the mailbox refinement.
