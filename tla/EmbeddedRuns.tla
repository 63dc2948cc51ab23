---------------------------- MODULE EmbeddedRuns ----------------------------
(***************************************************************************)
(* Agent runs on the command queue: src/agents/pi-embedded-runner.         *)
(*                                                                         *)
(* runEmbeddedPiAgent and compactEmbeddedPiSession put a task on the lane  *)
(* of the session; that task puts the run itself on a global lane and      *)
(* waits for it while it keeps the session lane.  A manual cron run has a  *)
(* third lane around the two: its task holds a slot of the cron lane.      *)
(*                                                                         *)
(* The queue is CommandQueue, and every step of it here is one of its      *)
(* actions.  A started session task calls the global lane before its first *)
(* await, so nothing may come between the two: every other action waits    *)
(* until no such call is owed (Quiet).                                     *)
(*                                                                         *)
(* Beside the queue there is the registry of runs.ts, which tells who can  *)
(* be steered, aborted or waited for.                                      *)
(***************************************************************************)
EXTENDS Integers, Sequences, FiniteSets

CONSTANTS Sessions,
          Runs,          \* the calls of runEmbeddedPiAgent
          CronRuns,      \* those made by a manual cron run
          SessionOf,
          NoRun,
          MaxGeneration  \* bound on the number of in-process restarts

ASSUME RunsAssumption ==
    /\ IsFiniteSet(Runs) /\ CronRuns \subseteq Runs
    /\ SessionOf \in [Runs -> Sessions]
    /\ NoRun \notin Runs
    /\ MaxGeneration \in Nat

VARIABLES
    gatewayDraining, queue, active, maxConcurrent, generation, taskGeneration,
    promise, enqueuedAt, now, waiter, activeAtStart, \* of CommandQueue
    activeRuns, \* ACTIVE_EMBEDDED_RUNS: the run whose handle is registered for a session
    phase,      \* where the run is: before, during or after its registration
    lateSessions \* history: where a run given up by a restart has registered since

queueVars == <<gatewayDraining, queue, active, maxConcurrent, generation, taskGeneration,
               promise, enqueuedAt, now, waiter, activeAtStart>>
registryVars == <<activeRuns, phase, lateSessions>>
vars == <<queueVars, registryVars>>

-----------------------------------------------------------------------------
(* Lanes and calls.  A call is an entry of the command queue.               *)

CronLane == <<"cron">>
MainLane == <<"main">>
NestedLane == <<"nested">>
ResolveSessionLane(s) == <<"session", s>>

\* A cron job holds a slot of the cron lane while it waits for its inner run.
ResolveNestedAgentLane(lane) == IF lane = CronLane THEN NestedLane ELSE lane
ResolveGlobalLane(lane) == IF lane = CronLane THEN NestedLane ELSE lane

\* Mutant: the inner run of a cron job inherits the cron lane.
GlobalLaneOf_Inherited(r) == IF r \in CronRuns THEN CronLane ELSE MainLane

GlobalLaneOf(r) ==
    ResolveGlobalLane(IF r \in CronRuns THEN ResolveNestedAgentLane(CronLane) ELSE MainLane)

SessionCall(r) == <<"session", r>>
GlobalCall(r) == <<"global", r>>
CronCall(r) == <<"cron", r>>

Calls == {SessionCall(r) : r \in Runs} \cup {GlobalCall(r) : r \in Runs}
            \cup {CronCall(r) : r \in CronRuns}
Lanes == {CronLane, MainLane, NestedLane} \cup {ResolveSessionLane(s) : s \in Sessions}

LaneOf ==
    [c \in Calls |-> CASE c[1] = "session" -> ResolveSessionLane(SessionOf[c[2]])
                       [] c[1] = "global"  -> GlobalLaneOf(c[2])
                       [] c[1] = "cron"    -> CronLane]

Queue == INSTANCE CommandQueue WITH Entries <- Calls, MaxConcurrency <- 1

Init ==
    /\ Queue!Init
    /\ activeRuns = [s \in Sessions |-> NoRun]
    /\ phase = [r \in Runs |-> "before"]
    /\ lateSessions = {}

OwesGlobalCall(r) ==
    Queue!Running(SessionCall(r)) /\ promise[GlobalCall(r)] = "uncalled"
Quiet == \A r \in Runs : ~OwesGlobalCall(r)

IsSettled(c) == promise[c] \in Queue!Settled
Enqueue(c) == Queue!EnqueueCommandInLane(c) \/ Queue!RefuseWhileDraining(c)

-----------------------------------------------------------------------------
(* Calls and the tasks they start.                                          *)

\* An inbound message, a followup or a compaction asks for a run.
RunEmbeddedPiAgent(r) ==
    /\ Quiet
    /\ r \notin CronRuns
    /\ Enqueue(SessionCall(r))
    /\ UNCHANGED registryVars

\* The task of the session lane: enqueueGlobal(...).
EnqueueGlobal(r) ==
    /\ OwesGlobalCall(r)
    /\ Enqueue(GlobalCall(r))
    /\ UNCHANGED registryVars

\* enqueueRun of the cron service: the manual run is queued on the cron lane.
EnqueueCronRun(r) ==
    /\ Quiet
    /\ r \in CronRuns
    /\ Enqueue(CronCall(r))
    /\ UNCHANGED registryVars

\* The task of the cron lane reaches the run of its job ...
CronTaskRunsJob(r) ==
    /\ Quiet
    /\ r \in CronRuns
    /\ Queue!Running(CronCall(r))
    /\ Enqueue(SessionCall(r))
    /\ UNCHANGED registryVars

\* ... and ends when that has ended, or when the job was not to be run after all.
CronTaskSettles(r) ==
    /\ Quiet
    /\ r \in CronRuns
    /\ promise[SessionCall(r)] = "uncalled" \/ IsSettled(SessionCall(r))
    /\ Queue!TaskSettles(CronCall(r), "resolved")
    /\ UNCHANGED registryVars

\* The run itself ends; while its handle is registered it has not.  How it ended
\* is not told apart: an error goes the same way back through the lanes.
GlobalTaskSettles(r) ==
    /\ Quiet
    /\ phase[r] # "during"
    /\ Queue!TaskSettles(GlobalCall(r), "resolved")
    /\ UNCHANGED registryVars

\* Mutant: the session task does not wait for the run it has queued.
SessionTaskSettles_NotAwaited(r) ==
    /\ Quiet
    /\ Queue!TaskSettles(SessionCall(r), "resolved")
    /\ UNCHANGED registryVars

\* The session task ends with the run it waits for.
SessionTaskSettles(r) ==
    /\ Quiet
    /\ IsSettled(GlobalCall(r))
    /\ Queue!TaskSettles(SessionCall(r), "resolved")
    /\ UNCHANGED registryVars

\* clearSessionQueues and the queue mode "interrupt": waiting runs are rejected.
ClearSessionLane(s) ==
    /\ Quiet
    /\ queue[ResolveSessionLane(s)] # << >>
    /\ Queue!ClearCommandLane(ResolveSessionLane(s))
    /\ UNCHANGED registryVars

MarkGatewayDraining ==
    Quiet /\ ~gatewayDraining /\ Queue!MarkGatewayDraining /\ UNCHANGED registryVars

ResetAllLanes ==
    Quiet /\ Queue!ResetAllLanes /\ UNCHANGED registryVars

\* The run was started by a session task of the lane's present generation: no
\* in-process restart has given it up.
OfThisLifetime(r) == Queue!CompletesCurrentGeneration(SessionCall(r))

-----------------------------------------------------------------------------
(* The registry of runs.ts.                                                 *)

\* setActiveEmbeddedRun: the last run to register is the one of the session.
SetActiveEmbeddedRun(r) ==
    /\ Quiet
    /\ Queue!Running(GlobalCall(r))
    /\ phase[r] = "before"
    /\ phase' = [phase EXCEPT ![r] = "during"]
    /\ activeRuns' = [activeRuns EXCEPT ![SessionOf[r]] = r]
    /\ lateSessions' = lateSessions \cup (IF OfThisLifetime(r) THEN {} ELSE {SessionOf[r]})
    /\ UNCHANGED queueVars

\* Mutant: whoever clears takes the entry of the session away.
ClearActiveEmbeddedRun_AnyHandle(r) ==
    /\ Quiet
    /\ phase[r] = "during"
    /\ phase' = [phase EXCEPT ![r] = "after"]
    /\ activeRuns' = [activeRuns EXCEPT ![SessionOf[r]] = NoRun]
    /\ UNCHANGED <<queueVars, lateSessions>>

\* clearActiveEmbeddedRun: only the registered handle is removed.
ClearActiveEmbeddedRun(r) ==
    /\ Quiet
    /\ phase[r] = "during"
    /\ phase' = [phase EXCEPT ![r] = "after"]
    /\ IF activeRuns[SessionOf[r]] = r
       THEN activeRuns' = [activeRuns EXCEPT ![SessionOf[r]] = NoRun]
       ELSE UNCHANGED activeRuns
    /\ UNCHANGED <<queueVars, lateSessions>>

Next ==
    \/ \E r \in Runs :
        \/ RunEmbeddedPiAgent(r)
        \/ EnqueueGlobal(r)
        \/ EnqueueCronRun(r)
        \/ CronTaskRunsJob(r)
        \/ CronTaskSettles(r)
        \/ GlobalTaskSettles(r)
        \/ SessionTaskSettles(r)
        \/ SetActiveEmbeddedRun(r)
        \/ ClearActiveEmbeddedRun(r)
    \/ \E s \in Sessions : ClearSessionLane(s)
    \/ MarkGatewayDraining
    \/ ResetAllLanes

Spec == Init /\ [][Next]_vars

(* Code that only awaits something settled goes on; a run of the current   *)
(* generation ends (it has a timeout), one cut off by a restart may hang.  *)
CurrentRun(r) == Queue!CompletesCurrentGeneration(GlobalCall(r))

Fairness ==
    \A r \in Runs :
        /\ WF_vars(EnqueueGlobal(r))
        /\ WF_vars(SessionTaskSettles(r))
        /\ WF_vars(CurrentRun(r) /\ ClearActiveEmbeddedRun(r))
        /\ WF_vars(CurrentRun(r) /\ GlobalTaskSettles(r))

FairSpec == Spec /\ Fairness

-----------------------------------------------------------------------------
(*                               Properties                                *)

\* The range of every variable.
TypeOK ==
    /\ Queue!TypeOK
    /\ activeRuns \in [Sessions -> Runs \cup {NoRun}]
    /\ phase \in [Runs -> {"before", "during", "after"}]
    /\ lateSessions \subseteq Sessions

\* Two runs of one session execute together only if an in-process restart lies
\* between them: the session lane is kept until the nested run has ended.
OneRunPerSession ==
    \A r1, r2 \in Runs :
        (/\ r1 # r2
         /\ SessionOf[r1] = SessionOf[r2]
         /\ Queue!Running(GlobalCall(r1))
         /\ Queue!Running(GlobalCall(r2)))
        => taskGeneration[SessionCall(r1)] # taskGeneration[SessionCall(r2)]

\* The registry names only runs that can be steered and aborted, and every such
\* run of this lifetime can be found in it, except where a run that a restart had
\* given up has registered since and taken the entry over.
RegistryIsExact ==
    /\ \A s \in Sessions : activeRuns[s] # NoRun =>
            phase[activeRuns[s]] = "during" /\ SessionOf[activeRuns[s]] = s
    /\ \A r \in Runs :
            (phase[r] = "during" /\ OfThisLifetime(r) /\ SessionOf[r] \notin lateSessions)
            => activeRuns[SessionOf[r]] = r

\* The lanes implement the serial executor: a session's current run is the one
\* whose task is active in the session lane, its line is the lane's queue.  The
\* nesting cannot deadlock: every current run comes to an end.
ActiveRun(s) ==
    IF \E r \in Runs : SessionCall(r) \in active[ResolveSessionLane(s)]
    THEN CHOOSE r \in Runs : SessionCall(r) \in active[ResolveSessionLane(s)] ELSE NoRun

Serial == INSTANCE SerialExecutor WITH
    current <- [s \in Sessions |-> ActiveRun(s)],
    line <- [s \in Sessions |-> [i \in DOMAIN queue[ResolveSessionLane(s)] |->
                                    queue[ResolveSessionLane(s)][i][2]]]

ImplementsSerialExecutor == Serial!LiveSpec

=============================================================================
