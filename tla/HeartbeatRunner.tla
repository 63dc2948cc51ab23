-------------------------- MODULE HeartbeatRunner --------------------------
(***************************************************************************)
(* The heartbeat runner (startHeartbeatRunner in                            *)
(* src/infra/heartbeat-runner.ts) on top of the wake layer.  Each runner    *)
(* registers a handler and keeps an interval timer; the timer only fires    *)
(* once and is armed again by the run it has asked for.  The runner serves  *)
(* one agent, woken for everybody (All) or for a session of its own.        *)
(***************************************************************************)
EXTENDS HeartbeatWake

CONSTANTS All,       \* the target of a wake without agent and session
          Interval   \* the reason of the interval timer

ASSUME RunnerAssumption == All \in Targets /\ Interval \in Reasons

VARIABLES
    enabled,   \* setHeartbeatsEnabled
    started, stopped,
    agents,    \* running runners whose configuration has an agent with an interval
    tick,      \* runners whose interval timer is armed
    refused,   \* batches whose current call was refused: stopped, disabled, no agent
    unarmed    \* runners whose interval timer was lost to a wake refused while disabled

runnerVars == <<enabled, started, stopped, agents, tick, unarmed>>
vars == <<wakeVars, runnerVars, refused>>

Init ==
    /\ WakeInit
    /\ enabled = TRUE
    /\ started = {} /\ stopped = {} /\ agents = {} /\ tick = {}
    /\ refused = {} /\ unarmed = {}

\* The runner is stopped, heartbeats are disabled, or no agent has an interval.
Refuses(h) == ~enabled \/ h \notin agents

\* Whether the call that starts in this step is refused, and whether that leaves its
\* runner unarmed.
CallsOf(b) ==
    LET calls == batch'[b].by # None /\ Refuses(batch'[b].by)
    IN  /\ refused' = IF calls THEN refused \cup {b} ELSE refused \ {b}
        /\ unarmed' = (unarmed \cup {h \in agents : /\ calls /\ h = batch'[b].by
                                                    /\ batch'[b].calling = All}) \ tick'

\* scheduleNext
ScheduleNext(h) == tick' = IF h \in agents THEN tick \cup {h} ELSE tick \ {h}

-----------------------------------------------------------------------------
\* A runner is started and its handler registered (at most once each).
Start(h) ==
    /\ h \notin started
    /\ SetHandler(h)
    /\ started' = started \cup {h}
    /\ agents' = agents \cup {h} /\ tick' = tick \cup {h}
    /\ UNCHANGED <<enabled, stopped, refused, unarmed>>

\* cleanup
Stop(h) ==
    /\ h \in started \ stopped
    /\ DisposeHandler(h)
    /\ stopped' = stopped \cup {h}
    /\ agents' = agents \ {h} /\ tick' = tick \ {h} /\ unarmed' = unarmed \ {h}
    /\ UNCHANGED <<enabled, started, refused>>

\* updateConfig, called for the current runner: its agent gets or loses its interval.
UpdateConfig(h, configured) ==
    /\ handler = h
    /\ agents' = IF configured THEN agents \cup {h} ELSE agents \ {h}
    /\ tick' = IF configured THEN tick \cup {h} ELSE tick \ {h}
    /\ unarmed' = unarmed \ {h}
    /\ UNCHANGED <<wakeVars, enabled, started, stopped, refused>>

SetHeartbeatsEnabled ==
    /\ enabled' = ~enabled
    /\ UNCHANGED <<wakeVars, started, stopped, agents, tick, refused, unarmed>>

\* The interval timer of runner h.
IntervalTimerFires(h) ==
    /\ h \in tick
    /\ tick' = tick \ {h}
    /\ RequestHeartbeatNow(All, Interval)
    /\ UNCHANGED <<enabled, started, stopped, agents, refused, unarmed>>

\* Somebody else asks for a heartbeat.
Request(t, reason) ==
    /\ reason # Interval
    /\ RequestHeartbeatNow(t, reason)
    /\ UNCHANGED <<runnerVars, refused>>

TimerFires ==
    \/ /\ TimerFindsNoHandler \/ TimerFindsBatchRunning \/ TimerFindsNothing
       /\ UNCHANGED <<runnerVars, refused>>
    \/ \E b \in Batches, t \in Targets :
         /\ BatchStarts(b, t)
         /\ UNCHANGED <<enabled, started, stopped, agents, tick>>
         /\ CallsOf(b)

\* A refused call answers without arming the interval timer.
RunIsRefused(b) ==
    /\ b \in refused
    /\ HandlerAnswers(b)
    /\ UNCHANGED <<enabled, started, stopped, agents, tick>>
    /\ CallsOf(b)

\* Mutant: the schedule is only advanced by a run that ran.
RunEnds_NoSchedule(b) ==
    /\ b \notin refused
    /\ HandlerAnswers(b)
    /\ UNCHANGED <<enabled, started, stopped, agents, tick>>
    /\ CallsOf(b)

\* The run ran, failed, threw, was not due or skipped: the timer is armed again.
RunEnds(b) ==
    /\ b \notin refused
    /\ HandlerAnswers(b)
    /\ ScheduleNext(batch[b].by)
    /\ CallsOf(b)
    /\ UNCHANGED <<enabled, started, stopped, agents>>

\* The main lane is busy: a run for everybody leaves the timer to the retry.
RunIsBusy(b) ==
    /\ b \notin refused
    /\ HandlerIsBusy(b)
    /\ IF batch[b].calling = All THEN UNCHANGED tick ELSE ScheduleNext(batch[b].by)
    /\ CallsOf(b)
    /\ UNCHANGED <<enabled, started, stopped, agents>>

\* The handler itself throws.
RunThrows(b) ==
    /\ b \notin refused
    /\ HandlerThrows(b)
    /\ UNCHANGED <<runnerVars, refused>>

Next ==
    \/ \E h \in Handlers :
         \/ Start(h) \/ Stop(h) \/ IntervalTimerFires(h)
         \/ \E configured \in BOOLEAN : UpdateConfig(h, configured)
    \/ SetHeartbeatsEnabled
    \/ \E t \in Targets, reason \in Reasons : Request(t, reason)
    \/ TimerFires
    \/ \E b \in Batches : RunIsRefused(b) \/ RunEnds(b) \/ RunIsBusy(b) \/ RunThrows(b)

Spec == Init /\ [][Next]_vars

-----------------------------------------------------------------------------
(*                               Properties                                *)

TypeOK ==
    /\ WakeTypeOK
    /\ enabled \in BOOLEAN
    /\ stopped \subseteq started /\ started \subseteq Handlers
    /\ agents \subseteq started \ stopped
    /\ tick \cup unarmed \subseteq agents
    /\ refused \subseteq {b \in Batches : UnderWay(b)}

\* Something will make runner h run for everybody: its interval timer, a pending
\* wake, or a batch of its own that has such a call before it or under way.
Armed(h) ==
    \/ h \in tick
    \/ pending[All] # None
    \/ \E b \in Batches : batch[b].by = h /\ All \in batch[b].left \cup {batch[b].calling}

\* Heartbeats keep firing: busy lanes, errors, targeted wakes, coalescing with other
\* requests and restarts never leave the registered runner without its interval
\* timer, unless an interval wake came while heartbeats were disabled.
HeartbeatsStayArmed ==
    \A h \in agents \ unarmed : handler = h => Armed(h)

=============================================================================
