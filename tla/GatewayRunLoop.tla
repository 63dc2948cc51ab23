--------------------------- MODULE GatewayRunLoop ---------------------------
(***************************************************************************)
(* The gateway process: the run loop that starts, restarts and stops the    *)
(* server (src/cli/gateway-cli/run-loop.ts), the scheduler of SIGUSR1       *)
(* restarts (src/infra/restart.ts) and the gateway lock it holds.           *)
(*                                                                         *)
(* The loop and the shutdown task that a signal starts run concurrently.    *)
(* A restart signal is emitted, authorised and consumed in one synchronous  *)
(* call, so its tokens never differ between two steps.                      *)
(***************************************************************************)
EXTENDS Naturals

CONSTANT MaxPolls  \* bound: restarts deferred until the gateway is idle

ASSUME RunLoopAssumption == MaxPolls \in Nat

VARIABLES
    loop,        \* the loop starts a server, waits for a restart, or the process is gone
    isFirstStart,
    server,      \* the loop's handle of a server is not null
    listening,   \* a server of this process is up, with or without a handle
    lock,        \* this process holds the gateway lock
    shutdown,    \* the shutdown task
    gatewayDraining,
    busy,        \* tasks or embedded runs are active: what a drain waits for
    timer,       \* pendingRestartTimer is armed
    polls,       \* deferred restarts that poll for idleness
    mishap       \* what happened that the properties make an exception for

processVars == <<loop, isFirstStart, server, listening, lock, shutdown>>
restartVars == <<timer, polls>>
vars == <<processVars, restartVars, gatewayDraining, busy, mishap>>

Off == [at |-> "off", kind |-> "none", had |-> FALSE]
ShuttingDown == shutdown.at # "off"

Init ==
    /\ loop = "starting" /\ isFirstStart = TRUE
    /\ server = FALSE /\ listening = FALSE
    /\ lock = TRUE
    /\ shutdown = Off
    /\ gatewayDraining = FALSE /\ busy = FALSE
    /\ timer = FALSE /\ polls = 0
    /\ mishap = {}

Alive == loop # "gone"

\* process.exit: the operating system closes what listens.
Exit ==
    /\ loop' = "gone"
    /\ server' = FALSE /\ listening' = FALSE
    /\ shutdown' = Off
    /\ timer' = FALSE /\ polls' = 0 /\ busy' = FALSE
    /\ UNCHANGED <<isFirstStart, gatewayDraining, mishap>>

-----------------------------------------------------------------------------
(*                               The loop                                  *)

\* The port is bound exclusively.
ServerStarts ==
    /\ loop = "starting" /\ ~listening
    /\ loop' = "waiting" /\ isFirstStart' = FALSE
    /\ server' = TRUE /\ listening' = TRUE
    /\ UNCHANGED <<lock, shutdown, restartVars, gatewayDraining, busy, mishap>>

\* The first start fails: the error ends the process.
FirstStartFails ==
    /\ loop = "starting" /\ isFirstStart
    /\ lock' = FALSE
    /\ Exit

\* A later start fails: the process stays alive, without the lock.
RestartFails ==
    /\ loop = "starting" /\ ~isFirstStart
    /\ loop' = "waiting"
    /\ server' = FALSE /\ lock' = FALSE
    /\ mishap' = mishap \cup {"unlocked"}
    /\ UNCHANGED <<isFirstStart, listening, shutdown, restartVars, gatewayDraining, busy>>

\* Mutant: the lanes are not reset.
Resolves_KeepsLanes ==
    /\ shutdown' = Off
    /\ IF loop = "waiting"
       THEN /\ loop' = "starting"
            /\ mishap' = {m \in mishap : listening \/ (m = "unlocked" /\ ~lock')}
            /\ UNCHANGED <<gatewayDraining, busy>>
       ELSE UNCHANGED <<loop, gatewayDraining, busy, mishap>>

\* restartResolver(): only a loop that waits goes round again, and resets the lanes
\* (a task that was queued may start at once).
Resolves ==
    /\ shutdown' = Off
    /\ IF loop = "waiting"
       THEN /\ loop' = "starting"
            /\ gatewayDraining' = FALSE
            /\ busy' \in {FALSE, busy}
            /\ mishap' = {m \in mishap : listening \/ (m = "unlocked" /\ ~lock')}
       ELSE UNCHANGED <<loop, gatewayDraining, busy, mishap>>

-----------------------------------------------------------------------------
(*                           The shutdown task                             *)

\* Mutant: the drain flag is set only when the drain has ended.
Request_DrainsLater(kind) ==
    IF ShuttingDown THEN UNCHANGED <<shutdown, gatewayDraining, mishap>>
    ELSE /\ shutdown' = [at |-> IF kind = "restart" /\ busy THEN "drain" ELSE "close",
                         kind |-> kind, had |-> server]
         /\ UNCHANGED gatewayDraining
         /\ mishap' = IF loop = "starting" THEN mishap \cup {"interrupted"} ELSE mishap

\* request: one shutdown at a time; a restart refuses new work and drains the old.
Request(kind) ==
    IF ShuttingDown THEN UNCHANGED <<shutdown, gatewayDraining, mishap>>
    ELSE /\ shutdown' = [at |-> IF kind = "restart" /\ busy THEN "drain" ELSE "close",
                         kind |-> kind, had |-> server]
         /\ gatewayDraining' = (gatewayDraining \/ kind = "restart")
         /\ mishap' = IF loop = "starting" THEN mishap \cup {"interrupted"} ELSE mishap

\* onSigterm, onSigint
StopSignal ==
    /\ Alive
    /\ Request("stop")
    /\ UNCHANGED <<loop, isFirstStart, server, listening, lock, restartVars, busy>>

\* The drain ends by its timeout, or because what was active when it began has ended:
\* queued work that has started since is left behind.
DrainEnds ==
    /\ shutdown.at = "drain"
    /\ shutdown' = [shutdown EXCEPT !.at = "close", !.had = server]
    /\ mishap' = IF busy THEN mishap \cup {"leftBehind"} ELSE mishap
    /\ UNCHANGED <<loop, isFirstStart, server, listening, lock, restartVars, gatewayDraining, busy>>

\* Mutant: the close is not awaited.
Closes_NotAwaited ==
    /\ shutdown.at = "close"
    /\ server' = FALSE
    /\ shutdown' = [shutdown EXCEPT !.at = "release"]
    /\ UNCHANGED <<loop, isFirstStart, listening, lock, restartVars, gatewayDraining, busy, mishap>>

\* server?.close(...) on the handle there was when the call was made; the handle is
\* dropped in any case.
Closes ==
    /\ shutdown.at = "close"
    /\ listening' = (listening /\ ~shutdown.had)
    /\ server' = FALSE
    /\ shutdown' = [shutdown EXCEPT !.at = "release"]
    /\ UNCHANGED <<loop, isFirstStart, lock, restartVars, gatewayDraining, busy, mishap>>

\* The close throws and may leave the server up.
CloseFails ==
    /\ shutdown.at = "close" /\ shutdown.had
    /\ mishap' = mishap \cup {"halfClosed"}
    /\ server' = FALSE
    /\ shutdown' = [shutdown EXCEPT !.at = "release"]
    /\ UNCHANGED <<loop, isFirstStart, listening, lock, restartVars, gatewayDraining, busy>>

\* The drain and the close together took too long.
ForceExit ==
    /\ shutdown.at \in {"drain", "close"}
    /\ Exit
    /\ UNCHANGED lock

\* handleStopAfterServerClose, and a restart that is left to another process.
ReleasesAndExits ==
    /\ shutdown.at = "release"
    /\ lock' = FALSE
    /\ Exit

\* Mutant: the process keeps the lock, and does not take it again.
ReleasesForInProcessRestart_Forgets ==
    /\ shutdown.at = "release" /\ shutdown.kind = "restart"
    /\ lock' = FALSE
    /\ Resolves
    /\ UNCHANGED <<isFirstStart, server, listening, restartVars>>

\* handleRestartAfterServerClose without a new process: the lock is taken again if
\* it was held.
ReleasesForInProcessRestart ==
    /\ shutdown.at = "release" /\ shutdown.kind = "restart"
    /\ lock' = FALSE
    /\ \/ /\ lock
          /\ shutdown' = [shutdown EXCEPT !.at = "acquire"]
          /\ UNCHANGED <<loop, gatewayDraining, busy, mishap>>
       \/ ~lock /\ Resolves
    /\ UNCHANGED <<isFirstStart, server, listening, restartVars>>

\* Mutant: the loop is not woken.
Reacquires_NoResolve ==
    /\ shutdown.at = "acquire"
    /\ lock' = TRUE
    /\ shutdown' = Off
    /\ UNCHANGED <<loop, isFirstStart, server, listening, restartVars, gatewayDraining, busy, mishap>>

Reacquires ==
    /\ shutdown.at = "acquire"
    /\ lock' = TRUE
    /\ Resolves
    /\ UNCHANGED <<isFirstStart, server, listening, restartVars>>

ReacquireFails ==
    /\ shutdown.at = "acquire"
    /\ Exit
    /\ UNCHANGED lock

-----------------------------------------------------------------------------
(*                          Restart scheduling                             *)

\* emitGatewayRestart: a pending timer is dropped and the signal handled at once.
EmitGatewayRestart ==
    /\ timer' = FALSE
    /\ Request("restart")

\* scheduleGatewaySigusr1Restart: further requests are coalesced with the timer.
ScheduleGatewaySigusr1Restart ==
    /\ Alive
    /\ timer' = TRUE
    /\ UNCHANGED <<processVars, polls, gatewayDraining, busy, mishap>>

\* The timer fires: an idle gateway restarts now, as does one that has no check for
\* pending work yet or whose check fails.
TimerEmits ==
    /\ timer
    /\ EmitGatewayRestart
    /\ UNCHANGED <<loop, isFirstStart, server, listening, lock, polls, busy>>

\* deferGatewayRestartUntilIdle, by the timer or by a config change, for tasks and runs
\* or for replies and wizards, which do not make the gateway busy.
DefersUntilIdle ==
    /\ Alive /\ polls < MaxPolls
    /\ polls' = polls + 1
    /\ timer' \in {FALSE, timer}
    /\ UNCHANGED <<processVars, gatewayDraining, busy, mishap>>

\* A poll finds the gateway idle or has waited long enough.
PollEmits ==
    /\ polls > 0
    /\ polls' = polls - 1
    /\ EmitGatewayRestart
    /\ UNCHANGED <<loop, isFirstStart, server, listening, lock, busy>>

\* requestGatewayRestart of an idle gateway, by the config watcher of a server.
ReloadRestarts ==
    /\ listening /\ ~busy
    /\ EmitGatewayRestart
    /\ UNCHANGED <<loop, isFirstStart, server, listening, lock, polls, busy>>

\* Work comes in (refused while draining) and ends.
TaskStarts ==
    /\ Alive /\ ~gatewayDraining /\ ~busy
    /\ busy' = TRUE
    /\ UNCHANGED <<processVars, restartVars, gatewayDraining, mishap>>

TasksEnd ==
    /\ busy
    /\ busy' = FALSE
    /\ UNCHANGED <<processVars, restartVars, gatewayDraining, mishap>>

-----------------------------------------------------------------------------
Next ==
    \/ ServerStarts \/ FirstStartFails \/ RestartFails
    \/ StopSignal \/ DrainEnds \/ Closes \/ CloseFails \/ ForceExit
    \/ ReleasesAndExits \/ ReleasesForInProcessRestart \/ Reacquires \/ ReacquireFails
    \/ ScheduleGatewaySigusr1Restart \/ TimerEmits \/ DefersUntilIdle \/ PollEmits
    \/ ReloadRestarts
    \/ TaskStarts \/ TasksEnd

Spec == Init /\ [][Next]_vars

(* Timeouts fire (the drain's, the watchdog's over drain and close, the lock's),  *)
(* and file operations end.  A close may hang, and so may a start.                *)
Fairness ==
    /\ WF_vars(DrainEnds) /\ WF_vars(ForceExit)
    /\ WF_vars(ReleasesAndExits \/ ReleasesForInProcessRestart)
    /\ WF_vars(Reacquires \/ ReacquireFails)

FairSpec == Spec /\ Fairness

-----------------------------------------------------------------------------
(*                               Properties                                *)

\* The range of every variable; before the first start there is no server.
TypeOK ==
    /\ loop \in {"starting", "waiting", "gone"}
    /\ isFirstStart \in BOOLEAN /\ server \in BOOLEAN /\ listening \in BOOLEAN
    /\ lock \in BOOLEAN /\ gatewayDraining \in BOOLEAN
    /\ busy \in BOOLEAN /\ timer \in BOOLEAN
    /\ shutdown \in [at : {"off", "drain", "close", "release", "acquire"},
                     kind : {"none", "stop", "restart"}, had : BOOLEAN]
    /\ shutdown.at = "off" <=> shutdown.kind = "none"
    /\ isFirstStart => ~server
    /\ polls \in 0..MaxPolls
    /\ mishap \subseteq {"interrupted", "halfClosed", "leftBehind", "unlocked"}

\* One server at a time: the loop never starts one beside another, unless a signal
\* interrupted a start or a close failed.
OneServer ==
    mishap \cap {"interrupted", "halfClosed"} = {} =>
        /\ listening = server
        /\ loop = "starting" => ~listening

\* Until a shutdown has closed it, a server runs under the gateway lock, unless it was
\* started after a failed restart, which gives the lock away for good.
LockCoversServer ==
    server /\ shutdown.at \in {"off", "drain", "close"} => lock \/ "unlocked" \in mishap

\* A restart closes the server only when the active work is done or the drain has
\* timed out.
WorkIsDrained ==
    shutdown.kind = "restart" /\ shutdown.at \in {"close", "release", "acquire"} =>
        ~busy \/ "leftBehind" \in mishap

\* A gateway that serves and is not restarting accepts work, unless a signal came
\* during a start.
DrainIsOver ==
    server /\ ~ShuttingDown /\ "interrupted" \notin mishap => ~gatewayDraining

\* A restart that finds the loop waiting takes it round again, or ends the process;
\* and an accepted stop ends it.
RestartIsCarriedOut ==
    /\ shutdown.kind = "restart" /\ loop = "waiting" ~> loop # "waiting"
    /\ shutdown.kind = "stop" ~> loop = "gone"

=============================================================================
