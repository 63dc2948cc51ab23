--------------------------- MODULE HeartbeatWake ---------------------------
(***************************************************************************)
(* The wake layer of the heartbeat (src/infra/heartbeat-wake.ts): requests  *)
(* are coalesced per target, one timer starts a batch, a batch calls the    *)
(* registered handler once per target, and a busy main lane or an error     *)
(* puts wakes back with a cooldown.  The registration of a new handler (an  *)
(* in-process restart) resets the layer while a batch of the old one may    *)
(* still be under way, so batches have identities.                          *)
(*                                                                         *)
(* Which of two timers is kept (retry over normal, sooner over later) only   *)
(* decides when the one timer there is fires, and it may fire at any time    *)
(* here: `timer` says whether one is armed.  Requests come in the order of   *)
(* their timestamps.                                                        *)
(***************************************************************************)
EXTENDS Naturals, FiniteSets

CONSTANTS Handlers,    \* registrations of a handler
          Targets,     \* wake targets (agent and session)
          Reasons,     \* reasons of a wake
          Priority,    \* resolveReasonPriority of each reason
          Batches,     \* identities of batches under way
          None         \* no handler, no wake, no target

ASSUME WakeAssumption ==
    /\ Priority \in [Reasons -> 0..3]
    /\ None \notin Handlers \cup Targets \cup Reasons

VARIABLES
    handler,     \* the registered handler
    pending,     \* pendingWakes: the reason for each target
    running, scheduled,
    timer,       \* a timer is armed
    batch,       \* the batches under way
    overlapped   \* a handler was registered while a batch was under way

wakeVars == <<handler, pending, running, scheduled, timer, batch, overlapped>>

NoWakes == [t \in Targets |-> None]
NoBatch == [by |-> None, wakes |-> NoWakes, left |-> {}, calling |-> None]

WakeInit ==
    /\ handler = None
    /\ pending = NoWakes
    /\ running = FALSE /\ scheduled = FALSE
    /\ timer = FALSE
    /\ batch = [b \in Batches |-> NoBatch]
    /\ overlapped = FALSE

Wanted(wakes) == {t \in Targets : wakes[t] # None}
UnderWay(b) == batch[b].by # None

-----------------------------------------------------------------------------
\* Mutant: the newest request wins whatever its priority.
Queued_Newest(P, t, reason) == [P EXCEPT ![t] = reason]

\* queuePendingWakeReason: a request replaces one of the same or a lower priority.
Queued(P, t, reason) ==
    IF P[t] = None \/ Priority[reason] >= Priority[P[t]] THEN [P EXCEPT ![t] = reason] ELSE P

\* The same for every wake of a batch.
Requeued(P, wakes) ==
    [t \in Targets |-> IF wakes[t] = None THEN P[t] ELSE Queued(P, t, wakes[t])[t]]

\* schedule: one timer is armed, the old one or a new one.
Schedule == timer' = TRUE

\* requestHeartbeatNow
RequestHeartbeatNow(t, reason) ==
    /\ pending' = Queued(pending, t, reason)
    /\ Schedule
    /\ UNCHANGED <<handler, running, scheduled, batch, overlapped>>

-----------------------------------------------------------------------------
\* The finally block of a batch, with pending wakes P; armed: its retry timer is.
BatchEnds(b, P, armed) ==
    /\ batch' = [batch EXCEPT ![b] = NoBatch]
    /\ running' = FALSE
    /\ timer' = (armed \/ Wanted(P) # {} \/ scheduled)

\* The timer fires: without a handler or while a batch runs nothing is taken.
TimerFindsNoHandler ==
    /\ timer /\ handler = None
    /\ timer' = FALSE
    /\ scheduled' = FALSE
    /\ UNCHANGED <<handler, pending, running, batch, overlapped>>

TimerFindsBatchRunning ==
    /\ timer /\ handler # None /\ running
    /\ scheduled' = TRUE
    /\ UNCHANGED <<handler, pending, running, timer, batch, overlapped>>

TimerFindsNothing ==
    /\ timer /\ handler # None /\ ~running
    /\ Wanted(pending) = {}
    /\ timer' = FALSE
    /\ scheduled' = FALSE
    /\ UNCHANGED <<handler, pending, running, batch, overlapped>>

\* Mutant: `running` is not looked at.
BatchStarts_Anyway(b, t) ==
    /\ timer /\ handler # None
    /\ ~UnderWay(b) /\ t \in Wanted(pending)
    /\ batch' = [batch EXCEPT ![b] = [by |-> handler, wakes |-> pending, left |-> Wanted(pending) \ {t},
                                      calling |-> t]]
    /\ pending' = NoWakes
    /\ running' = TRUE /\ scheduled' = FALSE
    /\ timer' = FALSE
    /\ UNCHANGED <<handler, overlapped>>

\* The timer fires and a batch takes all pending wakes; it calls the handler for one.
BatchStarts(b, t) ==
    /\ timer /\ handler # None /\ ~running
    /\ ~UnderWay(b) /\ t \in Wanted(pending)
    /\ batch' = [batch EXCEPT ![b] = [by |-> handler, wakes |-> pending, left |-> Wanted(pending) \ {t},
                                      calling |-> t]]
    /\ pending' = NoWakes
    /\ running' = TRUE /\ scheduled' = FALSE
    /\ timer' = FALSE
    /\ UNCHANGED <<handler, overlapped>>

\* The loop of batch B goes on with the wake for t.
NextCall(B, t) == [by |-> B.by, wakes |-> B.wakes, left |-> B.left \ {t}, calling |-> t]

\* The loop goes on with pending wakes P: the next call, or the end of the batch.
Continues(b, P, armed) ==
    /\ pending' = P
    /\ \/ \E t \in batch[b].left :
            /\ batch' = [batch EXCEPT ![b] = NextCall(@, t)]
            /\ timer' = armed
            /\ UNCHANGED running
       \/ batch[b].left = {} /\ BatchEnds(b, P, armed)
    /\ UNCHANGED <<handler, scheduled, overlapped>>

\* The handler ran, failed, or skipped for good.
HandlerAnswers(b) ==
    /\ UnderWay(b)
    /\ Continues(b, pending, timer)

\* Mutant: the wake is put back, but no timer is armed for it, and the batch does
\* not look at what is pending when it ends.
HandlerIsBusy_NoRetry(b) ==
    LET t == batch[b].calling IN
    /\ UnderWay(b)
    /\ pending' = Queued(pending, t, batch[b].wakes[t])
    /\ \/ \E u \in batch[b].left : batch' = [batch EXCEPT ![b] = NextCall(@, u)]
                                   /\ UNCHANGED running
       \/ batch[b].left = {} /\ batch' = [batch EXCEPT ![b] = NoBatch] /\ running' = FALSE
    /\ UNCHANGED <<handler, scheduled, timer, overlapped>>

\* "requests-in-flight": this wake is put back, with the retry cooldown.
HandlerIsBusy(b) ==
    LET t == batch[b].calling IN
    /\ UnderWay(b)
    /\ Continues(b, Queued(pending, t, batch[b].wakes[t]), TRUE)

\* The handler throws: the whole batch is put back, also what was already handled.
HandlerThrows(b) ==
    /\ UnderWay(b)
    /\ pending' = Requeued(pending, batch[b].wakes)
    /\ BatchEnds(b, pending', TRUE)
    /\ UNCHANGED <<handler, scheduled, overlapped>>

\* setHeartbeatWakeHandler: the layer starts afresh, pending wakes are kept.
SetHandler(h) ==
    /\ handler' = h
    /\ timer' = (Wanted(pending) # {})
    /\ running' = FALSE /\ scheduled' = FALSE
    /\ overlapped' = (overlapped \/ \E b \in Batches : UnderWay(b))
    /\ UNCHANGED <<pending, batch>>

\* The disposer of registration h does nothing once another one has replaced it.
DisposeHandler(h) ==
    /\ handler' = IF handler = h THEN None ELSE handler
    /\ UNCHANGED <<pending, running, scheduled, timer, batch, overlapped>>

-----------------------------------------------------------------------------
(*                               Properties                                *)

WakeTypeOK ==
    /\ handler \in Handlers \cup {None}
    /\ pending \in [Targets -> Reasons \cup {None}]
    /\ {running, scheduled, timer, overlapped} \subseteq BOOLEAN
    /\ \A b \in Batches :
         /\ batch[b].by \in Handlers \cup {None}
         /\ UnderWay(b) => batch[b].calling \in Wanted(batch[b].wakes) \ batch[b].left
         /\ batch[b].left \subseteq Wanted(batch[b].wakes)

\* While a handler is registered a pending wake is not forgotten: a timer is armed
\* or a batch is running that will arm one, through every request, retry, error,
\* stale batch and change of the handler.
PendingIsScheduled ==
    Wanted(pending) # {} /\ handler # None => timer \/ running

\* A handler is not called by two batches at once, unless a batch of an earlier
\* handler was cut off by a registration (its end clears the flag of its successor).
OneBatchAtATime ==
    ~overlapped => Cardinality({b \in Batches : UnderWay(b)}) <= 1

\* A wake leaves the pending ones only in a batch that has taken it with its reason;
\* until then coalescing, retries, errors and new handlers can only raise it.
RequestsAreKept ==
    [][\A t \in Wanted(pending) :
         \/ pending'[t] # None /\ Priority[pending'[t]] >= Priority[pending[t]]
         \/ \E b \in Batches : ~UnderWay(b) /\ batch'[b].by = handler
                               /\ batch'[b].wakes[t] = pending[t]]_pending

=============================================================================
