---------------------------- MODULE HeartbeatProofs ----------------------------
(***************************************************************************)
(* Proofs about the wake layer and the heartbeat runner on top of it, for   *)
(* any number of targets, reasons, handlers and batches.                    *)
(*                                                                         *)
(* The first half is about the wake layer alone (WakeInv); the second half  *)
(* adds the runner, whose interval timer is armed again only by the run it  *)
(* has asked for.                                                           *)
(***************************************************************************)
EXTENDS HeartbeatRunner, FiniteSetTheorems, TLAPS

-----------------------------------------------------------------------------
(* The inductive invariant.                                                 *)

Wakes == [Targets -> Reasons \cup {None}]
Batch == [by : Handlers \cup {None}, wakes : Wakes, left : SUBSET Targets,
          calling : Targets \cup {None}]

\* A batch under way calls the handler for a wake it has taken and not yet answered.
BatchSound(B) ==
    /\ B.left \subseteq Wanted(B.wakes)
    /\ B.by # None => B.calling \in Wanted(B.wakes) \ B.left

WakeTypes ==
    /\ handler \in Handlers \cup {None}
    /\ pending \in Wakes
    /\ running \in BOOLEAN /\ scheduled \in BOOLEAN /\ timer \in BOOLEAN /\ overlapped \in BOOLEAN
    /\ batch \in [Batches -> Batch]
    /\ \A b \in Batches : BatchSound(batch[b])

\* Without a registration in between, the flag tells whether a batch is under way.
RunningBatch ==
    ~overlapped => \A b \in Batches : UnderWay(b) =>
                      running /\ \A c \in Batches : UnderWay(c) => c = b

WakeInv == WakeTypes /\ PendingIsScheduled /\ RunningBatch

RunnerTypes ==
    /\ enabled \in BOOLEAN
    /\ stopped \subseteq started /\ started \subseteq Handlers
    /\ agents \subseteq started \ stopped
    /\ tick \subseteq agents /\ unarmed \subseteq agents
    /\ refused \subseteq Batches
    /\ \A b \in refused : UnderWay(b)

\* Only a runner that is not stopped has its handler registered.
HandlerIsOfRunner == handler # None => handler \in started \ stopped

\* A call for everybody that was refused arms nothing; any other one does.
AnswersAll(B, isRefused) == All \in B.left \/ (B.calling = All /\ ~isRefused)

WillRun(h) ==
    \/ h \in tick
    \/ pending[All] # None
    \/ \E b \in Batches : batch[b].by = h /\ AnswersAll(batch[b], b \in refused)

StaysArmed == \A h \in agents \ unarmed : handler = h => WillRun(h)

IInv == WakeInv /\ RunnerTypes /\ HandlerIsOfRunner /\ StaysArmed

-----------------------------------------------------------------------------
(* Coalescing.                                                              *)

\* A request makes its target wanted, and no wake is lowered or lost by it.
LEMMA QueuedFacts ==
    ASSUME NEW P \in Wakes, NEW t \in Targets, NEW reason \in Reasons
    PROVE  /\ Queued(P, t, reason) \in Wakes
           /\ Queued(P, t, reason)[t] # None
           /\ \A u \in Targets : P[u] # None =>
                /\ Queued(P, t, reason)[u] # None
                /\ Priority[Queued(P, t, reason)[u]] >= Priority[P[u]]
  <1> USE WakeAssumption DEF Wakes
  <1>1. \A u \in Targets : P[u] # None => P[u] \in Reasons /\ Priority[P[u]] \in Nat
    OBVIOUS
  <1>2. reason # None /\ Priority[reason] \in Nat
    OBVIOUS
  <1>3. CASE P[t] = None \/ Priority[reason] >= Priority[P[t]]
    <2>1. Queued(P, t, reason) = [P EXCEPT ![t] = reason]
      BY <1>3 DEF Queued
    <2>2. \A u \in Targets : [P EXCEPT ![t] = reason][u] = IF u = t THEN reason ELSE P[u]
      OBVIOUS
    <2> QED
      BY <1>1, <1>2, <1>3, <2>1, <2>2
  <1>4. CASE ~(P[t] = None \/ Priority[reason] >= Priority[P[t]])
    <2>1. Queued(P, t, reason) = P
      BY <1>4 DEF Queued
    <2> QED
      BY <1>1, <1>4, <2>1
  <1> QED
    BY <1>3, <1>4

\* The same when a whole batch is put back.
LEMMA RequeuedFacts ==
    ASSUME NEW P \in Wakes, NEW W \in Wakes
    PROVE  /\ Requeued(P, W) \in Wakes
           /\ \A u \in Targets : W[u] # None => Requeued(P, W)[u] # None
           /\ \A u \in Targets : P[u] # None =>
                /\ Requeued(P, W)[u] # None
                /\ Priority[Requeued(P, W)[u]] >= Priority[P[u]]
  <1>1. \A u \in Targets : P[u] \in Reasons \cup {None} /\ W[u] \in Reasons \cup {None}
    BY DEF Wakes
  <1>2. \A u \in Targets : Requeued(P, W)[u] = IF W[u] = None THEN P[u] ELSE Queued(P, u, W[u])[u]
    BY DEF Requeued
  <1>3. \A u \in Targets : P[u] # None => Priority[P[u]] \in Nat
    BY <1>1, WakeAssumption
  <1>4. ASSUME NEW u \in Targets
        PROVE  /\ Requeued(P, W)[u] \in Reasons \cup {None}
               /\ W[u] # None => Requeued(P, W)[u] # None
               /\ P[u] # None => /\ Requeued(P, W)[u] # None
                                 /\ Priority[Requeued(P, W)[u]] >= Priority[P[u]]
    <2>1. CASE W[u] = None
      BY <1>1, <1>2, <1>3, <2>1
    <2>2. CASE W[u] # None
      <3>1. W[u] \in Reasons
        BY <1>1, <2>2
      <3>2. Queued(P, u, W[u]) \in Wakes
        BY <3>1, QueuedFacts
      <3>3. Queued(P, u, W[u])[u] \in Reasons \cup {None}
        BY <3>2 DEF Wakes
      <3> QED
        BY <1>2, <2>2, <3>1, <3>3, QueuedFacts
    <2> QED
      BY <2>1, <2>2
  <1>5. Requeued(P, W) \in Wakes
    BY <1>4 DEF Requeued, Wakes
  <1> QED
    BY <1>4, <1>5

-----------------------------------------------------------------------------
(* A step of a batch.                                                       *)

\* Batch b, now B, goes on to its next call or is over (C).
GoesOn(B, C) ==
    \/ \E t \in B.left : C = NextCall(B, t)
    \/ B.left = {} /\ C = NoBatch

Ends(b) == batch'[b] = NoBatch
OthersStay(b) == \A c \in Batches \ {b} : batch'[c] = batch[c]

\* Nothing is taken by nobody.
LEMMA NoBatchFacts ==
    /\ NoBatch \in Batch /\ BatchSound(NoBatch) /\ NoBatch.by = None
    /\ NoBatch.left = {} /\ NoBatch.calling = None
  BY DEF NoBatch, NoWakes, Batch, Wakes, BatchSound

\* A batch that goes on is sound.
LEMMA GoesOnFacts ==
    ASSUME NEW B \in Batch, BatchSound(B), B.by # None, NEW C, GoesOn(B, C)
    PROVE  C \in Batch /\ BatchSound(C)
  <1>1. CASE B.left = {} /\ C = NoBatch
    BY <1>1, NoBatchFacts
  <1>2. ASSUME NEW t \in B.left,
               C = NextCall(B, t)
        PROVE  C \in Batch /\ BatchSound(C)
    <2>1. /\ B.by \in Handlers \cup {None} /\ B.wakes \in Wakes /\ B.left \in SUBSET Targets
      BY DEF Batch
    <2>2. C.by = B.by /\ C.wakes = B.wakes /\ C.left = B.left \ {t} /\ C.calling = t
      BY <1>2 DEF NextCall
    <2>3. C \in Batch
      BY <1>2, <2>1 DEF Batch, NextCall
    <2>4. BatchSound(C)
      BY <2>2 DEF BatchSound
    <2> QED
      BY <2>3, <2>4
  <1> QED
    BY <1>1, <1>2 DEF GoesOn

\* The loop of a batch: where it goes on its flag stays, where it ends a timer is armed
\* for whatever is pending.
LEMMA ContinuesFacts ==
    ASSUME WakeTypes, NEW b \in Batches, UnderWay(b), NEW P \in Wakes, NEW armed \in BOOLEAN,
           Continues(b, P, armed)
    PROVE  /\ batch' \in [Batches -> Batch] /\ OthersStay(b) /\ GoesOn(batch[b], batch'[b])
           /\ BatchSound(batch'[b])
           /\ IF Ends(b) THEN running' = FALSE /\ timer' = (armed \/ Wanted(P) # {} \/ scheduled)
              ELSE running' = running /\ timer' = armed
           /\ pending' = P /\ UNCHANGED <<handler, scheduled, overlapped>>
           /\ batch'[b].by \in {batch[b].by, None}
  <1> DEFINE B == batch[b]
  <1>1. batch \in [Batches -> Batch] /\ B \in Batch /\ BatchSound(B) /\ B.by # None
    BY DEF WakeTypes, UnderWay
  <1>2. pending' = P /\ UNCHANGED <<handler, scheduled, overlapped>>
    BY DEF Continues
  <1>3. ASSUME NEW t \in B.left, batch' = [batch EXCEPT ![b] = NextCall(B, t)]
        PROVE  GoesOn(B, batch'[b]) /\ ~Ends(b) /\ batch'[b].by = B.by
    <2>1. batch'[b] = NextCall(B, t)
      BY <1>1, <1>3
    <2>2. batch'[b].by = B.by
      BY <2>1 DEF NextCall
    <2> QED
      BY <1>1, <2>1, <2>2, NoBatchFacts DEF GoesOn, Ends
  <1>4. ASSUME B.left = {}, batch' = [batch EXCEPT ![b] = NoBatch]
        PROVE  GoesOn(B, batch'[b]) /\ Ends(b) /\ batch'[b].by = None
    BY <1>1, <1>4, NoBatchFacts DEF GoesOn, Ends
  <1>5. \/ \E t \in B.left : /\ batch' = [batch EXCEPT ![b] = NextCall(B, t)]
                             /\ timer' = armed /\ running' = running
        \/ /\ B.left = {} /\ batch' = [batch EXCEPT ![b] = NoBatch]
           /\ running' = FALSE /\ timer' = (armed \/ Wanted(P) # {} \/ scheduled)
    BY DEF Continues, BatchEnds
  <1>6. GoesOn(B, batch'[b]) /\ batch'[b].by \in {B.by, None}
    BY <1>3, <1>4, <1>5
  <1>7. batch'[b] \in Batch /\ BatchSound(batch'[b])
    BY <1>1, <1>6, GoesOnFacts
  <1>8. OthersStay(b) /\ batch' \in [Batches -> Batch]
    <2>1. \E C : batch' = [batch EXCEPT ![b] = C]
      BY <1>5
    <2> QED
      BY <1>1, <1>7, <2>1 DEF OthersStay
  <1>9. IF Ends(b) THEN running' = FALSE /\ timer' = (armed \/ Wanted(P) # {} \/ scheduled)
        ELSE running' = running /\ timer' = armed
    BY <1>3, <1>4, <1>5
  <1> QED
    BY <1>2, <1>6, <1>7, <1>8, <1>9

-----------------------------------------------------------------------------
(* The wake layer.                                                          *)

\* A request, a timer that finds nothing to do, and what happens to handlers.
LEMMA WakeKeeps ==
    ASSUME WakeInv,
           \/ \E t \in Targets, reason \in Reasons : RequestHeartbeatNow(t, reason)
           \/ TimerFindsNoHandler \/ TimerFindsBatchRunning \/ TimerFindsNothing
           \/ \E h \in Handlers : SetHandler(h) \/ DisposeHandler(h)
           \/ UNCHANGED wakeVars
    PROVE  WakeInv' /\ batch' = batch
  <1> USE DEF WakeInv
  <1>1. batch' = batch
    BY DEF RequestHeartbeatNow, TimerFindsNoHandler, TimerFindsBatchRunning, TimerFindsNothing,
           SetHandler, DisposeHandler, wakeVars
  <1>2. ASSUME NEW t \in Targets, NEW reason \in Reasons, RequestHeartbeatNow(t, reason)
        PROVE  WakeInv'
    <2>1. /\ pending' = Queued(pending, t, reason) /\ timer' = TRUE
          /\ UNCHANGED <<handler, running, scheduled, batch, overlapped>>
      BY <1>2 DEF RequestHeartbeatNow, Schedule
    <2>2. pending' \in Wakes
      BY <2>1, QueuedFacts DEF WakeTypes
    <2> QED
      BY <2>1, <2>2 DEF WakeTypes, PendingIsScheduled, RunningBatch, UnderWay
  <1>3. ASSUME TimerFindsNoHandler \/ TimerFindsBatchRunning \/ TimerFindsNothing
        PROVE  WakeInv'
    <2>1. /\ UNCHANGED <<handler, pending, running, batch, overlapped>>
          /\ timer' \in BOOLEAN /\ scheduled' \in BOOLEAN
          /\ handler = None \/ running \/ Wanted(pending) = {}
      BY <1>3 DEF TimerFindsNoHandler, TimerFindsBatchRunning, TimerFindsNothing, WakeTypes
    <2> QED
      BY <2>1 DEF WakeTypes, PendingIsScheduled, RunningBatch, UnderWay
  <1>4. ASSUME NEW h \in Handlers, SetHandler(h)
        PROVE  WakeInv'
    <2>1. /\ handler' = h /\ timer' = (Wanted(pending) # {}) /\ running' = FALSE /\ scheduled' = FALSE
          /\ overlapped' = (overlapped \/ \E b \in Batches : UnderWay(b))
          /\ UNCHANGED <<pending, batch>>
      BY <1>4 DEF SetHandler
    <2>2. WakeTypes'
      BY <2>1 DEF WakeTypes
    <2>3. PendingIsScheduled' /\ RunningBatch'
      BY <2>1 DEF PendingIsScheduled, RunningBatch, UnderWay
    <2> QED
      BY <2>2, <2>3
  <1>5. ASSUME NEW h \in Handlers, DisposeHandler(h)
        PROVE  WakeInv'
    <2>1. /\ handler' \in {handler, None}
          /\ UNCHANGED <<pending, running, scheduled, timer, batch, overlapped>>
      BY <1>5 DEF DisposeHandler
    <2> QED
      BY <2>1 DEF WakeTypes, PendingIsScheduled, RunningBatch, UnderWay
  <1>6. ASSUME UNCHANGED wakeVars
        PROVE  WakeInv'
    BY <1>6 DEF wakeVars, WakeTypes, PendingIsScheduled, RunningBatch, UnderWay
  <1> QED
    BY <1>1, <1>2, <1>3, <1>4, <1>5, <1>6

\* A batch starts: nothing else is running, so it is the only one.
LEMMA StartKeeps ==
    ASSUME WakeInv, NEW b \in Batches, NEW t \in Targets, BatchStarts(b, t)
    PROVE  /\ WakeInv' /\ OthersStay(b) /\ ~UnderWay(b) /\ UNCHANGED <<handler, overlapped>>
           /\ batch'[b].by = handler /\ handler # None /\ batch'[b].wakes = pending
           /\ batch'[b].calling = t /\ batch'[b].left = Wanted(pending) \ {t}
  <1> DEFINE C == [by |-> handler, wakes |-> pending, left |-> Wanted(pending) \ {t}, calling |-> t]
  <1>1. /\ handler # None /\ ~running /\ ~UnderWay(b) /\ t \in Wanted(pending)
        /\ batch' = [batch EXCEPT ![b] = C] /\ pending' = NoWakes
        /\ running' = TRUE /\ scheduled' = FALSE /\ timer' = FALSE /\ UNCHANGED <<handler, overlapped>>
    BY DEF BatchStarts
  <1>2. C \in Batch /\ BatchSound(C)
    <2>1. handler \in Handlers \cup {None} /\ pending \in Wakes /\ Wanted(pending) \subseteq Targets
      BY DEF WakeInv, WakeTypes, Wanted
    <2> QED
      BY <1>1, <2>1 DEF Batch, BatchSound
  <1>3. C.by = handler /\ C.wakes = pending /\ C.calling = t /\ C.left = Wanted(pending) \ {t}
    OBVIOUS
  <1> HIDE DEF C
  <1>4. batch'[b] = C /\ OthersStay(b) /\ batch' \in [Batches -> Batch]
    BY <1>1, <1>2 DEF WakeInv, WakeTypes, OthersStay
  <1>5. pending' \in Wakes /\ Wanted(pending') = {}
    BY <1>1 DEF NoWakes, Wakes, Wanted
  <1>6. WakeTypes'
    BY <1>1, <1>2, <1>4, <1>5 DEF WakeInv, WakeTypes, OthersStay
  <1>7. PendingIsScheduled'
    BY <1>1 DEF PendingIsScheduled
  <1>8. RunningBatch'
    <2>1. ~overlapped => \A c \in Batches : ~UnderWay(c)
      BY <1>1 DEF WakeInv, RunningBatch
    <2>2. ~overlapped => \A c \in Batches \ {b} : batch'[c].by = None
      BY <1>4, <2>1 DEF OthersStay, UnderWay
    <2> QED
      BY <1>1, <2>2 DEF RunningBatch, UnderWay
  <1> QED
    BY <1>1, <1>3, <1>4, <1>6, <1>7, <1>8 DEF WakeInv

\* What a batch does after its call, with pending wakes P: the loop goes on, or it ends.
\* If something is to be retried, its timer is armed.
LEMMA LoopKeeps ==
    ASSUME WakeInv, NEW b \in Batches, UnderWay(b), NEW P \in Wakes, NEW armed \in BOOLEAN,
           Continues(b, P, armed), armed \/ (P = pending /\ armed = timer)
    PROVE  WakeInv'
  <1>1. /\ batch' \in [Batches -> Batch] /\ OthersStay(b) /\ BatchSound(batch'[b])
        /\ IF Ends(b) THEN running' = FALSE /\ timer' = (armed \/ Wanted(P) # {} \/ scheduled)
           ELSE running' = running /\ timer' = armed
        /\ pending' = P /\ UNCHANGED <<handler, scheduled, overlapped>>
        /\ batch'[b].by \in {batch[b].by, None}
    BY ContinuesFacts DEF WakeInv
  <1>2. WakeTypes'
    BY <1>1 DEF WakeInv, WakeTypes, OthersStay
  <1>3. PendingIsScheduled'
    BY <1>1 DEF WakeInv, PendingIsScheduled
  <1>4. RunningBatch'
    <2>1. Ends(b) => ~UnderWay(b)'
      BY NoBatchFacts DEF Ends, UnderWay
    <2>2. \A c \in Batches : UnderWay(c)' => UnderWay(c)
      BY <1>1 DEF OthersStay, UnderWay
    <2>3. ~overlapped => running /\ \A c \in Batches : UnderWay(c) => c = b
      BY DEF WakeInv, RunningBatch
    <2> QED
      BY <1>1, <2>1, <2>2, <2>3 DEF RunningBatch
  <1> QED
    BY <1>2, <1>3, <1>4 DEF WakeInv

\* The handler throws: its batch ends, and is put back.
LEMMA ThrowKeeps ==
    ASSUME WakeInv, NEW b \in Batches, HandlerThrows(b)
    PROVE  /\ WakeInv' /\ OthersStay(b) /\ Ends(b) /\ UNCHANGED <<handler, overlapped>>
           /\ pending' = Requeued(pending, batch[b].wakes) /\ batch[b].wakes \in Wakes
  <1>1. /\ UnderWay(b) /\ pending' = Requeued(pending, batch[b].wakes)
        /\ batch' = [batch EXCEPT ![b] = NoBatch] /\ running' = FALSE
        /\ timer' = TRUE /\ UNCHANGED <<handler, scheduled, overlapped>>
    BY DEF HandlerThrows, BatchEnds
  <1>2. batch \in [Batches -> Batch] /\ pending \in Wakes
    BY DEF WakeInv, WakeTypes
  <1>3. batch'[b] = NoBatch /\ OthersStay(b) /\ batch' \in [Batches -> Batch]
    BY <1>1, <1>2, NoBatchFacts DEF OthersStay
  <1>4. batch[b].wakes \in Wakes /\ pending' \in Wakes
    BY <1>1, <1>2, RequeuedFacts DEF Batch
  <1>5. WakeTypes'
    BY <1>1, <1>3, <1>4, NoBatchFacts DEF WakeInv, WakeTypes, OthersStay
  <1>6. PendingIsScheduled'
    BY <1>1 DEF PendingIsScheduled
  <1>7. RunningBatch'
    <2>1. ~overlapped => \A c \in Batches : UnderWay(c) => c = b
      BY <1>1 DEF WakeInv, RunningBatch
    <2>2. ~overlapped => \A c \in Batches : batch'[c].by = None
      BY <1>3, <2>1, NoBatchFacts DEF OthersStay, UnderWay
    <2> QED
      BY <1>1, <2>2 DEF RunningBatch, UnderWay
  <1> QED
    BY <1>1, <1>3, <1>4, <1>5, <1>6, <1>7 DEF WakeInv, Ends

-----------------------------------------------------------------------------
(* The runner.                                                              *)

\* The bookkeeping of a call: a call for everybody that is refused leaves its runner
\* unarmed, unless the interval timer is armed in the same step.
LEMMA CallsOfFacts ==
    ASSUME RunnerTypes, NEW b \in Batches, CallsOf(b), tick' \subseteq agents, agents' = agents
    PROVE  /\ \A c \in Batches \ {b} : c \in refused' <=> c \in refused
           /\ b \in refused' => UnderWay(b)'
           /\ refused' \subseteq Batches /\ unarmed' \subseteq agents
           /\ \A h \in agents : h \notin unarmed' => h \notin unarmed \/ h \in tick'
           /\ \A h \in agents : /\ b \in refused'
                                /\ batch'[b].by = h
                                /\ batch'[b].calling = All
                                => h \in unarmed' \cup tick'
  BY DEF CallsOf, RunnerTypes, UnderWay

\* A step of batch b (its start, an answer, an error) keeps the runner's part if it only
\* stops answering for everybody where it leaves the timer, a pending wake or a mark.
LEMMA BatchStepKeeps ==
    ASSUME WakeInv, WakeInv', RunnerTypes, HandlerIsOfRunner, StaysArmed,
           NEW b \in Batches, OthersStay(b), handler' = handler,
           UNCHANGED <<enabled, started, stopped, agents>>, tick' \subseteq agents,
           \/ CallsOf(b)
           \/ UNCHANGED <<refused, unarmed>> /\ b \notin refused,
           \A h \in agents : (h \in tick /\ handler = h) => h \in tick' \/ WillRun(h)',
           \A h \in agents : handler = h /\ pending[All] # None => WillRun(h)' \/ h \in unarmed',
           \A h \in agents : /\ handler = h
                             /\ batch[b].by = h
                             /\ AnswersAll(batch[b], b \in refused)
                             => WillRun(h)' \/ h \in unarmed'
    PROVE  IInv'
  <1>1. /\ \A c \in Batches \ {b} : c \in refused' <=> c \in refused
        /\ b \in refused' => UnderWay(b)'
        /\ refused' \subseteq Batches /\ unarmed' \subseteq agents
        /\ \A h \in agents : h \notin unarmed' => h \notin unarmed \/ h \in tick'
    BY CallsOfFacts DEF RunnerTypes
  <1>2. RunnerTypes'
    <2>1. \A c \in refused' : UnderWay(c)'
      BY <1>1 DEF RunnerTypes, UnderWay, OthersStay
    <2> QED
      BY <1>1, <2>1 DEF RunnerTypes
  <1>3. HandlerIsOfRunner'
    BY DEF HandlerIsOfRunner
  <1>4. StaysArmed'
    <2> SUFFICES ASSUME NEW h \in agents, h \notin unarmed', handler = h
                 PROVE  WillRun(h)'
      BY DEF StaysArmed
    <2>1. CASE h \in tick'
      BY <2>1 DEF WillRun
    <2>2. CASE h \notin tick'
      <3>1. WillRun(h)
        BY <1>1, <2>2 DEF StaysArmed
      <3>2. CASE h \in tick
        BY <2>2, <3>2
      <3>3. CASE pending[All] # None
        BY <3>3
      <3>4. ASSUME NEW c \in Batches, batch[c].by = h, AnswersAll(batch[c], c \in refused)
            PROVE  WillRun(h)'
        <4>1. CASE c = b
          BY <3>4, <4>1
        <4>2. CASE c # b
          <5>1. batch'[c] = batch[c] /\ (c \in refused' <=> c \in refused)
            BY <1>1, <4>2 DEF OthersStay
          <5> QED
            BY <3>4, <5>1 DEF WillRun, AnswersAll
        <4> QED
          BY <4>1, <4>2
      <3> QED
        BY <3>1, <3>2, <3>3, <3>4 DEF WillRun
    <2> QED
      BY <2>1, <2>2
  <1> QED
    BY <1>2, <1>3, <1>4 DEF IInv

\* A new call of batch b for everybody counts, or its refusal is marked.
LEMMA NewCall ==
    ASSUME RunnerTypes, NEW b \in Batches, CallsOf(b), tick' \subseteq agents, agents' = agents,
           NEW h \in agents, batch'[b].by = h, All \in batch'[b].left \cup {batch'[b].calling}
    PROVE  WillRun(h)' \/ h \in unarmed'
  <1>1. CASE All \in batch'[b].left
    BY <1>1 DEF WillRun, AnswersAll
  <1>2. CASE batch'[b].calling = All /\ b \in refused'
    <2>1. h \in unarmed' \cup tick'
      BY <1>2, CallsOfFacts
    <2> QED
      BY <2>1 DEF WillRun
  <1>3. CASE batch'[b].calling = All /\ b \notin refused'
    BY <1>3 DEF WillRun, AnswersAll
  <1> QED
    BY <1>1, <1>2, <1>3

\* What a batch has still before it is in its next call or still before it then.
LEMMA LeftGoesOn ==
    ASSUME NEW B, NEW C, GoesOn(B, C), NEW t \in B.left
    PROVE  C.by = B.by /\ t \in C.left \cup {C.calling}
  BY DEF GoesOn, NextCall

\* The timer fires.
LEMMA TimerFiresKeeps ==
    ASSUME IInv, TimerFires
    PROVE  IInv'
  <1>1. CASE /\ TimerFindsNoHandler \/ TimerFindsBatchRunning \/ TimerFindsNothing
             /\ UNCHANGED <<runnerVars, refused>>
    <2>1. WakeInv' /\ batch' = batch /\ handler' = handler /\ pending' = pending
      BY <1>1, WakeKeeps DEF IInv, TimerFindsNoHandler, TimerFindsBatchRunning, TimerFindsNothing
    <2>2. RunnerTypes' /\ HandlerIsOfRunner'
      BY <1>1, <2>1 DEF IInv, RunnerTypes, HandlerIsOfRunner, runnerVars, UnderWay
    <2>3. StaysArmed'
      BY <1>1, <2>1 DEF IInv, StaysArmed, WillRun, runnerVars
    <2> QED
      BY <2>1, <2>2, <2>3 DEF IInv
  <1>2. ASSUME NEW b \in Batches, NEW t \in Targets, BatchStarts(b, t),
               UNCHANGED <<enabled, started, stopped, agents, tick>>, CallsOf(b)
        PROVE  IInv'
    <2>1. /\ WakeInv' /\ OthersStay(b) /\ ~UnderWay(b) /\ handler' = handler
          /\ batch'[b].by = handler /\ handler # None
          /\ batch'[b].calling = t /\ batch'[b].left = Wanted(pending) \ {t}
      BY <1>2, StartKeeps DEF IInv
    <2>2. tick' \subseteq agents /\ agents' = agents
      BY <1>2 DEF IInv, RunnerTypes
    <2>3. \A h \in agents : handler = h /\ pending[All] # None => WillRun(h)' \/ h \in unarmed'
      <3> SUFFICES ASSUME NEW h \in agents, handler = h, pending[All] # None
                   PROVE  WillRun(h)' \/ h \in unarmed'
        OBVIOUS
      <3>1. All \in batch'[b].left \cup {batch'[b].calling}
        BY <2>1, RunnerAssumption DEF Wanted
      <3> QED
        BY <1>2, <2>1, <2>2, <3>1, NewCall DEF IInv
    <2>4. \A h \in agents : handler = h => batch[b].by # h
      BY <2>1 DEF UnderWay
    <2> QED
      BY <1>2, <2>1, <2>2, <2>3, <2>4, BatchStepKeeps DEF IInv
  <1> QED
    BY <1>1, <1>2 DEF TimerFires

\* An answer: the loop of the batch goes on.
LEMMA AnswerKeeps ==
    ASSUME IInv, NEW b \in Batches, RunIsRefused(b) \/ RunEnds(b) \/ RunIsBusy(b)
    PROVE  IInv'
  <1> DEFINE B == batch[b]
  <1>1. UnderWay(b)
    BY DEF RunIsRefused, RunEnds, RunIsBusy, HandlerAnswers, HandlerIsBusy
  <1>2. /\ pending \in Wakes /\ timer \in BOOLEAN /\ B \in Batch /\ BatchSound(B)
        /\ B.by \in Handlers \cup {None} /\ B.by # None
    BY <1>1 DEF IInv, WakeInv, WakeTypes, Batch, UnderWay
  <1>3. B.calling \in Targets /\ B.wakes[B.calling] \in Reasons
    <2>1. B.wakes \in Wakes /\ B.calling \in Wanted(B.wakes)
      BY <1>2 DEF Batch, BatchSound
    <2> QED
      BY <2>1 DEF Wanted, Wakes
  <1>4. PICK P \in Wakes, armed \in BOOLEAN :
           /\ Continues(b, P, armed) /\ (armed \/ (P = pending /\ armed = timer))
           /\ pending[All] # None => P[All] # None
           /\ (RunIsBusy(b) /\ B.calling = All) => P[All] # None
    <2>1. CASE ~RunIsBusy(b)
      BY <1>2, <2>1 DEF RunIsRefused, RunEnds, RunIsBusy, HandlerAnswers
    <2>2. CASE RunIsBusy(b)
      <3> DEFINE P == Queued(pending, B.calling, B.wakes[B.calling])
      <3>1. /\ P \in Wakes /\ P[B.calling] # None
            /\ \A u \in Targets : pending[u] # None => P[u] # None
        BY <1>2, <1>3, QueuedFacts
      <3>2. Continues(b, P, TRUE)
        BY <2>2 DEF RunIsBusy, HandlerIsBusy
      <3> HIDE DEF P
      <3> QED
        BY <3>1, <3>2, RunnerAssumption
    <2> QED
      BY <2>1, <2>2
  <1>5. WakeInv' /\ OthersStay(b) /\ GoesOn(B, batch'[b]) /\ pending' = P /\ handler' = handler
    BY <1>1, <1>4, LoopKeeps, ContinuesFacts DEF IInv, WakeInv
  <1>6. /\ CallsOf(b) /\ UNCHANGED <<enabled, started, stopped, agents>>
        /\ tick' \in {tick \cup {B.by}, tick \ {B.by}, tick}
        /\ B.by \in agents => tick \subseteq tick'
        /\ tick' \subseteq agents
        /\ \/ RunIsRefused(b) /\ b \in refused
           \/ RunIsBusy(b) /\ B.calling = All
           \/ b \notin refused /\ (B.by \in agents => B.by \in tick')
    BY DEF RunIsRefused, RunEnds, RunIsBusy, ScheduleNext, IInv, RunnerTypes
  <1>7. \A h \in agents : (h \in tick /\ handler = h) => h \in tick' \/ WillRun(h)'
    BY <1>6
  <1>8. \A h \in agents : pending[All] # None => WillRun(h)'
    BY <1>4, <1>5 DEF WillRun
  <1>9. ASSUME NEW h \in agents, B.by = h, AnswersAll(B, b \in refused)
        PROVE  WillRun(h)' \/ h \in unarmed'
    <2>1. CASE All \in B.left
      <3>1. batch'[b].by = h /\ All \in batch'[b].left \cup {batch'[b].calling}
        BY <1>5, <1>9, <2>1, LeftGoesOn
      <3> QED
        BY <1>6, <3>1, NewCall DEF IInv
    <2>2. CASE B.calling = All /\ b \notin refused
      <3>1. CASE RunIsBusy(b)
        BY <1>4, <1>5, <2>2, <3>1 DEF WillRun
      <3>2. CASE h \in tick'
        BY <3>2 DEF WillRun
      <3> QED
        BY <1>6, <1>9, <2>2, <3>1, <3>2
    <2> QED
      BY <1>9, <2>1, <2>2 DEF AnswersAll
  <1> QED
    BY <1>5, <1>6, <1>7, <1>8, <1>9, BatchStepKeeps DEF IInv

\* The handler throws: the wake for everybody is pending again.
LEMMA RunThrowsKeeps ==
    ASSUME IInv, NEW b \in Batches, RunThrows(b)
    PROVE  IInv'
  <1> DEFINE B == batch[b]
  <1>1. HandlerThrows(b) /\ b \notin refused /\ UNCHANGED <<runnerVars, refused>> /\ UnderWay(b)
    BY DEF RunThrows, HandlerThrows
  <1>2. /\ WakeInv' /\ OthersStay(b) /\ handler' = handler
        /\ pending' = Requeued(pending, B.wakes) /\ B.wakes \in Wakes
    BY <1>1, ThrowKeeps DEF IInv
  <1>3. pending \in Wakes /\ BatchSound(B) /\ B.by # None
    BY <1>1 DEF IInv, WakeInv, WakeTypes, UnderWay
  <1>4. \A u \in Targets : pending[u] # None \/ B.wakes[u] # None => pending'[u] # None
    BY <1>2, <1>3, RequeuedFacts
  <1>5. \A h \in agents : pending[All] # None => WillRun(h)'
    BY <1>4, RunnerAssumption DEF WillRun
  <1>6. \A h \in agents : AnswersAll(B, b \in refused) => WillRun(h)'
    <2> SUFFICES ASSUME NEW h \in agents, AnswersAll(B, b \in refused) PROVE WillRun(h)'
      OBVIOUS
    <2>1. All \in Wanted(B.wakes)
      BY <1>3 DEF AnswersAll, BatchSound
    <2>2. B.wakes[All] # None
      BY <2>1 DEF Wanted
    <2> QED
      BY <1>4, <2>2, RunnerAssumption DEF WillRun
  <1>7. /\ UNCHANGED <<enabled, started, stopped, agents>> /\ UNCHANGED <<refused, unarmed>>
        /\ tick' = tick /\ tick' \subseteq agents
    BY <1>1 DEF runnerVars, IInv, RunnerTypes
  <1> QED
    BY <1>1, <1>2, <1>5, <1>6, <1>7, BatchStepKeeps DEF IInv

\* A runner is started: it is armed at once.
LEMMA StartRunnerKeeps ==
    ASSUME IInv, NEW h \in Handlers, Start(h)
    PROVE  IInv'
  <1>1. /\ SetHandler(h) /\ handler' = h /\ h \notin started /\ started' = started \cup {h}
        /\ agents' = agents \cup {h} /\ tick' = tick \cup {h}
        /\ UNCHANGED <<enabled, stopped, refused, unarmed>>
    BY DEF Start, SetHandler
  <1>2. WakeInv' /\ batch' = batch
    BY <1>1, WakeKeeps DEF IInv
  <1>3. h \notin stopped
    BY <1>1 DEF IInv, RunnerTypes
  <1>4. RunnerTypes' /\ HandlerIsOfRunner'
    BY <1>1, <1>2, <1>3 DEF IInv, RunnerTypes, HandlerIsOfRunner, UnderWay
  <1>5. StaysArmed'
    BY <1>1 DEF StaysArmed, WillRun
  <1> QED
    BY <1>2, <1>4, <1>5 DEF IInv

\* A runner is stopped: its registration goes with it.
LEMMA StopRunnerKeeps ==
    ASSUME IInv, NEW h \in Handlers, Stop(h)
    PROVE  IInv'
  <1>1. /\ DisposeHandler(h) /\ handler' = IF handler = h THEN None ELSE handler
        /\ pending' = pending
        /\ stopped' = stopped \cup {h} /\ h \in started
        /\ agents' = agents \ {h} /\ tick' = tick \ {h} /\ unarmed' = unarmed \ {h}
        /\ UNCHANGED <<enabled, started, refused>>
    BY DEF Stop, DisposeHandler
  <1>2. WakeInv' /\ batch' = batch
    BY <1>1, WakeKeeps DEF IInv
  <1>3. RunnerTypes' /\ HandlerIsOfRunner'
    BY <1>1, <1>2 DEF IInv, RunnerTypes, HandlerIsOfRunner, UnderWay
  <1>4. StaysArmed'
    <2> SUFFICES ASSUME NEW g \in agents', g \notin unarmed', handler' = g PROVE WillRun(g)'
      BY DEF StaysArmed
    <2>1. g \in agents /\ g \notin unarmed /\ g # h
      BY <1>1
    <2>2. handler = g
      <3>1. g \in Handlers /\ None \notin Handlers
        BY <2>1, WakeAssumption DEF IInv, RunnerTypes
      <3> QED
        BY <1>1, <3>1
    <2>3. WillRun(g)
      BY <2>1, <2>2 DEF IInv, StaysArmed
    <2> QED
      BY <1>1, <1>2, <2>1, <2>3 DEF WillRun
  <1> QED
    BY <1>2, <1>3, <1>4 DEF IInv

\* The agent of the current runner gets or loses its interval, and the timer with it.
LEMMA UpdateConfigKeeps ==
    ASSUME IInv, NEW h \in Handlers, NEW configured \in BOOLEAN, UpdateConfig(h, configured)
    PROVE  IInv'
  <1>1. /\ UNCHANGED wakeVars /\ handler = h /\ handler' = handler /\ unarmed' = unarmed \ {h}
        /\ agents' = IF configured THEN agents \cup {h} ELSE agents \ {h}
        /\ tick' = IF configured THEN tick \cup {h} ELSE tick \ {h}
        /\ UNCHANGED <<enabled, started, stopped, refused>>
    BY DEF UpdateConfig, wakeVars
  <1>2. WakeInv' /\ batch' = batch
    BY <1>1, WakeKeeps DEF IInv
  <1>3. h \in started \ stopped
    BY <1>1, WakeAssumption DEF IInv, HandlerIsOfRunner
  <1>4. RunnerTypes' /\ HandlerIsOfRunner'
    BY <1>1, <1>2, <1>3 DEF IInv, RunnerTypes, HandlerIsOfRunner, UnderWay
  <1>5. StaysArmed'
    BY <1>1 DEF StaysArmed, WillRun
  <1> QED
    BY <1>2, <1>4, <1>5 DEF IInv

\* A request, of the interval timer or of somebody else: what is pending stays pending.
LEMMA RequestKeeps ==
    ASSUME IInv, (\E h \in Handlers : IntervalTimerFires(h))
                 \/ \E t \in Targets, reason \in Reasons : Request(t, reason)
    PROVE  IInv'
  <1>1. PICK t \in Targets, reason \in Reasons :
           /\ RequestHeartbeatNow(t, reason) /\ tick' \subseteq tick
           /\ UNCHANGED <<enabled, started, stopped, agents, refused, unarmed>>
           /\ t = All \/ tick' = tick
    BY RunnerAssumption DEF IntervalTimerFires, Request, runnerVars
  <1>2. WakeInv' /\ batch' = batch
    BY <1>1, WakeKeeps DEF IInv
  <1>3. /\ handler' = handler /\ pending'[t] # None
        /\ \A u \in Targets : pending[u] # None => pending'[u] # None
    BY <1>1, QueuedFacts DEF RequestHeartbeatNow, IInv, WakeInv, WakeTypes
  <1>4. RunnerTypes' /\ HandlerIsOfRunner'
    BY <1>1, <1>2, <1>3 DEF IInv, RunnerTypes, HandlerIsOfRunner, UnderWay
  <1>5. StaysArmed'
    BY <1>1, <1>2, <1>3, RunnerAssumption DEF IInv, StaysArmed, WillRun
  <1> QED
    BY <1>2, <1>4, <1>5 DEF IInv

\* Heartbeats are switched on or off, or nothing happens.
LEMMA SwitchKeeps ==
    ASSUME IInv, SetHeartbeatsEnabled \/ UNCHANGED vars
    PROVE  IInv'
  <1>1. /\ UNCHANGED wakeVars /\ handler' = handler /\ pending' = pending /\ enabled' \in BOOLEAN
        /\ UNCHANGED <<started, stopped, agents, tick, refused, unarmed>>
    BY DEF SetHeartbeatsEnabled, vars, wakeVars, runnerVars, IInv, RunnerTypes
  <1>2. WakeInv' /\ batch' = batch
    BY <1>1, WakeKeeps DEF IInv
  <1>3. RunnerTypes' /\ HandlerIsOfRunner' /\ StaysArmed'
    BY <1>1, <1>2 DEF IInv, RunnerTypes, HandlerIsOfRunner, StaysArmed, WillRun, UnderWay
  <1> QED
    BY <1>2, <1>3 DEF IInv

\* The invariant holds at first ...
LEMMA Initially ==
    ASSUME Init
    PROVE  IInv
  <1>1. NoWakes \in Wakes /\ Wanted(NoWakes) = {} /\ \A b \in Batches : batch[b] = NoBatch
    BY DEF Init, WakeInit, NoWakes, Wakes, Wanted
  <1>2. WakeInv
    BY <1>1, NoBatchFacts
       DEF Init, WakeInit, WakeInv, WakeTypes, PendingIsScheduled, RunningBatch, UnderWay
  <1>3. RunnerTypes /\ HandlerIsOfRunner /\ StaysArmed
    BY DEF Init, WakeInit, RunnerTypes, HandlerIsOfRunner, StaysArmed
  <1> QED
    BY <1>2, <1>3 DEF IInv

\* ... and every step keeps it.
LEMMA Stepwise ==
    ASSUME IInv, [Next]_vars
    PROVE  IInv'
  BY TimerFiresKeeps, AnswerKeeps, RunThrowsKeeps, StartRunnerKeeps, StopRunnerKeeps,
     UpdateConfigKeeps, RequestKeeps, SwitchKeeps DEF Next

-----------------------------------------------------------------------------
(*                                Theorems                                  *)

\* The flags, the timers and the batches are in step in every reachable state.
THEOREM Invariance == Spec => []IInv
  BY Initially, Stepwise, PTL DEF Spec

\* Every variable keeps its range, and only the agents of live runners are armed.
THEOREM TypeCorrect == Spec => []TypeOK
  <1>1. ASSUME IInv PROVE TypeOK
    <2>1. \A b \in Batches : batch[b] \in Batch /\ BatchSound(batch[b])
      BY <1>1 DEF IInv, WakeInv, WakeTypes
    <2>2. WakeTypeOK
      BY <1>1, <2>1 DEF IInv, WakeInv, WakeTypes, WakeTypeOK, Wakes, Batch, BatchSound, UnderWay
    <2> QED
      BY <1>1, <2>2 DEF IInv, RunnerTypes, TypeOK
  <1> QED
    BY <1>1, Invariance, PTL

\* A pending wake is not forgotten while a handler is registered: requests, retries, errors,
\* batches of an earlier handler and changes of the handler leave a timer or a running batch.
THEOREM WakesAreScheduled == Spec => []PendingIsScheduled
  <1>1. IInv => PendingIsScheduled
    BY DEF IInv, WakeInv
  <1> QED
    BY <1>1, Invariance, PTL

\* The handler is called by one batch at a time, unless a registration cut one off.
THEOREM BatchesAreSerial == Spec => []OneBatchAtATime
  <1>1. ASSUME IInv PROVE OneBatchAtATime
    <2> SUFFICES ASSUME ~overlapped PROVE Cardinality({b \in Batches : UnderWay(b)}) <= 1
      BY DEF OneBatchAtATime
    <2>1. CASE \E b \in Batches : UnderWay(b)
      <3>1. PICK b \in Batches : UnderWay(b)
        BY <2>1
      <3>2. {c \in Batches : UnderWay(c)} = {b}
        BY <1>1, <3>1 DEF IInv, WakeInv, RunningBatch
      <3> QED
        BY <3>2, FS_Singleton
    <2>2. CASE ~ \E b \in Batches : UnderWay(b)
      <3>1. {c \in Batches : UnderWay(c)} = {}
        BY <2>2
      <3> QED
        BY <3>1, FS_EmptySet
    <2> QED
      BY <2>1, <2>2
  <1> QED
    BY <1>1, Invariance, PTL

\* The registered runner never loses its interval timer, unless an interval wake came
\* while heartbeats were disabled.
THEOREM RunnerStaysArmed == Spec => []HeartbeatsStayArmed
  <1>1. ASSUME IInv PROVE HeartbeatsStayArmed
    BY <1>1 DEF IInv, StaysArmed, WillRun, AnswersAll, HeartbeatsStayArmed, Armed
  <1> QED
    BY <1>1, Invariance, PTL

\* No request is lost between the timers, the batches and the handlers.
THEOREM NoRequestIsLost == Spec => RequestsAreKept
  <1> DEFINE KeepsRequests ==
        \A t \in Wanted(pending) :
           \/ pending'[t] # None /\ Priority[pending'[t]] >= Priority[pending[t]]
           \/ \E b \in Batches : ~UnderWay(b) /\ batch'[b].by = handler
                                 /\ batch'[b].wakes[t] = pending[t]
  <1>1. ASSUME IInv, [Next]_vars
        PROVE  [KeepsRequests]_pending
    <2>1. pending \in Wakes /\ \A t \in Targets : pending[t] # None => Priority[pending[t]] \in Nat
      BY <1>1, WakeAssumption DEF IInv, WakeInv, WakeTypes, Wakes
    <2>2. ASSUME NEW t \in Targets, NEW reason \in Reasons, pending' = Queued(pending, t, reason)
          PROVE  KeepsRequests
      BY <2>1, <2>2, QueuedFacts DEF Wanted
    <2>3. ASSUME NEW b \in Batches, HandlerThrows(b)
          PROVE  KeepsRequests
      <3>1. pending' = Requeued(pending, batch[b].wakes) /\ batch[b].wakes \in Wakes
        BY <1>1, <2>3, ThrowKeeps DEF IInv
      <3> QED
        BY <2>1, <3>1, RequeuedFacts DEF Wanted
    <2>4. ASSUME NEW b \in Batches, NEW t \in Targets, BatchStarts(b, t)
          PROVE  KeepsRequests
      BY <1>1, <2>4, StartKeeps DEF IInv
    <2>5. ASSUME NEW b \in Batches, RunIsBusy(b)
          PROVE  KeepsRequests
      <3>1. /\ pending' = Queued(pending, batch[b].calling, batch[b].wakes[batch[b].calling])
            /\ batch[b] \in Batch /\ BatchSound(batch[b]) /\ batch[b].by # None
        BY <1>1, <2>5 DEF RunIsBusy, HandlerIsBusy, Continues, IInv, WakeInv, WakeTypes, UnderWay
      <3>2. batch[b].wakes \in Wakes /\ batch[b].calling \in Wanted(batch[b].wakes)
        BY <3>1 DEF Batch, BatchSound
      <3>3. batch[b].calling \in Targets /\ batch[b].wakes[batch[b].calling] \in Reasons
        BY <3>2 DEF Wakes, Wanted
      <3> QED
        BY <2>2, <3>1, <3>3
    <2>6. ASSUME NEW b \in Batches, RunIsRefused(b) \/ RunEnds(b)
          PROVE  pending' = pending
      BY <2>6 DEF RunIsRefused, RunEnds, HandlerAnswers, Continues
    <2>7. ASSUME NEW h \in Handlers, IntervalTimerFires(h)
          PROVE  KeepsRequests
      BY <2>2, <2>7, RunnerAssumption DEF IntervalTimerFires, RequestHeartbeatNow
    <2>8. ASSUME NEW t \in Targets, NEW reason \in Reasons, Request(t, reason)
          PROVE  KeepsRequests
      BY <2>2, <2>8 DEF Request, RequestHeartbeatNow
    <2>9. ASSUME TimerFires
          PROVE  KeepsRequests \/ pending' = pending
      BY <2>4, <2>9 DEF TimerFires, TimerFindsNoHandler, TimerFindsBatchRunning, TimerFindsNothing
    <2>10. ASSUME \/ \E h \in Handlers : \/ Start(h) \/ Stop(h)
                                         \/ \E configured \in BOOLEAN : UpdateConfig(h, configured)
                  \/ SetHeartbeatsEnabled
                  \/ UNCHANGED vars
           PROVE  pending' = pending
      BY <2>10 DEF Start, Stop, UpdateConfig, SetHandler, DisposeHandler, SetHeartbeatsEnabled,
                   vars, wakeVars
    <2> QED
      BY <1>1, <2>3, <2>5, <2>6, <2>7, <2>8, <2>9, <2>10 DEF Next, RunThrows
  <1> QED
    BY <1>1, Invariance, PTL DEF Spec, RequestsAreKept

=============================================================================
