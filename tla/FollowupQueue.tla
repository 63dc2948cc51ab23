--------------------------- MODULE FollowupQueue ---------------------------
(***************************************************************************)
(* The followup queue of one session (src/auto-reply/reply/queue): messages *)
(* that arrive while the agent is busy are queued and drained, one by one   *)
(* or collected into one prompt, when the running turn ends.                *)
(*                                                                         *)
(* A step runs from one await of the drain to the next.  The registry maps  *)
(* the session key to at most one queue object; a queue that was cleared or *)
(* deleted lives on as long as a drain holds it, so objects have identities.*)
(* The flag `draining` is `drain[o].at # "idle"`.  The remembered callbacks  *)
(* only choose between equivalent closures and are left out: the program    *)
(* always enqueues with restartIfIdle = false.                              *)
(*                                                                         *)
(* A member of Messages is one delivery of an inbound message: a provider   *)
(* that redelivers a message makes several with one id.                     *)
(***************************************************************************)
EXTENDS Integers, Sequences, FiniteSets, SequencesExt

CONSTANTS Messages,  \* deliveries of inbound messages
          IdOf,      \* the message id of each, with its routing: the key it is known by
          RouteOf,   \* the routing key of each message
          Unroutable,\* the routing key of a message that cannot be routed back
          Settings,  \* the queue settings a message can arrive with
          Objects,   \* identities of queue objects
          None,      \* no queue object
          MaxClears, \* bound on the number of clearSessionQueues
          MaxForgotten \* bound on the number of ids that expire

ASSUME FollowupAssumption ==
    /\ \A s \in Settings :
         /\ s.mode \in {"followup", "collect"}
         /\ s.drop \in {"old", "new", "summarize"}
         /\ s.cap \in Nat \ {0}
    /\ \E s \in Settings : \A t \in Settings : t.cap <= s.cap \* MaxCap exists
    /\ DOMAIN RouteOf = Messages
    /\ DOMAIN IdOf = Messages
    /\ None \notin Objects
    /\ MaxClears \in Nat /\ MaxForgotten \in Nat

VARIABLES
    registered, \* FOLLOWUP_QUEUES.get(key)
    queue,      \* the queue objects
    drain,      \* where the drain of each object is, and what it is sending
    direct,     \* a run that did not come out of the queue is active
    recent,     \* RECENT_QUEUE_MESSAGE_IDS: the ids still remembered
    forgotten,  \* the ids that expired so far
    accepted,   \* the messages pushed so far, in order
    handed,     \* how often runFollowup succeeded with the prompt of a message
    reported,   \* dropped messages whose line was in a summary that was sent
    discarded,  \* messages given up on purpose: policy "old", line limit, clear
    mishap,     \* the hazardous events so far
    clears      \* number of clearSessionQueues so far

queueVars == <<registered, queue, drain>>
idVars    == <<recent, forgotten>>
fateVars  == <<handed, reported, discarded, mishap>>
vars == <<queueVars, direct, idVars, accepted, fateVars, clears>>

NoQueue == [items |-> << >>, lines |-> << >>, dropped |-> 0, lastRun |-> FALSE,
            mode |-> "followup", drop |-> "summarize", cap |-> 1]

\* forceIndividualCollect belongs to one drain.
Idle == [at |-> "idle", force |-> FALSE, msgs |-> << >>, lines |-> << >>]
Debouncing(force) == [Idle EXCEPT !.at = "debouncing", !.force = force]
Collecting == [Idle EXCEPT !.at = "collecting"]
Sending(kind, msgs, lines, force) ==
    [at |-> kind, force |-> force, msgs |-> msgs, lines |-> lines]
IsSending(o) == drain[o].at \in {"item", "summary", "batch"}

Init ==
    /\ registered = None
    /\ queue = [o \in Objects |-> NoQueue]
    /\ drain = [o \in Objects |-> Idle]
    /\ direct = FALSE
    /\ recent = {}
    /\ forgotten = {}
    /\ accepted = << >>
    /\ handed = [m \in Messages |-> 0]
    /\ reported = {}
    /\ discarded = {}
    /\ mishap = {}
    /\ clears = 0

-----------------------------------------------------------------------------
(* The registry and the drain loop.  Q and D are the queue objects and the  *)
(* drains after the caller's own changes, r the registered object.          *)

\* Objects that are neither registered nor being drained are unreachable.
Install(Q, D, r) ==
    /\ registered' = r
    /\ drain' = D
    /\ queue' = [o \in Objects |-> IF o = r \/ D[o].at # "idle" THEN Q[o] ELSE NoQueue]

HasWork(q) == q.items # << >> \/ q.dropped > 0

\* The loop condition: wait for the debounce again, or leave through `finally`,
\* which deletes whatever is registered under the key.
LoopAgain(o, Q, force) ==
    IF HasWork(Q[o])
    THEN Install(Q, [drain EXCEPT ![o] = Debouncing(force)], registered)
    ELSE Install(Q, [drain EXCEPT ![o] = Idle], None)

\* scheduleFollowupDrain on the registered queue, unless it is being drained.
ScheduleFollowupDrain(Q, D, r) ==
    IF r = None \/ (r # None /\ D[r].at # "idle") THEN Install(Q, D, r)
    ELSE IF HasWork(Q[r]) THEN Install(Q, [D EXCEPT ![r] = Debouncing(FALSE)], r)
    ELSE Install(Q, D, None)

\* Mutant: the finally block only clears the flag.
LeaveLoop_NoReschedule(o) ==
    Install(queue, [drain EXCEPT ![o] = Idle], IF HasWork(queue[o]) THEN registered ELSE None)

\* `break` or an exception: the finally block reschedules what is left.
LeaveLoop(o) ==
    IF HasWork(queue[o])
    THEN ScheduleFollowupDrain(queue, [drain EXCEPT ![o] = Idle], registered)
    ELSE Install(queue, [drain EXCEPT ![o] = Idle], None)

-----------------------------------------------------------------------------
(* enqueueFollowupRun                                                       *)

\* applyQueueRuntimeSettings, on an existing or a fresh queue.
Configured(q, s) == [q EXCEPT !.mode = s.mode, !.drop = s.drop, !.cap = s.cap]

DropCount(q) == IF Len(q.items) < q.cap THEN 0 ELSE Len(q.items) - q.cap + 1
LastOf(s, n) == SubSeq(s, IF Len(s) > n THEN Len(s) - n + 1 ELSE 1, Len(s))

\* Mutant: unshift for push.
Pushed_Front(q, m) ==
    LET k == DropCount(q)
        lines == q.lines \o SubSeq(q.items, 1, k)
        kept == [q EXCEPT !.items = <<m>> \o SubSeq(@, k + 1, Len(@)), !.lastRun = TRUE]
    IN  IF k = 0 \/ q.drop # "summarize" THEN kept
        ELSE [kept EXCEPT !.dropped = @ + k, !.lines = LastOf(lines, q.cap)]

\* Mutant: the dropped items are described but not counted.
Pushed_Uncounted(q, m) ==
    LET k == DropCount(q)
        lines == q.lines \o SubSeq(q.items, 1, k)
        kept == [q EXCEPT !.items = Append(SubSeq(@, k + 1, Len(@)), m), !.lastRun = TRUE]
    IN  IF k = 0 \/ q.drop # "summarize" THEN kept ELSE [kept EXCEPT !.lines = LastOf(lines, q.cap)]

\* applyQueueDropPolicy and the push; not reached under policy "new" when full.
Pushed(q, m) ==
    LET k == DropCount(q)
        lines == q.lines \o SubSeq(q.items, 1, k)
        kept == [q EXCEPT !.items = Append(SubSeq(@, k + 1, Len(@)), m), !.lastRun = TRUE]
    IN  IF k = 0 \/ q.drop # "summarize" THEN kept
        ELSE [kept EXCEPT !.dropped = @ + k, !.lines = LastOf(lines, q.cap)]

\* The messages the push gives up on purpose.
GivenUp(q) ==
    LET k == DropCount(q) IN
    IF q.drop = "summarize"
    THEN ToSet(q.lines \o SubSeq(q.items, 1, k)) \
         ToSet(LastOf(q.lines \o SubSeq(q.items, 1, k), q.cap))
    ELSE ToSet(SubSeq(q.items, 1, k))

PushMishaps(o, q) ==
    (IF DropCount(q) > 0 /\ IsSending(o) THEN {"overflowDuringSend"} ELSE {}) \cup
    (IF drain[o].at = "collecting" THEN {"arrivedWhileCollecting"} ELSE {})
SettingsMishaps(q, s) ==
    IF q.dropped > 0 /\ s.drop # "summarize" THEN {"summaryDisowned"} ELSE {}

\* isRunAlreadyQueued
IsRunAlreadyQueued(m, items) == \E i \in DOMAIN items : IdOf[items[i]] = IdOf[m]

\* Mutant: only the queue is asked, not the ids that are remembered.
Known_QueueOnly(m, q) == IsRunAlreadyQueued(m, q.items)

\* The ids that are remembered, and then the queue, tell a redelivery.
Known(m, q) == IdOf[m] \in recent \/ IsRunAlreadyQueued(m, q.items)

\* enqueueFollowupRun, with the liveness re-check of its caller: `active` is
\* what isRunActive answers, never TRUE unless some run of the session is under way.
\* A member of Messages is pushed once; pushed again, it would be another member.
EnqueueFollowupRun(m, s, active) ==
    LET fresh == registered = None
        o == IF fresh THEN CHOOSE x \in Objects : drain[x].at = "idle" ELSE registered
        q == Configured(IF fresh THEN NoQueue ELSE queue[o], s)
        known == Known(m, q)
        pushes == ~known /\ (DropCount(q) = 0 \/ q.drop # "new")
        Q == [queue EXCEPT ![o] = IF pushes THEN Pushed(q, m)
                                  ELSE IF known THEN q ELSE [q EXCEPT !.lastRun = TRUE]]
    IN  /\ fresh => \E x \in Objects : drain[x].at = "idle"
        /\ pushes => m \notin ToSet(accepted)
        /\ active => direct \/ \E x \in Objects : IsSending(x)
        /\ IF active THEN Install(Q, drain, o) ELSE ScheduleFollowupDrain(Q, drain, o)
        /\ recent' = IF pushes THEN recent \cup {IdOf[m]} ELSE recent
        /\ accepted' = IF pushes THEN Append(accepted, m) ELSE accepted
        /\ discarded' = IF pushes THEN discarded \cup GivenUp(q) ELSE discarded
        /\ mishap' = mishap \cup (IF pushes THEN PushMishaps(o, q) ELSE {})
                            \cup (IF fresh THEN {} ELSE SettingsMishaps(queue[o], s))
        /\ UNCHANGED <<direct, forgotten, handed, reported, clears>>

\* The cache of ids forgets one, by its age or by its size.
IdExpires(id) ==
    /\ id \in recent
    /\ id \in forgotten \/ Cardinality(forgotten) < MaxForgotten
    /\ recent' = recent \ {id}
    /\ forgotten' = forgotten \cup {id}
    /\ UNCHANGED <<queueVars, direct, accepted, fateVars, clears>>

-----------------------------------------------------------------------------
(* Direct runs and clearSessionQueues                                       *)

DirectRunStarts ==
    /\ ~direct
    /\ direct' = TRUE
    /\ UNCHANGED <<queueVars, idVars, accepted, fateVars, clears>>

\* finalizeWithFollowup
DirectRunEnds ==
    /\ direct
    /\ direct' = FALSE
    /\ ScheduleFollowupDrain(queue, drain, registered)
    /\ UNCHANGED <<idVars, accepted, fateVars, clears>>

\* clearFollowupQueue: empty the object and forget it; its drain is not told.
ClearFollowupQueue ==
    LET q == queue[registered] IN
    /\ clears < MaxClears
    /\ registered # None
    /\ Install([queue EXCEPT ![registered].items = << >>, ![registered].lines = << >>,
                             ![registered].dropped = 0, ![registered].lastRun = FALSE],
               drain, None)
    /\ clears' = clears + 1
    /\ discarded' = discarded \cup ToSet(q.items) \cup ToSet(q.lines)
    /\ mishap' = mishap \cup (IF drain[registered].at # "idle" THEN {"clearedDuringDrain"} ELSE {})
    /\ UNCHANGED <<direct, idVars, accepted, handed, reported>>

-----------------------------------------------------------------------------
(* The drain, from await to await.                                          *)

HasSummary(q) == q.drop = "summarize" /\ q.dropped > 0

\* Mutant: keys.size > 2, and the "cross" answer is ignored.
IsCrossChannel_TwoAllowed(items) == Cardinality({RouteOf[items[i]] : i \in DOMAIN items}) > 2

\* hasCrossChannelItems
IsCrossChannel(items) ==
    LET routes == {RouteOf[items[i]] : i \in DOMAIN items}
    IN  Unroutable \in routes \/ Cardinality(routes) > 1

Start(o, sending) == Install(queue, [drain EXCEPT ![o] = sending], registered)

\* drainNextQueueItem up to its await.
SendNext(o, kind, lines, force) ==
    IF queue[o].items = << >> THEN LeaveLoop(o)
    ELSE Start(o, Sending(kind, <<Head(queue[o].items)>>, lines, force))

\* After waitForQueueDebounce: choose what to send.
DebounceEnds(o) ==
    LET q == queue[o]
        force == drain[o].force \/ IsCrossChannel(q.items)
    IN  /\ drain[o].at = "debouncing"
        /\ \/ /\ q.mode = "collect" /\ force
              /\ SendNext(o, "item", << >>, TRUE)
           \/ /\ q.mode = "collect" /\ ~force
              /\ Start(o, Collecting)
           \/ /\ q.mode # "collect" /\ HasSummary(q)
              /\ IF q.lastRun THEN SendNext(o, "summary", q.lines, drain[o].force) ELSE LeaveLoop(o)
           \/ /\ q.mode # "collect" /\ ~HasSummary(q)
              /\ SendNext(o, "item", << >>, drain[o].force)
        /\ mishap' = mishap \cup (IF q.mode # "collect" /\ q.items = << >>
                                 THEN {"summaryAlone"} ELSE {})
        /\ UNCHANGED <<direct, idVars, accepted, handed, reported, discarded, clears>>

\* After `await drainCollectQueueStep` answered "skipped": send all items at once.
CollectStarts(o) ==
    LET q == queue[o] IN
    /\ drain[o].at = "collecting"
    /\ IF q.items # << >> \/ q.lastRun
       THEN Start(o, Sending("batch", q.items, IF HasSummary(q) THEN q.lines ELSE << >>, FALSE))
       ELSE LeaveLoop(o)
    /\ UNCHANGED <<direct, idVars, accepted, fateVars, clears>>

\* What is removed from the queue once a send has succeeded: by number, not by name.
Sent(q, d) ==
    LET rest == [q EXCEPT !.items = SubSeq(@, Len(d.msgs) + 1, Len(@))] IN
    IF d.lines # << >> THEN [rest EXCEPT !.dropped = 0, !.lines = << >>] ELSE rest

SendSucceeds(o) ==
    LET d == drain[o] IN
    /\ IsSending(o)
    /\ LoopAgain(o, [queue EXCEPT ![o] = Sent(@, d)], d.force)
    /\ handed' = [m \in Messages |->
                    IF d.at # "summary" /\ m \in ToSet(d.msgs) /\ handed[m] < 2
                    THEN handed[m] + 1 ELSE handed[m]]
    /\ reported' = reported \cup ToSet(d.lines)
    /\ mishap' = mishap \cup (IF d.at = "summary" THEN {"summaryTookItem"} ELSE {})
    /\ UNCHANGED <<direct, idVars, accepted, discarded, clears>>

\* Mutant: the item is shifted although runFollowup failed.
SendThrows_Shifts(o) ==
    /\ IsSending(o)
    /\ LoopAgain(o, [queue EXCEPT ![o] = Sent(@, drain[o])], FALSE)
    /\ UNCHANGED <<direct, idVars, accepted, fateVars, clears>>

\* runFollowup throws: nothing is removed, the drain is scheduled anew.
SendThrows(o) ==
    /\ IsSending(o)
    /\ LeaveLoop(o)
    /\ UNCHANGED <<direct, idVars, accepted, fateVars, clears>>

Next ==
    \/ \E m \in Messages, s \in Settings, active \in BOOLEAN : EnqueueFollowupRun(m, s, active)
    \/ \E m \in Messages : IdExpires(IdOf[m])
    \/ DirectRunStarts
    \/ DirectRunEnds
    \/ ClearFollowupQueue
    \/ \E o \in Objects : DebounceEnds(o)
    \/ \E o \in Objects : CollectStarts(o)
    \/ \E o \in Objects : SendSucceeds(o)
    \/ \E o \in Objects : SendThrows(o)

Spec == Init /\ [][Next]_vars

(* Debounce timers fire, runs end, and a send that is retried for ever      *)
(* succeeds some time.                                                      *)
Fairness ==
    /\ WF_vars(DirectRunEnds)
    /\ \A o \in Objects :
         /\ WF_vars(DebounceEnds(o))
         /\ WF_vars(CollectStarts(o))
         /\ SF_vars(SendSucceeds(o))

FairSpec == Spec /\ Fairness

-----------------------------------------------------------------------------
(*                               Properties                                *)

MaxCap == CHOOSE n \in {s.cap : s \in Settings} : \A s \in Settings : s.cap <= n

\* The range of every variable; the summary keeps at most `cap` lines.
TypeOK ==
    /\ registered \in Objects \cup {None}
    /\ \A o \in Objects :
         /\ ToSet(queue[o].items) \cup ToSet(queue[o].lines) \subseteq Messages
         /\ Len(queue[o].items) <= MaxCap
         /\ Len(queue[o].lines) <= MaxCap
         /\ queue[o].dropped >= Len(queue[o].lines)
         /\ drain[o].at \in {"idle", "debouncing", "collecting", "item", "summary", "batch"}
    /\ direct \in BOOLEAN
    /\ recent \cup forgotten \subseteq {IdOf[m] : m \in Messages}
    /\ ToSet(accepted) \subseteq Messages
    /\ handed \in [Messages -> 0..2]
    /\ reported \cup discarded \subseteq Messages
    /\ mishap \subseteq {"overflowDuringSend", "summaryTookItem", "summaryDisowned",
                         "summaryAlone", "arrivedWhileCollecting", "clearedDuringDrain"}
    /\ clears \in 0..MaxClears

Waiting(m) == \E o \in Objects : m \in ToSet(queue[o].items)
ToBeReported(m) == \E o \in Objects : m \in ToSet(queue[o].lines)
AccountedFor(m) == handed[m] > 0 \/ m \in reported \cup discarded

\* A message that was accepted is in the queue, in the pending summary, or has
\* been handed to the agent, reported as dropped, or given up on purpose.
NothingVanishes ==
    \A m \in ToSet(accepted) : Waiting(m) \/ ToBeReported(m) \/ AccountedFor(m)

Lossy == {"overflowDuringSend", "summaryTookItem", "summaryDisowned", "clearedDuringDrain"}

\* Four events make a message vanish, and nothing else does: an overflow while
\* a send is awaited, a summary sent in the place of an item, a policy change
\* with a summary pending, and a clear under a running drain.
NothingVanishesUnlessLossy == mishap \cap Lossy = {} => NothingVanishes

\* No message is handed to the agent twice: neither retries nor two drains of one
\* session repeat a prompt that went through, and a redelivery is handed over beside
\* the first delivery only when the id of the message had expired. Even then it is
\* refused as long as the queue holds the first: no queue has one message twice.
HandedAtMostOnce ==
    /\ \A m \in Messages : handed[m] <= 1
    /\ \A m, n \in Messages :
         m # n /\ IdOf[m] = IdOf[n] /\ handed[m] > 0 /\ handed[n] > 0 => IdOf[m] \in forgotten
    /\ \A o \in Objects : \A i, j \in DOMAIN queue[o].items :
         i # j => IdOf[queue[o].items[i]] # IdOf[queue[o].items[j]]

\* Messages are handed over in the order they were accepted, whatever fails, is
\* dropped or changes its mode, as long as no clear forks the queue of the session
\* into an orphan with a drain of its own and a new object.
HandedInOrder ==
    "clearedDuringDrain" \notin mishap =>
        \A i, j \in DOMAIN accepted :
            i < j /\ handed[accepted[j]] > 0 => ~(Waiting(accepted[i]) /\ handed[accepted[i]] = 0)

\* A collected batch has one destination (its reply goes to the first one found),
\* unless a message arrived between the check and the copy of the items.
BatchHasOneDestination ==
    "arrivedWhileCollecting" \notin mishap =>
        \A o \in Objects : \A i, j \in DOMAIN drain[o].msgs :
            drain[o].at = "batch" =>
                RouteOf[drain[o].msgs[i]] = RouteOf[drain[o].msgs[j]] /\
                (i # j => RouteOf[drain[o].msgs[i]] # Unroutable)

\* Every accepted message is accounted for in the end: no order of arrivals, run
\* ends, failures and drains strands it, unless a lossy event occurred or a
\* summary was left alone in a queue that is not collected.
EventuallyAccountedFor ==
    \A m \in Messages :
        m \in ToSet(accepted) ~>
            (AccountedFor(m) \/ mishap \cap (Lossy \cup {"summaryAlone"}) # {})

=============================================================================
