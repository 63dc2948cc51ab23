--------------------------- MODULE InboundDebounce ---------------------------
(***************************************************************************)
(* The debouncer of inbound messages: src/auto-reply/inbound-debounce.ts.   *)
(* Messages of one key (a chat and its sender) are collected in a buffer    *)
(* until no other has come for a while, and are handed to onFlush together; *)
(* others (media, commands) are handed on at once.  A chain of tasks per    *)
(* key keeps them in order.  Calls of enqueue need not be awaited: every    *)
(* interleaving of arrivals, timers and flushes may happen.                 *)
(*                                                                         *)
(* The messages of a key are numbered in the order they arrive.             *)
(***************************************************************************)
EXTENDS Naturals, Sequences, FiniteSets

CONSTANTS Keys,
          MaxTrackedKeys,  \* maxTrackedKeys
          MaxItems         \* bound on the messages of a key

ASSUME DebounceAssumption ==
    /\ IsFiniteSet(Keys)
    /\ MaxTrackedKeys \in Nat \ {0} /\ MaxItems \in Nat

VARIABLES
    arrived,  \* number of messages that have come, per key
    chain,    \* the tasks of keyChains that have not ended
    buffered, \* buffers has the key: its buffer belongs to the last task of the chain
    running,  \* onFlush has been called by the first task of the chain
    flushed   \* history: the messages handed to onFlush, in that order

vars == <<arrived, chain, buffered, running, flushed>>

\* A task of a chain.  "plain" runs when its turn comes; "buffer" waits besides until
\* its buffer is flushed; "behind", the slot reserved for a message that has forced the
\* flush of a buffer, until that flush has ended.
Task == [kind : {"plain", "buffer", "behind"}, ready : BOOLEAN, items : Seq(1..MaxItems)]

Plain(i) == [kind |-> "plain", ready |-> TRUE, items |-> <<i>>]
Buffer(i) == [kind |-> "buffer", ready |-> FALSE, items |-> <<i>>]
Behind(i) == [kind |-> "behind", ready |-> FALSE, items |-> <<i>>]

Init ==
    /\ arrived = [k \in Keys |-> 0]
    /\ chain = [k \in Keys |-> << >>]
    /\ buffered = [k \in Keys |-> FALSE]
    /\ running = [k \in Keys |-> FALSE]
    /\ flushed = [k \in Keys |-> << >>]

-----------------------------------------------------------------------------
(* enqueue, one action for each of its branches.                            *)

Arrives(k) ==
    /\ arrived[k] < MaxItems
    /\ arrived' = [arrived EXCEPT ![k] = @ + 1]

Item(k) == arrived[k] + 1

Tracked == {k \in Keys : chain[k] # << >>}

\* canTrackKey
CanTrackKey(k) == k \in Tracked \/ Cardinality(Tracked) < MaxTrackedKeys

\* releaseBuffer, for the buffer of the last task.
Released(tasks) == [tasks EXCEPT ![Len(tasks)].ready = TRUE]

\* Mutant: the buffer is flushed and the message handed on beside it.
FlushesBuffer_Overtaken(k) ==
    /\ buffered[k]
    /\ Arrives(k)
    /\ chain' = [chain EXCEPT ![k] = Released(@)]
    /\ buffered' = [buffered EXCEPT ![k] = FALSE]
    /\ flushed' = [flushed EXCEPT ![k] = Append(@, Item(k))]
    /\ UNCHANGED running

\* A message that cannot wait, while a buffer is open: a slot behind it, and the flush.
FlushesBuffer(k) ==
    /\ buffered[k]
    /\ Arrives(k)
    /\ chain' = [chain EXCEPT ![k] = Append(Released(@), Behind(Item(k)))]
    /\ buffered' = [buffered EXCEPT ![k] = FALSE]
    /\ UNCHANGED <<running, flushed>>

\* ... while the chain of its key has tasks: behind them.
JoinsChain(k) ==
    /\ ~buffered[k] /\ k \in Tracked
    /\ Arrives(k)
    /\ chain' = [chain EXCEPT ![k] = Append(@, Plain(Item(k)))]
    /\ UNCHANGED <<buffered, running, flushed>>

\* ... otherwise at once, outside the chain.  Nothing waits for the end of that flush.
RunsAtOnce(k) ==
    /\ ~buffered[k] /\ k \notin Tracked
    /\ Arrives(k)
    /\ flushed' = [flushed EXCEPT ![k] = Append(@, Item(k))]
    /\ UNCHANGED <<chain, buffered, running>>

\* A message that may wait: into the open buffer, whose timer starts anew.
JoinsBuffer(k) ==
    /\ buffered[k]
    /\ Arrives(k)
    /\ chain' = [chain EXCEPT ![k][Len(chain[k])].items = Append(@, Item(k))]
    /\ UNCHANGED <<buffered, running, flushed>>

\* ... with no buffer: into a new one, if the key may be tracked,
OpensBuffer(k) ==
    /\ ~buffered[k] /\ CanTrackKey(k)
    /\ Arrives(k)
    /\ chain' = [chain EXCEPT ![k] = Append(@, Buffer(Item(k)))]
    /\ buffered' = [buffered EXCEPT ![k] = TRUE]
    /\ UNCHANGED <<running, flushed>>

\* ... else onto the chain.
Saturated(k) ==
    /\ ~buffered[k] /\ ~CanTrackKey(k)
    /\ Arrives(k)
    /\ chain' = [chain EXCEPT ![k] = Append(@, Plain(Item(k)))]
    /\ UNCHANGED <<buffered, running, flushed>>

-----------------------------------------------------------------------------
(* Timers and flushes.                                                      *)

\* flushBuffer, called by the timer of the buffer.
TimerFires(k) ==
    /\ buffered[k]
    /\ chain' = [chain EXCEPT ![k] = Released(@)]
    /\ buffered' = [buffered EXCEPT ![k] = FALSE]
    /\ UNCHANGED <<arrived, running, flushed>>

\* The first task of the chain calls onFlush.
FlushBegins(k) ==
    /\ k \in Tracked /\ ~running[k] /\ Head(chain[k]).ready
    /\ running' = [running EXCEPT ![k] = TRUE]
    /\ flushed' = [flushed EXCEPT ![k] = @ \o Head(chain[k]).items]
    /\ UNCHANGED <<arrived, chain, buffered>>

\* Mutant: the slot behind the buffer is not released.
FlushEnds_NotReleased(k) ==
    /\ running[k]
    /\ running' = [running EXCEPT ![k] = FALSE]
    /\ chain' = [chain EXCEPT ![k] = Tail(@)]
    /\ UNCHANGED <<arrived, buffered, flushed>>

\* onFlush has settled, with or without an error.  Who forced the flush of a buffer
\* has waited for its task, and releases the slot behind it.
FlushEnds(k) ==
    LET rest == Tail(chain[k]) IN
    /\ running[k]
    /\ running' = [running EXCEPT ![k] = FALSE]
    /\ chain' = [chain EXCEPT ![k] = IF rest # << >> /\ Head(rest).kind = "behind"
                                     THEN [rest EXCEPT ![1].ready = TRUE] ELSE rest]
    /\ UNCHANGED <<arrived, buffered, flushed>>

Next ==
    \E k \in Keys :
        \/ FlushesBuffer(k)
        \/ JoinsChain(k)
        \/ RunsAtOnce(k)
        \/ JoinsBuffer(k)
        \/ OpensBuffer(k)
        \/ Saturated(k)
        \/ TimerFires(k)
        \/ FlushBegins(k)
        \/ FlushEnds(k)

Spec == Init /\ [][Next]_vars

(* Timers fire, tasks are run, and onFlush settles.                         *)
Fairness ==
    \A k \in Keys : /\ WF_vars(TimerFires(k))
                    /\ WF_vars(FlushBegins(k))
                    /\ WF_vars(FlushEnds(k))

FairSpec == Spec /\ Fairness

-----------------------------------------------------------------------------
(*                               Properties                                *)

\* The range of every variable.
TypeOK ==
    /\ arrived \in [Keys -> 0..MaxItems]
    /\ chain \in [Keys -> Seq(Task)]
    /\ buffered \in [Keys -> BOOLEAN]
    /\ running \in [Keys -> BOOLEAN]
    /\ flushed \in [Keys -> Seq(1..MaxItems)]

\* The messages of a key are handed to onFlush in the order they arrived, each once
\* and none left out, whether they were buffered, handed on at once, or found the
\* debouncer saturated.
FlushedInOrder ==
    \A k \in Keys : \A i \in 1..Len(flushed[k]) : flushed[k][i] = i

\* Every message that has arrived is handed to onFlush: no slot that is reserved stays
\* unreleased.
EveryMessageIsFlushed ==
    \A k \in Keys : \A n \in 1..MaxItems : (arrived[k] = n) ~> (Len(flushed[k]) >= n)

=============================================================================
