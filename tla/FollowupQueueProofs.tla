-------------------------- MODULE FollowupQueueProofs --------------------------
(***************************************************************************)
(* Proofs about the followup queue, for any number of messages, settings    *)
(* and queue objects.                                                       *)
(*                                                                         *)
(* What is sent is removed by number, not by name, while the queue may      *)
(* change under the send; a clear leaves a drain with an object of its own. *)
(* The invariant therefore speaks about every queue object with its drain   *)
(* (ObjectSound): where in the order of the accepted messages its items and *)
(* the messages being sent are.                                             *)
(***************************************************************************)
EXTENDS FollowupQueue, FiniteSetTheorems, SequenceTheorems, TLAPS

-----------------------------------------------------------------------------
(* Queue objects and drains.                                                *)

QueueObject == [items : Seq(Messages), lines : Seq(Messages), dropped : Nat, lastRun : BOOLEAN,
                mode : {"followup", "collect"}, drop : {"old", "new", "summarize"}, cap : Nat \ {0}]

Drain == [at : {"idle", "debouncing", "collecting", "item", "summary", "batch"},
          force : BOOLEAN, msgs : Seq(Messages), lines : Seq(Messages)]

Sends(d) == d.at \in {"item", "summary", "batch"}

\* Message m was accepted before message n.
Before(A, m, n) == \E i, j \in 1..Len(A) : i < j /\ A[i] = m /\ A[j] = n

Forked(M) == "clearedDuringDrain" \in M

\* The items, and the messages in the drain's hand, were accepted and not handed over.
KeepsNew(items, msgs, A, H) ==
    /\ \A i \in 1..Len(items) : items[i] \in ToSet(A) /\ H[items[i]] = 0
    /\ \A i \in 1..Len(msgs) : msgs[i] \in ToSet(A) /\ H[msgs[i]] = 0

\* The items are in the order of their acceptance, and those that will be left after
\* the send come after the messages being sent.
InOrder(items, msgs, A) ==
    /\ \A i, j \in 1..Len(items) : i < j => Before(A, items[i], items[j])
    /\ \A k \in 1..Len(msgs), i \in 1..Len(items) : i > Len(msgs) => Before(A, msgs[k], items[i])

\* What has been handed over comes before the items, unless a clear has forked the queue.
AfterHanded(items, A, H, M) ==
    ~Forked(M) => \A m \in Messages : H[m] > 0 => \A i \in 1..Len(items) : Before(A, m, items[i])

OneDestination(s) ==
    \A i, j \in 1..Len(s) : RouteOf[s[i]] = RouteOf[s[j]] /\ RouteOf[s[i]] # Unroutable

OneBatch(q, d, M) ==
    "arrivedWhileCollecting" \notin M =>
        /\ d.at = "collecting" => OneDestination(q.items)
        /\ d.at = "batch" => OneDestination(d.msgs)

\* What is being sent is still at the front of the queue, unless it was cut off there.
SendsPrefix(q, d, M) ==
    (Sends(d) /\ ~Forked(M) /\ "overflowDuringSend" \notin M) =>
        /\ Len(d.msgs) <= Len(q.items)
        /\ \A i \in 1..Len(d.msgs) : q.items[i] = d.msgs[i]
        /\ d.lines # << >> => q.lines = d.lines

ObjectTypes(q, d) ==
    /\ q \in QueueObject /\ d \in Drain
    /\ Len(q.items) <= MaxCap /\ Len(q.lines) <= MaxCap /\ q.dropped >= Len(q.lines)
    /\ ~Sends(d) => d.msgs = << >>

ObjectSound(q, d, A, H, M) ==
    /\ ObjectTypes(q, d)
    /\ KeepsNew(q.items, d.msgs, A, H)
    /\ InOrder(q.items, d.msgs, A)
    /\ AfterHanded(q.items, A, H, M)
    /\ OneBatch(q, d, M)
    /\ SendsPrefix(q, d, M)

-----------------------------------------------------------------------------
(* Sequences.                                                               *)

\* The members of a sequence.
LEMMA MembersOf ==
    ASSUME NEW S, NEW s \in Seq(S)
    PROVE  /\ \A x : x \in ToSet(s) <=> \E i \in 1..Len(s) : s[i] = x
           /\ ToSet(s) \subseteq S
  <1>1. DOMAIN s = 1..Len(s) /\ \A i \in 1..Len(s) : s[i] \in S
    BY ElementOfSeq
  <1> QED
    BY <1>1 DEF ToSet

\* What is left when k entries are taken off, or all there are.
Rest(s, k) == SubSeq(s, k + 1, Len(s))

\* It is the sequence, shifted by k.
LEMMA RestFacts ==
    ASSUME NEW S, NEW s \in Seq(S), NEW k \in Nat
    PROVE  /\ Rest(s, k) \in Seq(S)
           /\ Len(Rest(s, k)) = IF k <= Len(s) THEN Len(s) - k ELSE 0
           /\ \A i \in 1..Len(Rest(s, k)) : i + k \in 1..Len(s) /\ Rest(s, k)[i] = s[i + k]
  <1>1. Len(s) \in Nat /\ \A i \in (k + 1)..Len(s) : s[i] \in S
    BY ElementOfSeq
  <1>2. /\ Rest(s, k) \in Seq(S)
        /\ Len(Rest(s, k)) = IF k + 1 <= Len(s) THEN Len(s) - (k + 1) + 1 ELSE 0
        /\ \A i \in 1..(Len(s) - (k + 1) + 1) : Rest(s, k)[i] = s[(k + 1) + i - 1]
    BY <1>1, SubSeqProperties DEF Rest
  <1>3. Len(Rest(s, k)) = IF k <= Len(s) THEN Len(s) - k ELSE 0
    BY <1>1, <1>2
  <1>4. ASSUME NEW i \in 1..Len(Rest(s, k))
        PROVE  i + k \in 1..Len(s) /\ Rest(s, k)[i] = s[i + k]
    <2>1. i \in 1..(Len(s) - (k + 1) + 1) /\ (k + 1) + i - 1 = i + k /\ i + k \in 1..Len(s)
      BY <1>1, <1>3
    <2> QED
      BY <1>2, <2>1
  <1> QED
    BY <1>2, <1>3, <1>4

\* The last n of a sequence.
LEMMA LastOfFacts ==
    ASSUME NEW S, NEW s \in Seq(S), NEW n \in Nat
    PROVE  /\ LastOf(s, n) \in Seq(S)
           /\ Len(LastOf(s, n)) <= n /\ Len(LastOf(s, n)) <= Len(s)
  <1>1. Len(s) \in Nat
    OBVIOUS
  <1>2. CASE Len(s) > n
    <2>1. LastOf(s, n) = Rest(s, Len(s) - n)
      BY <1>1, <1>2 DEF LastOf, Rest
    <2>2. Len(s) - n \in Nat
      BY <1>1, <1>2
    <2> QED
      BY <1>1, <2>1, <2>2, RestFacts
  <1>3. CASE ~(Len(s) > n)
    <2>1. LastOf(s, n) = Rest(s, 0)
      BY <1>1, <1>3 DEF LastOf, Rest
    <2> QED
      BY <1>1, <1>3, <2>1, RestFacts
  <1> QED
    BY <1>2, <1>3

\* The first k of a sequence.
LEMMA FirstFacts ==
    ASSUME NEW S, NEW s \in Seq(S), NEW k \in 0..Len(s)
    PROVE  /\ SubSeq(s, 1, k) \in Seq(S) /\ Len(SubSeq(s, 1, k)) = k
           /\ \A i \in 1..k : SubSeq(s, 1, k)[i] = s[i]
  <1>1. Len(s) \in Nat /\ \A i \in 1..k : s[i] \in S
    BY ElementOfSeq
  <1> QED
    BY <1>1, SubSeqProperties

\* The order of acceptance: it is kept by further messages, which come last.
LEMMA BeforeFacts ==
    ASSUME NEW A \in Seq(Messages), NEW m \in Messages
    PROVE  /\ Append(A, m) \in Seq(Messages)
           /\ ToSet(Append(A, m)) = ToSet(A) \cup {m}
           /\ \A a, b : Before(A, a, b) => Before(Append(A, m), a, b)
           /\ \A a \in ToSet(A) : Before(Append(A, m), a, m)
  <1> DEFINE B == Append(A, m)
  <1>1. /\ B \in Seq(Messages) /\ Len(B) = Len(A) + 1 /\ Len(A) \in Nat
        /\ \A i \in 1..Len(A) : B[i] = A[i]
        /\ B[Len(A) + 1] = m
    BY AppendProperties
  <1> HIDE DEF B
  <1>2. \A a, b : Before(A, a, b) => Before(B, a, b)
    <2> SUFFICES ASSUME NEW a, NEW b, NEW i \in 1..Len(A), NEW j \in 1..Len(A),
                        i < j, A[i] = a, A[j] = b
                 PROVE  Before(B, a, b)
      BY DEF Before
    <2>1. i \in 1..Len(B) /\ j \in 1..Len(B) /\ B[i] = a /\ B[j] = b
      BY <1>1
    <2> QED
      BY <2>1 DEF Before
  <1>3. \A a \in ToSet(A) : Before(B, a, m)
    <2> SUFFICES ASSUME NEW i \in 1..Len(A)
                 PROVE  Before(B, A[i], m)
      BY MembersOf
    <2>1. i \in 1..Len(B) /\ Len(A) + 1 \in 1..Len(B) /\ i < Len(A) + 1 /\ B[i] = A[i]
      BY <1>1
    <2> QED
      BY <1>1, <2>1 DEF Before
  <1>4. ToSet(B) = ToSet(A) \cup {m}
    <2>1. ASSUME NEW x PROVE x \in ToSet(B) <=> x \in ToSet(A) \cup {m}
      <3>1. x \in ToSet(B) <=> \E i \in 1..Len(B) : B[i] = x
        BY <1>1, MembersOf
      <3>2. (\E i \in 1..Len(B) : B[i] = x) <=> (\E i \in 1..Len(A) : B[i] = x) \/ B[Len(A) + 1] = x
        BY <1>1
      <3>3. (\E i \in 1..Len(A) : B[i] = x) <=> \E i \in 1..Len(A) : A[i] = x
        BY <1>1
      <3>4. x \in ToSet(A) <=> \E i \in 1..Len(A) : A[i] = x
        BY MembersOf
      <3> QED
        BY <1>1, <3>1, <3>2, <3>3, <3>4
    <2> QED
      BY <2>1
  <1> QED
    BY <1>1, <1>2, <1>3, <1>4 DEF B

Distinct(A) == \A i, j \in 1..Len(A) : A[i] = A[j] => i = j

\* No message comes before itself, and the order has a direction.
LEMMA BeforeIsAnOrder ==
    ASSUME NEW A \in Seq(Messages), Distinct(A)
    PROVE  /\ \A a : ~Before(A, a, a)
           /\ \A i, j \in 1..Len(A) : i < j => ~Before(A, A[j], A[i])
  <1>1. Len(A) \in Nat
    OBVIOUS
  <1> QED
    BY <1>1 DEF Before, Distinct

\* A new message is appended to the order.
LEMMA DistinctAppend ==
    ASSUME NEW A \in Seq(Messages), Distinct(A), NEW m \in Messages, m \notin ToSet(A)
    PROVE  Distinct(Append(A, m))
  <1> DEFINE B == Append(A, m)
  <1>1. /\ Len(B) = Len(A) + 1 /\ Len(A) \in Nat /\ B[Len(A) + 1] = m
        /\ \A i \in 1..Len(A) : B[i] = A[i]
    BY AppendProperties
  <1>2. \A i \in 1..Len(A) : A[i] # m
    BY MembersOf
  <1> HIDE DEF B
  <1>3. Distinct(B)
    BY <1>1, <1>2 DEF Distinct
  <1> QED
    BY <1>3 DEF B

-----------------------------------------------------------------------------
(* What happens to one queue object and its drain.                          *)

\* The largest cap in use.
LEMMA MaxCapFacts == MaxCap \in Nat /\ \A s \in Settings : s.cap <= MaxCap
  <1>1. \E n \in {s.cap : s \in Settings} : \A s \in Settings : s.cap <= n
    BY FollowupAssumption
  <1>2. MaxCap \in {s.cap : s \in Settings} /\ \A s \in Settings : s.cap <= MaxCap
    BY <1>1 DEF MaxCap
  <1> QED
    BY <1>2, FollowupAssumption

\* The states of a drain that sends nothing.
LEMMA RestingDrains ==
    ASSUME NEW force \in BOOLEAN
    PROVE  /\ Idle \in Drain /\ Idle.at = "idle" /\ Idle.msgs = << >>
           /\ Debouncing(force) \in Drain /\ Debouncing(force).at = "debouncing"
           /\ Debouncing(force).msgs = << >>
           /\ Collecting \in Drain /\ Collecting.at = "collecting" /\ Collecting.msgs = << >>
  <1>1. << >> \in Seq(Messages)
    OBVIOUS
  <1> QED
    BY <1>1 DEF Idle, Debouncing, Collecting, Drain

\* A fresh queue.
LEMMA FreshQueue ==
    NoQueue \in QueueObject /\ NoQueue.items = << >> /\ NoQueue.lines = << >> /\ NoQueue.dropped = 0
  <1>1. << >> \in Seq(Messages)
    OBVIOUS
  <1> QED
    BY <1>1 DEF NoQueue, QueueObject

\* Fields of a queue object and of a drain.
LEMMA FieldTypes ==
    ASSUME NEW q, NEW d, ObjectTypes(q, d)
    PROVE  /\ q.items \in Seq(Messages) /\ q.lines \in Seq(Messages) /\ q.dropped \in Nat
           /\ q.cap \in Nat \ {0} /\ d.msgs \in Seq(Messages) /\ d.lines \in Seq(Messages)
           /\ Len(q.items) \in Nat /\ Len(q.lines) \in Nat /\ Len(d.msgs) \in Nat
           /\ \A i \in 1..Len(q.items) : q.items[i] \in Messages
           /\ \A i \in 1..Len(d.msgs) : d.msgs[i] \in Messages
  <1>1. /\ q.items \in Seq(Messages) /\ q.lines \in Seq(Messages) /\ q.dropped \in Nat
        /\ q.cap \in Nat \ {0} /\ d.msgs \in Seq(Messages) /\ d.lines \in Seq(Messages)
    BY DEF ObjectTypes, QueueObject, Drain
  <1> QED
    BY <1>1, ElementOfSeq

\* An object without items is sound whatever else happened.
LEMMA EmptySound ==
    ASSUME NEW q \in QueueObject, NEW d, NEW A, NEW H, NEW M, NEW N, ObjectSound(q, d, A, H, M),
           NEW p \in QueueObject, p.items = << >>, p.lines = << >>, M \subseteq N,
           Sends(d) => Forked(N)
    PROVE  ObjectSound(p, d, A, H, N)
  <1>1. Len(p.items) = 0 /\ Len(p.lines) = 0 /\ p.dropped \in Nat /\ MaxCap \in Nat
    BY MaxCapFacts DEF QueueObject
  <1>2. ObjectTypes(p, d)
    BY <1>1 DEF ObjectSound, ObjectTypes
  <1>3. KeepsNew(p.items, d.msgs, A, H)
    BY <1>1 DEF ObjectSound, KeepsNew
  <1>4. InOrder(p.items, d.msgs, A) /\ AfterHanded(p.items, A, H, N)
    BY <1>1 DEF InOrder, AfterHanded
  <1>5. OneBatch(p, d, N)
    BY <1>1 DEF ObjectSound, OneBatch, OneDestination
  <1>6. SendsPrefix(p, d, N)
    BY DEF SendsPrefix
  <1> QED
    BY <1>2, <1>3, <1>4, <1>5, <1>6 DEF ObjectSound

\* Only the hazardous events and the settings count.
LEMMA SameItems ==
    ASSUME NEW q, NEW d, NEW A, NEW H, NEW M, NEW N, ObjectSound(q, d, A, H, M), M \subseteq N,
           NEW p \in QueueObject, p.items = q.items, p.lines = q.lines, p.dropped = q.dropped
    PROVE  ObjectSound(p, d, A, H, N)
  <1>1. ObjectTypes(p, d)
    BY DEF ObjectSound, ObjectTypes
  <1>2. KeepsNew(p.items, d.msgs, A, H) /\ InOrder(p.items, d.msgs, A)
    BY DEF ObjectSound
  <1>3. AfterHanded(p.items, A, H, N)
    BY DEF ObjectSound, AfterHanded, Forked
  <1>4. OneBatch(p, d, N)
    BY DEF ObjectSound, OneBatch
  <1>5. SendsPrefix(p, d, N)
    BY DEF ObjectSound, SendsPrefix, Forked
  <1> QED
    BY <1>1, <1>2, <1>3, <1>4, <1>5 DEF ObjectSound

\* A drain that stops sending, waits or collects.
LEMMA RestsSound ==
    ASSUME NEW q, NEW d, NEW A, NEW H, NEW M, ObjectSound(q, d, A, H, M),
           NEW e \in Drain, ~Sends(e), e.msgs = << >>,
           e.at = "collecting" => OneDestination(q.items)
    PROVE  ObjectSound(q, e, A, H, M)
  <1>1. Len(e.msgs) = 0
    OBVIOUS
  <1>2. ObjectTypes(q, e)
    BY DEF ObjectSound, ObjectTypes
  <1>3. KeepsNew(q.items, e.msgs, A, H) /\ InOrder(q.items, e.msgs, A)
    BY <1>1 DEF ObjectSound, KeepsNew, InOrder
  <1>4. AfterHanded(q.items, A, H, M)
    BY DEF ObjectSound
  <1>5. OneBatch(q, e, M) /\ SendsPrefix(q, e, M)
    BY DEF OneBatch, SendsPrefix, Sends
  <1> QED
    BY <1>2, <1>3, <1>4, <1>5 DEF ObjectSound

\* A drain that starts to send what is at the front of the queue.
LEMMA SendingSound ==
    ASSUME NEW q, NEW d, NEW A, NEW H, NEW M, ObjectSound(q, d, A, H, M),
           NEW e \in Drain, Sends(e), Len(e.msgs) <= Len(q.items),
           \A i \in 1..Len(e.msgs) : e.msgs[i] = q.items[i],
           e.lines # << >> => e.lines = q.lines,
           (e.at = "batch" /\ "arrivedWhileCollecting" \notin M) => OneDestination(e.msgs)
    PROVE  ObjectSound(q, e, A, H, M)
  <1>1. Len(e.msgs) \in Nat /\ Len(q.items) \in Nat
    BY FieldTypes DEF ObjectSound, Drain
  <1>2. ObjectTypes(q, e)
    BY DEF ObjectSound, ObjectTypes
  <1>3. KeepsNew(q.items, e.msgs, A, H)
    BY <1>1 DEF ObjectSound, KeepsNew
  <1>4. InOrder(q.items, e.msgs, A)
    BY <1>1 DEF ObjectSound, InOrder
  <1>5. AfterHanded(q.items, A, H, M)
    BY DEF ObjectSound
  <1>6. OneBatch(q, e, M) /\ SendsPrefix(q, e, M)
    BY DEF OneBatch, SendsPrefix, Sends
  <1> QED
    BY <1>2, <1>3, <1>4, <1>5, <1>6 DEF ObjectSound

\* What a send that succeeded leaves.
LEMMA SentFacts ==
    ASSUME NEW q \in QueueObject, NEW d \in Drain
    PROVE  /\ Sent(q, d) \in QueueObject /\ Sent(q, d).items = Rest(q.items, Len(d.msgs))
           /\ IF d.lines # << >> THEN Sent(q, d).lines = << >> /\ Sent(q, d).dropped = 0
              ELSE Sent(q, d).lines = q.lines /\ Sent(q, d).dropped = q.dropped
  <1> DEFINE rest == [q EXCEPT !.items = SubSeq(q.items, Len(d.msgs) + 1, Len(q.items))]
             new == [rest EXCEPT !.dropped = 0, !.lines = << >>]
  <1>1. q.items \in Seq(Messages) /\ Len(d.msgs) \in Nat /\ << >> \in Seq(Messages)
    BY DEF QueueObject, Drain
  <1>2. Rest(q.items, Len(d.msgs)) \in Seq(Messages)
    BY <1>1, RestFacts
  <1>3. /\ rest \in QueueObject /\ rest.items = Rest(q.items, Len(d.msgs))
        /\ rest.lines = q.lines /\ rest.dropped = q.dropped
    BY <1>2 DEF QueueObject, Rest
  <1>4. Sent(q, d) = IF d.lines # << >> THEN new ELSE rest
    BY DEF Sent
  <1> HIDE DEF rest
  <1>5. new \in QueueObject /\ new.items = rest.items /\ new.lines = << >> /\ new.dropped = 0
    BY <1>1, <1>3 DEF QueueObject
  <1> HIDE DEF new
  <1> QED
    BY <1>3, <1>4, <1>5

\* The items that a send leaves are the ones behind what was sent.
LEMMA SentItems ==
    ASSUME NEW q \in QueueObject, NEW d \in Drain
    PROVE  /\ Sent(q, d).items \in Seq(Messages)
           /\ \A x : x \in ToSet(Sent(q, d).items) =>
                       \E i \in 1..Len(q.items) : i > Len(d.msgs) /\ q.items[i] = x
           /\ \A i \in 1..Len(q.items) : i > Len(d.msgs) => q.items[i] \in ToSet(Sent(q, d).items)
  <1> DEFINE s == q.items
             n == Len(d.msgs)
             t == Sent(q, d).items
  <1>1. s \in Seq(Messages) /\ n \in Nat /\ t = Rest(s, n) /\ Len(s) \in Nat
    <2>1. s \in Seq(Messages) /\ n \in Nat
      BY DEF QueueObject, Drain
    <2>2. t = Rest(q.items, Len(d.msgs))
      BY SentFacts
    <2> QED
      BY <2>1, <2>2
  <1> HIDE DEF s, n, t
  <1>2. /\ t \in Seq(Messages)
        /\ Len(t) = IF n <= Len(s) THEN Len(s) - n ELSE 0
        /\ \A i \in 1..Len(t) : i + n \in 1..Len(s) /\ t[i] = s[i + n]
    BY <1>1, RestFacts
  <1>3. \A x : x \in ToSet(t) <=> \E i \in 1..Len(t) : t[i] = x
    BY <1>2, MembersOf
  <1>4. ASSUME NEW x, x \in ToSet(t) PROVE \E i \in 1..Len(s) : i > n /\ s[i] = x
    <2>1. PICK i \in 1..Len(t) : t[i] = x
      BY <1>3, <1>4
    <2>2. i + n \in 1..Len(s) /\ i + n > n /\ s[i + n] = x
      BY <1>1, <1>2, <2>1
    <2> QED
      BY <2>2
  <1>5. ASSUME NEW i \in 1..Len(s), i > n PROVE s[i] \in ToSet(t)
    <2>1. i - n \in 1..Len(t) /\ (i - n) + n = i
      BY <1>1, <1>2, <1>5
    <2>2. t[i - n] = s[i]
      BY <1>2, <2>1
    <2> QED
      BY <1>3, <2>1, <2>2
  <1> QED
    BY <1>2, <1>4, <1>5 DEF s, n, t

\* Whose prompt went through once more.
HandedBy(H, d) ==
    [m \in Messages |-> IF d.at # "summary" /\ m \in ToSet(d.msgs) /\ H[m] < 2 THEN H[m] + 1 ELSE H[m]]

\* The messages that were sent are off the queue, those that remain come after them.
LEMMA SentSound ==
    ASSUME NEW q, NEW d, NEW A \in Seq(Messages), NEW H \in [Messages -> Nat], NEW M, NEW N,
           Distinct(A), ObjectSound(q, d, A, H, M), M \subseteq N,
           NEW e \in Drain, ~Sends(e), e.msgs = << >>, e.at # "collecting"
    PROVE  ObjectSound(Sent(q, d), e, A, HandedBy(H, d), N)
  <1> DEFINE p == Sent(q, d)
             n == Len(d.msgs)
             G == HandedBy(H, d)
  <1>1. /\ q \in QueueObject /\ d \in Drain /\ q.items \in Seq(Messages) /\ d.msgs \in Seq(Messages)
        /\ n \in Nat /\ Len(q.items) \in Nat /\ q.lines \in Seq(Messages)
        /\ \A i \in 1..Len(q.items) : q.items[i] \in Messages
    BY FieldTypes DEF ObjectSound, ObjectTypes
  <1>2. /\ p \in QueueObject /\ p.items = Rest(q.items, n)
        /\ (p.lines = << >> /\ p.dropped = 0) \/ (p.lines = q.lines /\ p.dropped = q.dropped)
    <2>1. p \in QueueObject /\ p.items = Rest(q.items, Len(d.msgs))
      BY <1>1, SentFacts
    <2>2. IF d.lines # << >> THEN p.lines = << >> /\ p.dropped = 0
          ELSE p.lines = q.lines /\ p.dropped = q.dropped
      BY <1>1, SentFacts
    <2> HIDE DEF p
    <2> QED
      BY <2>1, <2>2 DEF n
  <1> HIDE DEF p, n
  <1>3. /\ Len(p.items) <= Len(q.items) /\ Len(p.items) \in Nat
        /\ \A i \in 1..Len(p.items) : /\ i + n \in 1..Len(q.items) /\ i + n > n
                                      /\ p.items[i] = q.items[i + n]
    <2>1. /\ Len(Rest(q.items, n)) = IF n <= Len(q.items) THEN Len(q.items) - n ELSE 0
          /\ \A i \in 1..Len(Rest(q.items, n)) : i + n \in 1..Len(q.items) /\ Rest(q.items, n)[i] = q.items[i + n]
      BY <1>1, RestFacts
    <2>2. Len(p.items) <= Len(q.items) /\ Len(p.items) \in Nat
      BY <1>1, <1>2, <2>1
    <2>3. \A i \in 1..Len(p.items) : i + n > n
      BY <1>1, <2>2
    <2> QED
      BY <1>2, <2>1, <2>2, <2>3
  <1>4. ASSUME NEW m \in Messages
        PROVE  G[m] > 0 => H[m] > 0 \/ \E k \in 1..n : d.msgs[k] = m
    <2>1. m \in ToSet(d.msgs) <=> \E k \in 1..n : d.msgs[k] = m
      <3>1. \A x : x \in ToSet(d.msgs) <=> \E i \in 1..Len(d.msgs) : d.msgs[i] = x
        BY <1>1, MembersOf
      <3> QED
        BY <3>1 DEF n
    <2>2. G[m] = IF d.at # "summary" /\ m \in ToSet(d.msgs) /\ H[m] < 2 THEN H[m] + 1 ELSE H[m]
      BY DEF HandedBy
    <2> QED
      BY <2>1, <2>2
  <1>5. \A i \in 1..Len(p.items), k \in 1..n : Before(A, d.msgs[k], p.items[i])
    BY <1>3 DEF ObjectSound, InOrder, n
  <1>6. ASSUME NEW i \in 1..Len(p.items)
        PROVE  p.items[i] \in ToSet(A) /\ G[p.items[i]] = 0
    <2>1. p.items[i] \in ToSet(A) /\ H[p.items[i]] = 0 /\ p.items[i] \in Messages
      BY <1>1, <1>3 DEF ObjectSound, KeepsNew
    <2>2. \A k \in 1..n : d.msgs[k] # p.items[i]
      BY <1>5, BeforeIsAnOrder
    <2>3. p.items[i] \notin ToSet(d.msgs)
      <3>1. \A x : x \in ToSet(d.msgs) <=> \E k \in 1..Len(d.msgs) : d.msgs[k] = x
        BY <1>1, MembersOf
      <3> QED
        BY <2>2, <3>1 DEF n
    <2> QED
      BY <2>1, <2>3 DEF HandedBy
  <1>7. Len(e.msgs) = 0
    OBVIOUS
  <1>8. ObjectTypes(p, e)
    <2>1. Len(q.items) <= MaxCap /\ Len(q.lines) <= MaxCap /\ q.dropped >= Len(q.lines) /\ MaxCap \in Nat
      BY MaxCapFacts DEF ObjectSound, ObjectTypes
    <2>2. Len(p.items) <= MaxCap
      BY <1>1, <1>3, <2>1
    <2>3. Len(p.lines) <= MaxCap /\ p.dropped >= Len(p.lines)
      BY <1>2, <2>1
    <2> QED
      BY <1>2, <2>2, <2>3 DEF ObjectTypes
  <1>9. KeepsNew(p.items, e.msgs, A, G)
    BY <1>6, <1>7 DEF KeepsNew
  <1>10. InOrder(p.items, e.msgs, A)
    <2>1. ASSUME NEW i \in 1..Len(p.items), NEW j \in 1..Len(p.items), i < j
          PROVE  Before(A, p.items[i], p.items[j])
      <3>1. i + n < j + n
        BY <1>1, <1>3, <2>1
      <3> QED
        BY <1>3, <3>1 DEF ObjectSound, InOrder
    <2> QED
      BY <1>7, <2>1 DEF InOrder
  <1>11. AfterHanded(p.items, A, G, N)
    <2> SUFFICES ASSUME ~Forked(M), NEW m \in Messages, G[m] > 0, NEW i \in 1..Len(p.items)
                 PROVE  Before(A, m, p.items[i])
      BY DEF AfterHanded, Forked
    <2>1. CASE H[m] > 0
      BY <1>3, <2>1 DEF ObjectSound, AfterHanded
    <2>2. CASE \E k \in 1..n : d.msgs[k] = m
      BY <1>5, <2>2
    <2> QED
      BY <1>4, <2>1, <2>2
  <1>12. OneBatch(p, e, N) /\ SendsPrefix(p, e, N)
    BY DEF OneBatch, SendsPrefix, Sends
  <1>13. ObjectSound(p, e, A, G, N)
    BY <1>8, <1>9, <1>10, <1>11, <1>12 DEF ObjectSound
  <1> QED
    BY <1>13 DEF p

\* New settings change no message.
LEMMA ConfiguredFacts ==
    ASSUME NEW q \in QueueObject, NEW s \in Settings
    PROVE  /\ Configured(q, s) \in QueueObject
           /\ Configured(q, s).items = q.items /\ Configured(q, s).lines = q.lines
           /\ Configured(q, s).dropped = q.dropped
           /\ Configured(q, s).cap <= MaxCap
  <1>1. s.mode \in {"followup", "collect"} /\ s.drop \in {"old", "new", "summarize"} /\ s.cap \in Nat \ {0}
    BY FollowupAssumption
  <1>2. s.cap <= MaxCap
    BY MaxCapFacts
  <1> QED
    BY <1>1, <1>2 DEF Configured, QueueObject

\* How many items a push drops.
LEMMA DropCountFacts ==
    ASSUME NEW q \in QueueObject
    PROVE  /\ DropCount(q) \in 0..Len(q.items) /\ Len(q.items) \in Nat
           /\ Len(q.items) - DropCount(q) + 1 <= q.cap
  <1>1. Len(q.items) \in Nat /\ q.cap \in Nat \ {0}
    BY DEF QueueObject
  <1> QED
    BY <1>1 DEF DropCount

\* The summary of a queue object is replaced.
Summarised(q, n, l) == [q EXCEPT !.dropped = n, !.lines = l]

\* It has that summary, and the rest is as it was.
LEMMA SummaryFacts ==
    ASSUME NEW q \in QueueObject, NEW n \in Nat, NEW l \in Seq(Messages)
    PROVE  /\ Summarised(q, n, l) \in QueueObject
           /\ Summarised(q, n, l).items = q.items
           /\ Summarised(q, n, l).lines = l /\ Summarised(q, n, l).dropped = n
  BY DEF QueueObject, Summarised

\* What a push makes of a queue object: the lines of the summary and their number.
DroppedLines(q) == q.lines \o SubSeq(q.items, 1, DropCount(q))

\* The message comes last, the dropped items become lines under policy "summarize".
LEMMA PushedFacts ==
    ASSUME NEW q \in QueueObject, NEW m \in Messages
    PROVE  /\ Pushed(q, m) \in QueueObject
           /\ Pushed(q, m).items = Append(Rest(q.items, DropCount(q)), m)
           /\ IF DropCount(q) = 0 \/ q.drop # "summarize"
              THEN Pushed(q, m).lines = q.lines /\ Pushed(q, m).dropped = q.dropped
              ELSE /\ Pushed(q, m).lines = LastOf(DroppedLines(q), q.cap)
                   /\ Pushed(q, m).dropped = q.dropped + DropCount(q)
  <1> DEFINE k == DropCount(q)
             all == DroppedLines(q)
             kept == [q EXCEPT !.items = Append(SubSeq(q.items, k + 1, Len(q.items)), m), !.lastRun = TRUE]
             new == Summarised(kept, kept.dropped + k, LastOf(all, q.cap))
  <1>1. q.items \in Seq(Messages) /\ q.lines \in Seq(Messages) /\ k \in 0..Len(q.items) /\ q.cap \in Nat
        /\ k \in Nat /\ q.dropped \in Nat
    BY DropCountFacts DEF QueueObject
  <1>2. Rest(q.items, k) \in Seq(Messages) /\ SubSeq(q.items, 1, k) \in Seq(Messages)
    <2> HIDE DEF k
    <2> QED
      BY <1>1, RestFacts, FirstFacts
  <1>3. Append(Rest(q.items, k), m) \in Seq(Messages) /\ all \in Seq(Messages)
    BY <1>1, <1>2, AppendProperties, ConcatProperties DEF DroppedLines
  <1>4. Pushed(q, m) = IF k = 0 \/ q.drop # "summarize" THEN kept ELSE new
    BY DEF Pushed, DroppedLines, Summarised
  <1> HIDE DEF k, all
  <1>5. LastOf(all, q.cap) \in Seq(Messages)
    BY <1>1, <1>3, LastOfFacts
  <1>6. /\ kept \in QueueObject /\ kept.items = Append(Rest(q.items, k), m)
        /\ kept.lines = q.lines /\ kept.dropped = q.dropped
    BY <1>3 DEF QueueObject, Rest
  <1> HIDE DEF kept
  <1>7. /\ new \in QueueObject /\ new.items = kept.items
        /\ new.lines = LastOf(all, q.cap) /\ new.dropped = kept.dropped + k
    <2>1. kept.dropped + k \in Nat
      BY <1>1, <1>6
    <2> QED
      BY <1>5, <1>6, <2>1, SummaryFacts
  <1> HIDE DEF new
  <1>8. CASE k = 0 \/ q.drop # "summarize"
    BY <1>4, <1>6, <1>8 DEF k
  <1>9. CASE ~(k = 0 \/ q.drop # "summarize")
    BY <1>4, <1>6, <1>7, <1>9 DEF k, all
  <1> QED
    BY <1>8, <1>9

\* The other objects do not mind a further message.
LEMMA GrowsSound ==
    ASSUME NEW q, NEW d, NEW A \in Seq(Messages), NEW H, NEW M, NEW N, ObjectSound(q, d, A, H, M),
           M \subseteq N, NEW m \in Messages
    PROVE  ObjectSound(q, d, Append(A, m), H, N)
  <1> DEFINE B == Append(A, m)
  <1>1. ToSet(B) = ToSet(A) \cup {m} /\ \A a, b : Before(A, a, b) => Before(B, a, b)
    BY BeforeFacts
  <1> HIDE DEF B
  <1>2. ObjectTypes(q, d)
    BY DEF ObjectSound
  <1>3. KeepsNew(q.items, d.msgs, B, H)
    BY <1>1 DEF ObjectSound, KeepsNew
  <1>4. InOrder(q.items, d.msgs, B)
    BY <1>1 DEF ObjectSound, InOrder
  <1>5. AfterHanded(q.items, B, H, N)
    BY <1>1 DEF ObjectSound, AfterHanded, Forked
  <1>6. OneBatch(q, d, N)
    BY DEF ObjectSound, OneBatch
  <1>7. SendsPrefix(q, d, N)
    BY DEF ObjectSound, SendsPrefix, Forked
  <1>8. ObjectSound(q, d, B, H, N)
    BY <1>2, <1>3, <1>4, <1>5, <1>6, <1>7 DEF ObjectSound
  <1> QED
    BY <1>8 DEF B

\* A push: a new message at the end, and with a full queue the first ones are dropped.
LEMMA PushedSound ==
    ASSUME NEW q, NEW d, NEW A \in Seq(Messages), NEW H \in [Messages -> Nat], NEW M, NEW N,
           ObjectSound(q, d, A, H, M), q.cap <= MaxCap, M \subseteq N,
           NEW m \in Messages, m \notin ToSet(A),
           \A x \in Messages : H[x] > 0 => x \in ToSet(A),
           (Sends(d) /\ DropCount(q) > 0) => "overflowDuringSend" \in N,
           d.at = "collecting" => "arrivedWhileCollecting" \in N
    PROVE  ObjectSound(Pushed(q, m), d, Append(A, m), H, N)
  <1> DEFINE p == Pushed(q, m)
             k == DropCount(q)
             B == Append(A, m)
             n == Len(p.items)
  <1>1. /\ q \in QueueObject /\ d \in Drain /\ q.items \in Seq(Messages) /\ d.msgs \in Seq(Messages)
        /\ Len(q.items) \in Nat /\ q.lines \in Seq(Messages) /\ Len(q.lines) \in Nat /\ q.dropped \in Nat
        /\ Len(d.msgs) \in Nat /\ q.cap \in Nat
        /\ \A i \in 1..Len(d.msgs) : d.msgs[i] \in Messages
        /\ Len(q.lines) <= MaxCap /\ q.dropped >= Len(q.lines) /\ MaxCap \in Nat
    BY FieldTypes, MaxCapFacts DEF ObjectSound, ObjectTypes
  <1>2. k \in 0..Len(q.items) /\ k \in Nat /\ Len(q.items) - k + 1 <= q.cap
    BY <1>1, DropCountFacts
  <1>3. /\ ToSet(B) = ToSet(A) \cup {m}
        /\ \A a, b : Before(A, a, b) => Before(B, a, b)
        /\ \A a \in ToSet(A) : Before(B, a, m)
    BY BeforeFacts
  <1>4. p \in QueueObject /\ p.items = Append(Rest(q.items, k), m)
    BY <1>1, PushedFacts
  <1>5. IF k = 0 \/ q.drop # "summarize"
        THEN p.lines = q.lines /\ p.dropped = q.dropped
        ELSE p.lines = LastOf(DroppedLines(q), q.cap) /\ p.dropped = q.dropped + k
    BY <1>1, PushedFacts
  <1>6. DroppedLines(q) \in Seq(Messages) /\ Len(DroppedLines(q)) = Len(q.lines) + k
    <2>1. SubSeq(q.items, 1, k) \in Seq(Messages) /\ Len(SubSeq(q.items, 1, k)) = k
      <3> HIDE DEF k
      <3> QED
        BY <1>1, <1>2, FirstFacts
    <2> QED
      BY <1>1, <2>1, ConcatProperties DEF DroppedLines
  <1> HIDE DEF p, k, B
  <1>7. /\ Rest(q.items, k) \in Seq(Messages) /\ Len(Rest(q.items, k)) = Len(q.items) - k
        /\ \A i \in 1..Len(Rest(q.items, k)) : i + k \in 1..Len(q.items) /\ Rest(q.items, k)[i] = q.items[i + k]
    <2>1. /\ Rest(q.items, k) \in Seq(Messages)
          /\ Len(Rest(q.items, k)) = IF k <= Len(q.items) THEN Len(q.items) - k ELSE 0
          /\ \A i \in 1..Len(Rest(q.items, k)) : i + k \in 1..Len(q.items) /\ Rest(q.items, k)[i] = q.items[i + k]
      BY <1>1, <1>2, RestFacts
    <2>2. k <= Len(q.items)
      BY <1>1, <1>2
    <2> QED
      BY <2>1, <2>2
  <1>8. /\ n = Len(q.items) - k + 1 /\ n \in Nat /\ p.items[n] = m
        /\ \A i \in 1..(n - 1) : i + k \in 1..Len(q.items) /\ p.items[i] = q.items[i + k]
    <2> DEFINE t == Rest(q.items, k)
    <2>1. Len(p.items) = Len(t) + 1 /\ p.items[Len(t) + 1] = m /\ \A i \in 1..Len(t) : p.items[i] = t[i]
      BY <1>4, <1>7, AppendProperties
    <2>2. /\ Len(t) = Len(q.items) - k /\ Len(t) \in Nat
          /\ \A i \in 1..Len(t) : i + k \in 1..Len(q.items) /\ t[i] = q.items[i + k]
      BY <1>1, <1>2, <1>7
    <2> HIDE DEF t
    <2>3. n = Len(t) + 1 /\ n - 1 = Len(t)
      BY <2>1, <2>2
    <2>4. n = Len(q.items) - k + 1 /\ n \in Nat
      BY <1>1, <1>2, <2>2, <2>3
    <2>5. p.items[n] = m
      BY <2>1, <2>3
    <2>6. ASSUME NEW i \in 1..(n - 1) PROVE i + k \in 1..Len(q.items) /\ p.items[i] = q.items[i + k]
      BY <2>1, <2>2, <2>3
    <2> QED
      BY <2>4, <2>5, <2>6
  <1> HIDE DEF n
  <1>9. \A i \in 1..n : i = n \/ i \in 1..(n - 1)
    BY <1>8
  <1>10. ObjectTypes(p, d)
    <2>1. n <= MaxCap
      BY <1>1, <1>2, <1>8
    <2>2. Len(p.lines) <= MaxCap /\ p.dropped >= Len(p.lines)
      <3>1. /\ LastOf(DroppedLines(q), q.cap) \in Seq(Messages)
            /\ Len(LastOf(DroppedLines(q), q.cap)) <= q.cap
            /\ Len(LastOf(DroppedLines(q), q.cap)) <= Len(q.lines) + k
        BY <1>1, <1>6, LastOfFacts
      <3>2. Len(LastOf(DroppedLines(q), q.cap)) \in Nat
        BY <3>1
      <3>3. CASE k = 0 \/ q.drop # "summarize"
        BY <1>1, <1>5, <3>3
      <3>4. CASE ~(k = 0 \/ q.drop # "summarize")
        <4>1. p.lines = LastOf(DroppedLines(q), q.cap) /\ p.dropped = q.dropped + k
          BY <1>5, <3>4
        <4>2. q.cap <= MaxCap
          OBVIOUS
        <4>3. Len(p.lines) \in Nat /\ Len(p.lines) <= q.cap /\ Len(p.lines) <= Len(q.lines) + k
          BY <3>1, <3>2, <4>1
        <4> HIDE DEF p, k
        <4> QED
          BY <1>1, <1>2, <4>1, <4>2, <4>3
      <3> QED
        BY <3>3, <3>4
    <2> QED
      BY <1>4, <2>1, <2>2 DEF ObjectSound, ObjectTypes, n
  <1>11. KeepsNew(p.items, d.msgs, B, H)
    <2>1. H[m] = 0
      OBVIOUS
    <2>2. ASSUME NEW i \in 1..(n - 1) PROVE p.items[i] \in ToSet(B) /\ H[p.items[i]] = 0
      <3>1. i + k \in 1..Len(q.items) /\ p.items[i] = q.items[i + k]
        BY <1>8
      <3>2. q.items[i + k] \in ToSet(A) /\ H[q.items[i + k]] = 0
        BY <3>1 DEF ObjectSound, KeepsNew
      <3> QED
        BY <1>3, <3>1, <3>2
    <2> QED
      BY <1>3, <1>8, <1>9, <2>1, <2>2 DEF ObjectSound, KeepsNew, n
  <1>12. InOrder(p.items, d.msgs, B)
    <2>1. \A i \in 1..(n - 1) : p.items[i] \in ToSet(A)
      BY <1>8 DEF ObjectSound, KeepsNew
    <2>2. ASSUME NEW i \in 1..n, NEW j \in 1..n, i < j PROVE Before(B, p.items[i], p.items[j])
      <3>1. i \in 1..(n - 1)
        BY <1>8, <2>2
      <3>2. CASE j = n
        BY <1>3, <1>8, <2>1, <3>1, <3>2
      <3>3. CASE j \in 1..(n - 1)
        <4>1. i + k < j + k
          BY <1>2, <2>2
        <4> QED
          BY <1>3, <1>8, <3>1, <3>3, <4>1 DEF ObjectSound, InOrder
      <3> QED
        BY <1>9, <3>2, <3>3
    <2>3. ASSUME NEW h \in 1..Len(d.msgs), NEW i \in 1..n, i > Len(d.msgs)
          PROVE  Before(B, d.msgs[h], p.items[i])
      <3>1. CASE i = n
        BY <1>3, <1>8, <3>1 DEF ObjectSound, KeepsNew
      <3>2. CASE i \in 1..(n - 1)
        <4>1. i + k > Len(d.msgs)
          BY <1>1, <1>2, <2>3
        <4> QED
          BY <1>3, <1>8, <3>2, <4>1 DEF ObjectSound, InOrder
      <3> QED
        BY <1>9, <3>1, <3>2
    <2> QED
      BY <2>2, <2>3 DEF InOrder, n
  <1>13. AfterHanded(p.items, B, H, N)
    <2> SUFFICES ASSUME ~Forked(M), NEW x \in Messages, H[x] > 0, NEW i \in 1..n
                 PROVE  Before(B, x, p.items[i])
      BY DEF AfterHanded, Forked, n
    <2>1. CASE i = n
      BY <1>3, <1>8, <2>1
    <2>2. CASE i \in 1..(n - 1)
      BY <1>3, <1>8, <2>2 DEF ObjectSound, AfterHanded
    <2> QED
      BY <1>9, <2>1, <2>2
  <1>14. OneBatch(p, d, N)
    BY DEF ObjectSound, OneBatch
  <1>15. SendsPrefix(p, d, N)
    <2> SUFFICES ASSUME Sends(d), ~Forked(N), "overflowDuringSend" \notin N
                 PROVE  /\ Len(d.msgs) <= n
                        /\ \A i \in 1..Len(d.msgs) : p.items[i] = d.msgs[i]
                        /\ d.lines # << >> => p.lines = d.lines
      BY DEF SendsPrefix, n
    <2>1. k = 0
      BY <1>2 DEF k
    <2>2. /\ Len(d.msgs) <= Len(q.items)
          /\ \A i \in 1..Len(d.msgs) : q.items[i] = d.msgs[i]
          /\ d.lines # << >> => q.lines = d.lines
      BY DEF ObjectSound, SendsPrefix, Forked
    <2>3. n = Len(q.items) + 1 /\ \A i \in 1..Len(q.items) : i \in 1..(n - 1) /\ i + k = i
      BY <1>1, <1>8, <2>1
    <2>4. Len(d.msgs) <= n
      BY <1>1, <2>2, <2>3
    <2>5. ASSUME NEW i \in 1..Len(d.msgs) PROVE p.items[i] = d.msgs[i]
      <3>1. i \in 1..Len(q.items)
        BY <1>1, <2>2
      <3>2. i \in 1..(n - 1) /\ i + k = i
        BY <2>3, <3>1
      <3>3. p.items[i] = q.items[i + k]
        BY <1>8, <3>2
      <3> QED
        BY <2>2, <3>2, <3>3
    <2>6. p.lines = q.lines
      BY <1>5, <2>1
    <2> QED
      BY <2>2, <2>4, <2>5, <2>6
  <1>16. ObjectSound(p, d, B, H, N)
    BY <1>10, <1>11, <1>12, <1>13, <1>14, <1>15 DEF ObjectSound
  <1> QED
    BY <1>16 DEF p, B

\* A send of another object: its messages are not here, and unless a clear has forked
\* the queue there is nothing here.
LEMMA OthersHanded ==
    ASSUME NEW q, NEW d, NEW A, NEW H \in [Messages -> Nat], NEW G, NEW M, NEW N,
           ObjectSound(q, d, A, H, M), M \subseteq N,
           \A m \in ToSet(q.items) \cup ToSet(d.msgs) : G[m] = H[m],
           ~Forked(N) => q.items = << >>
    PROVE  ObjectSound(q, d, A, G, N)
  <1>1. /\ q.items \in Seq(Messages) /\ d.msgs \in Seq(Messages)
    BY FieldTypes DEF ObjectSound
  <1>2. /\ \A i \in 1..Len(q.items) : q.items[i] \in ToSet(q.items)
        /\ \A i \in 1..Len(d.msgs) : d.msgs[i] \in ToSet(d.msgs)
    BY <1>1, MembersOf
  <1>3. KeepsNew(q.items, d.msgs, A, G)
    BY <1>2 DEF ObjectSound, KeepsNew
  <1>4. AfterHanded(q.items, A, G, N)
    <2>1. ~Forked(N) => Len(q.items) = 0
      OBVIOUS
    <2> QED
      BY <2>1 DEF AfterHanded
  <1>5. OneBatch(q, d, N) /\ SendsPrefix(q, d, N)
    BY DEF ObjectSound, OneBatch, SendsPrefix, Forked
  <1> QED
    BY <1>3, <1>4, <1>5 DEF ObjectSound

\* A queue that does not cross channels has one destination.
LEMMA NotCross ==
    ASSUME NEW s \in Seq(Messages), ~IsCrossChannel(s)
    PROVE  OneDestination(s)
  <1> DEFINE routes == {RouteOf[s[i]] : i \in DOMAIN s}
  <1>1. DOMAIN s = 1..Len(s) /\ Len(s) \in Nat
    BY LenProperties
  <1>2. Unroutable \notin routes /\ ~(Cardinality(routes) > 1)
    BY DEF IsCrossChannel
  <1>3. IsFiniteSet(routes)
    <2>1. IsFiniteSet(DOMAIN s)
      BY <1>1, FS_Interval
    <2> QED
      <3> DEFINE f == [i \in DOMAIN s |-> RouteOf[s[i]]]
      <3>1. f \in Surjection(DOMAIN s, routes)
        BY DEF Surjection
      <3> HIDE DEF f, routes
      <3> QED
        BY <2>1, <3>1, FS_Surjection
  <1>4. ASSUME NEW a \in routes, NEW b \in routes PROVE a = b
    <2> SUFFICES ASSUME a # b PROVE FALSE
      OBVIOUS
    <2>1. Cardinality({a, b}) = 2 /\ IsFiniteSet({a, b})
      <3> DEFINE one == {a}
      <3>1. Cardinality(one) = 1 /\ IsFiniteSet(one) /\ b \notin one
        BY FS_Singleton
      <3>2. one \cup {b} = {a, b}
        OBVIOUS
      <3> HIDE DEF one
      <3>3. Cardinality(one \cup {b}) = Cardinality(one) + 1 /\ IsFiniteSet(one \cup {b})
        BY <3>1, FS_AddElement
      <3>4. Cardinality({a, b}) = Cardinality(one) + 1 /\ IsFiniteSet({a, b})
        BY <3>2, <3>3
      <3> QED
        BY <3>1, <3>4
    <2>2. Cardinality({a, b}) <= Cardinality(routes)
      <3>1. {a, b} \subseteq routes
        OBVIOUS
      <3> HIDE DEF routes
      <3> QED
        BY <1>3, <3>1, FS_Subset
    <2>3. Cardinality(routes) \in Nat
      BY <1>3, FS_CardinalityType
    <2> QED
      BY <1>2, <2>1, <2>2, <2>3
  <1>5. \A i \in 1..Len(s) : RouteOf[s[i]] \in routes
    BY <1>1
  <1> HIDE DEF routes
  <1> QED
    BY <1>2, <1>4, <1>5 DEF OneDestination

-----------------------------------------------------------------------------
(* The queue of the session: Q are the queue objects, D their drains, r the *)
(* registered one, A the accepted messages, H how often each was handed     *)
(* over, M the hazardous events, R the reported and X the discarded ones.   *)

Lossless(M) == M \cap Lossy = {}
Empty(q) == q.items = << >> /\ q.lines = << >>
Held(q, d) == ToSet(q.items) \cup ToSet(d.msgs)

SoundTypes(Q, D, r, A, H, R, X) ==
    /\ Q \in [Objects -> QueueObject] /\ D \in [Objects -> Drain]
    /\ r \in Objects \cup {None}
    /\ A \in Seq(Messages) /\ Distinct(A)
    /\ H \in [Messages -> 0..1] /\ \A m \in Messages : H[m] > 0 => m \in ToSet(A)
    /\ R \subseteq Messages /\ X \subseteq Messages

AllSound(Q, D, A, H, M) == \A o \in Objects : ObjectSound(Q[o], D[o], A, H, M)

\* No message is in the hands of two objects.
Apart(Q, D) == \A o, p \in Objects : o # p => Held(Q[o], D[o]) \cap Held(Q[p], D[p]) = {}

\* Unless a clear has forked the queue, only the registered object is drained.
OnlyRegistered(D, r, M) == ~Forked(M) => \A o \in Objects : D[o].at # "idle" => o = r

\* An object that is not reachable any more has lost nothing.
Tidy(Q, D, r, M) ==
    Lossless(M) => \A o \in Objects : o = r \/ D[o].at # "idle" \/ Empty(Q[o])

Found(Q, m) == \E o \in Objects : m \in ToSet(Q[o].items) \/ m \in ToSet(Q[o].lines)

Kept(Q, A, H, M, R, X) ==
    Lossless(M) => \A m \in ToSet(A) : Found(Q, m) \/ H[m] > 0 \/ m \in R \cup X

Sound(Q, D, r, A, H, M, R, X) ==
    /\ SoundTypes(Q, D, r, A, H, R, X)
    /\ AllSound(Q, D, A, H, M)
    /\ Apart(Q, D)
    /\ OnlyRegistered(D, r, M)
    /\ Tidy(Q, D, r, M)
    /\ Kept(Q, A, H, M, R, X)

\* Objects that are neither registered nor being drained are not there.
Reachable(Q, D, r) == \A o \in Objects : o = r \/ D[o].at # "idle" \/ Q[o] = NoQueue

Settled(Q, D, r, A, H, M, R, X) == Sound(Q, D, r, A, H, M, R, X) /\ Reachable(Q, D, r)

\* Without a loss the queue has not forked.
LEMMA LosslessFacts ==
    ASSUME NEW M, Lossless(M)
    PROVE  /\ ~Forked(M) /\ "overflowDuringSend" \notin M /\ "summaryTookItem" \notin M
  BY DEF Lossless, Forked, Lossy

\* What has not happened so far had not happened before.
LEMMA LosslessBefore ==
    ASSUME NEW M, NEW N, M \subseteq N
    PROVE  /\ Lossless(N) => Lossless(M)
           /\ ~Forked(N) => ~Forked(M)
  BY DEF Lossless, Forked

\* The drain of object o goes on to something else, with the same items.
LEMMA DrainSteps ==
    ASSUME NEW Q, NEW D, NEW r, NEW A, NEW H, NEW M, NEW R, NEW X, Sound(Q, D, r, A, H, M, R, X),
           NEW o \in Objects, NEW e \in Drain, ObjectSound(Q[o], e, A, H, M),
           ToSet(e.msgs) \subseteq ToSet(Q[o].items), ~Forked(M) => o = r
    PROVE  Sound(Q, [D EXCEPT ![o] = e], r, A, H, M, R, X)
  <1> DEFINE E == [D EXCEPT ![o] = e]
  <1>1. /\ E \in [Objects -> Drain] /\ E[o] = e
        /\ \A p \in Objects : p # o => E[p] = D[p]
    BY DEF Sound, SoundTypes
  <1> HIDE DEF E
  <1>2. SoundTypes(Q, E, r, A, H, R, X) /\ Kept(Q, A, H, M, R, X)
    BY <1>1 DEF Sound, SoundTypes
  <1>3. AllSound(Q, E, A, H, M)
    BY <1>1 DEF Sound, AllSound
  <1>4. Apart(Q, E)
    <2>1. Held(Q[o], E[o]) \subseteq Held(Q[o], D[o])
      BY <1>1 DEF Held
    <2> QED
      BY <1>1, <2>1 DEF Sound, Apart
  <1>5. OnlyRegistered(E, r, M)
    BY <1>1 DEF Sound, OnlyRegistered
  <1>6. Tidy(Q, E, r, M)
    BY <1>1, LosslessFacts DEF Sound, Tidy
  <1>7. Sound(Q, E, r, A, H, M, R, X)
    BY <1>2, <1>3, <1>4, <1>5, <1>6 DEF Sound
  <1> QED
    BY <1>7 DEF E

\* The registered object is forgotten, when nothing of it is lost.
LEMMA Forgets ==
    ASSUME NEW Q, NEW D, NEW r, NEW A, NEW H, NEW M, NEW R, NEW X, Sound(Q, D, r, A, H, M, R, X),
           ~Forked(M) => \A o \in Objects : D[o].at = "idle",
           (Lossless(M) /\ r # None) => Empty(Q[r])
    PROVE  Sound(Q, D, None, A, H, M, R, X)
  <1>1. SoundTypes(Q, D, None, A, H, R, X)
    BY DEF Sound, SoundTypes
  <1>2. OnlyRegistered(D, None, M)
    BY DEF OnlyRegistered
  <1>3. Tidy(Q, D, None, M)
    BY FollowupAssumption DEF Sound, Tidy
  <1> QED
    BY <1>1, <1>2, <1>3 DEF Sound

\* Install, for any state before and after it.
Installed(Q, D, r, q1, d1, r1) ==
    /\ r1 = r
    /\ d1 = D
    /\ q1 = [o \in Objects |-> IF o = r \/ D[o].at # "idle" THEN Q[o] ELSE NoQueue]

\* What becomes unreachable leaves nothing behind.
LEMMA InstallSettles ==
    ASSUME NEW Q, NEW D, NEW r, NEW A, NEW H, NEW M, NEW R, NEW X, Sound(Q, D, r, A, H, M, R, X),
           NEW q1, NEW d1, NEW r1, Installed(Q, D, r, q1, d1, r1)
    PROVE  Settled(q1, d1, r1, A, H, M, R, X)
  <1>1. /\ NoQueue \in QueueObject /\ NoQueue.items = << >> /\ NoQueue.lines = << >>
    BY FreshQueue
  <1>2. Q \in [Objects -> QueueObject] /\ r1 = r /\ d1 = D
    BY DEF Sound, SoundTypes, Installed
  <1>3. /\ q1 \in [Objects -> QueueObject]
        /\ \A o \in Objects : q1[o] = IF o = r \/ D[o].at # "idle" THEN Q[o] ELSE NoQueue
    BY <1>1, <1>2 DEF Installed
  <1>4. SoundTypes(q1, D, r, A, H, R, X) /\ OnlyRegistered(D, r, M)
    BY <1>3 DEF Sound, SoundTypes
  <1>5. AllSound(q1, D, A, H, M)
    <2> SUFFICES ASSUME NEW o \in Objects PROVE ObjectSound(q1[o], D[o], A, H, M)
      BY DEF AllSound
    <2>1. ObjectSound(Q[o], D[o], A, H, M) /\ Q[o] \in QueueObject
      BY <1>2 DEF Sound, AllSound
    <2>2. CASE o = r \/ D[o].at # "idle"
      BY <1>3, <2>1, <2>2
    <2>3. CASE ~(o = r \/ D[o].at # "idle")
      <3>1. ~Sends(D[o]) /\ q1[o] = NoQueue
        BY <1>3, <2>3 DEF Sends
      <3>2. ObjectSound(NoQueue, D[o], A, H, M)
        BY <1>1, <2>1, <3>1, EmptySound
      <3> QED
        BY <3>1, <3>2
    <2> QED
      BY <2>2, <2>3
  <1>6. Apart(q1, D)
    <2>1. ASSUME NEW o \in Objects PROVE Held(q1[o], D[o]) \subseteq Held(Q[o], D[o])
      <3>1. ToSet(NoQueue.items) = {}
        BY <1>1 DEF ToSet
      <3> QED
        BY <1>3, <3>1 DEF Held
    <2> QED
      BY <2>1 DEF Sound, Apart
  <1>7. Tidy(q1, D, r, M)
    BY <1>1, <1>3 DEF Sound, Tidy, Empty
  <1>8. Kept(q1, A, H, M, R, X)
    <2> SUFFICES ASSUME Lossless(M), NEW m, Found(Q, m) PROVE Found(q1, m)
      BY DEF Sound, Kept
    <2>1. PICK o \in Objects : m \in ToSet(Q[o].items) \/ m \in ToSet(Q[o].lines)
      BY DEF Found
    <2>2. ~Empty(Q[o])
      BY <2>1 DEF Empty, ToSet
    <2>3. q1[o] = Q[o]
      BY <1>3, <2>2 DEF Sound, Tidy
    <2> QED
      BY <2>1, <2>3 DEF Found
  <1>9. Reachable(q1, D, r)
    BY <1>3 DEF Reachable
  <1> QED
    BY <1>2, <1>4, <1>5, <1>6, <1>7, <1>8, <1>9 DEF Settled, Sound

\* scheduleFollowupDrain, for any state before and after it.
Scheduled(Q, D, r, q1, d1, r1) ==
    IF r = None \/ (r # None /\ D[r].at # "idle") THEN Installed(Q, D, r, q1, d1, r1)
    ELSE IF HasWork(Q[r]) THEN Installed(Q, [D EXCEPT ![r] = Debouncing(FALSE)], r, q1, d1, r1)
    ELSE Installed(Q, D, None, q1, d1, r1)

\* An object without work is empty.
LEMMA WithoutWork ==
    ASSUME NEW q, NEW d, ObjectTypes(q, d), ~HasWork(q)
    PROVE  Empty(q)
  <1>1. q.items = << >> /\ q.dropped \in Nat /\ ~(q.dropped > 0) /\ q.dropped >= Len(q.lines)
        /\ q.lines \in Seq(Messages) /\ Len(q.lines) \in Nat
    BY FieldTypes DEF HasWork, ObjectTypes
  <1>2. Len(q.lines) = 0
    BY <1>1
  <1> QED
    BY <1>1, <1>2, EmptySeq DEF Empty

\* The drain of the registered object starts, or nothing is lost with that object.
LEMMA ScheduleSettles ==
    ASSUME NEW Q, NEW D, NEW r, NEW A, NEW H, NEW M, NEW R, NEW X, Sound(Q, D, r, A, H, M, R, X),
           NEW q1, NEW d1, NEW r1, Scheduled(Q, D, r, q1, d1, r1)
    PROVE  Settled(q1, d1, r1, A, H, M, R, X)
  <1>1. CASE r = None \/ (r # None /\ D[r].at # "idle")
    BY <1>1, InstallSettles DEF Scheduled
  <1>2. CASE ~(r = None \/ (r # None /\ D[r].at # "idle"))
    <2>1. r \in Objects /\ D[r].at = "idle"
      BY <1>2 DEF Sound, SoundTypes
    <2>2. ObjectSound(Q[r], D[r], A, H, M)
      BY <2>1 DEF Sound, AllSound
    <2>3. CASE HasWork(Q[r])
      <3> DEFINE e == Debouncing(FALSE)
      <3>1. e \in Drain /\ e.at = "debouncing" /\ e.msgs = << >>
        BY RestingDrains
      <3>2. Installed(Q, [D EXCEPT ![r] = e], r, q1, d1, r1)
        BY <1>2, <2>3 DEF Scheduled
      <3> HIDE DEF e
      <3>3. ToSet(e.msgs) = {} /\ ~Sends(e) /\ e.at # "collecting"
        BY <3>1 DEF ToSet, Sends
      <3>4. ObjectSound(Q[r], e, A, H, M)
        BY <2>2, <3>1, <3>3, RestsSound
      <3>5. Sound(Q, [D EXCEPT ![r] = e], r, A, H, M, R, X)
        BY <2>1, <3>1, <3>3, <3>4, DrainSteps
      <3> QED
        BY <3>2, <3>5, InstallSettles
    <2>4. CASE ~HasWork(Q[r])
      <3>1. Empty(Q[r])
        BY <2>2, <2>4, WithoutWork DEF ObjectSound
      <3>2. ~Forked(M) => \A o \in Objects : D[o].at = "idle"
        BY <2>1 DEF Sound, OnlyRegistered
      <3>3. Sound(Q, D, None, A, H, M, R, X)
        BY <3>1, <3>2, Forgets
      <3>4. Installed(Q, D, None, q1, d1, r1)
        BY <1>2, <2>4 DEF Scheduled
      <3> QED
        BY <3>3, <3>4, InstallSettles
    <2> QED
      BY <2>3, <2>4
  <1> QED
    BY <1>1, <1>2

\* The end of the drain loop, and its next round, once the drain of o sends nothing.
LEMMA LoopSettles ==
    ASSUME NEW Q, NEW D, NEW r, NEW A, NEW H, NEW M, NEW R, NEW X, Sound(Q, D, r, A, H, M, R, X),
           NEW o \in Objects, D[o].at = "idle", ~Forked(M) => o = r, NEW force \in BOOLEAN,
           NEW q1, NEW d1, NEW r1
    PROVE  /\ Installed(Q, [D EXCEPT ![o] = Debouncing(force)], r, q1, d1, r1)
                => Settled(q1, d1, r1, A, H, M, R, X)
           /\ ~HasWork(Q[o]) /\ Installed(Q, D, None, q1, d1, r1)
                => Settled(q1, d1, r1, A, H, M, R, X)
  <1>1. ObjectSound(Q[o], D[o], A, H, M)
    BY DEF Sound, AllSound
  <1>2. ASSUME Installed(Q, [D EXCEPT ![o] = Debouncing(force)], r, q1, d1, r1)
        PROVE  Settled(q1, d1, r1, A, H, M, R, X)
    <2> DEFINE e == Debouncing(force)
    <2>1. e \in Drain /\ e.at = "debouncing" /\ e.msgs = << >>
      BY RestingDrains
    <2>2. ToSet(e.msgs) = {} /\ ~Sends(e) /\ e.at # "collecting"
      BY <2>1 DEF ToSet, Sends
    <2>3. Installed(Q, [D EXCEPT ![o] = e], r, q1, d1, r1)
      BY <1>2
    <2> HIDE DEF e
    <2>4. ObjectSound(Q[o], e, A, H, M)
      BY <1>1, <2>1, <2>2, RestsSound
    <2>5. Sound(Q, [D EXCEPT ![o] = e], r, A, H, M, R, X)
      BY <2>1, <2>2, <2>4, DrainSteps
    <2> QED
      BY <2>3, <2>5, InstallSettles
  <1>3. ASSUME ~HasWork(Q[o]), Installed(Q, D, None, q1, d1, r1)
        PROVE  Settled(q1, d1, r1, A, H, M, R, X)
    <2>1. Empty(Q[o])
      BY <1>1, <1>3, WithoutWork DEF ObjectSound
    <2>2. ~Forked(M) => \A p \in Objects : D[p].at = "idle"
      BY DEF Sound, OnlyRegistered
    <2>3. Lossless(M) => o = r
      BY LosslessFacts
    <2>4. Sound(Q, D, None, A, H, M, R, X)
      BY <2>1, <2>2, <2>3, Forgets
    <2> QED
      BY <1>3, <2>4, InstallSettles
  <1> QED
    BY <1>2, <1>3

-----------------------------------------------------------------------------
(* What the operations do to the queue of the session.                      *)

\* More hazardous events only weaken what is asked.
LEMMA MoreMishaps ==
    ASSUME NEW Q, NEW D, NEW r, NEW A, NEW H, NEW M, NEW R, NEW X, Sound(Q, D, r, A, H, M, R, X),
           NEW N, M \subseteq N
    PROVE  Sound(Q, D, r, A, H, N, R, X)
  <1>1. AllSound(Q, D, A, H, N)
    <2> SUFFICES ASSUME NEW o \in Objects PROVE ObjectSound(Q[o], D[o], A, H, N)
      BY DEF AllSound
    <2>1. ObjectSound(Q[o], D[o], A, H, M) /\ Q[o] \in QueueObject
      BY DEF Sound, SoundTypes, AllSound
    <2> QED
      BY <2>1, SameItems
  <1>2. OnlyRegistered(D, r, N) /\ Tidy(Q, D, r, N) /\ Kept(Q, A, H, N, R, X)
    BY LosslessBefore DEF Sound, OnlyRegistered, Tidy, Kept
  <1> QED
    BY <1>1, <1>2 DEF Sound

\* The registered object, or one that becomes it, gets new settings.
LEMMA Reconfigured ==
    ASSUME NEW Q, NEW D, NEW r, NEW A, NEW H, NEW M, NEW R, NEW X, Sound(Q, D, r, A, H, M, R, X),
           NEW o \in Objects, r = o \/ r = None, NEW p \in QueueObject,
           p.items = Q[o].items, p.lines = Q[o].lines, p.dropped = Q[o].dropped
    PROVE  Sound([Q EXCEPT ![o] = p], D, o, A, H, M, R, X)
  <1> DEFINE P == [Q EXCEPT ![o] = p]
  <1>1. /\ P \in [Objects -> QueueObject] /\ P[o] = p
        /\ \A x \in Objects : x # o => P[x] = Q[x]
    BY DEF Sound, SoundTypes
  <1> HIDE DEF P
  <1>2. SoundTypes(P, D, o, A, H, R, X)
    BY <1>1 DEF Sound, SoundTypes
  <1>3. \A x \in Objects : P[x].items = Q[x].items /\ P[x].lines = Q[x].lines
    BY <1>1
  <1>4. AllSound(P, D, A, H, M)
    <2> SUFFICES ASSUME NEW x \in Objects PROVE ObjectSound(P[x], D[x], A, H, M)
      BY DEF AllSound
    <2>1. ObjectSound(Q[x], D[x], A, H, M)
      BY DEF Sound, AllSound
    <2>2. CASE x = o
      BY <1>1, <2>1, <2>2, SameItems
    <2>3. CASE x # o
      BY <1>1, <2>1, <2>3
    <2> QED
      BY <2>2, <2>3
  <1>5. Apart(P, D)
    BY <1>3 DEF Sound, Apart, Held
  <1>6. OnlyRegistered(D, o, M)
    BY FollowupAssumption DEF Sound, OnlyRegistered
  <1>7. Tidy(P, D, o, M)
    BY <1>3, FollowupAssumption DEF Sound, Tidy, Empty
  <1>8. Kept(P, A, H, M, R, X)
    BY <1>3 DEF Sound, Kept, Found
  <1>9. Sound(P, D, o, A, H, M, R, X)
    BY <1>2, <1>4, <1>5, <1>6, <1>7, <1>8 DEF Sound
  <1> QED
    BY <1>9 DEF P

\* Where the items and the lines of an object are after a push.
LEMMA PushKeeps ==
    ASSUME NEW q \in QueueObject, NEW m \in Messages
    PROVE  /\ ToSet(Pushed(q, m).items) \subseteq ToSet(q.items) \cup {m}
           /\ m \in ToSet(Pushed(q, m).items)
           /\ \A x : (x \in ToSet(q.items) \/ x \in ToSet(q.lines)) =>
                        \/ x \in ToSet(Pushed(q, m).items)
                        \/ x \in ToSet(Pushed(q, m).lines)
                        \/ x \in GivenUp(q)
           /\ GivenUp(q) \subseteq Messages
  <1> DEFINE p == Pushed(q, m)
             k == DropCount(q)
             t == Rest(q.items, k)
             f == SubSeq(q.items, 1, k)
             all == DroppedLines(q)
  <1>1. /\ q.items \in Seq(Messages) /\ q.lines \in Seq(Messages) /\ k \in 0..Len(q.items) /\ k \in Nat
        /\ Len(q.items) \in Nat
    BY DropCountFacts DEF QueueObject
  <1>2. p.items = Append(t, m)
    BY PushedFacts
  <1>3. IF k = 0 \/ q.drop # "summarize" THEN p.lines = q.lines ELSE p.lines = LastOf(all, q.cap)
    BY PushedFacts
  <1>4. all = q.lines \o f
    BY DEF DroppedLines
  <1>5. GivenUp(q) = IF q.drop = "summarize" THEN ToSet(all) \ ToSet(LastOf(all, q.cap)) ELSE ToSet(f)
    BY DEF GivenUp, DroppedLines
  <1> HIDE DEF p, k
  <1>6. t \in Seq(Messages) /\ \A i \in 1..Len(t) : i + k \in 1..Len(q.items) /\ t[i] = q.items[i + k]
    BY <1>1, RestFacts
  <1>7. Len(t) = Len(q.items) - k
    <2>1. Len(t) = IF k <= Len(q.items) THEN Len(q.items) - k ELSE 0
      BY <1>1, RestFacts
    <2> QED
      BY <1>1, <2>1
  <1>8. f \in Seq(Messages) /\ Len(f) = k /\ \A i \in 1..k : f[i] = q.items[i]
    BY <1>1, FirstFacts
  <1> HIDE DEF t, f, all
  <1>9. Append(t, m) \in Seq(Messages) /\ ToSet(Append(t, m)) = ToSet(t) \cup {m}
    BY <1>6, BeforeFacts
  <1>10. ToSet(t) \subseteq ToSet(q.items)
    BY <1>1, <1>6, MembersOf
  <1>11. ASSUME NEW x, x \in ToSet(q.items) PROVE x \in ToSet(t) \/ x \in ToSet(f)
    <2>1. PICK i \in 1..Len(q.items) : q.items[i] = x
      BY <1>1, <1>11, MembersOf
    <2>2. CASE i <= k
      <3>1. i \in 1..Len(f) /\ f[i] = x
        BY <1>1, <1>8, <2>1, <2>2
      <3> QED
        BY <1>8, <3>1, MembersOf
    <2>3. CASE i > k
      <3>1. i - k \in 1..Len(t) /\ (i - k) + k = i
        BY <1>1, <1>7, <2>3
      <3>2. t[i - k] = x
        BY <1>6, <2>1, <3>1
      <3> QED
        BY <1>6, <3>1, <3>2, MembersOf
    <2> QED
      BY <1>1, <2>2, <2>3
  <1>12. all \in Seq(Messages) /\ \A x : x \in ToSet(all) <=> x \in ToSet(q.lines) \/ x \in ToSet(f)
    <2>1. /\ all \in Seq(Messages) /\ Len(all) = Len(q.lines) + Len(f)
          /\ Len(q.lines) \in Nat /\ Len(f) \in Nat
          /\ \A i \in 1..(Len(q.lines) + Len(f)) :
               all[i] = IF i <= Len(q.lines) THEN q.lines[i] ELSE f[i - Len(q.lines)]
      <3>1. /\ q.lines \o f \in Seq(Messages) /\ Len(q.lines \o f) = Len(q.lines) + Len(f)
            /\ \A i \in 1..(Len(q.lines) + Len(f)) :
                 (q.lines \o f)[i] = IF i <= Len(q.lines) THEN q.lines[i] ELSE f[i - Len(q.lines)]
        BY <1>1, <1>8, ConcatProperties
      <3>2. Len(q.lines) \in Nat /\ Len(f) \in Nat
        BY <1>1, <1>8
      <3> QED
        BY <1>4, <3>1, <3>2
    <2>2. ASSUME NEW x, x \in ToSet(all) PROVE x \in ToSet(q.lines) \/ x \in ToSet(f)
      <3>1. PICK i \in 1..Len(all) : all[i] = x
        BY <2>1, <2>2, MembersOf
      <3>2. CASE i <= Len(q.lines)
        <4>1. i \in 1..Len(q.lines) /\ q.lines[i] = x
          BY <2>1, <3>1, <3>2
        <4> QED
          BY <1>1, <4>1, MembersOf
      <3>3. CASE i > Len(q.lines)
        <4>1. i - Len(q.lines) \in 1..Len(f) /\ f[i - Len(q.lines)] = x
          BY <2>1, <3>1, <3>3
        <4> QED
          BY <1>8, <4>1, MembersOf
      <3> QED
        BY <2>1, <3>2, <3>3
    <2>3. ASSUME NEW x, x \in ToSet(q.lines) PROVE x \in ToSet(all)
      <3>1. PICK i \in 1..Len(q.lines) : q.lines[i] = x
        BY <1>1, <2>3, MembersOf
      <3>2. i \in 1..Len(all) /\ all[i] = x
        BY <2>1, <3>1
      <3> QED
        BY <2>1, <3>2, MembersOf
    <2>4. ASSUME NEW x, x \in ToSet(f) PROVE x \in ToSet(all)
      <3>1. PICK i \in 1..Len(f) : f[i] = x
        BY <1>8, <2>4, MembersOf
      <3>2. i + Len(q.lines) \in 1..Len(all) /\ ~(i + Len(q.lines) <= Len(q.lines))
            /\ (i + Len(q.lines)) - Len(q.lines) = i
        BY <2>1, <3>1
      <3>3. all[i + Len(q.lines)] = x
        BY <2>1, <3>1, <3>2
      <3> QED
        BY <2>1, <3>2, <3>3, MembersOf
    <2> QED
      BY <2>1, <2>2, <2>3, <2>4
  <1>13. k = 0 => ToSet(f) = {}
    <2>1. ASSUME k = 0, NEW x, x \in ToSet(f) PROVE FALSE
      <3>1. PICK i \in 1..Len(f) : f[i] = x
        BY <1>8, <2>1, MembersOf
      <3> QED
        BY <1>8, <2>1, <3>1
    <2> QED
      BY <2>1
  <1>14. ASSUME NEW x, x \in ToSet(q.items) \/ x \in ToSet(q.lines)
         PROVE  x \in ToSet(p.items) \/ x \in ToSet(p.lines) \/ x \in GivenUp(q)
    <2>1. x \in ToSet(p.items) \/ x \in ToSet(f) \/ x \in ToSet(q.lines)
      BY <1>2, <1>9, <1>11, <1>14
    <2>2. CASE k = 0
      BY <1>3, <1>13, <2>1, <2>2
    <2>3. CASE k # 0 /\ q.drop = "summarize"
      BY <1>3, <1>5, <1>12, <2>1, <2>3
    <2>4. CASE k # 0 /\ q.drop # "summarize"
      BY <1>3, <1>5, <2>1, <2>4
    <2> QED
      BY <2>2, <2>3, <2>4
  <1>15. GivenUp(q) \subseteq Messages
    <2>1. ToSet(all) \subseteq Messages /\ ToSet(f) \subseteq Messages
      BY <1>8, <1>12, MembersOf
    <2> QED
      BY <1>5, <2>1
  <1>16. ToSet(p.items) \subseteq ToSet(q.items) \cup {m} /\ m \in ToSet(p.items)
    BY <1>2, <1>9, <1>10
  <1> QED
    BY <1>14, <1>15, <1>16 DEF p

\* A message is pushed onto the registered object.
LEMMA Pushes ==
    ASSUME NEW Q, NEW D, NEW r \in Objects, NEW A, NEW H, NEW M, NEW R, NEW X,
           Sound(Q, D, r, A, H, M, R, X), Q[r].cap <= MaxCap,
           NEW m \in Messages, m \notin ToSet(A), NEW N, M \subseteq N,
           (Sends(D[r]) /\ DropCount(Q[r]) > 0) => "overflowDuringSend" \in N,
           D[r].at = "collecting" => "arrivedWhileCollecting" \in N
    PROVE  Sound([Q EXCEPT ![r] = Pushed(Q[r], m)], D, r, Append(A, m), H, N, R, X \cup GivenUp(Q[r]))
  <1> DEFINE p == Pushed(Q[r], m)
             P == [Q EXCEPT ![r] = p]
             B == Append(A, m)
             Y == X \cup GivenUp(Q[r])
  <1>1. /\ Q \in [Objects -> QueueObject] /\ A \in Seq(Messages) /\ Distinct(A)
        /\ H \in [Messages -> 0..1] /\ \A x \in Messages : H[x] > 0 => x \in ToSet(A)
        /\ H \in [Messages -> Nat] /\ Q[r] \in QueueObject
    BY DEF Sound, SoundTypes
  <1>2. p \in QueueObject
    BY <1>1, PushedFacts
  <1>3. /\ ToSet(p.items) \subseteq ToSet(Q[r].items) \cup {m} /\ m \in ToSet(p.items)
        /\ \A x : (x \in ToSet(Q[r].items) \/ x \in ToSet(Q[r].lines)) =>
                     x \in ToSet(p.items) \/ x \in ToSet(p.lines) \/ x \in GivenUp(Q[r])
        /\ GivenUp(Q[r]) \subseteq Messages
    BY <1>1, PushKeeps
  <1>4. /\ B \in Seq(Messages) /\ ToSet(B) = ToSet(A) \cup {m} /\ Distinct(B)
    BY <1>1, BeforeFacts, DistinctAppend
  <1>5. ObjectSound(Q[r], D[r], A, H, M)
    BY DEF Sound, AllSound
  <1>6. ObjectSound(p, D[r], B, H, N)
    BY <1>1, <1>5, PushedSound
  <1>7. \A o \in Objects : o # r => ObjectSound(Q[o], D[o], B, H, N)
    BY <1>1, GrowsSound DEF Sound, AllSound
  <1> HIDE DEF p
  <1>8. /\ P \in [Objects -> QueueObject] /\ P[r] = p
        /\ \A x \in Objects : x # r => P[x] = Q[x]
    BY <1>1, <1>2
  <1> HIDE DEF P, B
  <1>9. SoundTypes(P, D, r, B, H, R, Y)
    BY <1>3, <1>4, <1>8 DEF Sound, SoundTypes
  <1>10. AllSound(P, D, B, H, N)
    BY <1>6, <1>7, <1>8 DEF AllSound
  <1>11. Apart(P, D)
    <2>1. ASSUME NEW o \in Objects PROVE m \notin Held(Q[o], D[o])
      <3>1. ObjectSound(Q[o], D[o], A, H, M)
        BY DEF Sound, AllSound
      <3>2. Q[o].items \in Seq(Messages) /\ D[o].msgs \in Seq(Messages)
        BY <3>1, FieldTypes DEF ObjectSound
      <3>3. ToSet(Q[o].items) \subseteq ToSet(A) /\ ToSet(D[o].msgs) \subseteq ToSet(A)
        BY <3>1, <3>2, MembersOf DEF ObjectSound, KeepsNew
      <3> QED
        BY <3>3 DEF Held
    <2>2. Held(p, D[r]) \subseteq Held(Q[r], D[r]) \cup {m}
      BY <1>3 DEF Held
    <2>3. ASSUME NEW o \in Objects, o # r PROVE Held(P[r], D[r]) \cap Held(P[o], D[o]) = {}
      <3>1. Held(Q[r], D[r]) \cap Held(Q[o], D[o]) = {}
        BY <2>3 DEF Sound, Apart
      <3> QED
        BY <1>8, <2>1, <2>2, <2>3, <3>1
    <2>4. ASSUME NEW o \in Objects, NEW x \in Objects, o # x, o # r, x # r
          PROVE  Held(P[o], D[o]) \cap Held(P[x], D[x]) = {}
      BY <1>8, <2>4 DEF Sound, Apart
    <2> SUFFICES ASSUME NEW o \in Objects, NEW x \in Objects, o # x
                 PROVE  Held(P[o], D[o]) \cap Held(P[x], D[x]) = {}
      BY DEF Apart
    <2> QED
      BY <2>3, <2>4
  <1>12. OnlyRegistered(D, r, N) /\ Tidy(P, D, r, N)
    BY <1>8, LosslessBefore DEF Sound, OnlyRegistered, Tidy
  <1>13. Kept(P, B, H, N, R, Y)
    <2> SUFFICES ASSUME Lossless(N), NEW x \in ToSet(B)
                 PROVE  Found(P, x) \/ H[x] > 0 \/ x \in R \cup Y
      BY DEF Kept
    <2>1. CASE x = m
      BY <1>3, <1>8, <2>1 DEF Found
    <2>2. CASE x \in ToSet(A)
      <3>1. Found(Q, x) \/ H[x] > 0 \/ x \in R \cup X
        BY <2>2, LosslessBefore DEF Sound, Kept
      <3>2. ASSUME Found(Q, x) PROVE Found(P, x) \/ x \in Y
        <4>1. PICK o \in Objects : x \in ToSet(Q[o].items) \/ x \in ToSet(Q[o].lines)
          BY <3>2 DEF Found
        <4>2. CASE o = r
          BY <1>3, <1>8, <4>1, <4>2 DEF Found
        <4>3. CASE o # r
          BY <1>8, <4>1, <4>3 DEF Found
        <4> QED
          BY <4>2, <4>3
      <3> QED
        BY <3>1, <3>2
    <2> QED
      BY <1>4, <2>1, <2>2
  <1>14. Sound(P, D, r, B, H, N, R, Y)
    BY <1>9, <1>10, <1>11, <1>12, <1>13 DEF Sound
  <1> QED
    BY <1>14 DEF P, B, p

\* The registered object is emptied and forgotten, what it had is given up.
LEMMA Clears ==
    ASSUME NEW Q, NEW D, NEW r \in Objects, NEW A, NEW H, NEW M, NEW R, NEW X,
           Sound(Q, D, r, A, H, M, R, X), NEW p \in QueueObject, p.items = << >>, p.lines = << >>,
           NEW N, M \subseteq N, D[r].at # "idle" => Forked(N)
    PROVE  Sound([Q EXCEPT ![r] = p], D, None, A, H, N, R,
                 X \cup ToSet(Q[r].items) \cup ToSet(Q[r].lines))
  <1> DEFINE P == [Q EXCEPT ![r] = p]
             Y == X \cup ToSet(Q[r].items) \cup ToSet(Q[r].lines)
  <1>1. /\ P \in [Objects -> QueueObject] /\ P[r] = p
        /\ \A x \in Objects : x # r => P[x] = Q[x]
    BY DEF Sound, SoundTypes
  <1> HIDE DEF P
  <1>2. ObjectSound(Q[r], D[r], A, H, M) /\ Q[r] \in QueueObject
    BY DEF Sound, SoundTypes, AllSound
  <1>3. Y \subseteq Messages
    <2>1. ToSet(Q[r].items) \subseteq Messages /\ ToSet(Q[r].lines) \subseteq Messages
      BY <1>2, FieldTypes, MembersOf DEF ObjectSound
    <2> QED
      BY <2>1 DEF Sound, SoundTypes
  <1>4. SoundTypes(P, D, None, A, H, R, Y)
    BY <1>1, <1>3 DEF Sound, SoundTypes
  <1>5. AllSound(P, D, A, H, N)
    <2> SUFFICES ASSUME NEW x \in Objects PROVE ObjectSound(P[x], D[x], A, H, N)
      BY DEF AllSound
    <2>1. CASE x = r
      <3>1. Sends(D[r]) => Forked(N)
        BY DEF Sends
      <3>2. ObjectSound(p, D[r], A, H, N)
        BY <1>2, <3>1, EmptySound
      <3> QED
        BY <1>1, <2>1, <3>2
    <2>2. CASE x # r
      <3>1. ObjectSound(Q[x], D[x], A, H, M) /\ Q[x] \in QueueObject
        BY DEF Sound, SoundTypes, AllSound
      <3>2. ObjectSound(Q[x], D[x], A, H, N)
        BY <3>1, SameItems
      <3> QED
        BY <1>1, <2>2, <3>2
    <2> QED
      BY <2>1, <2>2
  <1>6. Apart(P, D)
    <2>1. \A o \in Objects : Held(P[o], D[o]) \subseteq Held(Q[o], D[o])
      <3>1. ToSet(p.items) = {}
        BY DEF ToSet
      <3> QED
        BY <1>1, <3>1 DEF Held
    <2> QED
      BY <2>1 DEF Sound, Apart
  <1>7. OnlyRegistered(D, None, N)
    BY LosslessBefore DEF Sound, OnlyRegistered
  <1>8. Tidy(P, D, None, N)
    BY <1>1, LosslessBefore DEF Sound, Tidy, Empty
  <1>9. Kept(P, A, H, N, R, Y)
    <2> SUFFICES ASSUME Lossless(N), NEW m \in ToSet(A)
                 PROVE  Found(P, m) \/ H[m] > 0 \/ m \in R \cup Y
      BY DEF Kept
    <2>1. Found(Q, m) \/ H[m] > 0 \/ m \in R \cup X
      BY LosslessBefore DEF Sound, Kept
    <2>2. ASSUME Found(Q, m) PROVE Found(P, m) \/ m \in Y
      <3>1. PICK o \in Objects : m \in ToSet(Q[o].items) \/ m \in ToSet(Q[o].lines)
        BY <2>2 DEF Found
      <3> QED
        BY <1>1, <3>1 DEF Found
    <2> QED
      BY <2>1, <2>2
  <1>10. Sound(P, D, None, A, H, N, R, Y)
    BY <1>4, <1>5, <1>6, <1>7, <1>8, <1>9 DEF Sound
  <1> QED
    BY <1>10 DEF P

\* The registered drain is the only one, unless a clear has forked the queue.
LEMMA TheOnlyDrain ==
    ASSUME NEW Q, NEW D, NEW r, NEW A, NEW H, NEW M, NEW R, NEW X,
           Settled(Q, D, r, A, H, M, R, X), NEW o \in Objects, D[o].at # "idle", ~Forked(M)
    PROVE  o = r /\ \A x \in Objects : x # o => Q[x] = NoQueue /\ D[x].at = "idle"
  BY DEF Settled, Sound, OnlyRegistered, Reachable

\* A send of object o has succeeded and its drain is at the end of the round.
LEMMA SendSettles ==
    ASSUME NEW Q, NEW D, NEW r, NEW A, NEW H, NEW M, NEW R, NEW X,
           Settled(Q, D, r, A, H, M, R, X), NEW o \in Objects, Sends(D[o]),
           NEW N, M \subseteq N, D[o].at = "summary" => "summaryTookItem" \in N
    PROVE  Sound([Q EXCEPT ![o] = Sent(Q[o], D[o])], [D EXCEPT ![o] = Idle], r, A,
                 HandedBy(H, D[o]), N, R \cup ToSet(D[o].lines), X)
  <1> DEFINE q == Q[o]
             d == D[o]
             p == Sent(q, d)
             P == [Q EXCEPT ![o] = p]
             E == [D EXCEPT ![o] = Idle]
             G == HandedBy(H, d)
             S == R \cup ToSet(d.lines)
  <1>1. /\ Q \in [Objects -> QueueObject] /\ D \in [Objects -> Drain] /\ A \in Seq(Messages)
        /\ Distinct(A) /\ H \in [Messages -> 0..1] /\ H \in [Messages -> Nat]
        /\ \A x \in Messages : H[x] > 0 => x \in ToSet(A)
        /\ q \in QueueObject /\ d \in Drain
    BY DEF Settled, Sound, SoundTypes
  <1>2. ObjectSound(q, d, A, H, M)
    BY DEF Settled, Sound, AllSound
  <1>3. /\ q.items \in Seq(Messages) /\ q.lines \in Seq(Messages) /\ Len(q.items) \in Nat
        /\ d.msgs \in Seq(Messages) /\ d.lines \in Seq(Messages) /\ Len(d.msgs) \in Nat
    BY <1>2, FieldTypes DEF ObjectSound
  <1>4. /\ p \in QueueObject /\ p.items = Rest(q.items, Len(d.msgs))
        /\ IF d.lines # << >> THEN p.lines = << >> /\ p.dropped = 0
           ELSE p.lines = q.lines /\ p.dropped = q.dropped
    BY <1>1, SentFacts
  <1>5. Idle \in Drain /\ Idle.at = "idle" /\ Idle.msgs = << >> /\ ~Sends(Idle)
    BY RestingDrains DEF Sends
  <1>6. ObjectSound(p, Idle, A, G, N)
    BY <1>1, <1>2, <1>5, SentSound
  <1>7. d.at # "idle"
    BY DEF Sends
  <1>8. \A x : x \in ToSet(d.msgs) <=> \E k \in 1..Len(d.msgs) : d.msgs[k] = x
    BY <1>3, MembersOf
  <1>9. \A x \in ToSet(d.msgs) : x \in ToSet(A) /\ H[x] = 0
    BY <1>2, <1>8 DEF ObjectSound, KeepsNew
  <1>10. \A x \in Messages :
            G[x] = IF d.at # "summary" /\ x \in ToSet(d.msgs) /\ H[x] < 2 THEN H[x] + 1 ELSE H[x]
    BY DEF HandedBy
  <1>11. G \in [Messages -> 0..1] /\ \A x \in Messages : G[x] > 0 => x \in ToSet(A)
    <2>1. ASSUME NEW x \in Messages PROVE G[x] \in 0..1 /\ (G[x] > 0 => x \in ToSet(A))
      BY <1>1, <1>9, <1>10
    <2>2. G = [x \in Messages |-> G[x]]
      BY DEF HandedBy
    <2> HIDE DEF G
    <2> QED
      BY <2>1, <2>2
  <1>12. ToSet(p.items) \subseteq ToSet(q.items)
    <2>1. \A x : x \in ToSet(p.items) => \E i \in 1..Len(q.items) : i > Len(d.msgs) /\ q.items[i] = x
      BY <1>1, SentItems
    <2>2. \A x : x \in ToSet(q.items) <=> \E i \in 1..Len(q.items) : q.items[i] = x
      BY <1>3, MembersOf
    <2> HIDE DEF p, q, d
    <2> QED
      BY <2>1, <2>2
  <1> HIDE DEF p, G
  <1>13. /\ P \in [Objects -> QueueObject] /\ P[o] = p
         /\ \A x \in Objects : x # o => P[x] = Q[x]
    BY <1>1, <1>4
  <1>14. /\ E \in [Objects -> Drain] /\ E[o] = Idle
         /\ \A x \in Objects : x # o => E[x] = D[x]
    BY <1>1, <1>5
  <1> HIDE DEF P, E
  <1>15. SoundTypes(P, E, r, A, G, S, X)
    <2>1. ToSet(d.lines) \subseteq Messages
      BY <1>3, MembersOf
    <2> QED
      BY <1>1, <1>11, <1>13, <1>14, <2>1 DEF Settled, Sound, SoundTypes
  <1>16. AllSound(P, E, A, G, N)
    <2> SUFFICES ASSUME NEW x \in Objects PROVE ObjectSound(P[x], E[x], A, G, N)
      BY DEF AllSound
    <2>1. CASE x = o
      BY <1>6, <1>13, <1>14, <2>1
    <2>2. CASE x # o
      <3>1. ObjectSound(Q[x], D[x], A, H, M)
        BY DEF Settled, Sound, AllSound
      <3>2. ToSet(Q[x].items) \subseteq Messages /\ ToSet(D[x].msgs) \subseteq Messages
        BY <3>1, FieldTypes, MembersOf DEF ObjectSound
      <3>3. \A m \in ToSet(Q[x].items) \cup ToSet(D[x].msgs) : m \notin ToSet(d.msgs)
        BY <2>2 DEF Settled, Sound, Apart, Held
      <3>4. \A m \in ToSet(Q[x].items) \cup ToSet(D[x].msgs) : G[m] = H[m]
        BY <1>10, <3>2, <3>3
      <3>5. ~Forked(N) => Q[x].items = << >>
        <4> SUFFICES ASSUME ~Forked(N) PROVE Q[x].items = << >>
          OBVIOUS
        <4>1. ~Forked(M)
          BY LosslessBefore
        <4>2. Q[x] = NoQueue
          BY <1>7, <2>2, <4>1, TheOnlyDrain
        <4> QED
          BY <4>2, FreshQueue
      <3>6. ObjectSound(Q[x], D[x], A, G, N)
        BY <1>1, <3>1, <3>4, <3>5, OthersHanded
      <3> QED
        BY <1>13, <1>14, <2>2, <3>6
    <2> QED
      BY <2>1, <2>2
  <1>17. Apart(P, E)
    <2>1. \A x \in Objects : Held(P[x], E[x]) \subseteq Held(Q[x], D[x])
      <3>1. ToSet(Idle.msgs) = {}
        BY <1>5 DEF ToSet
      <3> QED
        BY <1>12, <1>13, <1>14, <3>1 DEF Held
    <2> QED
      BY <2>1 DEF Settled, Sound, Apart
  <1>18. OnlyRegistered(E, r, N)
    BY <1>5, <1>14, LosslessBefore DEF Settled, Sound, OnlyRegistered
  <1>19. Tidy(P, E, r, N)
    <2> SUFFICES ASSUME Lossless(N), NEW x \in Objects
                 PROVE  x = r \/ E[x].at # "idle" \/ Empty(P[x])
      BY DEF Tidy
    <2>1. ~Forked(M) /\ Lossless(M)
      BY LosslessFacts, LosslessBefore
    <2>2. o = r
      BY <1>7, <2>1, TheOnlyDrain
    <2> QED
      BY <1>13, <1>14, <2>1, <2>2 DEF Settled, Sound, Tidy
  <1>20. Kept(P, A, G, N, S, X)
    <2> SUFFICES ASSUME Lossless(N), NEW m \in ToSet(A)
                 PROVE  Found(P, m) \/ G[m] > 0 \/ m \in S \cup X
      BY DEF Kept
    <2>1. m \in Messages
      BY <1>1, MembersOf
    <2>2. ~Forked(M) /\ "overflowDuringSend" \notin M /\ Lossless(M) /\ "summaryTookItem" \notin N
      BY LosslessFacts, LosslessBefore
    <2>3. d.at # "summary"
      BY <2>2
    <2>4. /\ Len(d.msgs) <= Len(q.items)
          /\ \A i \in 1..Len(d.msgs) : q.items[i] = d.msgs[i]
          /\ d.lines # << >> => q.lines = d.lines
      BY <1>2, <2>2 DEF ObjectSound, SendsPrefix
    <2>5. m \in ToSet(d.msgs) => G[m] > 0
      BY <1>9, <1>10, <2>1, <2>3
    <2>6. m \in ToSet(q.items) => m \in ToSet(d.msgs) \/ m \in ToSet(p.items)
      <3> SUFFICES ASSUME m \in ToSet(q.items) PROVE m \in ToSet(d.msgs) \/ m \in ToSet(p.items)
        OBVIOUS
      <3>1. PICK i \in 1..Len(q.items) : q.items[i] = m
        BY <1>3, MembersOf
      <3>2. CASE i <= Len(d.msgs)
        <4>1. i \in 1..Len(d.msgs) /\ d.msgs[i] = m
          BY <1>3, <2>4, <3>1, <3>2
        <4> QED
          BY <1>8, <4>1
      <3>3. CASE i > Len(d.msgs)
        <4>1. q.items[i] \in ToSet(Sent(q, d).items)
          BY <1>1, <3>3, SentItems
        <4> QED
          BY <3>1, <4>1 DEF p
      <3> QED
        BY <1>3, <3>2, <3>3
    <2>7. m \in ToSet(q.lines) => m \in ToSet(d.lines) \/ m \in ToSet(p.lines)
      BY <1>4, <2>4
    <2>8. Found(Q, m) \/ H[m] > 0 \/ m \in R \cup X
      BY <2>2 DEF Settled, Sound, Kept
    <2>9. CASE Found(Q, m)
      <3>1. PICK x \in Objects : m \in ToSet(Q[x].items) \/ m \in ToSet(Q[x].lines)
        BY <2>9 DEF Found
      <3>2. CASE x = o
        BY <1>13, <2>5, <2>6, <2>7, <3>1, <3>2 DEF Found
      <3>3. CASE x # o
        BY <1>13, <3>1, <3>3 DEF Found
      <3> QED
        BY <3>2, <3>3
    <2>10. CASE H[m] > 0
      BY <1>1, <1>10, <2>1, <2>10
    <2> QED
      BY <2>8, <2>9, <2>10
  <1>21. Sound(P, E, r, A, G, N, S, X)
    BY <1>15, <1>16, <1>17, <1>18, <1>19, <1>20 DEF Sound
  <1> QED
    BY <1>21 DEF P, E, G, p

\* A drain that is at work goes on to e.
LEMMA Starts ==
    ASSUME NEW Q, NEW D, NEW r, NEW A, NEW H, NEW M, NEW R, NEW X,
           Settled(Q, D, r, A, H, M, R, X), NEW o \in Objects, D[o].at # "idle",
           NEW e \in Drain, ObjectSound(Q[o], e, A, H, M), ToSet(e.msgs) \subseteq ToSet(Q[o].items),
           NEW q1, NEW d1, NEW r1, Installed(Q, [D EXCEPT ![o] = e], r, q1, d1, r1)
    PROVE  Settled(q1, d1, r1, A, H, M, R, X)
  <1>1. Sound(Q, D, r, A, H, M, R, X) /\ (~Forked(M) => o = r)
    BY TheOnlyDrain DEF Settled
  <1>2. Sound(Q, [D EXCEPT ![o] = e], r, A, H, M, R, X)
    BY <1>1, DrainSteps
  <1> QED
    BY <1>2, InstallSettles

\* LeaveLoop, for any state before and after it.
Left(o, Q, D, r, q1, d1, r1) ==
    IF HasWork(Q[o]) THEN Scheduled(Q, [D EXCEPT ![o] = Idle], r, q1, d1, r1)
    ELSE Installed(Q, [D EXCEPT ![o] = Idle], None, q1, d1, r1)

\* A drain that ends, with work left or without, leaves a sound queue.
LEMMA Leaves ==
    ASSUME NEW Q, NEW D, NEW r, NEW A, NEW H, NEW M, NEW R, NEW X,
           Settled(Q, D, r, A, H, M, R, X), NEW o \in Objects, D[o].at # "idle",
           NEW q1, NEW d1, NEW r1, Left(o, Q, D, r, q1, d1, r1)
    PROVE  Settled(q1, d1, r1, A, H, M, R, X)
  <1> DEFINE E == [D EXCEPT ![o] = Idle]
  <1>1. Idle \in Drain /\ Idle.at = "idle" /\ Idle.msgs = << >> /\ ~Sends(Idle) /\ ToSet(Idle.msgs) = {}
    <2>1. Idle \in Drain /\ Idle.at = "idle" /\ Idle.msgs = << >>
      BY RestingDrains
    <2> QED
      BY <2>1 DEF Sends, ToSet
  <1>2. Sound(Q, D, r, A, H, M, R, X) /\ (~Forked(M) => o = r)
    BY TheOnlyDrain DEF Settled
  <1>3. ObjectSound(Q[o], D[o], A, H, M)
    BY <1>2 DEF Sound, AllSound
  <1>4. ObjectSound(Q[o], Idle, A, H, M)
    BY <1>1, <1>3, RestsSound
  <1>5. Sound(Q, E, r, A, H, M, R, X)
    BY <1>1, <1>2, <1>4, DrainSteps
  <1>6. E[o].at = "idle"
    BY <1>1, <1>2 DEF Sound, SoundTypes
  <1>7. IF HasWork(Q[o]) THEN Scheduled(Q, E, r, q1, d1, r1) ELSE Installed(Q, E, None, q1, d1, r1)
    BY DEF Left
  <1> HIDE DEF E
  <1>8. CASE HasWork(Q[o])
    BY <1>5, <1>7, <1>8, ScheduleSettles
  <1>9. CASE ~HasWork(Q[o])
    <2>1. Installed(Q, E, None, q1, d1, r1) /\ FALSE \in BOOLEAN
      BY <1>7, <1>9
    <2> QED
      BY <1>2, <1>5, <1>6, <1>9, <2>1, LoopSettles
  <1> QED
    BY <1>8, <1>9

\* drainNextQueueItem takes the first item.
LEMMA NextIsSound ==
    ASSUME NEW q, NEW d, NEW A, NEW H, NEW M, ObjectSound(q, d, A, H, M), q.items # << >>,
           NEW kind \in {"item", "summary"}, NEW lines, lines = << >> \/ lines = q.lines,
           NEW force \in BOOLEAN
    PROVE  /\ Sending(kind, <<Head(q.items)>>, lines, force) \in Drain
           /\ ObjectSound(q, Sending(kind, <<Head(q.items)>>, lines, force), A, H, M)
           /\ ToSet(Sending(kind, <<Head(q.items)>>, lines, force).msgs) \subseteq ToSet(q.items)
  <1> DEFINE first == <<Head(q.items)>>
             e == Sending(kind, first, lines, force)
  <1>1. q.items \in Seq(Messages) /\ q.lines \in Seq(Messages) /\ Len(q.items) \in Nat
    BY FieldTypes DEF ObjectSound
  <1>2. Len(q.items) >= 1 /\ Head(q.items) = q.items[1] /\ q.items[1] \in Messages
    BY <1>1, EmptySeq, ElementOfSeq
  <1>3. first \in Seq(Messages) /\ Len(first) = 1 /\ first[1] = q.items[1]
    BY <1>2
  <1>4. << >> \in Seq(Messages)
    OBVIOUS
  <1> HIDE DEF first
  <1>5. e \in Drain /\ e.at = kind /\ e.msgs = first /\ e.lines = lines
    BY <1>1, <1>3, <1>4 DEF Drain, Sending
  <1>6. ToSet(first) \subseteq ToSet(q.items)
    <2>1. ASSUME NEW x, x \in ToSet(first) PROVE x = q.items[1]
      <3>1. PICK i \in 1..Len(first) : first[i] = x
        BY <1>3, <2>1, MembersOf
      <3> QED
        BY <1>3, <3>1
    <2>2. q.items[1] \in ToSet(q.items)
      BY <1>1, <1>2, MembersOf
    <2> QED
      BY <2>1, <2>2
  <1> HIDE DEF e
  <1>7. ObjectSound(q, e, A, H, M)
    <2>1. Sends(e) /\ e.at # "batch"
      BY <1>5 DEF Sends
    <2>2. Len(e.msgs) <= Len(q.items) /\ \A i \in 1..Len(e.msgs) : e.msgs[i] = q.items[i]
      <3>1. Len(e.msgs) = 1 /\ e.msgs[1] = q.items[1]
        BY <1>3, <1>5
      <3>2. \A i \in 1..1 : i = 1
        OBVIOUS
      <3> QED
        BY <1>1, <1>2, <3>1, <3>2
    <2>3. e.lines # << >> => e.lines = q.lines
      BY <1>5
    <2> QED
      BY <1>5, <2>1, <2>2, <2>3, SendingSound
  <1> QED
    BY <1>5, <1>6, <1>7 DEF e, first

\* The whole queue is taken.
LEMMA BatchIsSound ==
    ASSUME NEW q, NEW d, NEW A, NEW H, NEW M, ObjectSound(q, d, A, H, M), d.at = "collecting",
           NEW lines, lines = << >> \/ lines = q.lines
    PROVE  /\ Sending("batch", q.items, lines, FALSE) \in Drain
           /\ ObjectSound(q, Sending("batch", q.items, lines, FALSE), A, H, M)
           /\ Sending("batch", q.items, lines, FALSE).msgs = q.items
  <1> DEFINE e == Sending("batch", q.items, lines, FALSE)
  <1>1. q.items \in Seq(Messages) /\ q.lines \in Seq(Messages) /\ Len(q.items) \in Nat
        /\ << >> \in Seq(Messages)
    BY FieldTypes DEF ObjectSound
  <1>2. e \in Drain /\ e.at = "batch" /\ e.msgs = q.items /\ e.lines = lines
    BY <1>1 DEF Drain, Sending
  <1> HIDE DEF e
  <1>3. Sends(e)
    BY <1>2 DEF Sends
  <1>4. "arrivedWhileCollecting" \notin M => OneDestination(e.msgs)
    BY <1>2 DEF ObjectSound, OneBatch
  <1>5. ObjectSound(q, e, A, H, M)
    BY <1>1, <1>2, <1>3, <1>4, SendingSound
  <1> QED
    BY <1>2, <1>5 DEF e

-----------------------------------------------------------------------------
(* The inductive invariant, and that every action preserves it.             *)

Mishaps == {"overflowDuringSend", "summaryTookItem", "summaryDisowned",
            "summaryAlone", "arrivedWhileCollecting", "clearedDuringDrain"}

IInv ==
    /\ Settled(queue, drain, registered, accepted, handed, mishap, reported, discarded)
    /\ direct \in BOOLEAN
    /\ mishap \subseteq Mishaps
    /\ clears \in 0..MaxClears

\* No queue, no message, nothing wrong yet.
LEMMA InitSettled == Init => IInv
  <1> SUFFICES ASSUME Init PROVE IInv
    OBVIOUS
  <1>1. NoQueue \in QueueObject /\ NoQueue.items = << >> /\ NoQueue.lines = << >> /\ NoQueue.dropped = 0
    BY FreshQueue
  <1>2. Idle \in Drain /\ Idle.at = "idle" /\ Idle.msgs = << >> /\ ~Sends(Idle)
    BY RestingDrains DEF Sends
  <1>3. /\ queue \in [Objects -> QueueObject] /\ drain \in [Objects -> Drain]
        /\ \A o \in Objects : queue[o] = NoQueue /\ drain[o] = Idle
    BY <1>1, <1>2 DEF Init
  <1>4. accepted = << >> /\ accepted \in Seq(Messages) /\ Len(accepted) = 0 /\ ToSet(accepted) = {}
    BY DEF Init, ToSet
  <1>5. SoundTypes(queue, drain, registered, accepted, handed, reported, discarded)
    <2>1. Distinct(accepted)
      BY <1>4 DEF Distinct
    <2>2. handed \in [Messages -> 0..1] /\ \A m \in Messages : ~(handed[m] > 0)
      BY DEF Init
    <2> QED
      BY <1>3, <1>4, <2>1, <2>2 DEF Init, SoundTypes
  <1>6. ObjectSound(NoQueue, Idle, accepted, handed, mishap)
    <2>1. Len(NoQueue.items) = 0 /\ Len(NoQueue.lines) = 0 /\ Len(Idle.msgs) = 0
      BY <1>1, <1>2
    <2>2. ObjectTypes(NoQueue, Idle)
      BY <1>1, <1>2, <2>1, MaxCapFacts DEF ObjectTypes
    <2>3. KeepsNew(NoQueue.items, Idle.msgs, accepted, handed) /\ InOrder(NoQueue.items, Idle.msgs, accepted)
          /\ AfterHanded(NoQueue.items, accepted, handed, mishap)
      BY <2>1 DEF KeepsNew, InOrder, AfterHanded
    <2>4. OneBatch(NoQueue, Idle, mishap) /\ SendsPrefix(NoQueue, Idle, mishap)
      BY <1>2 DEF OneBatch, SendsPrefix
    <2> QED
      BY <2>2, <2>3, <2>4 DEF ObjectSound
  <1>7. AllSound(queue, drain, accepted, handed, mishap)
    BY <1>3, <1>6 DEF AllSound
  <1>8. Apart(queue, drain)
    <2>1. Held(NoQueue, Idle) = {}
      BY <1>1, <1>2 DEF Held, ToSet
    <2> QED
      BY <1>3, <2>1 DEF Apart
  <1>9. /\ OnlyRegistered(drain, registered, mishap) /\ Tidy(queue, drain, registered, mishap)
        /\ Kept(queue, accepted, handed, mishap, reported, discarded)
        /\ Reachable(queue, drain, registered)
    BY <1>1, <1>2, <1>3, <1>4 DEF OnlyRegistered, Tidy, Kept, Reachable, Empty
  <1>10. direct \in BOOLEAN /\ mishap \subseteq Mishaps /\ clears \in 0..MaxClears
    <2>1. MaxClears \in Nat
      BY FollowupAssumption
    <2>2. mishap = {} /\ clears = 0
      BY DEF Init
    <2>3. direct \in BOOLEAN
      BY DEF Init
    <2>4. clears \in 0..MaxClears
      BY <2>1, <2>2
    <2> QED
      BY <2>2, <2>3, <2>4
  <1> QED
    BY <1>5, <1>7, <1>8, <1>9, <1>10 DEF IInv, Settled, Sound

\* enqueueFollowupRun.
LEMMA EnqueueStep ==
    ASSUME IInv, NEW m \in Messages, NEW s \in Settings, NEW active \in BOOLEAN,
           EnqueueFollowupRun(m, s, active)
    PROVE  IInv'
  <1> DEFINE fresh == registered = None
             o == IF fresh THEN CHOOSE x \in Objects : drain[x].at = "idle" ELSE registered
             c == Configured(IF fresh THEN NoQueue ELSE queue[o], s)
             known == Known(m, c)
             pushes == ~known /\ (DropCount(c) = 0 \/ c.drop # "new")
             p == IF pushes THEN Pushed(c, m) ELSE IF known THEN c ELSE [c EXCEPT !.lastRun = TRUE]
             Q == [queue EXCEPT ![o] = p]
             C == [queue EXCEPT ![o] = c]
  <1>1. /\ fresh => \E x \in Objects : drain[x].at = "idle"
        /\ pushes => m \notin ToSet(accepted)
        /\ IF active THEN Install(Q, drain, o) ELSE ScheduleFollowupDrain(Q, drain, o)
        /\ accepted' = IF pushes THEN Append(accepted, m) ELSE accepted
        /\ discarded' = IF pushes THEN discarded \cup GivenUp(c) ELSE discarded
        /\ mishap' = mishap \cup (IF pushes THEN PushMishaps(o, c) ELSE {})
                            \cup (IF fresh THEN {} ELSE SettingsMishaps(queue[o], s))
        /\ UNCHANGED <<direct, handed, reported, clears>>
    BY DEF EnqueueFollowupRun
  <1>2. /\ Sound(queue, drain, registered, accepted, handed, mishap, reported, discarded)
        /\ Reachable(queue, drain, registered)
        /\ direct \in BOOLEAN /\ mishap \subseteq Mishaps /\ clears \in 0..MaxClears
    BY DEF IInv, Settled
  <1>3. queue \in [Objects -> QueueObject] /\ registered \in Objects \cup {None}
    BY <1>2 DEF Sound, SoundTypes
  <1>4. o \in Objects /\ (registered = o \/ registered = None)
        /\ queue[o] = IF fresh THEN NoQueue ELSE queue[o]
    <2>1. CASE fresh
      <3>1. o \in Objects /\ drain[o].at = "idle"
        BY <1>1, <2>1
      <3>2. o # registered
        BY <2>1, <3>1, FollowupAssumption
      <3> QED
        BY <1>2, <2>1, <3>1, <3>2 DEF Reachable
    <2>2. CASE ~fresh
      BY <1>3, <2>2
    <2> QED
      BY <2>1, <2>2
  <1>5. c = Configured(queue[o], s)
    BY <1>4
  <1> HIDE DEF o, c
  <1>6. /\ c \in QueueObject /\ c.items = queue[o].items /\ c.lines = queue[o].lines
        /\ c.dropped = queue[o].dropped /\ c.cap <= MaxCap
    BY <1>3, <1>4, <1>5, ConfiguredFacts
  <1>7. Sound(C, drain, o, accepted, handed, mishap, reported, discarded)
    BY <1>2, <1>4, <1>6, Reconfigured
  <1>8. mishap \subseteq mishap' /\ mishap' \subseteq Mishaps
    BY <1>1, <1>2 DEF PushMishaps, SettingsMishaps, Mishaps
  <1>9. Sound(Q, drain, o, accepted', handed', mishap', reported', discarded')
    <2>1. CASE pushes
      <3>1. C \in [Objects -> QueueObject] /\ C[o] = c /\ [C EXCEPT ![o] = Pushed(c, m)] = Q
        BY <1>3, <1>4, <1>6, <2>1
      <3>2. accepted' = Append(accepted, m) /\ discarded' = discarded \cup GivenUp(c)
            /\ handed' = handed /\ reported' = reported /\ PushMishaps(o, c) \subseteq mishap'
        BY <1>1, <2>1
      <3>3. (Sends(drain[o]) /\ DropCount(c) > 0) => "overflowDuringSend" \in mishap'
        BY <3>2 DEF PushMishaps, IsSending, Sends
      <3>4. drain[o].at = "collecting" => "arrivedWhileCollecting" \in mishap'
        BY <3>2 DEF PushMishaps
      <3>5. m \notin ToSet(accepted)
        BY <1>1, <2>1
      <3> HIDE DEF C, Q
      <3>6. Sound([C EXCEPT ![o] = Pushed(C[o], m)], drain, o, Append(accepted, m), handed, mishap',
                  reported, discarded \cup GivenUp(C[o]))
        BY <1>4, <1>6, <1>7, <1>8, <3>1, <3>3, <3>4, <3>5, Pushes
      <3> QED
        BY <3>1, <3>2, <3>6
    <2>2. CASE ~pushes
      <3>1. accepted' = accepted /\ discarded' = discarded /\ handed' = handed /\ reported' = reported
        BY <1>1, <2>2
      <3>2. /\ p \in QueueObject /\ p.items = queue[o].items /\ p.lines = queue[o].lines
            /\ p.dropped = queue[o].dropped
        <4>1. /\ [c EXCEPT !.lastRun = TRUE] \in QueueObject
              /\ [c EXCEPT !.lastRun = TRUE].items = c.items
              /\ [c EXCEPT !.lastRun = TRUE].lines = c.lines
              /\ [c EXCEPT !.lastRun = TRUE].dropped = c.dropped
          BY <1>6 DEF QueueObject
        <4> QED
          BY <1>6, <2>2, <4>1
      <3> HIDE DEF p
      <3>3. Sound(Q, drain, o, accepted, handed, mishap, reported, discarded)
        BY <1>2, <1>4, <3>2, Reconfigured
      <3> HIDE DEF Q
      <3>4. Sound(Q, drain, o, accepted, handed, mishap', reported, discarded)
        BY <1>8, <3>3, MoreMishaps
      <3> QED
        BY <3>1, <3>4
    <2> QED
      BY <2>1, <2>2
  <1> HIDE DEF Q
  <1>10. Settled(queue', drain', registered', accepted', handed', mishap', reported', discarded')
    <2>1. CASE active
      <3>1. Installed(Q, drain, o, queue', drain', registered')
        BY <1>1, <2>1 DEF Install, Installed
      <3> QED
        BY <1>9, <3>1, InstallSettles
    <2>2. CASE ~active
      <3>1. Scheduled(Q, drain, o, queue', drain', registered')
        BY <1>1, <2>2 DEF ScheduleFollowupDrain, Scheduled, Install, Installed
      <3> QED
        BY <1>9, <3>1, ScheduleSettles
    <2> QED
      BY <2>1, <2>2
  <1> QED
    BY <1>1, <1>2, <1>8, <1>10 DEF IInv

\* finalizeWithFollowup.
LEMMA DirectRunEndsStep == IInv /\ DirectRunEnds => IInv'
  <1> SUFFICES ASSUME IInv, DirectRunEnds PROVE IInv'
    OBVIOUS
  <1>1. /\ direct' = FALSE
        /\ UNCHANGED <<accepted, handed, reported, discarded, mishap, clears>>
        /\ Scheduled(queue, drain, registered, queue', drain', registered')
    BY DEF DirectRunEnds, fateVars, ScheduleFollowupDrain, Scheduled, Install, Installed
  <1>2. Sound(queue, drain, registered, accepted, handed, mishap, reported, discarded)
    BY DEF IInv, Settled
  <1>3. Settled(queue', drain', registered', accepted, handed, mishap, reported, discarded)
    BY <1>1, <1>2, ScheduleSettles
  <1> QED
    BY <1>1, <1>3 DEF IInv

\* clearFollowupQueue.
LEMMA ClearStep == IInv /\ ClearFollowupQueue => IInv'
  <1> SUFFICES ASSUME IInv, ClearFollowupQueue PROVE IInv'
    OBVIOUS
  <1> DEFINE r == registered
             q == queue[r]
             P == [queue EXCEPT ![r].items = << >>, ![r].lines = << >>,
                                ![r].dropped = 0, ![r].lastRun = FALSE]
  <1>1. /\ clears < MaxClears /\ r # None
        /\ Install(P, drain, None)
        /\ clears' = clears + 1
        /\ discarded' = discarded \cup ToSet(q.items) \cup ToSet(q.lines)
        /\ mishap' = mishap \cup (IF drain[r].at # "idle" THEN {"clearedDuringDrain"} ELSE {})
        /\ UNCHANGED <<direct, accepted, handed, reported>>
    BY DEF ClearFollowupQueue
  <1>2. /\ Sound(queue, drain, r, accepted, handed, mishap, reported, discarded)
        /\ direct \in BOOLEAN /\ mishap \subseteq Mishaps /\ clears \in 0..MaxClears
    BY DEF IInv, Settled
  <1>3. queue \in [Objects -> QueueObject] /\ r \in Objects /\ q \in QueueObject
    BY <1>1, <1>2 DEF Sound, SoundTypes
  <1>4. P[r] \in QueueObject /\ P[r].items = << >> /\ P[r].lines = << >>
    <2>1. << >> \in Seq(Messages)
      OBVIOUS
    <2> QED
      BY <1>3, <2>1 DEF QueueObject
  <1>5. P = [queue EXCEPT ![r] = P[r]]
    BY <1>3
  <1>6. mishap \subseteq mishap' /\ mishap' \subseteq Mishaps /\ (drain[r].at # "idle" => Forked(mishap'))
    BY <1>1, <1>2 DEF Forked, Mishaps
  <1>7. Installed(P, drain, None, queue', drain', registered')
    BY <1>1 DEF Install, Installed
  <1> HIDE DEF P
  <1>8. Sound(P, drain, None, accepted, handed, mishap', reported, discarded')
    <2> DEFINE e == P[r]
    <2>1. e \in QueueObject /\ e.items = << >> /\ e.lines = << >> /\ P = [queue EXCEPT ![r] = e]
      BY <1>4, <1>5
    <2> HIDE DEF e
    <2>2. Sound([queue EXCEPT ![r] = e], drain, None, accepted, handed, mishap', reported,
                discarded \cup ToSet(queue[r].items) \cup ToSet(queue[r].lines))
      BY <1>2, <1>3, <1>6, <2>1, Clears
    <2> QED
      BY <1>1, <2>1, <2>2
  <1>9. Settled(queue', drain', registered', accepted', handed', mishap', reported', discarded')
    BY <1>1, <1>7, <1>8, InstallSettles
  <1>10. clears' \in 0..MaxClears
    BY <1>1, <1>2, FollowupAssumption
  <1> QED
    BY <1>1, <1>2, <1>6, <1>9, <1>10 DEF IInv

\* SendNext, for any state before and after it.
NextSent(o, kind, lines, force, Q, D, r, q1, d1, r1) ==
    IF Q[o].items = << >> THEN Left(o, Q, D, r, q1, d1, r1)
    ELSE Installed(Q, [D EXCEPT ![o] = Sending(kind, <<Head(Q[o].items)>>, lines, force)], r, q1, d1, r1)

\* A drain that sends the first item, or ends without one.
LEMMA SendNextSettles ==
    ASSUME NEW Q, NEW D, NEW r, NEW A, NEW H, NEW M, NEW R, NEW X,
           Settled(Q, D, r, A, H, M, R, X), NEW o \in Objects, D[o].at # "idle",
           NEW kind \in {"item", "summary"}, NEW lines, lines = << >> \/ lines = Q[o].lines,
           NEW force \in BOOLEAN,
           NEW q1, NEW d1, NEW r1, NextSent(o, kind, lines, force, Q, D, r, q1, d1, r1)
    PROVE  Settled(q1, d1, r1, A, H, M, R, X)
  <1>1. CASE Q[o].items = << >>
    <2>1. Left(o, Q, D, r, q1, d1, r1)
      BY <1>1 DEF NextSent
    <2> QED
      BY <2>1, Leaves
  <1>2. CASE Q[o].items # << >>
    <2> DEFINE e == Sending(kind, <<Head(Q[o].items)>>, lines, force)
    <2>1. Installed(Q, [D EXCEPT ![o] = e], r, q1, d1, r1)
      BY <1>2 DEF NextSent
    <2>2. ObjectSound(Q[o], D[o], A, H, M)
      BY DEF Settled, Sound, AllSound
    <2>3. e \in Drain /\ ObjectSound(Q[o], e, A, H, M) /\ ToSet(e.msgs) \subseteq ToSet(Q[o].items)
      BY <1>2, <2>2, NextIsSound
    <2> HIDE DEF e
    <2> QED
      BY <2>1, <2>3, Starts
  <1> QED
    BY <1>1, <1>2

\* What the hazardous events of an action add.
LEMMA MoreMishapsSettled ==
    ASSUME NEW Q, NEW D, NEW r, NEW A, NEW H, NEW M, NEW R, NEW X, Settled(Q, D, r, A, H, M, R, X),
           NEW N, M \subseteq N
    PROVE  Settled(Q, D, r, A, H, N, R, X)
  BY MoreMishaps DEF Settled

\* The debounce of a drain is over.
LEMMA DebounceStep == ASSUME IInv, NEW o \in Objects, DebounceEnds(o) PROVE IInv'
  <1> DEFINE q == queue[o]
             d == drain[o]
             f == d.force \/ IsCrossChannel(q.items)
             After == Settled(queue', drain', registered', accepted, handed, mishap, reported, discarded)
  <1>1. /\ Settled(queue, drain, registered, accepted, handed, mishap, reported, discarded)
        /\ direct \in BOOLEAN /\ mishap \subseteq Mishaps /\ clears \in 0..MaxClears
    BY DEF IInv
  <1>2. /\ d.at = "debouncing"
        /\ \/ q.mode = "collect" /\ f /\ SendNext(o, "item", << >>, TRUE)
           \/ q.mode = "collect" /\ ~f /\ Start(o, Collecting)
           \/ /\ q.mode # "collect" /\ HasSummary(q)
              /\ IF q.lastRun THEN SendNext(o, "summary", q.lines, d.force) ELSE LeaveLoop(o)
           \/ q.mode # "collect" /\ ~HasSummary(q) /\ SendNext(o, "item", << >>, d.force)
        /\ mishap' = mishap \cup (IF q.mode # "collect" /\ q.items = << >>
                                 THEN {"summaryAlone"} ELSE {})
        /\ UNCHANGED <<direct, accepted, handed, reported, discarded, clears>>
    BY DEF DebounceEnds
  <1>3. ObjectSound(q, d, accepted, handed, mishap) /\ d \in Drain /\ d.force \in BOOLEAN
    BY <1>1 DEF Settled, Sound, SoundTypes, AllSound, Drain
  <1>4. d.at # "idle"
    BY <1>2
  <1> HIDE DEF f
  <1>5. ASSUME SendNext(o, "item", << >>, TRUE) PROVE After
    <2>1. NextSent(o, "item", << >>, TRUE, queue, drain, registered, queue', drain', registered')
      BY <1>5 DEF SendNext, NextSent, LeaveLoop, Left, ScheduleFollowupDrain, Scheduled,
                  Start, Install, Installed
    <2> QED
      BY <1>1, <1>4, <2>1, SendNextSettles
  <1>6. ASSUME SendNext(o, "item", << >>, d.force) PROVE After
    <2>1. NextSent(o, "item", << >>, d.force, queue, drain, registered, queue', drain', registered')
      BY <1>6 DEF SendNext, NextSent, LeaveLoop, Left, ScheduleFollowupDrain, Scheduled,
                  Start, Install, Installed
    <2> QED
      BY <1>1, <1>3, <1>4, <2>1, SendNextSettles
  <1>7. ASSUME SendNext(o, "summary", q.lines, d.force) PROVE After
    <2>1. NextSent(o, "summary", q.lines, d.force, queue, drain, registered, queue', drain', registered')
      BY <1>7 DEF SendNext, NextSent, LeaveLoop, Left, ScheduleFollowupDrain, Scheduled,
                  Start, Install, Installed
    <2> QED
      BY <1>1, <1>3, <1>4, <2>1, SendNextSettles
  <1>8. ASSUME LeaveLoop(o) PROVE After
    <2>1. Left(o, queue, drain, registered, queue', drain', registered')
      BY <1>8 DEF LeaveLoop, Left, ScheduleFollowupDrain, Scheduled, Install, Installed
    <2> QED
      BY <1>1, <1>4, <2>1, Leaves
  <1>9. ASSUME ~f, Start(o, Collecting) PROVE After
    <2>1. Installed(queue, [drain EXCEPT ![o] = Collecting], registered, queue', drain', registered')
      BY <1>9 DEF Start, Install, Installed
    <2>2. q.items \in Seq(Messages) /\ ~IsCrossChannel(q.items)
      BY <1>3, <1>9, FieldTypes DEF ObjectSound, f
    <2>3. OneDestination(q.items)
      BY <2>2, NotCross
    <2>4. Collecting \in Drain /\ Collecting.at = "collecting" /\ Collecting.msgs = << >>
      BY RestingDrains
    <2>5. ~Sends(Collecting) /\ ToSet(Collecting.msgs) \subseteq ToSet(q.items)
      BY <2>4 DEF Sends, ToSet
    <2>6. ObjectSound(q, Collecting, accepted, handed, mishap)
      BY <1>3, <2>3, <2>4, <2>5, RestsSound
    <2> QED
      BY <1>1, <1>4, <2>1, <2>4, <2>5, <2>6, Starts
  <1>10. After
    BY <1>2, <1>5, <1>6, <1>7, <1>8, <1>9
  <1>11. mishap \subseteq mishap' /\ mishap' \subseteq Mishaps
    BY <1>1, <1>2 DEF Mishaps
  <1>12. Settled(queue', drain', registered', accepted, handed, mishap', reported, discarded)
    BY <1>10, <1>11, MoreMishapsSettled
  <1> QED
    BY <1>1, <1>2, <1>11, <1>12 DEF IInv

\* All items are sent at once.
LEMMA CollectStep == ASSUME IInv, NEW o \in Objects, CollectStarts(o) PROVE IInv'
  <1> DEFINE q == queue[o]
             d == drain[o]
             lines == IF HasSummary(q) THEN q.lines ELSE << >>
             After == Settled(queue', drain', registered', accepted, handed, mishap, reported, discarded)
  <1>1. /\ Settled(queue, drain, registered, accepted, handed, mishap, reported, discarded)
        /\ direct \in BOOLEAN /\ mishap \subseteq Mishaps /\ clears \in 0..MaxClears
    BY DEF IInv
  <1>2. /\ d.at = "collecting"
        /\ IF q.items # << >> \/ q.lastRun THEN Start(o, Sending("batch", q.items, lines, FALSE))
           ELSE LeaveLoop(o)
        /\ UNCHANGED <<direct, accepted, handed, reported, discarded, mishap, clears>>
    BY DEF CollectStarts, fateVars
  <1>3. ObjectSound(q, d, accepted, handed, mishap) /\ d.at # "idle"
    BY <1>1, <1>2 DEF Settled, Sound, AllSound
  <1>4. ASSUME LeaveLoop(o) PROVE After
    <2>1. Left(o, queue, drain, registered, queue', drain', registered')
      BY <1>4 DEF LeaveLoop, Left, ScheduleFollowupDrain, Scheduled, Install, Installed
    <2> QED
      BY <1>1, <1>3, <2>1, Leaves
  <1>5. ASSUME Start(o, Sending("batch", q.items, lines, FALSE)) PROVE After
    <2> DEFINE e == Sending("batch", q.items, lines, FALSE)
    <2>1. Installed(queue, [drain EXCEPT ![o] = e], registered, queue', drain', registered')
      BY <1>5 DEF Start, Install, Installed
    <2>2. lines = << >> \/ lines = q.lines
      OBVIOUS
    <2>3. e \in Drain /\ ObjectSound(q, e, accepted, handed, mishap) /\ e.msgs = q.items
      <3> HIDE DEF lines
      <3> QED
        BY <1>2, <1>3, <2>2, BatchIsSound
    <2> HIDE DEF e
    <2> QED
      BY <1>1, <1>3, <2>1, <2>3, Starts
  <1>6. After
    BY <1>2, <1>4, <1>5
  <1> QED
    BY <1>1, <1>2, <1>6 DEF IInv

\* runFollowup succeeds.
LEMMA SucceedsStep == ASSUME IInv, NEW o \in Objects, SendSucceeds(o) PROVE IInv'
  <1> DEFINE d == drain[o]
             Q == [queue EXCEPT ![o] = Sent(queue[o], d)]
             E == [drain EXCEPT ![o] = Idle]
  <1>1. /\ Settled(queue, drain, registered, accepted, handed, mishap, reported, discarded)
        /\ direct \in BOOLEAN /\ mishap \subseteq Mishaps /\ clears \in 0..MaxClears
    BY DEF IInv
  <1>2. /\ IsSending(o)
        /\ LoopAgain(o, Q, d.force)
        /\ handed' = HandedBy(handed, d)
        /\ reported' = reported \cup ToSet(d.lines)
        /\ mishap' = mishap \cup (IF d.at = "summary" THEN {"summaryTookItem"} ELSE {})
        /\ UNCHANGED <<direct, accepted, discarded, clears>>
    BY DEF SendSucceeds, HandedBy
  <1>3. Sends(d) /\ d.at # "idle"
    BY <1>2 DEF IsSending, Sends
  <1>4. drain \in [Objects -> Drain] /\ d.force \in BOOLEAN
    BY <1>1 DEF Settled, Sound, SoundTypes, Drain
  <1>5. mishap \subseteq mishap' /\ mishap' \subseteq Mishaps /\ (d.at = "summary" => "summaryTookItem" \in mishap')
    BY <1>1, <1>2 DEF Mishaps
  <1>6. E[o].at = "idle"
    BY <1>4, RestingDrains
  <1>7. [E EXCEPT ![o] = Debouncing(d.force)] = [drain EXCEPT ![o] = Debouncing(d.force)]
    BY <1>4
  <1>8. IF HasWork(Q[o])
        THEN Installed(Q, [drain EXCEPT ![o] = Debouncing(d.force)], registered, queue', drain', registered')
        ELSE Installed(Q, E, None, queue', drain', registered')
    BY <1>2 DEF LoopAgain, Install, Installed
  <1>9. Sound(Q, E, registered, accepted, handed', mishap', reported', discarded)
    <2>1. Sound(Q, E, registered, accepted, HandedBy(handed, d), mishap', reported \cup ToSet(d.lines), discarded)
      BY <1>1, <1>3, <1>5, SendSettles
    <2> QED
      BY <1>2, <2>1
  <1>10. ~Forked(mishap') => o = registered
    BY <1>1, <1>3, <1>5, LosslessBefore, TheOnlyDrain
  <1> HIDE DEF Q, E
  <1>11. Settled(queue', drain', registered', accepted, handed', mishap', reported', discarded)
    <2>1. /\ Installed(Q, [E EXCEPT ![o] = Debouncing(d.force)], registered, queue', drain', registered')
                => Settled(queue', drain', registered', accepted, handed', mishap', reported', discarded)
          /\ ~HasWork(Q[o]) /\ Installed(Q, E, None, queue', drain', registered')
                => Settled(queue', drain', registered', accepted, handed', mishap', reported', discarded)
      BY <1>4, <1>6, <1>9, <1>10, LoopSettles
    <2> QED
      BY <1>7, <1>8, <2>1
  <1> QED
    BY <1>1, <1>2, <1>5, <1>11 DEF IInv

\* runFollowup throws.
LEMMA ThrowsStep == ASSUME IInv, NEW o \in Objects, SendThrows(o) PROVE IInv'
  <1>1. /\ Settled(queue, drain, registered, accepted, handed, mishap, reported, discarded)
        /\ direct \in BOOLEAN /\ mishap \subseteq Mishaps /\ clears \in 0..MaxClears
    BY DEF IInv
  <1>2. /\ drain[o].at # "idle"
        /\ UNCHANGED <<direct, accepted, handed, reported, discarded, mishap, clears>>
    BY DEF SendThrows, IsSending, fateVars
  <1>3. Left(o, queue, drain, registered, queue', drain', registered')
    BY DEF SendThrows, LeaveLoop, Left, ScheduleFollowupDrain, Scheduled, Install, Installed
  <1>4. Settled(queue', drain', registered', accepted, handed, mishap, reported, discarded)
    BY <1>1, <1>2, <1>3, Leaves
  <1> QED
    BY <1>1, <1>2, <1>4 DEF IInv

\* Every step preserves the invariant.
LEMMA NextStep == IInv /\ [Next]_vars => IInv'
  <1> SUFFICES ASSUME IInv, [Next]_vars PROVE IInv'
    OBVIOUS
  <1>1. CASE \E m \in Messages, s \in Settings, active \in BOOLEAN : EnqueueFollowupRun(m, s, active)
    BY <1>1, EnqueueStep
  <1>2. CASE DirectRunStarts
    BY <1>2 DEF IInv, DirectRunStarts, queueVars, fateVars
  <1>3. CASE DirectRunEnds
    BY <1>3, DirectRunEndsStep
  <1>4. CASE ClearFollowupQueue
    BY <1>4, ClearStep
  <1>5. CASE \E o \in Objects : DebounceEnds(o)
    BY <1>5, DebounceStep
  <1>6. CASE \E o \in Objects : CollectStarts(o)
    BY <1>6, CollectStep
  <1>7. CASE \E o \in Objects : SendSucceeds(o)
    BY <1>7, SucceedsStep
  <1>8. CASE \E o \in Objects : SendThrows(o)
    BY <1>8, ThrowsStep
  <1>9. CASE \E m \in Messages : IdExpires(IdOf[m])
    BY <1>9 DEF IInv, IdExpires, queueVars, fateVars
  <1>10. CASE UNCHANGED vars
    BY <1>10 DEF IInv, vars, queueVars, fateVars
  <1> QED
    BY <1>1, <1>2, <1>3, <1>4, <1>5, <1>6, <1>7, <1>8, <1>9, <1>10 DEF Next

\* The inductive invariant holds in every reachable state of the followup queue.
THEOREM Invariance == Spec => []IInv
  BY InitSettled, NextStep, PTL DEF Spec

-----------------------------------------------------------------------------
(* The ids of the messages: every one that was pushed is remembered or has   *)
(* expired, and a queue object has each at most once.                        *)

Ids == {IdOf[m] : m \in Messages}

Once(items) == \A i, j \in DOMAIN items : i # j => IdOf[items[i]] # IdOf[items[j]]
AllOnce(Q) == \A o \in Objects : Once(Q[o].items)

\* The deliveries in A of one message are several only if its id was forgotten.
IdsKnown(A, K, F) ==
    /\ K \subseteq Ids /\ F \subseteq Ids
    /\ \A m \in ToSet(A) : IdOf[m] \in K \cup F
    /\ \A m, n \in ToSet(A) : m # n /\ IdOf[m] = IdOf[n] => IdOf[m] \in F

IdInv == IdsKnown(accepted, recent, forgotten) /\ AllOnce(queue)

\* Install takes objects away, it adds nothing to them.
LEMMA InstallOnce ==
    ASSUME NEW Q, NEW D, NEW r, Install(Q, D, r), AllOnce(Q)
    PROVE  AllOnce(queue')
  <1>1. NoQueue.items = << >>
    BY FreshQueue
  <1>2. Once(NoQueue.items)
    BY <1>1 DEF Once
  <1> SUFFICES ASSUME NEW o \in Objects PROVE Once(queue'[o].items)
    BY DEF AllOnce
  <1>3. queue'[o] = Q[o] \/ queue'[o] = NoQueue
    BY DEF Install
  <1> QED
    BY <1>2, <1>3 DEF AllOnce

\* Nor do the ways to end a drain or to start one.
LEMMA DrainOnce ==
    ASSUME NEW Q, AllOnce(Q), NEW D, NEW r
    PROVE  /\ ScheduleFollowupDrain(Q, D, r) => AllOnce(queue')
           /\ \A o, force : LoopAgain(o, Q, force) => AllOnce(queue')
  BY InstallOnce DEF ScheduleFollowupDrain, LoopAgain

\* A drain that goes on with the same items.
LEMMA SameOnce ==
    ASSUME AllOnce(queue), NEW o
    PROVE  /\ LeaveLoop(o) => AllOnce(queue')
           /\ \A sending : Start(o, sending) => AllOnce(queue')
           /\ \A kind, lines, force : SendNext(o, kind, lines, force) => AllOnce(queue')
  <1>1. LeaveLoop(o) => AllOnce(queue')
    BY InstallOnce, DrainOnce DEF LeaveLoop
  <1>2. \A sending : Start(o, sending) => AllOnce(queue')
    BY InstallOnce DEF Start
  <1> QED
    BY <1>1, <1>2 DEF SendNext

\* What is left of a queue has each id once, and still has it with a new one at the end.
LEMMA RestOnce ==
    ASSUME NEW s \in Seq(Messages), Once(s), NEW k \in Nat
    PROVE  /\ Once(Rest(s, k))
           /\ \A m \in Messages : ~IsRunAlreadyQueued(m, s) => Once(Append(Rest(s, k), m))
  <1> DEFINE t == Rest(s, k)
  <1>1. /\ t \in Seq(Messages) /\ Len(t) \in Nat /\ DOMAIN t = 1..Len(t)
        /\ \A i \in 1..Len(t) : i + k \in 1..Len(s) /\ t[i] = s[i + k]
    BY RestFacts, LenProperties
  <1>2. DOMAIN s = 1..Len(s)
    BY LenProperties
  <1> HIDE DEF t
  <1>3. Once(t)
    <2> SUFFICES ASSUME NEW i \in 1..Len(t), NEW j \in 1..Len(t), i # j
                 PROVE  IdOf[t[i]] # IdOf[t[j]]
      BY <1>1 DEF Once
    <2>1. i + k \in 1..Len(s) /\ j + k \in 1..Len(s) /\ i + k # j + k
      BY <1>1
    <2> QED
      BY <1>1, <1>2, <2>1 DEF Once
  <1>4. ASSUME NEW m \in Messages, ~IsRunAlreadyQueued(m, s) PROVE Once(Append(t, m))
    <2> DEFINE u == Append(t, m)
    <2>1. /\ DOMAIN u = 1..(Len(t) + 1) /\ u[Len(t) + 1] = m
          /\ \A i \in 1..Len(t) : u[i] = t[i]
      BY <1>1, AppendProperties, LenProperties
    <2>2. \A i \in 1..Len(t) : IdOf[t[i]] # IdOf[m]
      BY <1>1, <1>2, <1>4 DEF IsRunAlreadyQueued
    <2> HIDE DEF u
    <2>3. Once(u)
      <3> SUFFICES ASSUME NEW i \in 1..(Len(t) + 1), NEW j \in 1..(Len(t) + 1), i # j
                   PROVE  IdOf[u[i]] # IdOf[u[j]]
        BY <2>1 DEF Once
      <3>1. CASE i \in 1..Len(t) /\ j \in 1..Len(t)
        BY <1>1, <1>3, <2>1, <3>1 DEF Once
      <3>2. CASE i = Len(t) + 1 /\ j \in 1..Len(t)
        BY <2>1, <2>2, <3>2
      <3>3. CASE j = Len(t) + 1 /\ i \in 1..Len(t)
        BY <2>1, <2>2, <3>3
      <3> QED
        BY <1>1, <3>1, <3>2, <3>3
    <2> QED
      BY <2>3 DEF u
  <1> QED
    BY <1>3, <1>4 DEF t

\* enqueueFollowupRun refuses what is remembered or queued.
LEMMA EnqueueIds ==
    ASSUME IInv, IdInv, NEW m \in Messages, NEW s \in Settings, NEW active \in BOOLEAN,
           EnqueueFollowupRun(m, s, active)
    PROVE  IdInv'
  <1> DEFINE fresh == registered = None
             o == IF fresh THEN CHOOSE x \in Objects : drain[x].at = "idle" ELSE registered
             c == Configured(IF fresh THEN NoQueue ELSE queue[o], s)
             known == Known(m, c)
             pushes == ~known /\ (DropCount(c) = 0 \/ c.drop # "new")
             p == IF pushes THEN Pushed(c, m) ELSE IF known THEN c ELSE [c EXCEPT !.lastRun = TRUE]
             Q == [queue EXCEPT ![o] = p]
  <1>1. /\ fresh => \E x \in Objects : drain[x].at = "idle"
        /\ IF active THEN Install(Q, drain, o) ELSE ScheduleFollowupDrain(Q, drain, o)
        /\ recent' = IF pushes THEN recent \cup {IdOf[m]} ELSE recent
        /\ accepted' = IF pushes THEN Append(accepted, m) ELSE accepted
        /\ forgotten' = forgotten
    BY DEF EnqueueFollowupRun
  <1>2. /\ queue \in [Objects -> QueueObject] /\ registered \in Objects \cup {None}
        /\ accepted \in Seq(Messages)
    BY DEF IInv, Settled, Sound, SoundTypes
  <1>3. o \in Objects
    BY <1>1, <1>2
  <1>4. /\ c \in QueueObject /\ c.items = (IF fresh THEN NoQueue ELSE queue[o]).items
    BY <1>2, <1>3, FreshQueue, ConfiguredFacts
  <1>5. Once(c.items) /\ c.items \in Seq(Messages)
    <2>1. Once(NoQueue.items)
      BY FreshQueue DEF Once
    <2> QED
      BY <1>3, <1>4, <2>1 DEF IdInv, AllOnce, QueueObject
  <1> HIDE DEF o, c
  <1>6. Once(p.items)
    <2>1. CASE pushes
      <3>1. ~IsRunAlreadyQueued(m, c.items) /\ DropCount(c) \in Nat
        BY <1>4, <2>1, DropCountFacts DEF Known, QueueObject
      <3>2. p.items = Append(Rest(c.items, DropCount(c)), m)
        BY <1>4, <2>1, PushedFacts
      <3> QED
        BY <1>5, <3>1, <3>2, RestOnce
    <2>2. CASE ~pushes
      <3>1. p.items = c.items
        BY <1>4, <2>2 DEF QueueObject
      <3> QED
        BY <1>5, <3>1
    <2> QED
      BY <2>1, <2>2
  <1>7. AllOnce(Q)
    <2> HIDE DEF p
    <2> QED
      BY <1>2, <1>3, <1>6 DEF IdInv, AllOnce
  <1>8. AllOnce(queue')
    <2> HIDE DEF Q
    <2> QED
      BY <1>1, <1>7, InstallOnce, DrainOnce
  <1>9. IdsKnown(accepted', recent', forgotten')
    <2>1. CASE pushes
      <3>1. /\ ToSet(accepted') = ToSet(accepted) \cup {m} /\ recent' = recent \cup {IdOf[m]}
            /\ forgotten' = forgotten /\ IdOf[m] \notin recent
        BY <1>1, <1>2, <2>1, BeforeFacts DEF Known
      <3> QED
        BY <3>1 DEF IdInv, IdsKnown, Ids
    <2>2. CASE ~pushes
      BY <1>1, <2>2 DEF IdInv
    <2> QED
      BY <2>1, <2>2
  <1> QED
    BY <1>8, <1>9 DEF IdInv

\* The other steps of the queue take items away.
LEMMA DrainIds ==
    ASSUME IInv, IdInv,
           \/ DirectRunStarts \/ DirectRunEnds \/ ClearFollowupQueue
           \/ \E o \in Objects : \/ DebounceEnds(o) \/ CollectStarts(o)
                                 \/ SendSucceeds(o) \/ SendThrows(o)
    PROVE  IdInv'
  <1>1. UNCHANGED <<accepted, recent, forgotten>>
    BY DEF DirectRunStarts, DirectRunEnds, ClearFollowupQueue, DebounceEnds, CollectStarts,
           SendSucceeds, SendThrows, idVars, fateVars
  <1>2. /\ queue \in [Objects -> QueueObject] /\ drain \in [Objects -> Drain]
        /\ registered \in Objects \cup {None} /\ AllOnce(queue)
    BY DEF IInv, Settled, Sound, SoundTypes, IdInv
  <1>3. ASSUME DirectRunStarts PROVE AllOnce(queue')
    BY <1>2, <1>3 DEF DirectRunStarts, queueVars
  <1>4. ASSUME DirectRunEnds PROVE AllOnce(queue')
    BY <1>2, <1>4, DrainOnce DEF DirectRunEnds
  <1>5. ASSUME ClearFollowupQueue PROVE AllOnce(queue')
    <2> DEFINE r == registered
               P == [queue EXCEPT ![r].items = << >>, ![r].lines = << >>,
                                  ![r].dropped = 0, ![r].lastRun = FALSE]
    <2>1. Install(P, drain, None) /\ r \in Objects
      BY <1>2, <1>5 DEF ClearFollowupQueue
    <2>2. P[r].items = << >> /\ \A o \in Objects : o # r => P[o] = queue[o]
      BY <1>2, <2>1 DEF QueueObject
    <2> HIDE DEF P
    <2>3. AllOnce(P)
      BY <1>2, <2>2 DEF AllOnce, Once
    <2> QED
      BY <2>1, <2>3, InstallOnce
  <1>6. ASSUME NEW o \in Objects, DebounceEnds(o) PROVE AllOnce(queue')
    <2>1. \/ \E kind, lines, force : SendNext(o, kind, lines, force)
          \/ \E sending : Start(o, sending)
          \/ LeaveLoop(o)
      BY <1>6 DEF DebounceEnds
    <2> QED
      BY <1>2, <2>1, SameOnce
  <1>7. ASSUME NEW o \in Objects, CollectStarts(o) PROVE AllOnce(queue')
    BY <1>2, <1>7, SameOnce DEF CollectStarts
  <1>8. ASSUME NEW o \in Objects, SendSucceeds(o) PROVE AllOnce(queue')
    <2> DEFINE t == Sent(queue[o], drain[o])
               Q == [queue EXCEPT ![o] = t]
    <2>1. LoopAgain(o, Q, drain[o].force)
      BY <1>8 DEF SendSucceeds
    <2>2. t.items = Rest(queue[o].items, Len(drain[o].msgs))
      BY <1>2, SentFacts
    <2>3. queue[o].items \in Seq(Messages) /\ Len(drain[o].msgs) \in Nat /\ Once(queue[o].items)
      BY <1>2 DEF QueueObject, Drain, AllOnce
    <2>4. Once(t.items)
      BY <2>2, <2>3, RestOnce
    <2> HIDE DEF t
    <2>5. AllOnce(Q)
      BY <1>2, <2>4 DEF AllOnce
    <2> HIDE DEF Q
    <2> QED
      BY <2>1, <2>5, DrainOnce
  <1>9. ASSUME NEW o \in Objects, SendThrows(o) PROVE AllOnce(queue')
    BY <1>2, <1>9, SameOnce DEF SendThrows
  <1>10. AllOnce(queue')
    BY <1>3, <1>4, <1>5, <1>6, <1>7, <1>8, <1>9
  <1> QED
    BY <1>1, <1>10 DEF IdInv

\* The ids are known in every reachable state.
LEMMA IdsInvariance == Spec => [](IInv /\ IdInv)
  <1>1. Init => IdInv
    <2> SUFFICES ASSUME Init PROVE IdInv
      OBVIOUS
    <2>1. \A o \in Objects : queue[o].items = << >>
      BY FreshQueue DEF Init
    <2>2. accepted = << >> /\ ToSet(accepted) = {} /\ recent = {} /\ forgotten = {}
      BY DEF Init, ToSet
    <2> QED
      BY <2>1, <2>2 DEF IdInv, IdsKnown, AllOnce, Once
  <1>2. IInv /\ IdInv /\ [Next]_vars => IdInv'
    <2> SUFFICES ASSUME IInv, IdInv, [Next]_vars PROVE IdInv'
      OBVIOUS
    <2>1. CASE \E m \in Messages, s \in Settings, active \in BOOLEAN : EnqueueFollowupRun(m, s, active)
      BY <2>1, EnqueueIds
    <2>2. CASE \E m \in Messages : IdExpires(IdOf[m])
      <3>1. PICK m \in Messages : /\ recent' = recent \ {IdOf[m]}
                                  /\ forgotten' = forgotten \cup {IdOf[m]}
                                  /\ accepted' = accepted /\ queue' = queue
        BY <2>2 DEF IdExpires, queueVars
      <3> QED
        BY <3>1 DEF IdInv, IdsKnown, Ids
    <2>3. CASE UNCHANGED vars
      BY <2>3 DEF IdInv, vars, queueVars, idVars
    <2>4. CASE \/ DirectRunStarts \/ DirectRunEnds \/ ClearFollowupQueue
               \/ \E o \in Objects : \/ DebounceEnds(o) \/ CollectStarts(o)
                                     \/ SendSucceeds(o) \/ SendThrows(o)
      BY <2>4, DrainIds
    <2> QED
      BY <2>1, <2>2, <2>3, <2>4 DEF Next
  <1> QED
    BY InitSettled, NextStep, <1>1, <1>2, PTL DEF Spec

-----------------------------------------------------------------------------
(* The theorems.                                                            *)

\* Every variable stays in its range: in particular no queue grows beyond the largest
\* cap and no summary has more lines than that.
THEOREM TypeCorrect == Spec => []TypeOK
  <1>1. IInv /\ IdInv => TypeOK
    <2> SUFFICES ASSUME IInv, IdInv PROVE TypeOK
      OBVIOUS
    <2>1. /\ SoundTypes(queue, drain, registered, accepted, handed, reported, discarded)
          /\ AllSound(queue, drain, accepted, handed, mishap)
      BY DEF IInv, Settled, Sound
    <2>2. ASSUME NEW o \in Objects
          PROVE  /\ ToSet(queue[o].items) \cup ToSet(queue[o].lines) \subseteq Messages
                 /\ Len(queue[o].items) <= MaxCap
                 /\ Len(queue[o].lines) <= MaxCap
                 /\ queue[o].dropped >= Len(queue[o].lines)
                 /\ drain[o].at \in {"idle", "debouncing", "collecting", "item", "summary", "batch"}
      <3>1. ObjectTypes(queue[o], drain[o])
        BY <2>1 DEF AllSound, ObjectSound
      <3>2. ToSet(queue[o].items) \subseteq Messages /\ ToSet(queue[o].lines) \subseteq Messages
        BY <3>1, FieldTypes, MembersOf
      <3> QED
        BY <3>1, <3>2 DEF ObjectTypes, Drain
    <2>3. ToSet(accepted) \subseteq Messages
      BY <2>1, MembersOf DEF SoundTypes
    <2>4. handed \in [Messages -> 0..2]
      BY <2>1 DEF SoundTypes
    <2>5. registered \in Objects \cup {None} /\ reported \cup discarded \subseteq Messages
      BY <2>1 DEF SoundTypes
    <2>6. direct \in BOOLEAN /\ clears \in 0..MaxClears
          /\ mishap \subseteq {"overflowDuringSend", "summaryTookItem", "summaryDisowned",
                               "summaryAlone", "arrivedWhileCollecting", "clearedDuringDrain"}
      BY DEF IInv, Mishaps
    <2>7. recent \cup forgotten \subseteq {IdOf[m] : m \in Messages}
      BY DEF IdInv, IdsKnown, Ids
    <2> QED
      BY <2>2, <2>3, <2>4, <2>5, <2>6, <2>7 DEF TypeOK
  <1> QED
    BY IdsInvariance, <1>1, PTL

\* An accepted message is queued, in the pending summary, handed to the agent, reported
\* as dropped or given up on purpose, unless an overflow cut off what was being sent, a
\* summary was sent in the place of an item, a change of policy disowned a summary, or
\* the queue was cleared under a running drain.
THEOREM NothingIsLost == Spec => []NothingVanishesUnlessLossy
  <1>1. IInv => NothingVanishesUnlessLossy
    <2> SUFFICES ASSUME IInv, mishap \cap Lossy = {}, NEW m \in ToSet(accepted)
                 PROVE  Waiting(m) \/ ToBeReported(m) \/ AccountedFor(m)
      BY DEF NothingVanishesUnlessLossy, NothingVanishes
    <2>1. Found(queue, m) \/ handed[m] > 0 \/ m \in reported \cup discarded
      BY DEF IInv, Settled, Sound, Kept, Lossless
    <2> QED
      BY <2>1 DEF Found, Waiting, ToBeReported, AccountedFor
  <1> QED
    BY Invariance, <1>1, PTL

\* No prompt that went through is sent again, by retries, settings that change under a
\* send, or the drain of a queue that was cleared; a redelivery is handed over beside the
\* first delivery only when the id of the message had expired, and no queue ever holds
\* one message twice.
THEOREM NoMessageTwice == Spec => []HandedAtMostOnce
  <1>1. IInv /\ IdInv => HandedAtMostOnce
    <2> SUFFICES ASSUME IInv, IdInv PROVE HandedAtMostOnce
      OBVIOUS
    <2>1. handed \in [Messages -> 0..1] /\ \A m \in Messages : handed[m] > 0 => m \in ToSet(accepted)
      BY DEF IInv, Settled, Sound, SoundTypes
    <2>2. \A m \in Messages : handed[m] <= 1
      BY <2>1
    <2>3. \A m, n \in Messages :
             m # n /\ IdOf[m] = IdOf[n] /\ handed[m] > 0 /\ handed[n] > 0 => IdOf[m] \in forgotten
      BY <2>1 DEF IdInv, IdsKnown
    <2> QED
      BY <2>2, <2>3 DEF HandedAtMostOnce, IdInv, AllOnce, Once
  <1> QED
    BY IdsInvariance, <1>1, PTL

\* The agent gets the messages in the order they were accepted, unless a clear has
\* forked the queue.
THEOREM MessagesInOrder == Spec => []HandedInOrder
  <1>1. IInv => HandedInOrder
    <2> SUFFICES ASSUME IInv, ~Forked(mishap), NEW i \in DOMAIN accepted, NEW j \in DOMAIN accepted,
                        i < j, handed[accepted[j]] > 0, Waiting(accepted[i])
                 PROVE  FALSE
      BY DEF HandedInOrder, Forked
    <2>1. /\ SoundTypes(queue, drain, registered, accepted, handed, reported, discarded)
          /\ AllSound(queue, drain, accepted, handed, mishap)
      BY DEF IInv, Settled, Sound
    <2>2. accepted \in Seq(Messages) /\ Distinct(accepted) /\ DOMAIN accepted = 1..Len(accepted)
      BY <2>1, LenProperties DEF SoundTypes
    <2>3. accepted[j] \in Messages
      BY <2>2, ElementOfSeq
    <2>4. PICK o \in Objects : accepted[i] \in ToSet(queue[o].items)
      BY DEF Waiting
    <2>5. ObjectSound(queue[o], drain[o], accepted, handed, mishap)
      BY <2>1 DEF AllSound
    <2>6. queue[o].items \in Seq(Messages)
      BY <2>5, FieldTypes DEF ObjectSound
    <2>7. PICK k \in 1..Len(queue[o].items) : queue[o].items[k] = accepted[i]
      BY <2>4, <2>6, MembersOf
    <2>8. Before(accepted, accepted[j], accepted[i])
      BY <2>3, <2>5, <2>7 DEF ObjectSound, AfterHanded
    <2> QED
      BY <2>2, <2>8, BeforeIsAnOrder
  <1> QED
    BY Invariance, <1>1, PTL

\* The messages of a collected batch have one destination, unless one of them arrived
\* between the check for crossing channels and the copy of the items.
THEOREM BatchesStayTogether == Spec => []BatchHasOneDestination
  <1>1. IInv => BatchHasOneDestination
    <2> SUFFICES ASSUME IInv, "arrivedWhileCollecting" \notin mishap, NEW o \in Objects,
                        NEW i \in DOMAIN drain[o].msgs, NEW j \in DOMAIN drain[o].msgs,
                        drain[o].at = "batch"
                 PROVE  /\ RouteOf[drain[o].msgs[i]] = RouteOf[drain[o].msgs[j]]
                        /\ RouteOf[drain[o].msgs[i]] # Unroutable
      BY DEF BatchHasOneDestination
    <2>1. ObjectSound(queue[o], drain[o], accepted, handed, mishap)
      BY DEF IInv, Settled, Sound, AllSound
    <2>2. drain[o].msgs \in Seq(Messages)
      BY <2>1, FieldTypes DEF ObjectSound
    <2>3. DOMAIN drain[o].msgs = 1..Len(drain[o].msgs)
      BY <2>2, LenProperties
    <2>4. OneDestination(drain[o].msgs)
      BY <2>1 DEF ObjectSound, OneBatch
    <2> QED
      BY <2>3, <2>4 DEF OneDestination
  <1> QED
    BY Invariance, <1>1, PTL

=============================================================================
