------------------------ MODULE InboundDebounceProofs ------------------------
(***************************************************************************)
(* Proofs about the debouncer, for any number of keys and messages.         *)
(*                                                                         *)
(* FlushedInOrder is not inductive: what will be flushed is in the chain.   *)
(* The invariant says of each key that the tasks of its chain hold, one     *)
(* after the other and without a gap, the messages between the last one     *)
(* flushed and the last one arrived, and that an open buffer is the last    *)
(* task of the chain and has not been taken up.                             *)
(*                                                                         *)
(* It is an operator of the state of one key, so that each lemma is about   *)
(* one change of a chain; an action makes one or two of these changes.      *)
(***************************************************************************)
EXTENDS InboundDebounce, SequenceTheorems, TLAPS

Types(c, b, r, f, n) ==
    /\ c \in Seq(Task)
    /\ b \in BOOLEAN
    /\ r \in BOOLEAN
    /\ f \in Seq(1..MaxItems)
    /\ n \in 0..MaxItems

First(t) == t.items[1]
Beyond(t) == t.items[1] + Len(t.items)

\* The items of a task follow one another.
NoGap(t) == Len(t.items) > 0 /\ \A j \in 1..Len(t.items) : t.items[j] = t.items[1] + j - 1

\* What has been flushed, the tasks of the chain, and what has arrived fit together.
Contiguous(c, r, f, n) ==
    /\ \A i \in 1..Len(f) : f[i] = i
    /\ \A i \in 1..Len(c) : NoGap(c[i])
    /\ \A i \in 1..(Len(c) - 1) : First(c[i + 1]) = Beyond(c[i])
    /\ c = << >> => Len(f) = n
    /\ c # << >> => /\ n + 1 = Beyond(c[Len(c)])
                    /\ Len(f) + 1 = IF r THEN Beyond(c[1]) ELSE First(c[1])

\* The open buffer is the last task of its chain; the task that is flushed is the first.
BufferIsLast(c, b, r) ==
    /\ b => c # << >> /\ ~c[Len(c)].ready /\ c[Len(c)].kind = "buffer"
    /\ r => c # << >> /\ c[1].ready

KeyOK(c, b, r, f, n) == Types(c, b, r, f, n) /\ Contiguous(c, r, f, n) /\ BufferIsLast(c, b, r)

IInv ==
    /\ arrived \in [Keys -> 0..MaxItems]
    /\ chain \in [Keys -> Seq(Task)]
    /\ buffered \in [Keys -> BOOLEAN]
    /\ running \in [Keys -> BOOLEAN]
    /\ flushed \in [Keys -> Seq(1..MaxItems)]
    /\ \A k \in Keys : KeyOK(chain[k], buffered[k], running[k], flushed[k], arrived[k])

-----------------------------------------------------------------------------
(* What the changes of a chain keep.                                        *)

\* The fields of a task.
LEMMA TaskParts ==
    ASSUME NEW t \in Task
    PROVE  /\ t.kind \in {"plain", "buffer", "behind"} /\ t.ready \in BOOLEAN
           /\ t.items \in Seq(1..MaxItems)
  BY DEF Task

\* A task that is released.
LEMMA TaskReady ==
    ASSUME NEW t \in Task
    PROVE  LET u == [t EXCEPT !.ready = TRUE]
           IN  u \in Task /\ u.items = t.items /\ u.kind = t.kind /\ u.ready
  BY DEF Task

\* A task that gets an item.
LEMMA TaskItems ==
    ASSUME NEW t \in Task, NEW s \in Seq(1..MaxItems)
    PROVE  LET u == [t EXCEPT !.items = s]
           IN  u \in Task /\ u.items = s /\ u.kind = t.kind /\ u.ready = t.ready
  BY DEF Task

\* A new task of one item at the end.
LEMMA PushKeeps ==
    ASSUME NEW c, NEW r, NEW f, NEW n, NEW b \in BOOLEAN, NEW t \in Task,
           KeyOK(c, FALSE, r, f, n), n < MaxItems,
           t.items = <<n + 1>>, b => ~t.ready /\ t.kind = "buffer"
    PROVE  KeyOK(Append(c, t), b, r, f, n + 1)
  <1> DEFINE d == Append(c, t)
  <1>1. c \in Seq(Task) /\ n \in 0..MaxItems /\ MaxItems \in Nat /\ f \in Seq(1..MaxItems)
    BY DebounceAssumption DEF KeyOK, Types
  <1>2. /\ d \in Seq(Task) /\ Len(d) = Len(c) + 1 /\ d[Len(d)] = t
        /\ \A i \in 1..Len(c) : d[i] = c[i]
    BY <1>1
  <1>3. Types(d, b, r, f, n + 1)
    BY <1>1, <1>2 DEF KeyOK, Types
  <1>4. NoGap(t) /\ First(t) = n + 1 /\ Beyond(t) = n + 2
    BY <1>1 DEF NoGap, First, Beyond
  <1>5. \A i \in 1..Len(d) : NoGap(d[i])
    BY <1>1, <1>2, <1>4 DEF KeyOK, Contiguous
  <1>6. \A i \in 1..(Len(d) - 1) : First(d[i + 1]) = Beyond(d[i])
    <2> SUFFICES ASSUME NEW i \in 1..(Len(d) - 1) PROVE First(d[i + 1]) = Beyond(d[i])
      OBVIOUS
    <2>1. CASE i = Len(c)
      BY <1>1, <1>2, <1>4, <2>1 DEF KeyOK, Contiguous
    <2>2. CASE i # Len(c)
      <3>1. i \in 1..(Len(c) - 1) /\ d[i] = c[i] /\ d[i + 1] = c[i + 1]
        BY <1>1, <1>2, <2>2
      <3> QED
        BY <3>1 DEF KeyOK, Contiguous
    <2> QED
      BY <2>1, <2>2
  <1>7. Len(f) + 1 = IF r THEN Beyond(d[1]) ELSE First(d[1])
    <2>1. CASE c = << >>
      BY <1>1, <1>2, <1>4, <2>1 DEF KeyOK, Contiguous, BufferIsLast
    <2>2. CASE c # << >>
      BY <1>1, <1>2, <2>2 DEF KeyOK, Contiguous
    <2> QED
      BY <2>1, <2>2
  <1>8. d # << >> /\ n + 2 = Beyond(d[Len(d)])
    BY <1>1, <1>2, <1>4
  <1>9. Contiguous(d, r, f, n + 1)
    <2>1. \A i \in 1..Len(f) : f[i] = i
      BY DEF KeyOK, Contiguous
    <2>2. (n + 1) + 1 = n + 2
      BY <1>1
    <2> HIDE DEF d
    <2> QED
      BY <1>5, <1>6, <1>7, <1>8, <2>1, <2>2 DEF Contiguous
  <1>10. BufferIsLast(d, b, r)
    BY <1>1, <1>2, <1>8 DEF KeyOK, BufferIsLast
  <1> QED
    BY <1>3, <1>9, <1>10 DEF KeyOK

\* A change of one task that keeps its items.
LEMMA ReadyKeeps ==
    ASSUME NEW c, NEW r, NEW f, NEW n, NEW b, NEW i \in 1..Len(c), KeyOK(c, b, r, f, n),
           i = Len(c) \/ c[i].kind # "buffer"
    PROVE  KeyOK([c EXCEPT ![i].ready = TRUE], b /\ i # Len(c), r, f, n)
  <1> DEFINE d == [c EXCEPT ![i].ready = TRUE]
  <1>1. c \in Seq(Task) /\ b \in BOOLEAN
    BY DEF KeyOK, Types
  <1>2. /\ d \in Seq(Task) /\ Len(d) = Len(c)
        /\ \A j \in 1..Len(c) : /\ d[j].items = c[j].items
                                /\ d[j].kind = c[j].kind
                                /\ j # i => d[j].ready = c[j].ready
                                /\ c[j].ready => d[j].ready
    <2> DEFINE u == [c[i] EXCEPT !.ready = TRUE]
    <2>1. c[i] \in Task
      BY <1>1
    <2>2. u \in Task /\ u.items = c[i].items /\ u.kind = c[i].kind /\ u.ready
      BY <2>1, TaskReady
    <2>3. d = [c EXCEPT ![i] = u]
      OBVIOUS
    <2> HIDE DEF u, d
    <2>4. /\ d \in Seq(Task) /\ Len(d) = Len(c) /\ d[i] = u
          /\ \A j \in 1..Len(c) : j # i => d[j] = c[j]
      BY <1>1, <2>2, <2>3
    <2> QED
      BY <2>2, <2>4
  <1> HIDE DEF d
  <1>3. Types(d, b /\ i # Len(c), r, f, n)
    BY <1>1, <1>2 DEF KeyOK, Types
  <1>4. c = << >> <=> d = << >>
    BY <1>1, <1>2
  <1>5. Contiguous(d, r, f, n)
    <2>1. Contiguous(c, r, f, n)
      BY DEF KeyOK
    <2>2. \A j \in 1..Len(c) : /\ NoGap(c[j]) => NoGap(d[j])
                               /\ First(d[j]) = First(c[j]) /\ Beyond(d[j]) = Beyond(c[j])
      BY <1>2 DEF NoGap, First, Beyond
    <2>3. \A j \in 1..(Len(c) - 1) : j \in 1..Len(c) /\ j + 1 \in 1..Len(c)
      BY <1>1
    <2>4. c # << >> => 1 \in 1..Len(c) /\ Len(c) \in 1..Len(c)
      BY <1>1
    <2> QED
      BY <1>2, <1>4, <2>1, <2>2, <2>3, <2>4 DEF Contiguous
  <1>6. BufferIsLast(d, b /\ i # Len(c), r)
    BY <1>1, <1>2, <1>4 DEF KeyOK, BufferIsLast
  <1> QED
    BY <1>3, <1>5, <1>6 DEF KeyOK, d

\* Another item in the open buffer.
LEMMA JoinKeeps ==
    ASSUME NEW c, NEW r, NEW f, NEW n, KeyOK(c, TRUE, r, f, n), n < MaxItems
    PROVE  KeyOK([c EXCEPT ![Len(c)].items = Append(@, n + 1)], TRUE, r, f, n + 1)
  <1> DEFINE m == Len(c)
             d == [c EXCEPT ![m].items = Append(@, n + 1)]
  <1>1. /\ c \in Seq(Task) /\ n \in 0..MaxItems /\ MaxItems \in Nat /\ f \in Seq(1..MaxItems)
        /\ m \in 1..Len(c) /\ m \in Nat
    BY DebounceAssumption DEF KeyOK, Types, BufferIsLast
  <1>2. c[m].items \in Seq(1..MaxItems) /\ NoGap(c[m]) /\ n + 1 = Beyond(c[m])
    <2>1. c[m] \in Task
      BY <1>1
    <2>2. c[m].items \in Seq(1..MaxItems)
      BY <2>1, TaskParts
    <2> QED
      BY <1>1, <2>2 DEF KeyOK, Contiguous, BufferIsLast
  <1>3. /\ d \in Seq(Task) /\ Len(d) = Len(c)
        /\ \A j \in 1..Len(c) : j # m => d[j] = c[j]
        /\ d[m].items = Append(c[m].items, n + 1)
        /\ d[m].kind = c[m].kind /\ d[m].ready = c[m].ready
    <2>1. Append(c[m].items, n + 1) \in Seq(1..MaxItems)
      BY <1>1, <1>2
    <2> DEFINE s == Append(c[m].items, n + 1)
               u == [c[m] EXCEPT !.items = s]
    <2>2. d = [c EXCEPT ![m] = u]
      OBVIOUS
    <2>3. c[m] \in Task
      BY <1>1
    <2> HIDE DEF s
    <2>4. u \in Task /\ u.items = s /\ u.kind = c[m].kind /\ u.ready = c[m].ready
      BY <2>1, <2>3, TaskItems DEF s
    <2> HIDE DEF u, d
    <2>5. /\ d \in Seq(Task) /\ Len(d) = Len(c) /\ d[m] = u
          /\ \A j \in 1..Len(c) : j # m => d[j] = c[j]
      BY <1>1, <2>2, <2>4
    <2> QED
      BY <2>4, <2>5 DEF s
  <1> HIDE DEF d, m
  <1>4. NoGap(d[m]) /\ First(d[m]) = First(c[m]) /\ Beyond(d[m]) = n + 2
    <2>1. /\ Len(d[m].items) = Len(c[m].items) + 1
          /\ \A j \in 1..Len(c[m].items) : d[m].items[j] = c[m].items[j]
          /\ d[m].items[Len(c[m].items) + 1] = n + 1
      BY <1>1, <1>2, <1>3
    <2> QED
      <3>1. Len(c[m].items) \in Nat /\ Len(c[m].items) > 0 /\ c[m].items[1] \in Nat
        BY <1>1, <1>2 DEF NoGap
      <3> QED
        <4> DEFINE s == c[m].items
                   u == d[m].items
        <4>1. /\ Len(s) > 0 /\ \A j \in 1..Len(s) : s[j] = s[1] + j - 1
              /\ n + 1 = s[1] + Len(s)
          BY <1>2 DEF NoGap, Beyond
        <4>2. Len(u) = Len(s) + 1 /\ u[Len(s) + 1] = n + 1 /\ \A j \in 1..Len(s) : u[j] = s[j]
          BY <2>1
        <4>3. Len(s) \in Nat /\ s[1] \in Nat /\ n \in Nat
          BY <1>1, <3>1
        <4> HIDE DEF s, u
        <4>4. u[1] = s[1] /\ Len(u) > 0 /\ s[1] + Len(u) = n + 2
          BY <4>1, <4>2, <4>3
        <4>5. \A j \in 1..Len(u) : u[j] = u[1] + j - 1
          BY <4>1, <4>2, <4>3, <4>4
        <4> QED
          BY <4>4, <4>5 DEF NoGap, First, Beyond, s, u
  <1>5. Types(d, TRUE, r, f, n + 1)
    BY <1>1, <1>3 DEF KeyOK, Types
  <1>6. \A i \in 1..Len(d) : NoGap(d[i])
    BY <1>1, <1>3, <1>4 DEF KeyOK, Contiguous
  <1>7. \A i \in 1..(Len(d) - 1) : First(d[i + 1]) = Beyond(d[i])
    <2> SUFFICES ASSUME NEW i \in 1..(Len(d) - 1) PROVE First(d[i + 1]) = Beyond(d[i])
      OBVIOUS
    <2>1. m = Len(c)
      BY DEF m
    <2>2. i \in 1..(Len(c) - 1) /\ i \in 1..Len(c) /\ i + 1 \in 1..Len(c) /\ i # m
      BY <1>1, <1>3, <2>1
    <2>3. d[i] = c[i] /\ First(d[i + 1]) = First(c[i + 1])
      BY <1>3, <1>4, <2>2
    <2>4. First(c[i + 1]) = Beyond(c[i])
      BY <2>2 DEF KeyOK, Contiguous
    <2> QED
      BY <2>3, <2>4
  <1>8. Len(f) + 1 = IF r THEN Beyond(d[1]) ELSE First(d[1])
    <2>1. r => m # 1
      BY <1>1 DEF KeyOK, BufferIsLast, m
    <2>2. First(d[1]) = First(c[1]) /\ (r => Beyond(d[1]) = Beyond(c[1]))
      BY <1>1, <1>3, <1>4, <2>1
    <2> QED
      BY <1>1, <2>2 DEF KeyOK, Contiguous
  <1>9. Contiguous(d, r, f, n + 1)
    <2>1. \A i \in 1..Len(f) : f[i] = i
      BY DEF KeyOK, Contiguous
    <2>2. d # << >> /\ Len(d) = m /\ (n + 1) + 1 = n + 2
      BY <1>1, <1>3 DEF m
    <2> QED
      BY <1>4, <1>6, <1>7, <1>8, <2>1, <2>2 DEF Contiguous
  <1>10. BufferIsLast(d, TRUE, r)
    BY <1>1, <1>3 DEF KeyOK, BufferIsLast
  <1> QED
    BY <1>5, <1>9, <1>10 DEF KeyOK, d, m

\* The first task is handed over.
LEMMA BeginKeeps ==
    ASSUME NEW c, NEW f, NEW n, NEW b, KeyOK(c, b, FALSE, f, n), c # << >>, Head(c).ready
    PROVE  KeyOK(c, b, TRUE, f \o Head(c).items, n)
  <1> DEFINE s == c[1].items
             g == f \o s
  <1>1. /\ c \in Seq(Task) /\ f \in Seq(1..MaxItems) /\ Head(c) = c[1]
        /\ 1 \in 1..Len(c) /\ s \in Seq(1..MaxItems)
    <2>1. c \in Seq(Task) /\ f \in Seq(1..MaxItems)
      BY DEF KeyOK, Types
    <2>2. Head(c) = c[1] /\ 1 \in 1..Len(c) /\ c[1] \in Task
      BY <2>1
    <2> QED
      BY <2>1, <2>2, TaskParts
  <1>2. /\ g \in Seq(1..MaxItems) /\ Len(g) = Len(f) + Len(s)
        /\ \A i \in 1..Len(g) : g[i] = IF i <= Len(f) THEN f[i] ELSE s[i - Len(f)]
    BY <1>1
  <1>3. NoGap(c[1]) /\ Len(f) + 1 = s[1]
    BY <1>1 DEF KeyOK, Contiguous, First
  <1>4. \A i \in 1..Len(g) : g[i] = i
    <2> SUFFICES ASSUME NEW i \in 1..Len(g) PROVE g[i] = i
      OBVIOUS
    <2>1. CASE i <= Len(f)
      BY <1>1, <1>2, <2>1 DEF KeyOK, Contiguous
    <2>2. CASE i > Len(f)
      <3>1. i - Len(f) \in 1..Len(s)
        BY <1>1, <1>2, <2>2
      <3> QED
        <4>1. g[i] = s[i - Len(f)]
          BY <1>1, <1>2, <2>2
        <4>2. s[i - Len(f)] = s[1] + (i - Len(f)) - 1
          BY <1>3, <3>1 DEF NoGap
        <4> QED
          BY <1>1, <1>3, <4>1, <4>2
    <2> QED
      BY <1>1, <2>1, <2>2
  <1>5. Len(g) + 1 = Beyond(c[1])
    BY <1>1, <1>2, <1>3 DEF Beyond
  <1> QED
    BY <1>1, <1>2, <1>4, <1>5 DEF KeyOK, Types, Contiguous, BufferIsLast

\* The first task has ended.
LEMMA EndKeeps ==
    ASSUME NEW c, NEW f, NEW n, NEW b, KeyOK(c, b, TRUE, f, n)
    PROVE  KeyOK(Tail(c), b, FALSE, f, n)
  <1> DEFINE d == Tail(c)
  <1>1. c \in Seq(Task) /\ c # << >> /\ f \in Seq(1..MaxItems) /\ n \in Nat
    BY DebounceAssumption DEF KeyOK, Types, BufferIsLast
  <1>2. /\ d \in Seq(Task) /\ Len(d) = Len(c) - 1
        /\ \A i \in 1..Len(d) : d[i] = c[i + 1]
    BY <1>1
  <1> HIDE DEF d
  <1>3. \A i \in 1..(Len(d) - 1) : First(d[i + 1]) = Beyond(d[i])
    <2> SUFFICES ASSUME NEW i \in 1..(Len(d) - 1) PROVE First(d[i + 1]) = Beyond(d[i])
      OBVIOUS
    <2>1. i + 1 \in 1..(Len(c) - 1) /\ d[i] = c[i + 1] /\ d[i + 1] = c[(i + 1) + 1]
      BY <1>1, <1>2
    <2> QED
      BY <2>1 DEF KeyOK, Contiguous
  <1>4. \A i \in 1..Len(d) : NoGap(d[i])
    BY <1>1, <1>2 DEF KeyOK, Contiguous
  <1>5. Len(f) + 1 = Beyond(c[1]) /\ n + 1 = Beyond(c[Len(c)])
    BY <1>1 DEF KeyOK, Contiguous
  <1>6. CASE d = << >>
    <2>1. Len(d) = 0 /\ Len(c) \in Nat
      BY <1>1, <1>6
    <2>2. Len(c) = 1
      BY <1>2, <2>1
    <2>3. Len(f) = n
      BY <1>1, <1>5, <2>2
    <2>4. ~b
      BY <1>1, <2>2 DEF KeyOK, BufferIsLast
    <2> QED
      BY <1>1, <1>2, <1>3, <1>4, <1>6, <2>3, <2>4 DEF KeyOK, Types, Contiguous, BufferIsLast
  <1>7. CASE d # << >>
    <2>1. 1 \in 1..(Len(c) - 1) /\ d[1] = c[1 + 1] /\ d[Len(d)] = c[Len(c)]
      BY <1>1, <1>2, <1>7
    <2>2. Len(f) + 1 = First(d[1]) /\ n + 1 = Beyond(d[Len(d)])
      BY <1>5, <2>1 DEF KeyOK, Contiguous
    <2> QED
      BY <1>1, <1>2, <1>3, <1>4, <1>7, <2>1, <2>2
         DEF KeyOK, Types, Contiguous, BufferIsLast
  <1> QED
    BY <1>6, <1>7 DEF d

\* A message that is handed on outside the chain.
LEMMA AtOnceKeeps ==
    ASSUME NEW c, NEW r, NEW f, NEW n, KeyOK(c, FALSE, r, f, n), c = << >>, n < MaxItems
    PROVE  KeyOK(c, FALSE, r, Append(f, n + 1), n + 1)
  <1> DEFINE g == Append(f, n + 1)
  <1>1. f \in Seq(1..MaxItems) /\ n \in 0..MaxItems /\ MaxItems \in Nat
    BY DebounceAssumption DEF KeyOK, Types
  <1>2. Len(f) = n /\ \A i \in 1..Len(f) : f[i] = i
    BY DEF KeyOK, Contiguous
  <1>3. g \in Seq(1..MaxItems) /\ Len(g) = n + 1 /\ \A i \in 1..Len(g) : g[i] = i
    BY <1>1, <1>2
  <1> HIDE DEF g
  <1>4. Types(c, FALSE, r, g, n + 1)
    BY <1>1, <1>3 DEF KeyOK, Types
  <1>5. Contiguous(c, r, g, n + 1)
    BY <1>3 DEF KeyOK, Contiguous
  <1> QED
    BY <1>4, <1>5 DEF KeyOK, BufferIsLast, g

\* An open buffer is flushed.
LEMMA ReleaseKeeps ==
    ASSUME NEW c, NEW r, NEW f, NEW n, KeyOK(c, TRUE, r, f, n)
    PROVE  KeyOK(Released(c), FALSE, r, f, n)
  <1> DEFINE m == Len(c)
  <1>1. m \in 1..Len(c)
    BY DEF KeyOK, Types, BufferIsLast
  <1>2. KeyOK([c EXCEPT ![m].ready = TRUE], TRUE /\ m # Len(c), r, f, n)
    <2> HIDE DEF m
    <2>1. m = Len(c)
      BY DEF m
    <2> QED
      BY <1>1, <2>1, ReadyKeeps
  <1> QED
    BY <1>2 DEF Released

\* The slot behind a flushed buffer is released.
LEMMA NextKeeps ==
    ASSUME NEW c, NEW b, NEW f, NEW n, KeyOK(c, b, FALSE, f, n), c # << >>, Head(c).kind = "behind"
    PROVE  KeyOK([c EXCEPT ![1].ready = TRUE], b, FALSE, f, n)
  <1>1. c \in Seq(Task) /\ b \in BOOLEAN
    BY DEF KeyOK, Types
  <1>2. 1 \in 1..Len(c) /\ c[1].kind = "behind"
    BY <1>1
  <1>3. KeyOK([c EXCEPT ![1].ready = TRUE], b /\ 1 # Len(c), FALSE, f, n)
    BY <1>2, ReadyKeeps
  <1>4. (b /\ 1 # Len(c)) = b
    BY <1>1, <1>2 DEF KeyOK, BufferIsLast
  <1> QED
    BY <1>3, <1>4

-----------------------------------------------------------------------------
(* The invariant.                                                           *)

\* The step that gives key k this state.
Changes(k, c, b, r, f, n) ==
    /\ arrived' = [arrived EXCEPT ![k] = n]
    /\ chain' = [chain EXCEPT ![k] = c]
    /\ buffered' = [buffered EXCEPT ![k] = b]
    /\ running' = [running EXCEPT ![k] = r]
    /\ flushed' = [flushed EXCEPT ![k] = f]

\* A step changes the state of one key.
LEMMA OneKey ==
    ASSUME IInv, NEW k \in Keys, NEW c, NEW b, NEW r, NEW f, NEW n,
           KeyOK(c, b, r, f, n), Changes(k, c, b, r, f, n)
    PROVE  IInv'
  <1>1. /\ c \in Seq(Task) /\ b \in BOOLEAN /\ r \in BOOLEAN
        /\ f \in Seq(1..MaxItems) /\ n \in 0..MaxItems
    BY DEF KeyOK, Types
  <1>2. /\ arrived' \in [Keys -> 0..MaxItems]
        /\ chain' \in [Keys -> Seq(Task)]
        /\ buffered' \in [Keys -> BOOLEAN]
        /\ running' \in [Keys -> BOOLEAN]
        /\ flushed' \in [Keys -> Seq(1..MaxItems)]
    BY <1>1 DEF IInv, Changes
  <1>3. ASSUME NEW j \in Keys
        PROVE  KeyOK(chain'[j], buffered'[j], running'[j], flushed'[j], arrived'[j])
    <2>1. CASE j = k
      BY <2>1 DEF IInv, Changes
    <2>2. CASE j # k
      <3>1. /\ arrived'[j] = arrived[j] /\ chain'[j] = chain[j] /\ buffered'[j] = buffered[j]
            /\ running'[j] = running[j] /\ flushed'[j] = flushed[j]
        BY <2>2 DEF IInv, Changes
      <3> QED
        BY <3>1 DEF IInv
    <2> QED
      BY <2>1, <2>2
  <1> QED
    BY <1>2, <1>3 DEF IInv

\* What a step leaves alone, in the form of Changes.
LEMMA Same ==
    ASSUME IInv, NEW k \in Keys
    PROVE  /\ arrived = [arrived EXCEPT ![k] = arrived[k]]
           /\ chain = [chain EXCEPT ![k] = chain[k]]
           /\ buffered = [buffered EXCEPT ![k] = buffered[k]]
           /\ running = [running EXCEPT ![k] = running[k]]
           /\ flushed = [flushed EXCEPT ![k] = flushed[k]]
  BY DEF IInv

\* The tasks a message may become.
LEMMA NewTasks ==
    ASSUME NEW i \in 1..MaxItems
    PROVE  /\ Plain(i) \in Task /\ Plain(i).items = <<i>>
           /\ Behind(i) \in Task /\ Behind(i).items = <<i>>
           /\ Buffer(i) \in Task /\ Buffer(i).items = <<i>>
           /\ ~Buffer(i).ready /\ Buffer(i).kind = "buffer"
  <1>1. <<i>> \in Seq(1..MaxItems)
    OBVIOUS
  <1> QED
    BY <1>1 DEF Plain, Behind, Buffer, Task

\* The initial state has the invariant.
LEMMA InitInv == Init => IInv
  <1> SUFFICES ASSUME Init PROVE IInv
    OBVIOUS
  <1>1. << >> \in Seq(Task) /\ << >> \in Seq(1..MaxItems) /\ 0 \in 0..MaxItems
    BY DebounceAssumption
  <1>2. KeyOK(<< >>, FALSE, FALSE, << >>, 0)
    BY <1>1 DEF KeyOK, Types, Contiguous, BufferIsLast
  <1> QED
    BY <1>1, <1>2 DEF Init, IInv

\* Every step keeps the invariant.
LEMMA StepInv == IInv /\ [Next]_vars => IInv'
  <1> SUFFICES ASSUME IInv, [Next]_vars PROVE IInv'
    OBVIOUS
  <1>1. CASE UNCHANGED vars
    BY <1>1 DEF vars, IInv
  <1>2. ASSUME NEW k \in Keys,
               \/ FlushesBuffer(k) \/ JoinsChain(k) \/ RunsAtOnce(k) \/ JoinsBuffer(k)
               \/ OpensBuffer(k) \/ Saturated(k) \/ TimerFires(k) \/ FlushBegins(k)
               \/ FlushEnds(k)
        PROVE  IInv'
    <2> DEFINE c == chain[k]
               b == buffered[k]
               r == running[k]
               f == flushed[k]
               n == arrived[k]
    <2>1. KeyOK(c, b, r, f, n) /\ b \in BOOLEAN /\ r \in BOOLEAN /\ c \in Seq(Task)
      BY DEF IInv
    <2>2. n < MaxItems => Item(k) = n + 1 /\ Item(k) \in 1..MaxItems
      BY DebounceAssumption DEF IInv, Item
    <2>3. CASE FlushesBuffer(k)
      <3>1. b = TRUE /\ n < MaxItems
        BY <2>1, <2>3 DEF FlushesBuffer, Arrives
      <3>2. KeyOK(Released(c), FALSE, r, f, n)
        BY <2>1, <3>1, ReleaseKeeps
      <3>3. KeyOK(Append(Released(c), Behind(Item(k))), FALSE, r, f, n + 1)
        BY <2>2, <3>1, <3>2, NewTasks, PushKeeps
      <3> QED
        <4>1. Changes(k, Append(Released(c), Behind(Item(k))), FALSE, r, f, n + 1)
          BY <2>3, Same DEF FlushesBuffer, Arrives, Changes
        <4> HIDE DEF c, b, r, f, n
        <4> QED
          BY <3>3, <4>1, OneKey
    <2>4. CASE JoinsChain(k)
      <3>1. b = FALSE /\ n < MaxItems
        BY <2>1, <2>4 DEF JoinsChain, Arrives
      <3>2. KeyOK(Append(c, Plain(Item(k))), b, r, f, n + 1)
        BY <2>1, <2>2, <3>1, NewTasks, PushKeeps
      <3> QED
        <4>1. Changes(k, Append(c, Plain(Item(k))), b, r, f, n + 1)
          BY <2>4, Same DEF JoinsChain, Arrives, Changes
        <4> HIDE DEF c, b, r, f, n
        <4> QED
          BY <3>2, <4>1, OneKey
    <2>5. CASE RunsAtOnce(k)
      <3>1. b = FALSE /\ n < MaxItems /\ c = << >>
        BY <2>1, <2>5 DEF RunsAtOnce, Arrives, Tracked
      <3>2. KeyOK(c, b, r, Append(f, Item(k)), n + 1)
        BY <2>1, <2>2, <3>1, AtOnceKeeps
      <3> QED
        <4>1. Changes(k, c, b, r, Append(f, Item(k)), n + 1)
          BY <2>5, Same DEF RunsAtOnce, Arrives, Changes
        <4> HIDE DEF c, b, r, f, n
        <4> QED
          BY <3>2, <4>1, OneKey
    <2>6. CASE JoinsBuffer(k)
      <3>1. b = TRUE /\ n < MaxItems
        BY <2>1, <2>6 DEF JoinsBuffer, Arrives
      <3> DEFINE d == [c EXCEPT ![Len(c)].items = Append(@, n + 1)]
      <3>2. KeyOK(c, TRUE, r, f, n)
        BY <2>1, <3>1
      <3>3. KeyOK(d, TRUE, r, f, n + 1)
        <4> HIDE DEF c, b, r, f, n
        <4> QED
          BY <3>1, <3>2, JoinKeeps
      <3>4. Changes(k, d, b, r, f, n + 1)
        BY <2>2, <2>6, <3>1, Same DEF JoinsBuffer, Arrives, Changes
      <3> HIDE DEF c, b, r, f, n, d
      <3> QED
        BY <3>1, <3>3, <3>4, OneKey
    <2>7. CASE OpensBuffer(k)
      <3>1. b = FALSE /\ n < MaxItems
        BY <2>1, <2>7 DEF OpensBuffer, Arrives
      <3>2. KeyOK(Append(c, Buffer(Item(k))), TRUE, r, f, n + 1)
        BY <2>1, <2>2, <3>1, NewTasks, PushKeeps
      <3> QED
        <4>1. Changes(k, Append(c, Buffer(Item(k))), TRUE, r, f, n + 1)
          BY <2>7, Same DEF OpensBuffer, Arrives, Changes
        <4> HIDE DEF c, b, r, f, n
        <4> QED
          BY <3>2, <4>1, OneKey
    <2>8. CASE Saturated(k)
      <3>1. b = FALSE /\ n < MaxItems
        BY <2>1, <2>8 DEF Saturated, Arrives
      <3>2. KeyOK(Append(c, Plain(Item(k))), b, r, f, n + 1)
        BY <2>1, <2>2, <3>1, NewTasks, PushKeeps
      <3> QED
        <4>1. Changes(k, Append(c, Plain(Item(k))), b, r, f, n + 1)
          BY <2>8, Same DEF Saturated, Arrives, Changes
        <4> HIDE DEF c, b, r, f, n
        <4> QED
          BY <3>2, <4>1, OneKey
    <2>9. CASE TimerFires(k)
      <3>1. KeyOK(Released(c), FALSE, r, f, n)
        BY <2>1, <2>9, ReleaseKeeps DEF TimerFires
      <3> QED
        <4>1. Changes(k, Released(c), FALSE, r, f, n)
          BY <2>9, Same DEF TimerFires, Changes
        <4> HIDE DEF c, b, r, f, n
        <4> QED
          BY <3>1, <4>1, OneKey
    <2>10. CASE FlushBegins(k)
      <3>1. KeyOK(c, b, TRUE, f \o Head(c).items, n)
        BY <2>1, <2>10, BeginKeeps DEF FlushBegins, Tracked
      <3> QED
        <4>1. Changes(k, c, b, TRUE, f \o Head(c).items, n)
          BY <2>10, Same DEF FlushBegins, Changes
        <4> HIDE DEF c, b, r, f, n
        <4> QED
          BY <3>1, <4>1, OneKey
    <2>11. CASE FlushEnds(k)
      <3> DEFINE rest == Tail(c)
      <3>1. KeyOK(rest, b, FALSE, f, n)
        BY <2>1, <2>11, EndKeeps DEF FlushEnds
      <3>2. CASE rest # << >> /\ Head(rest).kind = "behind"
        <4>1. KeyOK([rest EXCEPT ![1].ready = TRUE], b, FALSE, f, n)
          BY <3>1, <3>2, NextKeeps
        <4>2. Changes(k, [rest EXCEPT ![1].ready = TRUE], b, FALSE, f, n)
          BY <2>11, <3>2, Same DEF FlushEnds, Changes
        <4> HIDE DEF c, b, r, f, n, rest
        <4> QED
          BY <4>1, <4>2, OneKey
      <3>3. CASE ~(rest # << >> /\ Head(rest).kind = "behind")
        <4>1. Changes(k, rest, b, FALSE, f, n)
          BY <2>11, <3>3, Same DEF FlushEnds, Changes
        <4> HIDE DEF c, b, r, f, n, rest
        <4> QED
          BY <3>1, <4>1, OneKey
      <3> QED
        BY <3>2, <3>3
    <2> QED
      BY <1>2, <2>3, <2>4, <2>5, <2>6, <2>7, <2>8, <2>9, <2>10, <2>11
  <1> QED
    BY <1>1, <1>2 DEF Next

\* Every behaviour has the invariant.
THEOREM Invariant == Spec => []IInv
  BY InitInv, StepInv, PTL DEF Spec

\* Every variable keeps its range.
THEOREM TypeCorrect == Spec => []TypeOK
  <1>1. IInv => TypeOK
    BY DEF IInv, TypeOK
  <1> QED
    BY <1>1, Invariant, PTL

\* Whatever way each message takes, through a buffer, a slot behind it, the chain or
\* past it, onFlush gets the messages of a key in the order they came, each once and
\* none left out.
THEOREM InOrder == Spec => []FlushedInOrder
  <1>1. IInv => FlushedInOrder
    BY DEF IInv, KeyOK, Contiguous, FlushedInOrder
  <1> QED
    BY <1>1, Invariant, PTL

=============================================================================
