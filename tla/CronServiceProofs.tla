-------------------------- MODULE CronServiceProofs --------------------------
(***************************************************************************)
(* Proofs about the cron service, for any jobs, manual runs, edits and     *)
(* crashes, and any number of jobs that run at once.                       *)
(*                                                                         *)
(* The marker of a job keeps the tick, the catch-up and the manual runs    *)
(* off a job one of them has, as long as every section leaves it where it  *)
(* is; a section that reloads the file finds there what the one before     *)
(* left, except for markers and repairs of missing next runs.              *)
(***************************************************************************)
EXTENDS CronService, FiniteSetTheorems, TLAPS

\* A job that maintenance would give a next run.
Missing(q, j) ==
    /\ There(q, j) /\ q[j].enabled /\ q[j].next = Undefined
    /\ j \in Recurring \/ q[j].last # "ok"

Maintained(q) == \A j \in Jobs : ~Missing(q, j)

\* The store r is the store q, up to markers, repairs, and what disabled jobs hold.
SameSchedule(q, r) ==
    \A j \in Jobs :
        /\ q[j].there = r[j].there
        /\ q[j].enabled = r[j].enabled
        /\ q[j].last = r[j].last
        /\ q[j].enabled => q[j].next = r[j].next \/ Missing(q, j)

\* The jobs a runner or a manual run has.
Held == {j \in Jobs \ released : UnderWay(j)}

\* The jobs hs bear their markers, unless they were removed.
MarkersAreSet(q, hs) ==
    \A j \in hs :
        /\ q[j].there # "new"
        /\ There(q, j) => q[j].running /\ q[j].enabled

Executes(c, j) == JobOf[c] = j /\ call[c] = "executing"

\* One at a time has the job.
OneHolder ==
    \A j \in Jobs \ released :
        /\ work["catchup"][j] = "none" \/ work["tick"][j] = "none"
        /\ \A c \in Calls : Executes(c, j) =>
              /\ \A w \in Runners : work[w][j] = "none"
              /\ \A d \in Calls : Executes(d, j) => c = d

\* A process that has not loaded the file has no timer, no tick and no runs.
NothingBeforeStart ==
    stage = "created" =>
        /\ ~timer /\ tick = "idle"
        /\ \A w \in Runners, j \in Jobs : work[w][j] = "none"
        /\ \A c \in Calls : call[c] \in {"uncalled", "over"}

IInv ==
    /\ TypeOK
    /\ SameSchedule(disk, store)
    /\ OneHolder
    /\ MarkersAreSet(disk, Held) /\ MarkersAreSet(store, Held)
    /\ NothingBeforeStart

-----------------------------------------------------------------------------
(* What the sections do to a store.                                         *)

Stores == [Jobs -> Job]
Clock == 1..MaxTime

\* The next run is in its range, and missing only for a job that has had its last run.
LEMMA NextIs ==
    ASSUME NEW j \in Jobs, NEW job \in Job, now \in Clock
    PROVE  /\ ComputeNext(j, job) \in 0..(MaxTime + 1)
           /\ job.enabled => (ComputeNext(j, job) = Undefined
                                <=> j \notin Recurring /\ job.last = "ok")
  BY CronAssumption DEF ComputeNext, Undefined, OneShotAt, Clock

\* normalizeJobTickState leaves an enabled job alone.
LEMMA NormalizedIs ==
    ASSUME NEW job \in Job
    PROVE  /\ Normalized(job) \in Job
           /\ Normalized(job).there = job.there
           /\ Normalized(job).enabled = job.enabled
           /\ Normalized(job).last = job.last
           /\ job.enabled => Normalized(job) = job
  <1>1. CASE job.enabled
    BY <1>1 DEF Normalized
  <1>2. CASE ~job.enabled
    <2>1. Normalized(job) = [job EXCEPT !.next = Undefined, !.running = FALSE]
      BY <1>2 DEF Normalized
    <2>2. Undefined \in 0..(MaxTime + 1)
      BY CronAssumption DEF Undefined
    <2> QED
      BY <1>2, <2>1, <2>2 DEF Job
  <1> QED
    BY <1>1, <1>2

\* A patched job keeps its marker unless it is switched off, and is not left without a
\* next run.
LEMMA PatchedIs ==
    ASSUME NEW j \in Jobs, NEW job \in Job, now \in Clock, NEW new \in Patched(j, job)
    PROVE  /\ new \in Job
           /\ new.there = job.there
           /\ new.enabled => new.running = job.running
           /\ new.enabled /\ new.next = Undefined => j \notin Recurring /\ new.last = "ok"
  <1> DEFINE Sound(r, old) ==
        /\ r \in Job
        /\ r.there = old.there
        /\ r.enabled => r.running = old.running
        /\ r.enabled /\ r.next = Undefined => j \notin Recurring /\ r.last = "ok"
  <1>1. ASSUME NEW old \in Job PROVE Sound(Rescheduled(j, old), old)
    <2>1. CASE old.enabled
      <3>1. Rescheduled(j, old) = [old EXCEPT !.next = ComputeNext(j, old)]
        BY <2>1 DEF Rescheduled
      <3>2. ComputeNext(j, old) \in 0..(MaxTime + 1)
            /\ (ComputeNext(j, old) = Undefined => j \notin Recurring /\ old.last = "ok")
        BY <2>1, NextIs
      <3> QED
        BY <3>1, <3>2 DEF Job
    <2>2. CASE ~old.enabled
      BY <2>2, NormalizedIs DEF Rescheduled
    <2> QED
      BY <2>1, <2>2
  <1>2. ASSUME NEW old \in Job PROVE Sound(Repaired(j, old), old)
    <2>1. CASE old.enabled /\ old.next = Undefined
      <3>1. Repaired(j, old) = Rescheduled(j, old)
        BY <2>1 DEF Repaired, Rescheduled
      <3> QED
        BY <1>1, <3>1
    <2>2. CASE ~(old.enabled /\ old.next = Undefined)
      BY <2>2 DEF Repaired
    <2> QED
      BY <2>1, <2>2
  <1>3. ASSUME NEW e \in BOOLEAN
        PROVE  [job EXCEPT !.enabled = e] \in Job
               /\ [job EXCEPT !.enabled = e].there = job.there
               /\ [job EXCEPT !.enabled = e].running = job.running
    BY DEF Job
  <1>4. ASSUME NEW n \in {job.next} \cup PatchedTimes
        PROVE  [job EXCEPT !.next = n] \in Job
               /\ [job EXCEPT !.next = n].there = job.there
               /\ [job EXCEPT !.next = n].running = job.running
    <2>1. n \in 0..(MaxTime + 1)
      BY CronAssumption DEF Job
    <2> QED
      BY <2>1 DEF Job
  <1>5. ASSUME NEW e \in BOOLEAN, new = Rescheduled(j, [job EXCEPT !.enabled = e])
        PROVE  Sound(new, job)
    <2>1. Sound(new, [job EXCEPT !.enabled = e])
      BY <1>1, <1>3, <1>5
    <2> QED
      BY <1>3, <2>1
  <1>6. ASSUME NEW n \in {job.next} \cup PatchedTimes, new = Repaired(j, [job EXCEPT !.next = n])
        PROVE  Sound(new, job)
    <2>1. Sound(new, [job EXCEPT !.next = n])
      BY <1>2, <1>4, <1>6
    <2> QED
      BY <1>4, <2>1
  <1>7. Sound(new, job)
    BY <1>5, <1>6 DEF Patched
  <1> QED
    BY <1>7

\* update puts one of them into the store.
LEMMA UpdateIs ==
    ASSUME NEW j \in Jobs, Update(j), store \in Stores
    PROVE  \E job \in Patched(j, store[j]) :
             /\ There(store, j)
             /\ store' = [store EXCEPT ![j] = job] /\ disk' = [store EXCEPT ![j] = job]
             /\ released' = IF UnderWay(j) /\ ~job.enabled THEN released \cup {j} ELSE released
             /\ edits' = edits + 1
             /\ [store EXCEPT ![j] = job][j] = job
             /\ \A k \in Jobs : k # j => [store EXCEPT ![j] = job][k] = store[k]
  BY DEF Update, Edit, Keep, Persist, Stores

\* recomputeNextRunsForMaintenance touches what disabled jobs hold, and missing next runs.
LEMMA MaintenanceIs ==
    ASSUME NEW q \in Stores, now \in Clock
    PROVE  /\ RecomputeForMaintenance(q) \in Stores
           /\ \A j \in Jobs :
                /\ RecomputeForMaintenance(q)[j].there = q[j].there
                /\ RecomputeForMaintenance(q)[j].enabled = q[j].enabled
                /\ RecomputeForMaintenance(q)[j].last = q[j].last
                /\ q[j].enabled => RecomputeForMaintenance(q)[j].running = q[j].running
                /\ q[j].enabled => \/ RecomputeForMaintenance(q)[j].next = q[j].next
                                   \/ Missing(q, j)
                /\ ~Missing(RecomputeForMaintenance(q), j)
  <1> DEFINE r == RecomputeForMaintenance(q)
  <1>1. ASSUME NEW j \in Jobs
        PROVE  /\ r[j] \in Job
               /\ r[j].there = q[j].there
               /\ r[j].enabled = q[j].enabled
               /\ r[j].last = q[j].last
               /\ q[j].enabled => r[j].running = q[j].running
               /\ q[j].enabled => r[j].next = q[j].next \/ Missing(q, j)
               /\ ~Missing(r, j)
    <2> DEFINE job == Normalized(q[j])
    <2>1. q[j] \in Job
      BY DEF Stores
    <2>2. /\ job \in Job
          /\ job.there = q[j].there /\ job.enabled = q[j].enabled /\ job.last = q[j].last
          /\ q[j].enabled => job = q[j]
      BY <2>1, NormalizedIs
    <2>3. r[j] = IF There(q, j) /\ job.enabled /\ job.next = Undefined
                 THEN [job EXCEPT !.next = ComputeNext(j, job)]
                 ELSE IF There(q, j) THEN job ELSE q[j]
      BY DEF RecomputeForMaintenance
    <2>4. /\ ComputeNext(j, job) \in 0..(MaxTime + 1)
          /\ job.enabled => (ComputeNext(j, job) = Undefined
                               <=> j \notin Recurring /\ job.last = "ok")
      BY <2>2, NextIs
    <2> HIDE DEF job, r
    <2>5. CASE There(q, j) /\ job.enabled /\ job.next = Undefined
      <3>1. r[j] = [job EXCEPT !.next = ComputeNext(j, job)]
        BY <2>3, <2>5
      <3>2. /\ r[j] \in Job /\ r[j].next = ComputeNext(j, job)
            /\ r[j].there = job.there /\ r[j].enabled = job.enabled
            /\ r[j].last = job.last /\ r[j].running = job.running
        BY <3>1, <2>2, <2>4 DEF Job
      <3> QED
        BY <3>2, <2>2, <2>4, <2>5 DEF Missing, There
    <2>6. CASE ~(There(q, j) /\ job.enabled /\ job.next = Undefined)
      BY <2>1, <2>2, <2>3, <2>6 DEF Missing, There
    <2> QED
      BY <2>5, <2>6
  <1>2. r = [j \in Jobs |-> r[j]]
    BY DEF RecomputeForMaintenance
  <1>3. r \in Stores
    BY <1>1, <1>2 DEF Stores
  <1> QED
    BY <1>1, <1>3

\* recomputeNextRuns also moves what is past.
LEMMA RecomputeIs ==
    ASSUME NEW q \in Stores, now \in Clock
    PROVE  /\ RecomputeNextRuns(q) \in Stores
           /\ \A j \in Jobs :
                /\ RecomputeNextRuns(q)[j].there = q[j].there
                /\ RecomputeNextRuns(q)[j].enabled = q[j].enabled
                /\ RecomputeNextRuns(q)[j].last = q[j].last
                /\ q[j].enabled => RecomputeNextRuns(q)[j].running = q[j].running
                /\ ~Missing(RecomputeNextRuns(q), j)
  <1> DEFINE r == RecomputeNextRuns(q)
  <1>1. ASSUME NEW j \in Jobs
        PROVE  /\ r[j] \in Job
               /\ r[j].there = q[j].there
               /\ r[j].enabled = q[j].enabled
               /\ r[j].last = q[j].last
               /\ q[j].enabled => r[j].running = q[j].running
               /\ ~Missing(r, j)
    <2> DEFINE job == Normalized(q[j])
               past == There(q, j) /\ job.enabled /\ (job.next = Undefined \/ job.next <= now)
    <2>1. q[j] \in Job
      BY DEF Stores
    <2>2. /\ job \in Job
          /\ job.there = q[j].there /\ job.enabled = q[j].enabled /\ job.last = q[j].last
          /\ q[j].enabled => job = q[j]
      BY <2>1, NormalizedIs
    <2>3. r[j] = IF past THEN [job EXCEPT !.next = ComputeNext(j, job)]
                 ELSE IF There(q, j) THEN job ELSE q[j]
      BY DEF RecomputeNextRuns
    <2>4. /\ ComputeNext(j, job) \in 0..(MaxTime + 1)
          /\ job.enabled => (ComputeNext(j, job) = Undefined
                               <=> j \notin Recurring /\ job.last = "ok")
      BY <2>2, NextIs
    <2>5. past => There(q, j) /\ job.enabled
      OBVIOUS
    <2>6. ~past => ~There(q, j) \/ ~job.enabled \/ job.next # Undefined
      OBVIOUS
    <2> HIDE DEF job, r, past
    <2>7. CASE past
      <3>1. r[j] = [job EXCEPT !.next = ComputeNext(j, job)]
        BY <2>3, <2>7
      <3>2. /\ r[j] \in Job /\ r[j].next = ComputeNext(j, job)
            /\ r[j].there = job.there /\ r[j].enabled = job.enabled
            /\ r[j].last = job.last /\ r[j].running = job.running
        BY <3>1, <2>2, <2>4 DEF Job
      <3> QED
        BY <3>2, <2>2, <2>4, <2>5, <2>7 DEF Missing, There
    <2>8. CASE ~past
      BY <2>1, <2>2, <2>3, <2>6, <2>8 DEF Missing, There
    <2> QED
      BY <2>7, <2>8
  <1>2. r = [j \in Jobs |-> r[j]]
    BY DEF RecomputeNextRuns
  <1>3. r \in Stores
    BY <1>1, <1>2 DEF Stores
  <1> QED
    BY <1>1, <1>3

\* Marking jobs sets their markers and nothing else.
LEMMA MarkedIs ==
    ASSUME NEW q \in Stores, NEW js
    PROVE  /\ Marked(q, js) \in Stores
           /\ \A j \in Jobs :
                /\ Marked(q, js)[j].there = q[j].there
                /\ Marked(q, js)[j].enabled = q[j].enabled
                /\ Marked(q, js)[j].last = q[j].last
                /\ Marked(q, js)[j].next = q[j].next
                /\ q[j].running => Marked(q, js)[j].running
                /\ j \in js /\ There(q, j) => Marked(q, js)[j].running
  <1>1. ASSUME NEW j \in Jobs
        PROVE  /\ Marked(q, js)[j] \in Job
               /\ Marked(q, js)[j].there = q[j].there
               /\ Marked(q, js)[j].enabled = q[j].enabled
               /\ Marked(q, js)[j].last = q[j].last
               /\ Marked(q, js)[j].next = q[j].next
               /\ q[j].running => Marked(q, js)[j].running
               /\ j \in js /\ There(q, j) => Marked(q, js)[j].running
    <2>1. q[j] \in Job
      BY DEF Stores
    <2>2. Marked(q, js)[j] = IF j \in js /\ There(q, j) THEN [q[j] EXCEPT !.running = TRUE]
                             ELSE q[j]
      BY DEF Marked
    <2> QED
      BY <2>1, <2>2 DEF Job
  <1>2. Marked(q, js) \in Stores
    BY <1>1 DEF Marked, Stores
  <1> QED
    BY <1>1, <1>2

\* The outcome of a run: the job is removed, or keeps its place without its marker;
\* if it stays enabled it has a next run.
LEMMA OutcomeIs ==
    ASSUME NEW j \in Jobs, NEW job \in Job, job.there = "yes", now \in Clock,
           NEW o \in Outcomes(j, job)
    PROVE  /\ o \in Job
           /\ o.there \in {"yes", "removed"}
           /\ o.there = "yes" /\ o.enabled => job.enabled /\ o.next # Undefined
  <1> USE CronAssumption
  <1>1. now + 1 \in 0..(MaxTime + 1) /\ now + 1 # Undefined /\ Undefined \in 0..(MaxTime + 1)
    BY DEF Clock, Undefined
  <1>2. CASE j \in Recurring
    BY <1>1, <1>2 DEF Outcomes, Job
  <1>3. CASE j \notin Recurring
    <2>1. CASE o = Gone
      BY <1>1, <2>1 DEF Gone, Job
    <2>2. CASE o = [job EXCEPT !.running = FALSE, !.last = "failed", !.next = now + 1]
      BY <1>1, <2>2 DEF Job
    <2>3. CASE \E l \in {"ok", "failed"} :
                 o = [job EXCEPT !.running = FALSE, !.last = l, !.enabled = FALSE,
                                 !.next = Undefined]
      BY <1>1, <2>3 DEF Job
    <2> QED
      BY <1>3, <2>1, <2>2, <2>3 DEF Outcomes
  <1> QED
    BY <1>2, <1>3

\* Applying outcomes changes the jobs they are of, as far as these are there.
LEMMA AppliedIs ==
    ASSUME NEW q \in Stores, NEW js, now \in Clock, NEW r \in Applied(q, js)
    PROVE  /\ r \in Stores
           /\ \A j \in Jobs : ~(j \in js /\ There(q, j)) => r[j] = q[j]
           /\ \A j \in Jobs : j \in js /\ There(q, j) =>
                /\ r[j].there \in {"yes", "removed"}
                /\ r[j].there = "yes" /\ r[j].enabled => q[j].enabled /\ r[j].next # Undefined
  <1> DEFINE May(j) == IF j \in js /\ There(q, j) THEN Outcomes(j, q[j]) ELSE {q[j]}
  <1>1. r \in [Jobs -> UNION {May(j) : j \in Jobs}] /\ \A j \in Jobs : r[j] \in May(j)
    BY DEF Applied
  <1>2. ASSUME NEW j \in Jobs, j \in js, There(q, j)
        PROVE  /\ r[j] \in Job
               /\ r[j].there \in {"yes", "removed"}
               /\ r[j].there = "yes" /\ r[j].enabled => q[j].enabled /\ r[j].next # Undefined
    <2>1. r[j] \in Outcomes(j, q[j])
      BY <1>1, <1>2
    <2>2. q[j] \in Job /\ q[j].there = "yes"
      BY <1>2 DEF Stores, There
    <2> QED
      BY <2>1, <2>2, OutcomeIs
  <1>3. ASSUME NEW j \in Jobs, ~(j \in js /\ There(q, j))
        PROVE  r[j] = q[j]
    BY <1>1, <1>3
  <1>4. ASSUME NEW j \in Jobs PROVE r[j] \in Job
    BY <1>2, <1>3 DEF Stores
  <1>5. r = [j \in Jobs |-> r[j]]
    BY <1>1
  <1>6. r \in Stores
    BY <1>4, <1>5 DEF Stores
  <1> QED
    BY <1>2, <1>3, <1>6

-----------------------------------------------------------------------------
(* Markers and schedules under these changes.                               *)

\* Fewer jobs bear their markers as well.
LEMMA FewerMarkers ==
    ASSUME NEW q, NEW hs, NEW gs, MarkersAreSet(q, hs), gs \subseteq hs
    PROVE  MarkersAreSet(q, gs)
  BY DEF MarkersAreSet

\* Maintenance and recomputing keep the markers of enabled jobs.
LEMMA UpkeepKeepsMarkers ==
    ASSUME NEW q \in Stores, NEW hs \in SUBSET Jobs, MarkersAreSet(q, hs), now \in Clock
    PROVE  MarkersAreSet(RecomputeForMaintenance(q), hs) /\ MarkersAreSet(RecomputeNextRuns(q), hs)
  <1>1. ASSUME NEW j \in hs
        PROVE  LET r == RecomputeForMaintenance(q) IN
               r[j].there # "new" /\ (There(r, j) => r[j].running /\ r[j].enabled)
    BY MaintenanceIs DEF MarkersAreSet, There
  <1>2. ASSUME NEW j \in hs
        PROVE  LET r == RecomputeNextRuns(q) IN
               r[j].there # "new" /\ (There(r, j) => r[j].running /\ r[j].enabled)
    BY RecomputeIs DEF MarkersAreSet, There
  <1> QED
    BY <1>1, <1>2 DEF MarkersAreSet

\* Marked jobs bear their markers beside those that bore them before.
LEMMA MarkingAddsMarkers ==
    ASSUME NEW q \in Stores, NEW hs \in SUBSET Jobs, MarkersAreSet(q, hs),
           NEW js \in SUBSET Jobs, \A j \in js : There(q, j) /\ q[j].enabled,
           NEW gs \in SUBSET (hs \cup js)
    PROVE  MarkersAreSet(Marked(q, js), gs)
  BY MarkedIs DEF MarkersAreSet, There

\* Outcomes leave the markers of the other jobs.
LEMMA OutcomesKeepMarkers ==
    ASSUME NEW q \in Stores, NEW hs \in SUBSET Jobs, MarkersAreSet(q, hs), now \in Clock,
           NEW js, NEW r \in Applied(q, js)
    PROVE  MarkersAreSet(r, hs \ js)
  BY AppliedIs DEF MarkersAreSet, There

\* A store has its own schedule; maintenance and markers do not make it another.
LEMMA ScheduleIsKept ==
    ASSUME NEW q, NEW r \in Stores, SameSchedule(q, r), now \in Clock, NEW js
    PROVE  /\ SameSchedule(q, RecomputeForMaintenance(r))
           /\ SameSchedule(q, Marked(r, js))
  <1>1. ASSUME NEW j \in Jobs
        PROVE  LET s == RecomputeForMaintenance(r) IN
               /\ q[j].there = s[j].there /\ q[j].enabled = s[j].enabled
               /\ q[j].last = s[j].last
               /\ q[j].enabled => q[j].next = s[j].next \/ Missing(q, j)
    BY MaintenanceIs DEF SameSchedule, Missing, There
  <1>2. ASSUME NEW j \in Jobs
        PROVE  LET s == Marked(r, js) IN
               /\ q[j].there = s[j].there /\ q[j].enabled = s[j].enabled
               /\ q[j].last = s[j].last
               /\ q[j].enabled => q[j].next = s[j].next \/ Missing(q, j)
    BY MarkedIs DEF SameSchedule
  <1> QED
    BY <1>1, <1>2 DEF SameSchedule

LEMMA ScheduleIsItself ==
    ASSUME NEW q PROVE SameSchedule(q, q)
  BY DEF SameSchedule

-----------------------------------------------------------------------------
(* Types and stores.                                                        *)

\* After every step both stores are stores, with one schedule.
LEMMA StoresStep ==
    ASSUME TypeOK, SameSchedule(disk, store), [Next]_vars
    PROVE  disk' \in Stores /\ store' \in Stores /\ SameSchedule(disk', store')
  <1> DEFINE Goal == disk' \in Stores /\ store' \in Stores /\ SameSchedule(disk', store')
  <1>0. /\ now \in Clock /\ disk \in Stores /\ store \in Stores
        /\ Undefined \in 0..(MaxTime + 1) /\ now + 1 \in 0..(MaxTime + 1)
    BY CronAssumption DEF TypeOK, Clock, Stores, Undefined
  <1>same. ASSUME NEW q \in Stores, store' = q, disk' = q PROVE Goal
    BY <1>same, ScheduleIsItself
  <1>kept. ASSUME UNCHANGED <<disk, store>> PROVE Goal
    BY <1>kept, <1>0
  <1>1. CASE ClearInterruptedMarkers
    <2> DEFINE js == {j \in Jobs : There(disk, j) /\ disk[j].running}
               q  == [j \in Jobs |-> [disk[j] EXCEPT !.running = @ /\ j \notin js]]
    <2>1. q \in Stores
      <3> SUFFICES ASSUME NEW j \in Jobs
                   PROVE  [disk[j] EXCEPT !.running = disk[j].running /\ j \notin js] \in Job
        BY DEF Stores
      <3>1. disk[j] \in Job
        BY <1>0 DEF Stores
      <3>2. (disk[j].running /\ j \notin js) \in BOOLEAN
        OBVIOUS
      <3> HIDE DEF js
      <3> QED
        BY <3>1, <3>2 DEF Job
    <2>2. store' = q /\ disk' = q
      BY <1>1 DEF ClearInterruptedMarkers, Keep, Persist
    <2> HIDE DEF q
    <2> QED
      BY <2>1, <2>2, <1>same
  <1>2. CASE PlanStartupCatchup
    <2>1. PICK js \in SUBSET Jobs :
            /\ store' = Marked(store, js)
            /\ disk' = disk \/ disk' = Marked(store, js)
      <3>1. Missed(store) \ interrupted \subseteq Jobs
        BY DEF Missed, Runnable
      <3> QED
        BY <1>2, <3>1 DEF PlanStartupCatchup, Keep, Persist
    <2>2. CASE disk' = disk
      BY <1>0, <2>1, <2>2, MarkedIs, ScheduleIsKept
    <2>3. CASE disk' = Marked(store, js)
      BY <1>0, <2>1, <2>3, MarkedIs, <1>same
    <2> QED
      BY <2>1, <2>2, <2>3
  <1>3. CASE ApplyStartupCatchupOutcomes
    <2>1. PICK r \in Applied(store, Finished("catchup")) :
            LET p == [j \in Jobs |-> IF j \in deferred /\ There(r, j) /\ r[j].enabled
                                     THEN [r[j] EXCEPT !.next = now + 1] ELSE r[j]]
                q == RecomputeForMaintenance(p)
            IN  store' = q /\ disk' = q
      BY <1>3 DEF ApplyStartupCatchupOutcomes, Keep, Persist
    <2> DEFINE p == [j \in Jobs |-> IF j \in deferred /\ There(r, j) /\ r[j].enabled
                                    THEN [r[j] EXCEPT !.next = now + 1] ELSE r[j]]
    <2>2. r \in Stores
      BY <1>0, AppliedIs
    <2>3. p \in Stores
      <3>1. ASSUME NEW j \in Jobs PROVE r[j] \in Job /\ [r[j] EXCEPT !.next = now + 1] \in Job
        BY <2>2, <1>0 DEF Stores, Job
      <3> QED
        BY <3>1 DEF Stores
    <2>4. store' = RecomputeForMaintenance(p) /\ disk' = RecomputeForMaintenance(p)
      BY <2>1
    <2> HIDE DEF p
    <2> QED
      BY <1>0, <2>3, <2>4, MaintenanceIs, <1>same
  <1>4. CASE FinishStart
    <2>1. /\ store' = RecomputeNextRuns(store)
          /\ \/ disk' = RecomputeNextRuns(store)
             \/ disk' = disk /\ RecomputeNextRuns(store) = store
      BY <1>4 DEF FinishStart, Keep, PersistIfChanged
    <2> QED
      BY <1>0, <2>1, RecomputeIs, <1>same, <1>kept
  <1>5. CASE OnTimer
    BY <1>5, <1>kept DEF OnTimer
  <1>6. CASE CollectDueJobs
    <2>1. \E q \in {RecomputeForMaintenance(disk), Marked(disk, Runnable(disk))} :
            store' = q /\ disk' = q
      BY <1>6 DEF CollectDueJobs, Keep, Persist
    <2> QED
      BY <1>0, <2>1, MaintenanceIs, MarkedIs, <1>same
  <1>7. CASE ApplyOutcomes
    <2>1. PICK r \in Applied(disk, Finished("tick")) :
            store' = RecomputeForMaintenance(r) /\ disk' = RecomputeForMaintenance(r)
      BY <1>7 DEF ApplyOutcomes, Keep, Persist
    <2> QED
      BY <1>0, <2>1, AppliedIs, MaintenanceIs, <1>same
  <1>8. CASE EndTick
    BY <1>8, <1>kept DEF EndTick
  <1>9. ASSUME NEW w \in Runners, NEW j \in Jobs, RunDueJob(w, j) PROVE Goal
    <2>1. disk' = disk /\ (store' = store \/ store' = Marked(store, {j}))
      BY <1>9 DEF RunDueJob, Keep
    <2> QED
      BY <1>0, <2>1, MarkedIs, ScheduleIsKept
  <1>10. ASSUME NEW w \in Runners, NEW j \in Jobs, JobEnds(w, j) PROVE Goal
    BY <1>10, <1>kept DEF JobEnds
  <1>11. ASSUME NEW j \in Jobs, Update(j) PROVE Goal
    <2>1. PICK new \in Patched(j, store[j]) :
            store' = [store EXCEPT ![j] = new] /\ disk' = [store EXCEPT ![j] = new]
      BY <1>0, <1>11, UpdateIs
    <2>2. new \in Job
      BY <1>0, <2>1, PatchedIs DEF Stores
    <2>3. [store EXCEPT ![j] = new] \in Stores
      BY <1>0, <2>2 DEF Stores
    <2> QED
      BY <2>1, <2>3, <1>same
  <1>12. ASSUME NEW j \in Jobs, Add(j) PROVE Goal
    <2> DEFINE job == [store[j] EXCEPT !.there = "yes"]
               new == [job EXCEPT !.next = ComputeNext(j, job)]
    <2>1. job \in Job
      BY <1>0 DEF Stores, Job
    <2>2. /\ store' = RecomputeNextRuns([store EXCEPT ![j] = new])
          /\ disk' = RecomputeNextRuns([store EXCEPT ![j] = new])
      BY <1>12 DEF Add, Edit, Keep, Persist
    <2> HIDE DEF job
    <2>3. new \in Job
      BY <1>0, <2>1, NextIs DEF Job
    <2> HIDE DEF new
    <2>4. [store EXCEPT ![j] = new] \in Stores
      BY <1>0, <2>3 DEF Stores
    <2> QED
      BY <1>0, <2>2, <2>4, RecomputeIs, <1>same
  <1>13. ASSUME NEW j \in Jobs, Remove(j) PROVE Goal
    <2>1. Gone \in Job
      BY <1>0 DEF Gone, Job
    <2>2. [store EXCEPT ![j] = Gone] \in Stores
      BY <1>0, <2>1 DEF Stores
    <2>3. store' = [store EXCEPT ![j] = Gone] /\ disk' = [store EXCEPT ![j] = Gone]
      BY <1>13 DEF Remove, Edit, Keep, Persist
    <2> QED
      BY <2>2, <2>3, <1>same
  <1>14. CASE Read
    <2>1. /\ store' = RecomputeForMaintenance(store)
          /\ \/ disk' = RecomputeForMaintenance(store)
             \/ disk' = disk /\ RecomputeForMaintenance(store) = store
      BY <1>14 DEF Read, Keep, PersistIfChanged
    <2> QED
      BY <1>0, <2>1, MaintenanceIs, <1>same, <1>kept
  <1>15. ASSUME NEW c \in Calls, NEW forced \in BOOLEAN, ManualPreflight(c, forced) PROVE Goal
    <2>1. store' = RecomputeForMaintenance(store) /\ disk' = disk
      BY <1>15 DEF ManualPreflight, Keep
    <2> QED
      BY <1>0, <2>1, MaintenanceIs, ScheduleIsKept
  <1>16. ASSUME NEW c \in Calls, PrepareManualRun(c) PROVE Goal
    <2>1. \/ store' = Marked(store, {JobOf[c]}) /\ disk' = Marked(store, {JobOf[c]})
          \/ UNCHANGED <<disk, store>>
      BY <1>16 DEF PrepareManualRun, Reserve, Keep, Persist
    <2> QED
      BY <1>0, <2>1, MarkedIs, <1>same, <1>kept
  <1>17. ASSUME NEW c \in Calls, FinishManualRun(c) PROVE Goal
    <2> DEFINE j == JobOf[c]
    <2>0. j \in Jobs
      BY CronAssumption
    <2>1. CASE There(store, j)
      <3>1. PICK r \in Applied(store, {j}) :
              LET q == RecomputeForMaintenance(
                         IF There(disk, j) THEN [disk EXCEPT ![j] = r[j]] ELSE disk)
              IN  store' = q /\ disk' = q
        BY <1>17, <2>1 DEF FinishManualRun, Keep, Persist
      <3> DEFINE p == IF There(disk, j) THEN [disk EXCEPT ![j] = r[j]] ELSE disk
      <3>2. r \in Stores
        BY <1>0, AppliedIs
      <3> HIDE DEF j
      <3>3. p \in Stores
        BY <1>0, <2>0, <3>2 DEF Stores
      <3>4. store' = RecomputeForMaintenance(p) /\ disk' = RecomputeForMaintenance(p)
        BY <3>1 DEF j
      <3> HIDE DEF p
      <3> QED
        BY <1>0, <3>3, <3>4, MaintenanceIs, <1>same
    <2>2. CASE ~There(store, j)
      BY <1>17, <2>2, <1>kept DEF FinishManualRun
    <2> QED
      BY <2>1, <2>2
  <1>18. CASE TimePasses
    BY <1>18, <1>kept DEF TimePasses
  <1>19. CASE Crash
    BY <1>0, <1>19, <1>same DEF Crash
  <1>20. CASE UNCHANGED vars
    BY <1>20, <1>kept DEF vars
  <1> QED
    BY <1>1, <1>2, <1>3, <1>4, <1>5, <1>6, <1>7, <1>8, <1>9, <1>10, <1>11, <1>12, <1>13,
       <1>14, <1>15, <1>16, <1>17, <1>18, <1>19, <1>20 DEF Next

\* Every variable stays in its range.
LEMMA TypeStep ==
    ASSUME TypeOK, SameSchedule(disk, store), [Next]_vars
    PROVE  TypeOK'
  <1> DEFINE Rest ==
        /\ now \in 1..MaxTime
        /\ stage \in {"created", "loaded", "catchingUp", "caughtUp", "started"}
        /\ timer \in BOOLEAN
        /\ tick \in {"idle", "collecting", "running", "ending"}
        /\ work \in [Runners -> [Jobs -> {"none", "waiting", "executing", "done"}]]
        /\ detached \in BOOLEAN
        /\ interrupted \in SUBSET Jobs
        /\ deferred \in SUBSET Jobs
        /\ call \in [Calls -> {"uncalled", "checked", "executing", "over"}]
        /\ edits \in 0..MaxEdits
        /\ crashes \in 0..MaxCrashes
        /\ released \in SUBSET Jobs
  <1>0. Rest
    BY DEF TypeOK
  <1> USE CronAssumption
  <1>1. ASSUME ClearInterruptedMarkers PROVE Rest'
    BY <1>0, <1>1 DEF ClearInterruptedMarkers, Edit, ArmTimer, HasNextWake, Runners
  <1>2. ASSUME PlanStartupCatchup PROVE Rest'
    BY <1>0, <1>2 DEF PlanStartupCatchup, Missed, Runnable, Waiting, Runners
  <1>3. ASSUME ApplyStartupCatchupOutcomes PROVE Rest'
    BY <1>0, <1>3 DEF ApplyStartupCatchupOutcomes, NoWork, Runners
  <1>4. ASSUME FinishStart PROVE Rest'
    BY <1>0, <1>4 DEF FinishStart, Edit, ArmTimer, HasNextWake, Runners
  <1>5. ASSUME OnTimer PROVE Rest'
    BY <1>0, <1>5 DEF OnTimer, Edit, ArmTimer, HasNextWake, Runners
  <1>6. ASSUME CollectDueJobs PROVE Rest'
    BY <1>0, <1>6 DEF CollectDueJobs, Runnable, Waiting, Runners
  <1>7. ASSUME ApplyOutcomes PROVE Rest'
    BY <1>0, <1>7 DEF ApplyOutcomes, NoWork, Runners
  <1>8. ASSUME EndTick PROVE Rest'
    BY <1>0, <1>8 DEF EndTick, Edit, ArmTimer, HasNextWake, Runners
  <1>9. ASSUME NEW w \in Runners, NEW j \in Jobs, RunDueJob(w, j) PROVE Rest'
    BY <1>0, <1>9 DEF RunDueJob, Edit, ArmTimer, HasNextWake, Runners
  <1>10. ASSUME NEW w \in Runners, NEW j \in Jobs, JobEnds(w, j) PROVE Rest'
    BY <1>0, <1>10 DEF JobEnds, Edit, ArmTimer, HasNextWake, Runners
  <1>11. ASSUME NEW j \in Jobs, Update(j) PROVE Rest'
    BY <1>0, <1>11 DEF Update, Edit, ArmTimer, HasNextWake, Runners
  <1>12. ASSUME NEW j \in Jobs, Add(j) PROVE Rest'
    BY <1>0, <1>12 DEF Add, Edit, ArmTimer, HasNextWake, Runners
  <1>13. ASSUME NEW j \in Jobs, Remove(j) PROVE Rest'
    BY <1>0, <1>13 DEF Remove, Edit, ArmTimer, HasNextWake, Runners
  <1>14. ASSUME Read PROVE Rest'
    BY <1>0, <1>14 DEF Read, Edit, ArmTimer, HasNextWake, Runners
  <1>15. ASSUME NEW c \in Calls, NEW forced \in BOOLEAN, ManualPreflight(c, forced) PROVE Rest'
    BY <1>0, <1>15 DEF ManualPreflight, Edit, ArmTimer, HasNextWake, Runners
  <1>16. ASSUME NEW c \in Calls, PrepareManualRun(c) PROVE Rest'
    BY <1>0, <1>16 DEF PrepareManualRun, Reserve
  <1>17. ASSUME NEW c \in Calls, FinishManualRun(c) PROVE Rest'
    BY <1>0, <1>17 DEF FinishManualRun, Edit, ArmTimer, HasNextWake, Runners
  <1>18. ASSUME TimePasses PROVE Rest'
    BY <1>0, <1>18 DEF TimePasses, Edit, ArmTimer, HasNextWake, Runners
  <1>19. ASSUME Crash PROVE Rest'
    <2>1. work' \in [Runners -> [Jobs -> {"none", "waiting", "executing", "done"}]]
      BY <1>19 DEF Crash, NoWork
    <2>2. call' \in [Calls -> {"uncalled", "checked", "executing", "over"}]
      BY <1>19 DEF Crash
    <2>3. crashes' \in 0..MaxCrashes
      BY <1>0, <1>19 DEF Crash
    <2> QED
      BY <1>0, <2>1, <2>2, <2>3, <1>19 DEF Crash
  <1>20. ASSUME UNCHANGED vars PROVE Rest'
    BY <1>0, <1>20 DEF vars
  <1>21. Rest'
    BY <1>1, <1>2, <1>3, <1>4, <1>5, <1>6, <1>7, <1>8, <1>9, <1>10, <1>11, <1>12, <1>13,
       <1>14, <1>15, <1>16, <1>17, <1>18, <1>19, <1>20 DEF Next
  <1> QED
    BY <1>21, StoresStep DEF TypeOK, Stores

\* Until the file is loaded nothing begins, and a crash ends everything.
LEMMA BeforeStartStep ==
    ASSUME TypeOK, NothingBeforeStart, [Next]_vars
    PROVE  NothingBeforeStart'
  <1> USE DEF TypeOK, NothingBeforeStart
  <1>1. ASSUME ClearInterruptedMarkers PROVE NothingBeforeStart'
    BY <1>1 DEF ClearInterruptedMarkers
  <1>2. ASSUME PlanStartupCatchup PROVE NothingBeforeStart'
    BY <1>2 DEF PlanStartupCatchup
  <1>3. ASSUME ApplyStartupCatchupOutcomes PROVE NothingBeforeStart'
    BY <1>3 DEF ApplyStartupCatchupOutcomes
  <1>4. ASSUME FinishStart PROVE NothingBeforeStart'
    BY <1>4 DEF FinishStart
  <1>5. ASSUME OnTimer PROVE NothingBeforeStart'
    BY <1>5 DEF OnTimer
  <1>6. ASSUME CollectDueJobs PROVE NothingBeforeStart'
    BY <1>6 DEF CollectDueJobs
  <1>7. ASSUME ApplyOutcomes PROVE NothingBeforeStart'
    BY <1>7 DEF ApplyOutcomes
  <1>8. ASSUME EndTick PROVE NothingBeforeStart'
    BY <1>8 DEF EndTick
  <1>9. ASSUME NEW w \in Runners, NEW j \in Jobs, RunDueJob(w, j) PROVE NothingBeforeStart'
    BY <1>9 DEF RunDueJob
  <1>10. ASSUME NEW w \in Runners, NEW j \in Jobs, JobEnds(w, j) PROVE NothingBeforeStart'
    BY <1>10 DEF JobEnds
  <1>11. ASSUME NEW j \in Jobs, Update(j) PROVE NothingBeforeStart'
    BY <1>11 DEF Update, Edit, Loaded
  <1>12. ASSUME NEW j \in Jobs, Add(j) PROVE NothingBeforeStart'
    BY <1>12 DEF Add, Edit, Loaded
  <1>13. ASSUME NEW j \in Jobs, Remove(j) PROVE NothingBeforeStart'
    BY <1>13 DEF Remove, Edit, Loaded
  <1>14. ASSUME Read PROVE NothingBeforeStart'
    BY <1>14 DEF Read, Loaded
  <1>15. ASSUME NEW c \in Calls, NEW forced \in BOOLEAN, ManualPreflight(c, forced) PROVE NothingBeforeStart'
    BY <1>15 DEF ManualPreflight, Loaded
  <1>16. ASSUME NEW c \in Calls, PrepareManualRun(c) PROVE NothingBeforeStart'
    BY <1>16 DEF PrepareManualRun, Reserve
  <1>17. ASSUME NEW c \in Calls, FinishManualRun(c) PROVE NothingBeforeStart'
    BY <1>17 DEF FinishManualRun
  <1>18. ASSUME TimePasses PROVE NothingBeforeStart'
    BY <1>18 DEF TimePasses
  <1>19. ASSUME Crash PROVE NothingBeforeStart'
    BY <1>19 DEF Crash, NoWork, Runners
  <1>20. CASE UNCHANGED vars
    BY <1>20 DEF vars
  <1> QED
    BY <1>1, <1>2, <1>3, <1>4, <1>5, <1>6, <1>7, <1>8, <1>9, <1>10, <1>11, <1>12, <1>13,
       <1>14, <1>15, <1>16, <1>17, <1>18, <1>19, <1>20 DEF Next

-----------------------------------------------------------------------------
(* Holders and markers.                                                     *)

\* No runner and no manual run begins: whoever has a job had it before.
LEMMA NobodyTakes ==
    ASSUME OneHolder, released \subseteq released',
           \A w \in Runners, j \in Jobs : work[w][j] = "none" => work'[w][j] = "none",
           \A c \in Calls : call'[c] = "executing" => call[c] = "executing"
    PROVE  OneHolder' /\ Held' \subseteq Held
  <1>1. \A j \in Jobs, c \in Calls : Executes(c, j)' => Executes(c, j)
    BY DEF Executes
  <1>2. OneHolder'
    <2> SUFFICES ASSUME NEW j \in Jobs \ released'
                 PROVE  /\ work'["catchup"][j] = "none" \/ work'["tick"][j] = "none"
                        /\ \A c \in Calls : Executes(c, j)' =>
                              /\ \A w \in Runners : work'[w][j] = "none"
                              /\ \A d \in Calls : Executes(d, j)' => c = d
      BY DEF OneHolder
    <2> QED
      BY <1>1 DEF OneHolder, Runners
  <1>3. Held' \subseteq Held
    BY DEF Held, UnderWay
  <1> QED
    BY <1>2, <1>3

\* A job that is there and bears no marker is nobody's.
LEMMA UnmarkedIsFree ==
    ASSUME NEW q, MarkersAreSet(q, Held), NEW j \in Jobs \ released, There(q, j), ~q[j].running
    PROVE  ~UnderWay(j)
  BY DEF MarkersAreSet, Held

\* A runner w that had no jobs takes the jobs js, which are nobody's.
LEMMA RunnerTakes ==
    ASSUME TypeOK, OneHolder, released' = released, call' = call,
           NEW w \in Runners, NEW js \in SUBSET Jobs, work' = [work EXCEPT ![w] = Waiting(js)],
           \A j \in js \ released : ~UnderWay(j)
    PROVE  OneHolder' /\ Held' \in SUBSET (Held \cup js)
  <1>1. \A v \in Runners, j \in Jobs :
          work'[v][j] = IF v = w THEN (IF j \in js THEN "waiting" ELSE "none") ELSE work[v][j]
    BY DEF TypeOK, Waiting
  <1>2. \A j \in Jobs, c \in Calls : Executes(c, j)' <=> Executes(c, j)
    BY DEF Executes
  <1>3. \A j \in js \ released : /\ \A v \in Runners : work[v][j] = "none"
                                 /\ \A c \in Calls : ~Executes(c, j)
    BY DEF UnderWay, Executes
  <1>4. OneHolder'
    <2> SUFFICES ASSUME NEW j \in Jobs \ released
                 PROVE  /\ work'["catchup"][j] = "none" \/ work'["tick"][j] = "none"
                        /\ \A c \in Calls : Executes(c, j)' =>
                              /\ \A v \in Runners : work'[v][j] = "none"
                              /\ \A d \in Calls : Executes(d, j)' => c = d
      BY DEF OneHolder
    <2>1. CASE j \in js
      BY <1>1, <1>2, <1>3, <2>1 DEF Runners
    <2>2. CASE j \notin js
      BY <1>1, <1>2, <2>2 DEF OneHolder, Runners
    <2> QED
      BY <2>1, <2>2
  <1>5. Held' \subseteq Held \cup js
    <2> SUFFICES ASSUME NEW j \in Jobs \ released, UnderWay(j)', j \notin js PROVE UnderWay(j)
      BY DEF Held
    <2> QED
      BY <1>1 DEF UnderWay
  <1> QED
    BY <1>4, <1>5

\* A runner is done with the jobs js, and nobody else has one of them.
LEMMA RunnerGivesBack ==
    ASSUME TypeOK, OneHolder, released' = released, call' = call,
           NEW w \in Runners, work' = [work EXCEPT ![w] = NoWork]
    PROVE  OneHolder' /\ Held' \in SUBSET (Held \ Finished(w))
  <1>1. \A v \in Runners, j \in Jobs :
          work'[v][j] = IF v = w THEN "none" ELSE work[v][j]
    BY DEF TypeOK, NoWork
  <1>2. OneHolder' /\ Held' \subseteq Held
    BY <1>1, NobodyTakes
  <1>3. ASSUME NEW j \in Jobs \ released, work[w][j] = "done" PROVE ~UnderWay(j)'
    <2>1. \A v \in Runners : work'[v][j] = "none"
      BY <1>1, <1>3 DEF OneHolder, Runners
    <2>2. \A c \in Calls : ~Executes(c, j)
      BY <1>3 DEF OneHolder
    <2> QED
      BY <2>1, <2>2 DEF UnderWay, Executes
  <1> QED
    BY <1>2, <1>3 DEF Held, Finished

\* At most one has a job, and the markers of the jobs somebody has stay where they are.
LEMMA HoldersStep ==
    ASSUME IInv, [Next]_vars
    PROVE  OneHolder' /\ MarkersAreSet(disk', Held') /\ MarkersAreSet(store', Held')
  <1> DEFINE Goal == OneHolder' /\ MarkersAreSet(disk', Held') /\ MarkersAreSet(store', Held')
  <1>0. /\ TypeOK /\ OneHolder /\ NothingBeforeStart /\ SameSchedule(disk, store)
        /\ now \in Clock /\ disk \in Stores /\ store \in Stores /\ Held \in SUBSET Jobs
        /\ MarkersAreSet(disk, Held) /\ MarkersAreSet(store, Held)
    BY DEF IInv, TypeOK, Clock, Stores, Held
  <1>a. \A q, gs : MarkersAreSet(q, Held) /\ gs \subseteq Held => MarkersAreSet(q, gs)
    BY FewerMarkers
  <1>b. \A q \in Stores : MarkersAreSet(q, Held) => MarkersAreSet(RecomputeForMaintenance(q), Held)
                                                    /\ MarkersAreSet(RecomputeNextRuns(q), Held)
    BY <1>0, UpkeepKeepsMarkers
  <1>same. ASSUME UNCHANGED <<work, call, released>> PROVE OneHolder' /\ Held' \subseteq Held
    BY <1>0, <1>same, NobodyTakes
  <1>kept. ASSUME UNCHANGED <<disk, store>>, OneHolder', Held' \subseteq Held PROVE Goal
    BY <1>kept, <1>0, <1>a
  <1>1. ASSUME ClearInterruptedMarkers PROVE Goal
    <2>1. Held = {}
      BY <1>0, <1>1 DEF NothingBeforeStart, ClearInterruptedMarkers, Held, UnderWay
    <2>2. OneHolder' /\ Held' = {}
      BY <1>1, <2>1, <1>same DEF ClearInterruptedMarkers
    <2> QED
      BY <2>2 DEF MarkersAreSet
  <1>2. ASSUME PlanStartupCatchup PROVE Goal
    <2>1. PICK js \in SUBSET (Missed(store) \ interrupted) :
            /\ store' = Marked(store, js)
            /\ \/ disk' = Marked(store, js)
               \/ disk' = disk /\ js = {}
            /\ work' = [work EXCEPT !["catchup"] = Waiting(js)]
      BY <1>2 DEF PlanStartupCatchup, Keep, Persist
    <2>2. \A j \in js : j \in Jobs /\ There(store, j) /\ store[j].enabled /\ ~store[j].running
      BY <2>1 DEF Missed, Runnable, Due
    <2>3. OneHolder' /\ Held' \in SUBSET (Held \cup js)
      <3>1. \A j \in js \ released : ~UnderWay(j)
        BY <1>0, <2>2, UnmarkedIsFree
      <3> QED
        BY <1>0, <1>2, <2>1, <2>2, <3>1, RunnerTakes DEF PlanStartupCatchup, Runners
    <2>4. MarkersAreSet(Marked(store, js), Held')
      BY <1>0, <2>2, <2>3, MarkingAddsMarkers
    <2>5. js = {} => MarkersAreSet(disk, Held')
      BY <1>0, <1>a, <2>3
    <2> QED
      BY <2>1, <2>3, <2>4, <2>5
  <1>3. ASSUME ApplyStartupCatchupOutcomes PROVE Goal
    <2>1. PICK r \in Applied(store, Finished("catchup")) :
            LET p == [j \in Jobs |-> IF j \in deferred /\ There(r, j) /\ r[j].enabled
                                     THEN [r[j] EXCEPT !.next = now + 1] ELSE r[j]]
                q == RecomputeForMaintenance(p)
            IN  store' = q /\ disk' = q
      BY <1>3 DEF ApplyStartupCatchupOutcomes, Keep, Persist
    <2> DEFINE p == [j \in Jobs |-> IF j \in deferred /\ There(r, j) /\ r[j].enabled
                                    THEN [r[j] EXCEPT !.next = now + 1] ELSE r[j]]
    <2>2. r \in Stores /\ MarkersAreSet(r, Held \ Finished("catchup"))
      BY <1>0, AppliedIs, OutcomesKeepMarkers
    <2>3. \A j \in Jobs : /\ p[j] \in Job
                          /\ p[j].there = r[j].there /\ p[j].enabled = r[j].enabled
                          /\ p[j].running = r[j].running
      <3> SUFFICES ASSUME NEW j \in Jobs
                   PROVE  /\ p[j] \in Job
                          /\ p[j].there = r[j].there /\ p[j].enabled = r[j].enabled
                          /\ p[j].running = r[j].running
        OBVIOUS
      <3>1. r[j] \in Job /\ now + 1 \in 0..(MaxTime + 1)
        BY <1>0, <2>2, CronAssumption DEF Stores, Clock
      <3>2. p[j] = [r[j] EXCEPT !.next = now + 1] \/ p[j] = r[j]
        OBVIOUS
      <3> HIDE DEF p
      <3> QED
        BY <3>1, <3>2 DEF Job
    <2>4. p \in Stores
      BY <2>3 DEF Stores
    <2>5. store' = RecomputeForMaintenance(p) /\ disk' = RecomputeForMaintenance(p)
      BY <2>1
    <2> HIDE DEF p
    <2>6. OneHolder' /\ Held' \in SUBSET (Held \ Finished("catchup"))
      BY <1>0, <1>3, RunnerGivesBack DEF ApplyStartupCatchupOutcomes, Runners
    <2>7. MarkersAreSet(p, Held')
      BY <1>0, <2>2, <2>3, <2>6 DEF MarkersAreSet, There
    <2>8. Held' \in SUBSET Jobs
      BY <1>0, <2>6
    <2>9. MarkersAreSet(RecomputeForMaintenance(p), Held')
      BY <1>0, <2>4, <2>7, <2>8, UpkeepKeepsMarkers
    <2> QED
      BY <2>5, <2>6, <2>9
  <1>4. ASSUME FinishStart PROVE Goal
    <2>1. OneHolder' /\ Held' \subseteq Held
      BY <1>4, <1>same DEF FinishStart
    <2>2. /\ store' = RecomputeNextRuns(store)
          /\ disk' = RecomputeNextRuns(store) \/ disk' = disk
      BY <1>4 DEF FinishStart, Keep, PersistIfChanged
    <2> QED
      BY <1>0, <1>a, <1>b, <2>1, <2>2
  <1>5. ASSUME OnTimer PROVE Goal
    BY <1>5, <1>same, <1>kept DEF OnTimer
  <1>6. ASSUME CollectDueJobs PROVE Goal
    <2> DEFINE due == Runnable(disk)
               q   == IF due = {} THEN RecomputeForMaintenance(disk) ELSE Marked(disk, due)
    <2>1. store' = q /\ disk' = q /\ work' = [work EXCEPT !["tick"] = Waiting(due)]
      BY <1>6 DEF CollectDueJobs, Keep, Persist
    <2>2. \A j \in due : j \in Jobs /\ There(disk, j) /\ disk[j].enabled /\ ~disk[j].running
      BY DEF Runnable, Due
    <2> HIDE DEF due
    <2>3. OneHolder' /\ Held' \in SUBSET (Held \cup due)
      <3>1. \A j \in due \ released : ~UnderWay(j)
        BY <1>0, <2>2, UnmarkedIsFree
      <3> QED
        BY <1>0, <1>6, <2>1, <2>2, <3>1, RunnerTakes DEF CollectDueJobs, Runners
    <2>4. CASE due = {}
      BY <1>0, <1>a, <1>b, <2>1, <2>3, <2>4
    <2>5. CASE due # {}
      <3>1. MarkersAreSet(Marked(disk, due), Held')
        BY <1>0, <2>2, <2>3, MarkingAddsMarkers
      <3> QED
        BY <2>1, <2>3, <2>5, <3>1
    <2> QED
      BY <2>4, <2>5
  <1>7. ASSUME ApplyOutcomes PROVE Goal
    <2>1. PICK r \in Applied(disk, Finished("tick")) :
            store' = RecomputeForMaintenance(r) /\ disk' = RecomputeForMaintenance(r)
      BY <1>7 DEF ApplyOutcomes, Keep, Persist
    <2>2. r \in Stores /\ MarkersAreSet(r, Held \ Finished("tick"))
      BY <1>0, AppliedIs, OutcomesKeepMarkers
    <2>3. OneHolder' /\ Held' \in SUBSET (Held \ Finished("tick"))
      BY <1>0, <1>7, RunnerGivesBack DEF ApplyOutcomes, Runners
    <2>4. Held' \in SUBSET Jobs /\ MarkersAreSet(r, Held')
      BY <1>0, <2>2, <2>3, FewerMarkers
    <2>5. MarkersAreSet(RecomputeForMaintenance(r), Held')
      BY <1>0, <2>2, <2>4, UpkeepKeepsMarkers
    <2> QED
      BY <2>1, <2>3, <2>5
  <1>8. ASSUME EndTick PROVE Goal
    BY <1>8, <1>same, <1>kept DEF EndTick
  <1>9. ASSUME NEW w \in Runners, NEW j \in Jobs, RunDueJob(w, j) PROVE Goal
    <2>1. \A v \in Runners, k \in Jobs : work[v][k] = "none" => work'[v][k] = "none"
      BY <1>0, <1>9 DEF RunDueJob, TypeOK
    <2>2. OneHolder' /\ Held' \subseteq Held
      BY <1>0, <1>9, <2>1, NobodyTakes DEF RunDueJob
    <2>3. disk' = disk /\ (store' = store \/ store' = Marked(store, {j}))
      BY <1>9 DEF RunDueJob, Keep
    <2>4. MarkersAreSet(Marked(store, {j}), Held)
      BY <1>0, MarkedIs DEF MarkersAreSet, There
    <2> QED
      BY <1>0, <1>a, <2>2, <2>3, <2>4
  <1>10. ASSUME NEW w \in Runners, NEW j \in Jobs, JobEnds(w, j) PROVE Goal
    <2>1. \A v \in Runners, k \in Jobs : work[v][k] = "none" => work'[v][k] = "none"
      BY <1>0, <1>10 DEF JobEnds, TypeOK
    <2> QED
      BY <1>0, <1>10, <2>1, NobodyTakes, <1>kept DEF JobEnds
  <1>11. ASSUME NEW j \in Jobs, Update(j) PROVE Goal
    <2>1. PICK new \in Patched(j, store[j]) :
            /\ store' = [store EXCEPT ![j] = new] /\ disk' = [store EXCEPT ![j] = new]
            /\ released' = IF UnderWay(j) /\ ~new.enabled THEN released \cup {j} ELSE released
            /\ [store EXCEPT ![j] = new][j] = new
            /\ \A k \in Jobs : k # j => [store EXCEPT ![j] = new][k] = store[k]
      BY <1>0, <1>11, UpdateIs
    <2>2. new.there = store[j].there /\ (new.enabled => new.running = store[j].running)
      BY <1>0, <2>1, PatchedIs DEF Stores
    <2>3. work' = work /\ call' = call
      BY <1>11 DEF Update, Edit
    <2>4. OneHolder' /\ Held' \subseteq Held
      BY <1>0, <2>1, <2>3, NobodyTakes
    <2>5. ASSUME j \in Held' PROVE new.enabled
      <3>1. j \in Held /\ j \notin released'
        BY <2>4, <2>5 DEF Held
      <3> QED
        BY <2>1, <3>1 DEF Held
    <2>6. ASSUME NEW k \in Held', NEW q, q[j] = new, \A i \in Jobs : i # j => q[i] = store[i]
          PROVE  q[k].there # "new" /\ (There(q, k) => q[k].running /\ q[k].enabled)
      <3>1. k \in Jobs /\ store[k].there # "new"
            /\ (There(store, k) => store[k].running /\ store[k].enabled)
        BY <1>0, <2>4 DEF MarkersAreSet, Held
      <3>2. CASE k # j
        BY <2>6, <3>1, <3>2 DEF There
      <3>3. CASE k = j
        BY <2>2, <2>5, <2>6, <3>1, <3>3 DEF There
      <3> QED
        BY <3>2, <3>3
    <2>7. MarkersAreSet([store EXCEPT ![j] = new], Held')
      <3> DEFINE q == [store EXCEPT ![j] = new]
      <3>1. q[j] = new /\ \A i \in Jobs : i # j => q[i] = store[i]
        BY <2>1
      <3> HIDE DEF q
      <3>2. MarkersAreSet(q, Held')
        BY <2>6, <3>1 DEF MarkersAreSet
      <3> QED
        BY <3>2 DEF q
    <2> QED
      BY <2>1, <2>4, <2>7
  <1>12. ASSUME NEW j \in Jobs, Add(j) PROVE Goal
    <2> DEFINE job == [store[j] EXCEPT !.there = "yes"]
               new == [job EXCEPT !.next = ComputeNext(j, job)]
               q   == [store EXCEPT ![j] = new]
    <2>1. store' = RecomputeNextRuns(q) /\ disk' = RecomputeNextRuns(q)
      BY <1>12 DEF Add, Edit, Keep, Persist
    <2>2. OneHolder' /\ Held' \subseteq Held
      BY <1>12, <1>same DEF Add, Edit
    <2>3. job \in Job
      BY <1>0 DEF Stores, Job
    <2> HIDE DEF job
    <2>4. new \in Job
      BY <1>0, <2>3, NextIs DEF Job
    <2> HIDE DEF new
    <2>5. q \in Stores
      BY <1>0, <2>4 DEF Stores
    <2>6. j \notin Held
      BY <1>0, <1>12 DEF Add, MarkersAreSet
    <2>7. MarkersAreSet(q, Held)
      <3>1. \A k \in Held : q[k] = store[k]
        BY <1>0, <2>6 DEF Stores
      <3> QED
        BY <1>0, <3>1 DEF MarkersAreSet, There
    <2> HIDE DEF q
    <2> QED
      BY <1>a, <1>b, <2>1, <2>2, <2>5, <2>7
  <1>13. ASSUME NEW j \in Jobs, Remove(j) PROVE Goal
    <2>1. store' = [store EXCEPT ![j] = Gone] /\ disk' = [store EXCEPT ![j] = Gone]
      BY <1>13 DEF Remove, Edit, Keep, Persist
    <2>2. OneHolder' /\ Held' \subseteq Held
      BY <1>13, <1>same DEF Remove, Edit
    <2>3. \A k \in Held : [store EXCEPT ![j] = Gone][k] = IF k = j THEN Gone ELSE store[k]
      BY <1>0 DEF Stores
    <2>4. Gone.there = "removed"
      BY DEF Gone
    <2>5. MarkersAreSet([store EXCEPT ![j] = Gone], Held)
      BY <1>0, <2>3, <2>4 DEF MarkersAreSet, There
    <2> QED
      BY <1>a, <2>1, <2>2, <2>5
  <1>14. ASSUME Read PROVE Goal
    <2>1. OneHolder' /\ Held' \subseteq Held
      BY <1>14, <1>same DEF Read
    <2>2. /\ store' = RecomputeForMaintenance(store)
          /\ disk' = RecomputeForMaintenance(store) \/ disk' = disk
      BY <1>14 DEF Read, Keep, PersistIfChanged
    <2> QED
      BY <1>0, <1>a, <1>b, <2>1, <2>2
  <1>15. ASSUME NEW c \in Calls, NEW forced \in BOOLEAN, ManualPreflight(c, forced) PROVE Goal
    <2>1. \A d \in Calls : call'[d] = "executing" => call[d] = "executing"
      BY <1>0, <1>15 DEF ManualPreflight, TypeOK
    <2>2. OneHolder' /\ Held' \subseteq Held
      BY <1>0, <1>15, <2>1, NobodyTakes DEF ManualPreflight
    <2>3. store' = RecomputeForMaintenance(store) /\ disk' = disk
      BY <1>15 DEF ManualPreflight, Keep
    <2> QED
      BY <1>0, <1>a, <1>b, <2>2, <2>3
  <1>16. ASSUME NEW c \in Calls, PrepareManualRun(c) PROVE Goal
    <2> DEFINE j == JobOf[c]
               q == Marked(store, {j})
    <2>0. j \in Jobs /\ work' = work
      BY <1>16, CronAssumption DEF PrepareManualRun, Reserve
    <2>1. CASE There(store, j) /\ ~store[j].running
      <3>1. /\ call' = [call EXCEPT ![c] = "executing"]
            /\ store' = q /\ disk' = q
            /\ released' = IF ~q[j].enabled THEN released \cup {j} ELSE released
        BY <1>16, <2>1 DEF PrepareManualRun, Reserve, Keep, Persist
      <3>2. \A d \in Calls : call'[d] = IF d = c THEN "executing" ELSE call[d]
        BY <1>0, <3>1 DEF TypeOK
      <3>3. /\ q[j].enabled = store[j].enabled
            /\ q[j].there = "yes" /\ q[j].running
        <4>1. /\ q[j].there = store[j].there
              /\ q[j].enabled = store[j].enabled
              /\ j \in {j} /\ There(store, j) => q[j].running
          BY <1>0, <2>0, MarkedIs
        <4> QED
          BY <2>1, <4>1 DEF There
      <3>4. j \notin released => /\ \A w \in Runners : work[w][j] = "none"
                                 /\ \A d \in Calls : ~Executes(d, j)
        BY <1>0, <2>0, <2>1, UnmarkedIsFree DEF UnderWay, Executes
      <3> HIDE DEF q
      <3>5. \A k \in Jobs, d \in Calls : k # j => (Executes(d, k)' <=> Executes(d, k))
        BY <3>2 DEF Executes
      <3>6. \A d \in Calls : Executes(d, j)' => d = c \/ Executes(d, j)
        BY <3>2 DEF Executes
      <3>7. OneHolder'
        <4> SUFFICES ASSUME NEW k \in Jobs \ released'
                     PROVE  /\ work'["catchup"][k] = "none" \/ work'["tick"][k] = "none"
                            /\ \A d \in Calls : Executes(d, k)' =>
                                  /\ \A w \in Runners : work'[w][k] = "none"
                                  /\ \A e \in Calls : Executes(e, k)' => d = e
          BY DEF OneHolder
        <4>1. k \notin released
          BY <3>1
        <4>2. CASE k = j
          BY <2>0, <3>4, <3>6, <4>1, <4>2 DEF Runners
        <4>3. CASE k # j
          BY <1>0, <2>0, <3>5, <4>1, <4>3 DEF OneHolder
        <4> QED
          BY <4>2, <4>3
      <3>8. Held' \subseteq Held \cup {j}
        <4> SUFFICES ASSUME NEW k \in Jobs \ released', UnderWay(k)', k # j PROVE k \in Held
          BY DEF Held
        <4>1. UnderWay(k)
          BY <2>0, <3>2 DEF UnderWay
        <4> QED
          BY <3>1, <4>1 DEF Held
      <3>9. j \in Held' => store[j].enabled
        BY <3>1, <3>3 DEF Held
      <3>10. MarkersAreSet(q, Held')
        <4> SUFFICES ASSUME NEW k \in Held'
                     PROVE  q[k].there # "new" /\ (There(q, k) => q[k].running /\ q[k].enabled)
          BY DEF MarkersAreSet
        <4>1. k \in Jobs
          BY DEF Held
        <4>2. CASE k = j
          BY <3>3, <3>9, <4>2
        <4>3. CASE k # j
          BY <1>0, <3>8, <4>1, <4>3, MarkedIs DEF q, There, MarkersAreSet
        <4> QED
          BY <4>2, <4>3
      <3> QED
        BY <3>1, <3>7, <3>10
    <2>2. CASE ~(There(store, j) /\ ~store[j].running)
      <3>1. /\ call' = [call EXCEPT ![c] = "over"]
            /\ UNCHANGED <<store, disk, released>>
        BY <1>16, <2>2 DEF PrepareManualRun, Reserve
      <3>2. \A d \in Calls : call'[d] = "executing" => call[d] = "executing"
        BY <1>0, <3>1 DEF TypeOK
      <3> QED
        BY <1>0, <2>0, <3>1, <3>2, NobodyTakes, <1>kept
    <2> QED
      BY <2>1, <2>2
  <1>17. ASSUME NEW c \in Calls, FinishManualRun(c) PROVE Goal
    <2> DEFINE j == JobOf[c]
    <2>0. j \in Jobs /\ call' = [call EXCEPT ![c] = "over"] /\ call[c] = "executing"
          /\ UNCHANGED <<work, released>>
      BY <1>17, CronAssumption DEF FinishManualRun
    <2>1. \A d \in Calls : call'[d] = IF d = c THEN "over" ELSE call[d]
      BY <1>0, <2>0 DEF TypeOK
    <2>2. OneHolder' /\ Held' \subseteq Held
      BY <1>0, <2>0, <2>1, NobodyTakes
    <2>3. j \notin Held'
      <3> SUFFICES ASSUME j \notin released PROVE ~UnderWay(j)'
        BY <2>0 DEF Held
      <3>1. Executes(c, j)
        BY <2>0 DEF Executes
      <3>2. /\ \A w \in Runners : work[w][j] = "none"
            /\ \A d \in Calls : Executes(d, j) => c = d
        BY <1>0, <2>0, <3>1 DEF OneHolder
      <3> QED
        BY <2>0, <2>1, <3>2 DEF UnderWay, Executes
    <2>4. CASE There(store, j)
      <3>1. PICK r \in Applied(store, {j}) :
              LET q == RecomputeForMaintenance(
                         IF There(disk, j) THEN [disk EXCEPT ![j] = r[j]] ELSE disk)
              IN  store' = q /\ disk' = q
        BY <1>17, <2>4 DEF FinishManualRun, Keep, Persist
      <3> DEFINE p == IF There(disk, j) THEN [disk EXCEPT ![j] = r[j]] ELSE disk
      <3>2. r \in Stores
        BY <1>0, AppliedIs
      <3> HIDE DEF j
      <3>3. p \in Stores /\ \A k \in Jobs : k # j => p[k] = disk[k]
        BY <1>0, <2>0, <3>2 DEF Stores
      <3>4. store' = RecomputeForMaintenance(p) /\ disk' = RecomputeForMaintenance(p)
        BY <3>1 DEF j
      <3> HIDE DEF p
      <3>5. Held' \in SUBSET Jobs
        BY <1>0, <2>2
      <3>6. MarkersAreSet(p, Held')
        BY <1>0, <2>2, <2>3, <3>3, <3>5 DEF MarkersAreSet, There
      <3>7. MarkersAreSet(RecomputeForMaintenance(p), Held')
        BY <1>0, <3>3, <3>5, <3>6, UpkeepKeepsMarkers
      <3> QED
        BY <2>2, <3>4, <3>7
    <2>5. CASE ~There(store, j)
      BY <1>17, <2>2, <2>5, <1>kept DEF FinishManualRun
    <2> QED
      BY <2>4, <2>5
  <1>18. ASSUME TimePasses PROVE Goal
    BY <1>18, <1>same, <1>kept DEF TimePasses
  <1>19. ASSUME Crash PROVE Goal
    <2>1. /\ \A w \in Runners, j \in Jobs : work'[w][j] = "none"
          /\ \A d \in Calls : call'[d] # "executing"
          /\ released' = released
      BY <1>19 DEF Crash, NoWork
    <2>2. OneHolder'
      BY <1>0, <2>1, NobodyTakes
    <2>3. Held' = {}
      BY <2>1 DEF Held, UnderWay
    <2> QED
      BY <2>2, <2>3 DEF MarkersAreSet
  <1>20. ASSUME UNCHANGED vars PROVE Goal
    BY <1>20, <1>same, <1>kept DEF vars
  <1> QED
    BY <1>1, <1>2, <1>3, <1>4, <1>5, <1>6, <1>7, <1>8, <1>9, <1>10, <1>11, <1>12, <1>13,
       <1>14, <1>15, <1>16, <1>17, <1>18, <1>19, <1>20 DEF Next

-----------------------------------------------------------------------------
(* The inductive invariant.                                                 *)

LEMMA InitInvariant == Init => IInv
  <1> SUFFICES ASSUME Init PROVE IInv
    OBVIOUS
  <1>1. disk \in [Jobs -> Job] /\ store = disk
    BY CronAssumption DEF Init
  <1>2. /\ \A w \in Runners, j \in Jobs : work[w][j] = "none"
        /\ \A c \in Calls : call[c] = "uncalled"
    BY DEF Init, NoWork
  <1>3. Held = {}
    BY <1>2 DEF Held, UnderWay
  <1>4. TypeOK
    <2>1. work \in [Runners -> [Jobs -> {"none", "waiting", "executing", "done"}]]
      BY DEF Init, NoWork
    <2>2. now \in 1..MaxTime /\ edits \in 0..MaxEdits /\ crashes \in 0..MaxCrashes
      BY CronAssumption DEF Init
    <2> QED
      BY <1>1, <2>1, <2>2 DEF Init, TypeOK
  <1>5. OneHolder /\ NothingBeforeStart
    BY <1>2 DEF OneHolder, Executes, NothingBeforeStart, Init, Runners
  <1> QED
    BY <1>1, <1>3, <1>4, <1>5, ScheduleIsItself DEF IInv, MarkersAreSet

LEMMA NextInvariant == IInv /\ [Next]_vars => IInv'
  <1> SUFFICES ASSUME IInv, [Next]_vars PROVE IInv'
    OBVIOUS
  <1>1. TypeOK' /\ SameSchedule(disk', store')
    BY StoresStep, TypeStep DEF IInv
  <1>2. NothingBeforeStart'
    BY BeforeStartStep DEF IInv
  <1> QED
    BY <1>1, <1>2, HoldersStep DEF IInv

LEMMA Invariance == Spec => []IInv
  BY InitInvariant, NextInvariant, PTL DEF Spec

-----------------------------------------------------------------------------
(* The properties.                                                          *)

\* Every variable stays in its range.
THEOREM TypeCorrect == Spec => []TypeOK
  <1>1. IInv => TypeOK
    BY DEF IInv
  <1> QED
    BY <1>1, Invariance, PTL

\* The tick, the catch-up and the manual runs never run a job at once (timer.ts:750,
\* ops.ts:442), unless it was disabled while one of them had it, which clears its marker.
THEOREM RunsAreSerial == Spec => []ConcurrentRunsHaveACause
  <1>1. ASSUME IInv PROVE ConcurrentRunsHaveACause
    <2> SUFFICES ASSUME NEW j \in Jobs \ released
                 PROVE  ~(Cardinality({w \in Runners : work[w][j] = "executing"})
                            + Cardinality({c \in Calls : Executes(c, j)}) > 1)
      BY DEF ConcurrentRunsHaveACause, Executes
    <2> DEFINE ws == {w \in Runners : work[w][j] = "executing"}
               cs == {c \in Calls : Executes(c, j)}
    <2>1. /\ work["catchup"][j] = "none" \/ work["tick"][j] = "none"
          /\ \A c \in Calls : Executes(c, j) =>
                /\ \A w \in Runners : work[w][j] = "none"
                /\ \A d \in Calls : Executes(d, j) => c = d
      BY <1>1 DEF IInv, OneHolder
    <2>2. Cardinality({}) = 0 /\ \A x : Cardinality({x}) = 1
      BY FS_EmptySet, FS_Singleton
    <2>3. CASE cs = {}
      <3>1. ws = {} \/ ws = {"catchup"} \/ ws = {"tick"}
        BY <2>1 DEF Runners
      <3> HIDE DEF ws, cs
      <3>2. Cardinality(ws) \in {0, 1} /\ Cardinality(cs) = 0
        BY <2>2, <2>3, <3>1
      <3>3. ~(Cardinality(ws) + Cardinality(cs) > 1)
        BY <3>2
      <3> QED
        BY <3>3 DEF ws, cs
    <2>4. CASE cs # {}
      <3>1. PICK c : cs = {c}
        BY <2>1, <2>4
      <3>2. ws = {}
        BY <2>1, <2>4 DEF Runners
      <3> HIDE DEF ws, cs
      <3>3. Cardinality(ws) = 0 /\ Cardinality(cs) = 1
        BY <2>2, <3>1, <3>2
      <3>4. ~(Cardinality(ws) + Cardinality(cs) > 1)
        BY <3>3
      <3> QED
        BY <3>4 DEF ws, cs
    <2> QED
      BY <2>3, <2>4
  <1> QED
    BY <1>1, Invariance, PTL

\* The marker of a job that somebody has is in the file as long as he has it (ops.ts:447,
\* timer.ts:613, timer.ts:901), unless the job was removed or disabled.
THEOREM MarkersAreOnFile == Spec => []RunsAreRecorded
  <1>1. ASSUME IInv PROVE RunsAreRecorded
    <2> SUFFICES ASSUME NEW j \in Jobs \ released, UnderWay(j)
                 PROVE  disk[j].there = "removed" \/ disk[j].running
      BY DEF RunsAreRecorded
    <2>1. j \in Held
      BY DEF Held
    <2>2. disk[j].there # "new" /\ (disk[j].there = "yes" => disk[j].running)
      BY <1>1, <2>1 DEF IInv, MarkersAreSet, There
    <2>3. disk[j].there \in {"new", "yes", "removed"}
      BY <1>1 DEF IInv, TypeOK, Job
    <2> QED
      BY <2>2, <2>3
  <1> QED
    BY <1>1, Invariance, PTL

\* What the stores say of a job that is due in the file.
LEMMA DueIsDue ==
    ASSUME IInv, NEW j \in Jobs, There(disk, j), Due(disk[j])
    PROVE  /\ disk[j] \in Job /\ disk[j].next \in Nat
           /\ There(store, j) /\ store[j].enabled /\ disk[j].enabled
           /\ store[j].next = disk[j].next
  BY DEF IInv, TypeOK, Job, SameSchedule, There, Due, Missing

\* A slot that is due is passed over by the outcome of a run, by the catch-up that puts
\* it off, by the last section of a start, by an add or by an update of the job alone;
\* maintenance and reads leave it (jobs.ts:426-459, "to prevent silently advancing
\* past-due nextRunAtMs values"), and so do the updates of other jobs.
THEOREM SlotsAreKept == Spec => SlotsArePassedOverByRuns
  <1> DEFINE Excused(j) ==
        \/ RunWasApplied(j)
        \/ j \in deferred
        \/ stage = "caughtUp" /\ stage' = "started"
        \/ \E k \in Jobs : disk[k].there = "new" /\ disk'[k].there = "yes"
        \/ EditedAlone(j)
  <1>1. ASSUME IInv, [Next]_vars, NEW j \in Jobs, PassedOver(j) PROVE Excused(j)
    <2> SUFFICES ASSUME ~Excused(j) PROVE FALSE
      OBVIOUS
    <2> HIDE DEF Excused
    <2>0. /\ TypeOK /\ now \in Clock /\ disk \in Stores /\ store \in Stores
          /\ There(disk, j) /\ Due(disk[j])
          /\ disk[j].next \in Nat /\ store[j].next = disk[j].next
          /\ There(store, j) /\ store[j].enabled /\ disk[j].enabled
          /\ disk[j].next # Undefined
      BY <1>1, DueIsDue DEF IInv, TypeOK, Clock, Stores, PassedOver, Due
    <2>1. disk'[j].next # disk[j].next /\ disk'[j].enabled /\ disk'[j].there = "yes"
      BY <1>1, <2>0 DEF PassedOver, There
    <2>a. \A w \in Runners : work[w][j] = "done" => work'[w][j] # "none"
      BY DEF Excused, RunWasApplied
    <2>b. \A c \in Calls : JobOf[c] = j /\ call[c] = "executing" => call'[c] # "over"
      BY DEF Excused, RunWasApplied
    <2>c. \A q \in Stores : q[j].enabled /\ q[j].next # Undefined =>
                              RecomputeForMaintenance(q)[j].next = q[j].next
      BY <2>0, MaintenanceIs DEF Missing
    <2>2. disk'[j] # disk[j] /\ disk' # disk
      BY <2>1
    <2>3. ASSUME ClearInterruptedMarkers PROVE FALSE
      <3>1. disk'[j].next = disk[j].next
        BY <2>0, <2>3 DEF ClearInterruptedMarkers, Persist, Stores, Job
      <3> QED
        BY <2>1, <3>1
    <2>4. ASSUME PlanStartupCatchup PROVE FALSE
      <3>1. PICK js : disk' = Marked(store, js)
        BY <2>2, <2>4 DEF PlanStartupCatchup, Persist
      <3> QED
        BY <2>0, <2>1, <3>1, MarkedIs
    <2>5. ASSUME ApplyStartupCatchupOutcomes PROVE FALSE
      <3>1. PICK r \in Applied(store, Finished("catchup")) :
              disk' = RecomputeForMaintenance(
                        [k \in Jobs |-> IF k \in deferred /\ There(r, k) /\ r[k].enabled
                                        THEN [r[k] EXCEPT !.next = now + 1] ELSE r[k]])
        BY <2>5 DEF ApplyStartupCatchupOutcomes, Persist
      <3> DEFINE p == [k \in Jobs |-> IF k \in deferred /\ There(r, k) /\ r[k].enabled
                                      THEN [r[k] EXCEPT !.next = now + 1] ELSE r[k]]
      <3>2. r \in Stores
        BY <2>0, AppliedIs
      <3>3. p \in Stores
        <4>1. now + 1 \in 0..(MaxTime + 1)
          BY <2>0, CronAssumption DEF Clock
        <4>2. ASSUME NEW k \in Jobs PROVE r[k] \in Job /\ [r[k] EXCEPT !.next = now + 1] \in Job
          BY <3>2, <4>1 DEF Stores, Job
        <4> QED
          BY <4>2 DEF Stores
      <3>4. work'["catchup"][j] = "none"
        BY <2>0, <2>5 DEF ApplyStartupCatchupOutcomes, NoWork, TypeOK, Runners
      <3>5. j \notin Finished("catchup") /\ j \notin deferred
        BY <2>a, <3>4 DEF Finished, Excused, Runners
      <3>6. p[j] = store[j]
        BY <2>0, <3>1, <3>5, AppliedIs
      <3> HIDE DEF p
      <3>7. disk' = RecomputeForMaintenance(p)
        BY <3>1 DEF p
      <3> QED
        BY <2>0, <2>1, <2>c, <3>3, <3>6, <3>7
    <2>6. ASSUME FinishStart PROVE FALSE
      BY <2>6 DEF FinishStart, Excused
    <2>7. ASSUME CollectDueJobs PROVE FALSE
      <3>1. disk' = RecomputeForMaintenance(disk) \/ disk' = Marked(disk, Runnable(disk))
        BY <2>7 DEF CollectDueJobs, Persist
      <3> QED
        BY <2>0, <2>1, <2>c, <3>1, MarkedIs
    <2>8. ASSUME ApplyOutcomes PROVE FALSE
      <3>1. PICK r \in Applied(disk, Finished("tick")) : disk' = RecomputeForMaintenance(r)
        BY <2>8 DEF ApplyOutcomes, Persist
      <3>2. work'["tick"][j] = "none"
        BY <2>0, <2>8 DEF ApplyOutcomes, NoWork, TypeOK, Runners
      <3>3. j \notin Finished("tick")
        BY <2>a, <3>2 DEF Finished, Runners
      <3>4. r \in Stores /\ r[j] = disk[j]
        BY <2>0, <3>1, <3>3, AppliedIs
      <3> QED
        BY <2>0, <2>1, <2>c, <3>1, <3>4
    <2>9. ASSUME NEW k \in Jobs, Update(k) PROVE FALSE
      <3>1. PICK new : /\ disk' = [store EXCEPT ![k] = new]
                       /\ edits' = edits + 1
                       /\ \A i \in Jobs : i # k => [store EXCEPT ![k] = new][i] = store[i]
        BY <2>0, <2>9, UpdateIs
      <3>2. \A i \in Jobs : i # k => disk'[i] = store[i]
        BY <3>1
      <3>3. CASE k = j
        BY <3>1, <3>2, <3>3 DEF Excused, EditedAlone
      <3>4. CASE k # j
        BY <2>0, <2>1, <3>2, <3>4
      <3> QED
        BY <3>3, <3>4
    <2>10. ASSUME NEW k \in Jobs, Add(k) PROVE FALSE
      <3> DEFINE job == [store[k] EXCEPT !.there = "yes"]
                 new == [job EXCEPT !.next = ComputeNext(k, job)]
                 q   == [store EXCEPT ![k] = new]
      <3>1. disk' = RecomputeNextRuns(q)
        BY <2>10 DEF Add, Edit, Persist
      <3>2. store[k].there = "new"
        BY <2>10 DEF Add
      <3>3. disk[k].there = "new"
        BY <1>1, <3>2 DEF IInv, SameSchedule
      <3>4. job \in Job /\ job.there = "yes"
        BY <2>0 DEF Stores, Job
      <3> HIDE DEF job
      <3>5. new \in Job /\ new.there = "yes"
        BY <2>0, <3>4, NextIs DEF Job
      <3> HIDE DEF new
      <3>6. q \in Stores /\ q[k].there = "yes"
        BY <2>0, <3>5 DEF Stores
      <3> HIDE DEF q
      <3>7. disk'[k].there = "yes"
        BY <2>0, <3>1, <3>6, RecomputeIs
      <3> QED
        BY <3>3, <3>7 DEF Excused
    <2>11. ASSUME NEW k \in Jobs, Remove(k) PROVE FALSE
      <3>1. disk' = [store EXCEPT ![k] = Gone]
        BY <2>11 DEF Remove, Edit, Persist
      <3> QED
        BY <2>0, <2>1, <3>1 DEF Stores, Gone
    <2>12. ASSUME Read PROVE FALSE
      <3>1. disk' = RecomputeForMaintenance(store)
        BY <2>2, <2>12 DEF Read, PersistIfChanged
      <3> QED
        BY <2>0, <2>1, <2>c, <3>1
    <2>13. ASSUME NEW c \in Calls, PrepareManualRun(c) PROVE FALSE
      <3>1. disk' = Marked(store, {JobOf[c]})
        BY <2>2, <2>13 DEF PrepareManualRun, Reserve, Persist
      <3> QED
        BY <2>0, <2>1, <3>1, MarkedIs
    <2>14. ASSUME NEW c \in Calls, FinishManualRun(c) PROVE FALSE
      <3> DEFINE k == JobOf[c]
      <3>1. PICK r \in Applied(store, {k}) :
              disk' = RecomputeForMaintenance(
                        IF There(disk, k) THEN [disk EXCEPT ![k] = r[k]] ELSE disk)
        BY <2>2, <2>14 DEF FinishManualRun, Persist
      <3>2. call[c] = "executing" /\ call'[c] = "over" /\ k \in Jobs
        BY <2>0, <2>14, CronAssumption DEF FinishManualRun, TypeOK
      <3>3. k # j
        BY <2>b, <3>2
      <3>4. r \in Stores
        BY <2>0, AppliedIs
      <3> HIDE DEF k
      <3> DEFINE p == IF There(disk, k) THEN [disk EXCEPT ![k] = r[k]] ELSE disk
      <3>5. p \in Stores /\ p[j] = disk[j]
        BY <2>0, <3>2, <3>3, <3>4 DEF Stores
      <3>6. disk' = RecomputeForMaintenance(p)
        BY <3>1
      <3> HIDE DEF p
      <3> QED
        BY <2>0, <2>1, <2>c, <3>5, <3>6
    <2>15. ASSUME disk' = disk PROVE FALSE
      BY <2>2, <2>15
    <2>16. ASSUME NEW c \in Calls, NEW forced \in BOOLEAN, ManualPreflight(c, forced) PROVE disk' = disk
      BY <2>16 DEF ManualPreflight
    <2>17. ASSUME NEW w \in Runners, NEW k \in Jobs, RunDueJob(w, k) \/ JobEnds(w, k) PROVE disk' = disk
      BY <2>17 DEF RunDueJob, JobEnds
    <2>18. OnTimer \/ EndTick \/ TimePasses \/ Crash \/ UNCHANGED vars => disk' = disk
      BY DEF OnTimer, EndTick, TimePasses, Crash, vars
    <2> QED
      BY <1>1, <2>3, <2>4, <2>5, <2>6, <2>7, <2>8, <2>9, <2>10, <2>11, <2>12, <2>13, <2>14,
         <2>15, <2>16, <2>17, <2>18 DEF Next
  <1>2. IInv /\ [Next]_vars => [\A j \in Jobs : PassedOver(j) => Excused(j)]_vars
    BY <1>1
  <1> QED
    BY Invariance, <1>2, PTL DEF Spec, SlotsArePassedOverByRuns

-----------------------------------------------------------------------------
(* The scheduler stays armed.  A section that reloads the file decides on   *)
(* the timer by what it finds there; so the file must not lack a next run   *)
(* that the memory has.                                                     *)

LEMMA Upkeeps ==
    ASSUME NEW q \in Stores, now \in Clock
    PROVE  Maintained(RecomputeForMaintenance(q)) /\ Maintained(RecomputeNextRuns(q))
  BY MaintenanceIs, RecomputeIs DEF Maintained

\* In a store without missing next runs maintenance finds nothing to do.
LEMMA UpkeepKeepsWake ==
    ASSUME NEW q \in Stores, now \in Clock, Maintained(q)
    PROVE  HasNextWake(RecomputeForMaintenance(q)) <=> HasNextWake(q)
  BY MaintenanceIs DEF Maintained, HasNextWake, There

LEMMA MarkingKeepsWake ==
    ASSUME NEW q \in Stores, Maintained(q), NEW js
    PROVE  Maintained(Marked(q, js)) /\ (HasNextWake(Marked(q, js)) <=> HasNextWake(q))
  <1>1. \A j \in Jobs : /\ Marked(q, js)[j].there = q[j].there
                        /\ Marked(q, js)[j].enabled = q[j].enabled
                        /\ Marked(q, js)[j].last = q[j].last
                        /\ Marked(q, js)[j].next = q[j].next
    BY MarkedIs
  <1> QED
    BY <1>1 DEF Maintained, Missing, HasNextWake, There

\* Stores with one schedule, none of it missing, wake the service alike.
LEMMA SameWake ==
    ASSUME NEW q, NEW r, SameSchedule(q, r), Maintained(q)
    PROVE  HasNextWake(q) <=> HasNextWake(r)
  BY DEF SameSchedule, Maintained, HasNextWake, There

\* No step leaves a next run missing, in memory or in the file.
LEMMA MaintainedStep ==
    ASSUME IInv, Maintained(disk), Maintained(store), [Next]_vars
    PROVE  Maintained(disk') /\ Maintained(store')
  <1> DEFINE Goal == Maintained(disk') /\ Maintained(store')
  <1>0. now \in Clock /\ disk \in Stores /\ store \in Stores
    BY DEF IInv, TypeOK, Clock, Stores
  <1>same. ASSUME NEW q, store' = q, disk' = q, Maintained(q) PROVE Goal
    BY <1>same
  <1>kept. ASSUME UNCHANGED <<disk, store>> PROVE Goal
    BY <1>kept
  <1>1. ASSUME ClearInterruptedMarkers PROVE Goal
    <2>1. PICK js : /\ store' = [j \in Jobs |-> [disk[j] EXCEPT !.running = @ /\ j \notin js]]
                    /\ disk' = store'
      BY <1>1 DEF ClearInterruptedMarkers, Keep, Persist
    <2>2. \A j \in Jobs : /\ store'[j].there = disk[j].there
                          /\ store'[j].enabled = disk[j].enabled
                          /\ store'[j].last = disk[j].last
                          /\ store'[j].next = disk[j].next
      <3> SUFFICES ASSUME NEW j \in Jobs
                   PROVE  /\ store'[j].there = disk[j].there
                          /\ store'[j].enabled = disk[j].enabled
                          /\ store'[j].last = disk[j].last
                          /\ store'[j].next = disk[j].next
        OBVIOUS
      <3>1. disk[j] \in Job
        BY <1>0 DEF Stores
      <3>2. PICK b : store'[j] = [disk[j] EXCEPT !.running = b]
        BY <2>1
      <3> QED
        BY <3>1, <3>2 DEF Job
    <2> QED
      BY <2>1, <2>2 DEF Maintained, Missing, There
  <1>2. ASSUME PlanStartupCatchup PROVE Goal
    <2>1. PICK js : /\ store' = Marked(store, js)
                    /\ disk' = disk \/ disk' = Marked(store, js)
      BY <1>2 DEF PlanStartupCatchup, Keep, Persist
    <2> QED
      BY <1>0, <2>1, MarkingKeepsWake
  <1>3. ASSUME ApplyStartupCatchupOutcomes PROVE Goal
    <2>1. PICK r \in Applied(store, Finished("catchup")) :
            LET p == [j \in Jobs |-> IF j \in deferred /\ There(r, j) /\ r[j].enabled
                                     THEN [r[j] EXCEPT !.next = now + 1] ELSE r[j]]
                q == RecomputeForMaintenance(p)
            IN  store' = q /\ disk' = q
      BY <1>3 DEF ApplyStartupCatchupOutcomes, Keep, Persist
    <2> DEFINE p == [j \in Jobs |-> IF j \in deferred /\ There(r, j) /\ r[j].enabled
                                    THEN [r[j] EXCEPT !.next = now + 1] ELSE r[j]]
    <2>2. r \in Stores
      BY <1>0, AppliedIs
    <2>3. p \in Stores
      <3>1. now + 1 \in 0..(MaxTime + 1)
        BY <1>0, CronAssumption DEF Clock
      <3>2. ASSUME NEW j \in Jobs PROVE r[j] \in Job /\ [r[j] EXCEPT !.next = now + 1] \in Job
        BY <2>2, <3>1 DEF Stores, Job
      <3> QED
        BY <3>2 DEF Stores
    <2>4. store' = RecomputeForMaintenance(p) /\ disk' = RecomputeForMaintenance(p)
      BY <2>1
    <2> HIDE DEF p
    <2> QED
      BY <1>0, <2>3, <2>4, Upkeeps
  <1>4. ASSUME FinishStart PROVE Goal
    <2>1. /\ store' = RecomputeNextRuns(store)
          /\ disk' = RecomputeNextRuns(store) \/ disk' = disk
      BY <1>4 DEF FinishStart, Keep, PersistIfChanged
    <2> QED
      BY <1>0, <2>1, Upkeeps
  <1>5. ASSUME OnTimer PROVE Goal
    BY <1>5, <1>kept DEF OnTimer
  <1>6. ASSUME CollectDueJobs PROVE Goal
    <2>1. \E q \in {RecomputeForMaintenance(disk), Marked(disk, Runnable(disk))} :
            store' = q /\ disk' = q
      BY <1>6 DEF CollectDueJobs, Keep, Persist
    <2> QED
      BY <1>0, <2>1, Upkeeps, MarkingKeepsWake
  <1>7. ASSUME ApplyOutcomes PROVE Goal
    <2>1. PICK r \in Applied(disk, Finished("tick")) :
            store' = RecomputeForMaintenance(r) /\ disk' = RecomputeForMaintenance(r)
      BY <1>7 DEF ApplyOutcomes, Keep, Persist
    <2> QED
      BY <1>0, <2>1, AppliedIs, Upkeeps
  <1>8. ASSUME EndTick PROVE Goal
    BY <1>8, <1>kept DEF EndTick
  <1>9. ASSUME NEW w \in Runners, NEW j \in Jobs, RunDueJob(w, j) PROVE Goal
    <2>1. disk' = disk /\ (store' = store \/ store' = Marked(store, {j}))
      BY <1>9 DEF RunDueJob, Keep
    <2> QED
      BY <1>0, <2>1, MarkingKeepsWake
  <1>10. ASSUME NEW w \in Runners, NEW j \in Jobs, JobEnds(w, j) PROVE Goal
    BY <1>10, <1>kept DEF JobEnds
  <1>11. ASSUME NEW j \in Jobs, Update(j) PROVE Goal
    <2>1. PICK new \in Patched(j, store[j]) :
            /\ store' = [store EXCEPT ![j] = new] /\ disk' = [store EXCEPT ![j] = new]
            /\ [store EXCEPT ![j] = new][j] = new
            /\ \A k \in Jobs : k # j => [store EXCEPT ![j] = new][k] = store[k]
      BY <1>0, <1>11, UpdateIs
    <2>2. new.enabled /\ new.next = Undefined => j \notin Recurring /\ new.last = "ok"
      BY <1>0, <2>1, PatchedIs DEF Stores
    <2> DEFINE q == [store EXCEPT ![j] = new]
    <2>3. q[j] = new /\ (\A k \in Jobs : k # j => q[k] = store[k]) /\ store' = q /\ disk' = q
      BY <2>1
    <2> HIDE DEF q
    <2>4. Maintained(q)
      BY <1>0, <2>2, <2>3 DEF Maintained, Missing, There
    <2> QED
      BY <2>3, <2>4
  <1>12. ASSUME NEW j \in Jobs, Add(j) PROVE Goal
    <2> DEFINE job == [store[j] EXCEPT !.there = "yes"]
               new == [job EXCEPT !.next = ComputeNext(j, job)]
    <2>1. job \in Job
      BY <1>0 DEF Stores, Job
    <2>2. /\ store' = RecomputeNextRuns([store EXCEPT ![j] = new])
          /\ disk' = RecomputeNextRuns([store EXCEPT ![j] = new])
      BY <1>12 DEF Add, Edit, Keep, Persist
    <2> HIDE DEF job
    <2>3. new \in Job
      BY <1>0, <2>1, NextIs DEF Job
    <2> HIDE DEF new
    <2>4. [store EXCEPT ![j] = new] \in Stores
      BY <1>0, <2>3 DEF Stores
    <2> QED
      BY <1>0, <2>2, <2>4, Upkeeps
  <1>13. ASSUME NEW j \in Jobs, Remove(j) PROVE Goal
    <2> DEFINE q == [store EXCEPT ![j] = Gone]
    <2>1. store' = q /\ disk' = q
      BY <1>13 DEF Remove, Edit, Keep, Persist
    <2>2. q[j] = Gone /\ \A k \in Jobs : k # j => q[k] = store[k]
      BY <1>0 DEF Stores
    <2> HIDE DEF q
    <2>3. Maintained(q)
      BY <2>2 DEF Maintained, Missing, There, Gone
    <2> QED
      BY <2>1, <2>3
  <1>14. ASSUME Read PROVE Goal
    <2>1. /\ store' = RecomputeForMaintenance(store)
          /\ disk' = RecomputeForMaintenance(store) \/ disk' = disk
      BY <1>14 DEF Read, Keep, PersistIfChanged
    <2> QED
      BY <1>0, <2>1, Upkeeps
  <1>15. ASSUME NEW c \in Calls, NEW forced \in BOOLEAN, ManualPreflight(c, forced) PROVE Goal
    <2>1. store' = RecomputeForMaintenance(store) /\ disk' = disk
      BY <1>15 DEF ManualPreflight, Keep
    <2> QED
      BY <1>0, <2>1, Upkeeps
  <1>16. ASSUME NEW c \in Calls, PrepareManualRun(c) PROVE Goal
    <2>1. \/ store' = Marked(store, {JobOf[c]}) /\ disk' = Marked(store, {JobOf[c]})
          \/ UNCHANGED <<disk, store>>
      BY <1>16 DEF PrepareManualRun, Reserve, Keep, Persist
    <2> QED
      BY <1>0, <2>1, MarkingKeepsWake, <1>kept
  <1>17. ASSUME NEW c \in Calls, FinishManualRun(c) PROVE Goal
    <2> DEFINE j == JobOf[c]
    <2>0. j \in Jobs
      BY CronAssumption
    <2>1. CASE There(store, j)
      <3>1. PICK r \in Applied(store, {j}) :
              LET q == RecomputeForMaintenance(
                         IF There(disk, j) THEN [disk EXCEPT ![j] = r[j]] ELSE disk)
              IN  store' = q /\ disk' = q
        BY <1>17, <2>1 DEF FinishManualRun, Keep, Persist
      <3> DEFINE p == IF There(disk, j) THEN [disk EXCEPT ![j] = r[j]] ELSE disk
      <3>2. r \in Stores
        BY <1>0, AppliedIs
      <3> HIDE DEF j
      <3>3. p \in Stores
        BY <1>0, <2>0, <3>2 DEF Stores
      <3>4. store' = RecomputeForMaintenance(p) /\ disk' = RecomputeForMaintenance(p)
        BY <3>1 DEF j
      <3> HIDE DEF p
      <3> QED
        BY <1>0, <3>3, <3>4, Upkeeps
    <2>2. CASE ~There(store, j)
      BY <1>17, <2>2, <1>kept DEF FinishManualRun
    <2> QED
      BY <2>1, <2>2
  <1>18. ASSUME TimePasses PROVE Goal
    BY <1>18, <1>kept DEF TimePasses
  <1>19. ASSUME Crash PROVE Goal
    BY <1>19 DEF Crash
  <1>20. ASSUME UNCHANGED vars PROVE Goal
    BY <1>20, <1>kept DEF vars
  <1> QED
    BY <1>1, <1>2, <1>3, <1>4, <1>5, <1>6, <1>7, <1>8, <1>9, <1>10, <1>11, <1>12, <1>13,
       <1>14, <1>15, <1>16, <1>17, <1>18, <1>19, <1>20 DEF Next

\* The sections that give the service something to wake for set the timer, and the
\* others leave the timer and what there is to wake for as they are.
LEMMA ArmedStep ==
    ASSUME IInv, Maintained(disk), Maintained(store), SchedulerStaysArmed, [Next]_vars
    PROVE  SchedulerStaysArmed'
  <1> DEFINE Goal == (stage' = "started" /\ HasNextWake(store')) => timer' \/ tick' = "ending"
  <1> SUFFICES Goal
    BY DEF SchedulerStaysArmed, HasNextWake, There
  <1>0. now \in Clock /\ disk \in Stores /\ store \in Stores /\ SameSchedule(disk, store)
    BY DEF IInv, TypeOK, Clock, Stores
  <1>down. ASSUME stage' # "started" PROVE Goal
    BY <1>down
  <1>arms. ASSUME NEW q, store' = q, timer' = HasNextWake(q) PROVE Goal
    BY <1>arms
  <1>keeps. ASSUME UNCHANGED <<stage, timer>>, tick = "ending" => tick' = "ending",
                   HasNextWake(store') <=> HasNextWake(store)
            PROVE  Goal
    BY <1>keeps DEF SchedulerStaysArmed
  <1>1. ASSUME \/ ClearInterruptedMarkers \/ PlanStartupCatchup \/ ApplyStartupCatchupOutcomes
               \/ Crash
        PROVE  Goal
    <2>1. stage' # "started"
      BY <1>1 DEF ClearInterruptedMarkers, PlanStartupCatchup, ApplyStartupCatchupOutcomes,
                  Crash
    <2> QED
      BY <2>1, <1>down
  <1>2. ASSUME FinishStart PROVE Goal
    BY <1>2, <1>arms DEF FinishStart, Keep, ArmTimer
  <1>3. ASSUME OnTimer PROVE Goal
    <2>1. UNCHANGED <<stage, timer, store>> /\ (tick = "ending" => tick' = "ending")
      BY <1>3 DEF OnTimer
    <2> QED
      BY <2>1, <1>keeps
  <1>4. ASSUME CollectDueJobs PROVE Goal
    <2>1. /\ UNCHANGED <<stage, timer>> /\ tick = "collecting"
          /\ \/ store' = RecomputeForMaintenance(disk)
             \/ store' = Marked(disk, Runnable(disk))
      BY <1>4 DEF CollectDueJobs, Keep
    <2>2. HasNextWake(store') <=> HasNextWake(disk)
      BY <1>0, <2>1, UpkeepKeepsWake, MarkingKeepsWake
    <2>3. HasNextWake(disk) <=> HasNextWake(store)
      BY <1>0, SameWake
    <2> QED
      BY <2>1, <2>2, <2>3, <1>keeps
  <1>5. ASSUME ApplyOutcomes PROVE Goal
    BY <1>5 DEF ApplyOutcomes
  <1>6. ASSUME EndTick PROVE Goal
    BY <1>6, <1>arms DEF EndTick, ArmTimer
  <1>7. ASSUME NEW w \in Runners, NEW j \in Jobs, RunDueJob(w, j) \/ JobEnds(w, j) PROVE Goal
    <2>1. /\ UNCHANGED <<stage, timer, tick>>
          /\ store' = store \/ store' = Marked(store, {j})
      BY <1>7 DEF RunDueJob, JobEnds, Keep
    <2> QED
      BY <1>0, <2>1, MarkingKeepsWake, <1>keeps
  <1>8. ASSUME NEW j \in Jobs, Update(j) PROVE Goal
    <2>1. PICK q : Edit(q)
      BY <1>8 DEF Update
    <2> QED
      BY <2>1, <1>arms DEF Edit, Keep, ArmTimer
  <1>9. ASSUME NEW j \in Jobs, Add(j) PROVE Goal
    <2>1. PICK q : Edit(q)
      BY <1>9 DEF Add
    <2> QED
      BY <2>1, <1>arms DEF Edit, Keep, ArmTimer
  <1>10. ASSUME NEW j \in Jobs, Remove(j) PROVE Goal
    <2>1. PICK q : Edit(q)
      BY <1>10 DEF Remove
    <2> QED
      BY <2>1, <1>arms DEF Edit, Keep, ArmTimer
  <1>11. ASSUME \/ Read
                \/ \E c \in Calls, forced \in BOOLEAN : ManualPreflight(c, forced)
         PROVE  Goal
    <2>1. UNCHANGED <<stage, timer, tick>> /\ store' = RecomputeForMaintenance(store)
      BY <1>11 DEF Read, ManualPreflight, Keep
    <2> QED
      BY <1>0, <2>1, UpkeepKeepsWake, <1>keeps
  <1>12. ASSUME NEW c \in Calls, PrepareManualRun(c) PROVE Goal
    <2>1. /\ UNCHANGED <<stage, timer, tick>>
          /\ store' = store \/ store' = Marked(store, {JobOf[c]})
      BY <1>12 DEF PrepareManualRun, Reserve, Keep
    <2> QED
      BY <1>0, <2>1, MarkingKeepsWake, <1>keeps
  <1>13. ASSUME NEW c \in Calls, FinishManualRun(c) PROVE Goal
    <2>1. CASE There(store, JobOf[c])
      BY <1>13, <2>1, <1>arms DEF FinishManualRun, Keep, ArmTimer
    <2>2. CASE ~There(store, JobOf[c])
      BY <1>13, <2>2, <1>keeps DEF FinishManualRun
    <2> QED
      BY <2>1, <2>2
  <1>14. ASSUME TimePasses PROVE Goal
    BY <1>14, <1>keeps DEF TimePasses
  <1>15. ASSUME UNCHANGED vars PROVE Goal
    BY <1>15, <1>keeps DEF vars
  <1> QED
    BY <1>1, <1>2, <1>3, <1>4, <1>5, <1>6, <1>7, <1>8, <1>9, <1>10, <1>11, <1>12, <1>13,
       <1>14, <1>15 DEF Next

\* A started service that has a job with a next run has its timer set, or is about to set
\* it (timer.ts:573, against "silently killing the scheduler").  Assumed is that no job
\* lacks its next run in the file the service is given first.  A service leaves no such
\* file behind (MaintainedStep), so only one written by hand is excluded.
THEOREM SchedulerIsArmed ==
    ASSUME \A q \in InitialStores : Maintained(q)
    PROVE  Spec => []SchedulerStaysArmed
  <1> DEFINE ArmInv == Maintained(disk) /\ Maintained(store) /\ SchedulerStaysArmed
  <1>1. Init => ArmInv
    BY DEF Init, SchedulerStaysArmed
  <1>2. IInv /\ ArmInv /\ [Next]_vars => ArmInv'
    <2> SUFFICES ASSUME IInv, ArmInv, [Next]_vars PROVE ArmInv'
      OBVIOUS
    <2>1. Maintained(disk') /\ Maintained(store')
      BY MaintainedStep
    <2>2. Maintained(disk)' /\ Maintained(store)'
      BY <2>1 DEF Maintained, Missing, There
    <2> QED
      BY <2>2, ArmedStep
  <1> QED
    BY <1>1, <1>2, Invariance, PTL DEF Spec

=============================================================================
