------------------------- MODULE DeliveryQueueProofs -------------------------
(***************************************************************************)
(* Proofs about the write-ahead queue, for any number of deliveries and of  *)
(* overlapping recovery scans.                                              *)
(*                                                                         *)
(* None of the properties is inductive.  What they rest on is who is at     *)
(* work on a delivery: its own call, a scan that replays it, and the scans  *)
(* that have loaded its entry hold it.  While no scan has met it in flight  *)
(* there is one holder (OneHolder), so nobody can write the file of an      *)
(* entry anew that another has renamed, or send what another has sent.      *)
(***************************************************************************)
EXTENDS DeliveryQueue, WellFoundedInduction, TLAPS

\* The steps of the work on one delivery.
Busy == {"sending", "sent", "acking", "unlinking", "reading", "updating", "moving"}

Jobs ==
    [at : Busy \cup {"off", "loading", "migrating", "choosing", "over"}, id : Deliveries \cup {None},
     count : 0..RetryCap]

ScanStates ==
    [unread : SUBSET Deliveries, loaded : [Deliveries -> 0..RetryCap \cup {None}],
     begun : BOOLEAN, late : BOOLEAN]

Types ==
    /\ json \in [Deliveries -> 0..RetryCap \cup {None}]
    /\ marker \in SUBSET Deliveries /\ failed \in SUBSET Deliveries
    /\ legacy \in SUBSET Deliveries
    /\ job \in [Workers -> Jobs]
    /\ scan \in [Recoverers -> ScanStates]
    /\ wire \in [Deliveries -> 0..2]
    /\ persisted \in SUBSET Deliveries /\ acked \in SUBSET Deliveries
    /\ aborted \in SUBSET Deliveries /\ unnoticed \in SUBSET Deliveries
    /\ cancelled \in SUBSET Deliveries
    /\ unrecorded \in SUBSET Deliveries /\ raced \in SUBSET Deliveries

WorksOn(w, d) == job[w].id = d /\ job[w].at \in Busy

Holds(w, d) == WorksOn(w, d) \/ (w \in Recoverers /\ scan[w].loaded[d] # None)

\* A worker names a delivery while it works on it; a call works on its own.
JobsAreNamed ==
    \A w \in Workers :
        /\ job[w].at \in {"off", "loading", "choosing"} <=> job[w].id = None
        /\ w \in Deliveries => job[w].id \in {None, w} /\ job[w].at \notin {"loading", "migrating", "choosing"}
        /\ w \in Recoverers => job[w].at # "over"

\* Only what was written can be on disk, be loaded, or be worked on as an entry.
EntriesWereWritten ==
    /\ OnDisk \cup failed \cup acked \subseteq persisted
    /\ \A w \in Workers : \A d \in Deliveries :
         WorksOn(w, d) /\ (w \in Recoverers \/ job[w].at \notin {"sending", "sent"})
         => d \in persisted
    /\ \A r \in Recoverers : Loaded(r) \cup scan[r].unread \subseteq persisted

\* Nothing has happened to a delivery before its call.
Untouched == \A d \in Deliveries : job[d].at = "off" => d \notin persisted /\ wire[d] = 0

\* A scan takes each entry once.
TakenOnce == \A r \in Recoverers, d \in Deliveries : WorksOn(r, d) => scan[r].loaded[d] = None

\* The entry a scan migrates is one that it holds.
MigratesItsOwn ==
    \A r \in Recoverers : job[r].at = "migrating" =>
        /\ job[r].id \in Deliveries /\ scan[r].loaded[job[r].id] # None

\* While no scan has met a delivery in flight it has one holder.
OneHolder ==
    \A d \in Deliveries \ raced : \A v, w \in Workers : Holds(v, d) /\ Holds(w, d) => v = w

\* What went out is sent by nobody again, and its entry is about to go.
SentOnce ==
    \A d \in Deliveries \ (raced \cup unrecorded) : wire[d] > 0 =>
        /\ wire[d] = 1
        /\ \A w \in Workers : Holds(w, d) => job[w].id = d /\ job[w].at \in {"sent", "acking", "unlinking"}
        /\ json[d] # None => \E w \in Workers : job[w].id = d /\ job[w].at \in {"sent", "acking"}

\* What was acknowledged or set aside has no entry, and nobody has one in hand.
SettledIsOver ==
    \A d \in (acked \cup failed) \ raced :
        json[d] = None /\ \A w \in Workers : Holds(w, d) => job[w].id = d /\ job[w].at = "unlinking"

\* What has been sent went out, and is acknowledged only for one of these reasons.
AckHasReason ==
    \A w \in Workers :
        /\ job[w].at = "sent" => wire[job[w].id] > 0
        /\ job[w].at = "acking" => \/ wire[job[w].id] > 0
                                   \/ job[w].id \in aborted \cup unnoticed \cup cancelled

IInv ==
    /\ Types
    /\ JobsAreNamed
    /\ EntriesWereWritten
    /\ Untouched
    /\ TakenOnce
    /\ MigratesItsOwn
    /\ OneHolder
    /\ SentOnce
    /\ SettledIsOver
    /\ AckHasReason
    /\ NothingLost

-----------------------------------------------------------------------------
(* The work on a delivery.                                                  *)

\* A step in which worker w does something about delivery d, apart from what it does
\* to the files and to the wire.
Works(w, d) ==
    /\ WorksOn(w, d)
    /\ scan' = scan /\ persisted' = persisted /\ raced' = raced
    /\ \/ Over(w)
       \/ \E at \in Busy, n \in 0..RetryCap :
            /\ job' = [job EXCEPT ![w] = Job(at, d, n)]
            /\ at = "sent" \/ d \in persisted

\* Such a step changes nobody else's job and makes nobody a holder.
LEMMA WorkFacts ==
    ASSUME IInv, NEW w \in Workers, NEW d \in Deliveries, Works(w, d)
    PROVE  /\ job' \in [Workers -> Jobs] /\ JobsAreNamed'
           /\ \A v \in Workers \ {w} : job'[v] = job[v]
           /\ job'[w].id = d \/ job'[w].id = None
           /\ job'[w].id = None => job'[w].at = "choosing" /\ w \in Recoverers
           /\ job'[w].at \in Busy => job'[w].at = "sent" \/ d \in persisted
           /\ job'[w].at # "migrating"
           /\ \A v \in Workers, e \in Deliveries : WorksOn(v, e)' => WorksOn(v, e)
           /\ \A v \in Workers, e \in Deliveries : Holds(v, e)' => Holds(v, e)
  <1> USE DeliveryAssumption
  <1>1. job \in [Workers -> Jobs] /\ None \notin Deliveries /\ job[w].id = d
    BY DEF IInv, Types, Works, WorksOn
  <1>2. w \in Recoverers \/ w = d
    BY <1>1 DEF IInv, JobsAreNamed, Workers
  <1>3. CASE Over(w)
    <2>1. w \in Recoverers => job' = [job EXCEPT ![w] = Job("choosing", None, 0)]
      BY <1>3 DEF Over
    <2>2. w \notin Recoverers => job' = [job EXCEPT ![w] = Job("over", w, 0)] /\ w = d
      BY <1>2, <1>3 DEF Over
    <2>3. Job("choosing", None, 0) \in Jobs /\ Job("over", d, 0) \in Jobs
      BY DEF Job, Jobs
    <2>4. job' \in [Workers -> Jobs] /\ \A v \in Workers \ {w} : job'[v] = job[v]
      BY <1>1, <2>1, <2>2, <2>3
    <2>5. \/ w \in Recoverers /\ job'[w].at = "choosing" /\ job'[w].id = None
          \/ w \in Deliveries /\ w \notin Recoverers /\ job'[w].at = "over" /\ job'[w].id = d /\ w = d
      BY <1>1, <1>2, <2>1, <2>2 DEF Job
    <2>6. JobsAreNamed'
      BY <1>1, <2>4, <2>5 DEF IInv, JobsAreNamed
    <2> QED
      BY <1>1, <2>4, <2>5, <2>6 DEF Holds, WorksOn, Busy, Works
  <1>4. ASSUME NEW at \in Busy, NEW n \in 0..RetryCap,
               job' = [job EXCEPT ![w] = Job(at, d, n)], at = "sent" \/ d \in persisted
        PROVE  /\ job' \in [Workers -> Jobs] /\ JobsAreNamed'
               /\ \A v \in Workers \ {w} : job'[v] = job[v]
               /\ job'[w].id = d
               /\ job'[w].at \in Busy => job'[w].at = "sent" \/ d \in persisted
               /\ job'[w].at # "migrating"
               /\ \A v \in Workers, e \in Deliveries : WorksOn(v, e)' => WorksOn(v, e)
               /\ \A v \in Workers, e \in Deliveries : Holds(v, e)' => Holds(v, e)
    <2>1. Job(at, d, n) \in Jobs
      BY DEF Job, Jobs
    <2>2. /\ job' \in [Workers -> Jobs] /\ \A v \in Workers \ {w} : job'[v] = job[v]
          /\ job'[w].at = at /\ job'[w].id = d
      BY <1>1, <1>4, <2>1 DEF Job
    <2>3. JobsAreNamed'
      BY <1>1, <1>2, <2>2 DEF IInv, JobsAreNamed, Busy
    <2> QED
      <3>1. \A v \in Workers, e \in Deliveries : WorksOn(v, e)' => WorksOn(v, e)
        BY <1>1, <2>2 DEF WorksOn, Works
      <3>2. \A v \in Workers, e \in Deliveries : Holds(v, e)' => Holds(v, e)
        BY <3>1 DEF Holds, Works
      <3> QED
        BY <1>4, <2>2, <2>3, <3>1, <3>2 DEF Busy
  <1> QED
    BY <1>1, <1>3, <1>4 DEF Works

\* A worker on a delivery is its call or a scan.
LEMMA WorkersAre ==
    ASSUME IInv, NEW w \in Workers, NEW d \in Deliveries, WorksOn(w, d)
    PROVE  w = d \/ w \in Recoverers
  BY DeliveryAssumption DEF IInv, JobsAreNamed, Workers, WorksOn

\* Such a step keeps what is said of the holders.
LEMMA WorkKeeps ==
    ASSUME IInv, NEW w \in Workers, NEW d \in Deliveries, Works(w, d),
           OnDisk' \cup failed' \cup acked' \subseteq persisted,
           wire' \in [Deliveries -> 0..2],
           \A e \in Deliveries \ {d} : wire'[e] = wire[e]
    PROVE  EntriesWereWritten' /\ Untouched' /\ TakenOnce' /\ MigratesItsOwn' /\ OneHolder'
  <1> USE DeliveryAssumption, WorkFacts
  <1>1. scan' = scan /\ persisted' = persisted /\ raced' = raced
    BY DEF Works
  <1>2. TakenOnce'
    BY <1>1 DEF IInv, TakenOnce, Workers
  <1>7. MigratesItsOwn'
    BY <1>1 DEF IInv, MigratesItsOwn, Workers
  <1>3. OneHolder'
    BY <1>1 DEF IInv, OneHolder
  <1>4. \A v \in Workers, e \in Deliveries :
           WorksOn(v, e)' /\ (v \in Recoverers \/ job'[v].at \notin {"sending", "sent"})
           => e \in persisted
    <2> SUFFICES ASSUME NEW v \in Workers, NEW e \in Deliveries, WorksOn(v, e)',
                        v \in Recoverers \/ job'[v].at \notin {"sending", "sent"}
                 PROVE  e \in persisted
      OBVIOUS
    <2>1. WorksOn(v, e)
      OBVIOUS
    <2>2. CASE v \in Recoverers
      BY <2>1, <2>2 DEF IInv, EntriesWereWritten
    <2>3. CASE v \notin Recoverers /\ v = w
      BY <2>3 DEF WorksOn, Works
    <2>4. CASE v \notin Recoverers /\ v # w
      BY <2>1, <2>4 DEF IInv, EntriesWereWritten
    <2> QED
      BY <2>2, <2>3, <2>4
  <1>5. EntriesWereWritten'
    BY <1>1, <1>4 DEF IInv, EntriesWereWritten, Loaded
  <1>6. Untouched'
    <2> SUFFICES ASSUME NEW e \in Deliveries, job'[e].at = "off"
                 PROVE  e \notin persisted /\ wire'[e] = 0
      BY <1>1 DEF Untouched
    <2>1. e # w /\ job[e].at = "off"
      BY DEF Workers, JobsAreNamed
    <2>2. e \notin persisted /\ wire[e] = 0
      BY <2>1 DEF IInv, Untouched
    <2>3. e # d
      BY <2>1, <2>2, WorkersAre DEF IInv, EntriesWereWritten, Works
    <2> QED
      BY <2>2, <2>3
  <1> QED
    BY <1>2, <1>3, <1>5, <1>6, <1>7

\* A worker on a delivery that no scan has met in flight is alone with it.
LEMMA Alone ==
    ASSUME IInv, NEW w \in Workers, NEW d \in Deliveries, WorksOn(w, d)
    PROVE  /\ w \in Recoverers => scan[w].loaded[d] = None
           /\ d \notin raced => \A v \in Workers \ {w} : ~Holds(v, d)
           /\ d \notin raced /\ job[w].at # "unlinking" => d \notin acked \cup failed
           /\ d \notin raced \cup unrecorded /\ job[w].at \notin {"sent", "acking", "unlinking"}
              => wire[d] = 0
           /\ d \notin raced \cup unrecorded => wire[d] \in 0..1
           /\ d \notin raced \cup unrecorded /\ json[d] # None /\ wire[d] > 0
              => job[w].at \in {"sent", "acking"}
           /\ d \notin raced /\ d \in acked \cup failed => json[d] = None
           /\ job[w].at = "sent" => wire[d] > 0
           /\ job[w].at = "acking" => wire[d] > 0 \/ d \in aborted \cup unnoticed \cup cancelled
           /\ d \in persisted => \/ json[d] # None \/ wire[d] > 0
                                 \/ d \in failed \cup aborted \cup unnoticed \cup cancelled
           /\ json[d] # None => d \in persisted
  <1>1. Holds(w, d)
    BY DEF Holds
  <1>2. wire[d] \in 0..2
    BY DEF IInv, Types
  <1>3. job[w].id = d /\ job[w].at \in Busy
    BY DEF WorksOn
  <1>4. w \in Recoverers => scan[w].loaded[d] = None
    BY DEF IInv, TakenOnce
  <1>5. d \notin raced => \A v \in Workers \ {w} : ~Holds(v, d)
    BY <1>1 DEF IInv, OneHolder
  <1>6. d \notin raced /\ job[w].at # "unlinking" => d \notin acked \cup failed
    BY <1>1 DEF IInv, SettledIsOver
  <1>7. ASSUME d \notin raced \cup unrecorded, wire[d] > 0
        PROVE  /\ wire[d] = 1 /\ job[w].at \in {"sent", "acking", "unlinking"}
               /\ json[d] # None => job[w].at \in {"sent", "acking"}
    <2>1. /\ wire[d] = 1 /\ job[w].at \in {"sent", "acking", "unlinking"}
          /\ json[d] # None => \E v \in Workers : job[v].id = d /\ job[v].at \in {"sent", "acking"}
      BY <1>1, <1>7 DEF IInv, SentOnce
    <2>2. \A v \in Workers : job[v].id = d /\ job[v].at \in {"sent", "acking"} => v = w
      BY <1>5, <1>7 DEF Holds, WorksOn, Busy
    <2> QED
      BY <2>1, <2>2
  <1>8. d \notin raced /\ d \in acked \cup failed => json[d] = None
    BY DEF IInv, SettledIsOver
  <1>9. /\ job[w].at = "sent" => wire[d] > 0
        /\ job[w].at = "acking" => wire[d] > 0 \/ d \in aborted \cup unnoticed \cup cancelled
    BY <1>3 DEF IInv, AckHasReason
  <1>10. /\ d \in persisted => \/ json[d] # None \/ wire[d] > 0
                               \/ d \in failed \cup aborted \cup unnoticed \cup cancelled
         /\ json[d] # None => d \in persisted
    BY DEF IInv, NothingLost, EntriesWereWritten, OnDisk
  <1> QED
    BY <1>2, <1>4, <1>5, <1>6, <1>7, <1>8, <1>9, <1>10

\* The files and histories of the other deliveries stay as they are.
Touches(d) ==
    /\ \A e \in Deliveries \ {d} : /\ json'[e] = json[e] /\ wire'[e] = wire[e]
                                   /\ e \in acked' \cup failed' <=> e \in acked \cup failed
    /\ wire'[d] >= wire[d]
    /\ failed \subseteq failed' /\ aborted \subseteq aborted' /\ unnoticed \subseteq unnoticed'
    /\ cancelled \subseteq cancelled'
    /\ unrecorded \subseteq unrecorded'

\* What the step of a worker has to leave behind for its delivery.
LeavesWell(w, d) ==
    /\ job'[w].at = "sent" => wire'[d] > 0
    /\ job'[w].at = "acking" => wire'[d] > 0 \/ d \in aborted' \cup unnoticed' \cup cancelled'
    /\ d \in persisted => \/ json'[d] # None \/ wire'[d] > 0
                          \/ d \in failed' \cup aborted' \cup unnoticed' \cup cancelled'
    /\ d \notin raced \cup unrecorded' /\ wire'[d] > 0 =>
         /\ wire'[d] = 1
         /\ job'[w].at \in Busy => job'[w].at \in {"sent", "acking", "unlinking"}
         /\ json'[d] # None => job'[w].id = d /\ job'[w].at \in {"sent", "acking"}
    /\ d \notin raced /\ d \in acked' \cup failed' =>
         json'[d] = None /\ (job'[w].at \in Busy => job'[w].at = "unlinking")

\* The step of a worker keeps the invariant if it does well by its delivery.
LEMMA WorkStep ==
    ASSUME IInv, NEW w \in Workers, NEW d \in Deliveries, Works(w, d), Types',
           json'[d] # None => d \in persisted, acked' \cup failed' \subseteq persisted,
           Touches(d), LeavesWell(w, d)
    PROVE  IInv'
  <1> USE DeliveryAssumption
  <1>1. persisted' = persisted /\ raced' = raced /\ scan' = scan /\ WorksOn(w, d)
    BY DEF Works
  <1>2. wire' \in [Deliveries -> 0..2] /\ wire \in [Deliveries -> 0..2] /\ persisted \subseteq Deliveries
    BY DEF IInv, Types
  <1>3. OnDisk' \cup failed' \cup acked' \subseteq persisted
    BY DEF Touches, OnDisk, IInv, EntriesWereWritten
  <1>4. JobsAreNamed' /\ EntriesWereWritten' /\ Untouched' /\ TakenOnce' /\ MigratesItsOwn' /\ OneHolder'
    BY <1>2, <1>3, WorkFacts, WorkKeeps DEF Touches
  <1>5. ASSUME NEW v \in Workers, NEW e \in Deliveries, Holds(v, e)',
               e = d => d \notin raced
        PROVE  Holds(v, e) /\ (v # w => e # d /\ job'[v] = job[v]) /\ (v = w /\ e = d => WorksOn(w, d)')
    <2>1. Holds(v, e)
      BY <1>5, WorkFacts
    <2>2. v # w => e # d /\ job'[v] = job[v]
      BY <1>1, <1>5, <2>1, Alone, WorkFacts
    <2>3. v = w /\ e = d => WorksOn(w, d)'
      BY <1>1, <1>5, Alone DEF Holds
    <2> QED
      BY <2>1, <2>2, <2>3
  <1>6. SentOnce'
    <2> SUFFICES ASSUME NEW e \in Deliveries, e \notin raced \cup unrecorded', wire'[e] > 0
                 PROVE  /\ wire'[e] = 1
                        /\ \A v \in Workers : Holds(v, e)' =>
                             job'[v].id = e /\ job'[v].at \in {"sent", "acking", "unlinking"}
                        /\ json'[e] # None =>
                             \E v \in Workers : job'[v].id = e /\ job'[v].at \in {"sent", "acking"}
      BY <1>1 DEF SentOnce
    <2>1. CASE e = d
      BY <1>5, <2>1 DEF LeavesWell, WorksOn
    <2>2. CASE e # d
      <3>1. e \notin raced \cup unrecorded /\ wire[e] > 0 /\ wire'[e] = wire[e] /\ json'[e] = json[e]
        BY <2>2 DEF Touches
      <3>2. /\ wire[e] = 1
            /\ \A v \in Workers : Holds(v, e) =>
                  job[v].id = e /\ job[v].at \in {"sent", "acking", "unlinking"}
            /\ json[e] # None => \E v \in Workers : job[v].id = e /\ job[v].at \in {"sent", "acking"}
        BY <3>1 DEF IInv, SentOnce
      <3>3. job[w].id = d
        BY <1>1 DEF WorksOn
      <3>4. \A v \in Workers : job[v].id = e => job'[v] = job[v]
        BY <2>2, <3>3, WorkFacts
      <3>5. \A v \in Workers : Holds(v, e) => job'[v] = job[v]
        BY <3>2, <3>4
      <3>6. \A v \in Workers : Holds(v, e)' => Holds(v, e)
        BY WorkFacts
      <3> QED
        BY <3>1, <3>2, <3>4, <3>5, <3>6
    <2> QED
      BY <2>1, <2>2
  <1>7. SettledIsOver'
    <2> SUFFICES ASSUME NEW e \in Deliveries, e \notin raced, e \in acked' \cup failed'
                 PROVE  json'[e] = None /\ \A v \in Workers : Holds(v, e)' =>
                             job'[v].id = e /\ job'[v].at = "unlinking"
      BY <1>1, <1>2, <1>3 DEF SettledIsOver
    <2>1. CASE e = d
      BY <1>5, <2>1 DEF LeavesWell, WorksOn
    <2>2. CASE e # d
      <3>1. e \in acked \cup failed /\ json'[e] = json[e]
        BY <2>2 DEF Touches
      <3>2. json[e] = None /\ \A v \in Workers : Holds(v, e) => job[v].id = e /\ job[v].at = "unlinking"
        BY <3>1 DEF IInv, SettledIsOver
      <3>3. job[w].id = d
        BY <1>1 DEF WorksOn
      <3>4. \A v \in Workers : Holds(v, e)' => Holds(v, e) /\ v # w
        BY <2>2, <3>2, <3>3, WorkFacts
      <3> QED
        BY <3>1, <3>2, <3>4, WorkFacts
    <2> QED
      BY <2>1, <2>2
  <1>8. AckHasReason'
    <2> SUFFICES ASSUME NEW v \in Workers
                 PROVE  /\ job'[v].at = "sent" => wire'[job'[v].id] > 0
                        /\ job'[v].at = "acking" => \/ wire'[job'[v].id] > 0
                                                    \/ job'[v].id \in aborted' \cup unnoticed' \cup cancelled'
      BY DEF AckHasReason
    <2>1. CASE v = w
      BY <2>1, WorkFacts DEF LeavesWell, Busy
    <2>2. CASE v # w
      <3>1. job'[v] = job[v]
        BY <2>2, WorkFacts
      <3>2. job[v].at \in {"sent", "acking"} => job[v].id \in Deliveries
        BY DEF IInv, JobsAreNamed, Types, Jobs
      <3>3. \A e \in Deliveries : wire[e] > 0 => wire'[e] > 0
        BY <1>2 DEF Touches
      <3> QED
        BY <3>1, <3>2, <3>3 DEF Touches, IInv, AckHasReason
    <2> QED
      BY <2>1, <2>2
  <1>9. NothingLost'
    BY <1>1, <1>2 DEF NothingLost, IInv, LeavesWell, Touches, OnDisk
  <1> QED
    BY <1>4, <1>6, <1>7, <1>8, <1>9 DEF IInv

-----------------------------------------------------------------------------
(* The actions.                                                             *)

\* Who is busy works on a delivery.
LEMMA Named ==
    ASSUME IInv, NEW w \in Workers, job[w].at \in Busy
    PROVE  job[w].id \in Deliveries /\ WorksOn(w, job[w].id)
  BY DEF IInv, Types, JobsAreNamed, Jobs, WorksOn, Busy

\* Without an entry there is only the call, which sends.
LEMMA Entries ==
    ASSUME IInv, NEW w \in Workers, NEW d \in Deliveries, WorksOn(w, d)
    PROVE  \/ d \in persisted
           \/ job[w].at \in {"sending", "sent"} /\ w = d /\ w \notin Recoverers
  <1>1. w \in Deliveries => w \notin Recoverers
    BY DeliveryAssumption
  <1>2. w = d \/ w \in Recoverers
    BY WorkersAre
  <1> QED
    BY <1>1, <1>2 DEF IInv, EntriesWereWritten

\* Its entry is what a worker has to acknowledge or to count up.
LEMMA EntryOf ==
    ASSUME IInv, NEW w \in Workers, NEW d \in Deliveries, WorksOn(w, d)
    PROVE  HasEntry(w) <=> d \in persisted
  BY Entries, WorkersAre DEF HasEntry

\* The two ways the job of a busy worker changes.
LEMMA Goes ==
    ASSUME IInv, NEW w \in Workers, NEW d \in Deliveries, WorksOn(w, d),
           scan' = scan, persisted' = persisted, raced' = raced
    PROVE  /\ Over(w) => Works(w, d) /\ job'[w].at \notin Busy
           /\ \A at \in Busy : Moves(w, at) /\ (at = "sent" \/ d \in persisted)
                => Works(w, d) /\ job'[w].at = at /\ job'[w].id = d
  <1>1. job[w] \in Jobs /\ job \in [Workers -> Jobs] /\ job[w].id = d
    BY DEF IInv, Types, WorksOn
  <1>2. ASSUME Over(w) PROVE Works(w, d) /\ job'[w].at \notin Busy
    BY <1>1, <1>2 DEF Works, Over, Job, Busy
  <1>3. ASSUME NEW at \in Busy, Moves(w, at), at = "sent" \/ d \in persisted
        PROVE  Works(w, d) /\ job'[w].at = at /\ job'[w].id = d
    <2>1. [job[w] EXCEPT !.at = at] = Job(at, d, job[w].count)
      BY <1>1 DEF Jobs, Job
    <2>2. job' = [job EXCEPT ![w] = Job(at, d, job[w].count)]
      BY <1>1, <1>3, <2>1 DEF Moves
    <2>3. job[w].count \in 0..RetryCap
      BY <1>1 DEF Jobs
    <2>4. Works(w, d)
      BY <1>3, <2>2, <2>3 DEF Works
    <2> QED
      BY <1>1, <2>2, <2>4 DEF Job
  <1> QED
    BY <1>2, <1>3

\* The rename of an acknowledged entry.
LEMMA AckRenamesKeeps ==
    ASSUME IInv, NEW w \in Workers, AckRenames(w)
    PROVE  IInv'
  <1> DEFINE d == job[w].id
  <1>1. w \in Workers /\ d \in Deliveries /\ WorksOn(w, d)
    BY Named DEF AckRenames, Busy, Workers
  <1>2. d \in persisted \/ (job[w].at \in {"sending", "sent"} /\ w = d /\ w \notin Recoverers)
    BY <1>1, Entries
  <1>3. Works(w, d) /\ (IF json[d] # None THEN job'[w].at = "unlinking" /\ job'[w].id = d ELSE job'[w].at \notin Busy)
    BY <1>1, <1>2, Goes DEF AckRenames, Busy, disk, history, HasEntry
  <1>4. Types'
    BY <1>1, <1>3, WorkFacts DEF IInv, Types, AckRenames, Works, disk, history
  <1>5. Touches(d)
    BY <1>1 DEF AckRenames, Touches, IInv, Types, disk, history
  <1>6. (json'[d] # None => d \in persisted) /\ acked' \cup failed' \subseteq persisted
    BY <1>1, <1>2 DEF AckRenames, IInv, EntriesWereWritten, OnDisk, Types, disk, history
  <1>7. LeavesWell(w, d)
    <2>1. wire \in [Deliveries -> 0..2] /\ json \in [Deliveries -> 0..RetryCap \cup {None}]
      BY DEF IInv, Types
    <2> HIDE DEF d
    <2> QED
      BY <1>1, <1>2, <1>3, <2>1, Alone DEF AckRenames, LeavesWell, Busy, disk, history, d
  <1> QED
    BY <1>1, <1>3, <1>4, <1>5, <1>6, <1>7, WorkStep

\* A rename that fails.
LEMMA AckFailsKeeps ==
    ASSUME IInv, NEW w \in Workers, AckFails(w)
    PROVE  IInv'
  <1> DEFINE d == job[w].id
  <1>1. w \in Workers /\ d \in Deliveries /\ WorksOn(w, d)
    BY Named DEF AckFails, Busy, Workers
  <1>2. d \in persisted \/ (job[w].at \in {"sending", "sent"} /\ w = d /\ w \notin Recoverers)
    BY <1>1, Entries
  <1>3. Works(w, d) /\ (job'[w].at \in Busy => job'[w].id = d /\ job'[w].at \in {"reading"})
    BY <1>1, <1>2, Goes DEF AckFails, Busy, disk, history, HasEntry
  <1>4. Types'
    BY <1>1, <1>3, WorkFacts DEF IInv, Types, AckFails, Works, disk, history
  <1>5. Touches(d)
    BY <1>1 DEF AckFails, Touches, IInv, Types, disk, history
  <1>6. (json'[d] # None => d \in persisted) /\ acked' \cup failed' \subseteq persisted
    BY <1>1, <1>2 DEF AckFails, IInv, EntriesWereWritten, OnDisk, Types, disk, history
  <1>7. LeavesWell(w, d)
    <2>1. wire \in [Deliveries -> 0..2] /\ json \in [Deliveries -> 0..RetryCap \cup {None}]
      BY DEF IInv, Types
    <2> HIDE DEF d
    <2> QED
      BY <1>1, <1>2, <1>3, <2>1, Alone DEF AckFails, LeavesWell, Busy, disk, history, d
  <1> QED
    BY <1>1, <1>3, <1>4, <1>5, <1>6, <1>7, WorkStep

\* The removal of a marker.
LEMMA UnlinksKeeps ==
    ASSUME IInv, NEW w \in Workers, Unlinks(w)
    PROVE  IInv'
  <1> DEFINE d == job[w].id
  <1>1. w \in Workers /\ d \in Deliveries /\ WorksOn(w, d)
    BY Named DEF Unlinks, Busy, Workers
  <1>2. d \in persisted \/ (job[w].at \in {"sending", "sent"} /\ w = d /\ w \notin Recoverers)
    BY <1>1, Entries
  <1>3. Works(w, d) /\ job'[w].at \notin Busy
    BY <1>1, <1>2, Goes DEF Unlinks, Busy, disk, history, HasEntry
  <1>4. Types'
    BY <1>1, <1>3, WorkFacts DEF IInv, Types, Unlinks, Works, disk, history
  <1>5. Touches(d)
    BY <1>1 DEF Unlinks, Touches, IInv, Types, disk, history
  <1>6. (json'[d] # None => d \in persisted) /\ acked' \cup failed' \subseteq persisted
    BY <1>1, <1>2 DEF Unlinks, IInv, EntriesWereWritten, OnDisk, Types, disk, history
  <1>7. LeavesWell(w, d)
    <2>1. wire \in [Deliveries -> 0..2] /\ json \in [Deliveries -> 0..RetryCap \cup {None}]
      BY DEF IInv, Types
    <2> HIDE DEF d
    <2> QED
      BY <1>1, <1>2, <1>3, <2>1, Alone DEF Unlinks, LeavesWell, Busy, disk, history, d
  <1> QED
    BY <1>1, <1>3, <1>4, <1>5, <1>6, <1>7, WorkStep

\* The entry is read to be counted up.
LEMMA FailReadsKeeps ==
    ASSUME IInv, NEW w \in Workers, FailReads(w)
    PROVE  IInv'
  <1> DEFINE d == job[w].id
  <1>1. w \in Workers /\ d \in Deliveries /\ WorksOn(w, d)
    BY Named DEF FailReads, Busy, Workers
  <1>2. d \in persisted \/ (job[w].at \in {"sending", "sent"} /\ w = d /\ w \notin Recoverers)
    BY <1>1, Entries
  <1>3. Works(w, d) /\ (job'[w].at \in Busy => job'[w].id = d /\ job'[w].at = "updating")
    <2>1. CASE json[d] = None
      BY <1>1, <2>1, Goes DEF FailReads, disk, history
    <2>2. CASE json[d] # None
      <3>1. json[d] \in 0..RetryCap /\ job[w] \in Jobs /\ job \in [Workers -> Jobs] /\ job[w].id = d
        BY <1>1, <2>2 DEF IInv, Types
      <3>2. job' = [job EXCEPT ![w] = Job("updating", d, json[d])]
        BY <2>2 DEF FailReads
      <3> QED
        BY <1>1, <1>2, <3>1, <3>2 DEF FailReads, Works, Busy, Job, disk, history
    <2> QED
      BY <2>1, <2>2
  <1>4. Types'
    BY <1>1, <1>3, WorkFacts DEF IInv, Types, FailReads, Works, disk, history
  <1>5. Touches(d)
    BY <1>1 DEF FailReads, Touches, IInv, Types, disk, history
  <1>6. (json'[d] # None => d \in persisted) /\ acked' \cup failed' \subseteq persisted
    BY <1>1, <1>2 DEF FailReads, IInv, EntriesWereWritten, OnDisk, Types, disk, history
  <1>7. LeavesWell(w, d)
    <2>1. wire \in [Deliveries -> 0..2] /\ json \in [Deliveries -> 0..RetryCap \cup {None}]
      BY DEF IInv, Types
    <2> HIDE DEF d
    <2> QED
      BY <1>1, <1>2, <1>3, <2>1, Alone DEF FailReads, LeavesWell, Busy, disk, history, d
  <1> QED
    BY <1>1, <1>3, <1>4, <1>5, <1>6, <1>7, WorkStep

\* The entry is written anew.
LEMMA FailWritesKeeps ==
    ASSUME IInv, NEW w \in Workers, FailWrites(w)
    PROVE  IInv'
  <1> DEFINE d == job[w].id
  <1>1. w \in Workers /\ d \in Deliveries /\ WorksOn(w, d)
    BY Named DEF FailWrites, Busy, Workers
  <1>2. d \in persisted \/ (job[w].at \in {"sending", "sent"} /\ w = d /\ w \notin Recoverers)
    BY <1>1, Entries
  <1>3. Works(w, d) /\ job'[w].at \notin Busy
    BY <1>1, <1>2, Goes DEF FailWrites, Busy, disk, history, HasEntry
  <1>8. json' = [json EXCEPT ![d] = json'[d]] /\ json'[d] \in 0..RetryCap
    <2>1. job[w].count \in 0..RetryCap /\ json \in [Deliveries -> 0..RetryCap \cup {None}]
      BY DEF IInv, Types, Jobs
    <2>2. (IF job[w].count < RetryCap THEN job[w].count + 1 ELSE RetryCap) \in 0..RetryCap
      BY <2>1, DeliveryAssumption
    <2> QED
      BY <1>1, <2>1, <2>2 DEF FailWrites
  <1>4. Types'
    BY <1>1, <1>8, <1>3, WorkFacts DEF IInv, Types, FailWrites, Works, disk, history
  <1>5. Touches(d)
    BY <1>1 DEF FailWrites, Touches, IInv, Types, disk, history
  <1>6. (json'[d] # None => d \in persisted) /\ acked' \cup failed' \subseteq persisted
    BY <1>1, <1>2 DEF FailWrites, IInv, EntriesWereWritten, OnDisk, Types, disk, history
  <1>7. LeavesWell(w, d)
    <2>1. wire \in [Deliveries -> 0..2] /\ json \in [Deliveries -> 0..RetryCap \cup {None}]
      BY DEF IInv, Types
    <2>2. /\ job[w].at = "updating" /\ wire' = wire /\ acked' = acked /\ failed' = failed
          /\ aborted' = aborted /\ unnoticed' = unnoticed /\ cancelled' = cancelled /\ unrecorded' = unrecorded
      BY DEF FailWrites, history
    <2>3. json'[d] # None
      BY <1>8, DeliveryAssumption
    <2> HIDE DEF d
    <2> QED
      BY <1>1, <1>2, <1>3, <2>1, <2>2, <2>3, Alone DEF LeavesWell, Busy
  <1> QED
    BY <1>1, <1>3, <1>4, <1>5, <1>6, <1>7, WorkStep

\* The entry cannot be read or written.
LEMMA UpdateFailsKeeps ==
    ASSUME IInv, NEW w \in Workers, UpdateFails(w)
    PROVE  IInv'
  <1> DEFINE d == job[w].id
  <1>1. w \in Workers /\ d \in Deliveries /\ WorksOn(w, d)
    BY Named DEF UpdateFails, Busy, Workers
  <1>2. d \in persisted \/ (job[w].at \in {"sending", "sent"} /\ w = d /\ w \notin Recoverers)
    BY <1>1, Entries
  <1>3. Works(w, d) /\ job'[w].at \notin Busy
    BY <1>1, <1>2, Goes DEF UpdateFails, Busy, disk, history, HasEntry
  <1>4. Types'
    BY <1>1, <1>3, WorkFacts DEF IInv, Types, UpdateFails, Works, disk, history
  <1>5. Touches(d)
    BY <1>1 DEF UpdateFails, Touches, IInv, Types, disk, history
  <1>6. (json'[d] # None => d \in persisted) /\ acked' \cup failed' \subseteq persisted
    BY <1>1, <1>2 DEF UpdateFails, IInv, EntriesWereWritten, OnDisk, Types, disk, history
  <1>7. LeavesWell(w, d)
    <2>1. wire \in [Deliveries -> 0..2] /\ json \in [Deliveries -> 0..RetryCap \cup {None}]
      BY DEF IInv, Types
    <2> HIDE DEF d
    <2> QED
      BY <1>1, <1>2, <1>3, <2>1, Alone DEF UpdateFails, LeavesWell, Busy, disk, history, d
  <1> QED
    BY <1>1, <1>3, <1>4, <1>5, <1>6, <1>7, WorkStep

\* The entry is set aside.
LEMMA MovesToFailedKeeps ==
    ASSUME IInv, NEW w \in Workers, MovesToFailed(w)
    PROVE  IInv'
  <1> DEFINE d == job[w].id
  <1>1. w \in Workers /\ d \in Deliveries /\ WorksOn(w, d)
    BY Named DEF MovesToFailed, Busy, Workers
  <1>2. d \in persisted \/ (job[w].at \in {"sending", "sent"} /\ w = d /\ w \notin Recoverers)
    BY <1>1, Entries
  <1>3. Works(w, d) /\ job'[w].at \notin Busy
    BY <1>1, <1>2, Goes DEF MovesToFailed, Busy, disk, history, HasEntry
  <1>4. Types'
    BY <1>1, <1>3, WorkFacts DEF IInv, Types, MovesToFailed, Works, disk, history
  <1>5. Touches(d)
    BY <1>1 DEF MovesToFailed, Touches, IInv, Types, disk, history
  <1>6. (json'[d] # None => d \in persisted) /\ acked' \cup failed' \subseteq persisted
    BY <1>1, <1>2 DEF MovesToFailed, IInv, EntriesWereWritten, OnDisk, Types, disk, history
  <1>7. LeavesWell(w, d)
    <2>1. wire \in [Deliveries -> 0..2] /\ json \in [Deliveries -> 0..RetryCap \cup {None}]
      BY DEF IInv, Types
    <2> HIDE DEF d
    <2> QED
      BY <1>1, <1>2, <1>3, <2>1, Alone DEF MovesToFailed, LeavesWell, Busy, disk, history, d
  <1> QED
    BY <1>1, <1>3, <1>4, <1>5, <1>6, <1>7, WorkStep

\* It cannot be set aside.
LEMMA MoveFailsKeeps ==
    ASSUME IInv, NEW w \in Workers, MoveFails(w)
    PROVE  IInv'
  <1> DEFINE d == job[w].id
  <1>1. w \in Workers /\ d \in Deliveries /\ WorksOn(w, d)
    BY Named DEF MoveFails, Busy, Workers
  <1>2. d \in persisted \/ (job[w].at \in {"sending", "sent"} /\ w = d /\ w \notin Recoverers)
    BY <1>1, Entries
  <1>3. Works(w, d) /\ job'[w].at \notin Busy
    BY <1>1, <1>2, Goes DEF MoveFails, Busy, disk, history, HasEntry
  <1>4. Types'
    BY <1>1, <1>3, WorkFacts DEF IInv, Types, MoveFails, Works, disk, history
  <1>5. Touches(d)
    BY <1>1 DEF MoveFails, Touches, IInv, Types, disk, history
  <1>6. (json'[d] # None => d \in persisted) /\ acked' \cup failed' \subseteq persisted
    BY <1>1, <1>2 DEF MoveFails, IInv, EntriesWereWritten, OnDisk, Types, disk, history
  <1>7. LeavesWell(w, d)
    <2>1. wire \in [Deliveries -> 0..2] /\ json \in [Deliveries -> 0..RetryCap \cup {None}]
      BY DEF IInv, Types
    <2> HIDE DEF d
    <2> QED
      BY <1>1, <1>2, <1>3, <2>1, Alone DEF MoveFails, LeavesWell, Busy, disk, history, d
  <1> QED
    BY <1>1, <1>3, <1>4, <1>5, <1>6, <1>7, WorkStep

\* The payloads go out.
LEMMA TransmitsKeeps ==
    ASSUME IInv, NEW w \in Workers, Transmits(w)
    PROVE  IInv'
  <1> DEFINE d == job[w].id
  <1>1. w \in Workers /\ d \in Deliveries /\ WorksOn(w, d)
    BY Named DEF Transmits, Busy, Workers
  <1>2. d \in persisted \/ (job[w].at \in {"sending", "sent"} /\ w = d /\ w \notin Recoverers)
    BY <1>1, Entries
  <1>3. Works(w, d) /\ job'[w].at = "sent" /\ job'[w].id = d
    BY <1>1, <1>2, Goes DEF Transmits, Busy, disk, history, HasEntry
  <1>4. Types'
    BY <1>1, <1>3, WorkFacts DEF IInv, Types, Transmits, Works, disk, history
  <1>5. Touches(d)
    BY <1>1 DEF Transmits, Touches, IInv, Types, disk, history
  <1>6. (json'[d] # None => d \in persisted) /\ acked' \cup failed' \subseteq persisted
    BY <1>1, <1>2 DEF Transmits, IInv, EntriesWereWritten, OnDisk, Types, disk, history
  <1>7. LeavesWell(w, d)
    <2>1. wire \in [Deliveries -> 0..2] /\ json \in [Deliveries -> 0..RetryCap \cup {None}]
      BY DEF IInv, Types
    <2> HIDE DEF d
    <2> QED
      BY <1>1, <1>2, <1>3, <2>1, Alone DEF Transmits, LeavesWell, Busy, disk, history, d
  <1> QED
    BY <1>1, <1>3, <1>4, <1>5, <1>6, <1>7, WorkStep

\* The answer comes.
LEMMA SendSucceedsKeeps ==
    ASSUME IInv, NEW w \in Workers, SendSucceeds(w)
    PROVE  IInv'
  <1> DEFINE d == job[w].id
  <1>1. w \in Workers /\ d \in Deliveries /\ WorksOn(w, d)
    BY Named DEF SendSucceeds, Busy, Workers
  <1>2. d \in persisted \/ (job[w].at \in {"sending", "sent"} /\ w = d /\ w \notin Recoverers)
    BY <1>1, Entries
  <1>3. Works(w, d) /\ (IF d \in persisted THEN job'[w].at = "acking" /\ job'[w].id = d ELSE job'[w].at \notin Busy)
    <2>1. HasEntry(w) <=> d \in persisted
      BY <1>1, EntryOf
    <2>2. scan' = scan /\ persisted' = persisted /\ raced' = raced
      BY DEF SendSucceeds, history
    <2>3. IF d \in persisted THEN Moves(w, "acking") ELSE Over(w)
      BY <2>1 DEF SendSucceeds
    <2> QED
      BY <1>1, <2>2, <2>3, Goes DEF Busy
  <1>4. Types'
    BY <1>1, <1>3, WorkFacts DEF IInv, Types, SendSucceeds, Works, disk, history
  <1>5. Touches(d)
    BY <1>1 DEF SendSucceeds, Touches, IInv, Types, disk, history
  <1>6. (json'[d] # None => d \in persisted) /\ acked' \cup failed' \subseteq persisted
    BY <1>1, <1>2 DEF SendSucceeds, IInv, EntriesWereWritten, OnDisk, Types, disk, history
  <1>7. LeavesWell(w, d)
    <2>1. wire \in [Deliveries -> 0..2] /\ json \in [Deliveries -> 0..RetryCap \cup {None}]
      BY DEF IInv, Types
    <2> HIDE DEF d
    <2> QED
      BY <1>1, <1>2, <1>3, <2>1, Alone DEF SendSucceeds, LeavesWell, Busy, disk, history, d
  <1> QED
    BY <1>1, <1>3, <1>4, <1>5, <1>6, <1>7, WorkStep

\* A failure nobody is told of.
LEMMA FailsUnnoticedKeeps ==
    ASSUME IInv, NEW w \in Workers, FailsUnnoticed(w)
    PROVE  IInv'
  <1> DEFINE d == job[w].id
  <1>1. w \in Workers /\ d \in Deliveries /\ WorksOn(w, d)
    BY Named DEF FailsUnnoticed, Busy, Workers
  <1>2. d \in persisted \/ (job[w].at \in {"sending", "sent"} /\ w = d /\ w \notin Recoverers)
    BY <1>1, Entries
  <1>3. Works(w, d) /\ (IF d \in persisted THEN job'[w].at = "acking" /\ job'[w].id = d ELSE job'[w].at \notin Busy)
    <2>1. HasEntry(w) <=> d \in persisted
      BY <1>1, EntryOf
    <2>2. scan' = scan /\ persisted' = persisted /\ raced' = raced
      BY DEF FailsUnnoticed, history
    <2>3. IF d \in persisted THEN Moves(w, "acking") ELSE Over(w)
      BY <2>1 DEF FailsUnnoticed
    <2> QED
      BY <1>1, <2>2, <2>3, Goes DEF Busy
  <1>4. Types'
    BY <1>1, <1>3, WorkFacts DEF IInv, Types, FailsUnnoticed, Works, disk, history
  <1>5. Touches(d)
    BY <1>1 DEF FailsUnnoticed, Touches, IInv, Types, disk, history
  <1>6. (json'[d] # None => d \in persisted) /\ acked' \cup failed' \subseteq persisted
    BY <1>1, <1>2 DEF FailsUnnoticed, IInv, EntriesWereWritten, OnDisk, Types, disk, history
  <1>7. LeavesWell(w, d)
    <2>1. wire \in [Deliveries -> 0..2] /\ json \in [Deliveries -> 0..RetryCap \cup {None}]
      BY DEF IInv, Types
    <2> HIDE DEF d
    <2> QED
      BY <1>1, <1>2, <1>3, <2>1, Alone DEF FailsUnnoticed, LeavesWell, Busy, disk, history, d
  <1> QED
    BY <1>1, <1>3, <1>4, <1>5, <1>6, <1>7, WorkStep

\* A call that is left with nothing to send.
LEMMA SendsNothingKeeps ==
    ASSUME IInv, NEW w \in Workers, SendsNothing(w)
    PROVE  IInv'
  <1> DEFINE d == job[w].id
  <1>1. w \in Workers /\ d \in Deliveries /\ WorksOn(w, d)
    BY Named DEF SendsNothing, Busy, Workers
  <1>2. d \in persisted \/ (job[w].at \in {"sending", "sent"} /\ w = d /\ w \notin Recoverers)
    BY <1>1, Entries
  <1>3. Works(w, d) /\ (IF d \in persisted THEN job'[w].at = "acking" /\ job'[w].id = d ELSE job'[w].at \notin Busy)
    <2>1. HasEntry(w) <=> d \in persisted
      BY <1>1, EntryOf
    <2>2. scan' = scan /\ persisted' = persisted /\ raced' = raced
      BY DEF SendsNothing, history
    <2>3. IF d \in persisted THEN Moves(w, "acking") ELSE Over(w)
      BY <2>1 DEF SendsNothing
    <2> QED
      BY <1>1, <2>2, <2>3, Goes DEF Busy
  <1>4. Types'
    BY <1>1, <1>3, WorkFacts DEF IInv, Types, SendsNothing, Works, disk, history
  <1>5. Touches(d)
    BY <1>1 DEF SendsNothing, Touches, IInv, Types, disk, history
  <1>6. (json'[d] # None => d \in persisted) /\ acked' \cup failed' \subseteq persisted
    BY <1>1, <1>2 DEF SendsNothing, IInv, EntriesWereWritten, OnDisk, Types, disk, history
  <1>7. LeavesWell(w, d)
    <2>1. wire \in [Deliveries -> 0..2] /\ json \in [Deliveries -> 0..RetryCap \cup {None}]
      BY DEF IInv, Types
    <2> HIDE DEF d
    <2> QED
      BY <1>1, <1>2, <1>3, <2>1, Alone DEF SendsNothing, LeavesWell, Busy, disk, history, d
  <1> QED
    BY <1>1, <1>3, <1>4, <1>5, <1>6, <1>7, WorkStep

\* A failure.
LEMMA SendThrowsKeeps ==
    ASSUME IInv, NEW w \in Workers, SendThrows(w)
    PROVE  IInv'
  <1> DEFINE d == job[w].id
  <1>1. w \in Workers /\ d \in Deliveries /\ WorksOn(w, d)
    BY Named DEF SendThrows, Busy, Workers
  <1>2. d \in persisted \/ (job[w].at \in {"sending", "sent"} /\ w = d /\ w \notin Recoverers)
    BY <1>1, Entries
  <1>3. Works(w, d) /\ (job'[w].at \in Busy => job'[w].id = d /\ job'[w].at \in {"reading", "moving"})
    BY <1>1, <1>2, Goes DEF SendThrows, Busy, disk, history, HasEntry
  <1>4. Types'
    BY <1>1, <1>3, WorkFacts DEF IInv, Types, SendThrows, Works, disk, history
  <1>5. Touches(d)
    BY <1>1 DEF SendThrows, Touches, IInv, Types, disk, history
  <1>6. (json'[d] # None => d \in persisted) /\ acked' \cup failed' \subseteq persisted
    BY <1>1, <1>2 DEF SendThrows, IInv, EntriesWereWritten, OnDisk, Types, disk, history
  <1>7. LeavesWell(w, d)
    <2>1. wire \in [Deliveries -> 0..2] /\ json \in [Deliveries -> 0..RetryCap \cup {None}]
      BY DEF IInv, Types
    <2> HIDE DEF d
    <2> QED
      BY <1>1, <1>2, <1>3, <2>1, Alone DEF SendThrows, LeavesWell, Busy, disk, history, d
  <1> QED
    BY <1>1, <1>3, <1>4, <1>5, <1>6, <1>7, WorkStep

\* The caller gives up.
LEMMA AbortsKeeps ==
    ASSUME IInv, NEW w \in Deliveries, Aborts(w)
    PROVE  IInv'
  <1> DEFINE d == job[w].id
  <1>1. w \in Workers /\ d \in Deliveries /\ WorksOn(w, d)
    BY Named DEF Aborts, Busy, Workers
  <1>2. d \in persisted \/ (job[w].at \in {"sending", "sent"} /\ w = d /\ w \notin Recoverers)
    BY <1>1, Entries
  <1>3. Works(w, d) /\ (IF d \in persisted THEN job'[w].at = "acking" /\ job'[w].id = d ELSE job'[w].at \notin Busy)
    <2>1. HasEntry(w) <=> d \in persisted
      BY <1>1, EntryOf
    <2>2. scan' = scan /\ persisted' = persisted /\ raced' = raced
      BY DEF Aborts, history
    <2>3. IF d \in persisted THEN Moves(w, "acking") ELSE Over(w)
      BY <2>1 DEF Aborts
    <2> QED
      BY <1>1, <2>2, <2>3, Goes DEF Busy
  <1>4. Types'
    BY <1>1, <1>3, WorkFacts DEF IInv, Types, Aborts, Works, disk, history
  <1>5. Touches(d)
    BY <1>1 DEF Aborts, Touches, IInv, Types, disk, history
  <1>6. (json'[d] # None => d \in persisted) /\ acked' \cup failed' \subseteq persisted
    BY <1>1, <1>2 DEF Aborts, IInv, EntriesWereWritten, OnDisk, Types, disk, history
  <1>7. LeavesWell(w, d)
    <2>1. wire \in [Deliveries -> 0..2] /\ json \in [Deliveries -> 0..RetryCap \cup {None}]
      BY DEF IInv, Types
    <2>2. /\ job[w].at \in {"sending", "sent"} /\ json' = json /\ failed' = failed /\ wire' = wire
          /\ acked' = acked /\ unnoticed' = unnoticed /\ cancelled' = cancelled /\ unrecorded' = unrecorded
          /\ aborted' = aborted \cup {d}
      BY <1>1, DeliveryAssumption DEF Aborts, disk, IInv, JobsAreNamed, WorksOn, Busy
    <2> HIDE DEF d
    <2>3. CASE d \in persisted
      BY <1>1, <1>3, <2>1, <2>2, <2>3, Alone DEF LeavesWell, Busy
    <2>4. CASE d \notin persisted
      BY <1>1, <1>3, <2>1, <2>2, <2>4, Alone DEF LeavesWell, Busy
    <2> QED
      BY <2>3, <2>4
  <1> QED
    BY <1>1, <1>3, <1>4, <1>5, <1>6, <1>7, WorkStep

\* The call: nobody has had to do with the delivery before.
LEMMA EnqueueKeeps ==
    ASSUME IInv, NEW d \in Deliveries, Enqueue(d)
    PROVE  IInv'
  <1> USE DeliveryAssumption
  <1>1. /\ d \notin persisted /\ wire[d] = 0 /\ json[d] = None /\ d \notin acked \cup failed
        /\ d \in Workers /\ d \notin Recoverers /\ job[d].at = "off" /\ job[d].id = None
    BY DEF Enqueue, IInv, Untouched, EntriesWereWritten, OnDisk, Workers, JobsAreNamed
  <1>2. \A w \in Workers : ~Holds(w, d)
    <2> SUFFICES ASSUME NEW w \in Workers, Holds(w, d) PROVE FALSE
      OBVIOUS
    <2>1. ~WorksOn(w, d)
      BY <1>1, WorkersAre DEF IInv, EntriesWereWritten, WorksOn
    <2> QED
      BY <1>1, <2>1 DEF Holds, IInv, EntriesWereWritten, Loaded
  <1>3. /\ job' = [job EXCEPT ![d] = Job("sending", d, 0)] /\ Job("sending", d, 0) \in Jobs
        /\ json' \in [Deliveries -> 0..RetryCap \cup {None}]
        /\ \A e \in Deliveries \ {d} : json'[e] = json[e]
        /\ persisted' \in {persisted, persisted \cup {d}}
        /\ json'[d] # None <=> d \in persisted'
        /\ scan' = scan /\ marker' = marker /\ failed' = failed /\ legacy' = legacy /\ wire' = wire /\ acked' = acked
        /\ aborted' = aborted /\ unnoticed' = unnoticed /\ cancelled' = cancelled /\ unrecorded' = unrecorded /\ raced' = raced
    BY <1>1 DEF Enqueue, Job, Jobs, Busy, IInv, Types
  <1>4. /\ job' \in [Workers -> Jobs] /\ \A w \in Workers \ {d} : job'[w] = job[w]
        /\ job'[d].at = "sending" /\ job'[d].id = d
    BY <1>1, <1>3 DEF Job, IInv, Types
  <1>5. Types'
    BY <1>3, <1>4 DEF IInv, Types
  <1>6. \A w \in Workers, e \in Deliveries : (w # d \/ e # d) => Holds(w, e)' = Holds(w, e)
    BY <1>1, <1>3, <1>4 DEF Holds, WorksOn
  <1>7. JobsAreNamed'
    BY <1>4 DEF IInv, JobsAreNamed
  <1>8. EntriesWereWritten'
    <2>1. \A w \in Workers, e \in Deliveries : (w # d \/ e # d) => WorksOn(w, e)' = WorksOn(w, e)
      BY <1>1, <1>4 DEF WorksOn, Busy
    <2>2. OnDisk' \cup failed' \cup acked' \subseteq persisted'
      BY <1>3 DEF OnDisk, IInv, EntriesWereWritten
    <2>3. \A r \in Recoverers : Loaded(r)' \cup scan'[r].unread \subseteq persisted'
      BY <1>3 DEF Loaded, IInv, EntriesWereWritten
    <2> QED
      BY <1>1, <1>3, <1>4, <2>1, <2>2, <2>3 DEF IInv, EntriesWereWritten
  <1>9. Untouched'
    BY <1>3, <1>4 DEF IInv, Untouched, Workers
  <1>10. TakenOnce' /\ MigratesItsOwn'
    BY <1>1, <1>3, <1>4 DEF IInv, TakenOnce, MigratesItsOwn, WorksOn, Workers
  <1>11. OneHolder'
    BY <1>2, <1>3, <1>6 DEF IInv, OneHolder
  <1>12. SentOnce'
    <2> SUFFICES ASSUME NEW e \in Deliveries, e \notin raced \cup unrecorded, wire[e] > 0
                 PROVE  /\ wire[e] = 1
                        /\ \A w \in Workers : Holds(w, e)' =>
                             job'[w].id = e /\ job'[w].at \in {"sent", "acking", "unlinking"}
                        /\ json'[e] # None =>
                             \E w \in Workers : job'[w].id = e /\ job'[w].at \in {"sent", "acking"}
      BY <1>3 DEF SentOnce
    <2>1. e # d
      BY <1>1
    <2>2. /\ wire[e] = 1
          /\ \A w \in Workers : Holds(w, e) => job[w].id = e /\ job[w].at \in {"sent", "acking", "unlinking"}
          /\ json[e] # None => \E w \in Workers : job[w].id = e /\ job[w].at \in {"sent", "acking"}
      BY DEF IInv, SentOnce
    <2>3. \A w \in Workers : job[w].id = e => job'[w] = job[w]
      BY <1>1, <1>4
    <2> QED
      BY <1>3, <1>6, <2>1, <2>2, <2>3
  <1>13. SettledIsOver'
    <2> SUFFICES ASSUME NEW e \in Deliveries, e \notin raced, e \in acked \cup failed
                 PROVE  json'[e] = None /\ \A w \in Workers : Holds(w, e)' =>
                             job'[w].id = e /\ job'[w].at = "unlinking"
      BY <1>3, <1>5 DEF SettledIsOver, Types
    <2>1. e # d
      BY <1>1
    <2>2. json[e] = None /\ \A w \in Workers : Holds(w, e) => job[w].id = e /\ job[w].at = "unlinking"
      BY DEF IInv, SettledIsOver
    <2> QED
      BY <1>1, <1>3, <1>4, <1>6, <2>1, <2>2
  <1>14. AckHasReason'
    BY <1>3, <1>4 DEF IInv, AckHasReason
  <1>15. NothingLost'
    <2> SUFFICES ASSUME NEW e \in persisted'
                 PROVE  json'[e] # None \/ e \in failed \cup aborted \cup unnoticed \cup cancelled \/ wire[e] > 0
      BY <1>3, <1>5 DEF NothingLost, OnDisk, Types
    <2>1. CASE e = d
      BY <1>3, <2>1
    <2>2. CASE e # d
      BY <1>3, <1>5, <2>2 DEF IInv, NothingLost, OnDisk, Types
    <2> QED
      BY <2>1, <2>2
  <1> QED
    BY <1>5, <1>7, <1>8, <1>9, <1>10, <1>11, <1>12, <1>13, <1>14, <1>15 DEF IInv

-----------------------------------------------------------------------------
(* The scans.                                                               *)

\* A step of a scan between two entries, which takes up only what it has loaded.
Scans(r) ==
    /\ job[r].at \in {"off", "loading", "migrating", "choosing"}
    /\ \A w \in Workers \ {r} : job'[w] = job[w]
    /\ json' = json /\ failed' = failed /\ history' = history
    /\ \A q \in Recoverers \ {r} : scan'[q] = scan[q]
    /\ scan'[r].unread \subseteq persisted
    /\ \A d \in Deliveries : scan'[r].loaded[d] # None => scan[r].loaded[d] # None
    /\ \/ job'[r].at \in {"off", "loading", "choosing"} /\ job'[r].id = None
       \/ /\ job'[r].at \in {"sending", "moving", "reading"} /\ job'[r].id \in Deliveries
          /\ scan[r].loaded[job'[r].id] # None /\ scan'[r].loaded[job'[r].id] = None

\* Such a step keeps the invariant.
LEMMA ScanStep ==
    ASSUME IInv, NEW r \in Recoverers, Scans(r), Types'
    PROVE  IInv'
  <1> USE DeliveryAssumption
  <1>1. /\ json' = json /\ failed' = failed /\ wire' = wire /\ persisted' = persisted
        /\ acked' = acked /\ aborted' = aborted /\ unnoticed' = unnoticed /\ cancelled' = cancelled
        /\ unrecorded' = unrecorded /\ raced' = raced
    BY DEF Scans, history
  <1>2. r \in Workers /\ r \notin Deliveries
    BY DEF Workers
  <1>3. \A w \in Workers \ {r} : job'[w] = job[w]
    BY DEF Scans
  <1>4. \A w \in Workers, e \in Deliveries : Holds(w, e)' => Holds(w, e)
    <2> SUFFICES ASSUME NEW w \in Workers, NEW e \in Deliveries, Holds(w, e)' PROVE Holds(w, e)
      OBVIOUS
    <2>1. CASE w # r
      BY <1>3, <2>1 DEF Holds, WorksOn, Scans
    <2>2. CASE w = r
      BY <2>2 DEF Holds, WorksOn, Scans, Busy
    <2> QED
      BY <2>1, <2>2
  <1>5. JobsAreNamed'
    <2>1. /\ job'[r].at \in {"off", "loading", "choosing"} <=> job'[r].id = None
          /\ job'[r].at # "over"
      BY DEF Scans
    <2> QED
      BY <1>2, <1>3, <2>1 DEF IInv, JobsAreNamed
  <1>6. EntriesWereWritten'
    <2>1. \A w \in Workers, e \in Deliveries :
             WorksOn(w, e)' /\ (w \in Recoverers \/ job'[w].at \notin {"sending", "sent"})
             => e \in persisted
      <3> SUFFICES ASSUME NEW w \in Workers, NEW e \in Deliveries, WorksOn(w, e)',
                          w \in Recoverers \/ job'[w].at \notin {"sending", "sent"}
                   PROVE  e \in persisted
        OBVIOUS
      <3>1. CASE w # r
        BY <1>3, <3>1 DEF WorksOn, IInv, EntriesWereWritten
      <3>2. CASE w = r
        BY <3>2 DEF WorksOn, Scans, Busy, IInv, EntriesWereWritten, Loaded
      <3> QED
        BY <3>1, <3>2
    <2>2. \A q \in Recoverers : Loaded(q)' \cup scan'[q].unread \subseteq persisted
      <3> SUFFICES ASSUME NEW q \in Recoverers
                   PROVE  Loaded(q)' \cup scan'[q].unread \subseteq persisted
        OBVIOUS
      <3>1. CASE q # r
        BY <3>1 DEF Scans, Loaded, IInv, EntriesWereWritten
      <3>2. CASE q = r
        BY <3>2 DEF Scans, Loaded, IInv, EntriesWereWritten
      <3> QED
        BY <3>1, <3>2
    <2> QED
      BY <1>1, <2>1, <2>2 DEF IInv, EntriesWereWritten, OnDisk
  <1>7. Untouched'
    BY <1>1, <1>2, <1>3 DEF IInv, Untouched, Workers
  <1>8. TakenOnce' /\ MigratesItsOwn'
    BY <1>2, <1>3 DEF IInv, TakenOnce, MigratesItsOwn, WorksOn, Workers, Scans, Busy
  <1>9. OneHolder'
    BY <1>1, <1>4 DEF IInv, OneHolder
  <1>10. SentOnce'
    <2> SUFFICES ASSUME NEW e \in Deliveries, e \notin raced \cup unrecorded, wire[e] > 0
                 PROVE  /\ wire[e] = 1
                        /\ \A w \in Workers : Holds(w, e)' =>
                             job'[w].id = e /\ job'[w].at \in {"sent", "acking", "unlinking"}
                        /\ json[e] # None =>
                             \E w \in Workers : job'[w].id = e /\ job'[w].at \in {"sent", "acking"}
      BY <1>1 DEF SentOnce
    <2>1. /\ wire[e] = 1
          /\ \A w \in Workers : Holds(w, e) => job[w].id = e /\ job[w].at \in {"sent", "acking", "unlinking"}
          /\ json[e] # None => \E w \in Workers : job[w].id = e /\ job[w].at \in {"sent", "acking"}
      BY DEF IInv, SentOnce
    <2>2. \A w \in Workers : job[w].at \in Busy => job'[w] = job[w]
      BY <1>2, <1>3 DEF Scans, Busy
    <2> QED
      BY <1>4, <2>1, <2>2 DEF Busy
  <1>11. SettledIsOver'
    <2> SUFFICES ASSUME NEW e \in Deliveries, e \notin raced, e \in acked \cup failed
                 PROVE  json[e] = None /\ \A w \in Workers : Holds(w, e)' =>
                             job'[w].id = e /\ job'[w].at = "unlinking"
      BY <1>1 DEF SettledIsOver, IInv, Types
    <2>1. json[e] = None /\ \A w \in Workers : Holds(w, e) => job[w].id = e /\ job[w].at = "unlinking"
      BY DEF IInv, SettledIsOver
    <2>2. \A w \in Workers : job[w].at \in Busy => job'[w] = job[w]
      BY <1>2, <1>3 DEF Scans, Busy
    <2> QED
      BY <1>4, <2>1, <2>2 DEF Busy
  <1>12. AckHasReason'
    BY <1>1, <1>3 DEF IInv, AckHasReason, Scans
  <1>13. NothingLost'
    BY <1>1 DEF IInv, NothingLost, OnDisk
  <1> QED
    BY <1>5, <1>6, <1>7, <1>8, <1>9, <1>10, <1>11, <1>12, <1>13 DEF IInv

\* The least of the entries loaded is one of them.
LEMMA MinIsIn ==
    ASSUME NEW S \in SUBSET Nat, S # {}
    PROVE  Min(S) \in S
  <1>1. PICK x \in S : \A y \in S : ~ (<<y, x>> \in OpToRel(<, Nat))
    BY NatLessThanWellFounded, WFMin
  <1>2. \A y \in S : x =< y
    <2> SUFFICES ASSUME NEW y \in S, y < x PROVE FALSE
      OBVIOUS
    <2>1. <<y, x>> \in OpToRel(<, Nat)
      BY DEF OpToRel
    <2> QED
      BY <1>1, <2>1
  <1> QED
    BY <1>2 DEF Min

\* The change of one scan's job, and of what it has loaded.
LEMMA ScanMoves ==
    ASSUME IInv, NEW r \in Recoverers, NEW j \in Jobs, job' = [job EXCEPT ![r] = j]
    PROVE  /\ job' \in [Workers -> Jobs] /\ job'[r] = j /\ \A w \in Workers \ {r} : job'[w] = job[w]
  BY DEF IInv, Types, Workers

\* The change of one scan's own record.
LEMMA ScanChanges ==
    ASSUME IInv, NEW r \in Recoverers, NEW s \in ScanStates, scan' = [scan EXCEPT ![r] = s]
    PROVE  /\ scan' \in [Recoverers -> ScanStates] /\ scan'[r] = s
           /\ \A q \in Recoverers \ {r} : scan'[q] = scan[q]
  BY DEF IInv, Types

\* What a scan has gone on with is loaded no longer.
LEMMA Forgets ==
    ASSUME IInv, NEW r \in Recoverers, NEW d \in Deliveries, scan' = Forget(r, d)
    PROVE  /\ scan' \in [Recoverers -> ScanStates] /\ \A q \in Recoverers \ {r} : scan'[q] = scan[q]
           /\ scan'[r].unread = scan[r].unread /\ scan'[r].loaded[d] = None
           /\ \A e \in Deliveries \ {d} : scan'[r].loaded[e] = scan[r].loaded[e]
  <1> DEFINE f == [scan[r].loaded EXCEPT ![d] = None]
             s == Scan(scan[r].unread, f, TRUE, scan[r].late)
  <1>1. /\ scan[r].unread \in SUBSET Deliveries /\ scan[r].late \in BOOLEAN
        /\ scan[r].loaded \in [Deliveries -> 0..RetryCap \cup {None}]
    BY DEF IInv, Types, ScanStates
  <1>2. /\ f \in [Deliveries -> 0..RetryCap \cup {None}] /\ f[d] = None
        /\ \A e \in Deliveries \ {d} : f[e] = scan[r].loaded[e]
    BY <1>1
  <1>3. scan' = [scan EXCEPT ![r] = s]
    BY DEF Forget
  <1> HIDE DEF f
  <1>4. s \in ScanStates /\ s.unread = scan[r].unread /\ s.loaded = f
    BY <1>1, <1>2 DEF Scan, ScanStates
  <1> HIDE DEF s
  <1> QED
    BY <1>2, <1>3, <1>4, ScanChanges

\* A scan starts.
LEMMA ScanStartsKeeps ==
    ASSUME IInv, NEW r \in Recoverers, ScanStarts(r)
    PROVE  IInv'
  <1>1. Job("loading", None, 0) \in Jobs /\ Job("loading", None, 0).at = "loading"
        /\ Job("loading", None, 0).id = None
    BY DeliveryAssumption DEF Job, Jobs
  <1>2. job' = [job EXCEPT ![r] = Job("loading", None, 0)]
    BY DEF ScanStarts
  <1>3. /\ scan' \in [Recoverers -> ScanStates] /\ \A q \in Recoverers \ {r} : scan'[q] = scan[q]
        /\ scan'[r].unread = OnDisk /\ scan'[r].loaded = scan[r].loaded
    <2>1. scan' = [scan EXCEPT ![r] = [scan[r] EXCEPT !.unread = OnDisk]]
      BY DEF ScanStarts
    <2>2. OnDisk \in SUBSET Deliveries /\ scan[r] \in ScanStates
      BY DEF OnDisk, IInv, Types
    <2>3. /\ [scan[r] EXCEPT !.unread = OnDisk] \in ScanStates
          /\ [scan[r] EXCEPT !.unread = OnDisk].unread = OnDisk
          /\ [scan[r] EXCEPT !.unread = OnDisk].loaded = scan[r].loaded
      BY <2>2 DEF ScanStates
    <2> QED
      BY <2>1, <2>3, ScanChanges
  <1>4. Types'
    BY <1>1, <1>2, <1>3, ScanMoves DEF ScanStarts, IInv, Types, history
  <1>5. Scans(r)
    BY <1>1, <1>2, <1>3, ScanMoves DEF ScanStarts, Scans, IInv, EntriesWereWritten
  <1> QED
    BY <1>4, <1>5, ScanStep

\* A file is read, and what it says loaded.
LEMMA Reads ==
    ASSUME IInv, NEW r \in Recoverers, NEW d \in Deliveries, ScanReads(r, d)
    PROVE  /\ scan' \in [Recoverers -> ScanStates] /\ \A q \in Recoverers \ {r} : scan'[q] = scan[q]
           /\ scan'[r].unread = scan[r].unread \ {d} /\ scan'[r].loaded[d] = json[d]
           /\ \A e \in Deliveries \ {d} : scan'[r].loaded[e] = scan[r].loaded[e]
  <1> DEFINE f == [scan[r].loaded EXCEPT ![d] = json[d]]
             s == Scan(scan[r].unread \ {d}, f, scan[r].begun, scan[r].late)
  <1>1. /\ scan[r].unread \in SUBSET Deliveries /\ scan[r].late \in BOOLEAN
        /\ scan[r].begun \in BOOLEAN
        /\ scan[r].loaded \in [Deliveries -> 0..RetryCap \cup {None}]
    BY DEF IInv, Types, ScanStates
  <1>2. /\ f \in [Deliveries -> 0..RetryCap \cup {None}] /\ f[d] = json[d]
        /\ \A e \in Deliveries \ {d} : f[e] = scan[r].loaded[e]
    BY <1>1 DEF IInv, Types
  <1>3. scan' = [scan EXCEPT ![r] = s]
    BY DEF ScanReads
  <1> HIDE DEF f
  <1>4. s \in ScanStates /\ s.unread = scan[r].unread \ {d} /\ s.loaded = f
    BY <1>1, <1>2 DEF Scan, ScanStates
  <1> HIDE DEF s
  <1> QED
    BY <1>2, <1>3, <1>4, ScanChanges

\* The scan that reads an entry holds it from now on: alone, if nobody is at it.
LEMMA ScanReadsKeeps ==
    ASSUME IInv, NEW r \in Recoverers, NEW d \in Deliveries, ScanReads(r, d)
    PROVE  IInv'
  <1> USE DeliveryAssumption, Reads
  <1>1. /\ json' = json /\ marker' = marker /\ failed' = failed /\ legacy' = legacy /\ wire' = wire
        /\ persisted' = persisted /\ acked' = acked /\ aborted' = aborted
        /\ unnoticed' = unnoticed /\ cancelled' = cancelled /\ unrecorded' = unrecorded
        /\ raced' = (IF json[d] # None /\ AtIt(r, d) THEN raced \cup {d} ELSE raced)
        /\ job[r].at = "loading" /\ d \in persisted
    BY DEF ScanReads, disk, IInv, EntriesWereWritten
  <1>2. r \in Workers /\ r \notin Deliveries /\ \A e \in Deliveries : ~WorksOn(r, e)
    BY <1>1 DEF Workers, WorksOn, Busy
  <1>3. /\ job' \in [Workers -> Jobs] /\ \A w \in Workers \ {r} : job'[w] = job[w]
        /\ \/ job'[r] = job[r]
           \/ job'[r].at = "migrating" /\ job'[r].id = d /\ json[d] # None
    <2>1. CASE job' = job
      BY <2>1 DEF IInv, Types
    <2>2. CASE job' # job
      <3>1. json[d] \in 0..RetryCap /\ json[d] # None
        BY <2>2 DEF ScanReads, IInv, Types
      <3>2. job' = [job EXCEPT ![r] = Job("migrating", d, json[d])]
        BY <2>2 DEF ScanReads
      <3>3. /\ Job("migrating", d, json[d]) \in Jobs /\ Job("migrating", d, json[d]).id = d
            /\ Job("migrating", d, json[d]).at = "migrating"
        BY <3>1 DEF Job, Jobs
      <3> QED
        BY <3>1, <3>2, <3>3, ScanMoves
    <2> QED
      BY <2>1, <2>2
  <1>4. \A w \in Workers : job[w].at \in Busy \/ job'[w].at \in Busy => job'[w] = job[w]
    BY <1>1, <1>2, <1>3 DEF Busy
  <1>5. Types'
    BY <1>1, <1>3 DEF IInv, Types
  <1>6. \A w \in Workers, e \in Deliveries : WorksOn(w, e)' = WorksOn(w, e)
    BY <1>4 DEF WorksOn
  <1>7. \A w \in Workers, e \in Deliveries :
          Holds(w, e)' => Holds(w, e) \/ (w = r /\ e = d /\ json[d] # None)
    <2> SUFFICES ASSUME NEW w \in Workers, NEW e \in Deliveries, Holds(w, e)'
                 PROVE  Holds(w, e) \/ (w = r /\ e = d /\ json[d] # None)
      OBVIOUS
    <2>1. CASE w = r /\ e = d
      BY <1>2, <1>6, <2>1 DEF Holds
    <2>2. CASE w = r /\ e # d
      BY <1>2, <1>6, <2>2 DEF Holds
    <2>3. CASE w # r
      BY <1>6, <2>3 DEF Holds
    <2> QED
      BY <2>1, <2>2, <2>3
  <1>8. json[d] # None /\ d \notin raced' => \A w \in Workers \ {r} : ~Holds(w, d)
    BY <1>1 DEF AtIt, Holds, WorksOn, Busy
  <1>9. JobsAreNamed'
    BY <1>1, <1>2, <1>3 DEF IInv, JobsAreNamed
  <1>10. EntriesWereWritten'
    <2>1. \A q \in Recoverers : Loaded(q)' \cup scan'[q].unread \subseteq persisted
      <3> SUFFICES ASSUME NEW q \in Recoverers
                   PROVE  Loaded(q)' \cup scan'[q].unread \subseteq persisted
        OBVIOUS
      <3>1. Loaded(q) \cup scan[q].unread \subseteq persisted
        BY DEF IInv, EntriesWereWritten
      <3>2. CASE q # r
        BY <3>1, <3>2 DEF Loaded
      <3>3. CASE q = r
        <4>1. \A e \in Deliveries : scan'[r].loaded[e] # None => e \in persisted
          BY <1>1, <3>1, <3>3 DEF Loaded
        <4>2. scan'[r].unread \subseteq persisted
          BY <3>1, <3>3
        <4> QED
          BY <3>3, <4>1, <4>2 DEF Loaded
      <3> QED
        BY <3>2, <3>3
    <2>2. \A w \in Workers, e \in Deliveries :
             WorksOn(w, e)' /\ (w \in Recoverers \/ job'[w].at \notin {"sending", "sent"})
             => e \in persisted
      BY <1>1, <1>4, <1>6 DEF IInv, EntriesWereWritten, WorksOn
    <2> QED
      BY <1>1, <2>1, <2>2 DEF IInv, EntriesWereWritten, OnDisk
  <1>11. Untouched'
    BY <1>1, <1>2, <1>3 DEF IInv, Untouched, Workers
  <1>12. MigratesItsOwn'
    <2> SUFFICES ASSUME NEW q \in Recoverers, job'[q].at = "migrating"
                 PROVE  job'[q].id \in Deliveries /\ scan'[q].loaded[job'[q].id] # None
      BY DEF MigratesItsOwn
    <2>1. CASE q = r
      BY <1>1, <1>3, <2>1
    <2>2. CASE q # r
      <3>1. job'[q] = job[q]
        BY <1>3, <2>2 DEF Workers
      <3>2. scan'[q] = scan[q]
        BY <2>2
      <3> QED
        BY <3>1, <3>2 DEF IInv, MigratesItsOwn
    <2> QED
      BY <2>1, <2>2
  <1>13. TakenOnce'
    <2> SUFFICES ASSUME NEW q \in Recoverers, NEW e \in Deliveries, WorksOn(q, e)'
                 PROVE  scan'[q].loaded[e] = None
      BY DEF TakenOnce
    <2>1. WorksOn(q, e)
      BY <1>6 DEF Workers
    <2>2. q # r
      <3>1. ~WorksOn(r, e)
        BY <1>2
      <3> QED
        BY <2>1, <3>1
    <2>3. scan[q].loaded[e] = None
      BY <2>1 DEF IInv, TakenOnce
    <2> QED
      BY <2>2, <2>3
  <1>14. OneHolder'
    <2> SUFFICES ASSUME NEW e \in Deliveries \ raced', NEW v \in Workers, NEW w \in Workers,
                        Holds(v, e)', Holds(w, e)'
                 PROVE  v = w
      BY DEF OneHolder
    <2>1. e \notin raced
      BY <1>1
    <2>2. CASE e = d /\ json[d] # None
      BY <1>7, <1>8, <2>2
    <2>3. CASE e # d \/ json[d] = None
      BY <1>7, <2>1, <2>3 DEF IInv, OneHolder
    <2> QED
      BY <2>2, <2>3
  <1>15. SentOnce'
    <2> SUFFICES ASSUME NEW e \in Deliveries, e \notin raced' \cup unrecorded, wire[e] > 0
                 PROVE  /\ wire[e] = 1
                        /\ \A w \in Workers : Holds(w, e)' =>
                             job'[w].id = e /\ job'[w].at \in {"sent", "acking", "unlinking"}
                        /\ json[e] # None =>
                             \E w \in Workers : job'[w].id = e /\ job'[w].at \in {"sent", "acking"}
      BY <1>1 DEF SentOnce
    <2>1. /\ wire[e] = 1
          /\ \A w \in Workers : Holds(w, e) => job[w].id = e /\ job[w].at \in {"sent", "acking", "unlinking"}
          /\ json[e] # None => \E w \in Workers : job[w].id = e /\ job[w].at \in {"sent", "acking"}
      BY <1>1 DEF IInv, SentOnce
    <2>2. ~(e = d /\ json[d] # None)
      BY <1>1, <1>8, <2>1 DEF Holds, WorksOn, Busy
    <2> QED
      BY <1>4, <1>7, <2>1, <2>2 DEF Busy
  <1>16. SettledIsOver'
    <2> SUFFICES ASSUME NEW e \in Deliveries, e \notin raced', e \in acked \cup failed
                 PROVE  json[e] = None /\ \A w \in Workers : Holds(w, e)' =>
                             job'[w].id = e /\ job'[w].at = "unlinking"
      BY <1>1 DEF SettledIsOver, IInv, Types
    <2>1. json[e] = None /\ \A w \in Workers : Holds(w, e) => job[w].id = e /\ job[w].at = "unlinking"
      BY <1>1 DEF IInv, SettledIsOver
    <2> QED
      BY <1>4, <1>7, <2>1 DEF Busy
  <1>17. AckHasReason'
    BY <1>1, <1>4 DEF IInv, AckHasReason, Busy
  <1>18. NothingLost'
    BY <1>1 DEF IInv, NothingLost, OnDisk
  <1> QED
    BY <1>5, <1>9, <1>10, <1>11, <1>12, <1>13, <1>14, <1>15, <1>16, <1>17, <1>18 DEF IInv

\* The migrated entry is written: by the one that holds it, unless another is at it.
LEMMA MigratesKeeps ==
    ASSUME IInv, NEW r \in Recoverers, Migrates(r)
    PROVE  IInv'
  <1> DEFINE d == job[r].id
             n == job[r].count
  <1> USE DeliveryAssumption
  <1>1. /\ marker' = marker /\ failed' = failed /\ scan' = scan /\ wire' = wire
        /\ persisted' = persisted /\ acked' = acked /\ aborted' = aborted
        /\ unnoticed' = unnoticed /\ cancelled' = cancelled /\ unrecorded' = unrecorded
        /\ raced' = raced /\ legacy' = legacy \ {d} /\ job[r].at = "migrating"
    BY DEF Migrates, history
  <1>2. r \in Workers /\ r \notin Deliveries /\ d \in Deliveries /\ n \in 0..RetryCap
        /\ scan[r].loaded[d] # None /\ Holds(r, d)
    BY <1>1 DEF Workers, IInv, MigratesItsOwn, Types, Jobs, Holds
  <1>3. d \in persisted
    BY <1>2 DEF IInv, EntriesWereWritten, Loaded
  <1>4. /\ json' \in [Deliveries -> 0..RetryCap \cup {None}] /\ json'[d] # None
        /\ \A e \in Deliveries \ {d} : json'[e] = json[e]
    <2>1. json' = [json EXCEPT ![d] = n] /\ n # None
      BY <1>2 DEF Migrates
    <2>2. json \in [Deliveries -> 0..RetryCap \cup {None}]
      BY DEF IInv, Types
    <2> HIDE DEF d, n
    <2> QED
      BY <1>2, <2>1, <2>2
  <1>5. /\ job' \in [Workers -> Jobs] /\ \A w \in Workers \ {r} : job'[w] = job[w]
        /\ job'[r].at = "loading" /\ job'[r].id = None
    <2>1. Job("loading", None, 0) \in Jobs /\ Job("loading", None, 0).at = "loading"
          /\ Job("loading", None, 0).id = None
      BY DEF Job, Jobs
    <2>2. job' = [job EXCEPT ![r] = Job("loading", None, 0)]
      BY DEF Migrates
    <2> QED
      BY <2>1, <2>2, ScanMoves
  <1> HIDE DEF d, n
  <1>6. \A w \in Workers : job[w].at \in Busy \/ job'[w].at \in Busy => job'[w] = job[w]
    BY <1>1, <1>5 DEF Busy
  <1>7. \A w \in Workers, e \in Deliveries :
           WorksOn(w, e)' = WorksOn(w, e) /\ Holds(w, e)' = Holds(w, e)
    BY <1>1, <1>6 DEF WorksOn, Holds
  <1>8. Types' /\ JobsAreNamed'
    BY <1>1, <1>2, <1>4, <1>5 DEF IInv, Types, JobsAreNamed
  <1>9. EntriesWereWritten'
    <2>1. OnDisk' \cup failed' \cup acked' \subseteq persisted
      BY <1>1, <1>3, <1>4 DEF IInv, EntriesWereWritten, OnDisk
    <2>2. \A w \in Workers, e \in Deliveries :
             WorksOn(w, e)' /\ (w \in Recoverers \/ job'[w].at \notin {"sending", "sent"})
             => e \in persisted
      BY <1>6, <1>7 DEF IInv, EntriesWereWritten, WorksOn
    <2> QED
      BY <1>1, <2>1, <2>2 DEF IInv, EntriesWereWritten, Loaded
  <1>10. Untouched' /\ TakenOnce' /\ MigratesItsOwn' /\ OneHolder'
    <2>1. Untouched'
      BY <1>1, <1>2, <1>5 DEF IInv, Untouched, Workers
    <2>2. TakenOnce'
      BY <1>1, <1>7 DEF IInv, TakenOnce, Workers
    <2>3. MigratesItsOwn'
      BY <1>1, <1>5 DEF IInv, MigratesItsOwn, Workers
    <2>4. OneHolder'
      BY <1>1, <1>7 DEF IInv, OneHolder
    <2> QED
      BY <2>1, <2>2, <2>3, <2>4
  <1>11. SentOnce'
    <2> SUFFICES ASSUME NEW e \in Deliveries, e \notin raced \cup unrecorded, wire[e] > 0
                 PROVE  /\ wire[e] = 1
                        /\ \A w \in Workers : Holds(w, e) =>
                             job'[w].id = e /\ job'[w].at \in {"sent", "acking", "unlinking"}
                        /\ json'[e] # None =>
                             \E w \in Workers : job'[w].id = e /\ job'[w].at \in {"sent", "acking"}
      BY <1>1, <1>7 DEF SentOnce
    <2>1. /\ wire[e] = 1
          /\ \A w \in Workers : Holds(w, e) => job[w].id = e /\ job[w].at \in {"sent", "acking", "unlinking"}
          /\ json[e] # None => \E w \in Workers : job[w].id = e /\ job[w].at \in {"sent", "acking"}
      BY DEF IInv, SentOnce
    <2>2. e # d
      BY <1>1, <1>2, <2>1
    <2> QED
      BY <1>4, <1>6, <2>1, <2>2 DEF Busy
  <1>12. SettledIsOver'
    <2> SUFFICES ASSUME NEW e \in Deliveries, e \notin raced, e \in acked \cup failed
                 PROVE  json'[e] = None /\ \A w \in Workers : Holds(w, e) =>
                             job'[w].id = e /\ job'[w].at = "unlinking"
      BY <1>1, <1>7 DEF SettledIsOver, IInv, Types
    <2>1. json[e] = None /\ \A w \in Workers : Holds(w, e) => job[w].id = e /\ job[w].at = "unlinking"
      BY DEF IInv, SettledIsOver
    <2>2. e # d
      BY <1>1, <1>2, <2>1
    <2> QED
      BY <1>4, <1>6, <2>1, <2>2 DEF Busy
  <1>13. AckHasReason'
    BY <1>1, <1>6 DEF IInv, AckHasReason, Busy
  <1>14. NothingLost'
    <2> SUFFICES ASSUME NEW e \in persisted
                 PROVE  json'[e] # None \/ e \in failed \cup aborted \cup unnoticed \cup cancelled \/ wire[e] > 0
      BY <1>1, <1>8 DEF NothingLost, OnDisk, Types
    <2>1. e \in Deliveries /\ (e \in OnDisk => json[e] # None)
      BY DEF IInv, Types, OnDisk
    <2>2. e \in OnDisk \cup failed \cup aborted \cup unnoticed \cup cancelled \/ wire[e] > 0
      BY DEF IInv, NothingLost
    <2> QED
      BY <1>4, <2>1, <2>2
  <1> QED
    BY <1>8, <1>9, <1>10, <1>11, <1>12, <1>13, <1>14 DEF IInv

\* The migration fails: the scan does without the entry.
LEMMA MigrationFailsKeeps ==
    ASSUME IInv, NEW r \in Recoverers, MigrationFails(r)
    PROVE  IInv'
  <1>1. disk' = disk /\ history' = history /\ job[r].at = "migrating"
    BY DEF MigrationFails, disk, history
  <1>2. /\ scan' \in [Recoverers -> ScanStates] /\ \A q \in Recoverers \ {r} : scan'[q] = scan[q]
        /\ scan'[r].unread = scan[r].unread
        /\ \A e \in Deliveries : scan'[r].loaded[e] \in {None, scan[r].loaded[e]}
    <2> DEFINE f == [scan[r].loaded EXCEPT ![job[r].id] = None]
    <2>1. scan' = [scan EXCEPT ![r] = [scan[r] EXCEPT !.loaded = f]]
      BY DEF MigrationFails
    <2>2. scan[r] \in ScanStates /\ scan[r].loaded \in [Deliveries -> 0..RetryCap \cup {None}]
      BY DEF IInv, Types, ScanStates
    <2>3. /\ f \in [Deliveries -> 0..RetryCap \cup {None}]
          /\ \A e \in Deliveries : f[e] \in {None, scan[r].loaded[e]}
      BY <2>2
    <2> HIDE DEF f
    <2>4. /\ [scan[r] EXCEPT !.loaded = f] \in ScanStates
          /\ [scan[r] EXCEPT !.loaded = f].unread = scan[r].unread
          /\ [scan[r] EXCEPT !.loaded = f].loaded = f
      BY <2>2, <2>3 DEF ScanStates
    <2> QED
      BY <2>1, <2>3, <2>4, ScanChanges
  <1>3. /\ job' \in [Workers -> Jobs] /\ \A w \in Workers \ {r} : job'[w] = job[w]
        /\ job'[r].at = "loading" /\ job'[r].id = None
    <2>1. Job("loading", None, 0) \in Jobs /\ Job("loading", None, 0).at = "loading"
          /\ Job("loading", None, 0).id = None
      BY DeliveryAssumption DEF Job, Jobs
    <2>2. job' = [job EXCEPT ![r] = Job("loading", None, 0)]
      BY DEF MigrationFails
    <2> QED
      BY <2>1, <2>2, ScanMoves
  <1>4. Types'
    BY <1>1, <1>2, <1>3 DEF IInv, Types, disk, history
  <1>5. scan[r].unread \subseteq persisted
    BY DEF IInv, EntriesWereWritten
  <1>6. Scans(r)
    BY <1>1, <1>2, <1>3, <1>5 DEF Scans, disk
  <1> QED
    BY <1>4, <1>6, ScanStep

\* A file that is not read is dropped from the listing.
LEMMA ScanReadsNothingKeeps ==
    ASSUME IInv, NEW r \in Recoverers, NEW d \in Deliveries, ScanReadsNothing(r, d)
    PROVE  IInv'
  <1>1. job' = job /\ disk' = disk /\ history' = history /\ job[r].at = "loading"
    BY DEF ScanReadsNothing, disk, history
  <1>2. /\ scan' \in [Recoverers -> ScanStates] /\ \A q \in Recoverers \ {r} : scan'[q] = scan[q]
        /\ scan'[r].unread = scan[r].unread \ {d} /\ scan'[r].loaded = scan[r].loaded
    <2> DEFINE u == scan[r].unread \ {d}
    <2>1. scan' = [scan EXCEPT ![r] = [scan[r] EXCEPT !.unread = u]]
      BY DEF ScanReadsNothing
    <2>2. u \in SUBSET Deliveries /\ scan[r] \in ScanStates
      BY DEF IInv, Types, ScanStates
    <2> HIDE DEF u
    <2>3. /\ [scan[r] EXCEPT !.unread = u] \in ScanStates
          /\ [scan[r] EXCEPT !.unread = u].unread = u
          /\ [scan[r] EXCEPT !.unread = u].loaded = scan[r].loaded
      BY <2>2 DEF ScanStates
    <2>4. /\ scan' \in [Recoverers -> ScanStates] /\ \A q \in Recoverers \ {r} : scan'[q] = scan[q]
          /\ scan'[r].unread = u /\ scan'[r].loaded = scan[r].loaded
      BY <2>1, <2>3, ScanChanges
    <2> QED
      BY <2>4 DEF u
  <1>3. Types'
    BY <1>1, <1>2 DEF IInv, Types, disk, history
  <1>4. r \in Workers /\ job[r].id = None
    BY <1>1 DEF Workers, IInv, JobsAreNamed
  <1>5. scan[r].unread \subseteq persisted
    BY DEF IInv, EntriesWereWritten
  <1>6. Scans(r)
    BY <1>1, <1>2, <1>4, <1>5 DEF Scans, disk
  <1> QED
    BY <1>3, <1>6, ScanStep

\* The loading is over.
LEMMA ScanHasReadKeeps ==
    ASSUME IInv, NEW r \in Recoverers, ScanHasRead(r)
    PROVE  IInv'
  <1>1. scan' = scan /\ disk' = disk /\ history' = history /\ job[r].at = "loading"
    BY DEF ScanHasRead, disk, history
  <1>2. r \in Workers /\ job[r].id = None
    BY <1>1 DEF Workers, IInv, JobsAreNamed
  <1>3. /\ job' \in [Workers -> Jobs] /\ \A w \in Workers \ {r} : job'[w] = job[w]
        /\ job'[r].at = "choosing" /\ job'[r].id = None
    <2>1. job' = [job EXCEPT ![r] = [job[r] EXCEPT !.at = "choosing"]]
      BY DEF ScanHasRead, Moves
    <2>2. job[r] \in Jobs
      BY <1>2 DEF IInv, Types
    <2>3. /\ [job[r] EXCEPT !.at = "choosing"] \in Jobs
          /\ [job[r] EXCEPT !.at = "choosing"].at = "choosing"
          /\ [job[r] EXCEPT !.at = "choosing"].id = None
      BY <1>2, <2>2 DEF Jobs
    <2> QED
      BY <2>1, <2>3, ScanMoves
  <1>4. Types'
    BY <1>1, <1>3 DEF IInv, Types, disk, history
  <1>5. Scans(r)
    BY <1>1, <1>3 DEF Scans, disk, IInv, EntriesWereWritten
  <1> QED
    BY <1>4, <1>5, ScanStep

\* What a scan has loaded, and which entry it comes to.
LEMMA NextEntry ==
    ASSUME IInv, NEW r \in Recoverers, Loaded(r) # {}
    PROVE  Min(Loaded(r)) \in Deliveries /\ scan[r].loaded[Min(Loaded(r))] # None
  <1>1. Loaded(r) \in SUBSET Nat
    BY DeliveryAssumption DEF Loaded
  <1>2. Min(Loaded(r)) \in Loaded(r)
    BY <1>1, MinIsIn
  <1> QED
    BY <1>2 DEF Loaded

\* A scan that takes up an entry has loaded it.
LEMMA TakesUp ==
    ASSUME IInv, NEW r \in Recoverers, NEW d \in Deliveries, scan[r].loaded[d] # None,
           job[r].at = "choosing", scan' = Forget(r, d), UNCHANGED <<disk, history>>,
           \/ job' = job
           \/ \E at \in {"sending", "moving", "reading"} : job' = [job EXCEPT ![r] = Job(at, d, 0)]
    PROVE  IInv' /\ (job' = job \/ job'[r].id = d)
  <1>1. r \in Workers /\ job[r].id = None /\ job[r] \in Jobs
    BY DEF Workers, IInv, JobsAreNamed, Types
  <1>2. /\ job' \in [Workers -> Jobs] /\ \A w \in Workers \ {r} : job'[w] = job[w]
        /\ job' # job => job'[r].at \in {"sending", "moving", "reading"} /\ job'[r].id = d
    <2>1. CASE job' = job
      BY <2>1 DEF IInv, Types
    <2>2. ASSUME NEW at \in {"sending", "moving", "reading"}, job' = [job EXCEPT ![r] = Job(at, d, 0)]
          PROVE  /\ job' \in [Workers -> Jobs] /\ \A w \in Workers \ {r} : job'[w] = job[w]
                 /\ job'[r].at \in {"sending", "moving", "reading"} /\ job'[r].id = d
      <3>1. Job(at, d, 0) \in Jobs /\ Job(at, d, 0).at = at /\ Job(at, d, 0).id = d
        BY DeliveryAssumption DEF Job, Jobs, Busy
      <3> QED
        BY <2>2, <3>1, ScanMoves
    <2> QED
      BY <2>1, <2>2
  <1>3. Types'
    BY <1>2, Forgets DEF IInv, Types, disk, history
  <1>4. scan[r].unread \subseteq persisted
    BY DEF IInv, EntriesWereWritten
  <1>5. \A e \in Deliveries : scan'[r].loaded[e] # None => scan[r].loaded[e] # None
    BY Forgets
  <1>6. Scans(r)
    BY <1>1, <1>2, <1>4, <1>5, Forgets DEF Scans, disk
  <1> QED
    BY <1>2, <1>3, <1>6, ScanStep

\* The least loaded entry is sent again, or set aside.
LEMMA ScanTakesKeeps ==
    ASSUME IInv, NEW r \in Recoverers, ScanTakes(r)
    PROVE  IInv'
  <1> DEFINE d == Min(Loaded(r))
  <1>1. d \in Deliveries /\ scan[r].loaded[d] # None
    BY NextEntry DEF ScanTakes
  <1>2. \E at \in {"sending", "moving", "reading"} : job' = [job EXCEPT ![r] = Job(at, d, 0)]
    BY DEF ScanTakes
  <1>3. scan' = Forget(r, d) /\ job[r].at = "choosing" /\ UNCHANGED <<disk, history>>
    BY DEF ScanTakes
  <1> HIDE DEF d
  <1> QED
    BY <1>1, <1>2, <1>3, TakesUp

\* An entry waits for its backoff.
LEMMA ScanSkipsKeeps ==
    ASSUME IInv, NEW r \in Recoverers, ScanSkips(r)
    PROVE  IInv'
  <1> DEFINE d == Min(Loaded(r))
  <1>1. d \in Deliveries /\ scan[r].loaded[d] # None
    BY NextEntry DEF ScanSkips
  <1>2. scan' = Forget(r, d) /\ job[r].at = "choosing" /\ job' = job /\ UNCHANGED <<disk, history>>
    BY DEF ScanSkips, disk, history
  <1> HIDE DEF d
  <1> QED
    BY <1>1, <1>2, TakesUp

\* An entry is deferred, and counted up.
LEMMA ScanDefersKeeps ==
    ASSUME IInv, NEW r \in Recoverers, NEW d \in Deliveries, ScanDefers(r, d)
    PROVE  IInv'
  <1>1. scan[r].loaded[d] # None
    BY DEF ScanDefers, Loaded
  <1>2. \E at \in {"sending", "moving", "reading"} : job' = [job EXCEPT ![r] = Job(at, d, 0)]
    BY DEF ScanDefers
  <1>3. scan' = Forget(r, d) /\ job[r].at = "choosing" /\ UNCHANGED <<disk, history>>
    BY DEF ScanDefers
  <1> QED
    BY <1>1, <1>2, <1>3, TakesUp

\* The time budget is exceeded.
LEMMA ScanRunsLateKeeps ==
    ASSUME IInv, NEW r \in Recoverers, ScanRunsLate(r)
    PROVE  IInv'
  <1>1. job' = job /\ disk' = disk /\ history' = history /\ job[r].at = "choosing"
    BY DEF ScanRunsLate, disk, history
  <1>2. /\ scan' \in [Recoverers -> ScanStates] /\ \A q \in Recoverers \ {r} : scan'[q] = scan[q]
        /\ scan'[r].unread = scan[r].unread /\ scan'[r].loaded = scan[r].loaded
    <2>1. scan' = [scan EXCEPT ![r] = [scan[r] EXCEPT !.late = TRUE]]
      BY DEF ScanRunsLate
    <2>2. scan[r] \in ScanStates
      BY DEF IInv, Types
    <2>3. /\ [scan[r] EXCEPT !.late = TRUE] \in ScanStates
          /\ [scan[r] EXCEPT !.late = TRUE].unread = scan[r].unread
          /\ [scan[r] EXCEPT !.late = TRUE].loaded = scan[r].loaded
      BY <2>2 DEF ScanStates
    <2> QED
      BY <2>1, <2>3, ScanChanges
  <1>3. Types'
    BY <1>1, <1>2 DEF IInv, Types, disk, history
  <1>4. r \in Workers /\ job[r].id = None
    BY <1>1 DEF Workers, IInv, JobsAreNamed
  <1>5. scan[r].unread \subseteq persisted
    BY DEF IInv, EntriesWereWritten
  <1>6. Scans(r)
    BY <1>1, <1>2, <1>4, <1>5 DEF Scans, disk
  <1> QED
    BY <1>3, <1>6, ScanStep

\* Nothing is left of a scan that is over.
LEMMA Nothing ==
    /\ NoScan \in ScanStates /\ NoScan.unread = {} /\ \A d \in Deliveries : NoScan.loaded[d] = None
    /\ NoJob \in Jobs /\ NoJob.at = "off" /\ NoJob.id = None
  <1> DEFINE f == [d \in Deliveries |-> None]
  <1>1. f \in [Deliveries -> 0..RetryCap \cup {None}] /\ \A d \in Deliveries : f[d] = None
    OBVIOUS
  <1>2. NoScan = Scan({}, f, FALSE, FALSE)
    BY DEF NoScan
  <1> HIDE DEF f
  <1>3. Scan({}, f, FALSE, FALSE) \in ScanStates /\ Scan({}, f, FALSE, FALSE).unread = {}
        /\ Scan({}, f, FALSE, FALSE).loaded = f
    BY <1>1 DEF Scan, ScanStates
  <1>4. NoJob \in Jobs /\ NoJob.at = "off" /\ NoJob.id = None
    BY DeliveryAssumption DEF NoJob, Job, Jobs
  <1> QED
    BY <1>1, <1>2, <1>3, <1>4

\* The scan is over.
LEMMA ScanEndsKeeps ==
    ASSUME IInv, NEW r \in Recoverers, ScanEnds(r)
    PROVE  IInv'
  <1>1. disk' = disk /\ history' = history /\ job[r].at = "choosing"
    BY DEF ScanEnds, disk, history
  <1>2. /\ scan' \in [Recoverers -> ScanStates] /\ \A q \in Recoverers \ {r} : scan'[q] = scan[q]
        /\ scan'[r] = NoScan
    BY Nothing, ScanChanges DEF ScanEnds
  <1>3. /\ job' \in [Workers -> Jobs] /\ \A w \in Workers \ {r} : job'[w] = job[w]
        /\ job'[r] = NoJob
    BY Nothing, ScanMoves DEF ScanEnds
  <1>4. Types'
    BY <1>1, <1>2, <1>3 DEF IInv, Types, disk, history
  <1>5. Scans(r)
    BY <1>1, <1>2, <1>3, Nothing DEF Scans, disk
  <1> QED
    BY <1>4, <1>5, ScanStep

-----------------------------------------------------------------------------
(* A crash, and the theorems.                                               *)

\* After a crash nobody holds anything, and what was not yet renamed is unrecorded.
LEMMA CrashKeeps ==
    ASSUME IInv, Crash
    PROVE  IInv'
  <1> USE DeliveryAssumption
  <1>1. /\ json' = json /\ marker' = marker /\ failed' = failed /\ legacy' = legacy /\ wire' = wire
        /\ persisted' = persisted /\ acked' = acked /\ aborted' = aborted
        /\ unnoticed' = unnoticed /\ cancelled' = cancelled /\ raced' = raced
        /\ scan' = [r \in Recoverers |-> NoScan]
    BY DEF Crash, disk
  <1>2. \A w \in Workers : job[w].at \in {"sent", "acking"} => job[w].id \in unrecorded'
    BY DEF Crash
  <1>3. unrecorded \subseteq unrecorded' /\ unrecorded' \subseteq Deliveries
    <2>1. \A w \in Workers : job[w].at \in {"sent", "acking"} => job[w].id \in Deliveries
      BY Named DEF Busy
    <2>2. unrecorded \in SUBSET Deliveries
      BY DEF IInv, Types
    <2> QED
      BY <2>1, <2>2 DEF Crash
  <1>4. /\ job' \in [Workers -> Jobs]
        /\ \A w \in Workers : \/ job'[w] = NoJob /\ (w \in Recoverers \/ job[w].at = "off")
                              \/ job'[w] = Job("over", w, 0) /\ w \in Deliveries /\ w \notin Recoverers
    <2>1. \A w \in Deliveries : Job("over", w, 0) \in Jobs
      BY DEF Job, Jobs
    <2> QED
      BY <2>1, Nothing DEF Crash, Workers
  <1>5. \A w \in Workers : \/ job'[w].at = "off" /\ job'[w].id = None /\ (w \in Recoverers \/ job[w].at = "off")
                           \/ job'[w].at = "over" /\ job'[w].id = w /\ w \in Deliveries /\ w \notin Recoverers
    BY <1>4, Nothing DEF Job
  <1>6. \A w \in Workers, d \in Deliveries : ~WorksOn(w, d)' /\ ~Holds(w, d)'
    BY <1>1, <1>5, Nothing DEF WorksOn, Holds, Busy
  <1>7. Types'
    BY <1>1, <1>3, <1>4, Nothing DEF IInv, Types
  <1>8. JobsAreNamed'
    BY <1>5 DEF JobsAreNamed
  <1>9. EntriesWereWritten'
    BY <1>1, <1>6, Nothing DEF IInv, EntriesWereWritten, OnDisk, Loaded
  <1>10. Untouched'
    BY <1>1, <1>5 DEF IInv, Untouched, Workers
  <1>11. TakenOnce' /\ OneHolder' /\ MigratesItsOwn'
    BY <1>5, <1>6 DEF TakenOnce, OneHolder, MigratesItsOwn, Workers
  <1>12. SentOnce'
    BY <1>1, <1>2, <1>3, <1>6 DEF IInv, SentOnce
  <1>13. SettledIsOver'
    <2> SUFFICES ASSUME NEW e \in (acked' \cup failed') \ raced'
                 PROVE  json'[e] = None /\ \A w \in Workers : ~Holds(w, e)'
      BY DEF SettledIsOver
    <2>1. e \in (acked \cup failed) \ raced /\ e \in Deliveries
      BY <1>1 DEF IInv, Types
    <2>2. json[e] = None
      BY <2>1 DEF IInv, SettledIsOver
    <2> QED
      BY <1>1, <1>6, <2>1, <2>2
  <1>14. AckHasReason'
    BY <1>5 DEF AckHasReason
  <1>15. NothingLost'
    BY <1>1 DEF IInv, NothingLost, OnDisk
  <1> QED
    BY <1>7, <1>8, <1>9, <1>10, <1>11, <1>12, <1>13, <1>14, <1>15 DEF IInv

\* The invariant holds at first ...
LEMMA Initially ==
    ASSUME Init
    PROVE  IInv
  <1> USE DeliveryAssumption
  <1>1. legacy \in SUBSET Deliveries /\ persisted = legacy /\ failed = {} /\ acked = {}
    BY DEF Init
  <1>2. /\ job \in [Workers -> Jobs]
        /\ \A w \in Workers : \/ w \in legacy /\ job[w].at = "over" /\ job[w].id = w
                              \/ w \notin legacy /\ job[w].at = "off" /\ job[w].id = None
    <2>1. \A d \in Deliveries : /\ Job("over", d, 0) \in Jobs /\ Job("over", d, 0).at = "over"
                               /\ Job("over", d, 0).id = d
      BY DEF Job, Jobs
    <2>2. job = [w \in Workers |-> IF w \in legacy THEN Job("over", w, 0) ELSE NoJob]
      BY DEF Init
    <2> QED
      BY <1>1, <2>1, <2>2, Nothing
  <1>3. scan \in [Recoverers -> ScanStates] /\ \A r \in Recoverers : scan[r] = NoScan
    BY Nothing DEF Init
  <1>4. \A w \in Workers, d \in Deliveries : ~WorksOn(w, d) /\ ~Holds(w, d)
    BY <1>2, <1>3, Nothing DEF WorksOn, Holds, Busy
  <1>5. json \in [Deliveries -> 0..RetryCap \cup {None}] /\ OnDisk = legacy
    <2>1. PICK n \in [Legacy -> 1..MaxRetries] :
             json = [d \in Deliveries |-> IF d \in legacy THEN n[d] ELSE None]
      BY DEF Init
    <2>2. legacy \subseteq Legacy
      BY DEF Init
    <2>3. \A d \in legacy : n[d] \in 0..RetryCap /\ n[d] # None
      BY <2>1, <2>2
    <2> QED
      BY <1>1, <2>1, <2>3 DEF OnDisk
  <1>6. Types
    BY <1>1, <1>2, <1>3, <1>5 DEF Init, Types
  <1>7. JobsAreNamed /\ MigratesItsOwn
    BY <1>1, <1>2 DEF JobsAreNamed, MigratesItsOwn, Workers
  <1>8. Untouched /\ TakenOnce /\ OneHolder /\ AckHasReason
    BY <1>1, <1>2, <1>4 DEF Init, Untouched, TakenOnce, OneHolder, AckHasReason, Workers
  <1>9. EntriesWereWritten /\ NothingLost
    BY <1>1, <1>3, <1>4, <1>5, Nothing DEF EntriesWereWritten, Loaded, NothingLost
  <1>10. SentOnce /\ SettledIsOver
    BY <1>1 DEF Init, SentOnce, SettledIsOver
  <1> QED
    BY <1>6, <1>7, <1>8, <1>9, <1>10 DEF IInv

\* ... and every step keeps it.
LEMMA Stepwise ==
    ASSUME IInv, [Next]_vars
    PROVE  IInv'
  <1>1. CASE UNCHANGED vars
    <2>1. /\ json' = json /\ marker' = marker /\ failed' = failed /\ legacy' = legacy /\ job' = job /\ scan' = scan
          /\ wire' = wire /\ persisted' = persisted /\ acked' = acked /\ aborted' = aborted
          /\ unnoticed' = unnoticed /\ cancelled' = cancelled /\ unrecorded' = unrecorded /\ raced' = raced
      BY <1>1 DEF vars, disk, history
    <2>2. Types' /\ JobsAreNamed' /\ EntriesWereWritten' /\ Untouched' /\ AckHasReason' /\ NothingLost'
      BY <2>1 DEF IInv, Types, JobsAreNamed, EntriesWereWritten, Untouched, AckHasReason,
                  NothingLost, WorksOn, OnDisk, Loaded
    <2>3. TakenOnce' /\ MigratesItsOwn' /\ OneHolder' /\ SentOnce' /\ SettledIsOver'
      BY <2>1 DEF IInv, TakenOnce, MigratesItsOwn, OneHolder, SentOnce, SettledIsOver, WorksOn, Holds
    <2> QED
      BY <2>2, <2>3 DEF IInv
  <1>2. ASSUME NEW w \in Workers,
               \/ AckRenames(w) \/ AckFails(w) \/ Unlinks(w)
               \/ FailReads(w) \/ FailWrites(w) \/ UpdateFails(w)
               \/ MovesToFailed(w) \/ MoveFails(w)
               \/ Transmits(w) \/ SendSucceeds(w) \/ FailsUnnoticed(w) \/ SendThrows(w)
               \/ SendsNothing(w)
        PROVE  IInv'
    BY <1>2, AckRenamesKeeps, AckFailsKeeps, UnlinksKeeps, FailReadsKeeps, FailWritesKeeps,
       UpdateFailsKeeps, MovesToFailedKeeps, MoveFailsKeeps, TransmitsKeeps, SendSucceedsKeeps,
       FailsUnnoticedKeeps, SendThrowsKeeps, SendsNothingKeeps
  <1>3. ASSUME NEW d \in Deliveries, Enqueue(d) \/ Aborts(d)
        PROVE  IInv'
    BY <1>3, EnqueueKeeps, AbortsKeeps
  <1>4. ASSUME NEW r \in Recoverers,
               \/ ScanStarts(r) \/ ScanHasRead(r) \/ ScanTakes(r) \/ ScanSkips(r)
               \/ ScanRunsLate(r) \/ ScanEnds(r) \/ Migrates(r) \/ MigrationFails(r)
               \/ \E d \in Deliveries : ScanReads(r, d) \/ ScanReadsNothing(r, d) \/ ScanDefers(r, d)
        PROVE  IInv'
    BY <1>4, ScanStartsKeeps, ScanHasReadKeeps, ScanTakesKeeps, ScanSkipsKeeps, ScanRunsLateKeeps,
       ScanEndsKeeps, MigratesKeeps, MigrationFailsKeeps, ScanReadsKeeps, ScanReadsNothingKeeps, ScanDefersKeeps
  <1> QED
    BY <1>1, <1>2, <1>3, <1>4, CrashKeeps DEF Next

\* In every reachable state who holds a delivery, what has gone out and what is on
\* disk fit together: the three results below are read off this.
THEOREM Invariant == Spec => []IInv
  BY Initially, Stepwise, PTL DEF Spec

\* Every variable keeps its range, and file work is done on written entries only.
THEOREM TypeCorrect == Spec => []TypeOK
  <1>1. IInv => TypeOK
    <2> SUFFICES ASSUME IInv PROVE TypeOK
      OBVIOUS
    <2>1. /\ json \in [Deliveries -> 0..RetryCap \cup {None}]
          /\ marker \cup failed \cup legacy \subseteq Deliveries /\ wire \in [Deliveries -> 0..2]
          /\ acked \cup failed \cup OnDisk \subseteq persisted
          /\ aborted \cup unnoticed \cup cancelled \cup unrecorded \cup raced \subseteq Deliveries
          /\ \A r \in Recoverers : Loaded(r) \cup scan[r].unread \subseteq persisted
      BY DEF IInv, Types, EntriesWereWritten
    <2>2. ASSUME NEW w \in Workers
          PROVE  /\ job[w].at \in {"off", "sending", "sent", "acking", "unlinking", "reading", "updating",
                                   "moving", "loading", "migrating", "choosing", "over"}
                 /\ job[w].id \in Deliveries \cup {None}
                 /\ job[w].count \in 0..RetryCap
                 /\ job[w].at \in {"acking", "reading", "moving"} => job[w].id \in persisted
      <3>1. job[w] \in Jobs
        BY DEF IInv, Types
      <3>2. job[w].at \in {"acking", "reading", "moving"} => job[w].id \in persisted
        BY Named, Entries DEF Busy
      <3> QED
        BY <3>1, <3>2 DEF Jobs, Busy
    <2> QED
      BY <2>1, <2>2 DEF TypeOK
  <1> QED
    BY <1>1, Invariant, PTL

\* No delivery whose entry was written gets lost, whatever its call, the scans and
\* crashes do to its file.
THEOREM NothingIsLost == Spec => []NothingLost
  <1>1. IInv => NothingLost
    BY DEF IInv
  <1> QED
    BY <1>1, Invariant, PTL

\* Payloads go out twice only after an unrecorded success, or where a scan met the
\* delivery in flight.
THEOREM DuplicatesAreExplained == Spec => []DuplicatesHaveACause
  <1>1. IInv => DuplicatesHaveACause
    BY DEF IInv, Types, SentOnce, DuplicatesHaveACause
  <1> QED
    BY <1>1, Invariant, PTL

\* Where a worker's job goes to.
LEMMA Going ==
    ASSUME IInv, NEW w \in Workers, NEW v \in Workers
    PROVE  /\ \A at \in Busy \cup {"choosing"} :
                Moves(w, at) => job'[v].at = job[v].at \/ job'[v].at = at
           /\ Over(w) => job'[v].at \in {job[v].at, "choosing", "over"}
           /\ \A at \in Busy \cup {"loading", "migrating"}, d \in Deliveries \cup {None}, n \in 0..RetryCap :
                job' = [job EXCEPT ![w] = Job(at, d, n)] =>
                  (v = w /\ job'[v].at = at) \/ (v # w /\ job'[v].at = job[v].at)
  <1>1. job \in [Workers -> Jobs]
    BY DEF IInv, Types
  <1>2. ASSUME NEW at \in Busy \cup {"choosing"}, Moves(w, at)
        PROVE  job'[v].at = job[v].at \/ job'[v].at = at
    <2>1. job' = [job EXCEPT ![w] = [job[w] EXCEPT !.at = at]]
      BY <1>2 DEF Moves
    <2>2. job[w] \in Jobs /\ [job[w] EXCEPT !.at = at].at = at
      BY <1>1 DEF Jobs
    <2> QED
      BY <1>1, <2>1, <2>2
  <1>3. Over(w) => job'[v].at \in {job[v].at, "choosing", "over"}
    BY <1>1 DEF Over, Job
  <1>4. ASSUME NEW at \in Busy \cup {"loading", "migrating"}, NEW d \in Deliveries \cup {None},
               NEW n \in 0..RetryCap, job' = [job EXCEPT ![w] = Job(at, d, n)]
        PROVE  (v = w /\ job'[v].at = at) \/ (v # w /\ job'[v].at = job[v].at)
    BY <1>1, <1>4 DEF Job
  <1> QED
    BY <1>2, <1>3, <1>4

\* A scan begins to send only when it takes up an entry.
LEMMA SendsWhatItTakes ==
    ASSUME IInv, [Next]_vars, NEW r \in Recoverers, job'[r].at = "sending", job[r].at # "sending"
    PROVE  ScanTakes(r)
  <1> USE DeliveryAssumption
  <1>1. r \in Workers /\ r \notin Deliveries
    BY DEF Workers
  <1>2. ASSUME NEW w \in Workers
        PROVE  /\ ~Moves(w, "sent") /\ ~Moves(w, "acking") /\ ~Moves(w, "unlinking")
               /\ ~Moves(w, "reading") /\ ~Moves(w, "moving") /\ ~Moves(w, "choosing")
               /\ ~Over(w)
               /\ \A at \in Busy \cup {"loading", "migrating"}, d \in Deliveries \cup {None}, n \in 0..RetryCap :
                    job' = [job EXCEPT ![w] = Job(at, d, n)] => w = r /\ at = "sending"
    BY <1>1, Going DEF Busy
  <1>3. job' # job
    OBVIOUS
  <1>4. ASSUME NEW w \in Workers
        PROVE  /\ ~AckRenames(w) /\ ~AckFails(w) /\ ~Unlinks(w) /\ ~FailWrites(w)
               /\ ~UpdateFails(w) /\ ~MovesToFailed(w) /\ ~MoveFails(w) /\ ~Transmits(w)
               /\ ~SendSucceeds(w) /\ ~FailsUnnoticed(w) /\ ~SendThrows(w) /\ ~SendsNothing(w)
    BY <1>2 DEF AckRenames, AckFails, Unlinks, FailWrites, UpdateFails, MovesToFailed, MoveFails,
                Transmits, SendSucceeds, FailsUnnoticed, SendThrows, SendsNothing
  <1>5. ASSUME NEW w \in Workers PROVE ~FailReads(w)
    <2> SUFFICES ASSUME FailReads(w) PROVE FALSE
      OBVIOUS
    <2>1. job[w].id \in Deliveries /\ json[job[w].id] \in 0..RetryCap \cup {None}
      BY Named DEF FailReads, Busy, IInv, Types
    <2>2. ~Over(w)
      BY <1>2
    <2>3. /\ json[job[w].id] \in 0..RetryCap
          /\ job' = [job EXCEPT ![w] = Job("updating", job[w].id, json[job[w].id])]
      BY <2>1, <2>2 DEF FailReads
    <2>4. \A d \in Deliveries \cup {None}, n \in 0..RetryCap :
             job' = [job EXCEPT ![w] = Job("updating", d, n)] => "updating" = "sending"
      BY <1>2 DEF Busy
    <2> QED
      BY <2>1, <2>3, <2>4
  <1>6. ASSUME NEW d \in Deliveries PROVE ~Enqueue(d) /\ ~Aborts(d)
    <2>1. d \in Workers /\ d # r
      BY <1>1 DEF Workers
    <2> QED
      BY <1>2, <2>1 DEF Enqueue, Aborts, Busy
  <1>7. ASSUME NEW q \in Recoverers, NEW d \in Deliveries
        PROVE  ~ScanReads(q, d) /\ ~ScanReadsNothing(q, d) /\ ~ScanDefers(q, d)
    <2>1. q \in Workers /\ json[d] \in 0..RetryCap \cup {None}
      BY DEF Workers, IInv, Types
    <2>2. ASSUME ScanReads(q, d) PROVE FALSE
      <3>1. json[d] \in 0..RetryCap /\ job' = [job EXCEPT ![q] = Job("migrating", d, json[d])]
        BY <1>3, <2>1, <2>2 DEF ScanReads
      <3>2. \A n \in 0..RetryCap :
               job' = [job EXCEPT ![q] = Job("migrating", d, n)] => "migrating" = "sending"
        BY <1>2, <2>1
      <3> QED
        BY <3>1, <3>2
    <2> QED
      BY <1>2, <1>3, <2>1, <2>2 DEF ScanReadsNothing, ScanDefers, Busy
  <1>8. ASSUME NEW q \in Recoverers
        PROVE  /\ ~ScanStarts(q) /\ ~ScanHasRead(q) /\ ~ScanSkips(q) /\ ~ScanRunsLate(q)
               /\ ~ScanEnds(q) /\ ~Migrates(q) /\ ~MigrationFails(q) /\ (ScanTakes(q) => q = r)
    <2>1. q \in Workers
      BY DEF Workers
    <2>2. ~ScanEnds(q)
      BY <1>1, <2>1, Nothing DEF ScanEnds, IInv, Types
    <2>3. ASSUME ScanTakes(q) PROVE q = r
      <3>1. Min(Loaded(q)) \in Deliveries
        BY <2>3, NextEntry DEF ScanTakes
      <3>2. \E at \in {"moving", "sending"} : job' = [job EXCEPT ![q] = Job(at, Min(Loaded(q)), 0)]
        BY <2>3 DEF ScanTakes
      <3> QED
        BY <1>2, <2>1, <3>1, <3>2 DEF Busy
    <2> QED
      BY <1>2, <1>3, <2>1, <2>2, <2>3 DEF ScanStarts, ScanHasRead, ScanSkips, ScanRunsLate, Migrates,
                                           MigrationFails, Busy
  <1>9. ~Crash
    BY <1>1, Nothing DEF Crash
  <1>10. ~UNCHANGED vars
    BY <1>3 DEF vars
  <1> QED
    BY <1>4, <1>5, <1>6, <1>7, <1>8, <1>9, <1>10 DEF Next

\* No scan sends what was acknowledged or set aside, unless it met it in flight.
THEOREM SettledIsNotSentAgain == Spec => SettledStaysSettled
  <1> DEFINE A == \A r \in Recoverers, d \in acked \cup failed :
                    job'[r].at = "sending" /\ job'[r].id = d /\ job[r].at # "sending" => d \in raced
  <1>1. IInv /\ [Next]_vars => A
    <2> SUFFICES ASSUME IInv, [Next]_vars, NEW r \in Recoverers, NEW d \in acked \cup failed,
                        job'[r].at = "sending", job'[r].id = d, job[r].at # "sending", d \notin raced
                 PROVE  FALSE
      OBVIOUS
    <2>1. r \in Workers /\ d \in Deliveries
      BY DEF Workers, IInv, Types
    <2>2. \A v \in Workers : Holds(v, d) => job[v].at = "unlinking"
      BY <2>1 DEF IInv, SettledIsOver
    <2>3. ScanTakes(r) /\ Min(Loaded(r)) \in Deliveries /\ scan[r].loaded[Min(Loaded(r))] # None
      BY SendsWhatItTakes, NextEntry DEF ScanTakes
    <2>4. Holds(r, Min(Loaded(r))) /\ job[r].at = "choosing"
      BY <2>3 DEF Holds, ScanTakes
    <2>5. job'[r].id = Min(Loaded(r))
      BY <2>1, <2>3 DEF ScanTakes, Job, IInv, Types
    <2> QED
      BY <2>1, <2>2, <2>4, <2>5
  <1> QED
    BY <1>1, Invariant, PTL DEF Spec, SettledStaysSettled

=============================================================================
