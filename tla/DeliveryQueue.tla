--------------------------- MODULE DeliveryQueue ---------------------------
(***************************************************************************)
(* The write-ahead queue of outbound deliveries                             *)
(* (src/infra/outbound/delivery-queue-*.ts) and its two users: the delivery *)
(* itself (deliverOutboundPayloads) and the recovery scan that every start  *)
(* of the gateway runs in the background.  A step is one awaited operation  *)
(* of one of them; a crash may come between any two.  The gateway can also  *)
(* restart within its process, which stops neither.                         *)
(*                                                                         *)
(* An entry is a file: its presence and its retry count are in `json`, a    *)
(* rename is atomic.  Deliveries are numbered by their enqueue time, the    *)
(* order in which recovery goes through them.                               *)
(***************************************************************************)
EXTENDS Integers, FiniteSets, FiniteSetsExt

CONSTANTS Deliveries,  \* the deliveries, by enqueue time
          Recoverers,  \* recovery scans that can be under way at a time
          BestEffort,  \* deliveries whose failed payloads do not fail the call
          Watched,     \* deliveries whose caller passed onError
          Abortable,   \* deliveries whose caller passed an abort signal
          Cancellable, \* deliveries that hooks or normalisation may leave empty
          Legacy,      \* deliveries an earlier version may have left behind
          DiskFails,   \* whether file operations can fail
          None,        \* no file
          MaxRetries,  \* MAX_RETRIES
          RetryCap     \* bound of the model: counts saturate here

ASSUME DeliveryAssumption ==
    /\ Deliveries \subseteq Nat /\ IsFiniteSet(Deliveries)
    /\ Deliveries \cap Recoverers = {}
    /\ BestEffort \subseteq Deliveries /\ Watched \subseteq Deliveries
    /\ Abortable \subseteq Deliveries /\ Legacy \subseteq Deliveries
    /\ Cancellable \subseteq Deliveries /\ DiskFails \in BOOLEAN
    /\ None \notin Nat
    /\ MaxRetries \in Nat \ {0} /\ RetryCap \in Nat /\ RetryCap >= MaxRetries

VARIABLES
    json,        \* <id>.json: its retryCount, or None
    marker,      \* the <id>.delivered files
    failed,      \* failed/<id>.json
    legacy,      \* entries with attempts counted but no time of the last one
    job,         \* what each delivery and each recovery scan is doing
    scan,        \* the files a scan has yet to read, and the entries it has loaded
    wire,        \* how often the payloads went out (at most 2)
    persisted,   \* the deliveries whose entry was written
    acked,       \* ackDelivery has renamed the entry
    aborted,     \* given up by the caller
    unnoticed,   \* failed with nobody told (best effort)
    cancelled,   \* ended with nothing left to send
    unrecorded,  \* went out, but the success was not recorded
    raced        \* loaded by a scan while somebody else was at it

disk    == <<json, marker, failed, legacy>>
history == <<wire, persisted, acked, aborted, unnoticed, cancelled, unrecorded, raced>>
vars == <<disk, job, scan, history>>

Workers == Deliveries \cup Recoverers

Job(at, d, n) == [at |-> at, id |-> d, count |-> n]
NoJob == Job("off", None, 0)
Scan(unread, loaded, begun, late) ==
    [unread |-> unread, loaded |-> loaded, begun |-> begun, late |-> late]
NoScan == Scan({}, [d \in Deliveries |-> None], FALSE, FALSE)

\* The gateway finds the entries that an earlier version has left, if any: the calls
\* they come from are over, and each has failed at least once.
Init ==
    /\ legacy \in {old \in SUBSET Legacy : \A d \in old, e \in Deliveries \ old : d < e}
    /\ \E n \in [Legacy -> 1..MaxRetries] :
          json = [d \in Deliveries |-> IF d \in legacy THEN n[d] ELSE None]
    /\ marker = {} /\ failed = {}
    /\ job = [w \in Workers |-> IF w \in legacy THEN Job("over", w, 0) ELSE NoJob]
    /\ scan = [r \in Recoverers |-> NoScan]
    /\ wire = [d \in Deliveries |-> 0]
    /\ persisted = legacy /\ acked = {} /\ aborted = {} /\ unnoticed = {} /\ cancelled = {}
    /\ unrecorded = {} /\ raced = {}

Moves(w, at) == job' = [job EXCEPT ![w].at = at]

\* A delivery is over; a scan goes on with its next entry.
Over(w) == job' = [job EXCEPT ![w] = IF w \in Recoverers THEN Job("choosing", None, 0)
                                     ELSE Job("over", w, 0)]

-----------------------------------------------------------------------------
(* ackDelivery, failDelivery, moveToFailed: whoever calls them.              *)

\* Mutant: the entry is copied to the marker instead of renamed.
AckRenames_Copies(w) ==
    LET d == job[w].id IN
    /\ job[w].at = "acking"
    /\ marker' = marker \cup {d}
    /\ acked' = acked \cup {d}
    /\ Moves(w, "unlinking")
    /\ UNCHANGED <<json, failed, legacy, scan, wire, persisted, aborted, unnoticed, cancelled, unrecorded, raced>>

\* Phase 1, the rename; a missing file leads to the marker's removal.
AckRenames(w) ==
    LET d == job[w].id IN
    /\ job[w].at = "acking"
    /\ IF json[d] # None
       THEN /\ json' = [json EXCEPT ![d] = None]
            /\ marker' = marker \cup {d}
            /\ acked' = acked \cup {d}
            /\ Moves(w, "unlinking")
       ELSE /\ marker' = marker \ {d}
            /\ Over(w)
            /\ UNCHANGED <<json, acked>>
    /\ UNCHANGED <<failed, legacy, scan, wire, persisted, aborted, unnoticed, cancelled, unrecorded, raced>>

\* The rename fails: a delivery ignores it, a scan counts it as a failed attempt.
AckFails(w) ==
    /\ DiskFails
    /\ job[w].at = "acking"
    /\ IF w \in Recoverers THEN Moves(w, "reading") ELSE Over(w)
    /\ unrecorded' = unrecorded \cup {job[w].id}
    /\ UNCHANGED <<disk, scan, wire, persisted, acked, aborted, unnoticed, cancelled, raced>>

\* Phase 2, best effort.
Unlinks(w) ==
    /\ job[w].at = "unlinking"
    /\ \/ marker' = marker \ {job[w].id}
       \/ DiskFails /\ UNCHANGED marker
    /\ Over(w)
    /\ UNCHANGED <<json, failed, legacy, scan, history>>

\* failDelivery reads the entry, or fails and is ignored.
FailReads(w) ==
    /\ job[w].at = "reading"
    /\ IF json[job[w].id] # None
       THEN job' = [job EXCEPT ![w] = Job("updating", job[w].id, json[job[w].id])]
       ELSE Over(w)
    /\ UNCHANGED <<disk, scan, history>>

\* Mutant: the attempt is not counted.
FailWrites_NoCount(w) ==
    /\ job[w].at = "updating"
    /\ json' = [json EXCEPT ![job[w].id] = job[w].count]
    /\ legacy' = legacy \ {job[w].id}
    /\ Over(w)
    /\ UNCHANGED <<marker, failed, scan, history>>

\* It writes the entry anew, with the time, whatever became of the file meanwhile.
FailWrites(w) ==
    /\ job[w].at = "updating"
    /\ json' = [json EXCEPT ![job[w].id] = IF job[w].count < RetryCap THEN job[w].count + 1
                                           ELSE RetryCap]
    /\ legacy' = legacy \ {job[w].id}
    /\ Over(w)
    /\ UNCHANGED <<marker, failed, scan, history>>

\* Reading or writing may fail; both callers ignore it.
UpdateFails(w) ==
    /\ DiskFails
    /\ job[w].at \in {"reading", "updating"}
    /\ Over(w)
    /\ UNCHANGED <<disk, scan, history>>

\* moveToFailed; an error is only logged.
MovesToFailed(w) ==
    LET d == job[w].id IN
    /\ job[w].at = "moving"
    /\ IF json[d] # None
       THEN json' = [json EXCEPT ![d] = None] /\ failed' = failed \cup {d}
       ELSE UNCHANGED <<json, failed, legacy>>
    /\ Over(w)
    /\ UNCHANGED <<marker, legacy, scan, history>>

MoveFails(w) ==
    /\ DiskFails
    /\ job[w].at = "moving"
    /\ Over(w)
    /\ UNCHANGED <<disk, scan, history>>

-----------------------------------------------------------------------------
(* deliverOutboundPayloads, called for a delivery or by a scan (skipQueue).  *)

\* Persist, then send; if the write fails the send goes on without an entry.
Enqueue(d) ==
    /\ job[d].at = "off"
    /\ \A e \in Deliveries : e < d => job[e].at # "off"
    /\ job' = [job EXCEPT ![d] = Job("sending", d, 0)]
    /\ \/ json' = [json EXCEPT ![d] = 0] /\ persisted' = persisted \cup {d}
       \/ DiskFails /\ UNCHANGED <<json, persisted>>
    /\ UNCHANGED <<marker, failed, legacy, scan, wire, acked, aborted, unnoticed, cancelled, unrecorded, raced>>

HasEntry(w) == w \in Recoverers \/ w \in persisted

\* The payloads go out; the answer is still to come.
Transmits(w) ==
    LET d == job[w].id IN
    /\ job[w].at = "sending"
    /\ Moves(w, "sent")
    /\ wire' = [wire EXCEPT ![d] = IF @ < 2 THEN @ + 1 ELSE 2]
    /\ UNCHANGED <<disk, scan, persisted, acked, aborted, unnoticed, cancelled, unrecorded, raced>>

\* Mutant: a scan does not acknowledge what it has delivered.
SendSucceeds_NoAck(w) ==
    /\ job[w].at = "sent"
    /\ IF w \in persisted THEN Moves(w, "acking") ELSE Over(w)
    /\ UNCHANGED <<disk, scan, history>>

SendSucceeds(w) ==
    /\ job[w].at = "sent"
    /\ IF HasEntry(w) THEN Moves(w, "acking") ELSE Over(w)
    /\ UNCHANGED <<disk, scan, history>>

\* Best effort: the error goes to onError.  A delivery that was given one notices
\* (SendThrows below); without one, and in a scan, the call returns as if all went well.
FailsUnnoticed(w) ==
    LET d == job[w].id IN
    /\ job[w].at = "sending"
    /\ d \in BestEffort
    /\ w \in Deliveries => d \notin Watched
    /\ IF HasEntry(w) THEN Moves(w, "acking") ELSE Over(w)
    /\ unnoticed' = unnoticed \cup {d}
    /\ UNCHANGED <<disk, scan, wire, persisted, acked, aborted, cancelled, unrecorded, raced>>

\* Normalisation leaves no payload, or a message_sending hook cancels all there are:
\* the call returns as if they had been sent.
SendsNothing(w) ==
    /\ job[w].at = "sending"
    /\ job[w].id \in Cancellable
    /\ IF HasEntry(w) THEN Moves(w, "acking") ELSE Over(w)
    /\ cancelled' = cancelled \cup {job[w].id}
    /\ UNCHANGED <<disk, scan, wire, persisted, acked, aborted, unnoticed, unrecorded, raced>>

\* The caller aborts a delivery: it is acknowledged, not retried.
Aborts(d) ==
    /\ d \in Abortable
    /\ job[d].at \in {"sending", "sent"}
    /\ IF HasEntry(d) THEN Moves(d, "acking") ELSE Over(d)
    /\ aborted' = aborted \cup {d}
    /\ UNCHANGED <<disk, scan, wire, persisted, acked, unnoticed, cancelled, unrecorded, raced>>

\* Mutant: every error is taken for a permanent one, and the entry removed.
SendThrows_Acks(w) ==
    /\ job[w].at \in {"sending", "sent"}
    /\ IF HasEntry(w) THEN Moves(w, "acking") ELSE Over(w)
    /\ UNCHANGED <<disk, scan, history>>

\* Any other error, before or after the payloads went out.  Only a scan asks
\* whether it is permanent.
SendThrows(w) ==
    /\ job[w].at \in {"sending", "sent"}
    /\ IF ~HasEntry(w) THEN Over(w)
       ELSE \/ Moves(w, "reading")
            \/ w \in Recoverers /\ Moves(w, "moving")
    /\ unrecorded' = IF job[w].at = "sent" THEN unrecorded \cup {job[w].id} ELSE unrecorded
    /\ UNCHANGED <<disk, scan, wire, persisted, acked, aborted, unnoticed, cancelled, raced>>

-----------------------------------------------------------------------------
(* recoverPendingDeliveries                                                 *)

OnDisk == {d \in Deliveries : json[d] # None}

\* Somebody other than scan r is at work on d, or about to be.
AtIt(r, d) ==
    \/ \E w \in Workers \ {r} : job[w].id = d /\ job[w].at # "over"
    \/ \E q \in Recoverers \ {r} : scan[q].loaded[d] # None

\* The directory is listed and stale markers are removed, as far as it works.
ScanStarts(r) ==
    /\ job[r].at = "off"
    /\ job' = [job EXCEPT ![r] = Job("loading", None, 0)]
    /\ scan' = [scan EXCEPT ![r].unread = OnDisk]
    /\ \E rest \in SUBSET marker : (rest = {} \/ DiskFails) /\ marker' = rest
    /\ UNCHANGED <<json, failed, legacy, history>>

\* One file is read; a file that is gone or does not parse is skipped.  An entry of
\* an earlier version is migrated at once, before the next file is read.
ScanReads(r, d) ==
    /\ job[r].at = "loading"
    /\ d \in scan[r].unread
    /\ job' = IF json[d] \notin {None, 0} /\ d \in legacy
              THEN [job EXCEPT ![r] = Job("migrating", d, json[d])] ELSE job
    /\ scan' = [scan EXCEPT ![r] =
                   Scan(@.unread \ {d}, [@.loaded EXCEPT ![d] = json[d]], @.begun, @.late)]
    /\ raced' = IF json[d] # None /\ AtIt(r, d) THEN raced \cup {d} ELSE raced
    /\ UNCHANGED <<disk, wire, persisted, acked, aborted, unnoticed, cancelled, unrecorded>>

\* The migration writes the entry anew as it was read, whatever became of the file.
Migrates(r) ==
    /\ job[r].at = "migrating"
    /\ json' = [json EXCEPT ![job[r].id] = job[r].count]
    /\ legacy' = legacy \ {job[r].id}
    /\ job' = [job EXCEPT ![r] = Job("loading", None, 0)]
    /\ UNCHANGED <<marker, failed, scan, history>>

\* If it cannot, the entry is skipped like one that does not parse.
MigrationFails(r) ==
    /\ DiskFails
    /\ job[r].at = "migrating"
    /\ job' = [job EXCEPT ![r] = Job("loading", None, 0)]
    /\ scan' = [scan EXCEPT ![r].loaded[job[r].id] = None]
    /\ UNCHANGED <<disk, history>>

ScanReadsNothing(r, d) ==
    /\ DiskFails
    /\ job[r].at = "loading"
    /\ d \in scan[r].unread
    /\ scan' = [scan EXCEPT ![r].unread = @ \ {d}]
    /\ UNCHANGED <<disk, job, history>>

ScanHasRead(r) ==
    /\ job[r].at = "loading"
    /\ scan[r].unread = {}
    /\ Moves(r, "choosing")
    /\ UNCHANGED <<disk, scan, history>>

Loaded(r) == {d \in Deliveries : scan[r].loaded[d] # None}
Forget(r, d) ==
    [scan EXCEPT ![r] = Scan(@.unread, [@.loaded EXCEPT ![d] = None], TRUE, @.late)]

\* The next entry has used up its attempts, is sent again, or waits for its
\* backoff (never at its first replay); the count is the one that was loaded.
ScanTakes(r) ==
    /\ job[r].at = "choosing" /\ Loaded(r) # {} /\ ~scan[r].late
    /\ LET d == Min(Loaded(r))
           n == scan[r].loaded[d]
       IN  /\ job' = [job EXCEPT ![r] = Job(IF n >= MaxRetries THEN "moving" ELSE "sending", d, 0)]
           /\ scan' = Forget(r, d)
    /\ UNCHANGED <<disk, history>>

ScanSkips(r) ==
    /\ job[r].at = "choosing" /\ Loaded(r) # {} /\ ~scan[r].late
    /\ LET d == Min(Loaded(r))
           n == scan[r].loaded[d]
       IN  0 < n /\ n < MaxRetries /\ scan' = Forget(r, d)
    /\ UNCHANGED <<disk, job, history>>

\* The time budget is exceeded (not before the first entry): the rest is deferred.
ScanRunsLate(r) ==
    /\ job[r].at = "choosing" /\ Loaded(r) # {} /\ scan[r].begun
    /\ scan' = [scan EXCEPT ![r].late = TRUE]
    /\ UNCHANGED <<disk, job, history>>

ScanDefers(r, d) ==
    /\ job[r].at = "choosing" /\ d \in Loaded(r) /\ scan[r].late
    /\ job' = [job EXCEPT ![r] = Job("reading", d, 0)]
    /\ scan' = Forget(r, d)
    /\ UNCHANGED <<disk, history>>

ScanEnds(r) ==
    /\ job[r].at = "choosing" /\ Loaded(r) = {}
    /\ job' = [job EXCEPT ![r] = NoJob]
    /\ scan' = [scan EXCEPT ![r] = NoScan]
    /\ UNCHANGED <<disk, history>>

\* The process dies: deliveries and scans with it, the files stay.
Crash ==
    /\ job' = [w \in Workers |-> IF w \in Recoverers \/ job[w].at = "off" THEN NoJob
                                 ELSE Job("over", w, 0)]
    /\ scan' = [r \in Recoverers |-> NoScan]
    /\ unrecorded' = unrecorded \cup {job[w].id : w \in {v \in Workers : job[v].at \in {"sent", "acking"}}}
    /\ UNCHANGED <<disk, wire, persisted, acked, aborted, unnoticed, cancelled, raced>>

Next ==
    \/ \E w \in Workers :
         \/ AckRenames(w) \/ AckFails(w) \/ Unlinks(w)
         \/ FailReads(w) \/ FailWrites(w) \/ UpdateFails(w)
         \/ MovesToFailed(w) \/ MoveFails(w)
         \/ Transmits(w) \/ SendSucceeds(w) \/ FailsUnnoticed(w) \/ SendThrows(w)
         \/ SendsNothing(w)
    \/ \E d \in Deliveries : Enqueue(d) \/ Aborts(d)
    \/ \E r \in Recoverers :
         \/ ScanStarts(r) \/ ScanHasRead(r) \/ ScanTakes(r) \/ ScanSkips(r)
         \/ ScanRunsLate(r) \/ ScanEnds(r) \/ Migrates(r) \/ MigrationFails(r)
         \/ \E d \in Deliveries : ScanReads(r, d) \/ ScanReadsNothing(r, d) \/ ScanDefers(r, d)
    \/ Crash

Spec == Init /\ [][Next]_vars

(* From some time on the process does not crash but restarts in place again *)
(* and again; nothing waits for ever, and now and then a scan comes to an    *)
(* entry whose backoff is over and the file system works.                    *)
ScanAdvances(r) ==
    \/ ScanStarts(r) \/ ScanHasRead(r) \/ ScanEnds(r)
    \/ \E d \in Deliveries : ScanReads(r, d) \/ ScanReadsNothing(r, d) \/ ScanDefers(r, d)
    \/ Transmits(r) \/ SendSucceeds(r) \/ SendThrows(r) \/ Unlinks(r)
    \/ AckRenames(r) \/ AckFails(r) \/ FailReads(r) \/ FailWrites(r) \/ UpdateFails(r)
    \/ MovesToFailed(r) \/ MoveFails(r) \/ SendsNothing(r)
    \/ Migrates(r) \/ MigrationFails(r)

Fairness ==
    /\ <>[][~Crash]_vars
    /\ \A r \in Recoverers : WF_vars(ScanAdvances(r)) /\ SF_vars(ScanTakes(r))
    /\ DiskFails => \A r \in Recoverers :
         /\ SF_vars(MovesToFailed(r)) /\ SF_vars(FailWrites(r)) /\ SF_vars(Migrates(r))
         /\ \A d \in Deliveries : SF_vars(ScanReads(r, d))

FairSpec == Spec /\ Fairness

-----------------------------------------------------------------------------
(*                               Properties                                *)

\* The range of every variable; who has no entry has no file work to do.
TypeOK ==
    /\ json \in [Deliveries -> 0..RetryCap \cup {None}]
    /\ marker \cup failed \cup legacy \subseteq Deliveries
    /\ \A w \in Workers :
         /\ job[w].at \in {"off", "sending", "sent", "acking", "unlinking", "reading", "updating",
                           "moving", "loading", "migrating", "choosing", "over"}
         /\ job[w].id \in Deliveries \cup {None}
         /\ job[w].count \in 0..RetryCap
         /\ job[w].at \in {"acking", "reading", "moving"} => job[w].id \in persisted
    /\ \A r \in Recoverers : Loaded(r) \cup scan[r].unread \subseteq persisted
    /\ wire \in [Deliveries -> 0..2]
    /\ acked \cup failed \cup OnDisk \subseteq persisted
    /\ aborted \cup unnoticed \cup cancelled \cup unrecorded \cup raced \subseteq Deliveries

\* Once its entry is written a delivery is not lost, wherever the process dies and
\* whatever two workers do to its file: it is on disk, set aside in failed/, has
\* gone out, or was given up by its caller, by best effort or by a hook.
NothingLost ==
    \A d \in persisted :
        d \in OnDisk \cup failed \cup aborted \cup unnoticed \cup cancelled \/ wire[d] > 0

\* Payloads go out twice only when a success could not be recorded (a crash or an
\* error between the send and the rename) or a scan met a delivery in flight.
DuplicatesHaveACause ==
    \A d \in Deliveries : wire[d] > 1 => d \in unrecorded \cup raced

\* What was acknowledged or set aside is never sent again by a later scan, even if
\* a crash left its marker; only a scan that met it in flight can do that.
SettledStaysSettled ==
    [][\A r \in Recoverers, d \in acked \cup failed :
        job'[r].at = "sending" /\ job'[r].id = d /\ job[r].at # "sending" => d \in raced]_vars

\* Every entry is resolved in the end: entries that keep failing, are deferred by
\* the budget at every start, or are cut off by crashes are sent or set aside.
EntriesAreResolved == \A d \in Deliveries : json[d] # None ~> json[d] = None

\* ackDelivery: "Remove a successfully delivered entry from the queue."
\* That a caller or a hook takes its delivery back is not held against it.
AckedWasDelivered == \A d \in acked \ (aborted \cup cancelled) : wire[d] > 0

=============================================================================
