----------------------------- MODULE GatewayLock -----------------------------
(***************************************************************************)
(* The lock file of the gateway: src/infra/gateway-lock.ts, with the steps  *)
(* of src/cli/gateway-cli/run-loop.ts that take it and give it back.        *)
(* Several processes are started for one configuration and one port.  The   *)
(* file is created exclusively, but it is removed by its path: whatever is  *)
(* there then, and whoever created it.                                      *)
(*                                                                         *)
(* An owner whose port answers no connection is taken for dead: one that    *)
(* does not listen yet or not any more, and also one that listens and that  *)
(* the probe does not reach, because the answer takes longer than a second  *)
(* or the server is bound to an address other than 127.0.0.1.  The probe    *)
(* may connect to a program that is no gateway, or be left out for want of  *)
(* a port.                                                                  *)
(*                                                                         *)
(* A process lives once.  Left out: MAUMAU_ALLOW_MULTI_GATEWAY, with which  *)
(* nothing is locked, and the end of the time limit just after a removal.   *)
(*                                                                         *)
(* The specification is named LockSpec, and its parts LockInit and so on,  *)
(* so that a module can extend this one and GatewayRunLoop.                *)
(***************************************************************************)

CONSTANTS Processes,
          NoOne  \* no process

ASSUME LockAssumption == NoOne \notin Processes

VARIABLES
    file,      \* the lock file: who created it, whether the payload is written, whether
               \* it is older than staleMs
    pc,        \* where each process is
    port,      \* the process that listens on the port
    lastPayload, \* the owner each process read in the file
    outdated,  \* the file or the port has changed since the process looked at it
    verdict,   \* history: why each process is about to remove the file
    robbed     \* history: the processes whose file was removed by another one

lockVars == <<file, pc, port, lastPayload, outdated, verdict, robbed>>

NoFile == [owner |-> NoOne, written |-> FALSE, stale |-> FALSE]

Looking == {"judging", "removing"}
Holding == {"holding", "serving", "closing"}
IsPidAlive(p) == pc[p] \notin {"off", "gone"}
Holders == {p \in Processes : pc[p] \in Holding}

\* The processes whose view of the file and of the port is no longer true.
Onlookers(p) == {q \in Processes \ {p} : pc[q] \in Looking}

LockInit ==
    /\ file = NoFile
    /\ pc = [p \in Processes |-> "off"]
    /\ port = NoOne
    /\ lastPayload = [p \in Processes |-> NoOne]
    /\ outdated = {}
    /\ verdict = [p \in Processes |-> "none"]
    /\ robbed = {}

Goes(p, at) == pc' = [pc EXCEPT ![p] = at]
Forgets(p) ==
    /\ lastPayload' = [lastPayload EXCEPT ![p] = NoOne]
    /\ verdict' = [verdict EXCEPT ![p] = "none"]

-----------------------------------------------------------------------------
(* Acquiring the lock.                                                      *)

Start(p) ==
    /\ pc[p] = "off"
    /\ Goes(p, "opening")
    /\ UNCHANGED <<file, port, lastPayload, outdated, verdict, robbed>>

\* Mutant: the file is opened with the flag "w".
OpenExclusive_Truncates(p) ==
    /\ pc[p] = "opening"
    /\ file' = [NoFile EXCEPT !.owner = p]
    /\ Goes(p, "writing")
    /\ outdated' = outdated \cup Onlookers(p)
    /\ UNCHANGED <<port, lastPayload, verdict, robbed>>

\* fs.open(lockPath, "wx")
OpenExclusive(p) ==
    /\ pc[p] = "opening"
    /\ IF file = NoFile
       THEN /\ file' = [NoFile EXCEPT !.owner = p]
            /\ Goes(p, "writing")
            /\ outdated' = outdated \cup Onlookers(p)
       ELSE /\ Goes(p, "reading")
            /\ UNCHANGED <<file, outdated>>
    /\ UNCHANGED <<port, lastPayload, verdict, robbed>>

\* handle.writeFile: into the file that was created, which may be gone by now.
WritePayload(p) ==
    /\ pc[p] = "writing"
    /\ file' = IF file.owner = p THEN [file EXCEPT !.written = TRUE] ELSE file
    /\ Goes(p, "holding")
    /\ outdated' = IF file.owner = p THEN outdated \cup Onlookers(p) ELSE outdated
    /\ UNCHANGED <<port, lastPayload, verdict, robbed>>

\* readLockPayload
ReadPayload(p) ==
    /\ pc[p] = "reading"
    /\ lastPayload' = [lastPayload EXCEPT ![p] = IF file.written THEN file.owner ELSE NoOne]
    /\ outdated' = outdated \ {p}
    /\ Goes(p, "judging")
    /\ UNCHANGED <<file, port, verdict, robbed>>

\* resolveGatewayOwnerStatus: what may be found out about the owner that was read.  The
\* port is asked first, and no connection is "dead" in the code, whether the port is free
\* or the probe has missed the server.  The operating system may tell nothing of a live
\* owner: "unknown" in the code.
OwnerStatus(p) ==
    LET owner == lastPayload[p] IN
    IF owner = NoOne THEN {"unread"}
    ELSE {IF port = NoOne THEN "free" ELSE "missed"}
         \cup (IF IsPidAlive(owner) THEN {"alive", "unknown"} ELSE {"dead"})

\* The file of an owner of which nothing is known is old, by the time in the payload or
\* by its own.  The payload may be of an earlier file, if the file has changed.
IsStale(p) == file.stale \/ (lastPayload[p] # NoOne /\ p \in outdated)

Concludes(p, status, remove) ==
    /\ Goes(p, IF remove THEN "removing" ELSE "waiting")
    /\ verdict' = IF remove THEN [verdict EXCEPT ![p] = status] ELSE verdict
    /\ UNCHANGED <<file, port, lastPayload, outdated, robbed>>

\* Mutant: an owner that could not be read is a dead one.
JudgeOwner_Unread(p) ==
    /\ pc[p] = "judging"
    /\ \E status \in OwnerStatus(p) :
          Concludes(p, status, \/ status \in {"free", "missed", "dead", "unread"}
                               \/ status = "unknown" /\ IsStale(p))

\* Mutant: a file without a payload is waited for however old it is.
JudgeOwner_NeverStale(p) ==
    /\ pc[p] = "judging"
    /\ \E status \in OwnerStatus(p) :
          Concludes(p, status, status \in {"free", "missed", "dead"})

\* The file of a dead owner is removed, and that of an unknown one if it is old.
JudgeOwner(p) ==
    /\ pc[p] = "judging"
    /\ \E status \in OwnerStatus(p) :
          Concludes(p, status, \/ status \in {"free", "missed", "dead"}
                               \/ status \in {"unknown", "unread"} /\ IsStale(p))

\* fs.rm(lockPath, { force: true })
RemoveLock(p) ==
    /\ pc[p] = "removing"
    /\ file' = NoFile
    /\ robbed' = robbed \cup {q \in Processes : q = file.owner /\ IsPidAlive(q)}
    /\ outdated' = (outdated \ {p}) \cup Onlookers(p)
    /\ Goes(p, "opening")
    /\ Forgets(p)
    /\ UNCHANGED port

\* sleep(pollIntervalMs), and the time is not up.
PollAgain(p) ==
    /\ pc[p] = "waiting"
    /\ Goes(p, "opening")
    /\ outdated' = outdated \ {p}
    /\ Forgets(p)
    /\ UNCHANGED <<file, port, robbed>>

\* "gateway already running": the process ends.
TimeIsUp(p) ==
    /\ pc[p] = "waiting"
    /\ Goes(p, "gone")
    /\ outdated' = outdated \ {p}
    /\ Forgets(p)
    /\ UNCHANGED <<file, port, robbed>>

-----------------------------------------------------------------------------
(* The holder.                                                              *)

\* The server is up.
Listen(p) ==
    /\ pc[p] = "holding" /\ port = NoOne
    /\ port' = p
    /\ Goes(p, "serving")
    /\ outdated' = outdated \cup Onlookers(p)
    /\ UNCHANGED <<file, lastPayload, verdict, robbed>>

\* The server does not come up, because of the port or for another reason.
StartFails(p) ==
    /\ pc[p] = "holding"
    /\ Goes(p, "closing")
    /\ UNCHANGED <<file, port, lastPayload, outdated, verdict, robbed>>

\* The server is closed, for a restart or a stop.
CloseServer(p) ==
    /\ pc[p] = "serving"
    /\ port' = NoOne
    /\ Goes(p, "closing")
    /\ outdated' = outdated \cup Onlookers(p)
    /\ UNCHANGED <<file, lastPayload, verdict, robbed>>

\* release: the path is removed.  The process ends, or takes the lock anew for a
\* restart in the same process.
Release(p) ==
    /\ pc[p] = "closing"
    /\ file' = NoFile
    /\ robbed' = (robbed \ {p}) \cup {q \in Processes \ {p} : q = file.owner /\ IsPidAlive(q)}
    /\ outdated' = IF file = NoFile THEN outdated ELSE outdated \cup Onlookers(p)
    /\ \E at \in {"gone", "opening"} : Goes(p, at)
    /\ UNCHANGED <<port, lastPayload, verdict>>

Crash(p) ==
    /\ IsPidAlive(p)
    /\ Goes(p, "gone")
    /\ port' = IF port = p THEN NoOne ELSE port
    /\ outdated' = (outdated \ {p}) \cup (IF port = p THEN Onlookers(p) ELSE {})
    /\ robbed' = robbed \ {p}
    /\ Forgets(p)
    /\ UNCHANGED file

\* staleMs go by.
FileAges ==
    /\ file # NoFile /\ ~file.stale
    /\ file' = [file EXCEPT !.stale = TRUE]
    /\ UNCHANGED <<pc, port, lastPayload, outdated, verdict, robbed>>

LockNext ==
    \/ \E p \in Processes :
        \/ Start(p)
        \/ OpenExclusive(p)
        \/ WritePayload(p)
        \/ ReadPayload(p)
        \/ JudgeOwner(p)
        \/ RemoveLock(p)
        \/ PollAgain(p)
        \/ TimeIsUp(p)
        \/ Listen(p)
        \/ StartFails(p)
        \/ CloseServer(p)
        \/ Release(p)
        \/ Crash(p)
    \/ FileAges

LockSpec == LockInit /\ [][LockNext]_lockVars

(* A contender goes on until it holds the lock or its time is up, and a     *)
(* file gets old.                                                           *)
LockFairness ==
    /\ \A p \in Processes :
          WF_lockVars(OpenExclusive(p) \/ WritePayload(p) \/ ReadPayload(p) \/ JudgeOwner(p)
                    \/ RemoveLock(p) \/ PollAgain(p))
    /\ WF_lockVars(FileAges)

LockFairSpec == LockSpec /\ LockFairness

-----------------------------------------------------------------------------
(*                               Properties                                *)

\* The range of every variable.
LockTypeOK ==
    /\ file \in [owner : Processes \cup {NoOne}, written : BOOLEAN, stale : BOOLEAN]
    /\ pc \in [Processes -> {"off", "opening", "writing", "reading", "judging", "removing",
                             "waiting", "holding", "serving", "closing", "gone"}]
    /\ port \in Processes \cup {NoOne}
    /\ lastPayload \in [Processes -> Processes \cup {NoOne}]
    /\ outdated \in SUBSET Processes
    /\ verdict \in [Processes -> {"none", "unread", "free", "missed", "dead", "unknown"}]
    /\ robbed \in SUBSET Processes

\* Of the processes that hold the lock all but one have lost their file to another.
OneRightfulHolder ==
    \A p, q \in Holders \ robbed : p = q

\* A live process loses its lock file only to a remover whose judgement is outdated
\* (another contender was faster, or the owner has begun to listen since), that had no
\* answer from the port (nobody listens, or the probe has missed the server), or that
\* could not learn anything of the owner of an old file (a payload that took longer than
\* staleMs, no answer from the operating system); or to a process that gives back a
\* lock it has lost itself.
RobbedHasACause ==
    [][\A p \in robbed' \ robbed : \E q \in Processes \ {p} :
          \/ /\ pc[q] = "removing" /\ pc'[q] = "opening"
             /\ \/ q \in outdated
                \/ lastPayload[q] = p /\ verdict[q] = "free" /\ port = NoOne
                \/ lastPayload[q] = p /\ verdict[q] = "missed"
                \/ lastPayload[q] = p /\ verdict[q] = "unknown" /\ file.stale
                \/ lastPayload[q] = NoOne /\ file.stale
          \/ pc[q] = "closing" /\ pc'[q] # "closing" /\ q \in robbed]_lockVars

\* A lock file that a dead process left does not stand in the way for ever: a
\* contender holds the lock in the end, or another process does, or its time is up.
AbandonedLockIsTaken ==
    \A p \in Processes : (pc[p] = "opening") ~> (Holders # {} \/ pc[p] = "gone")

=============================================================================
