--------------------------- MODULE GatewayProofs ---------------------------
(***************************************************************************)
(* Proofs about the gateway: its process, for any number of deferred       *)
(* restarts, and the lock file that several processes contend for, for any *)
(* number of processes.                                                    *)
(*                                                                         *)
(* OneRightfulHolder and RobbedHasACause follow from an inductive          *)
(* invariant of four parts: the owner of the file is a process that has    *)
(* created it and not given it back; a process that has created a file and *)
(* was not robbed of it owns the file that is there; and what a contender  *)
(* has read and judged is still true unless it is counted as outdated.     *)
(***************************************************************************)
EXTENDS GatewayRunLoop, GatewayLock, TLAPS

-----------------------------------------------------------------------------
(*                              The run loop                               *)

\* A handle always belongs to a server that is up, and a process that is gone has
\* neither, nor a timer that could ask for a restart.
HandleIsReal ==
    /\ server => listening
    /\ loop = "gone" => ~listening /\ ~ShuttingDown /\ ~timer /\ polls = 0

\* As long as no signal interrupts a start, a shutdown meets a loop that waits and
\* the server it has found: what the loop and the shutdown task know agrees.
ShutdownKnows ==
    "interrupted" \notin mishap =>
        /\ loop = "starting" => ~ShuttingDown /\ ~server
        /\ shutdown.at = "close" => shutdown.had = server
        /\ shutdown.at \in {"release", "acquire"} => ~server

\* The lock is only ever missing while the shutdown task takes it again, or after a
\* failed restart has given it away.
LockIsTracked ==
    ~lock /\ loop # "gone" => shutdown.at = "acquire" \/ "unlocked" \in mishap

\* The drain flag is set during every restart, and outlives one only after a signal
\* interrupted a start.
DrainIsTracked ==
    /\ shutdown.kind = "restart" => gatewayDraining
    /\ gatewayDraining => shutdown.kind = "restart" \/ loop = "gone" \/ "interrupted" \in mishap

IInv ==
    /\ TypeOK
    /\ HandleIsReal /\ ShutdownKnows /\ LockIsTracked /\ DrainIsTracked
    /\ OneServer /\ WorkIsDrained

-----------------------------------------------------------------------------
ShutdownType == [at : {"off", "drain", "close", "release", "acquire"},
                 kind : {"none", "stop", "restart"}, had : BOOLEAN]

\* The value of the shutdown task while there is none.
LEMMA OffIs ==
    Off \in ShutdownType /\ Off.at = "off" /\ Off.kind = "none" /\ Off.had = FALSE
BY DEF Off, ShutdownType

\* What a request does: it is ignored, or starts a shutdown.
LEMMA RequestIs ==
    ASSUME TypeOK, NEW kind \in {"stop", "restart"}, Request(kind)
    PROVE  \/ /\ ShuttingDown
              /\ UNCHANGED <<shutdown, gatewayDraining, mishap>>
           \/ /\ ~ShuttingDown
              /\ shutdown' \in ShutdownType
              /\ shutdown'.kind = kind /\ shutdown'.had = server
              /\ shutdown'.at = "drain" \/ shutdown'.at = "close"
              /\ kind = "restart" /\ busy => shutdown'.at = "drain"
              /\ gatewayDraining' \in BOOLEAN
              /\ gatewayDraining' <=> (gatewayDraining \/ kind = "restart")
              /\ mishap' = IF loop = "starting" THEN mishap \cup {"interrupted"} ELSE mishap
<1>1. CASE ShuttingDown
  BY <1>1 DEF Request
<1>2. CASE ~ShuttingDown
  <2>1. shutdown' = [at |-> IF kind = "restart" /\ busy THEN "drain" ELSE "close",
                     kind |-> kind, had |-> server]
    BY <1>2 DEF Request
  <2>2. shutdown' \in ShutdownType /\ shutdown'.kind = kind /\ shutdown'.had = server
    BY <2>1 DEF ShutdownType, TypeOK
  <2>3. /\ shutdown'.at = "drain" \/ shutdown'.at = "close"
        /\ kind = "restart" /\ busy => shutdown'.at = "drain"
    BY <2>1
  <2>4. gatewayDraining' = (gatewayDraining \/ kind = "restart")
    BY <1>2 DEF Request
  <2>5. gatewayDraining' \in BOOLEAN /\ (gatewayDraining' <=> (gatewayDraining \/ kind = "restart"))
    BY <2>4 DEF TypeOK
  <2>6. mishap' = IF loop = "starting" THEN mishap \cup {"interrupted"} ELSE mishap
    BY <1>2 DEF Request
  <2>7. QED
    BY <1>2, <2>2, <2>3, <2>5, <2>6
<1>3. QED
  BY <1>1, <1>2

\* The end of the process keeps the types.
LEMMA ExitTyped ==
    ASSUME TypeOK, Exit, lock' \in BOOLEAN
    PROVE  TypeOK'
<1>1. (/\ loop \in {"starting", "waiting", "gone"}
       /\ isFirstStart \in BOOLEAN /\ server \in BOOLEAN /\ listening \in BOOLEAN)'
  BY DEF Exit, TypeOK
<1>2. (lock \in BOOLEAN /\ gatewayDraining \in BOOLEAN /\ busy \in BOOLEAN /\ timer \in BOOLEAN)'
  BY DEF Exit, TypeOK
<1>3. (shutdown \in ShutdownType /\ (shutdown.at = "off" <=> shutdown.kind = "none"))'
  BY OffIs DEF Exit
<1>4. (isFirstStart => ~server)'
  BY DEF Exit
<1>5. (polls \in 0..MaxPolls)'
  BY RunLoopAssumption DEF Exit
<1>6. (mishap \subseteq {"interrupted", "halfClosed", "leftBehind", "unlocked"})'
  BY DEF Exit, TypeOK
<1>7. QED
  BY <1>1, <1>2, <1>3, <1>4, <1>5, <1>6 DEF TypeOK, ShutdownType

\* The invariant holds initially.
LEMMA InitIInv == Init => IInv
<1> SUFFICES ASSUME Init PROVE IInv
  OBVIOUS
<1>1. shutdown \in ShutdownType /\ shutdown.at = "off" /\ shutdown.kind = "none"
  BY OffIs DEF Init
<1>2. polls \in 0..MaxPolls
  BY RunLoopAssumption DEF Init
<1>3. TypeOK
  BY <1>1, <1>2 DEF Init, TypeOK, ShutdownType
<1>4. HandleIsReal /\ ShutdownKnows /\ LockIsTracked /\ DrainIsTracked
  BY <1>1 DEF Init, HandleIsReal, ShutdownKnows, LockIsTracked, DrainIsTracked, ShuttingDown
<1>5. OneServer /\ WorkIsDrained
  BY <1>1 DEF Init, OneServer, WorkIsDrained
<1>6. QED
  BY <1>3, <1>4, <1>5 DEF IInv

\* Every step keeps it.
LEMMA NextIInv == IInv /\ [Next]_vars => IInv'
<1> SUFFICES ASSUME IInv, [Next]_vars PROVE IInv'
  OBVIOUS
<1> USE DEF IInv, ShuttingDown, ShutdownType
<1>1. CASE ServerStarts
  <2>1. TypeOK'
    BY <1>1 DEF ServerStarts, restartVars, TypeOK
  <2>2. HandleIsReal'
    BY <1>1 DEF ServerStarts, restartVars, HandleIsReal
  <2>3. ShutdownKnows'
    BY <1>1 DEF ServerStarts, restartVars, ShutdownKnows
  <2>4. LockIsTracked'
    BY <1>1 DEF ServerStarts, restartVars, LockIsTracked
  <2>5. DrainIsTracked'
    BY <1>1 DEF ServerStarts, restartVars, DrainIsTracked
  <2>6. OneServer'
    BY <1>1 DEF ServerStarts, restartVars, OneServer
  <2>7. WorkIsDrained'
    BY <1>1 DEF ServerStarts, restartVars, WorkIsDrained
  <2>8. QED
    BY <2>1, <2>2, <2>3, <2>4, <2>5, <2>6, <2>7
<1>2. CASE FirstStartFails
  <2>1. TypeOK'
    BY <1>2, ExitTyped DEF FirstStartFails
  <2>2. HandleIsReal'
    BY <1>2, OffIs DEF FirstStartFails, Exit, HandleIsReal
  <2>3. ShutdownKnows'
    BY <1>2, OffIs DEF FirstStartFails, Exit, ShutdownKnows
  <2>4. LockIsTracked'
    BY <1>2, OffIs DEF FirstStartFails, Exit, LockIsTracked
  <2>5. DrainIsTracked'
    BY <1>2, OffIs DEF FirstStartFails, Exit, DrainIsTracked
  <2>6. OneServer'
    BY <1>2, OffIs DEF FirstStartFails, Exit, OneServer
  <2>7. WorkIsDrained'
    BY <1>2, OffIs DEF FirstStartFails, Exit, WorkIsDrained
  <2>8. QED
    BY <2>1, <2>2, <2>3, <2>4, <2>5, <2>6, <2>7
<1>3. CASE RestartFails
  <2>1. TypeOK'
    BY <1>3 DEF RestartFails, restartVars, TypeOK
  <2>2. HandleIsReal'
    BY <1>3 DEF RestartFails, restartVars, HandleIsReal
  <2>3. ShutdownKnows'
    BY <1>3 DEF RestartFails, restartVars, ShutdownKnows
  <2>4. LockIsTracked'
    BY <1>3 DEF RestartFails, restartVars, LockIsTracked
  <2>5. DrainIsTracked'
    BY <1>3 DEF RestartFails, restartVars, DrainIsTracked
  <2>6. OneServer'
    BY <1>3 DEF RestartFails, restartVars, OneServer, TypeOK
  <2>7. WorkIsDrained'
    BY <1>3 DEF RestartFails, restartVars, WorkIsDrained
  <2>8. QED
    BY <2>1, <2>2, <2>3, <2>4, <2>5, <2>6, <2>7
<1>4. CASE StopSignal
  <2>1. TypeOK'
    BY <1>4, RequestIs DEF StopSignal, Alive, restartVars, TypeOK, HandleIsReal,
       ShutdownKnows, LockIsTracked, DrainIsTracked, OneServer, WorkIsDrained
  <2>2. HandleIsReal'
    BY <1>4, RequestIs DEF StopSignal, Alive, restartVars, HandleIsReal
  <2>3. ShutdownKnows'
    BY <1>4, RequestIs DEF StopSignal, Alive, restartVars, ShutdownKnows
  <2>4. LockIsTracked'
    BY <1>4, RequestIs DEF StopSignal, Alive, restartVars, LockIsTracked
  <2>5. DrainIsTracked'
    BY <1>4, RequestIs DEF StopSignal, Alive, restartVars, DrainIsTracked, TypeOK
  <2>6. OneServer'
    BY <1>4, RequestIs DEF StopSignal, Alive, restartVars, OneServer
  <2>7. WorkIsDrained'
    BY <1>4, RequestIs DEF StopSignal, Alive, restartVars, WorkIsDrained
  <2>8. QED
    BY <2>1, <2>2, <2>3, <2>4, <2>5, <2>6, <2>7
<1>5. CASE DrainEnds
  <2>1. TypeOK'
    BY <1>5 DEF DrainEnds, restartVars, TypeOK
  <2>2. HandleIsReal'
    BY <1>5 DEF DrainEnds, restartVars, HandleIsReal
  <2>3. ShutdownKnows'
    BY <1>5 DEF DrainEnds, restartVars, ShutdownKnows
  <2>4. LockIsTracked'
    BY <1>5 DEF DrainEnds, restartVars, LockIsTracked
  <2>5. DrainIsTracked'
    BY <1>5 DEF DrainEnds, restartVars, DrainIsTracked
  <2>6. OneServer'
    BY <1>5 DEF DrainEnds, restartVars, OneServer
  <2>7. WorkIsDrained'
    BY <1>5 DEF DrainEnds, restartVars, WorkIsDrained
  <2>8. QED
    BY <2>1, <2>2, <2>3, <2>4, <2>5, <2>6, <2>7
<1>6. CASE Closes
  <2>1. TypeOK'
    BY <1>6 DEF Closes, restartVars, TypeOK
  <2>2. HandleIsReal'
    BY <1>6 DEF Closes, restartVars, HandleIsReal
  <2>3. ShutdownKnows'
    BY <1>6 DEF Closes, restartVars, ShutdownKnows
  <2>4. LockIsTracked'
    BY <1>6 DEF Closes, restartVars, LockIsTracked
  <2>5. DrainIsTracked'
    BY <1>6 DEF Closes, restartVars, DrainIsTracked
  <2>6. OneServer'
    BY <1>6 DEF Closes, restartVars, OneServer, HandleIsReal, ShutdownKnows
  <2>7. WorkIsDrained'
    BY <1>6 DEF Closes, restartVars, WorkIsDrained
  <2>8. QED
    BY <2>1, <2>2, <2>3, <2>4, <2>5, <2>6, <2>7
<1>7. CASE CloseFails
  <2>1. TypeOK'
    BY <1>7 DEF CloseFails, restartVars, TypeOK
  <2>2. HandleIsReal'
    BY <1>7 DEF CloseFails, restartVars, HandleIsReal
  <2>3. ShutdownKnows'
    BY <1>7 DEF CloseFails, restartVars, ShutdownKnows
  <2>4. LockIsTracked'
    BY <1>7 DEF CloseFails, restartVars, LockIsTracked
  <2>5. DrainIsTracked'
    BY <1>7 DEF CloseFails, restartVars, DrainIsTracked
  <2>6. OneServer'
    BY <1>7 DEF CloseFails, restartVars, OneServer
  <2>7. WorkIsDrained'
    BY <1>7 DEF CloseFails, restartVars, WorkIsDrained
  <2>8. QED
    BY <2>1, <2>2, <2>3, <2>4, <2>5, <2>6, <2>7
<1>8. CASE ForceExit
  <2>1. TypeOK'
    BY <1>8, ExitTyped DEF ForceExit, TypeOK
  <2>2. HandleIsReal'
    BY <1>8, OffIs DEF ForceExit, Exit, HandleIsReal
  <2>3. ShutdownKnows'
    BY <1>8, OffIs DEF ForceExit, Exit, ShutdownKnows
  <2>4. LockIsTracked'
    BY <1>8, OffIs DEF ForceExit, Exit, LockIsTracked
  <2>5. DrainIsTracked'
    BY <1>8, OffIs DEF ForceExit, Exit, DrainIsTracked
  <2>6. OneServer'
    BY <1>8, OffIs DEF ForceExit, Exit, OneServer
  <2>7. WorkIsDrained'
    BY <1>8, OffIs DEF ForceExit, Exit, WorkIsDrained
  <2>8. QED
    BY <2>1, <2>2, <2>3, <2>4, <2>5, <2>6, <2>7
<1>9. CASE ReleasesAndExits
  <2>1. TypeOK'
    BY <1>9, ExitTyped DEF ReleasesAndExits
  <2>2. HandleIsReal'
    BY <1>9, OffIs DEF ReleasesAndExits, Exit, HandleIsReal
  <2>3. ShutdownKnows'
    BY <1>9, OffIs DEF ReleasesAndExits, Exit, ShutdownKnows
  <2>4. LockIsTracked'
    BY <1>9, OffIs DEF ReleasesAndExits, Exit, LockIsTracked
  <2>5. DrainIsTracked'
    BY <1>9, OffIs DEF ReleasesAndExits, Exit, DrainIsTracked
  <2>6. OneServer'
    BY <1>9, OffIs DEF ReleasesAndExits, Exit, OneServer
  <2>7. WorkIsDrained'
    BY <1>9, OffIs DEF ReleasesAndExits, Exit, WorkIsDrained
  <2>8. QED
    BY <2>1, <2>2, <2>3, <2>4, <2>5, <2>6, <2>7
<1>10. CASE ReleasesForInProcessRestart
  <2>1. TypeOK'
    BY <1>10, OffIs DEF ReleasesForInProcessRestart, Resolves, restartVars, TypeOK
  <2>2. HandleIsReal'
    BY <1>10, OffIs DEF ReleasesForInProcessRestart, Resolves, restartVars, HandleIsReal
  <2>3. ShutdownKnows'
    BY <1>10, OffIs DEF ReleasesForInProcessRestart, Resolves, restartVars, ShutdownKnows,
       HandleIsReal, TypeOK
  <2>4. LockIsTracked'
    BY <1>10, OffIs DEF ReleasesForInProcessRestart, Resolves, restartVars, LockIsTracked, TypeOK
  <2>5. DrainIsTracked'
    BY <1>10, OffIs DEF ReleasesForInProcessRestart, Resolves, restartVars, DrainIsTracked,
       ShutdownKnows, TypeOK
  <2>6. OneServer'
    BY <1>10, OffIs DEF ReleasesForInProcessRestart, Resolves, restartVars, OneServer,
       HandleIsReal, ShutdownKnows, TypeOK
  <2>7. WorkIsDrained'
    BY <1>10, OffIs DEF ReleasesForInProcessRestart, Resolves, restartVars, WorkIsDrained
  <2>8. QED
    BY <2>1, <2>2, <2>3, <2>4, <2>5, <2>6, <2>7
<1>11. CASE Reacquires
  <2>1. TypeOK'
    BY <1>11, OffIs DEF Reacquires, Resolves, restartVars, TypeOK
  <2>2. HandleIsReal'
    BY <1>11, OffIs DEF Reacquires, Resolves, restartVars, HandleIsReal
  <2>3. ShutdownKnows'
    BY <1>11, OffIs DEF Reacquires, Resolves, restartVars, ShutdownKnows, HandleIsReal
  <2>4. LockIsTracked'
    BY <1>11, OffIs DEF Reacquires, Resolves, restartVars, LockIsTracked
  <2>5. DrainIsTracked'
    BY <1>11, OffIs DEF Reacquires, Resolves, restartVars, DrainIsTracked, ShutdownKnows, TypeOK
  <2>6. OneServer'
    BY <1>11, OffIs DEF Reacquires, Resolves, restartVars, OneServer, HandleIsReal,
       ShutdownKnows, TypeOK
  <2>7. WorkIsDrained'
    BY <1>11, OffIs DEF Reacquires, Resolves, restartVars, WorkIsDrained
  <2>8. QED
    BY <2>1, <2>2, <2>3, <2>4, <2>5, <2>6, <2>7
<1>12. CASE ReacquireFails
  <2>1. TypeOK'
    BY <1>12, ExitTyped DEF ReacquireFails, TypeOK
  <2>2. HandleIsReal'
    BY <1>12, OffIs DEF ReacquireFails, Exit, HandleIsReal
  <2>3. ShutdownKnows'
    BY <1>12, OffIs DEF ReacquireFails, Exit, ShutdownKnows
  <2>4. LockIsTracked'
    BY <1>12, OffIs DEF ReacquireFails, Exit, LockIsTracked
  <2>5. DrainIsTracked'
    BY <1>12, OffIs DEF ReacquireFails, Exit, DrainIsTracked
  <2>6. OneServer'
    BY <1>12, OffIs DEF ReacquireFails, Exit, OneServer
  <2>7. WorkIsDrained'
    BY <1>12, OffIs DEF ReacquireFails, Exit, WorkIsDrained
  <2>8. QED
    BY <2>1, <2>2, <2>3, <2>4, <2>5, <2>6, <2>7
<1>13. CASE ScheduleGatewaySigusr1Restart
  <2>1. TypeOK'
    BY <1>13 DEF ScheduleGatewaySigusr1Restart, processVars, Alive, TypeOK
  <2>2. HandleIsReal'
    BY <1>13 DEF ScheduleGatewaySigusr1Restart, processVars, Alive, HandleIsReal
  <2>3. ShutdownKnows'
    BY <1>13 DEF ScheduleGatewaySigusr1Restart, processVars, Alive, ShutdownKnows
  <2>4. LockIsTracked'
    BY <1>13 DEF ScheduleGatewaySigusr1Restart, processVars, Alive, LockIsTracked
  <2>5. DrainIsTracked'
    BY <1>13 DEF ScheduleGatewaySigusr1Restart, processVars, Alive, DrainIsTracked
  <2>6. OneServer'
    BY <1>13 DEF ScheduleGatewaySigusr1Restart, processVars, Alive, OneServer
  <2>7. WorkIsDrained'
    BY <1>13 DEF ScheduleGatewaySigusr1Restart, processVars, Alive, WorkIsDrained
  <2>8. QED
    BY <2>1, <2>2, <2>3, <2>4, <2>5, <2>6, <2>7
<1>14. CASE TimerEmits
  <2>1. TypeOK'
    BY <1>14, RequestIs DEF TimerEmits, EmitGatewayRestart, TypeOK
  <2>2. HandleIsReal'
    BY <1>14, RequestIs DEF TimerEmits, EmitGatewayRestart, HandleIsReal
  <2>3. ShutdownKnows'
    BY <1>14, RequestIs DEF TimerEmits, EmitGatewayRestart, ShutdownKnows
  <2>4. LockIsTracked'
    BY <1>14, RequestIs DEF TimerEmits, EmitGatewayRestart, LockIsTracked
  <2>5. DrainIsTracked'
    BY <1>14, RequestIs DEF TimerEmits, EmitGatewayRestart, DrainIsTracked
  <2>6. OneServer'
    BY <1>14, RequestIs DEF TimerEmits, EmitGatewayRestart, OneServer
  <2>7. WorkIsDrained'
    BY <1>14, RequestIs DEF TimerEmits, EmitGatewayRestart, WorkIsDrained
  <2>8. QED
    BY <2>1, <2>2, <2>3, <2>4, <2>5, <2>6, <2>7
<1>15. CASE DefersUntilIdle
  <2>1. TypeOK'
    <3>1. (polls \in 0..MaxPolls)'
      BY <1>15, RunLoopAssumption DEF DefersUntilIdle, TypeOK
    <3>2. (timer \in BOOLEAN)'
      BY <1>15 DEF DefersUntilIdle, TypeOK
    <3>3. UNCHANGED <<loop, isFirstStart, server, listening, lock, shutdown, gatewayDraining, busy, mishap>>
      BY <1>15 DEF DefersUntilIdle, processVars
    <3>4. QED
      BY <3>1, <3>2, <3>3 DEF TypeOK
  <2>2. HandleIsReal'
    BY <1>15 DEF DefersUntilIdle, processVars, Alive, HandleIsReal
  <2>3. ShutdownKnows'
    BY <1>15 DEF DefersUntilIdle, processVars, Alive, ShutdownKnows
  <2>4. LockIsTracked'
    BY <1>15 DEF DefersUntilIdle, processVars, Alive, LockIsTracked
  <2>5. DrainIsTracked'
    BY <1>15 DEF DefersUntilIdle, processVars, Alive, DrainIsTracked
  <2>6. OneServer'
    BY <1>15 DEF DefersUntilIdle, processVars, Alive, OneServer
  <2>7. WorkIsDrained'
    BY <1>15 DEF DefersUntilIdle, processVars, Alive, WorkIsDrained
  <2>8. QED
    BY <2>1, <2>2, <2>3, <2>4, <2>5, <2>6, <2>7
<1>16. CASE PollEmits
  <2>1. TypeOK'
    <3>1. (polls \in 0..MaxPolls)'
      BY <1>16, RunLoopAssumption DEF PollEmits, TypeOK
    <3>2. QED
      BY <1>16, <3>1, RequestIs DEF PollEmits, EmitGatewayRestart, TypeOK
  <2>2. HandleIsReal'
    BY <1>16, RequestIs DEF PollEmits, EmitGatewayRestart, HandleIsReal
  <2>3. ShutdownKnows'
    BY <1>16, RequestIs DEF PollEmits, EmitGatewayRestart, ShutdownKnows
  <2>4. LockIsTracked'
    BY <1>16, RequestIs DEF PollEmits, EmitGatewayRestart, LockIsTracked
  <2>5. DrainIsTracked'
    BY <1>16, RequestIs DEF PollEmits, EmitGatewayRestart, DrainIsTracked
  <2>6. OneServer'
    BY <1>16, RequestIs DEF PollEmits, EmitGatewayRestart, OneServer
  <2>7. WorkIsDrained'
    BY <1>16, RequestIs DEF PollEmits, EmitGatewayRestart, WorkIsDrained
  <2>8. QED
    BY <2>1, <2>2, <2>3, <2>4, <2>5, <2>6, <2>7
<1>17. CASE ReloadRestarts
  <2>1. TypeOK'
    BY <1>17, RequestIs DEF ReloadRestarts, EmitGatewayRestart, TypeOK
  <2>2. HandleIsReal'
    BY <1>17, RequestIs DEF ReloadRestarts, EmitGatewayRestart, HandleIsReal
  <2>3. ShutdownKnows'
    BY <1>17, RequestIs DEF ReloadRestarts, EmitGatewayRestart, ShutdownKnows
  <2>4. LockIsTracked'
    BY <1>17, RequestIs DEF ReloadRestarts, EmitGatewayRestart, LockIsTracked
  <2>5. DrainIsTracked'
    BY <1>17, RequestIs DEF ReloadRestarts, EmitGatewayRestart, DrainIsTracked
  <2>6. OneServer'
    BY <1>17, RequestIs DEF ReloadRestarts, EmitGatewayRestart, OneServer
  <2>7. WorkIsDrained'
    BY <1>17, RequestIs DEF ReloadRestarts, EmitGatewayRestart, WorkIsDrained
  <2>8. QED
    BY <2>1, <2>2, <2>3, <2>4, <2>5, <2>6, <2>7
<1>18. CASE TaskStarts
  <2>1. TypeOK'
    BY <1>18 DEF TaskStarts, processVars, restartVars, Alive, TypeOK
  <2>2. HandleIsReal'
    BY <1>18 DEF TaskStarts, processVars, restartVars, Alive, HandleIsReal
  <2>3. ShutdownKnows'
    BY <1>18 DEF TaskStarts, processVars, restartVars, Alive, ShutdownKnows
  <2>4. LockIsTracked'
    BY <1>18 DEF TaskStarts, processVars, restartVars, Alive, LockIsTracked
  <2>5. DrainIsTracked'
    BY <1>18 DEF TaskStarts, processVars, restartVars, Alive, DrainIsTracked
  <2>6. OneServer'
    BY <1>18 DEF TaskStarts, processVars, restartVars, Alive, OneServer
  <2>7. WorkIsDrained'
    BY <1>18 DEF TaskStarts, processVars, restartVars, Alive, WorkIsDrained, DrainIsTracked
  <2>8. QED
    BY <2>1, <2>2, <2>3, <2>4, <2>5, <2>6, <2>7
<1>19. CASE TasksEnd
  <2>1. TypeOK'
    BY <1>19 DEF TasksEnd, processVars, restartVars, TypeOK
  <2>2. HandleIsReal'
    BY <1>19 DEF TasksEnd, processVars, restartVars, HandleIsReal
  <2>3. ShutdownKnows'
    BY <1>19 DEF TasksEnd, processVars, restartVars, ShutdownKnows
  <2>4. LockIsTracked'
    BY <1>19 DEF TasksEnd, processVars, restartVars, LockIsTracked
  <2>5. DrainIsTracked'
    BY <1>19 DEF TasksEnd, processVars, restartVars, DrainIsTracked
  <2>6. OneServer'
    BY <1>19 DEF TasksEnd, processVars, restartVars, OneServer
  <2>7. WorkIsDrained'
    BY <1>19 DEF TasksEnd, processVars, restartVars, WorkIsDrained
  <2>8. QED
    BY <2>1, <2>2, <2>3, <2>4, <2>5, <2>6, <2>7
<1>20. CASE UNCHANGED vars
  BY <1>20 DEF vars, processVars, restartVars, TypeOK, HandleIsReal, ShutdownKnows,
     LockIsTracked, DrainIsTracked, OneServer, WorkIsDrained
<1>21. QED
  BY <1>1, <1>2, <1>3, <1>4, <1>5, <1>6, <1>7, <1>8, <1>9, <1>10, <1>11, <1>12, <1>13,
     <1>14, <1>15, <1>16, <1>17, <1>18, <1>19, <1>20 DEF Next

LEMMA Invariance == Spec => []IInv
BY InitIInv, NextIInv, PTL DEF Spec

-----------------------------------------------------------------------------
\* Type correctness of the run loop.
THEOREM TypeCorrect == Spec => []TypeOK
<1>1. IInv => TypeOK
  BY DEF IInv
<1>2. QED
  BY <1>1, Invariance, PTL

\* The loop never starts a server beside another (run-loop.ts:231), unless a signal
\* interrupted a start or a close failed.
THEOREM OneServerAtATime == Spec => []OneServer
<1>1. IInv => OneServer
  BY DEF IInv
<1>2. QED
  BY <1>1, Invariance, PTL

\* A server runs under the gateway lock (run-loop.ts:48-65, 88), unless a failed
\* restart has given the lock away.
THEOREM ServerIsLocked == Spec => []LockCoversServer
<1>1. IInv => LockCoversServer
  BY DEF IInv, HandleIsReal, LockIsTracked, LockCoversServer
<1>2. QED
  BY <1>1, Invariance, PTL

\* A restart closes the server only after the drain (run-loop.ts:126-160).
THEOREM RestartDrainsFirst == Spec => []WorkIsDrained
<1>1. IInv => WorkIsDrained
  BY DEF IInv
<1>2. QED
  BY <1>1, Invariance, PTL

\* The drain flag does not outlive its restart (run-loop.ts:129, 223), unless a signal
\* interrupted a start.
THEOREM DrainEndsWithRestart == Spec => []DrainIsOver
<1>1. IInv => DrainIsOver
  BY DEF IInv, TypeOK, HandleIsReal, DrainIsTracked, DrainIsOver, ShuttingDown
<1>2. QED
  BY <1>1, Invariance, PTL

-----------------------------------------------------------------------------
(*                              The lock file                              *)

HasCreated == {"writing"} \cup Holding

\* A file that is there was created by a process that still has it, or is gone.
OwnerHasCreated ==
    file.owner # NoOne => pc[file.owner] \in HasCreated \cup {"gone"}

\* Who has created a file and was not robbed owns the file that is there.
FileIsKept ==
    \A p \in Processes : pc[p] \in HasCreated /\ p \notin robbed => file.owner = p

\* What a contender has read is what the file holds.
ReadingIsTrue ==
    \A q \in Processes : pc[q] = "judging" /\ q \notin outdated =>
        lastPayload[q] = IF file.written THEN file.owner ELSE NoOne

\* What a contender has concluded is still so.
JudgementIsTrue ==
    \A q \in Processes : pc[q] = "removing" /\ q \notin outdated =>
        \/ lastPayload[q] = NoOne /\ file.stale
        \/ /\ lastPayload[q] = file.owner /\ lastPayload[q] # NoOne
           /\ \/ verdict[q] = "free" /\ port = NoOne
              \/ verdict[q] = "missed"
              \/ verdict[q] = "dead" /\ ~IsPidAlive(lastPayload[q])
              \/ verdict[q] = "unknown" /\ file.stale

LockInv ==
    /\ LockTypeOK
    /\ OwnerHasCreated
    /\ FileIsKept
    /\ ReadingIsTrue
    /\ JudgementIsTrue

-----------------------------------------------------------------------------
\* The type invariant is kept by every step.
LEMMA LockTypeStep == LockTypeOK /\ [LockNext]_lockVars => LockTypeOK'
  <1> SUFFICES ASSUME LockTypeOK, [LockNext]_lockVars PROVE LockTypeOK'
    OBVIOUS
  <1>1. ASSUME NEW p \in Processes, Start(p) PROVE LockTypeOK'
    BY <1>1 DEF LockTypeOK, Start, Goes, Onlookers, Looking
  <1>2. ASSUME NEW p \in Processes, OpenExclusive(p) PROVE LockTypeOK'
    <2>1. file' \in [owner : Processes \cup {NoOne}, written : BOOLEAN, stale : BOOLEAN]
      BY <1>2 DEF LockTypeOK, OpenExclusive, NoFile
    <2>2. outdated' \in SUBSET Processes
      BY <1>2 DEF LockTypeOK, OpenExclusive, Onlookers
    <2> QED
      BY <1>2, <2>1, <2>2 DEF LockTypeOK, OpenExclusive, Goes
  <1>3. ASSUME NEW p \in Processes, WritePayload(p) PROVE LockTypeOK'
    BY <1>3 DEF LockTypeOK, WritePayload, Goes, Onlookers, Looking
  <1>4. ASSUME NEW p \in Processes, ReadPayload(p) PROVE LockTypeOK'
    BY <1>4 DEF LockTypeOK, ReadPayload, Goes, Onlookers, Looking
  <1>5. ASSUME NEW p \in Processes, JudgeOwner(p) PROVE LockTypeOK'
    <2>1. PICK status \in OwnerStatus(p), remove \in BOOLEAN :
             Concludes(p, status, remove) /\ (remove => status # "alive")
      BY <1>5 DEF JudgeOwner
    <2>2. status \in {"unread", "free", "missed", "alive", "dead", "unknown"}
      BY DEF OwnerStatus
    <2>3. CASE remove
      BY <2>1, <2>2, <2>3 DEF LockTypeOK, Concludes, Goes
    <2>4. CASE ~remove
      BY <2>1, <2>4 DEF LockTypeOK, Concludes, Goes
    <2> QED
      BY <2>3, <2>4
  <1>6. ASSUME NEW p \in Processes, RemoveLock(p) PROVE LockTypeOK'
    BY <1>6 DEF LockTypeOK, RemoveLock, Goes, Onlookers, Looking, NoFile, Forgets
  <1>7. ASSUME NEW p \in Processes, PollAgain(p) PROVE LockTypeOK'
    BY <1>7 DEF LockTypeOK, PollAgain, Goes, Onlookers, Looking, Forgets
  <1>8. ASSUME NEW p \in Processes, TimeIsUp(p) PROVE LockTypeOK'
    BY <1>8 DEF LockTypeOK, TimeIsUp, Goes, Onlookers, Looking, Forgets
  <1>9. ASSUME NEW p \in Processes, Listen(p) PROVE LockTypeOK'
    BY <1>9 DEF LockTypeOK, Listen, Goes, Onlookers, Looking
  <1>10. ASSUME NEW p \in Processes, StartFails(p) PROVE LockTypeOK'
    BY <1>10 DEF LockTypeOK, StartFails, Goes, Onlookers, Looking
  <1>11. ASSUME NEW p \in Processes, CloseServer(p) PROVE LockTypeOK'
    BY <1>11 DEF LockTypeOK, CloseServer, Goes, Onlookers, Looking
  <1>12. ASSUME NEW p \in Processes, Release(p) PROVE LockTypeOK'
    BY <1>12 DEF LockTypeOK, Release, Goes, Onlookers, Looking, NoFile
  <1>13. ASSUME NEW p \in Processes, Crash(p) PROVE LockTypeOK'
    BY <1>13 DEF LockTypeOK, Crash, Goes, Onlookers, Looking, Forgets
  <1>14. CASE FileAges
    BY <1>14 DEF LockTypeOK, FileAges
  <1>15. CASE UNCHANGED lockVars
    BY <1>15 DEF LockTypeOK, lockVars
  <1> QED
    BY <1>1, <1>2, <1>3, <1>4, <1>5, <1>6, <1>7, <1>8, <1>9, <1>10, <1>11, <1>12, <1>13,
       <1>14, <1>15 DEF LockNext

\* The owner of the file stays a process that has created it, or dies.
LEMMA OwnerStep == LockInv /\ [LockNext]_lockVars => OwnerHasCreated'
  <1> SUFFICES ASSUME LockInv, [LockNext]_lockVars PROVE OwnerHasCreated'
    OBVIOUS
  <1> USE LockAssumption DEF LockInv, LockTypeOK, OwnerHasCreated, HasCreated, Holding,
           Goes, Onlookers, Looking
  <1>1. ASSUME NEW p \in Processes, Start(p) PROVE OwnerHasCreated'
    BY <1>1 DEF Start
  <1>2. ASSUME NEW p \in Processes, OpenExclusive(p) PROVE OwnerHasCreated'
    BY <1>2 DEF OpenExclusive, NoFile
  <1>3. ASSUME NEW p \in Processes, WritePayload(p) PROVE OwnerHasCreated'
    BY <1>3 DEF WritePayload
  <1>4. ASSUME NEW p \in Processes, ReadPayload(p) PROVE OwnerHasCreated'
    BY <1>4 DEF ReadPayload
  <1>5. ASSUME NEW p \in Processes, JudgeOwner(p) PROVE OwnerHasCreated'
    BY <1>5 DEF JudgeOwner, OwnerStatus, Concludes
  <1>6. ASSUME NEW p \in Processes, RemoveLock(p) PROVE OwnerHasCreated'
    BY <1>6 DEF RemoveLock, NoFile, Forgets
  <1>7. ASSUME NEW p \in Processes, PollAgain(p) PROVE OwnerHasCreated'
    BY <1>7 DEF PollAgain, Forgets
  <1>8. ASSUME NEW p \in Processes, TimeIsUp(p) PROVE OwnerHasCreated'
    BY <1>8 DEF TimeIsUp, Forgets
  <1>9. ASSUME NEW p \in Processes, Listen(p) PROVE OwnerHasCreated'
    BY <1>9 DEF Listen
  <1>10. ASSUME NEW p \in Processes, StartFails(p) PROVE OwnerHasCreated'
    BY <1>10 DEF StartFails
  <1>11. ASSUME NEW p \in Processes, CloseServer(p) PROVE OwnerHasCreated'
    BY <1>11 DEF CloseServer
  <1>12. ASSUME NEW p \in Processes, Release(p) PROVE OwnerHasCreated'
    BY <1>12 DEF Release, NoFile
  <1>13. ASSUME NEW p \in Processes, Crash(p) PROVE OwnerHasCreated'
    BY <1>13 DEF Crash, Forgets
  <1>14. CASE FileAges
    BY <1>14 DEF FileAges
  <1>15. CASE UNCHANGED lockVars
    BY <1>15 DEF lockVars
  <1> QED
    BY <1>1, <1>2, <1>3, <1>4, <1>5, <1>6, <1>7, <1>8, <1>9, <1>10, <1>11, <1>12, <1>13,
       <1>14, <1>15 DEF LockNext

\* Who removes a file counts its living owner as robbed.
LEMMA FileStep == LockInv /\ [LockNext]_lockVars => FileIsKept'
  <1> SUFFICES ASSUME LockInv, [LockNext]_lockVars PROVE FileIsKept'
    OBVIOUS
  <1> USE LockAssumption DEF LockInv, LockTypeOK, OwnerHasCreated, FileIsKept, HasCreated, Holding, IsPidAlive,
           Goes, Onlookers, Looking
  <1>1. ASSUME NEW p \in Processes, Start(p) PROVE FileIsKept'
    BY <1>1 DEF Start
  <1>2. ASSUME NEW p \in Processes, OpenExclusive(p) PROVE FileIsKept'
    BY <1>2 DEF OpenExclusive, NoFile
  <1>3. ASSUME NEW p \in Processes, WritePayload(p) PROVE FileIsKept'
    BY <1>3 DEF WritePayload
  <1>4. ASSUME NEW p \in Processes, ReadPayload(p) PROVE FileIsKept'
    BY <1>4 DEF ReadPayload
  <1>5. ASSUME NEW p \in Processes, JudgeOwner(p) PROVE FileIsKept'
    BY <1>5 DEF JudgeOwner, OwnerStatus, Concludes
  <1>6. ASSUME NEW p \in Processes, RemoveLock(p) PROVE FileIsKept'
    BY <1>6 DEF RemoveLock, NoFile, Forgets
  <1>7. ASSUME NEW p \in Processes, PollAgain(p) PROVE FileIsKept'
    BY <1>7 DEF PollAgain, Forgets
  <1>8. ASSUME NEW p \in Processes, TimeIsUp(p) PROVE FileIsKept'
    BY <1>8 DEF TimeIsUp, Forgets
  <1>9. ASSUME NEW p \in Processes, Listen(p) PROVE FileIsKept'
    BY <1>9 DEF Listen
  <1>10. ASSUME NEW p \in Processes, StartFails(p) PROVE FileIsKept'
    BY <1>10 DEF StartFails
  <1>11. ASSUME NEW p \in Processes, CloseServer(p) PROVE FileIsKept'
    BY <1>11 DEF CloseServer
  <1>12. ASSUME NEW p \in Processes, Release(p) PROVE FileIsKept'
    BY <1>12 DEF Release, NoFile
  <1>13. ASSUME NEW p \in Processes, Crash(p) PROVE FileIsKept'
    BY <1>13 DEF Crash, Forgets
  <1>14. CASE FileAges
    BY <1>14 DEF FileAges
  <1>15. CASE UNCHANGED lockVars
    BY <1>15 DEF lockVars
  <1> QED
    BY <1>1, <1>2, <1>3, <1>4, <1>5, <1>6, <1>7, <1>8, <1>9, <1>10, <1>11, <1>12, <1>13,
       <1>14, <1>15 DEF LockNext

\* Whoever changes the file makes the readings of the others outdated.
LEMMA ReadingStep == LockInv /\ [LockNext]_lockVars => ReadingIsTrue'
  <1> SUFFICES ASSUME LockInv, [LockNext]_lockVars PROVE ReadingIsTrue'
    OBVIOUS
  <1> USE LockAssumption DEF LockInv, LockTypeOK, ReadingIsTrue, HasCreated, Holding,
           Goes, Onlookers, Looking
  <1>1. ASSUME NEW p \in Processes, Start(p) PROVE ReadingIsTrue'
    BY <1>1 DEF Start
  <1>2. ASSUME NEW p \in Processes, OpenExclusive(p) PROVE ReadingIsTrue'
    BY <1>2 DEF OpenExclusive, NoFile
  <1>3. ASSUME NEW p \in Processes, WritePayload(p) PROVE ReadingIsTrue'
    BY <1>3 DEF WritePayload
  <1>4. ASSUME NEW p \in Processes, ReadPayload(p) PROVE ReadingIsTrue'
    BY <1>4 DEF ReadPayload
  <1>5. ASSUME NEW p \in Processes, JudgeOwner(p) PROVE ReadingIsTrue'
    BY <1>5 DEF JudgeOwner, OwnerStatus, Concludes
  <1>6. ASSUME NEW p \in Processes, RemoveLock(p) PROVE ReadingIsTrue'
    BY <1>6 DEF RemoveLock, NoFile, Forgets
  <1>7. ASSUME NEW p \in Processes, PollAgain(p) PROVE ReadingIsTrue'
    BY <1>7 DEF PollAgain, Forgets
  <1>8. ASSUME NEW p \in Processes, TimeIsUp(p) PROVE ReadingIsTrue'
    BY <1>8 DEF TimeIsUp, Forgets
  <1>9. ASSUME NEW p \in Processes, Listen(p) PROVE ReadingIsTrue'
    BY <1>9 DEF Listen
  <1>10. ASSUME NEW p \in Processes, StartFails(p) PROVE ReadingIsTrue'
    BY <1>10 DEF StartFails
  <1>11. ASSUME NEW p \in Processes, CloseServer(p) PROVE ReadingIsTrue'
    BY <1>11 DEF CloseServer
  <1>12. ASSUME NEW p \in Processes, Release(p) PROVE ReadingIsTrue'
    BY <1>12 DEF Release, NoFile
  <1>13. ASSUME NEW p \in Processes, Crash(p) PROVE ReadingIsTrue'
    BY <1>13 DEF Crash, Forgets
  <1>14. CASE FileAges
    BY <1>14 DEF FileAges
  <1>15. CASE UNCHANGED lockVars
    BY <1>15 DEF lockVars
  <1> QED
    BY <1>1, <1>2, <1>3, <1>4, <1>5, <1>6, <1>7, <1>8, <1>9, <1>10, <1>11, <1>12, <1>13,
       <1>14, <1>15 DEF LockNext

\* Whoever changes the file or the port makes the judgements of the others outdated,
\* and a dead owner stays dead.
LEMMA JudgementStep == LockInv /\ [LockNext]_lockVars => JudgementIsTrue'
  <1> SUFFICES ASSUME LockInv, [LockNext]_lockVars PROVE JudgementIsTrue'
    OBVIOUS
  <1> USE LockAssumption DEF LockInv, LockTypeOK, OwnerHasCreated, ReadingIsTrue, JudgementIsTrue, HasCreated, Holding, IsPidAlive,
           Goes, Onlookers, Looking
  <1>1. ASSUME NEW p \in Processes, Start(p) PROVE JudgementIsTrue'
    BY <1>1 DEF Start
  <1>2. ASSUME NEW p \in Processes, OpenExclusive(p) PROVE JudgementIsTrue'
    BY <1>2 DEF OpenExclusive, NoFile
  <1>3. ASSUME NEW p \in Processes, WritePayload(p) PROVE JudgementIsTrue'
    BY <1>3 DEF WritePayload
  <1>4. ASSUME NEW p \in Processes, ReadPayload(p) PROVE JudgementIsTrue'
    BY <1>4 DEF ReadPayload
  <1>5. ASSUME NEW p \in Processes, JudgeOwner(p) PROVE JudgementIsTrue'
    <2>1. PICK status \in OwnerStatus(p) :
             Concludes(p, status, \/ status \in {"free", "missed", "dead"}
                                  \/ status \in {"unknown", "unread"} /\ IsStale(p))
      BY <1>5 DEF JudgeOwner
    <2> DEFINE remove == \/ status \in {"free", "missed", "dead"}
                         \/ status \in {"unknown", "unread"} /\ IsStale(p)
    <2>2. CASE ~remove
      <3>1. /\ pc' = [pc EXCEPT ![p] = "waiting"]
            /\ UNCHANGED <<file, port, lastPayload, outdated, verdict, robbed>>
        BY <2>1, <2>2 DEF Concludes
      <3>2. \A q \in Processes : /\ pc'[q] = "removing" => pc[q] = "removing"
                                 /\ pc'[q] \in {"off", "gone"} <=> pc[q] \in {"off", "gone"}
        BY <3>1, <1>5 DEF JudgeOwner
      <3> QED
        BY <3>1, <3>2
    <2>3. CASE remove
      <3>1. /\ pc' = [pc EXCEPT ![p] = "removing"]
            /\ verdict' = [verdict EXCEPT ![p] = status]
            /\ UNCHANGED <<file, port, lastPayload, outdated, robbed>>
        BY <2>1, <2>3 DEF Concludes
      <3>2. ASSUME NEW q \in Processes \ {p}, pc'[q] = "removing", q \notin outdated'
            PROVE  pc[q] = "removing" /\ verdict'[q] = verdict[q]
        BY <3>1, <3>2
      <3>3. \A q \in Processes : pc'[q] \in {"off", "gone"} <=> pc[q] \in {"off", "gone"}
        BY <3>1, <1>5 DEF JudgeOwner
      <3>4. p \notin outdated =>
               lastPayload[p] = IF file.written THEN file.owner ELSE NoOne
        BY <1>5 DEF JudgeOwner
      <3>5. pc'[p] = "removing" /\ verdict'[p] = status
        BY <3>1
      <3>6. lastPayload[p] = NoOne => p \in outdated \/ file.stale
        BY <2>1, <2>3 DEF OwnerStatus, IsStale
      <3>7. lastPayload[p] # NoOne /\ p \notin outdated =>
               \/ status = "free" /\ port = NoOne
               \/ status = "missed"
               \/ status = "dead" /\ ~IsPidAlive(lastPayload[p])
               \/ status = "unknown" /\ file.stale
        BY <2>1, <2>3 DEF OwnerStatus, IsStale
      <3>8. ASSUME NEW q \in Processes, pc'[q] = "removing", q \notin outdated'
            PROVE  \/ lastPayload'[q] = NoOne /\ file'.stale
                   \/ /\ lastPayload'[q] = file'.owner /\ lastPayload'[q] # NoOne
                      /\ \/ verdict'[q] = "free" /\ port' = NoOne
                         \/ verdict'[q] = "missed"
                         \/ verdict'[q] = "dead" /\ ~IsPidAlive(lastPayload[q])'
                         \/ verdict'[q] = "unknown" /\ file'.stale
        <4>1. CASE q = p
          BY <3>1, <3>3, <3>4, <3>5, <3>6, <3>7, <3>8, <4>1
        <4>2. CASE q # p
          BY <3>1, <3>2, <3>3, <3>8, <4>2
        <4> QED
          BY <4>1, <4>2
      <3> QED
        BY <3>8
    <2> QED
      BY <2>2, <2>3
  <1>6. ASSUME NEW p \in Processes, RemoveLock(p) PROVE JudgementIsTrue'
    BY <1>6 DEF RemoveLock, NoFile, Forgets
  <1>7. ASSUME NEW p \in Processes, PollAgain(p) PROVE JudgementIsTrue'
    BY <1>7 DEF PollAgain, Forgets
  <1>8. ASSUME NEW p \in Processes, TimeIsUp(p) PROVE JudgementIsTrue'
    BY <1>8 DEF TimeIsUp, Forgets
  <1>9. ASSUME NEW p \in Processes, Listen(p) PROVE JudgementIsTrue'
    BY <1>9 DEF Listen
  <1>10. ASSUME NEW p \in Processes, StartFails(p) PROVE JudgementIsTrue'
    BY <1>10 DEF StartFails
  <1>11. ASSUME NEW p \in Processes, CloseServer(p) PROVE JudgementIsTrue'
    BY <1>11 DEF CloseServer
  <1>12. ASSUME NEW p \in Processes, Release(p) PROVE JudgementIsTrue'
    BY <1>12 DEF Release, NoFile
  <1>13. ASSUME NEW p \in Processes, Crash(p) PROVE JudgementIsTrue'
    BY <1>13 DEF Crash, Forgets
  <1>14. CASE FileAges
    BY <1>14 DEF FileAges
  <1>15. CASE UNCHANGED lockVars
    BY <1>15 DEF lockVars
  <1> QED
    BY <1>1, <1>2, <1>3, <1>4, <1>5, <1>6, <1>7, <1>8, <1>9, <1>10, <1>11, <1>12, <1>13,
       <1>14, <1>15 DEF LockNext

-----------------------------------------------------------------------------
\* The invariant holds initially.
LEMMA LockInitInvariant == LockInit => LockInv
  BY LockAssumption DEF LockInit, LockInv, LockTypeOK, OwnerHasCreated, FileIsKept, ReadingIsTrue,
     JudgementIsTrue, NoFile, HasCreated, Holding

\* The invariant holds in every reachable state.
LEMMA LockInvariant == LockSpec => []LockInv
  <1>1. LockInv /\ [LockNext]_lockVars => LockInv'
    <2> SUFFICES ASSUME LockInv, [LockNext]_lockVars PROVE LockInv'
      OBVIOUS
    <2>1. LockTypeOK'
      BY LockTypeStep DEF LockInv
    <2> QED
      BY <2>1, OwnerStep, FileStep, ReadingStep, JudgementStep DEF LockInv
  <1> QED
    BY LockInitInvariant, <1>1, PTL DEF LockSpec

\* Every variable stays in its range, for any number of processes.
THEOREM LockTypeCorrect == LockSpec => []LockTypeOK
  <1>1. LockInv => LockTypeOK
    BY DEF LockInv
  <1> QED
    BY LockInvariant, <1>1, PTL

\* Of the processes that hold the lock all but one have lost their file to another
\* (acquireGatewayLock creates the file exclusively): at most one is the owner of the
\* file that is there.
THEOREM LockIsExclusive == LockSpec => []OneRightfulHolder
  <1>1. LockInv => OneRightfulHolder
    BY DEF LockInv, FileIsKept, OneRightfulHolder, Holders, HasCreated
  <1> QED
    BY LockInvariant, <1>1, PTL

\* A live process loses its file only to an outdated judgement, because the port gave no
\* answer (nobody listens, or the probe has missed the server), because its file is old
\* and nothing could be learnt of its owner, or to a process that was robbed itself (the
\* removals at gateway-lock.ts:219, 234 and 256).
THEOREM RobberyHasACause == LockSpec => RobbedHasACause
  <1> DEFINE Cause(p, q) ==
        \/ /\ pc[q] = "removing" /\ pc'[q] = "opening"
           /\ \/ q \in outdated
              \/ lastPayload[q] = p /\ verdict[q] = "free" /\ port = NoOne
              \/ lastPayload[q] = p /\ verdict[q] = "missed"
              \/ lastPayload[q] = p /\ verdict[q] = "unknown" /\ file.stale
              \/ lastPayload[q] = NoOne /\ file.stale
        \/ pc[q] = "closing" /\ pc'[q] # "closing" /\ q \in robbed
  <1>1. ASSUME LockInv, [LockNext]_lockVars, NEW p \in robbed' \ robbed
        PROVE  \E q \in Processes \ {p} : Cause(p, q)
    <2>1. ASSUME NEW q \in Processes, RemoveLock(q)
          PROVE  \E r \in Processes \ {p} : Cause(p, r)
      <3>1. p \in Processes /\ p = file.owner /\ IsPidAlive(p)
        BY <1>1, <2>1 DEF RemoveLock
      <3>2. p # q
        BY <1>1, <2>1, <3>1, LockAssumption
           DEF LockInv, OwnerHasCreated, RemoveLock, HasCreated, Holding
      <3>3. pc'[q] = "opening"
        BY <1>1, <2>1 DEF RemoveLock, Goes, LockInv, LockTypeOK
      <3>4. Cause(p, q)
        BY <1>1, <2>1, <3>1, <3>3 DEF LockInv, JudgementIsTrue, RemoveLock
      <3> QED
        BY <3>2, <3>4
    <2>2. ASSUME NEW q \in Processes, Release(q)
          PROVE  \E r \in Processes \ {p} : Cause(p, r)
      <3>1. p \in Processes \ {q} /\ p = file.owner
        BY <1>1, <2>2 DEF Release
      <3>2. q \in robbed
        BY <1>1, <2>2, <3>1 DEF LockInv, FileIsKept, Release, HasCreated, Holding
      <3>3. pc'[q] # "closing"
        BY <1>1, <2>2 DEF Release, Goes, LockInv, LockTypeOK
      <3> QED
        BY <2>2, <3>1, <3>2, <3>3 DEF Release
    <2>3. (\E q \in Processes : RemoveLock(q) \/ Release(q)) \/ robbed' \subseteq robbed
      BY <1>1 DEF LockNext, lockVars, Start, OpenExclusive, WritePayload, ReadPayload, JudgeOwner,
         Concludes, PollAgain, TimeIsUp, Listen, StartFails, CloseServer, Crash, FileAges
    <2> QED
      BY <1>1, <2>1, <2>2, <2>3
  <1>2. LockInv /\ [LockNext]_lockVars => [\A p \in robbed' \ robbed :
                                  \E q \in Processes \ {p} : Cause(p, q)]_lockVars
    BY <1>1
  <1> QED
    BY LockInvariant, <1>2, PTL DEF LockSpec, RobbedHasACause

=============================================================================
