---------------------------- MODULE MCHeartbeat ----------------------------
(* Small instances of HeartbeatRunner.                                      *)
EXTENDS HeartbeatRunner, TLC

CONSTANTS h1, h2, b1, b2, session, wake

MCHandlers == {h1, h2}
MCTargets == {All, session}
MCReasons == {Interval, wake}
MCPriority == (Interval :> 1) @@ (wake :> 3)
MCBatches == {b1, b2}

\* Runners are told apart only by what they do, and so are batches.
Identities == Permutations(MCHandlers) \cup Permutations(MCBatches)

=============================================================================
