--------------------------- MODULE MCGatewayLock ---------------------------
(* Three processes: the least number in which one contender is judged by     *)
(* another while a third has just taken the lock.                            *)
EXTENDS GatewayLock

CONSTANTS p1, p2, p3

MCProcesses == {p1, p2, p3}

=============================================================================
