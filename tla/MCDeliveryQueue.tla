-------------------------- MODULE MCDeliveryQueue --------------------------
(* Small instances of DeliveryQueue.                                        *)
EXTENDS DeliveryQueue, TLC

CONSTANTS r1, r2

MCRecoverers == {r1, r2}
ScanSymmetry == Permutations(MCRecoverers)

=============================================================================
