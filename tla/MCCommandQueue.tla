--------------------------- MODULE MCCommandQueue ---------------------------
(* A small instance of CommandQueue: three calls in one lane, enough to fill *)
(* it and to queue two behind one another, beside a lane that stays idle.    *)
(* No symmetry, because the run checks liveness.                             *)
EXTENDS CommandQueue

CONSTANTS main, side, e1, e2, e3

MCLanes == {main, side}
MCEntries == {e1, e2, e3}
MCLaneOf == [e \in MCEntries |-> main]

=============================================================================
