-------------------------- MODULE MCFollowupQueue --------------------------
(* Small instances of FollowupQueue.                                        *)
EXTENDS FollowupQueue, TLC

CONSTANTS m1, m2, m3, chanA, chanB

MCMessages == {m1, m2, m3}
MCRouteOf == [m \in MCMessages |-> IF m = m2 THEN chanB ELSE chanA]
\* Messages with ids of their own, and m3 as a redelivery of m1.
OwnIds == [m \in MCMessages |-> m]
Redelivered == [m \in MCMessages |-> IF m = m3 THEN m1 ELSE m]
OneRoute == [m \in MCMessages |-> chanA]

\* Between them: both modes, the policy that refuses and the one that summarizes.
MCSettings == {[mode |-> "collect", drop |-> "new", cap |-> 2],
               [mode |-> "followup", drop |-> "summarize", cap |-> 1]}

\* The defaults of the program, with a smaller cap.
DefaultSettings == {[mode |-> "collect", drop |-> "summarize", cap |-> 2]}

=============================================================================
