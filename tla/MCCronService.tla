--------------------------- MODULE MCCronService ---------------------------
(* A recurring job, due at once, and a one-shot that is there or yet to be   *)
(* added; the file may hold a marker a former process left.                  *)
EXTENDS CronService

CONSTANTS every, once, m1

MCJobs == {every, once}
MCJobOf == [c \in {m1} |-> every]

Present(running) ==
    [there |-> "yes", enabled |-> TRUE, next |-> 1, running |-> running, last |-> "none"]
ToBeAdded ==
    [there |-> "new", enabled |-> TRUE, next |-> 0, running |-> FALSE, last |-> "none"]

MCInitialStores ==
    {[j \in MCJobs |-> IF j = every THEN Present(r) ELSE o] :
        r \in BOOLEAN, o \in {Present(FALSE), ToBeAdded}}

=============================================================================
