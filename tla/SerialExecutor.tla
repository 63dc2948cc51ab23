--------------------------- MODULE SerialExecutor ---------------------------
(***************************************************************************)
(* What the session lanes promise (docs/concepts/queue.md: "one active run *)
(* per session", first come, first served): every session executes at most *)
(* one run at a time, its other runs stand in line in the order of the     *)
(* calls, and the run at the front comes to an end.                        *)
(*                                                                         *)
(* Lanes, nesting, generations and refusals are absent.  An in-process     *)
(* restart shows as Restart: the session gives its current run up and goes *)
(* on with the next one.                                                   *)
(***************************************************************************)
EXTENDS Sequences

CONSTANTS Sessions, Runs,
          SessionOf, \* the session each run belongs to
          NoRun      \* the current run of an idle session

VARIABLES current, \* the run each session executes, or NoRun
          line     \* the runs that wait for it

vars == <<current, line>>

Init ==
    /\ current = [s \in Sessions |-> NoRun]
    /\ line = [s \in Sessions |-> << >>]

InLine(r) == \E i \in DOMAIN line[SessionOf[r]] : line[SessionOf[r]][i] = r

\* The sessions of S leave their current run and take the next one in line.
Promote(S) ==
    /\ current' = [s \in Sessions |-> IF s \notin S THEN current[s]
                                      ELSE IF line[s] = << >> THEN NoRun ELSE Head(line[s])]
    /\ line' = [s \in Sessions |-> IF s \in S /\ line[s] # << >> THEN Tail(line[s]) ELSE line[s]]

\* A call: it is executed at once in an idle session, and stands in line otherwise.
Submit(r) ==
    LET s == SessionOf[r] IN
    /\ current[s] # r
    /\ ~InLine(r)
    /\ IF current[s] = NoRun
       THEN current' = [current EXCEPT ![s] = r] /\ UNCHANGED line
       ELSE line' = [line EXCEPT ![s] = Append(@, r)] /\ UNCHANGED current

Finish(s) == current[s] # NoRun /\ Promote({s})

Drop(s) == line' = [line EXCEPT ![s] = << >>] /\ UNCHANGED current

Restart == Promote(Sessions)

Next ==
    \/ \E r \in Runs : Submit(r)
    \/ \E s \in Sessions : Finish(s) \/ Drop(s)
    \/ Restart

\* No run keeps its session for ever.
EveryRunFinishes ==
    \A s \in Sessions, r \in Runs : (current[s] = r) ~> (current[s] # r)

LiveSpec == Init /\ [][Next]_vars /\ EveryRunFinishes

=============================================================================
