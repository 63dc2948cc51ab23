--------------------------- MODULE MCEmbeddedRuns ---------------------------
(* Two sessions: a chat run and a manual cron run in one of them, a chat run *)
(* in the other.  The two chat runs share the main lane, the first two share *)
(* the session lane.                                                         *)
EXTENDS EmbeddedRuns

CONSTANTS s1, s2, chat1, chat2, cron1

MCSessions == {s1, s2}
MCRuns == {chat1, chat2, cron1}
MCCronRuns == {cron1}
MCSessionOf == [r \in MCRuns |-> IF r = chat2 THEN s2 ELSE s1]

=============================================================================
