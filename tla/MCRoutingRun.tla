---------------------------- MODULE MCRoutingRun ----------------------------
(* An instance of RoutingRun for TLC: a track for each way through the stages. *)
EXTENDS RoutingRun

CONSTANTS t1, t2, t3, t4, t5

\* t1: 6 s, one window.  t2: 20 s, decoded whole, decided by stage B.  t3: 100 s, undecodable.
\* t4: 60 s, decoded by windows.  t5: the inventory could not decode it.
MCTracks == {t1, t2, t3, t4, t5}
MCInventory == <<t2, t1, t3, t5, t4>>
MCDuration == [t \in MCTracks |-> CASE t = t1 -> 6 [] t = t2 -> 20 [] t = t3 -> 100 [] OTHER -> 60]
MCScore(t, o) == CASE t = t1 -> 90
                   [] t = t2 -> IF o \in {120, 300, 600} THEN 40 ELSE IF o = 1080 THEN 3 ELSE 35
                   [] t = t3 -> 90
                   [] OTHER -> IF o < 3000 THEN 70 ELSE 10
MCProbability == [t \in MCTracks |-> [o \in 0..9200 |-> MCScore(t, o)]]
MCStageA == [reject |-> 5, accept |-> 60]
MCStageB == [reject |-> 10, accept |-> 30]
MCFrames == [t \in MCTracks |-> CASE t = t1 -> 0 [] t = t2 -> 3 [] t = t3 -> 2 [] OTHER -> 2]
MCVocal == [t \in MCTracks |-> CASE t = t1 -> 70 [] t = t2 -> 10 [] t = t3 -> 40 [] OTHER -> 40]
==============================================================================
