---- MODULE MCCollectorUpgrade ----
(* Two requests at a time, for two versions newer than the installed one,  *)
(* beside one collection.                                                  *)
EXTENDS CollectorUpgrade

CONSTANTS h1, h2, c, j2, j3

MCHandlers == {h1, h2}
MCCollections == {c}
MCActors == MCHandlers \union MCCollections
MCJobs == {j2, j3}
MCTargetOf == [j \in MCJobs |-> IF j = j2 THEN 2 ELSE 3]
====
