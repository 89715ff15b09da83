---- MODULE MCCollectorSync ----
(* A service and a manual run; two tasks that the backend accepts and one  *)
(* whose agent it does not have, which is posted between them.             *)
EXTENDS CollectorSync

CONSTANTS service, manual, t1, t2, t3, k1, k2, c1

MCActors == {service, manual}
MCTasks == {t1, t2, t3}
MCContents == {c1}
MCKindOf == [t \in MCTasks |-> IF t = t2 THEN k2 ELSE k1]
MCRank == [t \in MCTasks |-> IF t = t1 THEN 1 ELSE IF t = t2 THEN 2 ELSE 3]
MCRefused == {t2}
====
