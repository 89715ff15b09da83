---- MODULE MCCollectorRunLock ----
(***************************************************************************)
(* Three processes: the resident service, which both collects and          *)
(* upgrades itself, a manual --once run, and the service's replacement.    *)
(***************************************************************************)
EXTENDS CollectorRunLock

CONSTANTS collect, upgrade, manual, successor, service, shell, restarted

MCContenders == {collect, upgrade, manual, successor}
MCProcesses == {service, shell, restarted}
MCProcessOf ==
  [a \in MCContenders |-> IF a \in {collect, upgrade} THEN service
                           ELSE IF a = manual THEN shell ELSE restarted]
====
