---- MODULE SingleFlight ----
(***************************************************************************)
(* What the collector's run lock promises to the runs that take it: one    *)
(* run at a time, except that a run may be ROBBED - its lock file removed  *)
(* by a process that took it for abandoned - and then goes on working      *)
(* beside the next one. A run that is robbed while it is releasing, in the *)
(* window between reading the lock file and unlinking it, unlinks the file *)
(* of its successor; no other run disturbs anybody.                        *)
(*                                                                         *)
(* CollectorRunLock shows that the lock file of the collector implements   *)
(* this; CollectorSync and CollectorUpgrade run on top of it.              *)
(***************************************************************************)
CONSTANT Actors       \* the runs (collections and upgrades) that take the lock

VARIABLES running,    \* the runs that have acquired and not released
          leaving,    \* those that have found the lock theirs and unlink it next
          robbed      \* those whose lock file was removed by another

flightVars == <<running, leaving, robbed>>

FlightTypeOK ==
  running \subseteq Actors /\ leaving \subseteq running /\ robbed \subseteq running

FlightInit == running = {} /\ leaving = {} /\ robbed = {}

\* acquireCollectorRunLock() returned acquired: true.
Start(a) ==
  /\ a \notin running
  /\ running \subseteq robbed
  /\ running' = running \union {a}
  /\ UNCHANGED <<leaving, robbed>>

\* Another process judged the run's lock abandoned and unlinked it.
Rob(a) ==
  /\ a \in running
  /\ robbed' = robbed \union {a}
  /\ UNCHANGED <<running, leaving>>

\* releaseCollectorRunLock() read the run's own lock.
Leave(a) ==
  /\ a \in running \ robbed
  /\ leaving' = leaving \union {a}
  /\ UNCHANGED <<running, robbed>>

\* releaseCollectorRunLock() returned.
Stop(a) ==
  /\ a \in running
  /\ running' = running \ {a}
  /\ leaving' = leaving \ {a}
  /\ \E hit \in SUBSET (running \ {a}) :
       /\ a \in leaving \intersect robbed \/ hit = {}
       /\ robbed' = (robbed \union hit) \ {a}

\* The process of some runs ends without releasing their locks.
Abandon(gone) ==
  /\ running' = running \ gone
  /\ leaving' = leaving \ gone
  /\ robbed' = robbed \ gone

FlightNext ==
  \/ \E a \in Actors : Start(a) \/ Rob(a) \/ Leave(a) \/ Stop(a)
  \/ \E gone \in SUBSET Actors : Abandon(gone)

FlightSpec == FlightInit /\ [][FlightNext]_flightVars

(* Two runs work at the same time only when one of them lost its lock to a *)
(* process that took it for abandoned (acquireCollectorRunLock).           *)
OverlapNeedsRobbery ==
  \A a, b \in running : a # b => a \in robbed \/ b \in robbed

====
