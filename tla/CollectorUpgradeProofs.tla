------------------------ MODULE CollectorUpgradeProofs -----------------------
(***************************************************************************)
(* For any number of requests, jobs, files, versions and collections: the  *)
(* files are of one version whenever no request is installing or rolling   *)
(* back, they are never older than the version that ran last unless a job  *)
(* has an old backup, and so a success is reported with the version        *)
(* installed and a collection never sees half of one.                      *)
(***************************************************************************)
EXTENDS CollectorUpgrade, TLAPS

(* A request under way asks for a version newer than the one that runs;    *)
(* from the lock on it is a run that holds it; only an install counts.     *)
RequestsAreNewer ==
  \A h \in Handlers :
    /\ up[h].step # "idle" =>
         up[h].job \in Jobs /\ proc # Down /\ TargetOf[up[h].job] > ran
    /\ up[h].step \in {"downloading"} \union Synchronous => h \in running
    /\ up[h].step \in {"waiting", "downloading"} => up[h].at = 0

(* A settled stage names its job, and what runs is what ran last.          *)
StateNamesItsJob ==
  /\ stateFile.stage # "none" => stateFile.job \in Jobs
  /\ proc # Down => proc = ran

(* One request at a time is in the part without awaits.                    *)
OneThread ==
  \A g, h \in Handlers :
    up[g].step \in Synchronous /\ up[h].step \in Synchronous => g = h

TypeInv ==
  UpgradeTypeOK /\ OverlapNeedsRobbery /\ RequestsAreNewer /\ StateNamesItsJob /\ OneThread

(* The first `at' files are new and the others still as they were backed up. *)
HalfInstalled(h) ==
  LET u == up[h] IN
  \A f \in Files :
    /\ backup[u.job][f] # Missing
    /\ files[f] = IF f <= u.at THEN TargetOf[u.job] ELSE backup[u.job][f]

(* The first `at' files are in the backup.                                 *)
HalfBackedUp(h) ==
  \A f \in Files : f <= up[h].at => backup[up[h].job][f] = files[f]

(* A rollback finds a complete backup, or untouched files.                 *)
CanRollBack(h) ==
  Uniform(files) \/ \A f \in Files : backup[up[h].job][f] # Missing

FilesAreWhole ==
  ~torn =>
    /\ (\A h \in Handlers : up[h].step \notin {"installing", "failing"}) => Uniform(files)
    /\ \A h \in Handlers :
         /\ up[h].step = "copying" => HalfBackedUp(h)
         /\ up[h].step = "installing" => HalfInstalled(h)
         /\ up[h].step = "failing" => CanRollBack(h)

(* The collector that is installed is not older than the one that ran last, *)
(* or a job has an old backup.                                             *)
CollectorIsCurrent == files[1] >= ran \/ \E j \in Jobs : OldBackup(j)

UpgradeInv ==
  TypeInv /\ FilesAreWhole /\ CollectorIsCurrent /\ SuccessMeansInstalled

------------------------------------------------------------------------------
(* The lock.                                                               *)

(* Every step takes, loses and releases the lock as SingleFlight allows.   *)
LEMMA FlightSteps == [Next]_vars => [FlightNext]_flightVars
<1> SUFFICES ASSUME [Next]_vars PROVE [FlightNext]_flightVars
  OBVIOUS
<1> USE UpgradeAssumption
<1>1. ASSUME NEW h \in Handlers, NEW j \in Jobs,
             AlreadyThere(h, j) \/ RefuseDowngrade(h, j) \/ Accept(h, j)
      PROVE  UNCHANGED flightVars
  BY <1>1 DEF AlreadyThere, RefuseDowngrade, Accept, Comes, LockKept
<1>2. ASSUME NEW h \in Handlers, HandlerStep(h) PROVE FlightNext \/ UNCHANGED flightVars
  BY <1>2 DEF HandlerStep, TakeLock, GiveUp, BackUpFile, BackedUp, InstallFile, Installed,
              RollBack, Leaves, Release, ReportFailure, LockKept, FlightNext
<1>3. ASSUME NEW h \in Handlers, NEW n \in 0..NFiles, StepFails(h) \/ RollBackFails(h, n)
      PROVE  UNCHANGED flightVars
  BY <1>3 DEF StepFails, RollBackFails, LockKept
<1>4. ASSUME Exit \/ Crash PROVE FlightNext
  BY <1>4 DEF Exit, Crash, ProcessEnds, FlightNext
<1>5. ASSUME Restart \/ Confirm PROVE UNCHANGED flightVars
  BY <1>5 DEF Restart, Confirm, LockKept
<1>6. ASSUME NEW c \in Collections, Collect(c) \/ CollectionStep(c) PROVE FlightNext
  BY <1>6 DEF Collect, CollectionStep, CollectionLeaves, CollectionEnds, FlightNext
<1>7. ASSUME NEW a \in Actors, Robbed(a) PROVE FlightNext
  BY <1>7 DEF Robbed, FlightNext
<1>8. CASE UNCHANGED vars
  BY <1>8 DEF vars, flightVars
<1>9. NFiles \in 0..NFiles
  OBVIOUS
<1> QED
  BY <1>1, <1>2, <1>3, <1>4, <1>5, <1>6, <1>7, <1>8, <1>9 DEF Next, ProcessStep

(* SingleFlight keeps two runs apart unless one of them is robbed.         *)
LEMMA FlightInvariant ==
  FlightTypeOK /\ OverlapNeedsRobbery /\ [FlightNext]_flightVars
    => FlightTypeOK' /\ OverlapNeedsRobbery'
<1> SUFFICES ASSUME FlightTypeOK, OverlapNeedsRobbery, [FlightNext]_flightVars
             PROVE  FlightTypeOK' /\ OverlapNeedsRobbery'
  OBVIOUS
<1> USE DEF FlightTypeOK, OverlapNeedsRobbery
<1>1. ASSUME NEW a \in Actors, Start(a) PROVE FlightTypeOK' /\ OverlapNeedsRobbery'
  BY <1>1 DEF Start
<1>2. ASSUME NEW a \in Actors, Rob(a) PROVE FlightTypeOK' /\ OverlapNeedsRobbery'
  BY <1>2 DEF Rob
<1>3. ASSUME NEW a \in Actors, Leave(a) PROVE FlightTypeOK' /\ OverlapNeedsRobbery'
  BY <1>3 DEF Leave
<1>4. ASSUME NEW a \in Actors, Stop(a) PROVE FlightTypeOK' /\ OverlapNeedsRobbery'
  BY <1>4 DEF Stop
<1>5. ASSUME NEW gone \in SUBSET Actors, Abandon(gone)
      PROVE  FlightTypeOK' /\ OverlapNeedsRobbery'
  BY <1>5 DEF Abandon
<1>6. CASE UNCHANGED flightVars
  BY <1>6 DEF flightVars
<1> QED
  BY <1>1, <1>2, <1>3, <1>4, <1>5, <1>6 DEF FlightNext

------------------------------------------------------------------------------
(* Types and requests.                                                     *)

(* A rollback only installs files that were backed up.                     *)
LEMMA RestoredType ==
  ASSUME UpgradeTypeOK, NEW j \in Jobs, NEW n \in 0..NFiles
  PROVE  Restored(j, n) \in [Files -> Versions]
BY DEF UpgradeTypeOK, Restored, Versions, Missing

(* A report records the installed files.                                   *)
LEMMA ReportType ==
  ASSUME UpgradeTypeOK, NEW j \in Jobs, NEW status \in Finals, Report(j, status)
  PROVE  reports' \subseteq [job : Jobs, status : Finals, installed : [Files -> Versions],
                             spoiled : BOOLEAN]
<1>1. Spoiled \in BOOLEAN
  BY DEF UpgradeTypeOK, Spoiled
<1> QED
  BY <1>1 DEF UpgradeTypeOK, Report

(* Whoever is about to await or has awaited has the thread to itself.      *)
LEMMA ThreadFree ==
  ASSUME NEW h \in Handlers, NEW step, step \notin Synchronous, At(h, step)
  PROVE  ThreadIsFree
BY DEF At

LEMMA TypeInit == Init => TypeInv
<1> SUFFICES ASSUME Init PROVE TypeInv
  OBVIOUS
<1>1. UpgradeTypeOK
  <2>1. 1 \in Versions /\ 0 \in 0..NFiles
    BY UpgradeAssumption DEF Versions
  <2>2. up \in [Handlers -> [step : Steps, job : Jobs \union {NoJob}, at : 0..NFiles]]
    BY <2>1 DEF Init, Steps, AtRest
  <2>3. files \in [Files -> Versions]
    BY <2>1 DEF Init
  <2>4. backup \in [Jobs -> [Files -> Versions \union {Missing}]]
    BY DEF Init
  <2> QED
    BY <2>1, <2>2, <2>3, <2>4
    DEF Init, FlightInit, FlightTypeOK, UpgradeTypeOK, Stages
<1>2. OverlapNeedsRobbery
  BY DEF Init, FlightInit, OverlapNeedsRobbery
<1>3. RequestsAreNewer /\ StateNamesItsJob /\ OneThread
  BY DEF Init, RequestsAreNewer, StateNamesItsJob, OneThread, AtRest, Synchronous
<1> QED
  BY <1>1, <1>2, <1>3 DEF TypeInv

LEMMA TypeStep == TypeInv /\ [Next]_vars => TypeInv'
<1> SUFFICES ASSUME TypeInv, [Next]_vars PROVE TypeInv'
  OBVIOUS
<1> DEFINE Kept == /\ FlightTypeOK' /\ OverlapNeedsRobbery'
           Rest == UpgradeTypeOK' /\ RequestsAreNewer' /\ StateNamesItsJob' /\ OneThread'
<1>0. Kept
  BY FlightSteps, FlightInvariant DEF TypeInv, UpgradeTypeOK
<1> USE UpgradeAssumption
    DEF TypeInv, UpgradeTypeOK, RequestsAreNewer, StateNamesItsJob, OneThread
<1>1. ASSUME NEW h \in Handlers, NEW j \in Jobs, AlreadyThere(h, j) PROVE Rest
  BY <1>0, <1>1, ReportType DEF AlreadyThere, Comes, LockKept, flightVars, Finals
<1>2. ASSUME NEW h \in Handlers, NEW j \in Jobs, RefuseDowngrade(h, j) PROVE Rest
  BY <1>0, <1>2, ReportType
  DEF RefuseDowngrade, Comes, LockKept, flightVars, Finals, WriteState, Stages
<1>3. ASSUME NEW h \in Handlers, NEW j \in Jobs, Accept(h, j) PROVE Rest
  BY <1>0, <1>3
  DEF Accept, Comes, LockKept, flightVars, At, ThreadIsFree, Steps, Synchronous
<1>4. ASSUME NEW h \in Handlers, TakeLock(h) PROVE Rest
  BY <1>0, <1>4
  DEF TakeLock, Start, At, ThreadIsFree, Goto, WriteState, Stages, Steps, Synchronous,
      counters
<1>5. ASSUME NEW h \in Handlers, GiveUp(h) PROVE Rest
  BY <1>0, <1>5, ReportType
  DEF GiveUp, LockKept, flightVars, At, AtRest, Steps, Synchronous, counters, Finals
<1>6. ASSUME NEW h \in Handlers, BackUpFile(h) \/ BackedUp(h) PROVE Rest
  <2>1. /\ up[h].step \in {"downloading", "copying"}
        /\ \A g \in Handlers : g # h => up[g].step \notin Synchronous
    BY <1>6 DEF BackUpFile, BackedUp, At, ThreadIsFree, Synchronous
  <2>2. up[h].at \in 0..NFiles /\ 0 \in 0..NFiles /\ up[h].job \in Jobs
    BY <2>1
  <2>3. PICK step \in {"copying", "installing"}, at \in 0..NFiles :
          up' = [up EXCEPT ![h] = [up[h] EXCEPT !.step = step, !.at = at]]
    <3>1. CASE BackUpFile(h)
      <4>1. up[h].at + 1 \in 0..NFiles
        BY <2>2, <3>1 DEF BackUpFile
      <4> QED
        BY <3>1, <4>1 DEF BackUpFile
    <3>2. CASE BackedUp(h)
      <4>1. up' = [up EXCEPT ![h] = [up[h] EXCEPT !.step = "installing", !.at = 0]]
        BY <3>2 DEF BackedUp
      <4> QED
        BY <2>2, <4>1
    <3> QED
      BY <1>6, <3>1, <3>2
  <2>4. backup' \in [Jobs -> [Files -> Versions \union {Missing}]]
    <3>1. CASE BackUpFile(h)
      <4>1. up[h].at + 1 \in Files
        BY <2>2, <3>1 DEF BackUpFile, Files
      <4> QED
        BY <2>2, <3>1, <4>1 DEF BackUpFile
    <3>2. CASE BackedUp(h)
      BY <3>2 DEF BackedUp
    <3> QED
      BY <1>6, <3>1, <3>2
  <2>5. UNCHANGED <<flightVars, proc, exiting, files, stateFile, reports, torn, ran, counters>>
    BY <1>6 DEF BackUpFile, BackedUp, LockKept
  <2>6. UpgradeTypeOK'
    <3>1. step \in Steps
      BY DEF Steps, Synchronous
    <3>2. up' \in [Handlers -> [step : Steps, job : Jobs \union {NoJob}, at : 0..NFiles]]
      <4> DEFINE Requested == [step : Steps, job : Jobs \union {NoJob}, at : 0..NFiles]
                 u == [up[h] EXCEPT !.step = step, !.at = at]
      <4>1. up \in [Handlers -> Requested] /\ u \in Requested
        BY <3>1
      <4>2. up' = [up EXCEPT ![h] = u]
        BY <2>3
      <4> HIDE DEF Requested, u
      <4>3. up' \in [Handlers -> Requested]
        BY <4>1, <4>2
      <4> QED
        BY <4>3 DEF Requested
    <3>3. UNCHANGED <<proc, exiting, files, stateFile, reports, torn, ran, requests, faults,
                      robberies>>
      BY <2>5 DEF counters
    <3> QED
      BY <1>0, <2>4, <3>2, <3>3
  <2>7. \A g \in Handlers : g # h => up'[g] = up[g]
    BY <2>3
  <2>8. up'[h].step \in Synchronous /\ up'[h].job = up[h].job
    BY <2>3 DEF Synchronous
  <2>9. RequestsAreNewer' /\ StateNamesItsJob' /\ OneThread'
    BY <2>1, <2>5, <2>7, <2>8 DEF Synchronous, flightVars
  <2> QED
    BY <2>6, <2>9
<1>7. ASSUME NEW h \in Handlers, InstallFile(h) PROVE Rest
  <2>1. /\ up[h].at + 1 \in 0..NFiles /\ up[h].at + 1 \in Files
        /\ up[h].job \in Jobs /\ TargetOf[up[h].job] \in Versions
    BY <1>7 DEF InstallFile, At, Files
  <2>2. /\ up' = [up EXCEPT ![h] = [up[h] EXCEPT !.at = up[h].at + 1]]
        /\ up[h].step = "installing"
    BY <1>7 DEF InstallFile, At
  <2>3. files' \in [Files -> Versions]
    BY <1>7, <2>1 DEF InstallFile
  <2> QED
    BY <1>0, <1>7, <2>1, <2>2, <2>3, SMTT(30)
    DEF InstallFile, LockKept, flightVars, Steps, Synchronous, counters
<1>8. ASSUME NEW h \in Handlers, Installed(h) PROVE Rest
  BY <1>0, <1>8
  DEF Installed, LockKept, flightVars, At, Goto, WriteState, Stages, Steps, Synchronous,
      counters
<1>9. ASSUME NEW h \in Handlers, StepFails(h) PROVE Rest
  BY <1>0, <1>9
  DEF StepFails, LockKept, flightVars, At, ThreadIsFree, Goto, Fault, Steps, Synchronous
<1>10. ASSUME NEW h \in Handlers, RollBack(h) PROVE Rest
  <2>1. files' \in [Files -> Versions] /\ torn' \in BOOLEAN
    BY <1>10, RestoredType DEF RollBack, At
  <2> QED
    BY <1>0, <1>10, <2>1
    DEF RollBack, LockKept, flightVars, At, Goto, WriteState, Stages, Steps, Synchronous,
        counters
<1>11. ASSUME NEW h \in Handlers, NEW n \in 0..NFiles, RollBackFails(h, n) PROVE Rest
  <2>1. files' \in [Files -> Versions]
    BY <1>11, RestoredType DEF RollBackFails, At
  <2>2. torn' \in BOOLEAN
    BY <1>11 DEF RollBackFails
  <2> QED
    BY <1>0, <1>11, <2>1, <2>2
    DEF RollBackFails, LockKept, flightVars, At, Goto, Fault, Steps, Synchronous
<1>12. ASSUME NEW h \in Handlers, Leaves(h) PROVE Rest
  BY <1>0, <1>12 DEF Leaves, Leave, upgradeVars, counters
<1>13. ASSUME NEW h \in Handlers, Release(h) PROVE Rest
  BY <1>0, <1>13
  DEF Release, Stop, At, AtRest, Steps, Synchronous, counters
<1>14. ASSUME NEW h \in Handlers, ReportFailure(h) PROVE Rest
  BY <1>0, <1>14, ReportType
  DEF ReportFailure, LockKept, flightVars, At, AtRest, WriteState, Stages, Steps,
      Synchronous, counters, Finals
<1>15. ASSUME Exit \/ Crash PROVE Rest
  <2>1. ProcessEnds /\ faults' \in Nat
    BY <1>15 DEF Exit, Crash, Fault
  <2>2. torn' \in BOOLEAN
    BY <2>1 DEF ProcessEnds
  <2>3. AtRest \in [step : Steps, job : Jobs \union {NoJob}, at : 0..NFiles]
    BY DEF AtRest, Steps
  <2>4. UpgradeTypeOK'
    BY <1>0, <2>1, <2>2, <2>3 DEF ProcessEnds
  <2>5. \A h \in Handlers : up'[h].step = "idle"
    BY <2>1 DEF ProcessEnds, AtRest
  <2> QED
    BY <2>1, <2>4, <2>5 DEF ProcessEnds, Synchronous
<1>16. CASE Restart
  BY <1>0, <1>16 DEF Restart, LockKept, flightVars, counters, Synchronous, Versions, Files
<1>17. CASE Confirm
  BY <1>0, <1>17, ReportType
  DEF Confirm, LockKept, flightVars, WriteState, Stages, counters, Finals
<1>18. ASSUME NEW c \in Collections, Collect(c) PROVE Rest
  BY <1>0, <1>18 DEF Collect, Start, upgradeVars, counters
<1>19. ASSUME NEW c \in Collections, CollectionStep(c) PROVE Rest
  BY <1>0, <1>19
  DEF CollectionStep, CollectionLeaves, CollectionEnds, Leave, Stop, upgradeVars, counters,
      Synchronous
<1>20. ASSUME NEW a \in Actors, Robbed(a) PROVE Rest
  BY <1>0, <1>20 DEF Robbed, Rob, upgradeVars, counters
<1>21. CASE UNCHANGED vars
  BY <1>0, <1>21 DEF vars, flightVars, upgradeVars, counters
<1>22. Rest
  BY <1>1, <1>2, <1>3, <1>4, <1>5, <1>6, <1>7, <1>8, <1>9, <1>10, <1>11, <1>12, <1>13,
     <1>14, <1>15, <1>16, <1>17, <1>18, <1>19, <1>20, <1>21
  DEF Next, HandlerStep, ProcessStep
<1> QED
  BY <1>0, <1>22

------------------------------------------------------------------------------
(* The files.                                                              *)

(* Backing up, installing and rolling back are the steps that write files; *)
(* a process may end between them.                                         *)
FileStep ==
  \/ \E h \in Handlers :
       BackUpFile(h) \/ BackedUp(h) \/ InstallFile(h) \/ Installed(h) \/ StepFails(h) \/ RollBack(h)
         \/ \E n \in 0..NFiles : RollBackFails(h, n)
  \/ Exit \/ Crash \/ Restart

\* The part of the step that is doing something with files.
FilePart(step) == IF step \in {"copying", "installing", "failing"} THEN step ELSE "other"

\* Every other step leaves the files, the backups and the installs alone.
Aside ==
  /\ UNCHANGED <<files, backup, torn, ran>>
  /\ \A h \in Handlers :
       /\ FilePart(up'[h].step) = FilePart(up[h].step)
       /\ up[h].step \in {"copying", "installing", "failing"} => up'[h] = up[h]

LEMMA OtherSteps == TypeInv /\ [Next]_vars => FileStep \/ Aside
<1> SUFFICES ASSUME TypeInv, [Next]_vars, ~FileStep PROVE Aside
  OBVIOUS
<1> USE DEF TypeInv, UpgradeTypeOK, Aside, FilePart
<1>1. ASSUME NEW h \in Handlers, NEW j \in Jobs,
             AlreadyThere(h, j) \/ RefuseDowngrade(h, j) \/ Accept(h, j)
      PROVE  Aside
  BY <1>1 DEF AlreadyThere, RefuseDowngrade, Accept, Comes, At
<1>2. ASSUME NEW h \in Handlers, TakeLock(h) \/ GiveUp(h) \/ ReportFailure(h)
      PROVE  Aside
  BY <1>2 DEF TakeLock, GiveUp, ReportFailure, At, Goto, AtRest
<1>3. ASSUME NEW h \in Handlers, Leaves(h) \/ Release(h) PROVE Aside
  BY <1>3 DEF Leaves, Release, At, AtRest, upgradeVars
<1>4. CASE Confirm
  BY <1>4 DEF Confirm
<1>5. ASSUME NEW c \in Collections, Collect(c) \/ CollectionStep(c) PROVE Aside
  BY <1>5 DEF Collect, CollectionStep, CollectionLeaves, CollectionEnds, upgradeVars
<1>6. ASSUME NEW a \in Actors, Robbed(a) PROVE Aside
  BY <1>6 DEF Robbed, upgradeVars
<1>7. CASE UNCHANGED vars
  BY <1>7 DEF vars, upgradeVars
<1> QED
  BY <1>1, <1>2, <1>3, <1>4, <1>5, <1>6, <1>7
  DEF Next, HandlerStep, ProcessStep, FileStep

(* While a request may take its next step after an await, or the service   *)
(* is down, nobody is installing or rolling back.                          *)
LEMMA NobodyAtWork ==
  ASSUME ThreadIsFree
  PROVE  \A h \in Handlers : up[h].step \notin {"copying", "installing", "failing"}
BY DEF ThreadIsFree, Synchronous

LEMMA FilesInit == Init => FilesAreWhole
BY DEF Init, FilesAreWhole, Uniform, AtRest

LEMMA FilesStep == TypeInv /\ FilesAreWhole /\ [Next]_vars => FilesAreWhole'
<1> SUFFICES ASSUME TypeInv, FilesAreWhole, [Next]_vars, ~torn' PROVE FilesAreWhole'
  BY DEF FilesAreWhole
<1> DEFINE Busy(h) == up[h].step \in {"copying", "installing", "failing"}
<1> USE DEF TypeInv, UpgradeTypeOK
<1>1. CASE Aside
  <2>1. files' = files /\ backup' = backup /\ torn' = torn
    BY <1>1 DEF Aside
  <2>2. \A h \in Handlers :
          /\ up'[h].step = "copying" <=> up[h].step = "copying"
          /\ up'[h].step = "installing" <=> up[h].step = "installing"
          /\ up'[h].step = "failing" <=> up[h].step = "failing"
    BY <1>1 DEF Aside, FilePart
  <2>3. ASSUME NEW h \in Handlers
        PROVE  /\ up'[h].step = "copying" => HalfBackedUp(h)'
               /\ up'[h].step = "installing" => HalfInstalled(h)'
               /\ up'[h].step = "failing" => CanRollBack(h)'
    <3>1. Busy(h) => up'[h] = up[h]
      BY <1>1 DEF Aside
    <3> QED
      BY <2>1, <2>2, <3>1 DEF FilesAreWhole, HalfBackedUp, HalfInstalled, CanRollBack, Uniform
  <2> QED
    BY <2>1, <2>2, <2>3 DEF FilesAreWhole, Uniform
<1>2. ASSUME NEW h \in Handlers, BackUpFile(h) \/ BackedUp(h) PROVE FilesAreWhole'
  <2>1. /\ ~torn /\ files' = files /\ up[h].step \in {"downloading", "copying"}
        /\ up[h].at \in 0..NFiles /\ up[h].job \in Jobs
        /\ up[h].step = "downloading" => up[h].at = 0 /\ ThreadIsFree
    BY <1>2 DEF BackUpFile, BackedUp, At, RequestsAreNewer, Synchronous
  <2>2. \A g \in Handlers : g # h => ~Busy(g)
    BY <2>1, NobodyAtWork DEF OneThread, Synchronous
  <2>3. HalfBackedUp(h)
    BY <2>1 DEF FilesAreWhole, HalfBackedUp, Files
  <2>4. Uniform(files)
    BY <2>1, <2>2 DEF FilesAreWhole
  <2>5. \A g \in Handlers : g # h => up'[g] = up[g]
    BY <1>2 DEF BackUpFile, BackedUp
  <2>6. CASE BackUpFile(h)
    <3> DEFINE next == up[h].at + 1
    <3>1. /\ next \in Files /\ \A f \in Files : f <= next <=> f <= up[h].at \/ f = next
      BY <2>1, <2>6, UpgradeAssumption DEF BackUpFile, Files
    <3>2. /\ up'[h].step = "copying" /\ up'[h].at = next /\ up'[h].job = up[h].job
          /\ backup' = [backup EXCEPT ![up[h].job][next] = files[next]]
      BY <2>6 DEF BackUpFile
    <3> HIDE DEF next
    <3>3. HalfBackedUp(h)'
      BY <2>1, <2>3, <3>1, <3>2 DEF HalfBackedUp
    <3> QED
      BY <2>1, <2>2, <2>4, <2>5, <3>2, <3>3 DEF FilesAreWhole, Uniform
  <2>7. CASE BackedUp(h)
    <3>1. /\ up[h].at = NFiles /\ backup' = backup
          /\ up'[h].step = "installing" /\ up'[h].at = 0 /\ up'[h].job = up[h].job
      BY <2>7 DEF BackedUp
    <3>2. \A f \in Files : f <= NFiles /\ ~(f <= 0)
      BY UpgradeAssumption DEF Files
    <3>3. \A f \in Files : files[f] # Missing
      BY UpgradeAssumption DEF Versions, Missing
    <3>4. HalfInstalled(h)'
      BY <2>1, <2>3, <3>1, <3>2, <3>3 DEF HalfBackedUp, HalfInstalled
    <3> QED
      BY <2>1, <2>2, <2>4, <2>5, <3>1, <3>4 DEF FilesAreWhole, Uniform
  <2> QED
    BY <1>2, <2>6, <2>7
<1>3. ASSUME NEW h \in Handlers, InstallFile(h) PROVE FilesAreWhole'
  <2>1. /\ ~torn /\ up[h].step = "installing" /\ up[h].at < NFiles
        /\ up[h].job \in Jobs /\ up[h].at \in 0..NFiles
        /\ up' = [up EXCEPT ![h] = [up[h] EXCEPT !.at = up[h].at + 1]]
        /\ files' = [files EXCEPT ![up[h].at + 1] = TargetOf[up[h].job]]
        /\ backup' = backup
    BY <1>3 DEF InstallFile, At, RequestsAreNewer
  <2>2. \A g \in Handlers : g # h => ~Busy(g)
    BY <2>1 DEF OneThread, Synchronous
  <2>3. HalfInstalled(h)
    BY <2>1 DEF FilesAreWhole
  <2>4. up'[h].at = up[h].at + 1 /\ up'[h].job = up[h].job /\ up'[h].step = "installing"
    BY <2>1
  <2>5. \A f \in Files : f <= up[h].at + 1 <=> f <= up[h].at \/ f = up[h].at + 1
    BY <2>1 DEF Files
  <2>6. HalfInstalled(h)'
    BY <2>1, <2>3, <2>4, <2>5 DEF HalfInstalled
  <2>7. \A g \in Handlers : g # h => up'[g].step \notin {"copying", "installing", "failing"}
    BY <2>1, <2>2
  <2> QED
    BY <2>1, <2>4, <2>6, <2>7 DEF FilesAreWhole, Uniform
<1>4. ASSUME NEW h \in Handlers, Installed(h) PROVE FilesAreWhole'
  <2>1. /\ ~torn /\ up[h].step = "installing" /\ up[h].at = NFiles
        /\ up' = [up EXCEPT ![h] = [up[h] EXCEPT !.step = "installed"]]
        /\ UNCHANGED <<files, backup>>
    BY <1>4 DEF Installed, At, Goto
  <2>2. \A f \in Files : f <= up[h].at
    BY <2>1, UpgradeAssumption DEF Files
  <2>3. Uniform(files)
    BY <2>1, <2>2 DEF FilesAreWhole, HalfInstalled, Uniform
  <2>4. \A g \in Handlers : up'[g].step \notin {"copying", "installing", "failing"}
    BY <2>1 DEF OneThread, Synchronous
  <2> QED
    BY <2>1, <2>3, <2>4 DEF FilesAreWhole, Uniform
<1>5. ASSUME NEW h \in Handlers, StepFails(h) PROVE FilesAreWhole'
  <2>1. /\ ~torn /\ up[h].step \in {"downloading", "copying", "installing"}
        /\ up' = [up EXCEPT ![h] = [up[h] EXCEPT !.step = "failing"]]
        /\ UNCHANGED <<files, backup>>
    BY <1>5 DEF StepFails, At, Goto
  <2>2. CanRollBack(h)
    <3>1. CASE up[h].step = "downloading"
      BY <1>5, <3>1, NobodyAtWork
      DEF StepFails, At, Synchronous, FilesAreWhole, CanRollBack
    <3>2. CASE up[h].step = "installing"
      BY <2>1, <3>2 DEF FilesAreWhole, HalfInstalled, CanRollBack
    <3>3. CASE up[h].step = "copying"
      BY <2>1, <3>3 DEF OneThread, Synchronous, FilesAreWhole, CanRollBack
    <3> QED
      BY <2>1, <3>1, <3>2, <3>3
  <2>3. \A g \in Handlers : g # h => ~Busy(g)
    <3>1. CASE up[h].step = "downloading"
      BY <1>5, <3>1, NobodyAtWork DEF StepFails, At, Synchronous
    <3>2. CASE up[h].step \in {"copying", "installing"}
      BY <3>2 DEF OneThread, Synchronous
    <3> QED
      BY <2>1, <3>1, <3>2
  <2>4. CanRollBack(h)' /\ up'[h].step = "failing"
    BY <2>1, <2>2 DEF CanRollBack, Uniform
  <2>5. \A g \in Handlers : g # h => up'[g].step \notin {"copying", "installing", "failing"}
    BY <2>1, <2>3
  <2> QED
    BY <2>1, <2>4, <2>5 DEF FilesAreWhole, Uniform
<1>6. ASSUME NEW h \in Handlers, RollBack(h) PROVE FilesAreWhole'
  <2>1. /\ ~torn /\ up[h].step = "failing" /\ up[h].job \in Jobs
        /\ up' = [up EXCEPT ![h] = [up[h] EXCEPT !.step = "failed"]]
        /\ files' = Restored(up[h].job, NFiles) /\ backup' = backup
        /\ Uniform(backup[up[h].job]) \/ Uniform(files')
    BY <1>6 DEF RollBack, At, Goto, RequestsAreNewer
  <2>2. \A f \in Files : f <= NFiles
    BY UpgradeAssumption DEF Files
  <2>3. CanRollBack(h)
    BY <2>1 DEF FilesAreWhole
  <2>4. Uniform(files')
    BY <2>1, <2>2, <2>3 DEF Restored, Uniform, CanRollBack
  <2>5. \A g \in Handlers : up'[g].step \notin {"copying", "installing", "failing"}
    BY <2>1 DEF OneThread, Synchronous
  <2> QED
    BY <2>1, <2>4, <2>5 DEF FilesAreWhole, Uniform
<1>7. ASSUME NEW h \in Handlers, NEW n \in 0..NFiles, RollBackFails(h, n)
      PROVE  FilesAreWhole'
  <2>1. /\ ~torn /\ up[h].step = "failing" /\ Uniform(files')
        /\ up' = [up EXCEPT ![h] = [up[h] EXCEPT !.step = "failed"]]
        /\ backup' = backup
    BY <1>7 DEF RollBackFails, At, Goto
  <2>2. \A g \in Handlers : up'[g].step \notin {"copying", "installing", "failing"}
    BY <2>1 DEF OneThread, Synchronous
  <2> QED
    BY <2>1, <2>2 DEF FilesAreWhole, Uniform
<1>8. ASSUME Exit \/ Crash PROVE FilesAreWhole'
  <2>1. ~torn /\ (Uniform(files) \/ ThreadIsFree) /\ UNCHANGED <<files, backup>>
    BY <1>8 DEF Exit, Crash, ProcessEnds
  <2>2. Uniform(files)
    BY <2>1, NobodyAtWork DEF FilesAreWhole
  <2>3. \A h \in Handlers : up'[h].step = "idle"
    BY <1>8 DEF Exit, Crash, ProcessEnds, AtRest
  <2> QED
    BY <2>1, <2>2, <2>3 DEF FilesAreWhole, Uniform
<1>9. CASE Restart
  BY <1>9 DEF Restart, FilesAreWhole, Uniform, HalfBackedUp, HalfInstalled, CanRollBack
<1> QED
  BY <1>1, <1>2, <1>3, <1>4, <1>5, <1>6, <1>7, <1>8, <1>9, OtherSteps DEF FileStep

------------------------------------------------------------------------------
(* The versions.                                                           *)

LEMMA CurrentInit == Init => CollectorIsCurrent
BY UpgradeAssumption DEF Init, CollectorIsCurrent, Files

(* What a request restores or installs is not older than what ran last, or *)
(* its own backup is the old one.                                          *)
LEMMA CurrentStep == TypeInv /\ CollectorIsCurrent /\ [Next]_vars => CollectorIsCurrent'
<1> SUFFICES ASSUME TypeInv, CollectorIsCurrent, [Next]_vars PROVE CollectorIsCurrent'
  OBVIOUS
<1> USE DEF TypeInv, UpgradeTypeOK
<1>1. /\ 1 \in Files /\ ran \in Nat /\ files[1] \in Nat /\ files \in [Files -> Versions]
      /\ \A j \in Jobs : TargetOf[j] \in Nat /\ backup[j][1] \in Nat
  BY UpgradeAssumption DEF Files, Versions, Missing
<1>2. ASSUME UNCHANGED <<files, backup, ran>> PROVE CollectorIsCurrent'
  BY <1>2 DEF CollectorIsCurrent, OldBackup
<1>3. CASE Aside
  BY <1>2, <1>3 DEF Aside
<1>4. ASSUME NEW h \in Handlers, BackUpFile(h) PROVE CollectorIsCurrent'
  <2>1. PICK j \in Jobs, i \in Files :
          /\ TargetOf[j] > ran
          /\ backup' = [backup EXCEPT ![j][i] = files[i]] /\ files' = files /\ ran' = ran
    <3>1. up[h].job \in Jobs /\ TargetOf[up[h].job] > ran
      BY <1>4 DEF BackUpFile, At, RequestsAreNewer
    <3>2. up[h].at + 1 \in Files
      BY <1>4 DEF BackUpFile, Files
    <3> QED
      BY <1>4, <3>1, <3>2 DEF BackUpFile
  <2>2. CASE files[1] >= ran
    BY <2>1, <2>2 DEF CollectorIsCurrent
  <2>3. CASE files[1] < ran
    <3>1. PICK k \in Jobs : OldBackup(k)
      BY <1>1, <2>3 DEF CollectorIsCurrent
    <3>2. /\ backup'[k][1] = backup[k][1] \/ backup'[k][1] = files[1]
          /\ files[1] # Missing
      BY <1>1, <2>1, UpgradeAssumption DEF Versions, Missing
    <3>3. OldBackup(k)'
      BY <2>1, <2>3, <3>1, <3>2 DEF OldBackup
    <3> QED
      BY <3>3 DEF CollectorIsCurrent
  <2> QED
    BY <1>1, <2>2, <2>3
<1>5. ASSUME NEW h \in Handlers, InstallFile(h) PROVE CollectorIsCurrent'
  <2>1. /\ up[h].job \in Jobs /\ TargetOf[up[h].job] > ran
        /\ files' = [files EXCEPT ![up[h].at + 1] = TargetOf[up[h].job]]
        /\ backup' = backup /\ ran' = ran
    BY <1>5 DEF InstallFile, At, RequestsAreNewer
  <2>2. files'[1] = TargetOf[up[h].job] \/ files'[1] = files[1]
    BY <1>1, <2>1
  <2> QED
    BY <1>1, <2>1, <2>2 DEF CollectorIsCurrent, OldBackup
<1>6. ASSUME NEW h \in Handlers, BackedUp(h) \/ Installed(h) \/ StepFails(h)
      PROVE  CollectorIsCurrent'
  BY <1>2, <1>6 DEF BackedUp, Installed, StepFails
<1>7. ASSUME NEW h \in Handlers, NEW n \in 0..NFiles, RollBack(h) \/ RollBackFails(h, n)
      PROVE  CollectorIsCurrent'
  <2>1. /\ up[h].job \in Jobs /\ TargetOf[up[h].job] > ran
        /\ backup' = backup /\ ran' = ran
    BY <1>7 DEF RollBack, RollBackFails, At, RequestsAreNewer
  <2>2. PICK m \in 0..NFiles : files' = Restored(up[h].job, m)
    BY <1>7, UpgradeAssumption DEF RollBack, RollBackFails
  <2>3. files'[1] = files[1]
          \/ (files'[1] = backup[up[h].job][1] /\ backup[up[h].job][1] # Missing)
    BY <1>1, <2>2 DEF Restored
  <2>4. OldBackup(up[h].job) \/ files'[1] >= ran \/ files'[1] = files[1]
    BY <1>1, <2>1, <2>3 DEF OldBackup
  <2> QED
    BY <2>1, <2>4 DEF CollectorIsCurrent, OldBackup
<1>8. CASE Exit \/ Crash
  BY <1>2, <1>8 DEF Exit, Crash, ProcessEnds
<1>9. CASE Restart
  BY <1>1, <1>9 DEF Restart, CollectorIsCurrent
<1> QED
  BY <1>3, <1>4, <1>5, <1>6, <1>7, <1>8, <1>9, OtherSteps, UpgradeAssumption DEF FileStep

(* A success that is reported is one of the version that runs, whose files *)
(* are installed.                                                          *)
LEMMA SuccessStep ==
  TypeInv /\ FilesAreWhole /\ CollectorIsCurrent /\ SuccessMeansInstalled /\ [Next]_vars
    => SuccessMeansInstalled'
<1> SUFFICES ASSUME TypeInv, FilesAreWhole, CollectorIsCurrent, SuccessMeansInstalled,
                    [Next]_vars
             PROVE  SuccessMeansInstalled'
  OBVIOUS
<1> USE DEF TypeInv, UpgradeTypeOK
<1>1. ASSUME reports' = reports PROVE SuccessMeansInstalled'
  BY <1>1 DEF SuccessMeansInstalled
<1>2. ASSUME NEW j \in Jobs, NEW status \in {"failed", "requires_manual_step"},
             Report(j, status)
      PROVE  SuccessMeansInstalled'
  BY <1>2 DEF Report, SuccessMeansInstalled
<1>3. ASSUME NEW j \in Jobs, ThreadIsFree, TargetOf[j] = proc, Report(j, "succeeded")
      PROVE  SuccessMeansInstalled'
  <2>1. Spoiled \/ \A f \in Files : files[f] >= TargetOf[j]
    <3>1. SUFFICES ASSUME ~Spoiled, NEW f \in Files PROVE files[f] >= TargetOf[j]
      OBVIOUS
    <3>0. ~torn /\ \A i \in Jobs : ~OldBackup(i)
      BY <3>1 DEF Spoiled
    <3>4. Uniform(files)
      BY <1>3, <3>0, NobodyAtWork DEF FilesAreWhole
    <3>2. files[f] = files[1]
      BY <3>4, UpgradeAssumption DEF Uniform, Files
    <3>3. files[1] >= ran /\ ran = TargetOf[j]
      BY <1>3, <3>0 DEF CollectorIsCurrent, StateNamesItsJob, ThreadIsFree
    <3> QED
      BY <3>2, <3>3
  <2> QED
    BY <1>3, <2>1 DEF Report, SuccessMeansInstalled
<1>4. ASSUME NEW h \in Handlers, NEW j \in Jobs, AlreadyThere(h, j)
      PROVE  SuccessMeansInstalled'
  BY <1>3, <1>4 DEF AlreadyThere, Comes, At, Synchronous
<1>5. CASE Confirm
  BY <1>3, <1>5 DEF Confirm, StateNamesItsJob
<1>6. ASSUME NEW h \in Handlers, NEW j \in Jobs, RefuseDowngrade(h, j) \/ Accept(h, j)
      PROVE  SuccessMeansInstalled'
  BY <1>1, <1>2, <1>6 DEF RefuseDowngrade, Accept
<1>7. ASSUME NEW h \in Handlers, GiveUp(h) \/ ReportFailure(h)
      PROVE  SuccessMeansInstalled'
  <2>1. up[h].job \in Jobs
    BY <1>7 DEF GiveUp, ReportFailure, At, RequestsAreNewer
  <2> QED
    BY <1>2, <1>7, <2>1 DEF GiveUp, ReportFailure
<1>8. ASSUME NEW h \in Handlers, HandlerStep(h), ~GiveUp(h), ~ReportFailure(h)
      PROVE  reports' = reports
  BY <1>8 DEF HandlerStep, TakeLock, BackUpFile, BackedUp, InstallFile, Installed, RollBack,
              Leaves, Release, upgradeVars
<1>9. ASSUME NEW h \in Handlers, NEW n \in 0..NFiles, StepFails(h) \/ RollBackFails(h, n)
      PROVE  reports' = reports
  BY <1>9 DEF StepFails, RollBackFails
<1>10. ASSUME Exit \/ Crash \/ Restart PROVE reports' = reports
  BY <1>10 DEF Exit, Crash, ProcessEnds, Restart
<1>11. ASSUME NEW c \in Collections, Collect(c) \/ CollectionStep(c)
       PROVE  reports' = reports
  BY <1>11 DEF Collect, CollectionStep, CollectionLeaves, CollectionEnds, upgradeVars
<1>12. ASSUME NEW a \in Actors, Robbed(a) PROVE reports' = reports
  BY <1>12 DEF Robbed, upgradeVars
<1>13. CASE UNCHANGED vars
  BY <1>1, <1>13 DEF vars, upgradeVars
<1>14. NFiles \in 0..NFiles
  BY UpgradeAssumption
<1> QED
  BY <1>1, <1>4, <1>5, <1>6, <1>7, <1>8, <1>9, <1>10, <1>11, <1>12, <1>13, <1>14
  DEF Next, ProcessStep

------------------------------------------------------------------------------
LEMMA UpgradeInvHolds == Spec => []UpgradeInv
<1>1. Init => UpgradeInv
  BY TypeInit, FilesInit, CurrentInit DEF UpgradeInv, Init, SuccessMeansInstalled
<1>2. UpgradeInv /\ [Next]_vars => UpgradeInv'
  BY TypeStep, FilesStep, CurrentStep, SuccessStep DEF UpgradeInv
<1> QED
  BY <1>1, <1>2, PTL DEF Spec

(* Upgrades and the collections beside them take, keep and lose the lock   *)
(* only as SingleFlight allows, also when their process exits or dies.     *)
THEOREM UpgradeKeepsToTheLock == Spec => FlightSpec
<1>1. Init => FlightInit
  BY DEF Init
<1> QED
  BY <1>1, FlightSteps, PTL DEF Spec, FlightSpec

(* The state of the upgrades is well typed, whatever overlaps, fails or    *)
(* dies: a rollback never installs a file that was not backed up.          *)
THEOREM UpgradeTypeCorrect == Spec => []UpgradeTypeOK
<1>1. UpgradeInv => UpgradeTypeOK
  BY DEF UpgradeInv, TypeInv
<1> QED
  BY <1>1, UpgradeInvHolds, PTL

(* A success is reported only with the version installed, unless a process *)
(* had died between two renames or a job has an old backup.                *)
THEOREM SuccessesAreInstalled == Spec => []SuccessMeansInstalled
<1>1. UpgradeInv => SuccessMeansInstalled
  BY DEF UpgradeInv
<1> QED
  BY <1>1, UpgradeInvHolds, PTL

(* A collection that still owns its lock never finds half of a version.    *)
THEOREM CollectionsFindOneVersion == Spec => []CollectionsSeeOneVersion
<1>1. UpgradeInv => CollectionsSeeOneVersion
  <2> SUFFICES ASSUME UpgradeInv, NEW c \in (Collections \intersect running) \ robbed,
                      ~torn, ~Uniform(files)
               PROVE  \E h \in Handlers \intersect robbed : up[h].step \in Synchronous
    BY DEF CollectionsSeeOneVersion
  <2>1. PICK h \in Handlers : up[h].step \in {"installing", "failing"}
    BY DEF UpgradeInv, FilesAreWhole
  <2>2. up[h].step \in Synchronous /\ h \in running
    BY <2>1 DEF UpgradeInv, TypeInv, RequestsAreNewer, Synchronous
  <2>3. h # c
    BY UpgradeAssumption
  <2>4. h \in robbed
    BY <2>2, <2>3 DEF UpgradeInv, TypeInv, OverlapNeedsRobbery
  <2> QED
    BY <2>2, <2>4
<1> QED
  BY <1>1, UpgradeInvHolds, PTL

(* A restart never starts a version older than the one that ran last,      *)
(* unless a job has an old backup.                                         *)
THEOREM RestartsAreNeverOlder == Spec => NeverOlder
<1>1. UpgradeInv /\ [Next]_vars
        => [proc = Down /\ proc' # Down => proc' >= ran \/ \E j \in Jobs : OldBackup(j)]_vars
  <2> SUFFICES ASSUME UpgradeInv, [Next]_vars, proc = Down, proc' # Down
               PROVE  proc' >= ran \/ \E j \in Jobs : OldBackup(j)
    OBVIOUS
  <2>1. proc' = files[1]
    <3>1. ~ThreadIsFree
      BY DEF ThreadIsFree
    <3>2. \A h \in Handlers : up[h].step = "idle"
      BY DEF UpgradeInv, TypeInv, RequestsAreNewer
    <3>3. \A h \in Handlers, j \in Jobs :
            ~AlreadyThere(h, j) /\ ~RefuseDowngrade(h, j) /\ ~Accept(h, j)
      BY <3>1 DEF AlreadyThere, RefuseDowngrade, Accept, Comes, At, Synchronous
    <3>4. \A h \in Handlers : ~HandlerStep(h) /\ ~StepFails(h)
      BY <3>2 DEF HandlerStep, TakeLock, GiveUp, BackUpFile, BackedUp, InstallFile, Installed,
                  RollBack, Leaves, Release, ReportFailure, StepFails, At
    <3>5. \A h \in Handlers, n \in 0..NFiles : ~RollBackFails(h, n)
      BY <3>2 DEF RollBackFails, At
    <3>6. ~Exit /\ ~Crash /\ ~Confirm
      BY <3>1 DEF Exit, Crash, Confirm
    <3>7. \A c \in Collections : ~Collect(c) /\ ~CollectionStep(c)
      BY DEF Collect, CollectionStep, CollectionLeaves, CollectionEnds, upgradeVars
    <3>8. \A a \in Actors : ~Robbed(a)
      BY DEF Robbed, upgradeVars
    <3>9. ~UNCHANGED vars
      BY DEF vars, upgradeVars
    <3>10. Restart
      BY <3>3, <3>4, <3>5, <3>6, <3>7, <3>8, <3>9 DEF Next, ProcessStep
    <3> QED
      BY <3>10 DEF Restart
  <2> QED
    BY <2>1 DEF UpgradeInv, CollectorIsCurrent
<1> QED
  BY <1>1, UpgradeInvHolds, PTL DEF Spec, NeverOlder
==============================================================================
