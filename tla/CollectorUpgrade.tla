---- MODULE CollectorUpgrade ----
(***************************************************************************)
(* The collector replaces itself (performCollectorUpgrade): a request to   *)
(* upgrade takes the run lock, downloads and verifies the package, copies  *)
(* the installed files to a backup, renames the new files into place one   *)
(* by one, writes upgrade-state.json and lets the process exit; the        *)
(* service manager starts the new version, which confirms the upgrade when *)
(* it connects. Requests overlap wherever the code awaits; the process     *)
(* dies anywhere, also between two renames; file system calls fail.        *)
(***************************************************************************)
EXTENDS Naturals, FiniteSets, SingleFlight

CONSTANTS
  Handlers,      \* upgrade requests under way in the service
  Collections,   \* collection runs of other processes
  Jobs, TargetOf,          \* the upgrade jobs and the version each asks for
  NewestVersion, NFiles,   \* file 1 is the collector: it carries the version
  Down, NoJob,
  MaxRequests, MaxFaults, MaxRobberies    \* bounds

Versions == 1..NewestVersion
Files == 1..NFiles
Missing == 0

ASSUME UpgradeAssumption ==
  /\ Actors = Handlers \union Collections /\ Handlers \intersect Collections = {}
  /\ NewestVersion \in Nat \ {0} /\ NFiles \in Nat \ {0}
  /\ TargetOf \in [Jobs -> Versions]
  /\ Down \notin Versions /\ NoJob \notin Jobs

VARIABLES
  proc,          \* the version the service process runs, or Down
  exiting,       \* process.exit() is scheduled
  files,         \* the version of each installed file
  backup,        \* .previous/<jobId>: the version of each file copied there
  stateFile,     \* upgrade-state.json
  up,            \* what each request is doing
  reports,       \* final reports sent, with the files installed at that moment
                 \* and whether something had spoiled them
  torn,          \* the process died or a rollback failed between two files, or a
                 \* rollback from a partial backup mixed two versions
  ran,           \* the version that ran last
  requests, faults, robberies

upgradeVars == <<proc, exiting, files, backup, stateFile, up, reports, torn, ran>>
counters == <<requests, faults, robberies>>
vars == <<flightVars, upgradeVars, counters>>

Stages == {"none", "acknowledged", "restart_pending", "succeeded", "failed"}

Finals == {"succeeded", "failed", "requires_manual_step"}

\* From the last download to the release nothing is awaited.
Synchronous == {"copying", "installing", "failing", "failed", "installed"}

Steps == {"idle", "waiting", "downloading", "reporting"} \union Synchronous

UpgradeTypeOK ==
  /\ FlightTypeOK
  /\ proc \in Versions \union {Down} /\ exiting \in BOOLEAN
  /\ files \in [Files -> Versions]
  /\ backup \in [Jobs -> [Files -> Versions \union {Missing}]]
  /\ stateFile \in [stage : Stages, job : Jobs \union {NoJob}]
  /\ up \in [Handlers -> [step : Steps, job : Jobs \union {NoJob}, at : 0..NFiles]]
  /\ reports \subseteq [job : Jobs, status : Finals, installed : [Files -> Versions],
                        spoiled : BOOLEAN]
  /\ torn \in BOOLEAN /\ ran \in Versions
  /\ requests \in Nat /\ faults \in Nat /\ robberies \in Nat

AtRest == [step |-> "idle", job |-> NoJob, at |-> 0]

Init ==
  /\ FlightInit
  /\ proc = 1 /\ exiting = FALSE
  /\ files = [f \in Files |-> 1]
  /\ backup = [j \in Jobs |-> [f \in Files |-> Missing]]
  /\ stateFile = [stage |-> "none", job |-> NoJob]
  /\ up = [h \in Handlers |-> AtRest]
  /\ reports = {}
  /\ torn = FALSE /\ ran = 1
  /\ requests = 0 /\ faults = 0 /\ robberies = 0

Uniform(installed) == \A f, g \in Files : installed[f] = installed[g]

\* No request is between two awaits.
ThreadIsFree == proc # Down /\ \A h \in Handlers : up[h].step \notin Synchronous

At(h, step) == up[h].step = step /\ (step \in Synchronous \/ ThreadIsFree)

Goto(h, step) == up' = [up EXCEPT ![h].step = step]

WriteState(stage, j) == stateFile' = [stage |-> stage, job |-> j]

\* An earlier attempt of a job for a newer version has left a backup of a version
\* older than the one that ran last: when a later attempt fails, that backup is
\* restored.
OldBackup(j) == TargetOf[j] > ran /\ backup[j][1] # Missing /\ backup[j][1] < ran

Spoiled == torn \/ \E j \in Jobs : OldBackup(j)

Report(j, status) ==
  reports' = reports \union
    {[job |-> j, status |-> status, installed |-> files, spoiled |-> Spoiled]}

Fault == faults < MaxFaults /\ faults' = faults + 1

LockKept == UNCHANGED flightVars

-----------------------------------------------------------------------------
(* A request.                                                              *)

Comes(h) ==
  /\ At(h, "idle")
  /\ requests < MaxRequests /\ requests' = requests + 1
  /\ LockKept
  /\ UNCHANGED <<proc, exiting, files, backup, torn, ran, faults, robberies>>

AlreadyThere(h, j) ==
  /\ Comes(h)
  /\ proc = TargetOf[j]
  /\ Report(j, "succeeded")
  /\ UNCHANGED <<stateFile, up>>

\* The error leaves performCollectorUpgrade(); handleControlMessage() reports it.
RefuseDowngrade(h, j) ==
  /\ Comes(h)
  /\ proc > TargetOf[j]
  /\ Report(j, "failed")
  /\ WriteState("failed", j)
  /\ UNCHANGED up

\* Bug: a request for an older version is taken too.
AcceptAny(h, j) ==
  /\ Comes(h)
  /\ proc # TargetOf[j]
  /\ up' = [up EXCEPT ![h] = [step |-> "waiting", job |-> j, at |-> 0]]
  /\ UNCHANGED <<stateFile, reports>>

Accept(h, j) ==
  /\ Comes(h)
  /\ proc < TargetOf[j]
  /\ up' = [up EXCEPT ![h] = [step |-> "waiting", job |-> j, at |-> 0]]
  /\ UNCHANGED <<stateFile, reports>>

TakeLock(h) ==
  /\ At(h, "waiting")
  /\ Start(h)
  /\ WriteState("acknowledged", up[h].job)
  /\ Goto(h, "downloading")
  /\ UNCHANGED <<proc, exiting, files, backup, reports, torn, ran, counters>>

\* The lock is still taken after two seconds.
GiveUp(h) ==
  /\ At(h, "waiting")
  /\ ~ running \subseteq robbed
  /\ Report(up[h].job, "requires_manual_step")
  /\ up' = [up EXCEPT ![h] = AtRest]
  /\ LockKept
  /\ UNCHANGED <<proc, exiting, files, backup, stateFile, torn, ran, counters>>

\* Every file is downloaded and verified; the installed files are copied over
\* what an earlier attempt of the job has left in its backup.
BackUpFile(h) ==
  /\ At(h, "downloading") \/ At(h, "copying")
  /\ up[h].at < NFiles
  /\ backup' = [backup EXCEPT ![up[h].job][up[h].at + 1] = files[up[h].at + 1]]
  /\ up' = [up EXCEPT ![h].step = "copying", ![h].at = @ + 1]
  /\ LockKept
  /\ UNCHANGED <<proc, exiting, files, stateFile, reports, torn, ran, counters>>

BackedUp(h) ==
  /\ At(h, "copying")
  /\ up[h].at = NFiles
  /\ up' = [up EXCEPT ![h].step = "installing", ![h].at = 0]
  /\ LockKept
  /\ UNCHANGED <<proc, exiting, files, backup, stateFile, reports, torn, ran, counters>>

InstallFile(h) ==
  /\ At(h, "installing")
  /\ up[h].at < NFiles
  /\ files' = [files EXCEPT ![up[h].at + 1] = TargetOf[up[h].job]]
  /\ up' = [up EXCEPT ![h].at = @ + 1]
  /\ LockKept
  /\ UNCHANGED <<proc, exiting, backup, stateFile, reports, torn, ran, counters>>

Installed(h) ==
  /\ At(h, "installing")
  /\ up[h].at = NFiles
  /\ WriteState("restart_pending", up[h].job)
  /\ exiting' = TRUE
  /\ Goto(h, "installed")
  /\ LockKept
  /\ UNCHANGED <<proc, files, backup, reports, torn, ran, counters>>

\* A download, a verification or a file system call fails.
StepFails(h) ==
  /\ At(h, "downloading") \/ At(h, "copying") \/ At(h, "installing")
  /\ Fault
  /\ Goto(h, "failing")
  /\ LockKept
  /\ UNCHANGED <<proc, exiting, files, backup, stateFile, reports, torn, ran,
                 requests, robberies>>

\* Bug: only the collector itself is restored.
RestoredFirst(j, n) ==
  [f \in Files |-> IF f = 1 /\ f <= n /\ backup[j][f] # Missing THEN backup[j][f]
                   ELSE files[f]]

\* Bug: the collector itself is not restored.
RestoredRest(j, n) ==
  [f \in Files |-> IF 1 < f /\ f <= n /\ backup[j][f] # Missing THEN backup[j][f]
                   ELSE files[f]]

\* Bug: files that were never backed up are restored too.
RestoredBlindly(j, n) ==
  [f \in Files |-> IF f <= n THEN backup[j][f] ELSE files[f]]

\* rollbackCollectorUpgrade(): the first n files of the backup are copied back.
Restored(j, n) ==
  [f \in Files |-> IF f <= n /\ backup[j][f] # Missing THEN backup[j][f]
                   ELSE files[f]]

RollBack(h) ==
  /\ At(h, "failing")
  /\ files' = Restored(up[h].job, NFiles)
  /\ torn' = (torn \/ (~ Uniform(backup[up[h].job]) /\ ~ Uniform(files')))
  /\ WriteState("failed", up[h].job)
  /\ Goto(h, "failed")
  /\ LockKept
  /\ UNCHANGED <<proc, exiting, backup, reports, ran, counters>>

\* A copy fails: the finally block is all that still runs.
RollBackFails(h, n) ==
  /\ At(h, "failing")
  /\ Fault
  /\ files' = Restored(up[h].job, n)
  /\ torn' = (torn \/ ~ Uniform(files'))
  /\ Goto(h, "failed")
  /\ LockKept
  /\ UNCHANGED <<proc, exiting, backup, stateFile, reports, ran, requests, robberies>>

\* releaseCollectorRunLock() reads the lock file, then removes it.
Leaves(h) ==
  /\ At(h, "installed") \/ At(h, "failed")
  /\ h \notin leaving
  /\ Leave(h)
  /\ UNCHANGED <<upgradeVars, counters>>

Release(h) ==
  /\ At(h, "installed") \/ At(h, "failed")
  /\ h \in leaving \union robbed
  /\ Stop(h)
  /\ up' = [up EXCEPT ![h] = IF @.step = "failed" THEN [@ EXCEPT !.step = "reporting"]
                             ELSE AtRest]
  /\ UNCHANGED <<proc, exiting, files, backup, stateFile, reports, torn, ran, counters>>

\* The catch block of handleControlMessage().
ReportFailure(h) ==
  /\ At(h, "reporting")
  /\ Report(up[h].job, "failed")
  /\ WriteState("failed", up[h].job)
  /\ up' = [up EXCEPT ![h] = AtRest]
  /\ LockKept
  /\ UNCHANGED <<proc, exiting, files, backup, torn, ran, counters>>

-----------------------------------------------------------------------------
(* The process of the service.                                             *)

ProcessEnds ==
  /\ proc' = Down /\ exiting' = FALSE
  /\ up' = [h \in Handlers |-> AtRest]
  /\ Abandon(Handlers)
  /\ torn' = (torn \/ (~ Uniform(files) /\ ~ ThreadIsFree))
  /\ UNCHANGED <<files, backup, stateFile, reports, ran, requests, robberies>>

Exit == exiting /\ ThreadIsFree /\ ProcessEnds /\ UNCHANGED faults

Crash == proc # Down /\ Fault /\ ProcessEnds

\* launchd or systemd starts the collector that is installed.
Restart ==
  /\ proc = Down
  /\ proc' = files[1]
  /\ ran' = files[1]
  /\ LockKept
  /\ UNCHANGED <<exiting, files, backup, stateFile, up, reports, torn, counters>>

\* Bug: the state is settled and nothing is sent.
ConfirmSilently ==
  /\ ThreadIsFree
  /\ stateFile.stage = "restart_pending" /\ TargetOf[stateFile.job] = proc
  /\ WriteState("succeeded", stateFile.job)
  /\ LockKept
  /\ UNCHANGED <<proc, exiting, files, backup, up, reports, torn, ran, counters>>

\* sendPendingUpgradeStartupProgress(), when the control channel opens.
Confirm ==
  /\ ThreadIsFree
  /\ stateFile.stage = "restart_pending" /\ TargetOf[stateFile.job] = proc
  /\ Report(stateFile.job, "succeeded")
  /\ WriteState("succeeded", stateFile.job)
  /\ LockKept
  /\ UNCHANGED <<proc, exiting, files, backup, up, torn, ran, counters>>

-----------------------------------------------------------------------------
(* The other runs that take the lock.                                      *)

Collect(c) == Start(c) /\ UNCHANGED <<upgradeVars, counters>>

CollectionLeaves(c) == c \notin leaving /\ Leave(c) /\ UNCHANGED <<upgradeVars, counters>>

CollectionEnds(c) ==
  c \in leaving \union robbed /\ Stop(c) /\ UNCHANGED <<upgradeVars, counters>>

Robbed(a) ==
  /\ robberies < MaxRobberies /\ robberies' = robberies + 1
  /\ a \notin robbed
  /\ Rob(a)
  /\ UNCHANGED <<upgradeVars, requests, faults>>

-----------------------------------------------------------------------------
HandlerStep(h) ==
  \/ TakeLock(h) \/ GiveUp(h) \/ BackUpFile(h) \/ BackedUp(h)
  \/ InstallFile(h) \/ Installed(h) \/ RollBack(h) \/ Leaves(h) \/ Release(h) \/ ReportFailure(h)

CollectionStep(c) == CollectionLeaves(c) \/ CollectionEnds(c)

ProcessStep == Exit \/ Restart \/ Confirm

Next ==
  \/ \E h \in Handlers, j \in Jobs :
       AlreadyThere(h, j) \/ RefuseDowngrade(h, j) \/ Accept(h, j)
  \/ \E h \in Handlers :
       HandlerStep(h) \/ StepFails(h) \/ \E n \in 0..NFiles : RollBackFails(h, n)
  \/ ProcessStep \/ Crash
  \/ \E c \in Collections : Collect(c) \/ CollectionStep(c)
  \/ \E a \in Actors : Robbed(a)

\* Calls return, the exit timer fires, the service manager restarts the service
\* and the control channel reconnects.
Spec ==
  /\ Init /\ [][Next]_vars
  /\ WF_vars(\E h \in Handlers : HandlerStep(h))
  /\ WF_vars(\E c \in Collections : CollectionStep(c))
  /\ WF_vars(ProcessStep)

-----------------------------------------------------------------------------
(* Success is reported only with every installed file of that version or   *)
(* newer, whatever was retried, restarted, overwritten or rolled back in   *)
(* between, unless files of two versions were left by a crash, a failed    *)
(* rollback or a partial backup, or a job for a newer version has an old   *)
(* backup.                                                                 *)
SuccessMeansInstalled ==
  \A r \in reports :
    r.status = "succeeded" => r.spoiled \/ \A f \in Files : r.installed[f] >= TargetOf[r.job]

(* A collection that holds the lock finds files of one version: it never   *)
(* starts the tool in the middle of an install or of a rollback.  Excused  *)
(* is what a crash, a failed rollback or a partial backup has left.        *)
CollectionsSeeOneVersion ==
  \A c \in (Collections \intersect running) \ robbed :
    torn \/ Uniform(files) \/ \E h \in Handlers \intersect robbed : up[h].step \in Synchronous

(* The service never starts a version older than the one that ran last,    *)
(* whatever overlaps or fails, unless a job has an old backup.             *)
NeverOlder ==
  [][proc = Down /\ proc' # Down => proc' >= ran \/ \E j \in Jobs : OldBackup(j)]_vars

HasInstalled(j) == \A f \in Files : files[f] = TargetOf[j]

Confirmed(j) == \E r \in reports : r.job = j /\ r.status = "succeeded"

Overwritten(j) ==
  \/ stateFile.job # j \/ stateFile.stage \in {"acknowledged", "failed"}
  \/ ~ HasInstalled(j)

(* An installed version is confirmed after the restart, unless another     *)
(* request has overwritten the state file or the files.                    *)
InstalledIsConfirmed ==
  \A j \in Jobs :
    stateFile = [stage |-> "restart_pending", job |-> j] /\ HasInstalled(j)
      ~> Confirmed(j) \/ Overwritten(j)

====
