------------------------------ MODULE JobRunner ------------------------------
(***************************************************************************)
(* src/operations/job-runner.ts with the handlers the backend registers    *)
(* (dispatchCollectorUpgradeJob, dispatchAgentAnalysisJob), the requests   *)
(* that create operations, and the device messages that complete jobs from *)
(* outside.  Each await on the operation store is one method call of       *)
(* AtomicOperationStore; between two awaits the other processes run, the   *)
(* clock advances and the backend process of a runner may die.             *)
(***************************************************************************)
EXTENDS AtomicOperationStore

CONSTANTS
  NoJob,       (* a runner that executes no job                            *)
  Handled,     (* the job types with a registered handler                  *)
  MaxFaults,   (* bound of the crashes and lost notifications              *)
  Horizon,     (* bound: deadlines are no later; from then on no process   *)
               (* crashes and a runner that has work finishes it before   *)
               (* the clock advances                                       *)
  MaxTime      (* bound of the clock                                       *)

ASSUME RunnerAssumption ==
  /\ NoJob \notin Job
  /\ Handled \subseteq {AnalysisType, UpgradeType, EmailType}
  /\ MaxFaults \in Nat /\ Horizon \in Nat /\ MaxTime \in Nat

VARIABLES
  run,       (* where each runner is in runDueJobOnce                      *)
  deciding,  (* upgrade jobs whose HTTP request has yet to be answered     *)
  sent,      (* how often the request of a job was handed to its device    *)
  notified,  (* the notifications created: operation and status            *)
  faults,    (* number of crashes and lost notifications so far           *)
  lateFail   (* history: a runner failed the job after its lease was over  *)

runnerVars == <<run, deciding, sent, notified, faults, lateFail>>
vars == <<storeVars, runnerVars>>

(* Inside the try block of runDueJobOnce, where an error leads to failJob. *)
Executing == {"handling", "sending", "sent", "completed"}

RunState ==
  [pc : Executing \cup {"idle", "notify"}, job : Job \cup {NoJob}, until : Nat]

AtRest == [pc |-> "idle", job |-> NoJob, until |-> 0]

RunnerTypeOK ==
  /\ TypeOK
  /\ run \in [Runner -> RunState]
  /\ \A r \in Runner : run[r].pc # "idle" => run[r].job \in Job
  /\ deciding \subseteq Job
  /\ sent \in [Job -> Nat]
  /\ notified \subseteq Operation \X Status
  /\ faults \in 0..MaxFaults
  /\ lateFail \in [Job -> BOOLEAN]

RunnerInit ==
  /\ Init
  /\ run = [r \in Runner |-> AtRest]
  /\ deciding = {}
  /\ sent = [j \in Job |-> 0]
  /\ notified = {}
  /\ faults = 0
  /\ lateFail = [j \in Job |-> FALSE]

Goto(r, pc) == run' = [run EXCEPT ![r].pc = pc]

Rest(r) == run' = [run EXCEPT ![r] = AtRest]

(* completeExternalJob returns null and does nothing on a terminal job. *)
TryCompleteExternal(j, s, manual) ==
  \/ CompleteExternalJob(j, s, manual)
  \/ ~IsOpen(job[j]) /\ UNCHANGED storeVars
------------------------------------------------------------------------------
(* The requests: POST .../collector-upgrade, the analysis scheduler.       *)

RequestOperation(o) == CreateOperation(o) /\ UNCHANGED runnerVars

RequestJob(j) ==
  /\ now + Window <= Horizon
  /\ EnqueueJob(j, now)
  /\ deciding' = IF TypeOf[j] = UpgradeType THEN deciding \cup {j} ELSE deciding
  /\ UNCHANGED <<run, sent, notified, faults, lateFail>>

(* The rest of the upgrade request: the collector is up to date, or cannot *)
(* be upgraded remotely, or the runner is left to dispatch the job.        *)
AnswerRequest(j) ==
  /\ j \in deciding
  /\ deciding' = deciding \ {j}
  /\ \/ TryCompleteExternal(j, "succeeded", FALSE)
     \/ TryCompleteExternal(j, "requires_manual_step", TRUE)
     \/ UNCHANGED storeVars
  /\ UNCHANGED <<run, sent, notified, faults, lateFail>>
------------------------------------------------------------------------------
(* The steps of runDueJobOnce.                                             *)

Claim(r, j) ==
  /\ run[r].pc = "idle"
  /\ ClaimNextJob(r, j, now)
  /\ run' = [run EXCEPT ![r] = [pc |-> "handling", job |-> j, until |-> now + Lease]]
  /\ UNCHANGED <<deciding, sent, notified, faults, lateFail>>

(* completeJob with the status the handler returned, or "unsupported" when *)
(* no handler is registered for the type.                                  *)
Complete(r, s) ==
  LET j == run[r].job IN
  /\ run[r].pc = "handling"
  /\ \/ TypeOf[j] \notin Handled /\ s = "unsupported"
     \/ TypeOf[j] \in Handled \cap {EmailType} /\ s \in HandlerOutcome
  /\ \/ \E manual \in Instruction(s) : CompleteJob(j, s, manual)
     \/ ~IsOpen(job[j]) /\ UNCHANGED storeVars
  /\ Goto(r, IF TypeOf[j] \in Handled THEN "completed" ELSE "notify")
  /\ UNCHANGED <<deciding, sent, notified, faults, lateFail>>

(* The dispatch handlers check the deadline first.                         *)
CheckDeadline(r) ==
  LET j == run[r].job IN
  /\ run[r].pc = "handling"
  /\ TypeOf[j] \in Handled \ {EmailType}
  /\ \/ /\ job[j].deadline <= now
        /\ TryCompleteExternal(j, "failed", FALSE)
        /\ Rest(r)
     \/ /\ job[j].deadline > now
        /\ Goto(r, "sending")
        /\ UNCHANGED storeVars
  /\ UNCHANGED <<deciding, sent, notified, faults, lateFail>>

(* The control channel accepts the request for the device's socket. *)
Send(r) ==
  /\ run[r].pc = "sending"
  /\ sent' = [sent EXCEPT ![run[r].job] = @ + 1]
  /\ Goto(r, "sent")
  /\ UNCHANGED <<storeVars, deciding, notified, faults, lateFail>>

(* updateJobPayload with stage "dispatched"; the handler returns           *)
(* external_running.                                                       *)
MarkDispatched(r) ==
  LET j == run[r].job IN
  /\ run[r].pc = "sent"
  /\ \/ UpdateJobPayload(j, "remote")
     \/ ~IsOpen(job[j]) /\ UNCHANGED storeVars
  /\ Rest(r)
  /\ UNCHANGED <<deciding, sent, notified, faults, lateFail>>

(* An await in the try block throws: the socket did not take the request,  *)
(* or a query failed.                                                      *)
Fail(r) ==
  LET j == run[r].job IN
  /\ run[r].pc \in Executing
  /\ TypeOf[j] \in Handled
  /\ FailJob(j, now)
  /\ Goto(r, "notify")
  /\ lateFail' = [lateFail EXCEPT ![j] = @ \/ run[r].until <= now]
  /\ UNCHANGED <<deciding, sent, notified, faults>>

(* notifyOperationStatusChanged.  An error of the notification store is    *)
(* swallowed.                                                              *)
Notify(r) ==
  LET o == OperationOf[run[r].job]
      due == op[o].status \in TerminalStatus \ {"cancelled"} IN
  /\ run[r].pc \in {"completed", "notify"}
  /\ \/ /\ notified' = IF due THEN notified \cup {<<o, op[o].status>>} ELSE notified
        /\ UNCHANGED faults
     \/ /\ due /\ faults < MaxFaults
        /\ faults' = faults + 1
        /\ UNCHANGED notified
  /\ Rest(r)
  /\ UNCHANGED <<storeVars, deciding, sent, lateFail>>

RunnerStep(r) ==
  \/ \E j \in Job : Claim(r, j)
  \/ \E s \in HandlerOutcome \cup {"unsupported"} : Complete(r, s)
  \/ CheckDeadline(r) \/ Send(r) \/ MarkDispatched(r) \/ Fail(r) \/ Notify(r)
------------------------------------------------------------------------------
(* A progress or result message of the device completes the job. *)
DeviceOutcome(j, s) ==
  /\ sent[j] > 0
  /\ \E manual \in Instruction(s) : CompleteExternalJob(j, s, manual)
  /\ UNCHANGED runnerVars

(* A progress message: the device is working on the request. *)
DeviceProgress(j) ==
  /\ sent[j] > 0
  /\ UpdateJobPayload(j, "remote")
  /\ UNCHANGED runnerVars

(* The process of runner r dies and its successor starts from scratch, or  *)
(* an error escapes from runDueJobOnce (a query outside of the try block   *)
(* fails).                                                                 *)
Crash(r) ==
  /\ run[r].pc # "idle"
  /\ faults < MaxFaults
  /\ now < Horizon
  /\ faults' = faults + 1
  /\ Rest(r)
  /\ UNCHANGED <<storeVars, deciding, sent, notified, lateFail>>

Advance ==
  /\ now < MaxTime
  /\ now >= Horizon => \A r \in Runner :
       run[r].pc = "idle" /\ \A j \in Job : ~Claimable(j, job[j], now)
  /\ Tick
  /\ UNCHANGED runnerVars

RunnerNext ==
  \/ \E o \in Operation : RequestOperation(o)
  \/ \E j \in Job :
       \/ RequestJob(j) \/ AnswerRequest(j) \/ DeviceProgress(j)
       \/ \E s \in ExternalOutcome : DeviceOutcome(j, s)
  \/ \E r \in Runner : RunnerStep(r) \/ Crash(r)
  \/ Advance

RunnerSpec == RunnerInit /\ [][RunnerNext]_vars

(* The backend polls on a timer, awaits every query and answers its        *)
(* requests; nothing is assumed of the devices or of the users.            *)
Fairness ==
  /\ \A r \in Runner : WF_vars(RunnerStep(r))
  /\ \A j \in Job : WF_vars(AnswerRequest(j))
  /\ WF_vars(Advance)

FairRunnerSpec == RunnerSpec /\ Fairness
------------------------------------------------------------------------------
(* The runner executes the job and its lease has not run out. *)
InLease(r, j) == run[r].pc \in Executing /\ run[r].job = j /\ now < run[r].until

(* Two runners execute the same job within their leases only after a       *)
(* runner whose own lease was over has failed the job (failJob clears the  *)
(* lock of whoever holds it now).                                          *)
AtMostOneLeaseholder ==
  \A j \in Job : ~lateFail[j] =>
    \A r1, r2 \in Runner : InLease(r1, j) /\ InLease(r2, j) => r1 = r2

(* Every request written to a device is one counted attempt, although the  *)
(* attempt is counted long before and runners crash, fail and overlap.     *)
DispatchesAreCounted == \A j \in Job : sent[j] <= job[j].attempts

(* A late device message, a duplicate, or an upgrade request answered late *)
(* never replaces the outcome of a job; only a runner that was executing   *)
(* the job all along and fails can undo it.                                *)
OutcomeUndoneOnlyByFailure ==
  [][\A j \in Job :
       job[j].status \in TerminalStatus /\ job'[j] # job[j] =>
         \E r \in Runner : run[r].job = j /\ run[r].pc \in Executing /\ run'[r].pc = "notify"]_vars

(* Every enqueued job reaches an outcome for good, whatever the devices do *)
(* and although runners crash, are slow or fail (operation-job-runner-     *)
(* spec.md:153).                                                           *)
EveryJobEnds ==
  \A j \in Job : job[j].status = "queued" ~> [](job[j].status \in TerminalStatus)
==============================================================================
