---------------------------- MODULE OperationRows ----------------------------
(***************************************************************************)
(* The rows of the tables operations and operation_jobs and what the       *)
(* statements of src/operations/operation-store.ts do to one row.  The     *)
(* modules AtomicOperationStore, TransactionalOperationStore and JobRunner *)
(* decide when, in what order and by whom the statements are executed.     *)
(***************************************************************************)
EXTENDS Naturals

CONSTANTS
  Operation,     (* ids of operations                                      *)
  Job,           (* ids of operation jobs                                  *)
  OperationOf,   (* the operation_id column of each job                    *)
  TypeOf,        (* the type column of each job                            *)
  Runner,        (* processes that call claimNextJob                       *)
  NoRunner,      (* NULL in the locked_by column                           *)
  MaxAttempts,   (* the max_attempts column                                *)
  Lease,         (* leaseMs, in ticks of the clock                         *)
  RetryAfter,    (* retryAfterMs, in ticks                                 *)
  Window,        (* deadlineAt - now when a job is enqueued, in ticks      *)
  HandlerOutcome,  (* the final statuses that job handlers return          *)
  ExternalOutcome  (* those that callers of completeExternalJob pass       *)

AnalysisType == "agent_analysis_openclaw"
UpgradeType  == "collector_upgrade_device"
EmailType    == "notification_email"

ASSUME RowsAssumption ==
  /\ OperationOf \in [Job -> Operation]
  /\ TypeOf \in [Job -> {AnalysisType, UpgradeType, EmailType}]
  /\ NoRunner \notin Runner
  /\ MaxAttempts \in Nat \ {0}
  /\ Lease \in Nat \ {0}
  /\ RetryAfter \in Nat \ {0}
  /\ Window \in Nat
  /\ HandlerOutcome \subseteq {"succeeded", "unsupported", "requires_manual_step"}
  /\ ExternalOutcome \subseteq {"succeeded", "unsupported", "requires_manual_step", "failed"}

TerminalStatus ==
  {"succeeded", "failed", "unsupported", "requires_manual_step", "cancelled"}

(* "absent": the row has not been inserted. *)
Status == TerminalStatus \cup {"absent", "queued", "running"}

(* payload.stage as far as claimNextJob tells stages apart: "remote" is    *)
(* dispatched, accepted, executing or result_received, "local" any other.  *)
Stage == {"local", "remote"}

JobRow ==
  [status : Status, attempts : Nat, runAfter : Nat, lockedBy : Runner \cup {NoRunner},
   lockedUntil : Nat, stage : Stage, deadline : Nat]

(* finished: finished_at is set; manual: manual_instruction is set.        *)
OperationRow == [status : Status, finished : BOOLEAN, manual : BOOLEAN]

AbsentJob ==
  [status |-> "absent", attempts |-> 0, runAfter |-> 0, lockedBy |-> NoRunner,
   lockedUntil |-> 0, stage |-> "local", deadline |-> 0]

AbsentOperation == [status |-> "absent", finished |-> FALSE, manual |-> FALSE]

QueuedOperation == [AbsentOperation EXCEPT !.status = "queued"]

QueuedJob(t) ==
  [AbsentJob EXCEPT !.status = "queued", !.runAfter = t, !.deadline = t + Window]

(* Bug: a job with an outcome still counts as open. *)
IsOpenOnceInserted(row) == row.status # "absent"

IsOpen(row) == row.status \in {"queued", "running"}

(* Bug: running jobs are claimed before their lease has ended. *)
ClaimableWithinLease(j, row, t) ==
  \/ row.status = "queued" /\ row.runAfter <= t
  \/ row.status = "running"

(* Bug: a job whose runner died is never claimed again. *)
ClaimableOnlyQueued(j, row, t) == row.status = "queued" /\ row.runAfter <= t

(* The WHERE clause of the candidate query. *)
Claimable(j, row, t) ==
  \/ row.status = "queued" /\ row.runAfter <= t
  \/ /\ row.status = "running"
     /\ row.lockedUntil <= t
     /\ \/ TypeOf[j] # AnalysisType
        \/ row.stage # "remote"
        \/ row.deadline <= t

(* Bug: the attempt is not counted when it begins. *)
ClaimedRowUncounted(row, r, t) ==
  [row EXCEPT !.status = "running", !.lockedBy = r, !.lockedUntil = t + Lease]

ClaimedRow(row, r, t) ==
  [row EXCEPT !.status = "running", !.attempts = @ + 1,
              !.lockedBy = r, !.lockedUntil = t + Lease]

CompletedRow(row, s) ==
  [row EXCEPT !.status = s, !.lockedBy = NoRunner, !.lockedUntil = 0]

FailedRow(row, t) ==
  [row EXCEPT !.status = IF row.attempts < MaxAttempts THEN "queued" ELSE "failed",
              !.lockedBy = NoRunner, !.lockedUntil = 0, !.runAfter = t + RetryAfter]

(* What refreshOperationStatus derives from the statuses of the jobs.      *)
Summary(statuses) ==
  IF "failed" \in statuses THEN "failed"
  ELSE IF "requires_manual_step" \in statuses THEN "requires_manual_step"
  ELSE IF "unsupported" \in statuses THEN "unsupported"
  ELSE IF statuses = {"succeeded"} THEN "succeeded"
  ELSE IF "running" \in statuses THEN "running"
  ELSE "queued"

MarkedRunning(row) ==
  IF row.status \in {"queued", "running"} THEN [row EXCEPT !.status = "running"] ELSE row

Finished(s, manual) ==
  [status |-> s, finished |-> TRUE, manual |-> manual /\ s = "requires_manual_step"]

(* Bug: a job that goes back to the queue leaves its operation running. *)
RefreshedOnlyForward(row, statuses, manual) ==
  LET s == Summary(statuses) IN
  IF s \in TerminalStatus THEN Finished(s, manual) ELSE MarkedRunning(row)

(* manual: the caller passed a manualInstruction. *)
Refreshed(row, statuses, manual) ==
  LET s == Summary(statuses) IN
  IF s \in TerminalStatus THEN Finished(s, manual)
  ELSE IF s = "running" THEN MarkedRunning(row)
  ELSE IF row.status # "cancelled" THEN [row EXCEPT !.status = "queued"]
  ELSE row

(* The statuses of the jobs of operation o in a table of job rows. *)
StatusesOf(o, table) ==
  {table[j].status : j \in {k \in Job : OperationOf[k] = o}} \ {"absent"}
==============================================================================
