------------------------- MODULE AtomicOperationStore ------------------------
(***************************************************************************)
(* What the callers of the operation store may rely on: every method is    *)
(* one indivisible step on the job row and the row of the operation that   *)
(* owns it.  TransactionalOperationStore shows when the SQL transactions   *)
(* keep this promise.  The argument t of a method is the caller's clock    *)
(* reading (input.now), which may be older than the commit.                *)
(***************************************************************************)
EXTENDS OperationRows

VARIABLES
  job,   (* the table operation_jobs *)
  op,    (* the table operations     *)
  now    (* the clock                *)

storeVars == <<job, op, now>>

TypeOK ==
  /\ job \in [Job -> JobRow]
  /\ op \in [Operation -> OperationRow]
  /\ now \in Nat

Init ==
  /\ job = [j \in Job |-> AbsentJob]
  /\ op = [o \in Operation |-> AbsentOperation]
  /\ now = 0

(* Write the row of job j and recompute its operation from all its jobs. *)
WriteAndRefresh(j, row, manual) ==
  LET o == OperationOf[j]
      table == [job EXCEPT ![j] = row] IN
  /\ job' = table
  /\ op' = [op EXCEPT ![o] = Refreshed(@, StatusesOf(o, table), manual)]

CreateOperation(o) ==
  /\ op[o].status = "absent"
  /\ op' = [op EXCEPT ![o] = QueuedOperation]
  /\ UNCHANGED <<job, now>>

EnqueueJob(j, t) ==
  /\ job[j].status = "absent"
  /\ op[OperationOf[j]].status # "absent"
  /\ job' = [job EXCEPT ![j] = QueuedJob(t)]
  /\ UNCHANGED <<op, now>>

ClaimNextJob(r, j, t) ==
  /\ Claimable(j, job[j], t)
  /\ job' = [job EXCEPT ![j] = ClaimedRow(@, r, t)]
  /\ op' = [op EXCEPT ![OperationOf[j]] = MarkedRunning(@)]
  /\ UNCHANGED now

(* updateJobPayload with a patch that sets payload.stage. *)
UpdateJobPayload(j, stage) ==
  /\ IsOpen(job[j])
  /\ job' = [job EXCEPT ![j].stage = stage]
  /\ UNCHANGED <<op, now>>

(* completeJob. *)
CompleteJob(j, s, manual) ==
  /\ IsOpen(job[j])
  /\ WriteAndRefresh(j, CompletedRow(job[j], s), manual)
  /\ UNCHANGED now

(* completeExternalJob: its payload patch also sets the stage. *)
CompleteExternalJob(j, s, manual) ==
  /\ IsOpen(job[j])
  /\ WriteAndRefresh(j, [CompletedRow(job[j], s) EXCEPT !.stage = "local"], manual)
  /\ UNCHANGED now

(* failJob: unlike the methods above it does not look at the status.       *)
FailJob(j, t) ==
  /\ job[j].attempts > 0
  /\ WriteAndRefresh(j, FailedRow(job[j], t), FALSE)
  /\ UNCHANGED now

Tick == now' = now + 1 /\ UNCHANGED <<job, op>>

(* Only a manual step comes with a manualInstruction, and need not. *)
Instruction(s) == {FALSE, s = "requires_manual_step"}

Next ==
  \/ \E o \in Operation : CreateOperation(o)
  \/ \E j \in Job :
       \/ \E stage \in Stage : UpdateJobPayload(j, stage)
       \/ \E s \in HandlerOutcome : \E manual \in Instruction(s) : CompleteJob(j, s, manual)
       \/ \E s \in ExternalOutcome : \E manual \in Instruction(s) :
            CompleteExternalJob(j, s, manual)
       \/ \E t \in 0..now :
            \/ EnqueueJob(j, t)
            \/ FailJob(j, t)
            \/ \E r \in Runner : ClaimNextJob(r, j, t)
  \/ Tick

Spec == Init /\ [][Next]_storeVars

------------------------------------------------------------------------------
(* The operation a user watches shows exactly what its jobs add up to      *)
(* (doc: "the final status of an Operation is the summary of its jobs").   *)
OperationReflectsJobs ==
  \A j \in Job : job[j].status # "absent" =>
    op[OperationOf[j]].status = Summary(StatusesOf(OperationOf[j], job))
==============================================================================
