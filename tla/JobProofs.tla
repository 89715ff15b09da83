------------------------------ MODULE JobProofs ------------------------------
(***************************************************************************)
(* For any number of operations, jobs and runners: the runner state is     *)
(* well typed, a lease is exclusive until a late failure, an outcome is    *)
(* undone only by the failure of a runner that was executing the job, and  *)
(* no request is sent without an attempt that was counted.  For any number *)
(* of agents, analyses and messages: everything the triggers and the       *)
(* handlers of messages do is a step of JobRunner, whose theorems hold for *)
(* them, and an analysis that has succeeded has stored a report.           *)
(***************************************************************************)
EXTENDS AgentAnalysis, OperationStoreProofs, FiniteSetTheorems

(* The row of a job backs the lease of the runner executing it, unless the *)
(* job has an outcome or was failed by a runner without a lease.           *)
LeaseIsBacked ==
  \A r \in Runner, j \in Job : InLease(r, j) /\ ~lateFail[j] =>
    \/ job[j].status \in TerminalStatus
    \/ job[j].status = "running" /\ job[j].lockedUntil = run[r].until

RunnerInv ==
  /\ RunnerTypeOK
  /\ LeaseIsBacked
  /\ AtMostOneLeaseholder

(* The row of a job is left alone, inserted, given an outcome, or gets     *)
(* another stage.                                                          *)
CalmRow(j) ==
  \/ job'[j] = job[j]
  \/ job[j].status = "absent"
  \/ job[j].status \notin TerminalStatus /\ job'[j].status \in TerminalStatus
  \/ /\ IsOpen(job[j])
     /\ job'[j].status = job[j].status
     /\ job'[j].lockedUntil = job[j].lockedUntil

(* A step of the store other than claimNextJob and failJob. *)
CalmStore ==
  /\ TypeOK'
  /\ now' = now
  /\ \A j \in Job : CalmRow(j)

------------------------------------------------------------------------------
LEMMA CalmWhenUnchanged == TypeOK /\ UNCHANGED storeVars => CalmStore
  BY DEF TypeOK, storeVars, CalmStore, CalmRow

LEMMA CalmCompletion ==
  ASSUME TypeOK, NEW j \in Job, NEW s \in TerminalStatus, NEW manual \in BOOLEAN,
         CompleteJob(j, s, manual) \/ CompleteExternalJob(j, s, manual)
  PROVE  CalmStore
<1>1. s \in Status /\ job[j] \in JobRow
  BY DEF Status, TypeOK
<1>2. job[j].status \notin TerminalStatus
  BY DEF CompleteJob, CompleteExternalJob, IsOpen, TerminalStatus
<1>3. /\ TypeOK' /\ now' = now
      /\ job'[j].status = s
      /\ \A k \in Job : k # j => job'[k] = job[k]
  <2>1. CompletedRow(job[j], s).status = s
        /\ [CompletedRow(job[j], s) EXCEPT !.stage = "local"].status = s
    BY <1>1 DEF CompletedRow, JobRow
  <2>2. CASE CompleteJob(j, s, manual)
    BY <1>1, <2>1, <2>2, CompleteJobStep, ZenonT(60)
  <2>3. CASE CompleteExternalJob(j, s, manual)
    BY <1>1, <2>1, <2>3, CompleteExternalJobStep, ZenonT(60)
  <2>4. QED
    BY <2>2, <2>3
<1>4. QED
  BY <1>2, <1>3 DEF CalmStore, CalmRow

LEMMA CalmUpdate ==
  ASSUME TypeOK, NEW j \in Job, NEW stage \in Stage, UpdateJobPayload(j, stage)
  PROVE  CalmStore
<1>1. job[j] \in JobRow
  BY DEF TypeOK
<1>2. /\ TypeOK' /\ now' = now /\ IsOpen(job[j])
      /\ job'[j] = [job[j] EXCEPT !.stage = stage]
      /\ \A k \in Job : k # j => job'[k] = job[k]
  BY UpdateJobPayloadStep
<1>3. QED
  BY <1>1, <1>2 DEF CalmStore, CalmRow, JobRow

LEMMA CalmEnqueue ==
  ASSUME TypeOK, NEW j \in Job, EnqueueJob(j, now)
  PROVE  CalmStore
<1>1. now \in Nat
  BY DEF TypeOK
<1>2. QED
  BY <1>1, EnqueueJobStep DEF CalmStore, CalmRow

LEMMA CalmCreate ==
  ASSUME TypeOK, NEW o \in Operation, CreateOperation(o)
  PROVE  CalmStore
BY CreateOperationStep DEF CalmStore, CalmRow

LEMMA OutcomesAreTerminal ==
  /\ HandlerOutcome \cup {"unsupported"} \subseteq TerminalStatus
  /\ ExternalOutcome \cup {"succeeded", "failed", "requires_manual_step"} \subseteq TerminalStatus
  BY RowsAssumption DEF TerminalStatus

LEMMA CalmTry ==
  ASSUME TypeOK, NEW j \in Job, NEW s \in TerminalStatus, NEW manual \in BOOLEAN,
         TryCompleteExternal(j, s, manual)
  PROVE  CalmStore
BY CalmCompletion, CalmWhenUnchanged DEF TryCompleteExternal

------------------------------------------------------------------------------
(* A runner keeps the lease it executes under, or stops executing. *)
KeepsLease(r) ==
  run'[r].pc \in Executing =>
    run[r].pc \in Executing /\ run'[r].job = run[r].job /\ run'[r].until = run[r].until

LEMMA LeaseAfterCalmStep ==
  ASSUME RunnerInv, RunnerTypeOK', CalmStore, \A r \in Runner : KeepsLease(r),
         lateFail' = lateFail
  PROVE  RunnerInv'
<1>1. \A r \in Runner, j \in Job : InLease(r, j)' =>
        InLease(r, j) /\ run'[r].until = run[r].until
  BY DEF CalmStore, KeepsLease, InLease
<1>2. AtMostOneLeaseholder'
  BY <1>1 DEF RunnerInv, AtMostOneLeaseholder
<1>3. LeaseIsBacked'
  <2> SUFFICES ASSUME NEW r \in Runner, NEW j \in Job, InLease(r, j)', ~lateFail'[j]
               PROVE  \/ job'[j].status \in TerminalStatus
                      \/ job'[j].status = "running" /\ job'[j].lockedUntil = run'[r].until
    BY DEF LeaseIsBacked
  <2>1. \/ job[j].status \in TerminalStatus
        \/ job[j].status = "running" /\ job[j].lockedUntil = run[r].until
    BY <1>1 DEF RunnerInv, LeaseIsBacked
  <2>2. CalmRow(j)
    BY DEF CalmStore
  <2>3. QED
    BY <1>1, <2>1, <2>2 DEF CalmRow, IsOpen, TerminalStatus
<1>4. QED
  BY <1>2, <1>3 DEF RunnerInv

LEMMA RunnerInitInv == RunnerInit => RunnerInv
<1> SUFFICES ASSUME RunnerInit PROVE RunnerInv
  OBVIOUS
<1>1. TypeOK
  BY RowsAssumption
  DEF RunnerInit, Init, TypeOK, AbsentJob, AbsentOperation, JobRow, OperationRow, Status, Stage
<1>2. RunnerTypeOK
  BY <1>1, RunnerAssumption DEF RunnerInit, RunnerTypeOK, RunState, AtRest
<1>3. \A r \in Runner, j \in Job : ~InLease(r, j)
  BY DEF RunnerInit, InLease, AtRest, Executing
<1>4. QED
  BY <1>2, <1>3 DEF RunnerInv, LeaseIsBacked, AtMostOneLeaseholder

------------------------------------------------------------------------------
(* Types of the runner variables after a step that moves one runner.       *)
LEMMA GotoType ==
  ASSUME RunnerTypeOK, NEW r \in Runner, NEW pc \in Executing \cup {"notify"},
         run[r].pc # "idle", Goto(r, pc)
  PROVE  /\ run' \in [Runner -> RunState]
         /\ \A q \in Runner : run'[q].pc # "idle" => run'[q].job \in Job
         /\ run'[r].pc = pc /\ run'[r].job = run[r].job /\ run'[r].until = run[r].until
         /\ \A q \in Runner : q # r => run'[q] = run[q]
<1>1. run[r] \in RunState /\ run[r].job \in Job
  BY DEF RunnerTypeOK
<1>2. [run[r] EXCEPT !.pc = pc] \in RunState
  BY <1>1 DEF RunState
<1>3. run' = [run EXCEPT ![r] = [run[r] EXCEPT !.pc = pc]]
  BY <1>1 DEF Goto, RunnerTypeOK
<1>4. QED
  BY <1>1, <1>2, <1>3 DEF RunnerTypeOK, RunState

LEMMA RestType ==
  ASSUME RunnerTypeOK, NEW r \in Runner, Rest(r)
  PROVE  /\ run' \in [Runner -> RunState]
         /\ \A q \in Runner : run'[q].pc # "idle" => run'[q].job \in Job
         /\ run'[r].pc = "idle"
         /\ \A q \in Runner : q # r => run'[q] = run[q]
<1>1. AtRest \in RunState
  BY DEF AtRest, RunState
<1>2. QED
  BY <1>1 DEF Rest, RunnerTypeOK, AtRest

LEMMA BusyRunner ==
  ASSUME RunnerTypeOK, NEW r \in Runner, run[r].pc # "idle"
  PROVE  run[r].job \in Job
BY DEF RunnerTypeOK

(* One lemma per kind of step: everything but Claim, Fail and Advance      *)
(* leaves the leases alone.                                                *)
LEMMA QuietStep ==
  ASSUME RunnerInv, CalmStore, UNCHANGED <<run, lateFail>>,
         deciding' \subseteq Job, UNCHANGED <<sent, notified, faults>>
  PROVE  RunnerInv'
<1>1. RunnerTypeOK'
  BY DEF RunnerInv, RunnerTypeOK, CalmStore
<1>2. QED
  BY <1>1, LeaseAfterCalmStep DEF KeepsLease

LEMMA AnyInstruction == \A s : Instruction(s) \subseteq BOOLEAN
  BY DEF Instruction

LEMMA RequestStep ==
  ASSUME RunnerInv,
         \/ \E o \in Operation : RequestOperation(o)
         \/ \E j \in Job : RequestJob(j) \/ AnswerRequest(j) \/ DeviceProgress(j)
         \/ \E j \in Job, s \in ExternalOutcome : DeviceOutcome(j, s)
  PROVE  CalmStore /\ RunnerInv'
<1> USE DEF RunnerInv, RunnerTypeOK, runnerVars
<1>1. CASE \E o \in Operation : RequestOperation(o)
  BY <1>1, CalmCreate, QuietStep DEF RequestOperation
<1>2. CASE \E j \in Job : RequestJob(j)
  BY <1>2, CalmEnqueue, QuietStep DEF RequestJob
<1>3. CASE \E j \in Job : AnswerRequest(j)
  <2>1. PICK j \in Job : AnswerRequest(j)
    BY <1>3
  <2>2. "succeeded" \in TerminalStatus /\ "requires_manual_step" \in TerminalStatus
    BY DEF TerminalStatus
  <2>3. CalmStore
    BY <2>1, <2>2, CalmTry, CalmWhenUnchanged DEF AnswerRequest
  <2>4. QED
    BY <2>1, <2>3, QuietStep DEF AnswerRequest
<1>4. CASE \E j \in Job : DeviceProgress(j)
  <2>1. "remote" \in Stage
    BY DEF Stage
  <2>2. QED
    BY <1>4, <2>1, CalmUpdate, QuietStep DEF DeviceProgress
<1>5. CASE \E j \in Job, s \in ExternalOutcome : DeviceOutcome(j, s)
  <2>1. PICK j \in Job, s \in ExternalOutcome : DeviceOutcome(j, s)
    BY <1>5
  <2>2. PICK manual \in Instruction(s) : CompleteExternalJob(j, s, manual)
    BY <2>1 DEF DeviceOutcome
  <2>3. CalmStore
    BY <2>2, CalmCompletion, OutcomesAreTerminal, AnyInstruction
  <2>4. QED
    BY <2>1, <2>3, QuietStep DEF DeviceOutcome
<1>6. QED
  BY <1>1, <1>2, <1>3, <1>4, <1>5

(* The steps of a runner that neither take nor undo a lease. *)
LEMMA ProceedStep ==
  ASSUME RunnerInv, NEW r \in Runner,
         \/ \E s \in HandlerOutcome \cup {"unsupported"} : Complete(r, s)
         \/ CheckDeadline(r) \/ Send(r) \/ MarkDispatched(r) \/ Notify(r) \/ Crash(r)
  PROVE  CalmStore /\ RunnerInv'
<1> DEFINE j == run[r].job
<1>0. RunnerTypeOK /\ TypeOK
  BY DEF RunnerInv, RunnerTypeOK
<1>1. j \in Job /\ run[r].pc # "idle"
  BY <1>0, BusyRunner DEF Complete, CheckDeadline, Send, MarkDispatched, Notify, Crash, Executing
<1>2. CalmStore
  <2>1. CASE \E s \in HandlerOutcome \cup {"unsupported"} : Complete(r, s)
    BY <1>0, <1>1, <2>1, CalmCompletion, CalmWhenUnchanged, OutcomesAreTerminal, AnyInstruction
    DEF Complete
  <2>2. CASE CheckDeadline(r)
    <3>1. "failed" \in TerminalStatus
      BY DEF TerminalStatus
    <3>2. QED
      BY <1>0, <1>1, <2>2, <3>1, CalmTry, CalmWhenUnchanged DEF CheckDeadline
  <2>3. CASE MarkDispatched(r)
    <3>1. "remote" \in Stage
      BY DEF Stage
    <3>2. QED
      BY <1>0, <1>1, <2>3, <3>1, CalmUpdate, CalmWhenUnchanged DEF MarkDispatched
  <2>4. CASE Send(r) \/ Notify(r) \/ Crash(r)
    BY <1>0, <2>4, CalmWhenUnchanged DEF Send, Notify, Crash
  <2>5. QED
    BY <2>1, <2>2, <2>3, <2>4
<1>3. \/ Rest(r)
      \/ run[r].pc \in Executing /\ \E pc \in Executing \cup {"notify"} : Goto(r, pc)
  BY <1>1 DEF Complete, CheckDeadline, Send, MarkDispatched, Notify, Crash, Executing
<1>4. /\ run' \in [Runner -> RunState]
      /\ \A q \in Runner : run'[q].pc # "idle" => run'[q].job \in Job
      /\ \A q \in Runner : KeepsLease(q)
  <2>1. CASE Rest(r)
    BY <1>0, <2>1, RestType DEF KeepsLease, Executing
  <2>2. CASE run[r].pc \in Executing /\ \E pc \in Executing \cup {"notify"} : Goto(r, pc)
    BY <1>0, <1>1, <2>2, GotoType DEF KeepsLease
  <2>3. QED
    BY <1>3, <2>1, <2>2
<1>5. /\ deciding' = deciding
      /\ lateFail' = lateFail
      /\ sent' \in [Job -> Nat]
      /\ notified' \subseteq Operation \X Status
      /\ faults' \in 0..MaxFaults
  <2>1. OperationOf[j] \in Operation /\ op[OperationOf[j]].status \in Status
    BY <1>0, <1>1, RowsAssumption DEF TypeOK, OperationRow
  <2>2. CASE Crash(r)
    BY <1>0, <2>2, RunnerAssumption DEF RunnerTypeOK, Crash
  <2>3. CASE Send(r)
    BY <1>0, <1>1, <2>3 DEF RunnerTypeOK, Send
  <2>4. CASE Notify(r)
    BY <1>0, <2>1, <2>4, RunnerAssumption DEF RunnerTypeOK, Notify
  <2>5. CASE (\E s \in HandlerOutcome \cup {"unsupported"} : Complete(r, s))
             \/ CheckDeadline(r) \/ MarkDispatched(r)
    BY <1>0, <2>5 DEF RunnerTypeOK, Complete, CheckDeadline, MarkDispatched
  <2>6. QED
    BY <2>2, <2>3, <2>4, <2>5
<1>6. RunnerTypeOK'
  BY <1>0, <1>2, <1>4, <1>5 DEF RunnerTypeOK, CalmStore
<1>7. QED
  BY <1>2, <1>4, <1>5, <1>6, LeaseAfterCalmStep

(* A claimed row was free: no lease on the job is running. *)
LEMMA ClaimStep ==
  ASSUME RunnerInv, NEW r \in Runner, NEW j \in Job, Claim(r, j)
  PROVE  RunnerInv'
<1>0. RunnerTypeOK /\ TypeOK /\ now \in Nat /\ job[j] \in JobRow
  BY DEF RunnerInv, RunnerTypeOK, TypeOK
<1>1. /\ TypeOK' /\ now' = now /\ Claimable(j, job[j], now)
      /\ \A k \in Job : job'[k] = IF k = j THEN ClaimedRow(job[j], r, now) ELSE job[k]
  BY <1>0, ClaimNextJobStep DEF Claim
<1>2. now + Lease \in Nat /\ now + Lease > now
  BY <1>0, RowsAssumption
<1>3. job'[j].status = "running" /\ job'[j].lockedUntil = now + Lease
  BY <1>0, <1>1, <1>2 DEF ClaimedRow, JobRow
<1>4. /\ run' = [run EXCEPT ![r] = [pc |-> "handling", job |-> j, until |-> now + Lease]]
      /\ UNCHANGED <<deciding, sent, notified, faults, lateFail>>
  BY DEF Claim
<1>5. /\ run'[r] = [pc |-> "handling", job |-> j, until |-> now + Lease]
      /\ \A q \in Runner : q # r => run'[q] = run[q]
      /\ run' \in [Runner -> RunState]
  BY <1>0, <1>2, <1>4 DEF RunnerTypeOK, RunState, Executing
<1>6. RunnerTypeOK'
  BY <1>0, <1>1, <1>4, <1>5 DEF RunnerTypeOK
<1>7. \A q \in Runner : ~lateFail[j] => ~InLease(q, j)
  <2> SUFFICES ASSUME NEW q \in Runner, ~lateFail[j], InLease(q, j) PROVE FALSE
    OBVIOUS
  <2>1. now < run[q].until /\ run[q].until \in Nat
    BY <1>0 DEF InLease, RunnerTypeOK, RunState
  <2>2. \/ job[j].status \in TerminalStatus
        \/ job[j].status = "running" /\ job[j].lockedUntil = run[q].until
    BY DEF RunnerInv, LeaseIsBacked
  <2>3. QED
    BY <1>0, <1>1, <2>1, <2>2 DEF Claimable, TerminalStatus, JobRow
<1>8. \A q \in Runner, k \in Job : InLease(q, k)' => IF q = r THEN k = j ELSE InLease(q, k)
  BY <1>1, <1>5 DEF InLease
<1>9. AtMostOneLeaseholder'
  <2> SUFFICES ASSUME NEW k \in Job, ~lateFail'[k], NEW p \in Runner, NEW q \in Runner,
                      InLease(p, k)', InLease(q, k)'
               PROVE  p = q
    BY DEF AtMostOneLeaseholder
  <2>1. ~lateFail[k]
    BY <1>4
  <2>2. QED
    BY <1>7, <1>8, <2>1 DEF RunnerInv, AtMostOneLeaseholder
<1>10. LeaseIsBacked'
  <2> SUFFICES ASSUME NEW q \in Runner, NEW k \in Job, InLease(q, k)', ~lateFail'[k]
               PROVE  \/ job'[k].status \in TerminalStatus
                      \/ job'[k].status = "running" /\ job'[k].lockedUntil = run'[q].until
    BY DEF LeaseIsBacked
  <2>1. ~lateFail[k]
    BY <1>4
  <2>2. CASE q = r
    BY <1>3, <1>5, <1>8, <2>2
  <2>3. CASE q # r
    <3>1. InLease(q, k) /\ run'[q] = run[q] /\ k # j
      BY <1>5, <1>7, <1>8, <2>1, <2>3
    <3>2. job'[k] = job[k]
      BY <1>1, <3>1
    <3>3. QED
      BY <2>1, <3>1, <3>2 DEF RunnerInv, LeaseIsBacked
  <2>4. QED
    BY <2>2, <2>3
<1>11. QED
  BY <1>6, <1>9, <1>10 DEF RunnerInv

(* A runner that fails the job within its lease was the only one, and one  *)
(* that fails it late is remembered in lateFail.                           *)
LEMMA FailStep ==
  ASSUME RunnerInv, NEW r \in Runner, Fail(r)
  PROVE  RunnerInv'
<1> DEFINE j == run[r].job
<1>0. RunnerTypeOK /\ TypeOK /\ now \in Nat
  BY DEF RunnerInv, RunnerTypeOK, TypeOK
<1>1. run[r].pc \in Executing /\ run[r].pc # "idle"
  BY DEF Fail, Executing
<1>2. j \in Job /\ run[r].until \in Nat
  BY <1>0, <1>1, BusyRunner DEF RunnerTypeOK, RunState
<1>3. /\ FailJob(j, now) /\ Goto(r, "notify")
      /\ lateFail' = [lateFail EXCEPT ![j] = @ \/ run[r].until <= now]
      /\ UNCHANGED <<deciding, sent, notified, faults>>
  BY DEF Fail
<1>4. /\ TypeOK' /\ now' = now
      /\ \A k \in Job : k # j => job'[k] = job[k]
  BY <1>0, <1>2, <1>3, FailJobStep
<1>5. /\ run' \in [Runner -> RunState]
      /\ \A q \in Runner : run'[q].pc # "idle" => run'[q].job \in Job
      /\ run'[r].pc = "notify"
      /\ \A q \in Runner : q # r => run'[q] = run[q]
  BY <1>0, <1>1, <1>3, GotoType
<1>6. /\ lateFail' \in [Job -> BOOLEAN]
      /\ \A k \in Job : lateFail[k] => lateFail'[k]
      /\ lateFail'[j] = (lateFail[j] \/ run[r].until <= now)
  BY <1>0, <1>2, <1>3 DEF RunnerTypeOK
<1>7. RunnerTypeOK'
  BY <1>0, <1>3, <1>4, <1>5, <1>6 DEF RunnerTypeOK
<1>8. \A q \in Runner, k \in Job : InLease(q, k)' => q # r /\ InLease(q, k)
  BY <1>4, <1>5 DEF InLease, Executing
<1>9. \A q \in Runner, k \in Job : k = j /\ InLease(q, k)' => lateFail'[k]
  <2> SUFFICES ASSUME NEW q \in Runner, NEW k \in Job, k = j, InLease(q, k)', ~lateFail'[k]
               PROVE  FALSE
    OBVIOUS
  <2>1. ~lateFail[k] /\ ~(run[r].until <= now)
    BY <1>6
  <2>2. InLease(r, k)
    BY <1>0, <1>1, <1>2, <2>1 DEF InLease
  <2>3. q # r /\ InLease(q, k)
    BY <1>8
  <2>4. QED
    BY <2>1, <2>2, <2>3 DEF RunnerInv, AtMostOneLeaseholder
<1>10. AtMostOneLeaseholder'
  BY <1>6, <1>8 DEF RunnerInv, AtMostOneLeaseholder
<1>11. LeaseIsBacked'
  <2> SUFFICES ASSUME NEW q \in Runner, NEW k \in Job, InLease(q, k)', ~lateFail'[k]
               PROVE  \/ job'[k].status \in TerminalStatus
                      \/ job'[k].status = "running" /\ job'[k].lockedUntil = run'[q].until
    BY DEF LeaseIsBacked
  <2>1. k # j /\ ~lateFail[k]
    BY <1>6, <1>9
  <2>2. job'[k] = job[k] /\ run'[q] = run[q] /\ InLease(q, k)
    BY <1>4, <1>5, <1>8, <2>1
  <2>3. QED
    BY <2>1, <2>2 DEF RunnerInv, LeaseIsBacked
<1>12. QED
  BY <1>7, <1>10, <1>11 DEF RunnerInv

LEMMA AdvanceStep ==
  ASSUME RunnerInv, Advance
  PROVE  RunnerInv'
<1>1. now' = now + 1 /\ UNCHANGED <<job, op>> /\ UNCHANGED runnerVars /\ now \in Nat
  BY DEF Advance, Tick, RunnerInv, RunnerTypeOK, TypeOK
<1>2. RunnerTypeOK'
  BY <1>1 DEF RunnerInv, RunnerTypeOK, TypeOK, runnerVars
<1>3. \A r \in Runner, j \in Job : InLease(r, j)' => InLease(r, j)
  BY <1>1 DEF InLease, runnerVars, RunnerInv, RunnerTypeOK, RunState
<1>4. QED
  BY <1>1, <1>2, <1>3
  DEF RunnerInv, LeaseIsBacked, AtMostOneLeaseholder, runnerVars

------------------------------------------------------------------------------
LEMMA RunnerInvStep == RunnerInv /\ [RunnerNext]_vars => RunnerInv'
<1> SUFFICES ASSUME RunnerInv, [RunnerNext]_vars PROVE RunnerInv'
  OBVIOUS
<1>1. CASE \E o \in Operation : RequestOperation(o)
  BY <1>1, RequestStep
<1>2. CASE \E j \in Job : RequestJob(j) \/ AnswerRequest(j) \/ DeviceProgress(j)
  BY <1>2, RequestStep
<1>3. CASE \E j \in Job, s \in ExternalOutcome : DeviceOutcome(j, s)
  BY <1>3, RequestStep
<1>4. CASE \E r \in Runner : \E j \in Job : Claim(r, j)
  BY <1>4, ClaimStep
<1>5. CASE \E r \in Runner : Fail(r)
  BY <1>5, FailStep
<1>6. CASE \E r \in Runner :
             \/ \E s \in HandlerOutcome \cup {"unsupported"} : Complete(r, s)
             \/ CheckDeadline(r) \/ Send(r) \/ MarkDispatched(r) \/ Notify(r) \/ Crash(r)
  BY <1>6, ProceedStep
<1>7. CASE Advance
  BY <1>7, AdvanceStep
<1>8. CASE UNCHANGED vars
  <2>1. CalmStore
    BY <1>8, CalmWhenUnchanged DEF vars, RunnerInv, RunnerTypeOK
  <2>2. QED
    BY <1>8, <2>1, QuietStep DEF vars, runnerVars, RunnerInv, RunnerTypeOK
<1>9. QED
  BY <1>1, <1>2, <1>3, <1>4, <1>5, <1>6, <1>7, <1>8 DEF RunnerNext, RunnerStep

(* The inductive invariant of the runners holds in every reachable state. *)
THEOREM RunnerInvHolds == RunnerSpec => []RunnerInv
<1>1. QED
  BY RunnerInitInv, RunnerInvStep, PTL DEF RunnerSpec

(* Every variable keeps its type: no handler writes a malformed row. *)
THEOREM RunnerTypeCorrect == RunnerSpec => []RunnerTypeOK
<1>1. RunnerInv => RunnerTypeOK
  BY DEF RunnerInv
<1>2. QED
  BY <1>1, RunnerInvHolds, PTL

(* claimNextJob gives a job to one runner at a time for as long as no      *)
(* runner fails the job after its own lease has ended.                     *)
THEOREM LeaseExclusiveUntilLateFailure == RunnerSpec => []AtMostOneLeaseholder
<1>1. RunnerInv => AtMostOneLeaseholder
  BY DEF RunnerInv
<1>2. QED
  BY <1>1, RunnerInvHolds, PTL

------------------------------------------------------------------------------
(* The steps that may touch a row with an outcome are failures. *)
OutcomeStep ==
  \A j \in Job :
    job[j].status \in TerminalStatus /\ job'[j] # job[j] =>
      \E r \in Runner : run[r].job = j /\ run[r].pc \in Executing /\ run'[r].pc = "notify"

LEMMA CalmKeepsOutcomes == CalmStore => OutcomeStep
  BY DEF CalmStore, CalmRow, OutcomeStep, IsOpen, TerminalStatus

LEMMA OnlyFailureUndoes == RunnerInv /\ [RunnerNext]_vars => OutcomeStep
<1> SUFFICES ASSUME RunnerInv, [RunnerNext]_vars PROVE OutcomeStep
  OBVIOUS
<1>0. RunnerTypeOK /\ TypeOK /\ now \in Nat
  BY DEF RunnerInv, RunnerTypeOK, TypeOK
<1>1. CASE \/ \E o \in Operation : RequestOperation(o)
           \/ \E j \in Job : RequestJob(j) \/ AnswerRequest(j) \/ DeviceProgress(j)
           \/ \E j \in Job, s \in ExternalOutcome : DeviceOutcome(j, s)
  BY <1>1, RequestStep, CalmKeepsOutcomes
<1>2. CASE \E r \in Runner :
             \/ \E s \in HandlerOutcome \cup {"unsupported"} : Complete(r, s)
             \/ CheckDeadline(r) \/ Send(r) \/ MarkDispatched(r) \/ Notify(r) \/ Crash(r)
  BY <1>2, ProceedStep, CalmKeepsOutcomes
<1>3. CASE \E r \in Runner : \E j \in Job : Claim(r, j)
  <2>1. PICK r \in Runner, j \in Job : Claim(r, j)
    BY <1>3
  <2>2. /\ Claimable(j, job[j], now)
        /\ \A k \in Job : k # j => job'[k] = job[k]
    BY <1>0, <2>1, ClaimNextJobStep DEF Claim
  <2>3. QED
    BY <2>2 DEF OutcomeStep, Claimable, TerminalStatus
<1>4. CASE \E r \in Runner : Fail(r)
  <2>1. PICK r \in Runner : Fail(r)
    BY <1>4
  <2>2. /\ run[r].pc \in Executing /\ run[r].pc # "idle"
        /\ FailJob(run[r].job, now) /\ Goto(r, "notify")
    BY <2>1 DEF Fail, Executing
  <2>3. \A k \in Job : k # run[r].job => job'[k] = job[k]
    BY <1>0, <2>2, BusyRunner, FailJobStep
  <2>4. run'[r].pc = "notify"
    BY <1>0, <2>2, GotoType
  <2>5. QED
    BY <2>2, <2>3, <2>4 DEF OutcomeStep
<1>5. CASE Advance \/ UNCHANGED vars
  BY <1>5 DEF Advance, Tick, vars, storeVars, OutcomeStep
<1>6. QED
  BY <1>1, <1>2, <1>3, <1>4, <1>5 DEF RunnerNext, RunnerStep

(* No duplicate, late or racing completion replaces an outcome: only the   *)
(* failure of a runner that was executing the job can.                     *)
THEOREM OutcomesUndoneOnlyByFailure == RunnerSpec => OutcomeUndoneOnlyByFailure
<1>1. RunnerInv /\ [RunnerNext]_vars =>
        [\A j \in Job :
           job[j].status \in TerminalStatus /\ job'[j] # job[j] =>
             \E r \in Runner :
               run[r].job = j /\ run[r].pc \in Executing /\ run'[r].pc = "notify"]_vars
  BY OnlyFailureUndoes DEF OutcomeStep
<1>2. QED
  BY <1>1, RunnerInvHolds, PTL DEF RunnerSpec, OutcomeUndoneOnlyByFailure

------------------------------------------------------------------------------
(* The outcomes that the requests, the handlers and runDueJobOnce pass to  *)
(* completeJob and completeExternalJob are among those the store is given. *)
StoreTakesOutcomes ==
  /\ "unsupported" \in HandlerOutcome
  /\ {"succeeded", "failed", "requires_manual_step"} \subseteq ExternalOutcome

LEMMA TryIsOneCall ==
  ASSUME StoreTakesOutcomes, NEW j \in Job, NEW s, NEW manual,
         s \in ExternalOutcome, manual \in Instruction(s),
         TryCompleteExternal(j, s, manual)
  PROVE  [Next]_storeVars
BY DEF TryCompleteExternal, Next

(* Each step calls at most one method of the store. *)
LEMMA RunnerStepIsOneCall ==
  ASSUME StoreTakesOutcomes, RunnerInv, NEW r \in Runner, RunnerStep(r) \/ Crash(r)
  PROVE  [Next]_storeVars
<1> DEFINE j == run[r].job
<1>1. RunnerTypeOK /\ now \in Nat /\ now \in 0..now
  BY DEF RunnerInv, RunnerTypeOK, TypeOK
<1>2. ASSUME NEW k \in Job, Claim(r, k) PROVE Next
  BY <1>1, <1>2 DEF Claim, Next
<1>3. ASSUME NEW s \in HandlerOutcome \cup {"unsupported"}, Complete(r, s)
      PROVE  [Next]_storeVars
  <2>1. j \in Job /\ s \in HandlerOutcome
    BY <1>1, <1>3, BusyRunner DEF Complete, StoreTakesOutcomes
  <2>2. QED
    BY <1>3, <2>1 DEF Complete, Next
<1>4. CASE CheckDeadline(r)
  <2>1. j \in Job
    BY <1>1, <1>4, BusyRunner DEF CheckDeadline
  <2>2. "failed" \in ExternalOutcome /\ FALSE \in Instruction("failed")
    BY DEF StoreTakesOutcomes, Instruction
  <2>3. QED
    BY <1>4, <2>1, <2>2, TryIsOneCall DEF CheckDeadline
<1>5. CASE MarkDispatched(r)
  <2>1. j \in Job /\ "remote" \in Stage
    BY <1>1, <1>5, BusyRunner DEF MarkDispatched, Stage
  <2>2. QED
    BY <1>5, <2>1 DEF MarkDispatched, Next
<1>6. CASE Fail(r)
  <2>1. j \in Job
    BY <1>1, <1>6, BusyRunner DEF Fail, Executing
  <2>2. QED
    BY <1>1, <1>6, <2>1 DEF Fail, Next
<1>7. CASE Send(r) \/ Notify(r) \/ Crash(r)
  BY <1>7 DEF Send, Notify, Crash
<1>8. QED
  BY <1>2, <1>3, <1>4, <1>5, <1>6, <1>7 DEF RunnerStep

LEMMA RunnerNextIsOneCall ==
  StoreTakesOutcomes /\ RunnerInv /\ [RunnerNext]_vars => [Next]_storeVars
<1> SUFFICES ASSUME StoreTakesOutcomes, RunnerInv, [RunnerNext]_vars
             PROVE  [Next]_storeVars
  OBVIOUS
<1>1. now \in 0..now /\ "remote" \in Stage
  BY DEF RunnerInv, RunnerTypeOK, TypeOK, Stage
<1>2. ASSUME NEW o \in Operation, RequestOperation(o) PROVE Next
  BY <1>2 DEF RequestOperation, Next
<1>3. ASSUME NEW j \in Job, RequestJob(j) PROVE Next
  BY <1>1, <1>3 DEF RequestJob, Next
<1>4. ASSUME NEW j \in Job, AnswerRequest(j) PROVE [Next]_storeVars
  <2>1. /\ "succeeded" \in ExternalOutcome /\ FALSE \in Instruction("succeeded")
        /\ "requires_manual_step" \in ExternalOutcome
        /\ TRUE \in Instruction("requires_manual_step")
    BY DEF StoreTakesOutcomes, Instruction
  <2>2. QED
    BY <1>4, <2>1, TryIsOneCall DEF AnswerRequest
<1>5. ASSUME NEW j \in Job, DeviceProgress(j) PROVE Next
  BY <1>1, <1>5 DEF DeviceProgress, Next
<1>6. ASSUME NEW j \in Job, NEW s \in ExternalOutcome, DeviceOutcome(j, s) PROVE Next
  BY <1>6 DEF DeviceOutcome, Next
<1>7. ASSUME NEW r \in Runner, RunnerStep(r) \/ Crash(r) PROVE [Next]_storeVars
  BY <1>7, RunnerStepIsOneCall
<1>8. CASE Advance
  BY <1>8 DEF Advance, Next
<1>9. CASE UNCHANGED vars
  BY <1>9 DEF vars
<1>10. QED
  BY <1>2, <1>3, <1>4, <1>5, <1>6, <1>7, <1>8, <1>9 DEF RunnerNext

(* Runners, requests and device messages together use the store as its     *)
(* abstract specification allows: whatever they interleave, crash or       *)
(* repeat, the tables only change by whole calls with valid arguments.     *)
THEOREM RunnersUseTheStore == StoreTakesOutcomes => (RunnerSpec => Spec)
<1> SUFFICES ASSUME StoreTakesOutcomes PROVE RunnerSpec => Spec
  OBVIOUS
<1>1. RunnerInit => Init
  BY DEF RunnerInit
<1>2. RunnerInv /\ [RunnerNext]_vars => [Next]_storeVars
  BY RunnerNextIsOneCall
<1>3. QED
  BY <1>1, <1>2, RunnerInvHolds, PTL DEF RunnerSpec, Spec

(* Two runners working on the same job, late failures, overdue device      *)
(* messages and crashes never take an operation out of step with its job.  *)
THEOREM RunnersKeepOperationsInStep ==
  OneJobPerOperation /\ StoreTakesOutcomes => (RunnerSpec => []OperationReflectsJobs)
<1> SUFFICES ASSUME OneJobPerOperation, StoreTakesOutcomes
             PROVE  RunnerSpec => []OperationReflectsJobs
  OBVIOUS
<1>1. Spec => []OperationReflectsJobs
  BY AtomicStoreReflectsJobs
<1>2. RunnerSpec => Spec
  BY RunnersUseTheStore
<1>3. QED
  BY <1>1, <1>2, PTL

------------------------------------------------------------------------------
(* Attempts.                                                               *)

(* The runners that have claimed job j and may yet send its request. *)
MaySend(j) == {r \in Runner : run[r].pc \in {"handling", "sending"} /\ run[r].job = j}

(* An attempt is spent on a request that was sent, or kept by one runner.  *)
AttemptsCover ==
  \A j \in Job :
    /\ IsFiniteSet(MaySend(j))
    /\ sent[j] + Cardinality(MaySend(j)) <= job[j].attempts

AbsentIsUntried == \A j \in Job : job[j].status = "absent" => job[j].attempts = 0

DispatchInv == RunnerInv /\ AttemptsCover /\ AbsentIsUntried

(* No method but claimNextJob counts an attempt, and no row goes away. *)
KeepsAttempts ==
  \A j \in Job : /\ job'[j].attempts = job[j].attempts
                 /\ job'[j].status = "absent" => job[j].status = "absent"

LEMMA CompletionKeepsAttempts ==
  ASSUME TypeOK, NEW j \in Job, NEW s \in TerminalStatus, NEW manual \in BOOLEAN,
         CompleteJob(j, s, manual) \/ CompleteExternalJob(j, s, manual)
  PROVE  KeepsAttempts
<1>1. job[j] \in JobRow /\ s \in Status /\ s # "absent"
  BY DEF TypeOK, Status, TerminalStatus
<1>2. CASE CompleteJob(j, s, manual)
  <2>1. \A k \in Job : job'[k] = IF k = j THEN CompletedRow(job[j], s) ELSE job[k]
    BY <1>1, <1>2, CompleteJobStep
  <2>2. /\ CompletedRow(job[j], s).attempts = job[j].attempts
        /\ CompletedRow(job[j], s).status = s
    BY <1>1 DEF CompletedRow, JobRow
  <2>3. QED
    BY <1>1, <2>1, <2>2 DEF KeepsAttempts
<1>3. CASE CompleteExternalJob(j, s, manual)
  <2>1. \A k \in Job : job'[k] =
          IF k = j THEN [CompletedRow(job[j], s) EXCEPT !.stage = "local"] ELSE job[k]
    BY <1>1, <1>3, CompleteExternalJobStep
  <2>2. /\ [CompletedRow(job[j], s) EXCEPT !.stage = "local"].attempts = job[j].attempts
        /\ [CompletedRow(job[j], s) EXCEPT !.stage = "local"].status = s
    BY <1>1 DEF CompletedRow, JobRow
  <2>3. QED
    BY <1>1, <2>1, <2>2 DEF KeepsAttempts
<1>4. QED
  BY <1>2, <1>3

LEMMA UnchangedKeepsAttempts == UNCHANGED storeVars => KeepsAttempts
  BY DEF storeVars, KeepsAttempts

LEMMA TryKeepsAttempts ==
  ASSUME TypeOK, NEW j \in Job, NEW s \in TerminalStatus, NEW manual \in BOOLEAN,
         TryCompleteExternal(j, s, manual)
  PROVE  KeepsAttempts
BY CompletionKeepsAttempts, UnchangedKeepsAttempts DEF TryCompleteExternal

LEMMA UpdateKeepsAttempts ==
  ASSUME TypeOK, NEW j \in Job, NEW stage \in Stage, UpdateJobPayload(j, stage)
  PROVE  KeepsAttempts
<1>1. job[j] \in JobRow
  BY DEF TypeOK
<1>2. \A k \in Job : job'[k] = IF k = j THEN [job[j] EXCEPT !.stage = stage] ELSE job[k]
  BY UpdateJobPayloadStep
<1>3. QED
  BY <1>1, <1>2 DEF KeepsAttempts, JobRow

LEMMA FailKeepsAttempts ==
  ASSUME TypeOK, NEW j \in Job, NEW t \in Nat, FailJob(j, t)
  PROVE  KeepsAttempts
<1>1. job[j] \in JobRow
  BY DEF TypeOK
<1>2. \A k \in Job : job'[k] = IF k = j THEN FailedRow(job[j], t) ELSE job[k]
  BY FailJobStep
<1>3. /\ FailedRow(job[j], t).attempts = job[j].attempts
      /\ FailedRow(job[j], t).status # "absent"
  BY <1>1 DEF FailedRow, JobRow
<1>4. QED
  BY <1>2, <1>3 DEF KeepsAttempts

LEMMA RequestsKeepAttempts ==
  ASSUME DispatchInv,
         \/ \E o \in Operation : RequestOperation(o)
         \/ \E j \in Job : RequestJob(j) \/ AnswerRequest(j) \/ DeviceProgress(j)
         \/ \E j \in Job, s \in ExternalOutcome : DeviceOutcome(j, s)
  PROVE  KeepsAttempts /\ UNCHANGED <<run, sent>>
<1>0. TypeOK /\ now \in Nat /\ AbsentIsUntried
  BY DEF DispatchInv, RunnerInv, RunnerTypeOK, TypeOK
<1>1. CASE \E o \in Operation : RequestOperation(o)
  BY <1>0, <1>1, CreateOperationStep DEF RequestOperation, runnerVars, KeepsAttempts
<1>2. CASE \E j \in Job : RequestJob(j)
  <2>1. PICK j \in Job : RequestJob(j)
    BY <1>2
  <2>2. /\ job[j].status = "absent"
        /\ \A k \in Job : job'[k] = IF k = j THEN QueuedJob(now) ELSE job[k]
    BY <1>0, <2>1, EnqueueJobStep DEF RequestJob
  <2>3. job[j] \in JobRow
    BY <1>0 DEF TypeOK
  <2>4. QED
    BY <1>0, <2>1, <2>2, <2>3
    DEF AbsentIsUntried, KeepsAttempts, RequestJob, QueuedJob, AbsentJob
<1>3. CASE \E j \in Job : AnswerRequest(j)
  <2>1. "succeeded" \in TerminalStatus /\ "requires_manual_step" \in TerminalStatus
    BY DEF TerminalStatus
  <2>2. QED
    BY <1>0, <1>3, <2>1, TryKeepsAttempts, UnchangedKeepsAttempts DEF AnswerRequest
<1>4. CASE \E j \in Job : DeviceProgress(j)
  BY <1>0, <1>4, UpdateKeepsAttempts DEF DeviceProgress, Stage, runnerVars
<1>5. CASE \E j \in Job, s \in ExternalOutcome : DeviceOutcome(j, s)
  <2>1. PICK j \in Job, s \in ExternalOutcome : DeviceOutcome(j, s)
    BY <1>5
  <2>2. PICK manual \in Instruction(s) : CompleteExternalJob(j, s, manual)
    BY <2>1 DEF DeviceOutcome
  <2>3. KeepsAttempts
    BY <1>0, <2>2, CompletionKeepsAttempts, OutcomesAreTerminal, AnyInstruction
  <2>4. QED
    BY <2>1, <2>3 DEF DeviceOutcome, runnerVars
<1>6. QED
  BY <1>1, <1>2, <1>3, <1>4, <1>5

(* Whoever proceeds without sending keeps the attempt it had, or gives it up. *)
LEMMA RunnersKeepAttempts ==
  ASSUME DispatchInv, NEW r \in Runner,
         \/ \E s \in HandlerOutcome \cup {"unsupported"} : Complete(r, s)
         \/ CheckDeadline(r) \/ MarkDispatched(r) \/ Fail(r) \/ Notify(r) \/ Crash(r)
  PROVE  /\ KeepsAttempts /\ sent' = sent
         /\ \A q \in Runner : run'[q].pc \in {"handling", "sending"} =>
              run[q].pc \in {"handling", "sending"} /\ run'[q].job = run[q].job
<1> DEFINE j == run[r].job
<1>0. RunnerTypeOK /\ TypeOK /\ now \in Nat
  BY DEF DispatchInv, RunnerInv, RunnerTypeOK, TypeOK
<1>1. j \in Job /\ run[r].pc # "idle"
  BY <1>0, BusyRunner DEF Complete, CheckDeadline, MarkDispatched, Fail, Notify, Crash, Executing
<1>2. KeepsAttempts
  <2>1. CASE \E s \in HandlerOutcome \cup {"unsupported"} : Complete(r, s)
    BY <1>0, <1>1, <2>1, CompletionKeepsAttempts, UnchangedKeepsAttempts,
       OutcomesAreTerminal, AnyInstruction DEF Complete
  <2>2. CASE CheckDeadline(r)
    <3>1. "failed" \in TerminalStatus
      BY DEF TerminalStatus
    <3>2. QED
      BY <1>0, <1>1, <2>2, <3>1, TryKeepsAttempts, UnchangedKeepsAttempts DEF CheckDeadline
  <2>3. CASE MarkDispatched(r)
    <3>1. "remote" \in Stage
      BY DEF Stage
    <3>2. QED
      BY <1>0, <1>1, <2>3, <3>1, UpdateKeepsAttempts, UnchangedKeepsAttempts DEF MarkDispatched
  <2>4. CASE Fail(r)
    BY <1>0, <1>1, <2>4, FailKeepsAttempts DEF Fail
  <2>5. CASE Notify(r) \/ Crash(r)
    BY <2>5, UnchangedKeepsAttempts DEF Notify, Crash
  <2>6. QED
    BY <2>1, <2>2, <2>3, <2>4, <2>5
<1>3. sent' = sent
  BY DEF Complete, CheckDeadline, MarkDispatched, Fail, Notify, Crash
<1>4. \/ Rest(r)
      \/ CheckDeadline(r) /\ run[r].pc = "handling" /\ Goto(r, "sending")
      \/ \E pc \in {"completed", "notify"} : Goto(r, pc)
  BY DEF Complete, CheckDeadline, MarkDispatched, Fail, Notify, Crash
<1>5. CASE Rest(r)
  <2>1. /\ run'[r].pc = "idle"
        /\ \A q \in Runner : q # r => run'[q] = run[q]
    BY <1>0, <1>5, RestType
  <2>2. QED
    BY <1>2, <1>3, <2>1
<1>6. CASE CheckDeadline(r) /\ run[r].pc = "handling" /\ Goto(r, "sending")
  <2>1. /\ run'[r].job = run[r].job
        /\ \A q \in Runner : q # r => run'[q] = run[q]
    BY <1>0, <1>1, <1>6, GotoType DEF Executing
  <2>2. QED
    BY <1>2, <1>3, <1>6, <2>1
<1>7. CASE \E pc \in {"completed", "notify"} : Goto(r, pc)
  <2>1. /\ run'[r].pc \notin {"handling", "sending"}
        /\ \A q \in Runner : q # r => run'[q] = run[q]
    BY <1>0, <1>1, <1>7, GotoType DEF Executing
  <2>2. QED
    BY <1>2, <1>3, <2>1
<1>8. QED
  BY <1>4, <1>5, <1>6, <1>7

LEMMA CoveredStill ==
  ASSUME DispatchInv, RunnerInv', KeepsAttempts, sent' = sent,
         \A q \in Runner : run'[q].pc \in {"handling", "sending"} =>
           run[q].pc \in {"handling", "sending"} /\ run'[q].job = run[q].job
  PROVE  DispatchInv'
<1>1. AbsentIsUntried'
  BY DEF DispatchInv, AbsentIsUntried, KeepsAttempts
<1>2. ASSUME NEW j \in Job
      PROVE  /\ IsFiniteSet(MaySend(j)')
             /\ sent'[j] + Cardinality(MaySend(j)') <= job'[j].attempts
  <2>1. MaySend(j)' \subseteq MaySend(j)
    BY DEF MaySend
  <2>2. IsFiniteSet(MaySend(j)) /\ sent[j] + Cardinality(MaySend(j)) <= job[j].attempts
    BY DEF DispatchInv, AttemptsCover
  <2>3. /\ IsFiniteSet(MaySend(j)')
        /\ Cardinality(MaySend(j)') <= Cardinality(MaySend(j))
    BY <2>1, <2>2, FS_Subset
  <2>4. /\ Cardinality(MaySend(j)') \in Nat /\ Cardinality(MaySend(j)) \in Nat
        /\ sent[j] \in Nat /\ job[j].attempts \in Nat
    BY <2>2, <2>3, FS_CardinalityType
    DEF DispatchInv, RunnerInv, RunnerTypeOK, TypeOK, JobRow
  <2>5. QED
    BY <2>2, <2>3, <2>4 DEF KeepsAttempts
<1>3. QED
  BY <1>1, <1>2 DEF DispatchInv, AttemptsCover

(* A claim counts an attempt and adds one runner that may send. *)
LEMMA ClaimCovers ==
  ASSUME DispatchInv, RunnerInv', NEW r \in Runner, NEW j \in Job, Claim(r, j)
  PROVE  DispatchInv'
<1>0. RunnerTypeOK /\ TypeOK /\ now \in Nat /\ job[j] \in JobRow
  BY DEF DispatchInv, RunnerInv, RunnerTypeOK, TypeOK
<1>1. \A k \in Job : job'[k] = IF k = j THEN ClaimedRow(job[j], r, now) ELSE job[k]
  BY <1>0, ClaimNextJobStep DEF Claim
<1>2. /\ ClaimedRow(job[j], r, now).attempts = job[j].attempts + 1
      /\ ClaimedRow(job[j], r, now).status = "running"
  BY <1>0 DEF ClaimedRow, JobRow
<1>3. /\ run[r].pc = "idle" /\ sent' = sent
      /\ run'[r].pc = "handling" /\ run'[r].job = j
      /\ \A q \in Runner : q # r => run'[q] = run[q]
  BY <1>0 DEF Claim, RunnerTypeOK
<1>4. AbsentIsUntried'
  BY <1>1, <1>2 DEF DispatchInv, AbsentIsUntried
<1>5. ASSUME NEW k \in Job
      PROVE  /\ IsFiniteSet(MaySend(k)')
             /\ sent'[k] + Cardinality(MaySend(k)') <= job'[k].attempts
  <2>1. IsFiniteSet(MaySend(k)) /\ sent[k] + Cardinality(MaySend(k)) <= job[k].attempts
    BY DEF DispatchInv, AttemptsCover
  <2>2. CASE k # j
    <3>1. MaySend(k)' = MaySend(k)
      BY <1>3, <2>2 DEF MaySend
    <3>2. QED
      BY <1>1, <1>3, <2>1, <2>2, <3>1
  <2>3. CASE k = j
    <3>1. MaySend(k)' = MaySend(k) \cup {r} /\ r \notin MaySend(k)
      BY <1>3, <2>3 DEF MaySend
    <3>2. /\ IsFiniteSet(MaySend(k)')
          /\ Cardinality(MaySend(k)') = Cardinality(MaySend(k)) + 1
      BY <2>1, <3>1, FS_AddElement
    <3>3. /\ Cardinality(MaySend(k)) \in Nat
          /\ sent[k] \in Nat /\ job[k].attempts \in Nat
      BY <1>0, <2>1, FS_CardinalityType DEF RunnerTypeOK, TypeOK, JobRow
    <3>4. QED
      BY <1>1, <1>2, <1>3, <2>1, <2>3, <3>2, <3>3
  <2>4. QED
    BY <2>2, <2>3
<1>6. QED
  BY <1>4, <1>5 DEF DispatchInv, AttemptsCover

(* A request that is written takes the place of the runner that sends it. *)
LEMMA SendCovers ==
  ASSUME DispatchInv, RunnerInv', NEW r \in Runner, Send(r)
  PROVE  DispatchInv'
<1> DEFINE j == run[r].job
<1>0. RunnerTypeOK /\ TypeOK
  BY DEF DispatchInv, RunnerInv, RunnerTypeOK
<1>1. run[r].pc = "sending" /\ j \in Job /\ job' = job
  BY <1>0, BusyRunner DEF Send, storeVars
<1>2. /\ run'[r].pc = "sent"
      /\ \A q \in Runner : q # r => run'[q] = run[q]
  BY <1>0, <1>1, GotoType DEF Send, Executing
<1>3. /\ sent'[j] = sent[j] + 1
      /\ \A k \in Job : k # j => sent'[k] = sent[k]
  BY <1>0, <1>1 DEF Send, RunnerTypeOK
<1>4. ASSUME NEW k \in Job
      PROVE  /\ IsFiniteSet(MaySend(k)')
             /\ sent'[k] + Cardinality(MaySend(k)') <= job'[k].attempts
  <2>1. IsFiniteSet(MaySend(k)) /\ sent[k] + Cardinality(MaySend(k)) <= job[k].attempts
    BY DEF DispatchInv, AttemptsCover
  <2>2. CASE k # j
    <3>1. MaySend(k)' = MaySend(k)
      BY <1>1, <1>2, <2>2 DEF MaySend
    <3>2. QED
      BY <1>1, <1>3, <2>1, <2>2, <3>1
  <2>3. CASE k = j
    <3>1. MaySend(k)' = MaySend(k) \ {r} /\ r \in MaySend(k)
      BY <1>1, <1>2, <2>3 DEF MaySend
    <3>2. /\ IsFiniteSet(MaySend(k)')
          /\ Cardinality(MaySend(k)') = Cardinality(MaySend(k)) - 1
      BY <2>1, <3>1, FS_RemoveElement
    <3>3. /\ Cardinality(MaySend(k)) \in Nat
          /\ sent[k] \in Nat /\ job[k].attempts \in Nat
      BY <1>0, <2>1, FS_CardinalityType DEF RunnerTypeOK, TypeOK, JobRow
    <3>4. QED
      BY <1>1, <1>3, <2>1, <2>3, <3>2, <3>3
  <2>4. QED
    BY <2>2, <2>3
<1>5. AbsentIsUntried'
  BY <1>1 DEF DispatchInv, AbsentIsUntried
<1>6. QED
  BY <1>4, <1>5 DEF DispatchInv, AttemptsCover

LEMMA DispatchInit == RunnerInit => DispatchInv
<1> SUFFICES ASSUME RunnerInit PROVE DispatchInv
  OBVIOUS
<1>1. RunnerInv /\ AbsentIsUntried
  BY RunnerInitInv DEF RunnerInit, Init, AbsentJob, AbsentIsUntried
<1>2. ASSUME NEW j \in Job
      PROVE  IsFiniteSet(MaySend(j)) /\ sent[j] + Cardinality(MaySend(j)) <= job[j].attempts
  <2>1. MaySend(j) = {} /\ sent[j] = 0 /\ job[j].attempts = 0
    BY DEF RunnerInit, Init, AbsentJob, AtRest, MaySend
  <2>2. QED
    BY <2>1, FS_EmptySet
<1>3. QED
  BY <1>1, <1>2 DEF DispatchInv, AttemptsCover

LEMMA DispatchStep == DispatchInv /\ [RunnerNext]_vars => DispatchInv'
<1> SUFFICES ASSUME DispatchInv, [RunnerNext]_vars PROVE DispatchInv'
  OBVIOUS
<1>0. RunnerInv'
  BY RunnerInvStep DEF DispatchInv
<1>1. CASE \/ \E o \in Operation : RequestOperation(o)
           \/ \E j \in Job : RequestJob(j) \/ AnswerRequest(j) \/ DeviceProgress(j)
           \/ \E j \in Job, s \in ExternalOutcome : DeviceOutcome(j, s)
  BY <1>0, <1>1, RequestsKeepAttempts, CoveredStill
<1>2. CASE \E r \in Runner :
             \/ \E s \in HandlerOutcome \cup {"unsupported"} : Complete(r, s)
             \/ CheckDeadline(r) \/ MarkDispatched(r) \/ Fail(r) \/ Notify(r) \/ Crash(r)
  BY <1>0, <1>2, RunnersKeepAttempts, CoveredStill
<1>3. CASE \E r \in Runner : \E j \in Job : Claim(r, j)
  BY <1>0, <1>3, ClaimCovers
<1>4. CASE \E r \in Runner : Send(r)
  BY <1>0, <1>4, SendCovers
<1>5. CASE Advance \/ UNCHANGED vars
  <2>1. UNCHANGED <<job, run, sent>>
    BY <1>5 DEF Advance, Tick, vars, storeVars, runnerVars
  <2>2. QED
    BY <1>0, <2>1, CoveredStill DEF KeepsAttempts
<1>6. QED
  BY <1>1, <1>2, <1>3, <1>4, <1>5 DEF RunnerNext, RunnerStep

(* Every request that reaches a device is a counted attempt, although the  *)
(* attempt is counted when the job is claimed, and sent long afterwards by *)
(* runners that overlap, fail and crash.                                   *)
THEOREM AttemptsBoundDispatches == RunnerSpec => []DispatchesAreCounted
<1>1. DispatchInv => DispatchesAreCounted
  <2> SUFFICES ASSUME DispatchInv, NEW j \in Job PROVE sent[j] <= job[j].attempts
    BY DEF DispatchesAreCounted
  <2>1. IsFiniteSet(MaySend(j)) /\ sent[j] + Cardinality(MaySend(j)) <= job[j].attempts
    BY DEF DispatchInv, AttemptsCover
  <2>2. /\ Cardinality(MaySend(j)) \in Nat
        /\ sent[j] \in Nat /\ job[j].attempts \in Nat
    BY <2>1, FS_CardinalityType DEF DispatchInv, RunnerInv, RunnerTypeOK, TypeOK, JobRow
  <2>3. QED
    BY <2>1, <2>2
<1>2. QED
  BY DispatchInit, DispatchStep, <1>1, PTL DEF RunnerSpec

------------------------------------------------------------------------------
(* The analysis jobs.                                                      *)

(* What the steps of the analysis rely on of their own variables. *)
LocalInv ==
  /\ trigger \in [Trigger -> TriggerState]
  /\ \A p \in Trigger : trigger[p].pc = "enqueue" <=> trigger[p].op # NoOperation
  /\ handler \in [Handler -> HandlerState]
  /\ \A h \in Handler :
       /\ handler[h].pc # "idle" => handler[h].job \in Job
       /\ handler[h].pc = "report" => handler[h].status = "succeeded"
       /\ handler[h].pc = "complete" => handler[h].status # "none"
  /\ report \in [Target -> Operation \cup {NoOperation}]

(* A handler about to complete a success has stored the report. *)
StoredFirst ==
  \A h \in Handler :
    handler[h].pc = "complete" /\ handler[h].status = "succeeded" =>
      report[TargetOf[OperationOf[handler[h].job]]] # NoOperation

TriggerMove ==
  \E p \in Trigger :
    \/ \E t \in Target : CheckReport(p, t) \/ Ask(p, t)
    \/ \E o \in Operation : Create(p, o)
    \/ \E j \in Job : Enqueue(p, j)
    \/ CheckOpen(p) \/ Abandon(p)

HandlerMove ==
  \E h \in Handler :
    \/ \E j \in Job, kind \in {"progress", "succeeded", "invalid", "unsupported", "failed"} :
         Receive(h, j, kind)
    \/ ApplyProgress(h) \/ StoreReport(h) \/ CompleteAnalysis(h) \/ Drop(h)

RunnerMove ==
  \/ \E r \in Runner : Dispatch(r)
  \/ /\ Advance \/ \E r \in Runner : Crash(r)
     /\ UNCHANGED analysisVars

LEMMA AnalysisMoves == AnalysisNext => TriggerMove \/ HandlerMove \/ RunnerMove
  BY Zenon DEF AnalysisNext, TriggerMove, HandlerMove, RunnerMove

------------------------------------------------------------------------------
LEMMA TriggerMoveKeepsLocal == LocalInv /\ TriggerMove => LocalInv'
<1> SUFFICES ASSUME LocalInv, NEW p \in Trigger,
                    \/ \E t \in Target : CheckReport(p, t) \/ Ask(p, t)
                    \/ \E o \in Operation : Create(p, o)
                    \/ \E j \in Job : Enqueue(p, j)
                    \/ CheckOpen(p) \/ Abandon(p)
             PROVE  LocalInv'
  BY DEF TriggerMove
<1>1. handler' = handler /\ report' = report
  BY DEF CheckReport, Ask, Create, Enqueue, CheckOpen, Abandon
<1>2. trigger[p] \in TriggerState /\ Waiting \in TriggerState /\ Waiting.op = NoOperation
      /\ Waiting.pc = "idle"
  BY DEF LocalInv, TriggerState, Waiting
<1>3. \E s \in TriggerState :
        /\ trigger' = [trigger EXCEPT ![p] = s]
        /\ s.pc = "enqueue" <=> s.op # NoOperation
  <2>1. CASE \E t \in Target : CheckReport(p, t)
    <3>1. PICK t \in Target : CheckReport(p, t)
      BY <2>1
    <3>2. [Waiting EXCEPT !.pc = "queued", !.target = t] \in TriggerState
      BY DEF Waiting, TriggerState
    <3>3. WITNESS [Waiting EXCEPT !.pc = "queued", !.target = t] \in TriggerState
    <3>4. QED
      BY <3>1 DEF CheckReport, Waiting, TriggerState
  <2>2. CASE \E t \in Target : Ask(p, t)
    <3>1. PICK t \in Target : Ask(p, t)
      BY <2>2
    <3>2. [Waiting EXCEPT !.pc = "create", !.target = t] \in TriggerState
      BY DEF Waiting, TriggerState
    <3>3. WITNESS [Waiting EXCEPT !.pc = "create", !.target = t] \in TriggerState
    <3>4. QED
      BY <3>1 DEF Ask, Waiting, TriggerState
  <2>3. CASE \E o \in Operation : Create(p, o)
    <3>1. PICK o \in Operation : Create(p, o)
      BY <2>3
    <3>2. [trigger[p] EXCEPT !.pc = "enqueue", !.op = o] \in TriggerState
      BY <1>2 DEF TriggerState
    <3>3. WITNESS [trigger[p] EXCEPT !.pc = "enqueue", !.op = o] \in TriggerState
    <3>4. QED
      BY <1>2, <3>1, AnalysisAssumption DEF Create, TriggerState, LocalInv
  <2>4. CASE (\E j \in Job : Enqueue(p, j)) \/ Abandon(p)
    <3>1. trigger' = [trigger EXCEPT ![p] = Waiting]
      BY <2>4 DEF Enqueue, Abandon
    <3>2. QED
      BY <1>2, <3>1
  <2>5. CASE CheckOpen(p)
    <3>1. trigger[p].pc \in {"queued", "running"} /\ trigger[p].op = NoOperation
      BY <2>5 DEF CheckOpen, LocalInv
    <3>2. \/ trigger' = [trigger EXCEPT ![p] = Waiting]
          \/ trigger' = [trigger EXCEPT ![p] = [trigger[p] EXCEPT !.pc = "running"]]
          \/ trigger' = [trigger EXCEPT ![p] = [trigger[p] EXCEPT !.pc = "create"]]
      BY <2>5 DEF CheckOpen
    <3>3. \A pc \in {"running", "create"} :
            /\ [trigger[p] EXCEPT !.pc = pc] \in TriggerState
            /\ [trigger[p] EXCEPT !.pc = pc].pc = pc
            /\ [trigger[p] EXCEPT !.pc = pc].op = NoOperation
      BY <1>2, <3>1 DEF TriggerState
    <3>4. QED
      BY <1>2, <3>2, <3>3
  <2>6. QED
    BY <2>1, <2>2, <2>3, <2>4, <2>5
<1>4. QED
  BY <1>1, <1>3 DEF LocalInv

LEMMA HandlerMoveKeepsLocal == LocalInv /\ HandlerMove => LocalInv'
<1> SUFFICES ASSUME LocalInv, NEW h \in Handler,
                    \/ \E j \in Job, kind \in {"progress", "succeeded", "invalid", "unsupported", "failed"} :
                         Receive(h, j, kind)
                    \/ ApplyProgress(h) \/ StoreReport(h) \/ CompleteAnalysis(h) \/ Drop(h)
             PROVE  LocalInv'
  BY DEF HandlerMove
<1>1. trigger' = trigger
  BY DEF Receive, ApplyProgress, StoreReport, CompleteAnalysis, Drop
<1>2. handler[h] \in HandlerState /\ Free \in HandlerState /\ Free.pc = "idle"
  BY DEF LocalInv, HandlerState, Free
<1>3. report' \in [Target -> Operation \cup {NoOperation}]
  <2>1. CASE StoreReport(h)
    <3>1. OperationOf[handler[h].job] \in Operation
      BY <2>1, RowsAssumption DEF StoreReport, LocalInv
    <3>2. QED
      BY <2>1, <3>1 DEF StoreReport, LocalInv
  <2>2. CASE ~StoreReport(h)
    BY <2>2 DEF Receive, ApplyProgress, CompleteAnalysis, Drop, LocalInv
  <2>3. QED
    BY <2>1, <2>2
<1>4. \E s \in HandlerState :
        /\ handler' = [handler EXCEPT ![h] = s]
        /\ s.pc # "idle" => s.job \in Job
        /\ s.pc = "report" => s.status = "succeeded"
        /\ s.pc = "complete" => s.status # "none"
  <2>1. CASE \E j \in Job, kind \in {"progress", "succeeded", "invalid", "unsupported", "failed"} :
               Receive(h, j, kind)
    <3>1. PICK j \in Job, kind \in {"progress", "succeeded", "invalid", "unsupported", "failed"} :
            Receive(h, j, kind)
      BY <2>1
    <3> DEFINE S == {[pc |-> "update", job |-> j, status |-> "none"],
                     [pc |-> "report", job |-> j, status |-> "succeeded"],
                     [pc |-> "complete", job |-> j, status |-> "unsupported"],
                     [pc |-> "complete", job |-> j, status |-> "failed"]}
    <3>2. \E s \in S : handler' = [handler EXCEPT ![h] = s]
      <4>1. CASE kind = "progress"
        BY <3>1, <4>1 DEF Receive
      <4>2. CASE kind = "succeeded"
        BY <3>1, <4>2 DEF Receive
      <4>3. CASE kind = "unsupported"
        BY <3>1, <4>3 DEF Receive
      <4>4. CASE kind \in {"invalid", "failed"}
        BY <3>1, <4>4 DEF Receive
      <4>5. QED
        BY <4>1, <4>2, <4>3, <4>4
    <3>3. \A s \in S : s \in HandlerState /\ s.job = j
                      /\ (s.pc = "report" => s.status = "succeeded")
                      /\ (s.pc = "complete" => s.status # "none")
      BY DEF HandlerState
    <3> HIDE DEF S
    <3>4. QED
      BY <3>2, <3>3
  <2>2. CASE ApplyProgress(h) \/ CompleteAnalysis(h) \/ Drop(h)
    <3>1. handler' = [handler EXCEPT ![h] = Free]
      BY <2>2 DEF ApplyProgress, CompleteAnalysis, Drop
    <3>2. QED
      BY <1>2, <3>1
  <2>3. CASE StoreReport(h)
    <3>1. handler[h].job \in Job /\ handler[h].status = "succeeded"
          /\ handler' = [handler EXCEPT ![h] = [handler[h] EXCEPT !.pc = "complete"]]
      BY <2>3 DEF StoreReport, LocalInv
    <3>2. [handler[h] EXCEPT !.pc = "complete"] \in HandlerState
      BY <1>2 DEF HandlerState
    <3>3. WITNESS [handler[h] EXCEPT !.pc = "complete"] \in HandlerState
    <3>4. QED
      BY <1>2, <3>1 DEF HandlerState
  <2>4. QED
    BY <2>1, <2>2, <2>3
<1>5. QED
  BY <1>1, <1>3, <1>4 DEF LocalInv

LEMMA LocalInvStep == LocalInv /\ [AnalysisNext]_allVars => LocalInv'
<1>1. LocalInv /\ RunnerMove => LocalInv'
  BY DEF RunnerMove, Dispatch, LocalInv, analysisVars
<1>2. LocalInv /\ UNCHANGED allVars => LocalInv'
  BY DEF LocalInv, allVars, analysisVars
<1>3. QED
  BY <1>1, <1>2, AnalysisMoves, TriggerMoveKeepsLocal, HandlerMoveKeepsLocal

LEMMA LocalInvInit == AnalysisInit => LocalInv
  BY DEF AnalysisInit, LocalInv, TriggerState, HandlerState, Waiting, Free

LEMMA LocalInvHolds == AnalysisSpec => []LocalInv
  BY LocalInvInit, LocalInvStep, PTL DEF AnalysisSpec

------------------------------------------------------------------------------
LEMMA AnalysisStepIsRunnerStep == LocalInv /\ [AnalysisNext]_allVars => [RunnerNext]_vars
<1> SUFFICES ASSUME LocalInv, [AnalysisNext]_allVars PROVE [RunnerNext]_vars
  OBVIOUS
<1>1. CASE TriggerMove
  BY <1>1 DEF TriggerMove, CheckReport, Ask, Create, Enqueue, CheckOpen, Abandon, RunnerNext
<1>2. CASE HandlerMove
  <2>1. PICK h \in Handler :
          \/ \E j \in Job, kind \in {"progress", "succeeded", "invalid", "unsupported", "failed"} :
               Receive(h, j, kind)
          \/ ApplyProgress(h) \/ StoreReport(h) \/ CompleteAnalysis(h) \/ Drop(h)
    BY <1>2 DEF HandlerMove
  <2>2. CASE ApplyProgress(h)
    <3>1. handler[h].job \in Job
      BY <2>2 DEF ApplyProgress, LocalInv
    <3>2. QED
      BY <2>2, <3>1 DEF ApplyProgress, RunnerNext
  <2>3. CASE CompleteAnalysis(h)
    <3>1. handler[h].job \in Job /\ handler[h].status \in ExternalOutcome
      BY <2>3, AnalysisAssumption DEF CompleteAnalysis, LocalInv, HandlerState
    <3>2. QED
      BY <2>3, <3>1 DEF CompleteAnalysis, RunnerNext
  <2>4. CASE \/ \E j \in Job, kind \in {"progress", "succeeded", "invalid", "unsupported", "failed"} :
                  Receive(h, j, kind)
             \/ StoreReport(h) \/ Drop(h)
    BY <2>4 DEF Receive, StoreReport, Drop
  <2>5. QED
    BY <2>1, <2>2, <2>3, <2>4
<1>3. CASE RunnerMove
  BY <1>3 DEF RunnerMove, Dispatch, RunnerNext
<1>4. CASE UNCHANGED allVars
  BY <1>4 DEF allVars, vars
<1>5. QED
  BY <1>1, <1>2, <1>3, <1>4, AnalysisMoves

(* The triggers and the handlers of device messages, which act on rows     *)
(* they read some queries earlier, only take steps that the runners and    *)
(* the store allow.                                                        *)
LEMMA AnalysisRunsAsRunners == AnalysisSpec => RunnerSpec
<1>1. AnalysisInit => RunnerInit
  BY DEF AnalysisInit
<1>2. QED
  BY <1>1, LocalInvHolds, AnalysisStepIsRunnerStep, PTL
  DEF AnalysisSpec, RunnerSpec

(* However many messages about an analysis are handled at once, each on a  *)
(* row read before: no result, duplicate or late progress replaces an      *)
(* outcome, only the failure of a runner that was executing the job can.   *)
THEOREM AnalysisOutcomesStand == AnalysisSpec => OutcomeUndoneOnlyByFailure
BY AnalysisRunsAsRunners, OutcomesUndoneOnlyByFailure, PTL

(* The scheduler, the manual trigger and the devices that report analyses, *)
(* which read an operation long before they act on its job, leave the      *)
(* status of the operation in step with the job as well.                   *)
THEOREM AnalysisKeepsOperationsInStep ==
  OneJobPerOperation /\ StoreTakesOutcomes => (AnalysisSpec => []OperationReflectsJobs)
<1> SUFFICES ASSUME OneJobPerOperation, StoreTakesOutcomes
             PROVE  AnalysisSpec => []OperationReflectsJobs
  OBVIOUS
<1>1. RunnerSpec => []OperationReflectsJobs
  BY RunnersKeepOperationsInStep
<1>2. QED
  BY <1>1, AnalysisRunsAsRunners, PTL

LEMMA RunnerTypesHold == AnalysisSpec => []RunnerTypeOK
  BY AnalysisRunsAsRunners, RunnerTypeCorrect, PTL

LEMMA MeasuredStep ==
  RunnerTypeOK /\ measured \subseteq Job /\ [AnalysisNext]_allVars => (measured \subseteq Job)'
<1> SUFFICES ASSUME RunnerTypeOK, measured \subseteq Job, [AnalysisNext]_allVars
             PROVE  measured' \subseteq Job
  OBVIOUS
<1>1. TriggerMove => measured' = measured
  BY DEF TriggerMove, CheckReport, Ask, Create, Enqueue, CheckOpen, Abandon
<1>2. HandlerMove => measured' = measured
  BY DEF HandlerMove, Receive, ApplyProgress, StoreReport, CompleteAnalysis, Drop
<1>3. \A r \in Runner : run[r].pc = "sent" => run[r].job \in Job
  BY DEF RunnerTypeOK
<1>4. RunnerMove => measured' \subseteq Job
  BY <1>3 DEF RunnerMove, Dispatch, analysisVars
<1>5. UNCHANGED allVars => measured' = measured
  BY DEF allVars, analysisVars
<1>6. QED
  BY <1>1, <1>2, <1>4, <1>5, AnalysisMoves

(* The store, the runners, the triggers, the handlers and the reports keep *)
(* their types; a handler past its first query holds a job and an outcome. *)
THEOREM AnalysisTypeCorrect == AnalysisSpec => []AnalysisTypeOK
<1>1. AnalysisInit => measured \subseteq Job
  BY DEF AnalysisInit
<1>2. AnalysisSpec => [](measured \subseteq Job)
  BY <1>1, MeasuredStep, RunnerTypesHold, PTL DEF AnalysisSpec
<1>3. RunnerTypeOK /\ LocalInv /\ measured \subseteq Job => AnalysisTypeOK
  BY DEF LocalInv, AnalysisTypeOK
<1>4. QED
  BY <1>2, <1>3, RunnerTypesHold, LocalInvHolds, PTL

------------------------------------------------------------------------------
(* No job gets the status "succeeded". *)
NoNewSuccess == \A j \in Job : job'[j].status = "succeeded" => job[j].status = "succeeded"

LEMMA CompletedStatus ==
  ASSUME NEW row \in JobRow, NEW s
  PROVE  /\ CompletedRow(row, s).status = s
         /\ [CompletedRow(row, s) EXCEPT !.stage = "local"].status = s
  BY DEF JobRow, CompletedRow

LEMMA TypedStep ==
  ASSUME RunnerTypeOK
  PROVE  /\ TypeOK /\ now \in Nat
         /\ \A j \in Job : job[j] \in JobRow
         /\ \A r \in Runner : run[r].pc # "idle" => run[r].job \in Job
  BY DEF RunnerTypeOK, TypeOK

LEMMA RequestsDoNotSucceed ==
  ASSUME RunnerTypeOK, (\E o \in Operation : RequestOperation(o)) \/ (\E j \in Job : RequestJob(j))
  PROVE  NoNewSuccess
<1>1. CASE \E o \in Operation : RequestOperation(o)
  BY <1>1 DEF RequestOperation, CreateOperation, NoNewSuccess
<1>2. CASE \E j \in Job : RequestJob(j)
  <2>1. PICK j \in Job : EnqueueJob(j, now)
    BY <1>2 DEF RequestJob
  <2>2. \A k \in Job : job'[k] = IF k = j THEN QueuedJob(now) ELSE job[k]
    BY <2>1, TypedStep, EnqueueJobStep
  <2>3. QED
    BY <2>2 DEF QueuedJob, AbsentJob, NoNewSuccess
<1>3. QED
  BY <1>1, <1>2

LEMMA OpenIsNoSuccess == \A j \in Job : IsOpen(job[j]) => job[j].status # "succeeded"
  BY DEF IsOpen

LEMMA RunnersDoNotSucceed ==
  ASSUME RunnerTypeOK, NEW r \in Runner, RunnerStep(r) \/ Crash(r)
  PROVE  NoNewSuccess
<1> USE TypedStep
<1>1. CASE \E j \in Job : Claim(r, j)
  <2>1. PICK j \in Job : ClaimNextJob(r, j, now)
    BY <1>1 DEF Claim
  <2>2. \A k \in Job : job'[k] = IF k = j THEN ClaimedRow(job[j], r, now) ELSE job[k]
    BY <2>1, ClaimNextJobStep
  <2>3. ClaimedRow(job[j], r, now).status = "running"
    BY DEF ClaimedRow, JobRow
  <2>4. QED
    BY <2>2, <2>3 DEF NoNewSuccess
<1>2. CASE \E s \in HandlerOutcome \cup {"unsupported"} : Complete(r, s)
  <2>1. PICK s \in HandlerOutcome \cup {"unsupported"} : Complete(r, s)
    BY <1>2
  <2> DEFINE j == run[r].job
  <2>2. j \in Job
    BY <2>1 DEF Complete
  <2>3. s = "unsupported"
    BY <2>1, <2>2, AnalysisAssumption DEF Complete, AnalysisType, EmailType
  <2>4. s \in Status
    BY <2>3 DEF Status, TerminalStatus
  <2>5. CASE \E manual \in Instruction(s) : CompleteJob(j, s, manual)
    <3>1. PICK manual \in BOOLEAN : CompleteJob(j, s, manual)
      BY <2>5, AnyInstruction
    <3>2. \A k \in Job : job'[k] = IF k = j THEN CompletedRow(job[j], s) ELSE job[k]
      BY <3>1, <2>2, <2>4, CompleteJobStep
    <3>3. QED
      BY <2>2, <2>3, <3>2, CompletedStatus DEF NoNewSuccess
  <2>6. CASE UNCHANGED storeVars
    BY <2>6 DEF storeVars, NoNewSuccess
  <2>7. QED
    BY <2>1, <2>5, <2>6 DEF Complete
<1>3. CASE CheckDeadline(r)
  <2> DEFINE j == run[r].job
  <2>1. j \in Job /\ (TryCompleteExternal(j, "failed", FALSE) \/ UNCHANGED storeVars)
    BY <1>3 DEF CheckDeadline
  <2>2. CASE CompleteExternalJob(j, "failed", FALSE)
    <3>1. "failed" \in Status
      BY DEF Status, TerminalStatus
    <3>2. \A k \in Job : job'[k] =
            IF k = j THEN [CompletedRow(job[j], "failed") EXCEPT !.stage = "local"] ELSE job[k]
      BY <2>1, <2>2, <3>1, CompleteExternalJobStep
    <3>3. QED
      BY <2>1, <3>2, CompletedStatus DEF NoNewSuccess
  <2>3. CASE UNCHANGED storeVars
    BY <2>3 DEF storeVars, NoNewSuccess
  <2>4. QED
    BY <2>1, <2>2, <2>3 DEF TryCompleteExternal
<1>4. CASE MarkDispatched(r)
  <2> DEFINE j == run[r].job
  <2>1. j \in Job /\ (UpdateJobPayload(j, "remote") \/ UNCHANGED storeVars)
    BY <1>4 DEF MarkDispatched
  <2>2. CASE UpdateJobPayload(j, "remote")
    <3>1. \A k \in Job : job'[k] = IF k = j THEN [job[j] EXCEPT !.stage = "remote"] ELSE job[k]
      BY <2>1, <2>2, UpdateJobPayloadStep DEF Stage
    <3>2. QED
      BY <2>1, <3>1 DEF JobRow, NoNewSuccess
  <2>3. CASE UNCHANGED storeVars
    BY <2>3 DEF storeVars, NoNewSuccess
  <2>4. QED
    BY <2>1, <2>2, <2>3
<1>5. CASE Fail(r)
  <2> DEFINE j == run[r].job
  <2>1. j \in Job /\ FailJob(j, now)
    BY <1>5 DEF Fail, Executing
  <2>2. \A k \in Job : job'[k] = IF k = j THEN FailedRow(job[j], now) ELSE job[k]
    BY <2>1, FailJobStep
  <2>3. FailedRow(job[j], now).status \in {"queued", "failed"}
    BY <2>1 DEF FailedRow, JobRow
  <2>4. QED
    BY <2>2, <2>3 DEF NoNewSuccess
<1>6. CASE Send(r) \/ Notify(r) \/ Crash(r)
  BY <1>6 DEF Send, Notify, Crash, storeVars, NoNewSuccess
<1>7. QED
  BY <1>1, <1>2, <1>3, <1>4, <1>5, <1>6 DEF RunnerStep

------------------------------------------------------------------------------
ReportInv == StoredFirst /\ SuccessHasReport

(* Reports are overwritten and never removed. *)
ReportsStay == \A t \in Target : report[t] # NoOperation => report'[t] # NoOperation

LEMMA ReportsStayStep == LocalInv /\ [AnalysisNext]_allVars => ReportsStay
<1> SUFFICES ASSUME LocalInv, [AnalysisNext]_allVars PROVE ReportsStay
  OBVIOUS
<1>1. CASE \E h \in Handler : StoreReport(h)
  <2>1. PICK h \in Handler : StoreReport(h)
    BY <1>1
  <2>2. OperationOf[handler[h].job] \in Operation
    BY <2>1, RowsAssumption DEF StoreReport, LocalInv
  <2>3. QED
    BY <2>1, <2>2, AnalysisAssumption DEF StoreReport, LocalInv, ReportsStay
<1>2. CASE ~\E h \in Handler : StoreReport(h)
  <2>1. report' = report
    BY <1>2, AnalysisMoves
    DEF TriggerMove, CheckReport, Ask, Create, Enqueue, CheckOpen, Abandon, HandlerMove,
        Receive, ApplyProgress, CompleteAnalysis, Drop, RunnerMove, Dispatch, allVars, analysisVars
  <2>2. QED
    BY <2>1 DEF ReportsStay
<1>3. QED
  BY <1>1, <1>2

LEMMA TargetIsKnown == \A j \in Job : TargetOf[OperationOf[j]] \in Target
  BY RowsAssumption, AnalysisAssumption

(* A step that starts no handled success and lets no job succeed. *)
LEMMA CalmReportStep ==
  ASSUME LocalInv, ReportInv, ReportsStay, NoNewSuccess,
         \A h \in Handler :
           handler'[h].pc = "complete" /\ handler'[h].status = "succeeded" => handler'[h] = handler[h]
  PROVE  ReportInv'
<1>1. StoredFirst'
  BY TargetIsKnown DEF ReportInv, StoredFirst, ReportsStay, LocalInv
<1>2. SuccessHasReport'
  BY TargetIsKnown DEF ReportInv, SuccessHasReport, ReportsStay, NoNewSuccess
<1>3. QED
  BY <1>1, <1>2 DEF ReportInv

LEMMA HandlerReportStep ==
  ASSUME RunnerTypeOK, LocalInv, ReportInv, ReportsStay, NEW h \in Handler,
         \/ \E j \in Job, kind \in {"progress", "succeeded", "invalid", "unsupported", "failed"} :
              Receive(h, j, kind)
         \/ ApplyProgress(h) \/ StoreReport(h) \/ CompleteAnalysis(h) \/ Drop(h)
  PROVE  ReportInv'
<1> USE TypedStep
<1>0. \A g \in Handler : g # h => handler'[g] = handler[g]
  BY DEF Receive, ApplyProgress, StoreReport, CompleteAnalysis, Drop, LocalInv
<1>1. CASE \E j \in Job, kind \in {"progress", "succeeded", "invalid", "unsupported", "failed"} :
             Receive(h, j, kind)
  <2>1. PICK j \in Job, kind \in {"progress", "succeeded", "invalid", "unsupported", "failed"} :
          Receive(h, j, kind)
    BY <1>1
  <2>2. ~(handler'[h].pc = "complete" /\ handler'[h].status = "succeeded")
    <3>1. CASE kind = "progress"
      BY <2>1, <3>1 DEF Receive, LocalInv
    <3>2. CASE kind = "succeeded"
      BY <2>1, <3>2 DEF Receive, LocalInv
    <3>3. CASE kind = "unsupported"
      BY <2>1, <3>3 DEF Receive, LocalInv
    <3>4. CASE kind \in {"invalid", "failed"}
      BY <2>1, <3>4 DEF Receive, LocalInv
    <3>5. QED
      BY <3>1, <3>2, <3>3, <3>4
  <2>3. NoNewSuccess
    BY <2>1 DEF Receive, vars, storeVars, NoNewSuccess
  <2>4. QED
    BY <1>0, <2>2, <2>3, CalmReportStep
<1>2. CASE ApplyProgress(h)
  <2> DEFINE j == handler[h].job
  <2>1. j \in Job /\ handler'[h].pc = "idle"
        /\ (UpdateJobPayload(j, "remote") \/ UNCHANGED storeVars)
    BY <1>2 DEF ApplyProgress, DeviceProgress, LocalInv, Free, vars
  <2>2. NoNewSuccess
    <3>1. CASE UpdateJobPayload(j, "remote")
      <4>1. \A k \in Job : job'[k] = IF k = j THEN [job[j] EXCEPT !.stage = "remote"] ELSE job[k]
        BY <2>1, <3>1, UpdateJobPayloadStep DEF Stage
      <4>2. QED
        BY <2>1, <4>1 DEF JobRow, NoNewSuccess
    <3>2. CASE UNCHANGED storeVars
      BY <3>2 DEF storeVars, NoNewSuccess
    <3>3. QED
      BY <2>1, <3>1, <3>2
  <2>3. QED
    BY <1>0, <2>1, <2>2, CalmReportStep
<1>3. CASE Drop(h)
  <2>1. handler'[h].pc = "idle" /\ NoNewSuccess
    BY <1>3 DEF Drop, Free, LocalInv, vars, storeVars, NoNewSuccess
  <2>2. QED
    BY <1>0, <2>1, CalmReportStep
<1>4. CASE StoreReport(h)
  <2> DEFINE o == OperationOf[handler[h].job]
  <2>1. handler[h].job \in Job /\ o \in Operation /\ TargetOf[o] \in Target
    BY <1>4, RowsAssumption, AnalysisAssumption DEF StoreReport, LocalInv
  <2>2. report'[TargetOf[o]] # NoOperation /\ handler'[h].job = handler[h].job
    BY <1>4, <2>1, AnalysisAssumption DEF StoreReport, LocalInv, HandlerState
  <2>3. NoNewSuccess
    BY <1>4 DEF StoreReport, vars, storeVars, NoNewSuccess
  <2>4. StoredFirst'
    BY <1>0, <2>1, <2>2, TargetIsKnown DEF ReportInv, StoredFirst, ReportsStay, LocalInv
  <2>5. SuccessHasReport'
    BY <2>3, TargetIsKnown DEF ReportInv, SuccessHasReport, ReportsStay, NoNewSuccess
  <2>6. QED
    BY <2>4, <2>5 DEF ReportInv
<1>5. CASE CompleteAnalysis(h)
  <2> DEFINE j == handler[h].job
             s == handler[h].status
  <2>1. /\ j \in Job /\ s \in Status
        /\ handler'[h].pc = "idle"
        /\ s = "succeeded" => report[TargetOf[OperationOf[j]]] # NoOperation
    BY <1>5 DEF CompleteAnalysis, LocalInv, HandlerState, Free, Status, TerminalStatus,
                ReportInv, StoredFirst
  <2>2. CASE DeviceOutcome(j, s)
    <3>1. PICK manual \in BOOLEAN : CompleteExternalJob(j, s, manual)
      BY <2>2, AnyInstruction DEF DeviceOutcome
    <3>2. \A k \in Job : job'[k] =
            IF k = j THEN [CompletedRow(job[j], s) EXCEPT !.stage = "local"] ELSE job[k]
      BY <2>1, <3>1, CompleteExternalJobStep
    <3>3. SuccessHasReport'
      <4>0. [CompletedRow(job[j], s) EXCEPT !.stage = "local"].status = s
        BY <2>1, CompletedStatus
      <4>1. job'[j].status = s /\ \A k \in Job : k # j => job'[k] = job[k]
        BY <2>1, <3>2, <4>0
      <4>2. \A k \in Job : job'[k].status = "succeeded" =>
              report[TargetOf[OperationOf[k]]] # NoOperation
        BY <2>1, <4>1 DEF ReportInv, SuccessHasReport
      <4>3. QED
        BY <4>2, TargetIsKnown DEF SuccessHasReport, ReportsStay
    <3>4. StoredFirst'
      BY <1>0, <2>1, TargetIsKnown DEF ReportInv, StoredFirst, ReportsStay, LocalInv
    <3>5. QED
      BY <3>3, <3>4 DEF ReportInv
  <2>3. CASE UNCHANGED vars
    <3>1. NoNewSuccess
      BY <2>3 DEF vars, storeVars, NoNewSuccess
    <3>2. QED
      BY <1>0, <2>1, <3>1, CalmReportStep
  <2>4. QED
    BY <1>5, <2>2, <2>3 DEF CompleteAnalysis
<1>6. QED
  BY <1>1, <1>2, <1>3, <1>4, <1>5

LEMMA ReportInvStep ==
  RunnerTypeOK /\ LocalInv /\ ReportInv /\ [AnalysisNext]_allVars => ReportInv'
<1> SUFFICES ASSUME RunnerTypeOK, LocalInv, ReportInv, [AnalysisNext]_allVars PROVE ReportInv'
  OBVIOUS
<1>0. ReportsStay
  BY ReportsStayStep
<1>1. CASE TriggerMove
  <2>1. handler' = handler
    BY <1>1 DEF TriggerMove, CheckReport, Ask, Create, Enqueue, CheckOpen, Abandon
  <2>2. \/ \E o \in Operation : RequestOperation(o)
        \/ \E j \in Job : RequestJob(j)
        \/ UNCHANGED vars
    BY <1>1 DEF TriggerMove, CheckReport, Ask, Create, Enqueue, CheckOpen, Abandon
  <2>3. UNCHANGED vars => NoNewSuccess
    BY DEF vars, storeVars, NoNewSuccess
  <2>4. NoNewSuccess
    BY <2>2, <2>3, RequestsDoNotSucceed
  <2>5. QED
    BY <1>0, <2>1, <2>4, CalmReportStep
<1>2. CASE HandlerMove
  BY <1>0, <1>2, HandlerReportStep DEF HandlerMove
<1>3. CASE RunnerMove
  <2>1. handler' = handler
    BY <1>3 DEF RunnerMove, Dispatch, analysisVars
  <2>2. Advance => NoNewSuccess
    BY DEF Advance, Tick, NoNewSuccess
  <2>3. NoNewSuccess
    BY <1>3, <2>2, RunnersDoNotSucceed DEF RunnerMove, Dispatch
  <2>4. QED
    BY <1>0, <2>1, <2>3, CalmReportStep
<1>4. CASE UNCHANGED allVars
  <2>1. handler' = handler /\ NoNewSuccess
    BY <1>4 DEF allVars, vars, storeVars, analysisVars, NoNewSuccess
  <2>2. QED
    BY <1>0, <2>1, CalmReportStep
<1>5. QED
  BY <1>1, <1>2, <1>3, <1>4, AnalysisMoves

(* An analysis that succeeded left a report for its agent and period: the  *)
(* handler of a result stores the report before it completes the job, and  *)
(* nothing else lets an analysis succeed.                                  *)
THEOREM SuccessAlwaysHasReport == AnalysisSpec => []SuccessHasReport
<1>1. AnalysisInit => ReportInv
  BY DEF AnalysisInit, RunnerInit, Init, AbsentJob, Free, ReportInv, StoredFirst, SuccessHasReport
<1>2. AnalysisSpec => []ReportInv
  BY <1>1, ReportInvStep, RunnerTypesHold, LocalInvHolds, PTL DEF AnalysisSpec
<1>3. ReportInv => SuccessHasReport
  BY DEF ReportInv
<1>4. QED
  BY <1>2, <1>3, PTL

==============================================================================
