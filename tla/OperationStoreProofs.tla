------------------------ MODULE OperationStoreProofs -------------------------
(***************************************************************************)
(* Types of the rows and of the tables, and what each method of the        *)
(* operation store leaves in them.  With one job per operation, the READ   *)
(* COMMITTED transactions of the store are such methods and keep the       *)
(* operation in step with its job, for any number of operations, clients   *)
(* and runners.                                                            *)
(***************************************************************************)
EXTENDS TransactionalOperationStore, TLAPS

LEMMA RowTypes ==
  ASSUME NEW row \in JobRow, NEW t \in Nat
  PROVE  /\ QueuedJob(t) \in JobRow
         /\ \A r \in Runner : ClaimedRow(row, r, t) \in JobRow
         /\ \A s \in Status : CompletedRow(row, s) \in JobRow
         /\ \A s \in Status : [CompletedRow(row, s) EXCEPT !.stage = "local"] \in JobRow
         /\ FailedRow(row, t) \in JobRow
<1> USE DEF JobRow, Status, TerminalStatus, Stage
<1>0. t + Lease \in Nat /\ t + RetryAfter \in Nat /\ t + Window \in Nat
  BY RowsAssumption
<1>1. QueuedJob(t) \in JobRow
  BY <1>0 DEF QueuedJob, AbsentJob
<1>2. \A r \in Runner : ClaimedRow(row, r, t) \in JobRow
  <2>1. row.attempts + 1 \in Nat
    OBVIOUS
  <2>2. QED
    BY <1>0, <2>1 DEF ClaimedRow
<1>3. \A s \in Status : CompletedRow(row, s) \in JobRow
  BY DEF CompletedRow
<1>4. \A s \in Status : [CompletedRow(row, s) EXCEPT !.stage = "local"] \in JobRow
  BY <1>3
<1>5. FailedRow(row, t) \in JobRow
  BY <1>0 DEF FailedRow
<1>6. QED
  BY <1>1, <1>2, <1>3, <1>4, <1>5

LEMMA OutcomeTypes ==
  /\ HandlerOutcome \subseteq Status \ {"absent", "cancelled", "queued", "running"}
  /\ ExternalOutcome \subseteq Status \ {"absent", "cancelled", "queued", "running"}
  /\ \A s : Instruction(s) \subseteq BOOLEAN
  BY RowsAssumption DEF Status, TerminalStatus, Instruction

LEMMA OperationRowTypes ==
  ASSUME NEW row \in OperationRow, NEW S, NEW m \in BOOLEAN
  PROVE  /\ QueuedOperation \in OperationRow
         /\ MarkedRunning(row) \in OperationRow
         /\ Refreshed(row, S, m) \in OperationRow
  BY DEF OperationRow, QueuedOperation, AbsentOperation, MarkedRunning, Refreshed,
         Summary, Finished, Status, TerminalStatus

------------------------------------------------------------------------------
LEMMA WriteAndRefreshType ==
  ASSUME TypeOK, NEW j \in Job, NEW row \in JobRow, NEW manual \in BOOLEAN,
         WriteAndRefresh(j, row, manual)
  PROVE  /\ job' \in [Job -> JobRow]
         /\ op' \in [Operation -> OperationRow]
         /\ \A k \in Job : job'[k] = IF k = j THEN row ELSE job[k]
<1> DEFINE o == OperationOf[j]
           statuses == StatusesOf(o, [job EXCEPT ![j] = row])
<1>1. o \in Operation
  BY RowsAssumption
<1>2. /\ job' = [job EXCEPT ![j] = row]
      /\ op' = [op EXCEPT ![o] = Refreshed(@, statuses, manual)]
  BY DEF WriteAndRefresh
<1>3. Refreshed(op[o], statuses, manual) \in OperationRow
  BY <1>1, OperationRowTypes DEF TypeOK
<1> HIDE DEF o, statuses
<1>4. QED
  BY <1>1, <1>2, <1>3 DEF TypeOK

(* What each method leaves in the table.                                   *)
LEMMA CreateOperationStep ==
  ASSUME TypeOK, NEW o \in Operation, CreateOperation(o)
  PROVE  TypeOK' /\ job' = job /\ now' = now
BY OperationRowTypes DEF TypeOK, CreateOperation, QueuedOperation, AbsentOperation,
   OperationRow, Status

LEMMA EnqueueJobStep ==
  ASSUME TypeOK, NEW j \in Job, NEW t \in Nat, EnqueueJob(j, t)
  PROVE  /\ TypeOK' /\ now' = now
         /\ job[j].status = "absent"
         /\ \A k \in Job : job'[k] = IF k = j THEN QueuedJob(t) ELSE job[k]
<1>0. job[j] \in JobRow /\ now \in Nat
  BY DEF TypeOK
<1>1. QueuedJob(t) \in JobRow
  BY <1>0, RowTypes
<1>2. QED
  BY <1>1 DEF EnqueueJob, TypeOK

LEMMA ClaimNextJobStep ==
  ASSUME TypeOK, NEW r \in Runner, NEW j \in Job, NEW t \in Nat, ClaimNextJob(r, j, t)
  PROVE  /\ TypeOK' /\ now' = now
         /\ Claimable(j, job[j], t)
         /\ \A k \in Job : job'[k] = IF k = j THEN ClaimedRow(job[j], r, t) ELSE job[k]
<1>0. job[j] \in JobRow /\ now \in Nat
  BY DEF TypeOK
<1>1. ClaimedRow(job[j], r, t) \in JobRow
  BY <1>0, RowTypes
<1>2. OperationOf[j] \in Operation /\ MarkedRunning(op[OperationOf[j]]) \in OperationRow
  BY RowsAssumption, OperationRowTypes DEF TypeOK
<1>3. QED
  BY <1>1, <1>2 DEF ClaimNextJob, TypeOK

LEMMA UpdateJobPayloadStep ==
  ASSUME TypeOK, NEW j \in Job, NEW stage \in Stage, UpdateJobPayload(j, stage)
  PROVE  /\ TypeOK' /\ now' = now
         /\ IsOpen(job[j])
         /\ \A k \in Job : job'[k] = IF k = j THEN [job[j] EXCEPT !.stage = stage] ELSE job[k]
<1>0. job[j] \in JobRow /\ now \in Nat
  BY DEF TypeOK
<1>1. [job[j] EXCEPT !.stage = stage] \in JobRow
  BY <1>0 DEF JobRow
<1>2. QED
  BY <1>1 DEF UpdateJobPayload, TypeOK

LEMMA CompleteJobStep ==
  ASSUME TypeOK, NEW j \in Job, NEW s \in Status, NEW manual \in BOOLEAN,
         CompleteJob(j, s, manual)
  PROVE  /\ TypeOK' /\ now' = now
         /\ IsOpen(job[j])
         /\ \A k \in Job : job'[k] = IF k = j THEN CompletedRow(job[j], s) ELSE job[k]
<1>0. job[j] \in JobRow /\ now \in Nat
  BY DEF TypeOK
<1>1. CompletedRow(job[j], s) \in JobRow
  BY <1>0, RowTypes
<1>2. QED
  BY <1>1, WriteAndRefreshType DEF CompleteJob, TypeOK

LEMMA CompleteExternalJobStep ==
  ASSUME TypeOK, NEW j \in Job, NEW s \in Status, NEW manual \in BOOLEAN,
         CompleteExternalJob(j, s, manual)
  PROVE  /\ TypeOK' /\ now' = now
         /\ IsOpen(job[j])
         /\ \A k \in Job : job'[k] =
              IF k = j THEN [CompletedRow(job[j], s) EXCEPT !.stage = "local"] ELSE job[k]
<1>0. job[j] \in JobRow /\ now \in Nat
  BY DEF TypeOK
<1>1. [CompletedRow(job[j], s) EXCEPT !.stage = "local"] \in JobRow
  BY <1>0, RowTypes
<1>2. QED
  BY <1>1, WriteAndRefreshType DEF CompleteExternalJob, TypeOK

LEMMA FailJobStep ==
  ASSUME TypeOK, NEW j \in Job, NEW t \in Nat, FailJob(j, t)
  PROVE  /\ TypeOK' /\ now' = now
         /\ \A k \in Job : job'[k] = IF k = j THEN FailedRow(job[j], t) ELSE job[k]
<1>0. job[j] \in JobRow /\ now \in Nat
  BY DEF TypeOK
<1>1. FailedRow(job[j], t) \in JobRow
  BY <1>0, RowTypes
<1>2. QED
  BY <1>1, WriteAndRefreshType DEF FailJob, TypeOK

------------------------------------------------------------------------------
(* Both callers of enqueueJob enqueue one job for the operation they have  *)
(* just created.                                                           *)
OneJobPerOperation ==
  \A i, j \in Job : OperationOf[i] = OperationOf[j] => i = j

(* What the first statement of an open transaction has seen of its row     *)
(* still holds: the row is locked.                                         *)
CallIsValid(x) ==
  LET row == job[x.job] IN
  /\ x.at <= now
  /\ x.method = "claim" =>
       x.runner \in Runner /\ x.phase = "written" /\ Claimable(x.job, row, x.at)
  /\ x.method = "complete" =>
       IsOpen(row) /\ x.status \in HandlerOutcome /\ x.manual \in Instruction(x.status)
  /\ x.method = "external" =>
       IsOpen(row) /\ x.status \in ExternalOutcome /\ x.manual \in Instruction(x.status)
  /\ x.method = "fail" => row.attempts > 0 /\ ~x.manual

LocksAreExclusive ==
  \A c, d \in Client : IsOpenTx(c) /\ IsOpenTx(d) /\ tx[c].job = tx[d].job => c = d

OpenCallsAreValid == \A c \in Client : IsOpenTx(c) => CallIsValid(tx[c])

SeenIsOwnWrite ==
  \A c \in Client : IsOpenTx(c) /\ tx[c].phase = "read" =>
    tx[c].seen = {WrittenRow(tx[c]).status}

JobStatusInUse ==
  \A j \in Job :
    /\ job[j].status # "cancelled"
    /\ job[j].attempts > 0 => job[j].status # "absent"

(* The operation shows the status of its only job. *)
OperationMirrorsJob ==
  \A j \in Job :
    IF job[j].status = "absent"
    THEN op[OperationOf[j]].status \in {"absent", "queued"}
    ELSE op[OperationOf[j]].status = job[j].status

TxInv ==
  /\ TxTypeOK
  /\ LocksAreExclusive
  /\ OpenCallsAreValid
  /\ SeenIsOwnWrite
  /\ JobStatusInUse
  /\ OperationMirrorsJob

------------------------------------------------------------------------------
LEMMA WrittenRowType ==
  ASSUME job \in [Job -> JobRow], NEW x \in Transaction,
         x.method = "claim" => x.runner \in Runner
  PROVE  WrittenRow(x) \in JobRow
<1>1. /\ job[x.job] \in JobRow /\ x.at \in Nat /\ x.status \in Status
      /\ x.method \in {"claim", "complete", "external", "fail"}
  BY DEF Transaction
<1>2. CASE x.method = "claim"
  BY <1>1, <1>2, RowTypes DEF WrittenRow
<1>3. CASE x.method = "complete"
  BY <1>1, <1>3, RowTypes DEF WrittenRow
<1>4. CASE x.method = "external"
  BY <1>1, <1>4, RowTypes DEF WrittenRow
<1>5. CASE x.method = "fail"
  BY <1>1, <1>5, RowTypes DEF WrittenRow
<1>6. QED
  BY <1>1, <1>2, <1>3, <1>4, <1>5

(* What refreshOperationStatus reads when the operation has one job. *)
LEMMA OnlyStatus ==
  ASSUME OneJobPerOperation, NEW table, NEW j \in Job, table[j].status # "absent"
  PROVE  StatusesOf(OperationOf[j], table) = {table[j].status}
<1>1. {k \in Job : OperationOf[k] = OperationOf[j]} = {j}
  BY DEF OneJobPerOperation
<1>2. QED
  BY <1>1 DEF StatusesOf

LEMMA RefreshedFromOne ==
  ASSUME NEW row \in OperationRow, row.status # "cancelled", NEW m \in BOOLEAN,
         NEW s \in Status \ {"absent", "cancelled", "running"}
  PROVE  Refreshed(row, {s}, m).status = s
  BY DEF Refreshed, Summary, Finished, Status, TerminalStatus, OperationRow

(* The status a transaction is about to write. *)
LEMMA WrittenStatus ==
  ASSUME TxInv, NEW c \in Client, IsOpenTx(c)
  PROVE  /\ tx[c] \in Transaction
         /\ WrittenRow(tx[c]) \in JobRow
         /\ WrittenRow(tx[c]).status \notin {"absent", "cancelled"}
         /\ tx[c].method # "claim" => WrittenRow(tx[c]).status # "running"
         /\ tx[c].method = "claim" => WrittenRow(tx[c]).status = "running"
<1> DEFINE x == tx[c]
<1>1. x \in Transaction
  BY DEF TxInv, TxTypeOK, IsOpenTx, Idle
<1>2. CallIsValid(x)
  BY DEF TxInv, OpenCallsAreValid
<1>3. /\ job \in [Job -> JobRow] /\ job[x.job] \in JobRow
      /\ x.method \in {"claim", "complete", "external", "fail"}
  BY <1>1 DEF TxInv, TxTypeOK, TypeOK, Transaction
<1>4. WrittenRow(x) \in JobRow
  BY <1>1, <1>2, <1>3, WrittenRowType DEF CallIsValid
<1>5. CASE x.method = "claim"
  BY <1>1, <1>3, <1>4, <1>5 DEF WrittenRow, ClaimedRow, JobRow
<1>6. CASE x.method = "complete"
  BY <1>1, <1>2, <1>3, <1>4, <1>6, OutcomeTypes DEF WrittenRow, CompletedRow, CallIsValid, JobRow
<1>7. CASE x.method = "external"
  BY <1>1, <1>2, <1>3, <1>4, <1>7, OutcomeTypes DEF WrittenRow, CompletedRow, CallIsValid, JobRow
<1>8. CASE x.method = "fail"
  BY <1>1, <1>3, <1>4, <1>8 DEF WrittenRow, FailedRow, JobRow
<1>9. QED
  BY <1>1, <1>3, <1>4, <1>5, <1>6, <1>7, <1>8

------------------------------------------------------------------------------
LEMMA InitTxInv == TxInit => TxInv
<1> SUFFICES ASSUME TxInit PROVE TxInv
  OBVIOUS
<1> USE DEF TxInit, Init
<1>1. TxTypeOK
  BY RowsAssumption
  DEF TxTypeOK, TypeOK, AbsentJob, AbsentOperation, JobRow, OperationRow, Status, Stage
<1>2. LocksAreExclusive /\ OpenCallsAreValid /\ SeenIsOwnWrite
  BY DEF LocksAreExclusive, OpenCallsAreValid, SeenIsOwnWrite, IsOpenTx, Idle
<1>3. JobStatusInUse
  BY DEF JobStatusInUse, AbsentJob
<1>4. OperationMirrorsJob
  BY RowsAssumption DEF OperationMirrorsJob, AbsentJob, AbsentOperation
<1>5. QED
  BY <1>1, <1>2, <1>3, <1>4 DEF TxInv

(* A new transaction takes a free lock and a call that is valid now. *)
LEMMA BeginStep ==
  ASSUME TxInv, NEW c \in Client, NEW j \in Job,
         NEW method \in {"claim", "complete", "external", "fail"},
         NEW r \in Runner \cup {NoRunner}, NEW s \in Status, NEW manual \in BOOLEAN,
         Begin(c, method, j, r, s, manual),
         CallIsValid([phase |-> "written", method |-> method, job |-> j, runner |-> r,
                      status |-> s, manual |-> manual, at |-> now, seen |-> {}])
  PROVE  TxInv'
<1> DEFINE x == [phase |-> "written", method |-> method, job |-> j, runner |-> r,
                 status |-> s, manual |-> manual, at |-> now, seen |-> {}]
<1>1. /\ tx' = [tx EXCEPT ![c] = x]
      /\ UNCHANGED <<job, op, now>>
      /\ ~IsOpenTx(c)
      /\ ~Locked(j)
  BY DEF Begin, storeVars
<1>2. TxTypeOK /\ tx \in [Client -> {Idle} \cup Transaction]
  BY DEF TxInv, TxTypeOK
<1>3. x \in Transaction
  BY <1>2 DEF Transaction, TxTypeOK, TypeOK
<1>4. \A d \in Client : tx'[d] = IF d = c THEN x ELSE tx[d]
  BY <1>1, <1>2
<1>5. TxTypeOK'
  BY <1>1, <1>2, <1>3 DEF TxTypeOK, TypeOK
<1>6. LocksAreExclusive'
  BY <1>1, <1>4 DEF TxInv, LocksAreExclusive, Locked, IsOpenTx
<1>7. OpenCallsAreValid'
  BY <1>1, <1>4 DEF TxInv, OpenCallsAreValid, CallIsValid, IsOpenTx
<1>8. SeenIsOwnWrite'
  <2>1. SUFFICES ASSUME NEW d \in Client, IsOpenTx(d)', tx'[d].phase = "read"
                 PROVE  tx'[d].seen = {WrittenRow(tx[d])'.status}
    BY DEF SeenIsOwnWrite
  <2>2. d # c /\ IsOpenTx(d) /\ tx'[d] = tx[d]
    BY <1>4, <2>1 DEF IsOpenTx
  <2>3. WrittenRow(tx[d])' = WrittenRow(tx[d])
    BY <1>1, <2>2 DEF WrittenRow
  <2>4. QED
    BY <2>1, <2>2, <2>3 DEF TxInv, SeenIsOwnWrite
<1>9. (JobStatusInUse /\ OperationMirrorsJob)'
  BY <1>1 DEF TxInv, JobStatusInUse, OperationMirrorsJob
<1>10. QED
  BY <1>5, <1>6, <1>7, <1>8, <1>9 DEF TxInv

(* A commit replaces the row of its own job only, so what the other open   *)
(* transactions rely on is untouched.                                      *)
LEMMA CommitStep ==
  ASSUME TxInv, NEW c \in Client, IsOpenTx(c),
         tx' = [tx EXCEPT ![c] = Idle],
         job' = [job EXCEPT ![tx[c].job] = WrittenRow(tx[c])],
         now' = now
  PROVE  /\ (LocksAreExclusive /\ OpenCallsAreValid /\ SeenIsOwnWrite /\ JobStatusInUse)'
         /\ job' \in [Job -> JobRow]
         /\ tx' \in [Client -> {Idle} \cup Transaction]
<1> DEFINE i == tx[c].job
<1>1. /\ tx[c] \in Transaction /\ i \in Job /\ WrittenRow(tx[c]) \in JobRow
      /\ WrittenRow(tx[c]).status \notin {"absent", "cancelled"}
  BY WrittenStatus DEF Transaction
<1>2. tx \in [Client -> {Idle} \cup Transaction] /\ job \in [Job -> JobRow]
  BY DEF TxInv, TxTypeOK, TypeOK
<1>3. \A d \in Client : tx'[d] = IF d = c THEN Idle ELSE tx[d]
  BY <1>2
<1>4. \A k \in Job : job'[k] = IF k = i THEN WrittenRow(tx[c]) ELSE job[k]
  BY <1>2
<1>5. \A d \in Client : IsOpenTx(d)' =>
        /\ IsOpenTx(d) /\ tx'[d] = tx[d] /\ tx[d].job \in Job /\ tx[d].job # i
        /\ job'[tx[d].job] = job[tx[d].job]
  BY <1>2, <1>3, <1>4 DEF TxInv, LocksAreExclusive, IsOpenTx, Idle, Transaction
<1>6. LocksAreExclusive'
  BY <1>5 DEF TxInv, LocksAreExclusive
<1>7. OpenCallsAreValid'
  BY <1>5 DEF TxInv, OpenCallsAreValid, CallIsValid
<1>8. SeenIsOwnWrite'
  <2>1. SUFFICES ASSUME NEW d \in Client, IsOpenTx(d)', tx'[d].phase = "read"
                 PROVE  tx'[d].seen = {WrittenRow(tx[d])'.status}
    BY DEF SeenIsOwnWrite
  <2>2. WrittenRow(tx[d])' = WrittenRow(tx[d])
    BY <1>5, <2>1 DEF WrittenRow
  <2>3. QED
    BY <1>5, <2>1, <2>2 DEF TxInv, SeenIsOwnWrite
<1>9. JobStatusInUse'
  BY <1>1, <1>4 DEF TxInv, JobStatusInUse
<1>10. QED
  BY <1>1, <1>2, <1>6, <1>7, <1>8, <1>9

LEMMA CommitClaimStep ==
  ASSUME OneJobPerOperation, TxInv, NEW c \in Client, CommitClaim(c)
  PROVE  TxInv'
<1> DEFINE j == tx[c].job
           row == WrittenRow(tx[c])
<1>1. /\ IsOpenTx(c) /\ tx[c].method = "claim" /\ now' = now
      /\ tx' = [tx EXCEPT ![c] = Idle] /\ job' = [job EXCEPT ![j] = row]
      /\ op' = [op EXCEPT ![OperationOf[j]] = MarkedRunning(@)]
  BY DEF CommitClaim
<1>2. /\ tx[c] \in Transaction /\ j \in Job /\ OperationOf[j] \in Operation
      /\ row.status = "running" /\ CallIsValid(tx[c])
  BY <1>1, WrittenStatus, RowsAssumption DEF Transaction, TxInv, OpenCallsAreValid
<1>3. TypeOK
  BY DEF TxInv, TxTypeOK
<1>4. op[OperationOf[j]].status \in {"queued", "running"}
  BY <1>1, <1>2 DEF CallIsValid, Claimable, TxInv, OperationMirrorsJob
<1>5. op' \in [Operation -> OperationRow]
  BY <1>1, <1>2, <1>3, OperationRowTypes DEF TypeOK
<1>6. MarkedRunning(op[OperationOf[j]]).status = "running"
  BY <1>2, <1>3, <1>4 DEF MarkedRunning, TypeOK, OperationRow
<1>7. OperationMirrorsJob'
  <2>1. SUFFICES ASSUME NEW k \in Job
                 PROVE  IF job'[k].status = "absent"
                        THEN op'[OperationOf[k]].status \in {"absent", "queued"}
                        ELSE op'[OperationOf[k]].status = job'[k].status
    BY DEF OperationMirrorsJob
  <2>2. CASE k = j
    BY <1>1, <1>2, <1>3, <1>6, <2>2 DEF TypeOK
  <2>3. CASE k # j
    <3>1. OperationOf[k] # OperationOf[j]
      BY <1>2, <2>3 DEF OneJobPerOperation
    <3>2. job'[k] = job[k] /\ op'[OperationOf[k]] = op[OperationOf[k]]
      BY <1>1, <1>2, <1>3, <2>3, <3>1, RowsAssumption DEF TypeOK
    <3>3. QED
      BY <3>2 DEF TxInv, OperationMirrorsJob
  <2>4. QED
    BY <2>2, <2>3
<1>8. QED
  BY <1>1, <1>3, <1>5, <1>7, CommitStep DEF TxInv, TxTypeOK, TypeOK

LEMMA CommitRefreshStep ==
  ASSUME OneJobPerOperation, TxInv, NEW c \in Client, CommitRefresh(c)
  PROVE  TxInv'
<1> DEFINE j == tx[c].job
           row == WrittenRow(tx[c])
           o == OperationOf[j]
<1>1. /\ IsOpenTx(c) /\ tx[c].phase = "read" /\ now' = now
      /\ tx' = [tx EXCEPT ![c] = Idle] /\ job' = [job EXCEPT ![j] = row]
      /\ op' = [op EXCEPT ![o] = Refreshed(@, tx[c].seen, tx[c].manual)]
  BY DEF CommitRefresh
<1>2. /\ tx[c] \in Transaction /\ j \in Job /\ o \in Operation /\ row \in JobRow
      /\ tx[c].manual \in BOOLEAN /\ tx[c].seen = {row.status}
  BY <1>1, WrittenStatus, RowsAssumption DEF Transaction, TxInv, SeenIsOwnWrite
<1>3. tx[c].method # "claim"
  BY <1>1 DEF TxInv, OpenCallsAreValid, CallIsValid
<1>4. row.status \in Status \ {"absent", "cancelled", "running"}
  BY <1>1, <1>2, <1>3, WrittenStatus DEF JobRow
<1>5. TypeOK /\ op[o] \in OperationRow
  BY <1>2 DEF TxInv, TxTypeOK, TypeOK
<1>6. op[o].status # "cancelled"
  BY <1>2 DEF TxInv, OperationMirrorsJob, JobStatusInUse
<1>7. op' \in [Operation -> OperationRow]
  BY <1>1, <1>2, <1>5, OperationRowTypes DEF TypeOK
<1>8. Refreshed(op[o], tx[c].seen, tx[c].manual).status = row.status
  BY <1>2, <1>4, <1>5, <1>6, RefreshedFromOne
<1>9. OperationMirrorsJob'
  <2>1. SUFFICES ASSUME NEW k \in Job
                 PROVE  IF job'[k].status = "absent"
                        THEN op'[OperationOf[k]].status \in {"absent", "queued"}
                        ELSE op'[OperationOf[k]].status = job'[k].status
    BY DEF OperationMirrorsJob
  <2>2. CASE k = j
    BY <1>1, <1>2, <1>4, <1>5, <1>8, <2>2 DEF TypeOK
  <2>3. CASE k # j
    <3>1. OperationOf[k] # o
      BY <1>2, <2>3 DEF OneJobPerOperation
    <3>2. job'[k] = job[k] /\ op'[OperationOf[k]] = op[OperationOf[k]]
      BY <1>1, <1>2, <1>5, <2>3, <3>1, RowsAssumption DEF TypeOK
    <3>3. QED
      BY <3>2 DEF TxInv, OperationMirrorsJob
  <2>4. QED
    BY <2>2, <2>3
<1>10. QED
  BY <1>1, <1>5, <1>7, <1>9, CommitStep DEF TxInv, TxTypeOK, TypeOK

(* Writing a row that no transaction holds. *)
LEMMA FreeRowStep ==
  ASSUME TxInv, NEW j \in Job, NEW row \in JobRow, job' = [job EXCEPT ![j] = row],
         \A c \in Client : IsOpenTx(c) => tx[c].job # j,
         UNCHANGED <<now, tx>>
  PROVE  /\ (LocksAreExclusive /\ OpenCallsAreValid /\ SeenIsOwnWrite)'
         /\ job' \in [Job -> JobRow]
         /\ \A k \in Job : job'[k] = IF k = j THEN row ELSE job[k]
<1>1. TxTypeOK /\ TypeOK /\ job \in [Job -> JobRow]
  BY DEF TxInv, TxTypeOK, TypeOK
<1>2. \A k \in Job : job'[k] = IF k = j THEN row ELSE job[k]
  BY <1>1
<1>3. \A c \in Client : IsOpenTx(c)' =>
        IsOpenTx(c) /\ tx'[c] = tx[c] /\ job'[tx[c].job] = job[tx[c].job]
  BY <1>1, <1>2 DEF TxTypeOK, IsOpenTx, Idle, Transaction
<1>4. (LocksAreExclusive /\ OpenCallsAreValid)'
  BY <1>3 DEF TxInv, LocksAreExclusive, OpenCallsAreValid, CallIsValid
<1>5. SeenIsOwnWrite'
  <2>1. SUFFICES ASSUME NEW d \in Client, IsOpenTx(d)', tx'[d].phase = "read"
                 PROVE  tx'[d].seen = {WrittenRow(tx[d])'.status}
    BY DEF SeenIsOwnWrite
  <2>2. WrittenRow(tx[d])' = WrittenRow(tx[d])
    BY <1>3, <2>1 DEF WrittenRow
  <2>3. QED
    BY <1>3, <2>1, <2>2 DEF TxInv, SeenIsOwnWrite
<1>6. QED
  BY <1>1, <1>2, <1>4, <1>5

LEMMA EnqueueStep ==
  ASSUME OneJobPerOperation, TxInv, NEW j \in Job, TxEnqueueJob(j)
  PROVE  TxInv'
<1>1. /\ job[j].status = "absent" /\ op[OperationOf[j]].status # "absent"
      /\ job' = [job EXCEPT ![j] = QueuedJob(now)] /\ UNCHANGED <<op, now, tx>>
  BY DEF TxEnqueueJob, EnqueueJob
<1>2. TypeOK /\ QueuedJob(now) \in JobRow
  BY RowTypes, RowsAssumption, ZenonT(60) DEF TxInv, TxTypeOK, TypeOK, QueuedJob, AbsentJob, JobRow, Status,
     TerminalStatus, Stage
<1>3. \A c \in Client : IsOpenTx(c) => tx[c].job # j
  BY <1>1 DEF TxInv, TxTypeOK, OpenCallsAreValid, CallIsValid, JobStatusInUse, Claimable, IsOpen,
              IsOpenTx, Idle, Transaction
<1>4. /\ (LocksAreExclusive /\ OpenCallsAreValid /\ SeenIsOwnWrite)'
      /\ job' \in [Job -> JobRow]
      /\ \A k \in Job : job'[k] = IF k = j THEN QueuedJob(now) ELSE job[k]
  BY <1>1, <1>2, <1>3, FreeRowStep
<1>5. JobStatusInUse'
  BY <1>4 DEF TxInv, JobStatusInUse, QueuedJob, AbsentJob
<1>6. OperationMirrorsJob'
  BY <1>1, <1>4 DEF TxInv, OperationMirrorsJob, QueuedJob, AbsentJob
<1>7. QED
  BY <1>1, <1>2, <1>4, <1>5, <1>6 DEF TxInv, TxTypeOK, TypeOK

LEMMA UpdatePayloadStep ==
  ASSUME TxInv, NEW j \in Job, NEW stage \in Stage, TxUpdateJobPayload(j, stage)
  PROVE  TxInv'
<1> DEFINE row == [job[j] EXCEPT !.stage = stage]
<1>1. /\ ~Locked(j) /\ job' = [job EXCEPT ![j] = row] /\ UNCHANGED <<op, now, tx>>
  BY DEF TxUpdateJobPayload, UpdateJobPayload, TxInv, TxTypeOK, TypeOK
<1>2. TypeOK /\ row \in JobRow /\ row.status = job[j].status /\ row.attempts = job[j].attempts
  BY DEF TxInv, TxTypeOK, TypeOK, JobRow
<1>3. \A c \in Client : IsOpenTx(c) => tx[c].job # j
  BY <1>1 DEF Locked
<1>4. /\ (LocksAreExclusive /\ OpenCallsAreValid /\ SeenIsOwnWrite)'
      /\ job' \in [Job -> JobRow]
      /\ \A k \in Job : job'[k] = IF k = j THEN row ELSE job[k]
  BY <1>1, <1>2, <1>3, FreeRowStep
<1>5. JobStatusInUse' /\ OperationMirrorsJob'
  BY <1>1, <1>2, <1>4 DEF TxInv, JobStatusInUse, OperationMirrorsJob
<1>6. QED
  BY <1>1, <1>2, <1>4, <1>5 DEF TxInv, TxTypeOK, TypeOK

LEMMA ReadJobsStep ==
  ASSUME OneJobPerOperation, TxInv, NEW c \in Client, ReadJobs(c)
  PROVE  TxInv'
<1> DEFINE x == tx[c]
           row == WrittenRow(x)
           S == StatusesOf(OperationOf[x.job], [job EXCEPT ![x.job] = row])
           y == [x EXCEPT !.phase = "read", !.seen = S]
<1>1. /\ IsOpenTx(c) /\ x.method # "claim" /\ UNCHANGED <<job, op, now>>
      /\ tx' = [tx EXCEPT ![c].phase = "read", ![c].seen = S]
  BY DEF ReadJobs, storeVars
<1>2. /\ x \in Transaction /\ row \in JobRow /\ row.status # "absent"
      /\ tx \in [Client -> {Idle} \cup Transaction] /\ job \in [Job -> JobRow]
  BY <1>1, WrittenStatus DEF TxInv, TxTypeOK, TypeOK
<1>3. S = {row.status} /\ row.status \in Status
  <2>1. x.job \in Job /\ [job EXCEPT ![x.job] = row][x.job] = row
    BY <1>2 DEF Transaction
  <2>2. QED
    BY <1>2, <2>1, OnlyStatus DEF JobRow
<1>4. \A d \in Client : tx'[d] = IF d = c THEN y ELSE tx[d]
  BY <1>1, <1>2
<1>5. /\ y \in Transaction /\ y.job = x.job /\ y.seen = {row.status} /\ y.phase = "read"
      /\ y.method = x.method /\ y.status = x.status /\ y.at = x.at /\ y.runner = x.runner
      /\ y.manual = x.manual
  <2> HIDE DEF S
  <2> QED BY <1>2, <1>3 DEF Transaction
<1>6. \A d \in Client : IsOpenTx(d)' => IsOpenTx(d) /\ tx'[d].job = tx[d].job
  BY <1>1, <1>4, <1>5 DEF IsOpenTx
<1>7. TxTypeOK'
  <2> HIDE DEF y
  <2>1. tx' \in [Client -> {Idle} \cup Transaction]
    BY <1>1, <1>2, <1>4, <1>5
  <2> QED BY <1>1, <2>1 DEF TxInv, TxTypeOK, TypeOK
<1>8. LocksAreExclusive'
  BY <1>6 DEF TxInv, LocksAreExclusive
<1>9. OpenCallsAreValid'
  <2>1. SUFFICES ASSUME NEW d \in Client, IsOpenTx(d)'
                 PROVE  CallIsValid(tx[d])'
    BY DEF OpenCallsAreValid
  <2> HIDE DEF y
  <2>2. CallIsValid(tx[d])
    BY <1>6, <2>1 DEF TxInv, OpenCallsAreValid
  <2>3. CASE d = c
    BY <1>1, <1>4, <1>5, <2>2, <2>3, ZenonT(60) DEF CallIsValid
  <2>4. CASE d # c
    <3>1. tx'[d] = tx[d]
      BY <1>4, <2>4
    <3>2. QED
      BY <1>1, <2>2, <3>1 DEF CallIsValid
  <2>5. QED
    BY <2>3, <2>4
<1>10. SeenIsOwnWrite'
  <2>1. SUFFICES ASSUME NEW d \in Client, IsOpenTx(d)', tx'[d].phase = "read"
                 PROVE  tx'[d].seen = {WrittenRow(tx[d])'.status}
    BY DEF SeenIsOwnWrite
  <2> HIDE DEF y
  <2>2. CASE d = c
    <3>1. WrittenRow(tx[d])' = row
      BY <1>1, <1>4, <1>5, <2>2 DEF WrittenRow
    <3>2. QED
      BY <1>4, <1>5, <2>2, <3>1
  <2>3. CASE d # c
    <3>1. WrittenRow(tx[d])' = WrittenRow(tx[d]) /\ tx'[d] = tx[d]
      BY <1>1, <1>4, <2>3 DEF WrittenRow
    <3>2. QED
      BY <1>6, <2>1, <3>1 DEF TxInv, SeenIsOwnWrite
  <2>4. QED
    BY <2>2, <2>3
<1>11. (JobStatusInUse /\ OperationMirrorsJob)'
  BY <1>1 DEF TxInv, JobStatusInUse, OperationMirrorsJob
<1>12. QED
  BY <1>7, <1>8, <1>9, <1>10, <1>11 DEF TxInv

LEMMA RollbackStep ==
  ASSUME TxInv, NEW c \in Client, Rollback(c)
  PROVE  TxInv'
<1>1. tx' = [tx EXCEPT ![c] = Idle] /\ UNCHANGED <<job, op, now>>
  BY DEF Rollback, storeVars
<1>2. TxTypeOK /\ \A d \in Client : tx'[d] = IF d = c THEN Idle ELSE tx[d]
  BY <1>1 DEF TxInv, TxTypeOK
<1>3. \A d \in Client : IsOpenTx(d)' => IsOpenTx(d) /\ tx'[d] = tx[d]
  BY <1>2 DEF IsOpenTx, Idle
<1>4. (LocksAreExclusive /\ OpenCallsAreValid)'
  BY <1>1, <1>3 DEF TxInv, LocksAreExclusive, OpenCallsAreValid, CallIsValid
<1>5. SeenIsOwnWrite'
  <2>1. SUFFICES ASSUME NEW d \in Client, IsOpenTx(d)', tx'[d].phase = "read"
                 PROVE  tx'[d].seen = {WrittenRow(tx[d])'.status}
    BY DEF SeenIsOwnWrite
  <2>2. WrittenRow(tx[d])' = WrittenRow(tx[d])
    BY <1>1, <1>3, <2>1 DEF WrittenRow
  <2>3. QED
    BY <1>3, <2>1, <2>2 DEF TxInv, SeenIsOwnWrite
<1>6. (JobStatusInUse /\ OperationMirrorsJob)'
  BY <1>1 DEF TxInv, JobStatusInUse, OperationMirrorsJob
<1>7. QED
  BY <1>1, <1>2, <1>4, <1>5, <1>6 DEF TxInv, TxTypeOK, TypeOK

(* Steps that touch neither a job row nor a transaction. *)
LEMMA FrameStep ==
  ASSUME TxInv, UNCHANGED <<job, tx>>, now' \in Nat, now <= now',
         op' \in [Operation -> OperationRow], OperationMirrorsJob'
  PROVE  TxInv'
<1>1. OpenCallsAreValid'
  BY DEF TxInv, OpenCallsAreValid, CallIsValid, IsOpenTx, TxTypeOK, TypeOK, Idle, Transaction
<1>2. SeenIsOwnWrite'
  <2>1. SUFFICES ASSUME NEW d \in Client, IsOpenTx(d)', tx'[d].phase = "read"
                 PROVE  tx'[d].seen = {WrittenRow(tx[d])'.status}
    BY DEF SeenIsOwnWrite
  <2>2. WrittenRow(tx[d])' = WrittenRow(tx[d])
    BY DEF WrittenRow
  <2>3. QED
    BY <2>1, <2>2 DEF TxInv, SeenIsOwnWrite, IsOpenTx
<1>3. QED
  BY <1>1, <1>2 DEF TxInv, TxTypeOK, TypeOK, LocksAreExclusive, JobStatusInUse, IsOpenTx

LEMMA NextTxInv ==
  ASSUME OneJobPerOperation, TxInv, [TxNext]_txVars
  PROVE  TxInv'
<1>1. TypeOK
  BY DEF TxInv, TxTypeOK
<1>2. ASSUME NEW o \in Operation, TxCreateOperation(o)
      PROVE  TxInv'
  <2>1. /\ op[o].status = "absent" /\ op' = [op EXCEPT ![o] = QueuedOperation]
        /\ UNCHANGED <<job, now, tx>>
    BY <1>2 DEF TxCreateOperation, CreateOperation
  <2>2. op' \in [Operation -> OperationRow]
    BY <1>1, <2>1, OperationRowTypes DEF TypeOK, QueuedOperation, AbsentOperation,
       OperationRow, Status
  <2>3. OperationMirrorsJob'
    BY <1>1, <2>1, RowsAssumption
    DEF TxInv, OperationMirrorsJob, QueuedOperation, AbsentOperation, TypeOK
  <2>4. QED
    BY <1>1, <2>1, <2>2, <2>3, FrameStep DEF TypeOK
<1>3. ASSUME NEW c \in Client, NEW j \in Job, NEW r \in Runner, BeginClaim(c, r, j)
      PROVE  TxInv'
  <2>1. Claimable(j, job[j], now) /\ Begin(c, "claim", j, r, "succeeded", FALSE)
    BY <1>3 DEF BeginClaim
  <2>2. "succeeded" \in Status
    BY DEF Status, TerminalStatus
  <2>3. CallIsValid([phase |-> "written", method |-> "claim", job |-> j, runner |-> r,
                     status |-> "succeeded", manual |-> FALSE, at |-> now, seen |-> {}])
    BY <1>1, <2>1 DEF CallIsValid, TypeOK
  <2>4. QED
    BY <2>1, <2>2, <2>3, BeginStep
<1>4. ASSUME NEW c \in Client, NEW j \in Job, NEW s \in HandlerOutcome,
             NEW manual \in Instruction(s), BeginComplete(c, j, s, manual)
      PROVE  TxInv'
  <2>1. IsOpen(job[j]) /\ Begin(c, "complete", j, NoRunner, s, manual)
    BY <1>4 DEF BeginComplete
  <2>2. s \in Status /\ manual \in BOOLEAN
    BY OutcomeTypes
  <2>3. CallIsValid([phase |-> "written", method |-> "complete", job |-> j, runner |-> NoRunner,
                     status |-> s, manual |-> manual, at |-> now, seen |-> {}])
    BY <1>1, <2>1 DEF CallIsValid, TypeOK
  <2>4. QED
    BY <2>1, <2>2, <2>3, BeginStep
<1>5. ASSUME NEW c \in Client, NEW j \in Job, NEW s \in ExternalOutcome,
             NEW manual \in Instruction(s), BeginCompleteExternal(c, j, s, manual)
      PROVE  TxInv'
  <2>1. IsOpen(job[j]) /\ Begin(c, "external", j, NoRunner, s, manual)
    BY <1>5 DEF BeginCompleteExternal
  <2>2. s \in Status /\ manual \in BOOLEAN
    BY OutcomeTypes
  <2>3. CallIsValid([phase |-> "written", method |-> "external", job |-> j, runner |-> NoRunner,
                     status |-> s, manual |-> manual, at |-> now, seen |-> {}])
    BY <1>1, <2>1 DEF CallIsValid, TypeOK
  <2>4. QED
    BY <2>1, <2>2, <2>3, BeginStep
<1>6. ASSUME NEW c \in Client, NEW j \in Job, BeginFail(c, j)
      PROVE  TxInv'
  <2>1. job[j].attempts > 0 /\ Begin(c, "fail", j, NoRunner, "failed", FALSE)
    BY <1>6 DEF BeginFail
  <2>2. "failed" \in Status
    BY DEF Status, TerminalStatus
  <2>3. CallIsValid([phase |-> "written", method |-> "fail", job |-> j, runner |-> NoRunner,
                     status |-> "failed", manual |-> FALSE, at |-> now, seen |-> {}])
    BY <1>1, <2>1 DEF CallIsValid, TypeOK
  <2>4. QED
    BY <2>1, <2>2, <2>3, BeginStep
<1>7. CASE TxTick
  BY <1>1, <1>7, FrameStep DEF TxTick, Tick, TypeOK, TxInv, OperationMirrorsJob
<1>8. CASE UNCHANGED txVars
  BY <1>1, <1>8, FrameStep DEF txVars, TypeOK, TxInv, OperationMirrorsJob
<1>9. QED
  BY <1>2, <1>3, <1>4, <1>5, <1>6, <1>7, <1>8, EnqueueStep, UpdatePayloadStep, ReadJobsStep,
     CommitRefreshStep, CommitClaimStep, RollbackStep
  DEF TxNext

------------------------------------------------------------------------------
(* The transactions keep their inductive invariant.                        *)
THEOREM TxInvHolds == OneJobPerOperation => (TxSpec => []TxInv)
<1> SUFFICES ASSUME OneJobPerOperation PROVE TxSpec => []TxInv
  OBVIOUS
<1>1. TxInit => TxInv
  BY InitTxInv
<1>2. TxInv /\ [TxNext]_txVars => TxInv'
  BY NextTxInv
<1>3. QED
  BY <1>1, <1>2, PTL DEF TxSpec

(* Every row and every open transaction has its type in every reachable    *)
(* state (the columns and parameters of operation-store.ts).               *)
THEOREM TxTypeCorrect == OneJobPerOperation => (TxSpec => []TxTypeOK)
<1>1. TxInv => TxTypeOK
  BY DEF TxInv
<1>2. QED
  BY <1>1, TxInvHolds, PTL

(* With one job, the status of the operation is the summary of the jobs.   *)
LEMMA MirrorMeansReflects ==
  OneJobPerOperation /\ TypeOK /\ JobStatusInUse /\ OperationMirrorsJob
    => OperationReflectsJobs
<1> SUFFICES ASSUME OneJobPerOperation, TypeOK, JobStatusInUse, OperationMirrorsJob,
                    NEW j \in Job, job[j].status # "absent"
             PROVE  op[OperationOf[j]].status = Summary(StatusesOf(OperationOf[j], job))
  BY DEF OperationReflectsJobs
<1>1. job \in [Job -> JobRow] /\ job[j] \in JobRow
  BY DEF TypeOK
<1>2. StatusesOf(OperationOf[j], job) = {job[j].status}
  BY OnlyStatus
<1>3. job[j].status \in Status \ {"absent", "cancelled"}
  BY <1>1 DEF JobStatusInUse, JobRow
<1>4. Summary({job[j].status}) = job[j].status
  BY <1>3 DEF Summary, Status, TerminalStatus
<1>5. QED
  BY <1>2, <1>4 DEF OperationMirrorsJob

(* The operation a user watches shows the status of its job in every       *)
(* committed state: claimNextJob, completeJob, completeExternalJob and     *)
(* failJob never leave the two tables apart.                               *)
THEOREM OperationAlwaysReflectsJobs ==
  OneJobPerOperation => (TxSpec => []OperationReflectsJobs)
<1> SUFFICES ASSUME OneJobPerOperation PROVE TxSpec => []OperationReflectsJobs
  OBVIOUS
<1>1. TxInv => OperationReflectsJobs
  BY MirrorMeansReflects DEF TxInv, TxTypeOK
<1>2. QED
  BY <1>1, TxInvHolds, PTL

(* A commit is one method call of AtomicOperationStore. *)
LEMMA CommitIsOneCall ==
  ASSUME OneJobPerOperation, TxInv, NEW c \in Client, CommitRefresh(c) \/ CommitClaim(c)
  PROVE  Next
<1> DEFINE x == tx[c]
           j == x.job
           row == WrittenRow(x)
           table == [job EXCEPT ![j] = row]
<1>1. /\ IsOpenTx(c) /\ job' = table /\ now' = now
  BY DEF CommitRefresh, CommitClaim
<1>2. /\ x \in Transaction /\ j \in Job /\ row \in JobRow /\ row.status # "absent"
      /\ CallIsValid(x) /\ job \in [Job -> JobRow] /\ now \in Nat /\ x.at \in 0..now
  BY <1>1, WrittenStatus
  DEF Transaction, TxInv, OpenCallsAreValid, TxTypeOK, TypeOK, CallIsValid
<1>3. CASE CommitClaim(c)
  <2>1. x.method = "claim" /\ op' = [op EXCEPT ![OperationOf[j]] = MarkedRunning(@)]
    BY <1>3 DEF CommitClaim
  <2>2. row = ClaimedRow(job[j], x.runner, x.at)
    BY <2>1 DEF WrittenRow
  <2>3. x.runner \in Runner /\ ClaimNextJob(x.runner, j, x.at)
    BY <1>1, <1>2, <2>1, <2>2 DEF ClaimNextJob, CallIsValid
  <2>4. QED
    BY <1>2, <2>3 DEF Next
<1>4. CASE CommitRefresh(c)
  <2>1. /\ x.phase = "read"
        /\ op' = [op EXCEPT ![OperationOf[j]] = Refreshed(@, x.seen, x.manual)]
    BY <1>4 DEF CommitRefresh
  <2>2. x.seen = StatusesOf(OperationOf[j], table)
    <3>1. table[j] = row
      BY <1>2
    <3>2. QED
      BY <1>1, <1>2, <2>1, <3>1, OnlyStatus DEF TxInv, SeenIsOwnWrite
  <2>3. op' = [op EXCEPT ![OperationOf[j]] =
                 Refreshed(@, StatusesOf(OperationOf[j], table), x.manual)]
    BY <2>1, <2>2
  <2>4. x.method \in {"complete", "external", "fail"}
    BY <1>2, <2>1 DEF CallIsValid, Transaction
  <2>5. WriteAndRefresh(j, row, x.manual)
    BY <1>1, <2>3 DEF WriteAndRefresh
  <2>6. CASE x.method = "complete"
    <3>1. row = CompletedRow(job[j], x.status)
      BY <2>6 DEF WrittenRow
    <3>2. CompleteJob(j, x.status, x.manual)
      BY <1>1, <1>2, <2>5, <2>6, <3>1 DEF CompleteJob, CallIsValid
    <3>3. QED
      BY <1>2, <2>6, <3>2 DEF Next, CallIsValid
  <2>7. CASE x.method = "external"
    <3>1. row = [CompletedRow(job[j], x.status) EXCEPT !.stage = "local"]
      BY <2>7 DEF WrittenRow
    <3>2. CompleteExternalJob(j, x.status, x.manual)
      BY <1>1, <1>2, <2>5, <2>7, <3>1 DEF CompleteExternalJob, CallIsValid
    <3>3. QED
      BY <1>2, <2>7, <3>2 DEF Next, CallIsValid
  <2>8. CASE x.method = "fail"
    <3>1. row = FailedRow(job[j], x.at)
      BY <2>8 DEF WrittenRow
    <3>2. x.manual = FALSE
      BY <1>2, <2>8 DEF CallIsValid, Transaction
    <3>3. FailJob(j, x.at)
      BY <1>1, <1>2, <2>5, <2>8, <3>1, <3>2 DEF FailJob, CallIsValid
    <3>4. QED
      BY <1>2, <3>3 DEF Next
  <2>9. QED
    BY <2>4, <2>6, <2>7, <2>8
<1>5. QED
  BY <1>3, <1>4

(* Although refreshOperationStatus reads the jobs without locking them,    *)
(* every behaviour of the transactions is one of indivisible method calls  *)
(* as long as an operation has one job.                                    *)
THEOREM TransactionsAreAtomic == OneJobPerOperation => (TxSpec => AtomicSpec)
<1> SUFFICES ASSUME OneJobPerOperation PROVE TxSpec => AtomicSpec
  OBVIOUS
<1>1. TxInit => Init
  BY DEF TxInit
<1>2. TxInv /\ [TxNext]_txVars => [Next]_storeVars
  <2> SUFFICES ASSUME TxInv, [TxNext]_txVars PROVE [Next]_storeVars
    OBVIOUS
  <2>1. TypeOK
    BY DEF TxInv, TxTypeOK
  <2>2. ASSUME NEW o \in Operation, TxCreateOperation(o) PROVE Next
    BY <2>2 DEF TxCreateOperation, Next
  <2>3. ASSUME NEW j \in Job, TxEnqueueJob(j) PROVE Next
    BY <2>1, <2>3 DEF TxEnqueueJob, Next, TypeOK
  <2>4. ASSUME NEW j \in Job, NEW stage \in Stage, TxUpdateJobPayload(j, stage) PROVE Next
    BY <2>4 DEF TxUpdateJobPayload, Next
  <2>5. ASSUME NEW c \in Client, CommitRefresh(c) \/ CommitClaim(c) PROVE Next
    BY <2>5, CommitIsOneCall
  <2>6. CASE TxTick
    BY <2>6 DEF TxTick, Next
  <2>7. ASSUME NEW c \in Client, NEW j \in Job, NEW method, NEW r, NEW s, NEW manual,
               Begin(c, method, j, r, s, manual)
        PROVE  UNCHANGED storeVars
    BY <2>7 DEF Begin
  <2>8. ASSUME NEW c \in Client, ReadJobs(c) \/ Rollback(c) PROVE UNCHANGED storeVars
    BY <2>8 DEF ReadJobs, Rollback
  <2>9. CASE UNCHANGED txVars
    BY <2>9 DEF txVars, storeVars
  <2>10. QED
    BY <2>2, <2>3, <2>4, <2>5, <2>6, <2>7, <2>8, <2>9
    DEF TxNext, BeginClaim, BeginComplete, BeginCompleteExternal, BeginFail
<1>3. QED
  BY <1>1, <1>2, TxInvHolds, PTL DEF TxSpec, AtomicSpec, Spec

------------------------------------------------------------------------------
(* The same promise of the abstract store, for whoever calls its methods.  *)
StoreInv ==
  /\ TypeOK
  /\ JobStatusInUse
  /\ OperationMirrorsJob

(* A method that rewrites the row of one job and adjusts its operation.    *)
LEMMA OneRowStep ==
  ASSUME OneJobPerOperation, StoreInv, NEW j \in Job, NEW row \in JobRow,
         NEW status, TypeOK',
         \A k \in Job : job'[k] = IF k = j THEN row ELSE job[k],
         op' = [op EXCEPT ![OperationOf[j]] = status],
         row.status \notin {"absent", "cancelled"}, status.status = row.status
  PROVE  StoreInv'
<1>1. OperationOf \in [Job -> Operation] /\ op \in [Operation -> OperationRow]
  BY RowsAssumption DEF StoreInv, TypeOK
<1>2. \A k \in Job : op'[OperationOf[k]] = IF k = j THEN status ELSE op[OperationOf[k]]
  BY <1>1 DEF OneJobPerOperation
<1>3. JobStatusInUse'
  BY DEF StoreInv, JobStatusInUse
<1>4. OperationMirrorsJob'
  BY <1>2 DEF StoreInv, OperationMirrorsJob
<1>5. QED
  BY <1>3, <1>4 DEF StoreInv

LEMMA WriteAndRefreshStep ==
  ASSUME OneJobPerOperation, StoreInv, NEW j \in Job, NEW row \in JobRow,
         NEW manual \in BOOLEAN, WriteAndRefresh(j, row, manual), TypeOK',
         row.status \notin {"absent", "cancelled", "running"}
  PROVE  StoreInv'
<1> DEFINE o == OperationOf[j]
           after == Refreshed(op[o], {row.status}, manual)
<1>1. TypeOK /\ job \in [Job -> JobRow] /\ o \in Operation /\ op[o] \in OperationRow
  BY RowsAssumption DEF StoreInv, TypeOK
<1>2. row.status \in Status \ {"absent", "cancelled", "running"}
  BY DEF JobRow
<1>3. \A k \in Job : job'[k] = IF k = j THEN row ELSE job[k]
  BY <1>1, WriteAndRefreshType
<1>4. StatusesOf(o, [job EXCEPT ![j] = row]) = {row.status}
  <2>1. [job EXCEPT ![j] = row][j] = row
    BY <1>1
  <2>2. QED
    BY <2>1, OnlyStatus
<1>5. op' = [op EXCEPT ![o] = after]
  BY <1>4 DEF WriteAndRefresh
<1>6. op[o].status # "cancelled"
  BY DEF StoreInv, OperationMirrorsJob, JobStatusInUse
<1>7. after.status = row.status
  BY <1>1, <1>2, <1>6, RefreshedFromOne
<1> HIDE DEF after
<1>8. QED
  BY <1>3, <1>5, <1>7, OneRowStep

LEMMA StoreInvStep == OneJobPerOperation /\ StoreInv /\ [Next]_storeVars => StoreInv'
<1> SUFFICES ASSUME OneJobPerOperation, StoreInv, [Next]_storeVars PROVE StoreInv'
  OBVIOUS
<1>0. /\ TypeOK /\ job \in [Job -> JobRow] /\ now \in Nat
      /\ OperationOf \in [Job -> Operation] /\ op \in [Operation -> OperationRow]
  BY RowsAssumption DEF StoreInv, TypeOK
<1>1. ASSUME NEW o \in Operation, CreateOperation(o) PROVE StoreInv'
  <2>1. TypeOK' /\ job' = job
    BY <1>0, <1>1, CreateOperationStep
  <2>2. /\ op[o].status = "absent" /\ op'[o].status = "queued"
        /\ \A p \in Operation : p # o => op'[p] = op[p]
    BY <1>0, <1>1 DEF CreateOperation, QueuedOperation, AbsentOperation
  <2>3. QED
    BY <1>0, <2>1, <2>2 DEF StoreInv, JobStatusInUse, OperationMirrorsJob
<1>2. ASSUME NEW j \in Job, NEW t \in 0..now, EnqueueJob(j, t) PROVE StoreInv'
  <2>1. t \in Nat
    BY <1>0
  <2>2. /\ TypeOK' /\ job[j].status = "absent" /\ op' = op
        /\ op[OperationOf[j]].status # "absent"
        /\ \A k \in Job : job'[k] = IF k = j THEN QueuedJob(t) ELSE job[k]
    BY <1>0, <1>2, <2>1, EnqueueJobStep DEF EnqueueJob
  <2>3. QueuedJob(t).status = "queued"
    BY DEF QueuedJob, AbsentJob
  <2>4. op[OperationOf[j]].status = "queued"
    BY <2>2 DEF StoreInv, OperationMirrorsJob
  <2>5. QED
    BY <2>2, <2>3, <2>4 DEF StoreInv, JobStatusInUse, OperationMirrorsJob
<1>3. ASSUME NEW j \in Job, NEW stage \in Stage, UpdateJobPayload(j, stage) PROVE StoreInv'
  <2>1. /\ TypeOK' /\ IsOpen(job[j]) /\ op' = op /\ job[j] \in JobRow
        /\ \A k \in Job : job'[k] = IF k = j THEN [job[j] EXCEPT !.stage = stage] ELSE job[k]
    BY <1>0, <1>3, UpdateJobPayloadStep DEF UpdateJobPayload
  <2>2. \A k \in Job : job'[k].status = job[k].status /\ job'[k].attempts = job[k].attempts
    BY <2>1 DEF JobRow
  <2>3. QED
    BY <2>1, <2>2 DEF StoreInv, JobStatusInUse, OperationMirrorsJob
<1>4. ASSUME NEW j \in Job, NEW r \in Runner, NEW t \in 0..now, ClaimNextJob(r, j, t)
      PROVE  StoreInv'
  <2> DEFINE row == ClaimedRow(job[j], r, t)
             after == MarkedRunning(op[OperationOf[j]])
  <2>1. t \in Nat /\ job[j] \in JobRow
    BY <1>0
  <2>2. /\ TypeOK' /\ Claimable(j, job[j], t)
        /\ \A k \in Job : job'[k] = IF k = j THEN row ELSE job[k]
    BY <1>0, <1>4, <2>1, ClaimNextJobStep
  <2>3. row \in JobRow /\ row.status = "running"
    BY <2>1, RowTypes DEF ClaimedRow, JobRow
  <2>4. op' = [op EXCEPT ![OperationOf[j]] = after]
    BY <1>4 DEF ClaimNextJob
  <2>5. op[OperationOf[j]].status \in {"queued", "running"}
    BY <2>2 DEF Claimable, StoreInv, OperationMirrorsJob
  <2>6. after.status = "running"
    BY <1>0, <2>5 DEF MarkedRunning, OperationRow
  <2> HIDE DEF row, after
  <2>7. QED
    BY <2>2, <2>3, <2>4, <2>6, OneRowStep
<1>5. ASSUME NEW j \in Job, NEW s \in Status \ {"absent", "cancelled", "queued", "running"},
             NEW manual \in BOOLEAN,
             CompleteJob(j, s, manual) \/ CompleteExternalJob(j, s, manual)
      PROVE  StoreInv'
  <2>1. job[j] \in JobRow /\ TypeOK'
    BY <1>0, <1>5, CompleteJobStep, CompleteExternalJobStep
  <2>2. /\ CompletedRow(job[j], s) \in JobRow
        /\ [CompletedRow(job[j], s) EXCEPT !.stage = "local"] \in JobRow
    BY <1>0, <2>1, RowTypes
  <2>3. /\ CompletedRow(job[j], s).status = s
        /\ [CompletedRow(job[j], s) EXCEPT !.stage = "local"].status = s
    BY <2>1 DEF CompletedRow, JobRow
  <2>4. QED
    BY <1>5, <2>1, <2>2, <2>3, WriteAndRefreshStep DEF CompleteJob, CompleteExternalJob
<1>6. ASSUME NEW j \in Job, NEW t \in 0..now, FailJob(j, t) PROVE StoreInv'
  <2>1. job[j] \in JobRow /\ t \in Nat /\ TypeOK'
    BY <1>0, <1>6, FailJobStep
  <2>2. FailedRow(job[j], t) \in JobRow /\ FailedRow(job[j], t).status \in {"queued", "failed"}
    BY <2>1, RowTypes DEF FailedRow, JobRow
  <2>3. QED
    BY <1>6, <2>1, <2>2, WriteAndRefreshStep DEF FailJob
<1>7. CASE Tick
  BY <1>0, <1>7 DEF Tick, StoreInv, TypeOK, JobStatusInUse, OperationMirrorsJob
<1>8. CASE UNCHANGED storeVars
  BY <1>8 DEF storeVars, StoreInv, TypeOK, JobStatusInUse, OperationMirrorsJob
<1>9. ASSUME NEW j \in Job,
             \/ \E s \in HandlerOutcome : \E manual \in Instruction(s) : CompleteJob(j, s, manual)
             \/ \E s \in ExternalOutcome : \E manual \in Instruction(s) :
                  CompleteExternalJob(j, s, manual)
      PROVE  StoreInv'
  BY <1>5, <1>9, OutcomeTypes
<1>10. QED
  BY <1>1, <1>2, <1>3, <1>4, <1>6, <1>7, <1>8, <1>9 DEF Next

(* Whoever calls the methods of the store, in whatever order and with      *)
(* however old a clock reading: the operation a user watches shows the     *)
(* status of its job.                                                      *)
THEOREM AtomicStoreReflectsJobs ==
  OneJobPerOperation => (Spec => []OperationReflectsJobs)
<1> SUFFICES ASSUME OneJobPerOperation PROVE Spec => []OperationReflectsJobs
  OBVIOUS
<1>1. Init => StoreInv
  <2> SUFFICES ASSUME Init PROVE StoreInv
    OBVIOUS
  <2>1. TypeOK
    BY RowsAssumption
    DEF Init, TypeOK, AbsentJob, AbsentOperation, JobRow, OperationRow, Status, Stage
  <2>2. JobStatusInUse /\ OperationMirrorsJob
    BY RowsAssumption DEF Init, JobStatusInUse, OperationMirrorsJob, AbsentJob, AbsentOperation
  <2>3. QED
    BY <2>1, <2>2 DEF StoreInv
<1>2. StoreInv /\ [Next]_storeVars => StoreInv'
  BY StoreInvStep
<1>3. StoreInv => OperationReflectsJobs
  BY MirrorMeansReflects DEF StoreInv
<1>4. QED
  BY <1>1, <1>2, <1>3, PTL DEF Spec

==============================================================================
