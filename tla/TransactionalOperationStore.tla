--------------------- MODULE TransactionalOperationStore ---------------------
(***************************************************************************)
(* src/operations/operation-store.ts at the level of SQL statements.  The  *)
(* methods claimNextJob, completeJob, completeExternalJob and failJob are  *)
(* READ COMMITTED transactions of several statements: the first one locks  *)
(* and writes a job row, the last one writes the operation row, and in     *)
(* between refreshOperationStatus reads the jobs without locking them.     *)
(* The transaction of a client is invisible to the others until it         *)
(* commits, and it can be rolled back at any point before.                 *)
(***************************************************************************)
EXTENDS AtomicOperationStore

CONSTANTS
  Client,    (* database connections, each with at most one transaction    *)
  MaxClock    (* bound of the clock                                         *)

ASSUME MaxClockAssumption == MaxClock \in Nat

VARIABLE tx   (* the open transaction of each client *)

txVars == <<job, op, now, tx>>

Idle == [phase |-> "idle"]

(* at is the method's input.now; seen holds what refreshOperationStatus    *)
(* has read, once the phase is "read".                                     *)
Transaction ==
  [phase : {"written", "read"}, method : {"claim", "complete", "external", "fail"},
   job : Job, runner : Runner \cup {NoRunner}, status : Status,
   manual : BOOLEAN, at : Nat, seen : SUBSET Status]

IsOpenTx(c) == tx[c].phase # "idle"

(* Bug: the candidate row is read without FOR UPDATE. *)
NeverLocked(j) == FALSE

(* The row of j is held by the FOR UPDATE or UPDATE of a transaction. *)
Locked(j) == \E c \in Client : IsOpenTx(c) /\ tx[c].job = j

(* The uncommitted row that transaction x has written. *)
WrittenRow(x) ==
  LET row == job[x.job] IN
  CASE x.method = "claim"    -> ClaimedRow(row, x.runner, x.at)
    [] x.method = "complete" -> CompletedRow(row, x.status)
    [] x.method = "external" -> [CompletedRow(row, x.status) EXCEPT !.stage = "local"]
    [] x.method = "fail"     -> FailedRow(row, x.at)

TxTypeOK ==
  /\ TypeOK
  /\ tx \in [Client -> {Idle} \cup Transaction]

TxInit == Init /\ tx = [c \in Client |-> Idle]
------------------------------------------------------------------------------
Begin(c, method, j, r, s, manual) ==
  /\ ~IsOpenTx(c)
  /\ ~Locked(j)
  /\ tx' = [tx EXCEPT ![c] =
       [phase |-> "written", method |-> method, job |-> j, runner |-> r, status |-> s,
        manual |-> manual, at |-> now, seen |-> {}]]
  /\ UNCHANGED storeVars

(* SELECT ... ORDER BY run_after LIMIT 1 FOR UPDATE SKIP LOCKED, UPDATE.   *)
(* Rows with the same run_after come in any order.                         *)
BeginClaim(c, r, j) ==
  LET candidates == {k \in Job : Claimable(k, job[k], now) /\ ~Locked(k)} IN
  /\ j \in candidates
  /\ \A k \in candidates : job[j].runAfter <= job[k].runAfter
  /\ Begin(c, "claim", j, r, "succeeded", FALSE)

BeginComplete(c, j, s, manual) ==
  IsOpen(job[j]) /\ Begin(c, "complete", j, NoRunner, s, manual)

BeginCompleteExternal(c, j, s, manual) ==
  IsOpen(job[j]) /\ Begin(c, "external", j, NoRunner, s, manual)

BeginFail(c, j) ==
  job[j].attempts > 0 /\ Begin(c, "fail", j, NoRunner, "failed", FALSE)

(* The SELECT of refreshOperationStatus: the transaction's own write, and  *)
(* of every other job the last committed row.                              *)
ReadJobs(c) ==
  /\ IsOpenTx(c)
  /\ tx[c].phase = "written"
  /\ tx[c].method # "claim"
  /\ LET x == tx[c]
         table == [job EXCEPT ![x.job] = WrittenRow(x)] IN
     tx' = [tx EXCEPT ![c].phase = "read", ![c].seen = StatusesOf(OperationOf[x.job], table)]
  /\ UNCHANGED storeVars

(* The UPDATE of the operation row, and COMMIT. *)
CommitRefresh(c) ==
  /\ IsOpenTx(c)
  /\ tx[c].phase = "read"
  /\ LET x == tx[c] IN
     /\ job' = [job EXCEPT ![x.job] = WrittenRow(x)]
     /\ op' = [op EXCEPT ![OperationOf[x.job]] = Refreshed(@, x.seen, x.manual)]
  /\ tx' = [tx EXCEPT ![c] = Idle]
  /\ UNCHANGED now

(* markOperationRunning, and COMMIT. *)
CommitClaim(c) ==
  /\ IsOpenTx(c)
  /\ tx[c].method = "claim"
  /\ LET x == tx[c] IN
     /\ job' = [job EXCEPT ![x.job] = WrittenRow(x)]
     /\ op' = [op EXCEPT ![OperationOf[x.job]] = MarkedRunning(@)]
  /\ tx' = [tx EXCEPT ![c] = Idle]
  /\ UNCHANGED now

(* ROLLBACK, or the connection or the process is lost. *)
Rollback(c) ==
  /\ IsOpenTx(c)
  /\ tx' = [tx EXCEPT ![c] = Idle]
  /\ UNCHANGED storeVars

TxCreateOperation(o) == CreateOperation(o) /\ UNCHANGED tx

TxEnqueueJob(j) == EnqueueJob(j, now) /\ UNCHANGED tx

TxUpdateJobPayload(j, stage) ==
  ~Locked(j) /\ UpdateJobPayload(j, stage) /\ UNCHANGED tx

TxTick == now < MaxClock /\ Tick /\ UNCHANGED tx

TxNext ==
  \/ \E o \in Operation : TxCreateOperation(o)
  \/ \E j \in Job : TxEnqueueJob(j) \/ \E stage \in Stage : TxUpdateJobPayload(j, stage)
  \/ \E c \in Client :
       \/ \E j \in Job :
            \/ \E r \in Runner : BeginClaim(c, r, j)
            \/ \E s \in HandlerOutcome : \E manual \in Instruction(s) :
                 BeginComplete(c, j, s, manual)
            \/ \E s \in ExternalOutcome : \E manual \in Instruction(s) :
                 BeginCompleteExternal(c, j, s, manual)
            \/ BeginFail(c, j)
       \/ ReadJobs(c) \/ CommitRefresh(c) \/ CommitClaim(c) \/ Rollback(c)
  \/ TxTick

TxSpec == TxInit /\ [][TxNext]_txVars
------------------------------------------------------------------------------
(* With one job per operation every transaction is one indivisible step of *)
(* AtomicOperationStore, although refreshOperationStatus locks nothing.    *)
AtomicSpec == Spec
==============================================================================
