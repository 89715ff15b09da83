# Lorume: verification of the backend and the device collector

TLA+ modules, TLC runs and TLAPS proofs for the parts of Lorume whose
correctness depends on the order in which independent processes take their
steps: the job queue in Postgres with its runners and message handlers, the
analyses it executes, the control channel between devices and the backend, the
collector's own work on a device (run lock, synchronization, self-upgrade), the
ingestion of its reports, notifications, the membership of organizations, and the
page on which an invited user signs in. Everything is translated from the
TypeScript and JavaScript sources; paths below are relative to the repository's
root.

## 1. The system

| Component | State | Operations | Talks to |
|---|---|---|---|
| **Operation store** `src/operations/operation-store.ts` | tables `operations`, `operation_jobs` | createOperation, enqueueJob, claimNextJob, updateJobPayload, completeJob, completeExternalJob, failJob, and refreshOperationStatus inside the last three | Postgres, one transaction per method at READ COMMITTED |
| **Job runner** `src/operations/job-runner.ts`, handlers in `collector-upgrade.ts` and `agent-analysis.ts` | none of its own but the job in hand | runDueJobOnce: claim, run the handler, complete or fail, notify | operation store, control channel, notification store |
| **Runtime HTTP API** `src/server/runtime-http-api.ts` | none | upgrade request (create operation and job, then complete the job at once when the collector is current, offline or too old); snapshots, probes and task batches of devices | operation store, control channel, ingestion store |
| **Agent analysis** `src/agent-analysis/*`, `src/operations/agent-analysis.ts` | table `agent_analysis_reports` | scheduler, manual request, dispatch, progress and result handlers | operation store, control channel |
| **Control channel** `src/server/runtime-control-channel.ts`, `src/backend/backend-server.ts`, `src/server/runtime-device-state-store.ts` | maps socket to device and device to socket; connection status and heartbeat time | attach, receive, detach, send a request; verification of the device token | web sockets, upgrade and analysis handlers |
| **Collector** `scripts/lorume-device-collector.mjs` | run lock, task cache, `upgrade-state.json`, backups, control socket | collect and post, control connection, upgrade with rollback and restart | HTTP API, control channel, service manager |
| **Ingestion store** `src/server/postgres-store.ts` | devices, runtimes, agents, tasks, collector_ingestions | upsert a snapshot, upsert a task batch, record a failure | HTTP API |
| **Accounts** `src/auth/auth-store.ts`, `auth-http-api.ts` | users, login codes, sessions, organizations, memberships, invitations, device tokens | login, invite, send again, accept, revoke, leave, verify, bind and revoke a token | HTTP API, email |
| **Notifications** `src/notifications/notification-store.ts` | threads, events, deliveries | create with deduplication and cooldown, read | runner, HTTP API |
| **Sign-in gate** `src/auth/AuthProvider.tsx` and its pages | session, invitation preview, address, in the browser | effects on load and on an invitation link, request and submit a code, accept, leave the page | HTTP API |
| **Adapters, CLI, installer, other pages** | local files, browser | read agent runtimes, install, show | see section 8 |

### What is hard

* *Interleaving.* Several transactions, runners, HTTP handlers and message
  handlers write the same rows. Handlers of device messages are started with
  `void` and never awaited, so the handlers of one job overlap. Runs of the
  collector in different processes share a lock file, a cache and the installed
  files.
* *Time.* A lease, a retry delay, a deadline, a cooldown and the age of a lock are
  compared with a clock that advances while something is awaited.
* *Failure.* A process dies between two queries or two file operations; a query
  fails inside or outside of a `try`; an answer is lost after the request was done.
* *Connections.* The two ends of a socket notice its end on their own, the
  device reconnects at once, and a token is verified between the first message
  and its handling. A request whose connection broke may still be executed, later.
* *Effects.* A React effect that awaits several answers is cleaned up and run
  again when a state it depends on changes, also by its own doing.

### What must hold, per component

* Operation store: a method is one step for everybody else, and an operation
  always shows what its jobs add up to.
* Runner: a job is executed by one runner at a time; attempts are counted; an
  outcome stands; every job ends.
* Analysis: a success has a report; handlers that act on a row read earlier undo
  no outcome; the analysis ends whatever is lost.
* Control channel: the two maps agree; a device is shown online exactly when it
  is; the progress of a restarted collector is lost only with its socket.
* Membership: an organization keeps an owner; an invitation makes one user a
  member once; a revoked link is dead.
* Collector: runs that hold the lock exclude each other; the cache is right about
  what was not written since; the backend mirrors the tasks; a success report is
  true, a collection uses one complete version, and a restart never goes back.
* Ingestion: the fleet shows one snapshot and no mixture; a device keeps its
  organization; a token is good for one device; a late report does no lasting harm.
* Notifications: one thread per deduplication key, exact counts, one email per
  cooldown, an event is lost only beside a twin.
* Sign-in: a code opens one session; a visit mails one code; the session and the
  invitation are not read for ever.

## 2. Modules

| Module | What it is |
|---|---|
| `OperationRows` | the rows and what one SQL statement does to a row: no variables, shared by the modules of jobs |
| `AtomicOperationStore` | **abstract specification**: each method of the store is one step |
| `TransactionalOperationStore` | the transactions statement by statement, with row locks, `SKIP LOCKED` and a stale read in refreshOperationStatus; implements `AtomicOperationStore` |
| `JobRunner` | runners, requests, device messages, crashes and the clock on top of the atomic store |
| `AgentAnalysis` | scheduler, manual request, message handlers and reports, composed with `JobRunner` |
| `ControlChannel` | collector and backend ends of the control connection |
| `OrganizationMembership` | members and invitations of one organization and the requests on them |
| `SingleFlight` | **abstract specification** of the run lock: runs exclude each other unless one is robbed |
| `CollectorRunLock` | the lock file call by call; implements `SingleFlight` |
| `TaskMirror` | **abstract specification** of the task table: it shows tasks as a listing once had them |
| `CollectorSync` | collection runs, their batches and cache, on top of `SingleFlight`; implements `TaskMirror` |
| `CollectorUpgrade` | self-upgrade, rollback, restart and confirmation, on top of `SingleFlight` |
| `NotificationThreads` | transactions that find, insert and update the threads of notifications |
| `DeviceIngestion` | token verification and the snapshot transaction, statement by statement |
| `InvitedSignIn` | the browser behind an invitation link and the server's sign-in |
| `OperationStoreProofs` | theorems about `AtomicOperationStore` and `TransactionalOperationStore` |
| `JobProofs` | about `JobRunner` and `AgentAnalysis`; cites the lemmas of the former on rows and methods |
| `ControlChannelProofs` | about `ControlChannel` |
| `AccountsProofs` | about `InvitedSignIn` and `OrganizationMembership` |
| `CollectorProofs` | about `CollectorRunLock` and `CollectorSync` |
| `CollectorUpgradeProofs` | about `CollectorUpgrade` |
| `NotificationThreadsProofs`, `DeviceIngestionProofs` | about the modules they are named after |
| `MC...` | instances for TLC |

`JobRunner` and `AgentAnalysis` are composed with the store by extending it:
every database step of theirs is a method of `AtomicOperationStore`, which
`RunnersUseTheStore` proves. In the same way the steps of `CollectorSync` and `CollectorUpgrade` that take, lose and release
the lock are steps of `SingleFlight`. That the detailed store and the lock file
implement these abstractions is checked and proved.

A definition commented `Bug:` right before another one is a plausible defect of
the definition that follows. It is part of no specification; putting it in the
place of its neighbour must violate a property, which keeps the properties
honest. The pairs are listed under `mutants` in `PROJECT.json`.

### 2.1 OperationRows, AtomicOperationStore

A job row keeps the columns that decide something: status, attempts, run_after,
locked_by, locked_until, and of the payload the stage and the deadline. The
stages are two: `remote` (dispatched, accepted, executing, result_received: the
list in claimNextJob that protects an analysis until its deadline) and `local`.
`Claimable` is the WHERE clause of the candidate query, `ClaimedRow`,
`CompletedRow` and `FailedRow` the UPDATE statements, `Summary` and `Refreshed`
the cascade of refreshOperationStatus. Note what the code does not test:
`FailedRow` looks at no status and no lock owner, `Claimable` at no number of
attempts.

The time argument of a method is a value in the past (`t \in 0..now`), because
the callers pass the clock they read before they awaited a connection.

### 2.2 TransactionalOperationStore

A client (a pooled connection) runs one transaction: the UPDATE of the job
takes its row lock (a second writer of that row waits), refreshOperationStatus
reads the statuses of the other jobs as committed, and the commit makes both
tables' writes visible. claimNextJob skips locked rows instead of waiting. A
transaction may roll back at every step. `createOperation`, `enqueueJob` and
`updateJobPayload` are single statements. The read of the jobs happens before
the operation row is locked, as in the code: this is the place where two jobs
of one operation could disagree, see section 7.

### 2.3 JobRunner

A runner is at one of five places of runDueJobOnce: `handling` (claimed, the
handler runs), `sending`, `sent`, `completed`/`notify`, or idle. Every await is
a point where others run. `Complete` covers handlers that return an outcome and
types without a handler; `CheckDeadline`, `Send` and `MarkDispatched` are the
two dispatch handlers, whose control is the same; `Fail` is the `catch`, enabled
wherever an await inside the `try` may throw; `Crash` is the end of a process or
an error outside of the `try`. `AnswerRequest` is the second half of the upgrade
request, which runs while a runner may already have claimed the new job.
`DeviceOutcome` and `DeviceProgress` are the device messages. `lateFail` is a
history variable: a runner failed this job when its own lease was over.

### 2.4 AgentAnalysis

`CheckReport` and `CheckOpen` are the three queries of shouldSkipTarget, `Ask`
the manual request, `Create` and `Enqueue` the two transactions that create an
analysis, with `Abandon` between any two of them. `Receive` is the first query of a
message handler, which decides what the handler will do; `ApplyProgress`,
`StoreReport` and `CompleteAnalysis` are the later ones; `Drop` ends a handler
whose query failed. `measured` records that `hardMetrics` entered the payload,
which happens after the request was sent. Only jobs of type
`agent_analysis_openclaw` live here. The steps of runners, devices and the clock are
those of `JobRunner`, conjoined with what they mean for the report table, so that
every behaviour is one of `JobRunner` by construction (a lemma of `JobProofs`); what is
worth checking is that its properties still hold when handlers act on rows read earlier.

### 2.5 ControlChannel

Every connection a device opens is a socket with a state per end. `up` holds
what is under way to the backend, `pending` what arrived while the token is
verified, `authenticating` the flag of the wrapper that keeps messages in
`pending`, `channel` the maps of the control channel together with the connection
store. `Received`, `Detached` and `Shown` are the functions receive, detach and
the freshness rule. Once a token is verified the backend receives the hello and then
what has waited, without an await. `Deliver` is the message event in its four cases:
`StartVerification` for the first messages of a socket, `WaitForToken` for those that
are kept, `TakenForHello` for one that comes when the handler of a kept message has
already taken `authenticating` back (the socket is closed with 1008 over it), and
`Receive` once the token is verified. Messages that arrive together are handled
before any `finally` runs, so both actions take a prefix of what is under way.
`Verified` is the hello, each `Replay` one of the
others, and `BackendIsFree` keeps every other event of the backend from coming in
between. When the device closes, a suffix of what it sent is lost and
the backend may notice at any later time or never. `startup` is the progress
report of a finished upgrade that a restarted collector sends once.

### 2.6 OrganizationMembership

`request` says which query each HTTP request awaits. `Authorize` is the read of
the session's memberships, after which the right to manage is not looked at
again; `ReadPrevious`/`Resend` and `AskRevoke`/`RevokeInvitation` are the read of
an invitation and the later write, `Mailed` the email whose success or failure
decides what is revoked. acceptInvitation is two steps, because it holds the row
lock of the invitation while it writes the member; leaveOrganization locks its
rows before it decides and is one step (two owners who leave at once block each
other, and Postgres aborts one). Only the rows' columns that decide something
are kept; a token stands for its invitation. `Abort` is a failed query or the end
of the process: a transaction then leaves nothing behind, a request whatever its
finished queries have written.

### 2.7 SingleFlight, CollectorRunLock

acquireCollectorRunLock is a loop of two attempts: `Create` (openSync with `wx`)
leaves an empty file, `Write` fills in the process and the start time, `Judge`
reads what is there and decides, `Reclaim` unlinks. releaseCollectorRunLock is
`Release` (read) and `Remove` (unlink). Within a process the functions are
synchronous (`HasTheThread`), across processes every call interleaves. `hit`
records whose file another run has unlinked. An owner is abandoned when its file
is empty or unreadable, older than the limit, or names a dead process. In
`SingleFlight` such a run is `robbed` and goes on; a robbed run that was just about
to unlink its own file unlinks that of its successor, the only way in which a
release harms somebody.

### 2.8 TaskMirror, CollectorSync

A run is `collected` (the tool has listed the tasks), `posting`, `sent` (a request
is on its way), `stored` (the transaction is committed, the answer is not there)
or `ending`. `ToPost` compares the listing with the cache, `FirstBatch` takes the
newest tasks and then the removed ones, `Stored` is upsertRuntimeTaskBatch,
`Acknowledge` the write of the cache file, `Retried` postJsonWithRetry.
`RequestFails` and `Crash` may leave the request in `late`, from where it can arrive
at any time. A task stands for its whole content; a hash for the content it is
of. A task whose agent the backend does not know is in `Refused`: it violates a
foreign key, the whole batch fails with it, and the answer, a 500, is retried like a
lost one. `doubt`, `outrun` and `overlapped` are history variables that say in the
properties which tasks no promise is made about: `doubt` holds the tasks that the
backend has written, in time or late, and that no run has cached since; a request
that was lost before it was stored adds none.

### 2.9 CollectorUpgrade

A request is `waiting` for the lock, `downloading`, then in the synchronous part
(`copying` and `installing` file by file, `failing`, `failed`, `installed`), and
`reporting` its failure. `BackUpFile` copies one installed file into the backup of
the job, over what an earlier attempt has left there, `InstallFile` is one rename, `RollBack` and `RollBackFails` the loop that copies
back, wholly or up to the file at which a copy fails. `Exit`, `Crash` and `Restart`
are the service's process, `Confirm` the progress sent after the restart. File 1 is
the collector, whose version is that of the process that is started. Requests
overlap at every await; the state file has one entry, that of the last writer.
`ran` is the version that ran last. A job keeps its backup from one attempt to the
next; `OldBackup` says that it is older than `ran`, because another job has upgraded
the collector in between, so that a failed attempt would install it again. `torn`
says that a process has died, or a rollback has failed, between two files, or that a
rollback has restored a backup of two versions, which a copy that failed over an
older backup leaves. A report records whether either was so when it was sent (`Spoiled`).

### 2.10 NotificationThreads

A writer's transaction is at `select`, `insert`, `locked` or `inserted`.
`SelectThread` waits for the row's lock and cannot see an insert that is not
committed; `InsertThread` waits for one, and `InsertConflicts` is the unique
violation when the other has committed. The commit writes the thread, the event
and the deliveries at once. Email is due for the types in `Warnings`, unless the
thread that was read is in its cooldown. `end` of an event is the time of its
commit or of its loss.

### 2.11 DeviceIngestion

A request passes `verify` and `bind` (verifyDeviceToken: the read with FOR UPDATE,
then the update), `check` (normalization and the device's organization, read
without a lock), `device`, `agents` and `commit` of the snapshot's transaction, or
`failed`, where recordFailedCollectorIngestion is next. The device's row is held
from `UpsertDevice` to the commit. `gone` are the agents that
markAgentsMissingFromPresentRuntimesInvisible found among the committed rows.
`overtaken` says that a failure was recorded after this transaction's BEGIN, whose
time `received_at` is. A content is a set of runtimes and of agents in them. A body
names its device twice: `claimed` is extractDeviceId, which the token is verified and
bound with and failures are recorded under, `device` the device.id of the snapshot,
which rows are written for; a request may carry two different ones, as the code
allows. `Presets` are the devices a token may be created for.

### 2.12 InvitedSignIn

`page` is the state of AuthProvider, a chain one run of its invitation effect;
`mounted` is the flag that the effect's cleanup resets. `dirty` says that a
dependency has changed and the effect is yet to be run by `Render`. `Previewed`,
`LoggedOut` and `CodeMailed` are the continuations after each await, for a run that
is mounted or not. `Consume`, `CreateSession` and `Accept` are the steps of
submitting a code, which nothing cancels: `Back` leaves the page while they go on.
`CodeRequestFails` is a failed request of the login page, before or after the server
has made the code. A browser submits one code at a time: a second submission from
a page that was left and opened again is left out.

## 3. Runs

Passing runs:

| Run | Question | Bounds |
|---|---|---|
| `transactional_store` | Do interleaved transactions behave as atomic methods, and does an operation always show its job? | 2 operations with one job each, 2 connections, one clock tick, lease and retry delay 1: both clients can hold each kind of transaction on the same row |
| `upgrade_runners` | Two backends, an upgrade and a job without a handler, HTTP answers, device messages, failures, a crash: who may execute a job, what may undo an outcome, does every job end? | 2 jobs (`collector_upgrade_device` and the email type), 2 runners, 2 attempts, lease 1, deadline 2 ticks after the request, 1 fault: a lease can run out before and after the deadline, be reclaimed and fail late |
| `agent_analysis` | Scheduler, message handlers and runner around one analysis: has a success its report, is an outcome undone, does the analysis end? | 1 analysis, 1 trigger, 2 overlapping handlers, 1 runner, 2 attempts, 1 fault: the second handler can act on a row the first one has completed, before and after the deadline |
| `control_channel` | Reconnections, late closes, verification, freshness | 1 device, 3 sockets, heartbeats while fewer than 2 messages wait, stale after 2 ticks. Devices share no entry of the maps; three sockets allow a late close and a late hello at once |
| `organization` | Overlapping requests: who becomes a member, does a revoked link stay dead, can the owner be lost? | 2 users (the founder and another), 2 invitations, 2 requests: an acceptance overlaps with a second one, or with a revocation that was asked for before it; an invitation is sent again with its copy in use |
| `collector_lock` | Does the lock file implement the abstract lock, and does an abandoned lock go away? | 4 runs in 3 processes, two of which share one; at most two processes die: a reclaimer meets a dead owner, a live one past the age limit, an empty file, and another reclaimer |
| `collector_sync` | Lost requests and answers, a late request, refusals, a robbed lock: what does the cache claim, what gets through, what is shown? | 2 runs, 3 tasks of 2 adapters posted one per batch, the middle one refused, 1 content beside absence, 2 tries, 3 changes, 1 fault, 1 robbery |
| `collector_upgrade` | Overlapping requests, failing steps and rollbacks, partial backups, crashes between renames: what may a report, a collection and a restart rely on? | 2 requests at a time and 3 in all, for versions 2 and 3 over version 1, 2 files, 1 collection, 2 faults, 1 robbery: a rollback can follow an install by another request |
| `notifications` | Overlapping events of one key: counts, emails, losses, waiting | 2 keys of which one is mailed, 1 user, 2 writers, 3 events, cooldown 2, 3 ticks, 1 rollback: a third event may fall into the cooldown of either |
| `ingestion` | Overlapping reports: what does the fleet show, whose is the device, what was a token verified for, is a lasting error possible? | 2 organizations with a token each, one of them created for a device, 2 devices, 2 agents of one runtime, 2 requests: the second one is a second run of the device, another device with the same token, the same device under the other organization, or a body that names the other device and holds this one's snapshot; 2 changes, revocations or expiries, 1 fault |
| `sign_in` | The effect of the invitation link under re-runs, failures and a second browser. `LoadingEnds` is about the reading of the session and of the invitation only: the view that says the code is being sent may stay, which is what `invite_violation` shows | the invited user and another one, 4 codes, 3 runs of the effect, 2 visits, 1 request outside of the link, 1 fault; the browser is signed in as nobody, the other or the invited user |

One run ends in a violation, where the code and a sentence of the repository
disagree (`findings` in `PROJECT.json` quotes it):

| Run | What TLC finds |
|---|---|
| `invite_violation` | Without any fault, the invitation link never reaches the entry of the code. The effect sets `autoCodeRequestedInviteToken`, which it depends on, so React cleans it up before the server has answered; the answer is ignored, and the next run does not ask again. The code is mailed and the page keeps waiting. |

The other disagreements met while modelling are in section 7.

### Bounds

`MaxFaults` bounds crashes, failed queries or calls and lost messages, `MaxTime` and `MaxClock`
the clock. `MaxChanges`, `MaxRequests`, `MaxEvents`, `MaxVisits` and `MaxAsks` bound
what users and devices do, `MaxRobberies` the locks taken from a live run. In
`JobRunner`, `Horizon` separates the time in which things go wrong from the time
in which the system finishes: no job is requested so late that its deadline lies
after `Horizon`, no process crashes from then on, and the clock waits for runners
that have work. Without such a bound a finite clock would stop while a lease is
pending. `MaxTime` leaves room for all leases and retries that may follow.
`MaxQueue` bounds the heartbeats that wait on a socket. `HandlerOutcome` is empty
in the runs of the runner: neither of the program's two handlers returns an
outcome, both leave their job to an external completion, so `Complete` is the
ending of a job whose type has no handler. The proofs hold for handlers that do.
Deadlock is not checked in runs whose clock or number of events is bounded, nor in
those of the page: they stop at the bound, or when the user does nothing.

## 4. Fairness

* `JobRunner`: weak fairness of each runner's next step, of the HTTP answer and
  of the clock. The backend calls runDueJobOnce from a timer, awaits each query
  and continues; a query that hangs forever is excluded. A runner's step
  includes `Fail`, so nothing is said about queries that succeed. Devices, users,
  triggers and message handlers are not fair: `EveryJobEnds` holds although the
  device may stay silent and every handler may be dropped.
* `ControlChannel`: weak fairness of heartbeats on an open connection, of
  delivery, of the verification query, of the loop over what has waited for it
  and of time. Nobody is obliged to notice
  that a connection has ended. `StableDeviceIsShownOnline` assumes of the device
  that its connection eventually stays.
* `CollectorRunLock`: some run of some live process takes a step, since the
  service's interval timer starts runs again and again and file calls return. No
  single run is fair, and locks need not grow stale.
* `CollectorSync`: each run's next step (the timer starts it, requests are answered
  or time out), and the arrival of what is under way. Failures, crashes and the
  loss of the lock are not fair, and bounded: the property is about what follows.
* `CollectorUpgrade`: the steps of requests, of collections, and of the process:
  the exit timer fires, launchd or systemd starts the service again, and the
  control channel opens.
* `NotificationThreads`: each writer's next statement; a wait for a lock ends only
  when the holder's transaction does, which the property is about.
* `DeviceIngestion`: a collector reports in every interval (`Send`), and the server
  goes on with a request. Which of its senders a request has is not fair, so
  `DevicesRecover` speaks of requests with one sender.
* `InvitedSignIn`: requests are answered, or fail, and changed state is rendered.
  The user need do nothing.

## 5. Proofs

All theorems hold for every number of operations, jobs, runners, connections,
agents, handlers, requests, devices, messages, processes, tasks, files, versions,
keys, codes and users. Every safety property of a run is one of them. Each rests on
an inductive invariant that TLC has checked on the instance of its run before.

* **TransactionalOperationStore** (assumption: at most one job per operation, as
  both callers of enqueueJob create them). `TxInv` says which row lock each open
  transaction holds, that two of them never hold the same, that the image a
  transaction will commit is the row it locked with the method's change, and
  that the statuses it has read are still the committed ones; the last part is
  what fails with two jobs per operation. From it: `TxTypeCorrect`,
  `OperationAlwaysReflectsJobs`, and `TransactionsAreAtomic`, the implementation of
  the atomic store: a commit maps to the method, all other steps to stutters.
* **AtomicOperationStore** (same assumption). `StoreInv`: the operation shows the
  status of its job, no job is ever cancelled, and a job that was attempted is in
  the table (failJob would otherwise write to an operation without a job).
  `AtomicStoreReflectsJobs` follows for whoever calls the methods, in any order.
* **JobRunner**. `RunnerInv` adds to the types that a live lease is backed by the
  row (`LeaseIsBacked`: the row is running with the same locked_until, or has an
  outcome), which exclusion needs in order to be inductive: a claim requires an
  expired locked_until. From it `LeaseExclusiveUntilLateFailure` and
  `OutcomesUndoneOnlyByFailure`. Steps that neither claim nor fail are gathered in
  one lemma (`CalmStore`). `AttemptsBoundDispatches` rests on `DispatchInv`: what was
  sent for a job, and the runners that have claimed it and may yet send, are together
  at most its attempts; that set is empty at first, so it stays finite, and a
  claim adds one runner to it and counts one attempt. `RunnersUseTheStore` is the
  step from the callers to the abstract store: each step is one call with valid
  arguments or leaves the tables alone. It assumes that the store is given the
  outcomes the code passes (`StoreTakesOutcomes`: "unsupported" from runDueJobOnce,
  "succeeded", "failed" and "requires_manual_step" from outside), which a run may
  leave out to stay small. Hence `RunnersKeepOperationsInStep` and
  `AnalysisKeepsOperationsInStep`.
* **AgentAnalysis**. With `LocalInv` (a handler past its first query holds a job and
  an outcome) every behaviour is one of `JobRunner`, a lemma that carries the theorems
  above over to the composed system. The one that says most there is
  `AnalysisOutcomesStand`: a handler decides on a row it read some queries before, and
  the outcome that a deadline, a failure or another handler has written since stands,
  because the WHERE clause of completeExternalJob is evaluated when it writes.
  `SuccessAlwaysHasReport` rests on `StoredFirst` (a
  handler about to complete a success has stored its report), on reports never
  being removed, and on `NoNewSuccess`: nothing else makes an analysis succeed.
* **OrganizationMembership**. `HeldOnce` (one transaction holds the row of an
  invitation) and `HeldIsUnused` (what the WHERE clause has found stays true while
  the row is held) are what makes `NoJoinAfterRevocation` and
  `JoiningUsesAnInvitation` inductive: `RevokedLinkIsDead`, `InvitationsAreUsedOnce`.
  `FounderStaysOwner` adds that nobody but the founder is ever an owner, so that
  leaveOrganization never finds a second one.
* **CollectorRunLock** (assumption: every run has a process). `LockKept`: the types,
  and `HoldersKeepTheirLock`, whoever holds the lock owns the file unless it was
  hit. This is what the refinement needs: a run that starts finds only robbed ones,
  because a run that is not robbed owns the one file that could not have been
  created. `LockImplementsSingleFlight` maps `Write`, `Release` and `Remove` step by
  step, and `RunsOverlapOnlyWhenRobbed` draws the conclusion for two runs.
* **CollectorSync**. The steps are steps of `SingleFlight` (`SyncKeepsToTheLock`), so
  runs that overlap are robbed ones. `CachedIsStored` is about the others. Its
  invariant `CacheInv` holds as long as runs have not overlapped: the cache file and
  the copy a run works on are true of every task that is not in `doubt`
  (`CachesTellTheTruth`), what is stored and not yet acknowledged is in doubt
  (`StoredIsInDoubt`), and what a run has stored is shown unless a late request has
  overwritten it (`StoredIsShown`); the last is what lets `Acknowledge` take the tasks
  of its batch out of doubt. `SyncImplementsMirror` needs no exclusion: whoever writes
  the task table, and however late, writes from a listing that was once the device's
  (`ListingsWere`).
* **CollectorUpgrade**. Again `UpgradeKeepsToTheLock`. `FilesAreWhole` is the heart:
  as long as nothing is `torn`, the files are of one version unless a request is in the
  middle of installing them; a backup agrees with the files up to the one that was
  copied last (`HalfBackedUp`); in the middle of an install the files are new up to the
  one it has reached and as they were backed up from there on (`HalfInstalled`); and a
  rollback finds a complete backup or files nobody has touched (`CanRollBack`). With
  `OneThread`, at most one request is in the part without awaits. From it
  `CollectionsFindOneVersion`, for any number of files. `CollectorIsCurrent` (the
  installed collector is not older than the one that ran last, or a job has an old
  backup) and `RequestsAreNewer` give `RestartsAreNeverOlder`, and both together
  `SuccessesAreInstalled`. The exceptions are not there for the proof: TLC finds the
  behaviour of section 7 without them.
* **ControlChannel** (assumption: each socket is of one device). `MapsAgree`
  is inductive with `KnownSocketsAreAttached`. `ProgressIsLostOnlyWithItsSocket` rests on
  `HelloComesFirst`: a socket the channel does not know yet has its hello at the head
  of what is under way and nothing waiting, so that no progress is received before it;
  `UnusedIsEmpty` says so of a socket that is about to be opened, `SentIsUsed` that the
  progress was sent over one that was. The theorem does not say that the backend keeps
  the socket: it closes it over the progress itself in the case of section 7. The theorems are about `Spec`, without fairness and for
  devices with and without a token.
* **InvitedSignIn** (assumption: the invited user is a user). `CodesAreSpent`: a code
  that is not used, or whose login has just consumed it, has opened no session, and
  a consumed code is used. From it `CodesSignInOnce`. `VisitsMailOneCode` counts: the
  codes mailed in a visit and the runs of the effect that still ask for one are
  together at most the failures, and one more while `autoCodeRequestedInviteToken` is
  set (`AskedOnce`); a failure that sets it back ends the run that had it set.
* **NotificationThreads**. `OneTransactionPerKey`: two transactions never hold the
  same thread, and one that inserts finds none committed. From it `ThreadsCounted`
  and, with the fact that a thread's cooldown covers every email that was sent
  under its key, `MailedOncePerCooldown`; `LostBesideATwin` rests on a writer at
  `insert` whose key has since got a thread.
* **DeviceIngestion**. For `RevocationIsFinal` and `TokensVerifyOneDevice` the
  invariant says that a token whose verification is at `bind` is not revoked and has
  no other device, since revocation and verification wait for each other, and
  that a request past it claims the token's device. Which device its snapshot is of,
  the invariant cannot say: the code does not look. `FleetShowsLastSnapshot` adds that
  one transaction is past `UpsertDevice` for a device, and that until it commits the
  agents of the device's runtimes do not change, so that `gone` is still what it
  would be. `OthersCommitOnlyAtBirth`: a transaction that has found a row of its device
  has found its organization there (`OwnersAreKnown`), and an organization is never
  replaced.

Only model-checked is liveness: `EveryJobEnds`, the two
liveness properties of the channel, `AbandonedLockGoes`, `ListedTasksGetThrough`,
`InstalledIsConfirmed`, `EventsEnd`, `DevicesRecover`, `LoadingEnds`. TLAPS does not treat
fairness and ENABLED.

No module that is proved about reaches a RECURSIVE operator; the few folds are
those of the community modules.

## 6. Plan

The modules above were built in the order jobs, channel, membership, collector,
notifications, ingestion, sign-in. What remains, in this order:

1. `AgentAnalysis` with two operations for one target: duplicates of the scheduler.
2. `DeviceConnection`: requests sent through `ControlChannel` composed with
   `JobRunner`, so that a refused request depends on the registry.
3. The execution of an analysis on the device, and the posting of probes.

## 7. Observations

Behaviour seen while modelling that no run states, because no sentence of the
repository forbids it, or because a property already excludes it in its
statement.

Where a document says otherwise:

* A runner claims the upgrade job of an offline device before the request
  completes it with requires_manual_step; the socket refuses, failJob puts the
  finished job back into the queue, and it ends as failed
  (`docs/product/collector-upgrade-spec.md:136`).
* A backend that dies after writing an analysis request to the socket and before
  recording `dispatched` has it sent again before the deadline
  (`docs/product/operation-job-runner-spec.md:141`).
* A job that its deadline, the HTTP answer or a device message ends is never
  announced: the external completion returns before the notification (the same
  document, `:126`). Both job types that are enqueued, upgrades and analyses, end this
  way whenever they do not end in failJob, so no property speaks of announcements.
* With token verification, the `finally` of the message handler
  (`src/backend/backend-server.ts:448-450`) takes `authenticating` back as soon as one
  message was kept. What comes next before the token is verified, the startup progress
  of an upgrade for one, is parsed as a hello and the socket is closed with 1008; the
  collector has recorded its report as sent, and the upgrade is not confirmed
  (`docs/product/collector-upgrade-spec.md:210-213`).
* The token is verified and bound with the device the body names first (`deviceId`, else
  `device.id`), the snapshot is stored for `device.id`, and nobody compares them: a body
  with two different ones stores a snapshot of another device under an occupied token
  (`src/server/runtime-http-api.ts:248`, `:938-947`;
  `docs/product/auth-and-access-spec.md:132`). The collector sends one id only.
* `last_occurred_at` is the time of the event that was committed last
  (`src/notifications/notification-store.ts`, updateThread): an older event whose
  transaction commits later sets it back, and `first_occurred_at` is that of the first
  one committed (`docs/product/notification-spec.md:61`). `ThreadsCountEvents` says so.
* The startup progress of a finished upgrade is recorded as sent when it is
  written; if that connection is dead, the upgrade is never confirmed
  (`docs/product/collector-upgrade-spec.md:210-213`).
* The only owner who accepts an invitation sent to his own address loses his role
  to the upsert, and the organization has no owner
  (`docs/product/auth-and-access-spec.md:69`). `OwnerUntilInvited` excepts this.
* A token is occupied when it is verified, before the report that came with it
  succeeds, and by a report without a device it is bound to "unknown"
  (`docs/product/auth-and-access-spec.md:127` and `:288`).

Jobs, analyses and the channel:

* With two jobs in one operation, two completions at the same time each read the
  other job as unfinished, and the operation stays running. Today each operation
  has one job.
* failJob tests neither status nor lock owner: after a late failure the lock of
  the runner that has reclaimed the job is gone and a third runner may claim it.
  `AtMostOneLeaseholder` is therefore conditional on `lateFail`.
* A running job whose lease has ended is claimed whatever its attempts are.
* A result that overtakes the update of the payload fails its job, because the
  metrics are not there yet.
* A backend that dies between createOperation and enqueueJob leaves a queued
  operation without a job; the scheduler skips its target from then on. The
  scheduler misses an operation that goes back to queued between its two queries.
* The hello of a dead connection that is verified after that of its successor takes
  its place; the late close then removes the entry, and the connected device
  cannot be addressed until it reconnects, since heartbeats do not register.
* A close noticed late marks a connected device offline until its next
  heartbeat; an upgrade requested meanwhile ends as requires_manual_step.

Collector:

* Two runs work at once after one lost its lock: it ran past the age limit, or its
  file was still empty when it was read.
* Two requests to upgrade at a time share the state file: the second overwrites
  `restart_pending`, and the first is never confirmed.
* A crash between two renames leaves files of two versions; once the new collector
  runs, the same request reports success at once, since only its own version is
  compared.
* A backup is kept per job. When a job is dispatched again after another upgrade
  was installed, and fails before it has copied, the rollback restores the old
  backup over the newer version. No report says rolled back: the process that runs
  is newer than its files until it restarts, and a request for its version reports
  success at once. `SuccessMeansInstalled` and `NeverOlder` except it (`OldBackup`).
* A repeated request for a job whose backup exists copies the installed files over it
  one by one. When a copy fails in between, the rollback restores files of two
  versions (`torn`): a job asked for a second time before the process has exited backs
  up the files it has just installed, fails after the first, and puts the second of the
  old version beside it.
* A task whose agent is unknown has its whole batch refused and ends the run: all
  later batches of this and the following runs wait until it is gone.
* A request that lost its connection and arrives after the next run's leaves the
  older content, and the cache stops it from being repaired until the task
  changes. A task whose content returns to the acknowledged one while a post is in
  doubt is not sent.
* The last task of an adapter is never reported as removed.

Ingestion, notifications, accounts:

* `received_at` is the time of BEGIN, so a failure recorded during a longer
  successful report counts as the newer of the two, until the next report. An
  older snapshot that commits last is shown until then, too.
* Two organizations whose first snapshots of a device overlap both write it; the
  first to insert owns it. An agent whose runtime is absent from the snapshot stays
  as it was.
* Of two first events of a key the later insert fails, and its callers ignore
  that: the event and its email to other recipients are lost. Marking a thread as read covers what
  arrives until the statement runs. Nothing sends the emails that are pending.
* A revocation asked for before an invitation is accepted marks the used
  invitation as revoked; the member stays, only the shown status is wrong. A
  failure between the two writes of a resend leaves both links valid.
* A code is consumed before the session exists: a query that fails in between has
  burned it. A code whose mail fails stays valid. Leaving the page while a
  submission is under way does not stop it from joining. When only the acceptance
  fails, the browser has a session that the page does not show.
* `loadDashboard` of the agent dashboard and the pagination of the work board take
  answers in whatever order they arrive.

## 8. Not modelled

* `updateOperationStatus` and `completeCollectorUpgradeFromCollectorVersion` have
  no production caller. Reads, pagination and the catalog have no effect.
* Payload contents, prompts, metrics, messages and the validation of an analysis:
  a validation is a choice between its results. The execution of an analysis on
  the device is the device's choice of messages.
* Skill and schedule probes are single upserts without a decision; creating and
  replacing a device token, renaming an organization and editing a profile are
  single statements.
* Runtime adapters (`scripts/lorume-runtime-adapters.mjs`, `src/runtime`,
  `scripts/profile-openclaw-workdir.mjs`) convert local files of agent runtimes into
  snapshots and share no state with anything; the command line, the installer and
  the deployment scripts are sequential file and service management.
* The pages other than the sign-in gate show what the API answers and keep no
  state that must agree with another.
