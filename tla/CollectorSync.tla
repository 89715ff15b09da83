---- MODULE CollectorSync ----
(***************************************************************************)
(* The collection runs of a device (runOnce) and the backend's task table: *)
(* a run lists the tasks, compares them with the cache of acknowledged     *)
(* task hashes, posts what differs in batches, and after each batch writes *)
(* the cache file. Runs overlap when one is robbed of its lock, end where  *)
(* a request fails, and die anywhere; a request whose connection broke can *)
(* still reach the backend, later than its successors.                     *)
(***************************************************************************)
EXTENDS Naturals, FiniteSets, SingleFlight

CONSTANTS
  Tasks, Contents, Gone,
  KindOf,        \* the adapter that lists each task
  Rank,          \* the order in which tasks are posted: the newest first
  Refused,       \* tasks the backend refuses: their agent is not stored
  BatchMax,      \* taskBatchMaxTasks
  MaxTries,      \* POST_RETRY_DELAYS_MS.length
  MaxChanges, MaxFaults, MaxRobberies    \* bounds

ASSUME SyncAssumption ==
  /\ Gone \notin Contents
  /\ Rank \in [Tasks -> Nat]
  /\ \A s, t \in Tasks : Rank[s] = Rank[t] => s = t
  /\ BatchMax \in Nat \ {0} /\ MaxTries \in Nat \ {0}

VARIABLES
  device, past,  \* what the adapters list, and every listing there has been
  backend,       \* the rows of the table tasks
  cacheFile,     \* task-sync-cache.json: the acknowledged hash of each task
  run,           \* what each run is doing
  late,          \* requests that lost their connection on their way
  doubt,         \* tasks the backend wrote and no run has cached since
  outrun,        \* tasks a late request wrote after the last run that did
  overlapped,    \* some run has been robbed of its lock
  changes, faults, robberies

syncVars == <<device, past, backend, cacheFile, run, late, doubt, outrun, overlapped>>
counters == <<changes, faults, robberies>>
vars == <<flightVars, syncVars, counters>>

Listings == [Tasks -> Contents \union {Gone}]

NoListing == [t \in Tasks |-> Gone]

Rows == [content : Contents \union {Gone}, stale : BOOLEAN]

Steps == {"idle", "collected", "posting", "sent", "stored", "ending"}

\* A run: its step, its listing, its copy of the cache, the tasks it has yet to
\* post, the batch under way and the attempts that batch has had.
Runs ==
  [step : Steps, listing : Listings, cache : Listings,
   todo : SUBSET Tasks, batch : SUBSET Tasks, tries : 0..MaxTries]

AtRest ==
  [step |-> "idle", listing |-> NoListing, cache |-> NoListing,
   todo |-> {}, batch |-> {}, tries |-> 0]

Requests == [tasks : SUBSET Tasks, listing : Listings]

SyncTypeOK ==
  /\ FlightTypeOK
  /\ device \in Listings /\ past \subseteq Listings /\ cacheFile \in Listings
  /\ backend \in [Tasks -> Rows]
  /\ run \in [Actors -> Runs]
  /\ late \subseteq Requests
  /\ doubt \subseteq Tasks /\ outrun \subseteq Tasks
  /\ overlapped \in BOOLEAN
  /\ changes \in Nat /\ faults \in Nat /\ robberies \in Nat

Init ==
  /\ FlightInit
  /\ device = NoListing /\ past = {NoListing}
  /\ backend = [t \in Tasks |-> [content |-> Gone, stale |-> FALSE]]
  /\ cacheFile = NoListing
  /\ run = [a \in Actors |-> AtRest]
  /\ late = {} /\ doubt = {} /\ outrun = {}
  /\ overlapped = FALSE
  /\ changes = 0 /\ faults = 0 /\ robberies = 0

At(a, step) == a \in running /\ run[a].step = step

Goto(a, step) == run' = [run EXCEPT ![a].step = step]

Fault == faults < MaxFaults /\ faults' = faults + 1

-----------------------------------------------------------------------------
(* The device.                                                             *)

DeviceChanges(t, c) ==
  /\ changes < MaxChanges
  /\ device[t] # c
  /\ device' = [device EXCEPT ![t] = c]
  /\ past' = past \union {device'}
  /\ changes' = changes + 1
  /\ UNCHANGED <<flightVars, backend, cacheFile, run, late, doubt, outrun, overlapped,
                 faults, robberies>>

-----------------------------------------------------------------------------
(* A run.                                                                  *)

\* The run has the lock, and the command line tool lists the tasks.
Collect(a) ==
  /\ Start(a)
  /\ run' = [run EXCEPT ![a] = [AtRest EXCEPT !.step = "collected",
                                              !.listing = device]]
  /\ UNCHANGED <<device, past, backend, cacheFile, late, doubt, outrun, overlapped,
                 counters>>

ListedKinds(listing) == {KindOf[t] : t \in {s \in Tasks : listing[s] # Gone}}

\* What postChangedTaskBatches() posts: tasks whose hash differs from the cached
\* one, and cached tasks no longer listed of adapters that list others.
ToPost(listing, cache) ==
  {t \in Tasks : IF listing[t] # Gone THEN cache[t] # listing[t]
                 ELSE cache[t] # Gone /\ KindOf[t] \in ListedKinds(listing)}

\* Snapshot and probes are posted; the cache is read.
Plan(a) ==
  /\ At(a, "collected")
  /\ run' = [run EXCEPT ![a].step = "posting",
                        ![a].cache = cacheFile,
                        ![a].todo = ToPost(run[a].listing, cacheFile)]
  /\ UNCHANGED <<flightVars, device, past, backend, cacheFile, late, doubt,
                 outrun, overlapped, counters>>

\* createRuntimeTaskBatches(): listed tasks by rank, then the removed ones.
FirstBatch(r) ==
  LET listed == {t \in r.todo : r.listing[t] # Gone}
      next == IF listed # {} THEN listed ELSE r.todo
  IN  {t \in next : Cardinality({s \in next : Rank[s] < Rank[t]}) < BatchMax}

Send(a) ==
  /\ At(a, "posting")
  /\ run[a].todo # {}
  /\ run' = [run EXCEPT ![a].step = "sent",
                        ![a].batch = FirstBatch(run[a]),
                        ![a].tries = 1]
  /\ UNCHANGED <<flightVars, device, past, backend, cacheFile, late, doubt,
                 outrun, overlapped, counters>>

\* Bug: a batch is taken for the whole listing.
StoredAsWhole(some, listing) ==
  [t \in Tasks |->
     IF t \in some /\ listing[t] # Gone
     THEN [content |-> listing[t], stale |-> FALSE]
     ELSE [backend[t] EXCEPT !.stale = backend[t].content # Gone]]

\* upsertRuntimeTaskBatch(): one transaction upserts the listed tasks and
\* marks the others as stale.
Stored(some, listing) ==
  [t \in Tasks |->
     IF t \notin some THEN backend[t]
     ELSE IF listing[t] # Gone THEN [content |-> listing[t], stale |-> FALSE]
     ELSE [backend[t] EXCEPT !.stale = backend[t].content # Gone]]

Store(a) ==
  /\ At(a, "sent")
  /\ run[a].batch \intersect Refused = {}
  /\ backend' = Stored(run[a].batch, run[a].listing)
  /\ doubt' = doubt \union run[a].batch
  /\ outrun' = outrun \ run[a].batch
  /\ Goto(a, "stored")
  /\ UNCHANGED <<flightVars, device, past, cacheFile, late, overlapped, counters>>

\* postJsonWithRetry() after a network error or an answer of 500 and above.
Retried(r) ==
  IF r.tries < MaxTries THEN [r EXCEPT !.step = "sent", !.tries = @ + 1]
  ELSE [r EXCEPT !.step = "ending"]

\* A task of an agent without a row violates a foreign key: the transaction
\* fails, and the answer is a 500.
Refuse(a) ==
  /\ At(a, "sent")
  /\ run[a].batch \intersect Refused # {}
  /\ run' = [run EXCEPT ![a] = Retried(run[a])]
  /\ UNCHANGED <<flightVars, device, past, backend, cacheFile, late, doubt,
                 outrun, overlapped, counters>>

\* Bug: the first answer acknowledges everything there was to post.
AcknowledgeAll(a) ==
  LET r == run[a]
      cache == [t \in Tasks |-> IF t \in r.todo THEN r.listing[t] ELSE r.cache[t]]
  IN /\ At(a, "stored")
     /\ cacheFile' = cache
     /\ run' = [run EXCEPT ![a] = [r EXCEPT !.step = "posting", !.cache = cache,
                                            !.todo = @ \ r.batch, !.batch = {},
                                            !.tries = 0]]
     /\ doubt' = doubt \ (r.batch \ outrun)
     /\ UNCHANGED <<flightVars, device, past, backend, late, outrun, overlapped, counters>>

\* applyTaskBatchAck() and writeTaskSyncCache(): the whole copy of the cache,
\* with the acknowledged batch in it, replaces the file.
Acknowledge(a) ==
  LET r == run[a]
      cache == [t \in Tasks |-> IF t \in r.batch THEN r.listing[t] ELSE r.cache[t]]
  IN /\ At(a, "stored")
     /\ cacheFile' = cache
     /\ run' = [run EXCEPT ![a] = [r EXCEPT !.step = "posting", !.cache = cache,
                                            !.todo = @ \ r.batch, !.batch = {},
                                            !.tries = 0]]
     /\ doubt' = doubt \ (r.batch \ outrun)
     /\ UNCHANGED <<flightVars, device, past, backend, late, outrun, overlapped, counters>>

\* The request fails: refused for the moment, lost, or still on its way.
RequestFails(a) ==
  /\ At(a, "sent")
  /\ Fault
  /\ run' = [run EXCEPT ![a] = Retried(run[a])]
  /\ late' \in {late, late \union {[tasks |-> run[a].batch, listing |-> run[a].listing]}}
  /\ UNCHANGED <<flightVars, device, past, backend, cacheFile, doubt, outrun, overlapped,
                 changes, robberies>>

\* The batch is stored and the answer is lost.
AnswerFails(a) ==
  /\ At(a, "stored")
  /\ Fault
  /\ run' = [run EXCEPT ![a] = Retried(run[a])]
  /\ UNCHANGED <<flightVars, device, past, backend, cacheFile, late, doubt,
                 outrun, overlapped, changes, robberies>>

LateArrival(q) ==
  /\ late' = late \ {q}
  /\ \/ /\ q.tasks \intersect Refused = {}
        /\ backend' = Stored(q.tasks, q.listing)
        /\ doubt' = doubt \union q.tasks
        /\ outrun' = outrun \union q.tasks
     \/ /\ q.tasks \intersect Refused # {}
        /\ UNCHANGED <<backend, doubt, outrun>>
  /\ UNCHANGED <<flightVars, device, past, cacheFile, run, overlapped, counters>>

\* The tool times out, or the snapshot or a probe is not accepted.
Fail(a) ==
  /\ At(a, "collected")
  /\ Fault
  /\ Goto(a, "ending")
  /\ UNCHANGED <<flightVars, device, past, backend, cacheFile, late, doubt,
                 outrun, overlapped, changes, robberies>>

\* Bug: a run that failed never reaches the release of its lock.
DoneWell(a) == At(a, "posting") /\ run[a].todo = {}

\* The last batch is acknowledged, or the run has failed.
Done(a) == At(a, "ending") \/ (At(a, "posting") /\ run[a].todo = {})

\* The finally block: releaseCollectorRunLock().
Leaves(a) ==
  /\ Done(a)
  /\ a \notin leaving
  /\ Leave(a)
  /\ UNCHANGED <<syncVars, counters>>

Finish(a) ==
  /\ Done(a)
  /\ a \in leaving \union robbed
  /\ Stop(a)
  /\ overlapped' = (overlapped \/ robbed' # {})
  /\ run' = [run EXCEPT ![a] = AtRest]
  /\ UNCHANGED <<device, past, backend, cacheFile, late, doubt, outrun, counters>>

-----------------------------------------------------------------------------
(* What happens to the runs.                                               *)

\* Another process takes the lock of a run for abandoned.
Robbed(a) ==
  /\ robberies < MaxRobberies
  /\ a \notin robbed
  /\ Rob(a)
  /\ overlapped' = TRUE
  /\ robberies' = robberies + 1
  /\ UNCHANGED <<device, past, backend, cacheFile, run, late, doubt, outrun, changes, faults>>

\* The process of a run is killed; a request under way may still arrive.
Crash(a) ==
  /\ a \in running
  /\ Fault
  /\ Abandon({a})
  /\ run' = [run EXCEPT ![a] = AtRest]
  /\ late' \in {late} \union
       (IF run[a].step = "sent"
        THEN {late \union {[tasks |-> run[a].batch, listing |-> run[a].listing]}}
        ELSE {})
  /\ UNCHANGED <<device, past, backend, cacheFile, doubt, outrun, overlapped, changes,
                 robberies>>

\* The cache file is missing, malformed, or of another registration.
ForgetCache ==
  /\ Fault
  /\ cacheFile' = NoListing
  /\ UNCHANGED <<flightVars, device, past, backend, run, late, doubt, outrun, overlapped,
                 changes, robberies>>

RunStep(a) ==
  \/ Collect(a) \/ Plan(a) \/ Send(a) \/ Store(a) \/ Refuse(a) \/ Acknowledge(a)
  \/ Leaves(a) \/ Finish(a)

Next ==
  \/ \E t \in Tasks, c \in Contents \union {Gone} : DeviceChanges(t, c)
  \/ \E a \in Actors :
       RunStep(a) \/ RequestFails(a) \/ AnswerFails(a) \/ Fail(a) \/ Robbed(a) \/ Crash(a)
  \/ \E q \in late : LateArrival(q)
  \/ ForgetCache

\* Timers start runs again, calls return, and what is on its way arrives.
Spec ==
  /\ Init /\ [][Next]_vars
  /\ \A a \in Actors : WF_vars(RunStep(a))
  /\ WF_vars(\E q \in late : LateArrival(q))

-----------------------------------------------------------------------------
(* What the cache file records of a task is in the backend, unless the     *)
(* backend has written the task since then: it stored a batch whose answer *)
(* was lost or whose run died, or a late request. Batches that are         *)
(* refused, lost or still on their way never make the cache wrong, nor do  *)
(* retries, crashes and partial runs. It takes runs that do not overlap.   *)
CacheTellsTheTruth ==
  overlapped \/
  \A t \in Tasks \ doubt :
    cacheFile[t] # Gone => backend[t] = [content |-> cacheFile[t], stale |-> FALSE]

Unsynced == {t \in Tasks : device[t] # Gone /\ cacheFile[t] # device[t]}

\* A listed task is in the batch of a refused one, or in a later one: the run
\* ends there.
Behind(t) ==
  \E r \in Refused \intersect Unsynced :
    \/ Rank[r] < Rank[t]
    \/ Cardinality({s \in Unsynced : Rank[s] < Rank[r]}) < BatchMax

\* Stored without an acknowledgement that was cached, while the device is back
\* at the content acknowledged before.
Deceived(t) == t \in doubt /\ cacheFile[t] = device[t]

(* When the device and the network calm down, every listed task is shown   *)
(* as it is listed, whatever was lost before, unless the batch of another  *)
(* task is refused before its own, or the backend wrote it unacknowledged  *)
(* and it has returned to the content acknowledged before.                 *)
ListedTasksGetThrough ==
  <>[](\A t \in Tasks :
         device[t] # Gone =>
           backend[t] = [content |-> device[t], stale |-> FALSE]
             \/ overlapped \/ Behind(t) \/ Deceived(t))

-----------------------------------------------------------------------------
Mirror == INSTANCE TaskMirror WITH
            mirror <- [t \in Tasks |-> IF backend[t].stale THEN Gone
                                       ELSE backend[t].content]

(* Batches implement TaskMirror: a batch shows its tasks as they all were  *)
(* when the run listed them, also when it arrives late or twice.           *)
ImplementsMirror == Mirror!MirrorSpec

====
