--------------------------- MODULE CollectorProofs ---------------------------
(***************************************************************************)
(* The collector's lock file implements SingleFlight, for any number of    *)
(* runs and processes: a run that holds the lock owns the file at the lock *)
(* path or has been hit, and not both.  For any number of runs, tasks,     *)
(* contents: as long as runs do not overlap, what the cache file records   *)
(* of a task is in the backend, unless the backend has written the task    *)
(* since and no run has cached it; and whether they overlap or not, every  *)
(* batch shows its tasks as they all were at one moment of the device.     *)
(***************************************************************************)
EXTENDS CollectorRunLock, CollectorSync, TLAPS

(* Without a robbery the runs have not overlapped and will not.            *)
NobodyRobbed == ~overlapped => robbed = {}

(* What a run or a request on its way shows is a listing there has been.   *)
ListingsWere ==
  /\ device \in past /\ NoListing \in past
  /\ \A a \in Actors : run[a].listing \in past
  /\ \A q \in late : q.listing \in past

TypeInv == SyncTypeOK /\ OverlapNeedsRobbery /\ NobodyRobbed /\ ListingsWere

\* The backend shows task t with content c, if c is a content.
Shown(t, c) == c # Gone => backend[t] = [content |-> c, stale |-> FALSE]

Working(a, steps) == a \in running /\ run[a].step \in steps

(* The cache file, and the copy a run works on, tell the truth of every    *)
(* task that is not in doubt.                                              *)
CachesTellTheTruth ==
  \A t \in Tasks \ doubt :
    /\ Shown(t, cacheFile[t])
    /\ \A a \in Actors : Working(a, {"posting", "sent", "stored"}) => Shown(t, run[a].cache[t])

(* What is stored and not yet acknowledged is in doubt.                    *)
StoredIsInDoubt ==
  \A a \in Actors : Working(a, {"stored"}) => run[a].batch \subseteq doubt

(* What a run has stored is in the backend, except what a late request has *)
(* overwritten since.                                                      *)
StoredIsShown ==
  \A a \in Actors : Working(a, {"stored"}) =>
    \A t \in run[a].batch \ outrun : Shown(t, run[a].listing[t])

CacheInv == ~overlapped => CachesTellTheTruth /\ StoredIsInDoubt /\ StoredIsShown

------------------------------------------------------------------------------
(* The lock.                                                               *)

(* Every step takes, loses and releases the lock as SingleFlight allows.   *)
LEMMA FlightSteps == [Next]_vars => [FlightNext]_flightVars
<1> SUFFICES ASSUME [Next]_vars PROVE [FlightNext]_flightVars
  OBVIOUS
<1>1. ASSUME NEW a \in Actors, RunStep(a) PROVE FlightNext \/ UNCHANGED flightVars
  BY <1>1 DEF RunStep, Collect, Plan, Send, Store, Refuse, Acknowledge, Leaves, Finish,
              FlightNext
<1>2. ASSUME NEW a \in Actors, RequestFails(a) \/ AnswerFails(a) \/ Fail(a)
      PROVE  UNCHANGED flightVars
  BY <1>2 DEF RequestFails, AnswerFails, Fail
<1>3. ASSUME NEW a \in Actors, Robbed(a) \/ Crash(a) PROVE FlightNext
  BY <1>3 DEF Robbed, Crash, FlightNext
<1>4. ASSUME NEW t \in Tasks, NEW c \in Contents \union {Gone}, DeviceChanges(t, c)
      PROVE  UNCHANGED flightVars
  BY <1>4 DEF DeviceChanges
<1>5. ASSUME NEW q \in late, LateArrival(q) PROVE UNCHANGED flightVars
  BY <1>5 DEF LateArrival
<1>6. ASSUME ForgetCache \/ UNCHANGED vars PROVE UNCHANGED flightVars
  BY <1>6 DEF ForgetCache, vars, flightVars
<1> QED
  BY <1>1, <1>2, <1>3, <1>4, <1>5, <1>6 DEF Next

(* SingleFlight keeps two runs apart unless one of them is robbed.         *)
LEMMA FlightInvariant ==
  FlightTypeOK /\ OverlapNeedsRobbery /\ [FlightNext]_flightVars
    => FlightTypeOK' /\ OverlapNeedsRobbery'
<1> SUFFICES ASSUME FlightTypeOK, OverlapNeedsRobbery, [FlightNext]_flightVars
             PROVE  FlightTypeOK' /\ OverlapNeedsRobbery'
  OBVIOUS
<1> USE DEF FlightTypeOK, OverlapNeedsRobbery
<1>1. ASSUME NEW a \in Actors, Start(a) PROVE FlightTypeOK' /\ OverlapNeedsRobbery'
  BY <1>1 DEF Start
<1>2. ASSUME NEW a \in Actors, Rob(a) PROVE FlightTypeOK' /\ OverlapNeedsRobbery'
  BY <1>2 DEF Rob
<1>3. ASSUME NEW a \in Actors, Leave(a) PROVE FlightTypeOK' /\ OverlapNeedsRobbery'
  BY <1>3 DEF Leave
<1>4. ASSUME NEW a \in Actors, Stop(a) PROVE FlightTypeOK' /\ OverlapNeedsRobbery'
  BY <1>4 DEF Stop
<1>5. ASSUME NEW gone \in SUBSET Actors, Abandon(gone)
      PROVE  FlightTypeOK' /\ OverlapNeedsRobbery'
  BY <1>5 DEF Abandon
<1>6. CASE UNCHANGED flightVars
  BY <1>6 DEF flightVars
<1> QED
  BY <1>1, <1>2, <1>3, <1>4, <1>5, <1>6 DEF FlightNext

------------------------------------------------------------------------------
(* Types and listings.                                                     *)

(* A batch is some of the tasks the run has yet to post.                   *)
LEMMA BatchType == \A r \in Runs : FirstBatch(r) \subseteq r.todo
BY DEF FirstBatch, Runs

LEMMA StoredType ==
  ASSUME SyncTypeOK, NEW some \in SUBSET Tasks, NEW listing \in Listings
  PROVE  Stored(some, listing) \in [Tasks -> Rows]
BY ZenonT(60) DEF SyncTypeOK, Stored, Listings, Rows

LEMMA RetriedType ==
  ASSUME NEW r \in Runs
  PROVE  /\ Retried(r) \in Runs
         /\ Retried(r).step \in {"sent", "ending"}
         /\ Retried(r).listing = r.listing /\ Retried(r).cache = r.cache
         /\ Retried(r).batch = r.batch
<1>1. CASE r.tries < MaxTries
  <2>1. r.tries + 1 \in 0..MaxTries
    BY <1>1, SyncAssumption DEF Runs
  <2> QED
    BY <1>1, <2>1 DEF Retried, Runs, Steps
<1>2. CASE ~(r.tries < MaxTries)
  BY <1>2 DEF Retried, Runs, Steps
<1> QED
  BY <1>1, <1>2

LEMMA RestType == AtRest \in Runs /\ NoListing \in Listings
BY SyncAssumption DEF AtRest, Runs, Steps, NoListing, Listings

LEMMA TypeInit == Init => TypeInv
<1> SUFFICES ASSUME Init PROVE TypeInv
  OBVIOUS
<1>1. SyncTypeOK
  BY RestType DEF Init, FlightInit, FlightTypeOK, SyncTypeOK, Rows, Requests
<1>2. OverlapNeedsRobbery /\ NobodyRobbed
  BY DEF Init, FlightInit, OverlapNeedsRobbery, NobodyRobbed
<1>3. ListingsWere
  BY DEF Init, ListingsWere, AtRest
<1> QED
  BY <1>1, <1>2, <1>3 DEF TypeInv

LEMMA TypeStep == TypeInv /\ [Next]_vars => TypeInv'
<1> SUFFICES ASSUME TypeInv, [Next]_vars PROVE TypeInv'
  OBVIOUS
<1> DEFINE Rest == SyncTypeOK' /\ NobodyRobbed' /\ ListingsWere'
<1>0. FlightTypeOK' /\ OverlapNeedsRobbery'
  BY FlightSteps, FlightInvariant DEF TypeInv, SyncTypeOK
<1> USE DEF TypeInv, SyncTypeOK, NobodyRobbed, ListingsWere, counters
<1>1. ASSUME NEW t \in Tasks, NEW c \in Contents \union {Gone}, DeviceChanges(t, c)
      PROVE  Rest
  <2>1. device' \in Listings
    BY <1>1 DEF DeviceChanges, Listings
  <2>2. past' = past \union {device'} /\ changes' \in Nat
    BY <1>1 DEF DeviceChanges
  <2>3. UNCHANGED <<flightVars, backend, cacheFile, run, late, doubt, outrun, overlapped,
                    faults, robberies>>
    BY <1>1 DEF DeviceChanges
  <2> QED
    BY <1>0, <2>1, <2>2, <2>3 DEF flightVars
<1>2. ASSUME NEW a \in Actors, Collect(a) PROVE Rest
  <2>1. [AtRest EXCEPT !.step = "collected", !.listing = device] \in Runs
    BY RestType DEF AtRest, Runs, Steps
  <2>2. run' \in [Actors -> Runs] /\ \A b \in Actors : run'[b].listing \in past
    <3> DEFINE r == [AtRest EXCEPT !.step = "collected", !.listing = device]
    <3>1. run' = [run EXCEPT ![a] = r] /\ r \in Runs /\ r.listing = device
      BY <1>2, <2>1 DEF Collect, AtRest
    <3> HIDE DEF r
    <3> QED
      BY <3>1
  <2> QED
    BY <1>0, <1>2, <2>2 DEF Collect, Start
<1>3. ASSUME NEW a \in Actors, Plan(a) PROVE Rest
  <2>1. ToPost(run[a].listing, cacheFile) \in SUBSET Tasks
    BY DEF ToPost
  <2> DEFINE r == [run[a] EXCEPT !.step = "posting", !.cache = cacheFile,
                                 !.todo = ToPost(run[a].listing, cacheFile)]
  <2>2. run' = [run EXCEPT ![a] = r]
    BY <1>3 DEF Plan
  <2>3. r \in Runs /\ r.listing = run[a].listing
    BY <2>1 DEF Runs, Steps
  <2> HIDE DEF r
  <2>4. run' \in [Actors -> Runs] /\ \A b \in Actors : run'[b].listing \in past
    BY <2>2, <2>3
  <2> QED
    BY <1>0, <1>3, <2>4 DEF Plan, flightVars
<1>4. ASSUME NEW a \in Actors, Send(a) PROVE Rest
  <2>1. FirstBatch(run[a]) \in SUBSET Tasks
    BY BatchType DEF Runs
  <2>2. 1 \in 0..MaxTries
    BY SyncAssumption
  <2> DEFINE r == [run[a] EXCEPT !.step = "sent", !.batch = FirstBatch(run[a]),
                                 !.tries = 1]
  <2>3. run' = [run EXCEPT ![a] = r]
    BY <1>4 DEF Send
  <2>4. r \in Runs /\ r.listing = run[a].listing
    BY <2>1, <2>2 DEF Runs, Steps
  <2> HIDE DEF r
  <2>5. run' \in [Actors -> Runs] /\ \A b \in Actors : run'[b].listing \in past
    BY <2>3, <2>4
  <2> QED
    BY <1>0, <1>4, <2>1, <2>5 DEF Send, flightVars
<1>5. ASSUME NEW a \in Actors, Store(a) PROVE Rest
  <2>1. backend' \in [Tasks -> Rows]
    BY <1>5, StoredType DEF Store, Runs
  <2>2. run' \in [Actors -> Runs] /\ \A b \in Actors : run'[b].listing \in past
    BY <1>5 DEF Store, Goto, Runs, Steps
  <2>3. doubt' \subseteq Tasks /\ outrun' \subseteq Tasks
    BY <1>5 DEF Store, Runs
  <2>4. UNCHANGED <<flightVars, device, past, cacheFile, late, overlapped, counters>>
    BY <1>5 DEF Store
  <2> QED
    BY <1>0, <2>1, <2>2, <2>3, <2>4 DEF flightVars
<1>6. ASSUME NEW a \in Actors, Refuse(a) PROVE Rest
  <2>1. run' \in [Actors -> Runs] /\ \A b \in Actors : run'[b].listing \in past
    BY <1>6, RetriedType DEF Refuse
  <2> QED
    BY <1>0, <1>6, <2>1 DEF Refuse, flightVars
<1>7. ASSUME NEW a \in Actors, Acknowledge(a) PROVE Rest
  <2> DEFINE cache == [t \in Tasks |-> IF t \in run[a].batch THEN run[a].listing[t]
                                       ELSE run[a].cache[t]]
  <2>1. cache \in Listings
    BY DEF Runs, Listings
  <2>2. 0 \in 0..MaxTries
    BY SyncAssumption
  <2>3. run' = [run EXCEPT ![a] =
                  [run[a] EXCEPT !.step = "posting", !.cache = cache,
                                 !.todo = run[a].todo \ run[a].batch, !.batch = {},
                                 !.tries = 0]]
    BY <1>7 DEF Acknowledge
  <2>4. run' \in [Actors -> Runs] /\ \A b \in Actors : run'[b].listing \in past
    BY <2>1, <2>2, <2>3, ZenonT(60) DEF Runs, Steps
  <2>5. cacheFile' \in Listings /\ doubt' \subseteq Tasks
    BY <1>7, <2>1 DEF Acknowledge
  <2> QED
    BY <1>0, <1>7, <2>4, <2>5 DEF Acknowledge, flightVars
<1>8. ASSUME NEW a \in Actors, RequestFails(a) PROVE Rest
  <2>1. [tasks |-> run[a].batch, listing |-> run[a].listing] \in Requests
    BY DEF Runs, Requests
  <2>2. run' \in [Actors -> Runs] /\ \A b \in Actors : run'[b].listing \in past
    BY <1>8, RetriedType DEF RequestFails
  <2>3. late' \subseteq Requests /\ \A q \in late' : q.listing \in past
    BY <1>8, <2>1 DEF RequestFails
  <2> QED
    BY <1>0, <1>8, <2>2, <2>3 DEF RequestFails, Fault, flightVars
<1>9. ASSUME NEW a \in Actors, AnswerFails(a) PROVE Rest
  <2>1. run' \in [Actors -> Runs] /\ \A b \in Actors : run'[b].listing \in past
    BY <1>9, RetriedType DEF AnswerFails
  <2> QED
    BY <1>0, <1>9, <2>1 DEF AnswerFails, Fault, flightVars
<1>10. ASSUME NEW q \in late, LateArrival(q) PROVE Rest
  <2>1. q.tasks \in SUBSET Tasks /\ q.listing \in Listings
    BY DEF Requests
  <2>2. backend' \in [Tasks -> Rows]
    <3>1. backend' = Stored(q.tasks, q.listing) \/ backend' = backend
      BY <1>10 DEF LateArrival
    <3>2. Stored(q.tasks, q.listing) \in [Tasks -> Rows] /\ backend \in [Tasks -> Rows]
      BY <2>1, StoredType
    <3> QED
      BY <3>1, <3>2
  <2>3. doubt' \subseteq Tasks /\ outrun' \subseteq Tasks
    BY <1>10, <2>1 DEF LateArrival
  <2>5. late' \subseteq Requests /\ \A p \in late' : p.listing \in past
    BY <1>10 DEF LateArrival
  <2>4. UNCHANGED <<flightVars, device, past, cacheFile, run, overlapped, counters>>
    BY <1>10 DEF LateArrival
  <2> QED
    BY <1>0, <2>2, <2>3, <2>4, <2>5 DEF flightVars
<1>11. ASSUME NEW a \in Actors, Fail(a) PROVE Rest
  <2>1. run' \in [Actors -> Runs] /\ \A b \in Actors : run'[b].listing \in past
    BY <1>11 DEF Fail, Goto, Runs, Steps
  <2> QED
    BY <1>0, <1>11, <2>1 DEF Fail, Fault, flightVars
<1>12. ASSUME NEW a \in Actors, Leaves(a) PROVE Rest
  BY <1>0, <1>12 DEF Leaves, Leave, syncVars
<1>13. ASSUME NEW a \in Actors, Finish(a) PROVE Rest
  <2>1. run' \in [Actors -> Runs] /\ \A b \in Actors : run'[b].listing \in past
    BY <1>13, RestType DEF Finish, AtRest
  <2>2. overlapped' \in BOOLEAN /\ (~overlapped' => robbed' = {})
    BY <1>13 DEF Finish
  <2> QED
    BY <1>0, <1>13, <2>1, <2>2 DEF Finish
<1>14. ASSUME NEW a \in Actors, Robbed(a) PROVE Rest
  BY <1>0, <1>14 DEF Robbed
<1>15. ASSUME NEW a \in Actors, Crash(a) PROVE Rest
  <2>1. [tasks |-> run[a].batch, listing |-> run[a].listing] \in Requests
    BY DEF Runs, Requests
  <2>2. late' \subseteq Requests /\ \A q \in late' : q.listing \in past
    BY <1>15, <2>1 DEF Crash
  <2>3. run' \in [Actors -> Runs] /\ \A b \in Actors : run'[b].listing \in past
    BY <1>15, RestType DEF Crash, AtRest
  <2> QED
    BY <1>0, <1>15, <2>2, <2>3 DEF Crash, Abandon, Fault
<1>16. CASE ForgetCache
  BY <1>0, <1>16, RestType DEF ForgetCache, Fault, flightVars
<1>17. CASE UNCHANGED vars
  BY <1>0, <1>17 DEF vars, flightVars, syncVars
<1>18. Rest
  BY <1>1, <1>2, <1>3, <1>4, <1>5, <1>6, <1>7, <1>8, <1>9, <1>10, <1>11, <1>12, <1>13,
     <1>14, <1>15, <1>16, <1>17 DEF Next, RunStep
<1> QED
  BY <1>0, <1>18

------------------------------------------------------------------------------
(* The cache.                                                              *)

(* Runs that do not overlap are one at a time.                             *)
LEMMA OneAtATime ==
  ASSUME TypeInv, ~overlapped
  PROVE  \A a, b \in running : a = b
BY DEF TypeInv, NobodyRobbed, OverlapNeedsRobbery

LEMMA CacheInit == Init => CacheInv
BY DEF Init, FlightInit, CacheInv, CachesTellTheTruth, StoredIsInDoubt, StoredIsShown,
       Shown, Working, NoListing

\* The steps that touch what the invariant is about.
SyncStep ==
  \/ \E a \in Actors :
       \/ Plan(a) \/ Send(a) \/ Store(a) \/ Refuse(a) \/ Acknowledge(a) \/ RequestFails(a)
       \/ AnswerFails(a) \/ Crash(a)
  \/ \E q \in late : LateArrival(q)
  \/ ForgetCache

\* Any other step at most ends the working part of some runs.
Calm ==
  /\ UNCHANGED <<backend, cacheFile, late, doubt, outrun>>
  /\ overlapped => overlapped'
  /\ \A a \in Actors :
       Working(a, {"posting", "sent", "stored"})'
         => Working(a, {"posting", "sent", "stored"}) /\ run'[a] = run[a]

LEMMA OtherSteps == TypeInv /\ [Next]_vars => SyncStep \/ Calm
<1> SUFFICES ASSUME TypeInv, [Next]_vars, ~SyncStep PROVE Calm
  OBVIOUS
<1> USE DEF TypeInv, SyncTypeOK, FlightTypeOK, Calm, Working
<1>1. ASSUME NEW a \in Actors, Collect(a) PROVE Calm
  <2>1. run'[a].step = "collected" /\ \A b \in Actors : b # a => run'[b] = run[b]
    BY <1>1 DEF Collect, AtRest
  <2>2. running' = running \union {a}
    BY <1>1 DEF Collect, Start
  <2>3. UNCHANGED <<backend, cacheFile, late, doubt, outrun, overlapped>>
    BY <1>1 DEF Collect
  <2> QED
    BY <2>1, <2>2, <2>3
<1>2. ASSUME NEW a \in Actors, Fail(a) PROVE Calm
  <2>1. run'[a].step = "ending" /\ \A b \in Actors : b # a => run'[b] = run[b]
    BY <1>2 DEF Fail, Goto, Runs
  <2>2. UNCHANGED <<running, backend, cacheFile, late, doubt, outrun, overlapped>>
    BY <1>2 DEF Fail, flightVars
  <2> QED
    BY <2>1, <2>2
<1>3. ASSUME NEW a \in Actors, Leaves(a) PROVE Calm
  BY <1>3 DEF Leaves, Leave, syncVars
<1>4. ASSUME NEW a \in Actors, Finish(a) PROVE Calm
  BY <1>4 DEF Finish, Stop, AtRest
<1>5. ASSUME NEW a \in Actors, Robbed(a) PROVE Calm
  BY <1>5 DEF Robbed, Rob
<1>6. ASSUME NEW t \in Tasks, NEW c \in Contents \union {Gone}, DeviceChanges(t, c)
      PROVE  Calm
  BY <1>6 DEF DeviceChanges, flightVars
<1>7. CASE UNCHANGED vars
  BY <1>7 DEF vars, flightVars, syncVars
<1> QED
  BY <1>1, <1>2, <1>3, <1>4, <1>5, <1>6, <1>7 DEF Next, RunStep, SyncStep

LEMMA CacheStep == TypeInv /\ CacheInv /\ [Next]_vars => CacheInv'
<1> SUFFICES ASSUME TypeInv, CacheInv, [Next]_vars, ~overlapped' PROVE CacheInv'
  BY DEF CacheInv
<1>0. SyncTypeOK /\ FlightTypeOK /\ run \in [Actors -> Runs]
  BY DEF TypeInv, SyncTypeOK
<1> DEFINE Old == CachesTellTheTruth /\ StoredIsInDoubt /\ StoredIsShown
           New == CachesTellTheTruth' /\ StoredIsInDoubt' /\ StoredIsShown'
<1>1. ASSUME overlapped' = overlapped
      PROVE  Old /\ \A a, b \in running : a = b
  BY <1>1, OneAtATime DEF CacheInv
<1> USE DEF CachesTellTheTruth, StoredIsInDoubt, StoredIsShown, Shown, Working
<1>2. CASE Calm
  <2>1. ~overlapped /\ Old
    BY <1>2 DEF Calm, CacheInv
  <2> QED
    BY <1>2, <2>1 DEF Calm, CacheInv
<1>3. ASSUME NEW a \in Actors, Plan(a) PROVE New
  <2>1. Old /\ (\A b \in running : b = a) /\ running' = running
    BY <1>1, <1>3 DEF Plan, At, flightVars
  <2>2. run'[a].step = "posting" /\ run'[a].cache = cacheFile
    BY <1>0, <1>3 DEF Plan, Runs
  <2>3. UNCHANGED <<backend, cacheFile, late, doubt, outrun>>
    BY <1>3 DEF Plan
  <2> QED
    BY <2>1, <2>2, <2>3
<1>4. ASSUME NEW a \in Actors, Send(a) PROVE New
  <2>1. Old /\ (\A b \in running : b = a) /\ a \in running /\ running' = running
    BY <1>1, <1>4 DEF Send, At, flightVars
  <2>2. /\ run'[a].step = "sent" /\ run'[a].cache = run[a].cache
        /\ run'[a].batch = FirstBatch(run[a]) /\ run[a].step = "posting"
    BY <1>0, <1>4 DEF Send, Runs, At
  <2>3. UNCHANGED <<backend, cacheFile, late, doubt, outrun>>
    BY <1>4 DEF Send
  <2> QED
    BY <2>1, <2>2, <2>3
<1>5. ASSUME NEW a \in Actors, Store(a) PROVE New
  <2>1. /\ Old /\ \A b \in running : b = a
        /\ a \in running /\ running' = running /\ run[a].step = "sent"
    BY <1>1, <1>5 DEF Store, At, flightVars
  <2>2. /\ run'[a].step = "stored" /\ run'[a].cache = run[a].cache
        /\ run'[a].batch = run[a].batch /\ run'[a].listing = run[a].listing
    BY <1>0, <1>5 DEF Store, Goto, Runs
  <2>3. /\ backend' = Stored(run[a].batch, run[a].listing)
        /\ doubt' = doubt \union run[a].batch
        /\ UNCHANGED <<cacheFile, late>>
    BY <1>5 DEF Store
  <2>4. run[a].batch \subseteq Tasks
    BY <1>0 DEF Runs
  <2>5. \A t \in Tasks \ doubt' : backend'[t] = backend[t]
    BY <2>3 DEF Stored
  <2>6. \A t \in run[a].batch : Shown(t, run[a].listing[t])'
    BY <2>2, <2>3, <2>4 DEF Stored
  <2> QED
    BY <2>1, <2>2, <2>3, <2>4, <2>5, <2>6
<1>6. ASSUME NEW a \in Actors, Acknowledge(a) PROVE New
  <2>1. /\ Old /\ \A b \in running : b = a
        /\ a \in running /\ running' = running /\ run[a].step = "stored"
    BY <1>1, <1>6 DEF Acknowledge, At, flightVars
  <2> DEFINE cache == [t \in Tasks |-> IF t \in run[a].batch THEN run[a].listing[t]
                                       ELSE run[a].cache[t]]
  <2>2. /\ run'[a].step = "posting" /\ run'[a].cache = cache /\ cacheFile' = cache
        /\ doubt' = doubt \ (run[a].batch \ outrun)
        /\ UNCHANGED <<backend, late, outrun>>
    BY <1>0, <1>6 DEF Acknowledge, Runs
  <2>3. \A t \in Tasks \ doubt' : Shown(t, cache[t])
    BY <2>1, <2>2, ZenonT(60)
  <2> HIDE DEF cache
  <2> QED
    BY <2>1, <2>2, <2>3
<1>7. ASSUME NEW a \in Actors, RequestFails(a) \/ Refuse(a) PROVE New
  <2>1. /\ Old /\ \A b \in running : b = a
        /\ a \in running /\ running' = running /\ run[a].step = "sent"
    BY <1>1, <1>7 DEF RequestFails, Refuse, At, flightVars
  <2>2. /\ run'[a].step \in {"sent", "ending"} /\ run'[a].cache = run[a].cache
        /\ run'[a].batch = run[a].batch
    BY <1>0, <1>7, RetriedType DEF RequestFails, Refuse
  <2>3. UNCHANGED <<backend, cacheFile, doubt, outrun>>
    BY <1>7 DEF RequestFails, Refuse
  <2> QED
    BY <2>1, <2>2, <2>3
<1>8. ASSUME NEW a \in Actors, AnswerFails(a) PROVE New
  <2>1. /\ Old /\ \A b \in running : b = a
        /\ a \in running /\ running' = running /\ run[a].step = "stored"
    BY <1>1, <1>8 DEF AnswerFails, At, flightVars
  <2>2. /\ run'[a].step \in {"sent", "ending"} /\ run'[a].cache = run[a].cache
        /\ run'[a].batch = run[a].batch
    BY <1>0, <1>8, RetriedType DEF AnswerFails
  <2> QED
    BY <1>8, <2>1, <2>2 DEF AnswerFails
<1>9. ASSUME NEW a \in Actors, Crash(a) PROVE New
  <2>1. Old /\ (\A b \in running : b = a) /\ running' = running \ {a} /\ a \in running
    BY <1>1, <1>9 DEF Crash, Abandon
  <2>2. running' = {}
    BY <2>1
  <2>3. UNCHANGED <<backend, cacheFile, doubt, outrun>>
    BY <1>9 DEF Crash
  <2> QED
    BY <2>1, <2>2, <2>3
<1>10. ASSUME NEW q \in late, LateArrival(q) PROVE New
  <2>1. Old /\ running' = running
    BY <1>1, <1>10 DEF LateArrival, flightVars
  <2>2. /\ doubt \subseteq doubt' /\ outrun \subseteq outrun'
        /\ UNCHANGED <<cacheFile, run>>
    BY <1>10 DEF LateArrival
  <2>3. \A t \in Tasks :
          backend'[t] = backend[t] \/ (t \in doubt' /\ t \in outrun')
    BY <1>10 DEF LateArrival, Stored
  <2>4. \A b \in Actors : run[b].batch \subseteq Tasks
    BY <1>0 DEF Runs
  <2> QED
    BY <2>1, <2>2, <2>3, <2>4
<1>11. CASE ForgetCache
  <2>1. Old
    BY <1>1, <1>11 DEF ForgetCache
  <2>2. /\ \A t \in Tasks : cacheFile'[t] = Gone
        /\ UNCHANGED <<running, run, backend, late, doubt, outrun>>
    BY <1>11 DEF ForgetCache, NoListing, flightVars
  <2> QED
    BY <1>11, <2>1, <2>2 DEF CacheInv
<1> QED
  BY <1>2, <1>3, <1>4, <1>5, <1>6, <1>7, <1>8, <1>9, <1>10, <1>11, OtherSteps
  DEF SyncStep, CacheInv

------------------------------------------------------------------------------
SyncInv == TypeInv /\ CacheInv

LEMMA SyncInvHolds == Spec => []SyncInv
<1>1. Init => SyncInv
  BY TypeInit, CacheInit DEF SyncInv
<1>2. SyncInv /\ [Next]_vars => SyncInv'
  BY TypeStep, CacheStep DEF SyncInv
<1> QED
  BY <1>1, <1>2, PTL DEF Spec

(* Collection runs take, keep and lose the lock only as SingleFlight does:  *)
(* what holds of the abstract lock holds of them, too.                     *)
THEOREM SyncKeepsToTheLock == Spec => FlightSpec
<1>1. Init => FlightInit
  BY DEF Init
<1> QED
  BY <1>1, FlightSteps, PTL DEF Spec, FlightSpec

(* The state of runs, requests and tables is well typed.                   *)
THEOREM SyncTypeCorrect == Spec => []SyncTypeOK
<1>1. SyncInv => SyncTypeOK
  BY DEF SyncInv, TypeInv
<1> QED
  BY <1>1, SyncInvHolds, PTL

(* As long as runs do not overlap, what the cache file records of a task   *)
(* is in the backend, unless the backend has written the task since then   *)
(* and no run has cached it: partial runs, refused or lost batches, and    *)
(* crashes never make the cache wrong.                                     *)
THEOREM CachedIsStored == Spec => []CacheTellsTheTruth
<1>1. SyncInv => CacheTellsTheTruth
  BY DEF SyncInv, CacheInv, CachesTellTheTruth, Shown, CacheTellsTheTruth
<1> QED
  BY <1>1, SyncInvHolds, PTL

------------------------------------------------------------------------------
(* The mirror.                                                             *)

\* What the backend shows of the tasks.
Mirrored == [t \in Tasks |-> IF backend[t].stale THEN Gone ELSE backend[t].content]

(* Storing a batch shows its tasks as they were listed, and no others.     *)
LEMMA StoringMirrors ==
  ASSUME SyncTypeOK, NEW some \in SUBSET Tasks, NEW listing \in Listings,
         backend' = Stored(some, listing)
  PROVE  Mirrored' = [t \in Tasks |-> IF t \in some THEN listing[t] ELSE Mirrored[t]]
BY DEF SyncTypeOK, Stored, Mirrored, Rows

LEMMA MirrorStep == TypeInv /\ [Next]_vars => [Mirror!MirrorNext]_(Mirror!mirrorVars)
<1> SUFFICES ASSUME TypeInv, [Next]_vars
             PROVE  [Mirror!MirrorNext]_(Mirror!mirrorVars)
  OBVIOUS
<1>0. SyncTypeOK /\ run \in [Actors -> Runs] /\ late \subseteq Requests
  BY DEF TypeInv, SyncTypeOK
<1>1. ASSUME NEW some \in SUBSET Tasks, NEW listing \in Listings, listing \in past,
             backend' = Stored(some, listing), UNCHANGED <<device, past>>
      PROVE  Mirror!MirrorNext
  <2>1. Mirror!Report(some, listing)
    BY <1>0, <1>1, StoringMirrors DEF Mirrored, Mirror!Report
  <2> QED
    BY <1>1, <2>1 DEF Mirror!MirrorNext
<1>2. ASSUME UNCHANGED <<device, past, backend>> PROVE UNCHANGED Mirror!mirrorVars
  BY <1>2 DEF Mirror!mirrorVars
<1>3. ASSUME NEW a \in Actors, Store(a) PROVE Mirror!MirrorNext
  BY <1>0, <1>1, <1>3 DEF Store, Runs, TypeInv, ListingsWere
<1>4. ASSUME NEW q \in late, LateArrival(q)
      PROVE  Mirror!MirrorNext \/ UNCHANGED Mirror!mirrorVars
  <2>1. q.tasks \in SUBSET Tasks /\ q.listing \in Listings /\ q.listing \in past
    BY <1>0 DEF Requests, TypeInv, ListingsWere
  <2> QED
    BY <1>1, <1>2, <1>4, <2>1 DEF LateArrival
<1>5. ASSUME NEW t \in Tasks, NEW c \in Contents \union {Gone}, DeviceChanges(t, c)
      PROVE  Mirror!MirrorNext
  <2>1. Mirror!Change(t, c)
    BY <1>5 DEF DeviceChanges, Mirror!Change
  <2> QED
    BY <2>1 DEF Mirror!MirrorNext
<1>6. ASSUME NEW a \in Actors, RunStep(a), ~Store(a)
      PROVE  UNCHANGED <<device, past, backend>>
  BY <1>6 DEF RunStep, Collect, Plan, Send, Refuse, Acknowledge, Leaves, Finish, syncVars
<1>7. ASSUME NEW a \in Actors,
             \/ RequestFails(a) \/ AnswerFails(a) \/ Fail(a) \/ Robbed(a) \/ Crash(a)
      PROVE  UNCHANGED <<device, past, backend>>
  BY <1>7 DEF RequestFails, AnswerFails, Fail, Robbed, Crash
<1>8. ASSUME ForgetCache \/ UNCHANGED vars PROVE UNCHANGED <<device, past, backend>>
  BY <1>8 DEF ForgetCache, vars, syncVars
<1> QED
  BY <1>2, <1>3, <1>4, <1>5, <1>6, <1>7, <1>8 DEF Next

(* Overlapping, late, repeated and lost batches included: every change of  *)
(* the task table shows some tasks as they all were at one moment.         *)
THEOREM SyncImplementsMirror == Spec => ImplementsMirror
<1>1. Init => Mirror!MirrorInit
  BY DEF Init, NoListing, Mirror!MirrorInit
<1>2. SyncInv => TypeInv
  BY DEF SyncInv
<1> QED
  BY <1>1, <1>2, MirrorStep, SyncInvHolds, PTL DEF Spec, ImplementsMirror, Mirror!MirrorSpec

------------------------------------------------------------------------------
(* The lock file.                                                          *)

OnlyHoldersAreHit == hit \subseteq Held

HitRunsOwnNothing == \A a \in hit : ~Owns(a)

LockInv ==
  LockTypeOK /\ HoldersKeepTheirLock /\ OnlyHoldersAreHit /\ HitRunsOwnNothing

USE ProcessOfAssumption DEF NoFile

(* The lock path is free, no run holds the lock, in the initial state.     *)
LEMMA LockInitInv == LockInit => LockInv
BY DEF LockInit, LockInv, LockTypeOK, HoldersKeepTheirLock, OnlyHoldersAreHit,
       HitRunsOwnNothing, Held, Holding, Phases

(* Every step of the lock protocol preserves the invariant.                *)
LEMMA LockStepInv == LockInv /\ [LockNext]_lockVars => LockInv'
<1> SUFFICES ASSUME LockInv, [LockNext]_lockVars PROVE LockInv'
  OBVIOUS
<1> USE DEF LockInv, LockTypeOK, HoldersKeepTheirLock, OnlyHoldersAreHit,
            HitRunsOwnNothing, Held,
            Holding, Phases, LockFiles, Owns, GoTo, MayCall
<1>1. ASSUME NEW a \in Contenders, Begin(a) PROVE LockInv'
  BY <1>1 DEF Begin
<1>2. ASSUME NEW a \in Contenders, Create(a) PROVE LockInv'
  BY <1>2 DEF Create
<1>3. ASSUME NEW a \in Contenders, CreateExists(a) PROVE LockInv'
  BY <1>3 DEF CreateExists
<1>4. ASSUME NEW a \in Contenders, Write(a) PROVE LockInv'
  BY <1>4 DEF Write
<1>5. ASSUME NEW a \in Contenders, Judge(a) PROVE LockInv'
  BY <1>5 DEF Judge
<1>6. ASSUME NEW a \in Contenders, Reclaim(a) PROVE LockInv'
  BY <1>6 DEF Reclaim, Losing
<1>7. ASSUME NEW a \in Contenders, Release(a) PROVE LockInv'
  BY <1>7 DEF Release
<1>8. ASSUME NEW a \in Contenders, Remove(a) PROVE LockInv'
  BY <1>8 DEF Remove, Losing
<1>9. CASE GrowStale
  BY <1>9 DEF GrowStale
<1>10. ASSUME NEW p \in Processes, ProcessEnds(p) PROVE LockInv'
  BY <1>10 DEF ProcessEnds, RunsOf
<1>11. CASE UNCHANGED lockVars
  BY <1>11 DEF lockVars
<1> QED
  BY <1>1, <1>2, <1>3, <1>4, <1>5, <1>6, <1>7, <1>8, <1>9, <1>10, <1>11
  DEF LockNext, Step

(* A run that created the lock owns the lock path until it releases it,    *)
(* unless another run removed its file.                                    *)
THEOREM LockKept == LockSpec => [](LockTypeOK /\ HoldersKeepTheirLock)
<1>1. LockInv => LockTypeOK /\ HoldersKeepTheirLock
  BY DEF LockInv
<1> QED
  BY LockInitInv, LockStepInv, <1>1, PTL DEF LockSpec

(* The mapped initial state is SingleFlight's.                             *)
LEMMA LockInitRefines == LockInit => Flight!FlightInit
BY DEF LockInit, Flight!FlightInit, Held, Holding

(* Every step of the lock protocol is a step of SingleFlight, or none.     *)
LEMMA LockStepRefines ==
  LockInv /\ [LockNext]_lockVars => [Flight!FlightNext]_(Flight!flightVars)
<1> SUFFICES ASSUME LockInv, [LockNext]_lockVars
             PROVE  [Flight!FlightNext]_(Flight!flightVars)
  OBVIOUS
<1> DEFINE Leaving == {a \in Contenders : phase[a] = "remove"}
<1> USE DEF LockInv, LockTypeOK, HoldersKeepTheirLock, OnlyHoldersAreHit,
            HitRunsOwnNothing, Held,
            Holding, Phases, LockFiles, Owns, GoTo, MayCall, Flight!flightVars
<1>1. ASSUME NEW a \in Contenders, Begin(a) \/ CreateExists(a) \/ Write(a) \/ Judge(a)
      PROVE  UNCHANGED Flight!flightVars
  BY <1>1 DEF Begin, CreateExists, Write, Judge
<1>2. ASSUME NEW a \in Contenders, Create(a) PROVE Flight!Start(a)
  BY <1>2 DEF Create, Flight!Start
<1>3. ASSUME NEW a \in Contenders, Reclaim(a)
      PROVE  Flight!FlightNext \/ UNCHANGED Flight!flightVars
  <2>1. Held' = Held /\ Leaving' = Leaving
    BY <1>3 DEF Reclaim
  <2>2. CASE Losing(a) = {}
    BY <1>3, <2>1, <2>2 DEF Reclaim
  <2>3. CASE Losing(a) # {}
    <3>1. file.owner \in Held /\ Losing(a) = {file.owner}
      BY <2>3 DEF Losing
    <3>2. Flight!Rob(file.owner)
      BY <1>3, <2>1, <3>1 DEF Reclaim, Flight!Rob
    <3> QED
      BY <3>1, <3>2 DEF Flight!FlightNext
  <2> QED
    BY <2>2, <2>3
<1>4. ASSUME NEW a \in Contenders, Release(a)
      PROVE  Flight!Leave(a) \/ Flight!Stop(a)
  <2>1. CASE Owns(a) /\ file.written /\ a \notin hit
    BY <1>4, <2>1 DEF Release, Flight!Leave
  <2>2. CASE ~(Owns(a) /\ file.written)
    <3>1. /\ Held' = Held \ {a}
          /\ Leaving' = Leaving \ {a}
          /\ hit' = (hit \union {}) \ {a}
      BY <1>4, <2>2 DEF Release
    <3> QED
      BY <1>4, <3>1 DEF Release, Flight!Stop
  <2>3. CASE Owns(a) /\ file.written /\ a \in hit
    BY <2>3
  <2> QED
    BY <2>1, <2>2, <2>3
<1>5. ASSUME NEW a \in Contenders, Remove(a) PROVE Flight!Stop(a)
  <2>1. /\ Held' = Held \ {a}
        /\ Leaving' = Leaving \ {a}
        /\ hit' = (hit \union Losing(a)) \ {a}
    BY <1>5 DEF Remove
  <2>2. Losing(a) \in SUBSET (Held \ {a})
    BY DEF Losing
  <2>3. a \in Leaving \intersect hit \/ Losing(a) = {}
    BY <1>5 DEF Remove, Losing
  <2> QED
    BY <1>5, <2>1, <2>2, <2>3 DEF Remove, Flight!Stop
<1>6. CASE GrowStale
  BY <1>6 DEF GrowStale
<1>7. ASSUME NEW p \in Processes, ProcessEnds(p) PROVE Flight!Abandon(RunsOf(p))
  BY <1>7 DEF ProcessEnds, RunsOf, Flight!Abandon
<1>8. CASE UNCHANGED lockVars
  BY <1>8 DEF lockVars
<1> QED
  BY <1>1, <1>2, <1>3, <1>4, <1>5, <1>6, <1>7, <1>8
  DEF LockNext, Step, Flight!FlightNext, RunsOf

(* The lock file of the collector implements SingleFlight: runs overlap    *)
(* only after one of them was robbed of its lock.                          *)
THEOREM LockImplementsSingleFlight == LockSpec => ImplementsSingleFlight
<1> QED
  BY LockInitInv, LockStepInv, LockInitRefines, LockStepRefines, PTL
  DEF LockSpec, ImplementsSingleFlight, Flight!FlightSpec

(* Two runs work at the same time only when one of them was robbed.        *)
THEOREM RunsOverlapOnlyWhenRobbed == LockSpec => []Flight!OverlapNeedsRobbery
<1>1. Flight!FlightInit => Flight!OverlapNeedsRobbery
  BY DEF Flight!FlightInit, Flight!OverlapNeedsRobbery
<1>2. Flight!OverlapNeedsRobbery /\ [Flight!FlightNext]_(Flight!flightVars)
        => Flight!OverlapNeedsRobbery'
  <2> SUFFICES ASSUME Flight!OverlapNeedsRobbery,
                      [Flight!FlightNext]_(Flight!flightVars)
               PROVE  Flight!OverlapNeedsRobbery'
    OBVIOUS
  <2> USE DEF Flight!OverlapNeedsRobbery
  <2>1. ASSUME NEW a \in Contenders, Flight!Start(a) PROVE Flight!OverlapNeedsRobbery'
    BY <2>1 DEF Flight!Start
  <2>2. ASSUME NEW a \in Contenders, Flight!Rob(a) PROVE Flight!OverlapNeedsRobbery'
    BY <2>2 DEF Flight!Rob
  <2>3. ASSUME NEW a \in Contenders, Flight!Leave(a) PROVE Flight!OverlapNeedsRobbery'
    BY <2>3 DEF Flight!Leave
  <2>4. ASSUME NEW a \in Contenders, Flight!Stop(a) PROVE Flight!OverlapNeedsRobbery'
    BY <2>4 DEF Flight!Stop
  <2>5. ASSUME NEW gone \in SUBSET Contenders, Flight!Abandon(gone)
        PROVE  Flight!OverlapNeedsRobbery'
    BY <2>5 DEF Flight!Abandon
  <2>6. CASE UNCHANGED Flight!flightVars
    BY <2>6 DEF Flight!flightVars
  <2> QED
    BY <2>1, <2>2, <2>3, <2>4, <2>5, <2>6 DEF Flight!FlightNext
<1> QED
  BY LockImplementsSingleFlight, <1>1, <1>2, PTL
  DEF ImplementsSingleFlight, Flight!FlightSpec

==============================================================================
