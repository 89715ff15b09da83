---- MODULE CollectorRunLock ----
(***************************************************************************)
(* The lock file of the device collector (acquireCollectorRunLock,         *)
(* releaseCollectorRunLock), taken by every collection run and every       *)
(* self-upgrade on a device: the resident service, a manual --once run,    *)
(* and the service's upgrade handler. Inside one process an attempt is     *)
(* synchronous, but the file system calls of two processes interleave, so  *)
(* each call is a step. openSync(path, "wx") creates an EMPTY file; what a *)
(* reader judges by (pid, start time) is written by a later call.          *)
(***************************************************************************)
EXTENDS Naturals

CONSTANTS
  Contenders,        \* the runs that take the lock, each with its runId
  Processes,     \* operating system processes; one that ended never returns
  ProcessOf      \* the process each run belongs to

ASSUME ProcessOfAssumption == ProcessOf \in [Contenders -> Processes]

NoFile == [kind |-> "none"]

VARIABLES
  up,            \* the processes that are alive
  file,          \* the file at the lock path
  phase,         \* what each run is about to do
  attempt,       \* how many attempts of the acquiring loop it has used up
  hit            \* runs whose lock file another run removed under them

lockVars == <<up, file, phase, attempt, hit>>

Holding == {"write", "running", "remove"}

Phases == {"idle", "create", "judge", "reclaim"} \union Holding

LockFiles ==
  [kind : {"file"}, owner : Contenders, written : BOOLEAN, stale : BOOLEAN]

LockTypeOK ==
  /\ up \subseteq Processes
  /\ file \in {NoFile} \union LockFiles
  /\ phase \in [Contenders -> Phases]
  /\ attempt \in [Contenders -> 0..1]
  /\ hit \subseteq Contenders

LockInit ==
  /\ up = Processes
  /\ file = NoFile
  /\ phase = [a \in Contenders |-> "idle"]
  /\ attempt = [a \in Contenders |-> 0]
  /\ hit = {}

Alive(a) == ProcessOf[a] \in up

RunsOf(p) == {a \in Contenders : ProcessOf[a] = p}

\* Acquiring and releasing contain no await: another run of the same process
\* waits until the call has returned.
HasTheThread(a) ==
  \A b \in RunsOf(ProcessOf[a]) \ {a} : phase[b] \in {"idle", "running"}

MayCall(a, p) == Alive(a) /\ HasTheThread(a) /\ phase[a] = p

Held == {a \in Contenders : phase[a] \in Holding}

Owns(a) == file # NoFile /\ file.owner = a

(* Bug: only the age of a lock counts, not whether its process is alive.   *)
AbandonedByAge == file = NoFile \/ ~file.written \/ file.stale

\* shouldReclaimCollectorRunLock() on what readCollectorRunLock() returned:
\* a missing, empty or unreadable file has no pid and counts as abandoned.
Abandoned ==
  file = NoFile \/ ~file.written \/ file.stale \/ ~Alive(file.owner)

\* The runs that lose their lock when run a unlinks the path.
Losing(a) ==
  IF file = NoFile THEN {} ELSE ({file.owner} \intersect Held) \ {a}

GoTo(a, p) == phase' = [phase EXCEPT ![a] = p]

Begin(a) ==
  /\ MayCall(a, "idle")
  /\ GoTo(a, "create")
  /\ attempt' = [attempt EXCEPT ![a] = 0]
  /\ UNCHANGED <<up, file, hit>>

Create(a) ==
  /\ MayCall(a, "create")
  /\ file = NoFile
  /\ file' = [kind |-> "file", owner |-> a, written |-> FALSE, stale |-> FALSE]
  /\ GoTo(a, "write")
  /\ UNCHANGED <<up, attempt, hit>>

CreateExists(a) ==
  /\ MayCall(a, "create")
  /\ file # NoFile
  /\ GoTo(a, "judge")
  /\ UNCHANGED <<up, file, attempt, hit>>

\* The descriptor still points at the file this run created: what it writes
\* reaches the lock path only if that file is still there.
Write(a) ==
  /\ MayCall(a, "write")
  /\ file' = IF Owns(a) THEN [file EXCEPT !.written = TRUE] ELSE file
  /\ GoTo(a, "running")
  /\ UNCHANGED <<up, attempt, hit>>

Judge(a) ==
  /\ MayCall(a, "judge")
  /\ GoTo(a, IF Abandoned THEN "reclaim" ELSE "idle")
  /\ UNCHANGED <<up, file, attempt, hit>>

\* unlinkSync(lockPath) removes whatever is there by now; the loop has two
\* attempts in all.
Reclaim(a) ==
  /\ MayCall(a, "reclaim")
  /\ file' = NoFile
  /\ hit' = hit \union Losing(a)
  /\ IF attempt[a] = 0
     THEN attempt' = [attempt EXCEPT ![a] = 1] /\ GoTo(a, "create")
     ELSE GoTo(a, "idle") /\ UNCHANGED attempt
  /\ UNCHANGED up

(* Bug: a run releases the lock without looking whose it is.               *)
ReleaseAny(a) ==
  /\ MayCall(a, "running")
  /\ GoTo(a, "remove")
  /\ UNCHANGED <<up, file, attempt, hit>>

\* releaseCollectorRunLock(): read the file, and unlink only one's own.
Release(a) ==
  /\ MayCall(a, "running")
  /\ IF Owns(a) /\ file.written
     THEN GoTo(a, "remove") /\ UNCHANGED hit
     ELSE GoTo(a, "idle") /\ hit' = hit \ {a}
  /\ UNCHANGED <<up, file, attempt>>

Remove(a) ==
  /\ MayCall(a, "remove")
  /\ file' = NoFile
  /\ hit' = (hit \union Losing(a)) \ {a}
  /\ GoTo(a, "idle")
  /\ UNCHANGED <<up, attempt>>

\* The lock of a long run passes resolveCollectorLockStaleMs(): the run's
\* uploads have no timeout of their own.
GrowStale ==
  /\ file # NoFile
  /\ file.written /\ ~file.stale
  /\ file' = [file EXCEPT !.stale = TRUE]
  /\ UNCHANGED <<up, phase, attempt, hit>>

\* A process is killed, or exits after an upgrade, leaving its lock behind.
ProcessEnds(p) ==
  /\ p \in up
  /\ up \ {p} # {}
  /\ up' = up \ {p}
  /\ phase' = [a \in Contenders |-> IF a \in RunsOf(p) THEN "idle" ELSE phase[a]]
  /\ hit' = hit \ RunsOf(p)
  /\ UNCHANGED <<file, attempt>>

Step(a) ==
  \/ Begin(a) \/ Create(a) \/ CreateExists(a) \/ Write(a) \/ Judge(a)
  \/ Reclaim(a) \/ Release(a) \/ Remove(a)

LockNext ==
  \/ \E a \in Contenders : Step(a)
  \/ GrowStale
  \/ \E p \in Processes : ProcessEnds(p)

\* As long as a process is alive some run makes progress: the interval timer
\* of the service starts runs again and again, and file calls return.
LockSpec ==
  LockInit /\ [][LockNext]_lockVars /\ WF_lockVars(\E a \in Contenders : Step(a))

-----------------------------------------------------------------------------
(* A run that has created the lock owns the file at the lock path until it *)
(* releases it, unless another run removed that file under it: the "wx"    *)
(* creation, the own-lock test of the release and the single attempt       *)
(* counter together leave no other way to lose it.                         *)
HoldersKeepTheirLock ==
  \A a \in Contenders : phase[a] \in Holding => Owns(a) \/ a \in hit

LeftBehind == file # NoFile /\ ~Alive(file.owner)

(* A lock left behind by a process that ended does not block the device    *)
(* for ever: the pid test of shouldReclaimCollectorRunLock lets a live run *)
(* take it away.                                                           *)
AbandonedLockGoes == LeftBehind ~> ~LeftBehind

-----------------------------------------------------------------------------
Flight == INSTANCE SingleFlight
          WITH Actors <- Contenders, running <- Held, robbed <- hit,
               leaving <- {a \in Contenders : phase[a] = "remove"}

(* The lock file implements SingleFlight: runs that hold it are the        *)
(* running ones, and the robbed ones are those whose file was removed.     *)
ImplementsSingleFlight == Flight!FlightSpec

====
