---- MODULE TaskMirror ----
(***************************************************************************)
(* What the backend's task table is to the tasks of a device: a mirror     *)
(* that lags behind, task by task. Every update of it shows some tasks as  *)
(* they all were at one earlier moment of the device, and nothing else.    *)
(* CollectorSync shows that the collector's batches implement this.        *)
(***************************************************************************)
CONSTANTS Tasks, Contents, Gone

VARIABLES device,     \* what the adapters list now: content by task, or Gone
          past,       \* every listing the device has had
          mirror      \* what the backend shows of each task

mirrorVars == <<device, past, mirror>>

Listings == [Tasks -> Contents \union {Gone}]

MirrorInit ==
  /\ device = [t \in Tasks |-> Gone]
  /\ past = {device}
  /\ mirror = [t \in Tasks |-> Gone]

Change(t, c) ==
  /\ device' = [device EXCEPT ![t] = c]
  /\ past' = past \union {device'}
  /\ UNCHANGED mirror

Report(some, listing) ==
  /\ mirror' = [t \in Tasks |-> IF t \in some THEN listing[t] ELSE mirror[t]]
  /\ UNCHANGED <<device, past>>

MirrorNext ==
  \/ \E t \in Tasks, c \in Contents \union {Gone} : Change(t, c)
  \/ \E some \in SUBSET Tasks, listing \in past : Report(some, listing)

MirrorSpec == MirrorInit /\ [][MirrorNext]_mirrorVars

====
