---- MODULE NotificationThreads ----
(***************************************************************************)
(* Notification events are collected in threads, one for each dedupe key,  *)
(* and delivered to their recipients (createNotificationEvent). Each event *)
(* is a transaction of its own: it locks the thread of its key or inserts  *)
(* it, and transactions of one key overlap. The callers - a job runner, a  *)
(* failed ingestion - ignore a failure. Users mark threads as read.        *)
(***************************************************************************)
EXTENDS Naturals, FiniteSets

CONSTANTS
  Keys, Users,
  Writers,       \* requests and runners that create an event
  Warnings,      \* keys whose events are sent by email as well
  Cooldown,      \* emailCooldownMs
  MaxTime, MaxEvents, MaxFaults    \* bounds

ASSUME NotificationAssumption ==
  Warnings \subseteq Keys /\ Cooldown \in Nat /\ MaxTime \in Nat

VARIABLES
  now,
  threads,       \* the rows of notification_threads that are committed
  deliveries,    \* the rows of notification_deliveries
  tx,            \* the transaction of each writer
  stored, lost,  \* history: the events committed and those that failed
  events, faults

vars == <<now, threads, deliveries, tx, stored, lost, events, faults>>

Times == 0..MaxTime

Threads ==
  [key : Keys, count : Nat, first : Times, last : Times,
   cooldownUntil : 0..(MaxTime + Cooldown)]

Deliveries ==
  [event : Nat, key : Keys, user : Users, at : Times,
   channel : {"in_app", "email"}, status : {"sent", "pending", "skipped"},
   read : BOOLEAN]

NoEvent == [step |-> "idle"]

\* An event: its number, its key and recipients and when it occurred, and how
\* far its transaction is.
Transactions ==
  [step : {"select", "insert", "locked", "inserted"}, id : Nat, key : Keys,
   to : SUBSET Users, at : Times]

Events == [id : Nat, key : Keys, to : SUBSET Users, at : Times, end : Times]

TypeOK ==
  /\ now \in Times
  /\ threads \subseteq Threads
  /\ \A t, u \in threads : t.key = u.key => t = u
  /\ deliveries \subseteq Deliveries
  /\ tx \in [Writers -> Transactions \union {NoEvent}]
  /\ stored \subseteq Events /\ lost \subseteq Events
  /\ events \in Nat /\ faults \in Nat

Init ==
  /\ now = 0
  /\ threads = {} /\ deliveries = {}
  /\ tx = [w \in Writers |-> NoEvent]
  /\ stored = {} /\ lost = {}
  /\ events = 0 /\ faults = 0

At(w, step) == tx[w].step = step

Goto(w, step) == tx' = [tx EXCEPT ![w].step = step]

\* The transaction holds the row of its key, or has inserted it.
Holds(w, k) == (At(w, "locked") \/ At(w, "inserted")) /\ tx[w].key = k

Free(w, k) == \A v \in Writers \ {w} : ~ Holds(v, k)

Exists(k) == \E t \in threads : t.key = k

ThreadOf(k) == CHOOSE t \in threads : t.key = k

Event(w) ==
  [id |-> tx[w].id, key |-> tx[w].key, to |-> tx[w].to, at |-> tx[w].at, end |-> now]

-----------------------------------------------------------------------------
(* Time passes and things happen that somebody is to be told of.           *)

Tick ==
  /\ now < MaxTime
  /\ now' = now + 1
  /\ UNCHANGED <<threads, deliveries, tx, stored, lost, events, faults>>

\* The recipients are known; createdAt is read; BEGIN and the event's row.
Occur(w, k, to) ==
  /\ At(w, "idle")
  /\ events < MaxEvents
  /\ tx' = [tx EXCEPT ![w] = [step |-> "select", id |-> events, key |-> k,
                              to |-> to, at |-> now]]
  /\ events' = events + 1
  /\ UNCHANGED <<now, threads, deliveries, stored, lost, faults>>

\* readThreadByDedupeKey(): SELECT ... FOR UPDATE waits for the row's lock; a
\* row that is inserted and not committed is not there.
SelectThread(w) ==
  LET k == tx[w].key
  IN /\ At(w, "select")
     /\ Exists(k) => Free(w, k)
     /\ Goto(w, IF Exists(k) THEN "locked" ELSE "insert")
     /\ UNCHANGED <<now, threads, deliveries, stored, lost, events, faults>>

\* insertThread(): waits while another transaction inserts the same key.
InsertThread(w) ==
  LET k == tx[w].key
  IN /\ At(w, "insert")
     /\ Free(w, k) /\ ~ Exists(k)
     /\ Goto(w, "inserted")
     /\ UNCHANGED <<now, threads, deliveries, stored, lost, events, faults>>

\* Bug: the insert gives up without waiting for the other one to commit.
InsertGivesUp(w) ==
  LET k == tx[w].key
  IN /\ At(w, "insert")
     /\ ~ Free(w, k) \/ Exists(k)
     /\ lost' = lost \union {Event(w)}
     /\ tx' = [tx EXCEPT ![w] = NoEvent]
     /\ UNCHANGED <<now, threads, deliveries, stored, events, faults>>

\* Bug: the insert is tried again and again.
InsertRetries(w) ==
  LET k == tx[w].key
  IN /\ At(w, "insert")
     /\ Free(w, k) /\ Exists(k)
     /\ Goto(w, "insert")
     /\ UNCHANGED <<now, threads, deliveries, stored, lost, events, faults>>

\* The other one has committed: the insert fails, and the event with it.
InsertConflicts(w) ==
  LET k == tx[w].key
  IN /\ At(w, "insert")
     /\ Free(w, k) /\ Exists(k)
     /\ lost' = lost \union {Event(w)}
     /\ tx' = [tx EXCEPT ![w] = NoEvent]
     /\ UNCHANGED <<now, threads, deliveries, stored, events, faults>>

\* createNotificationEvent(): an email waits to be sent unless the thread that
\* was read is in its cooldown.
Mailed(e, cooling) ==
  IF e.key \notin Warnings THEN {}
  ELSE {[event |-> e.id, key |-> e.key, user |-> u, at |-> e.at, channel |-> "email",
         status |-> IF cooling THEN "skipped" ELSE "pending", read |-> FALSE]
          : u \in e.to}

Shown(e) ==
  {[event |-> e.id, key |-> e.key, user |-> u, at |-> e.at, channel |-> "in_app",
    status |-> "sent", read |-> FALSE] : u \in e.to}

CooldownAfter(e, until, cooling) ==
  IF e.key \in Warnings /\ ~ cooling THEN e.at + Cooldown ELSE until

\* Bug: the first occurrence starts no cooldown.
NewThreadWarm(e) ==
  [key |-> e.key, count |-> 1, first |-> e.at, last |-> e.at, cooldownUntil |-> 0]

NewThread(e) ==
  [key |-> e.key, count |-> 1, first |-> e.at, last |-> e.at,
   cooldownUntil |-> CooldownAfter(e, 0, FALSE)]

CommitFirst(w) ==
  LET e == Event(w)
  IN /\ At(w, "inserted")
     /\ threads' = threads \union {NewThread(e)}
     /\ deliveries' = deliveries \union Shown(e) \union Mailed(e, FALSE)
     /\ stored' = stored \union {e}
     /\ tx' = [tx EXCEPT ![w] = NoEvent]
     /\ UNCHANGED <<now, lost, events, faults>>

\* Bug: the thread's count is that of the deliveries.
OccurrencesShown(t, e) == Cardinality({d \in deliveries : d.key = e.key}) + 1

Occurrences(t, e) == t.count + 1

CommitNext(w) ==
  LET e == Event(w)
      t == ThreadOf(e.key)
      cooling == t.cooldownUntil > e.at
      thread == [t EXCEPT !.count = Occurrences(t, e), !.last = e.at,
                          !.cooldownUntil = CooldownAfter(e, @, cooling)]
  IN /\ At(w, "locked")
     /\ threads' = (threads \ {t}) \union {thread}
     /\ deliveries' = deliveries \union Shown(e) \union Mailed(e, cooling)
     /\ stored' = stored \union {e}
     /\ tx' = [tx EXCEPT ![w] = NoEvent]
     /\ UNCHANGED <<now, lost, events, faults>>

\* A query fails or the process dies: ROLLBACK.
Abort(w) ==
  /\ tx[w] # NoEvent
  /\ faults < MaxFaults /\ faults' = faults + 1
  /\ tx' = [tx EXCEPT ![w] = NoEvent]
  /\ UNCHANGED <<now, threads, deliveries, stored, lost, events>>

\* POST /api/notifications/:id/read of a user to whom the thread is shown.
MarkThreadRead(u, k) ==
  LET mine == {d \in deliveries : d.user = u /\ d.key = k /\ d.channel = "in_app"}
  IN /\ \E d \in mine : ~ d.read
     /\ deliveries' = (deliveries \ mine) \union {[d EXCEPT !.read = TRUE] : d \in mine}
     /\ UNCHANGED <<now, threads, tx, stored, lost, events, faults>>

WriterStep(w) ==
  \/ SelectThread(w) \/ InsertThread(w) \/ InsertConflicts(w)
  \/ CommitFirst(w) \/ CommitNext(w)

Next ==
  \/ Tick
  \/ \E w \in Writers :
       \/ \E k \in Keys, to \in SUBSET Users \ {{}} : Occur(w, k, to)
       \/ WriterStep(w) \/ Abort(w)
  \/ \E u \in Users, k \in Keys : MarkThreadRead(u, k)

\* Queries return.
Spec == Init /\ [][Next]_vars /\ \A w \in Writers : WF_vars(WriterStep(w))

-----------------------------------------------------------------------------
(* A thread counts the events stored under its key, however their          *)
(* transactions overlap: none is counted twice or overwritten by another.  *)
(* Its times are those of the events that were committed first and last,   *)
(* which need not be the ones that occurred first and last.                *)
ThreadsCountEvents ==
  \A t \in threads :
    LET mine == {e \in stored : e.key = t.key}
    IN  /\ t.count = Cardinality(mine)
        /\ \E e \in mine : e.at = t.first /\ \A f \in mine : e.end <= f.end
        /\ \E e \in mine : e.at = t.last /\ \A f \in mine : f.end <= e.end

(* A user gets one email about a key in a cooldown, also when its events   *)
(* happen at once or commit out of order.                                  *)
OneEmailPerCooldown ==
  \A d, e \in {x \in deliveries : x.channel = "email" /\ x.status = "pending"} :
    d.event # e.event /\ d.key = e.key => d.at >= e.at + Cooldown \/ e.at >= d.at + Cooldown

(* An event that fails by itself leaves a thread that another event, one   *)
(* that was committed after it had occurred, has opened.                   *)
LossHasATwin ==
  \A e \in lost :
    \E s \in stored : s.key = e.key /\ s.end >= e.at /\ s.id # e.id

(* When no more events occur, every transaction has ended: transactions    *)
(* that insert or lock the same thread do not wait for each other in a     *)
(* circle, and none waits for one that is over.                            *)
EventsEnd == <>[](\A w \in Writers : tx[w] = NoEvent)

====
