---- MODULE NotificationThreadsProofs ----
(***************************************************************************)
(* For any number of keys, users and overlapping events: a thread counts   *)
(* the events stored under its key, a user is mailed once in a cooldown,   *)
(* and an event that fails by itself had a committed twin.                 *)
(***************************************************************************)
EXTENDS NotificationThreads, FiniteSetTheorems, TLAPS

\* At most one transaction holds the row of a key.
OneHolder ==
  \A v, w \in Writers, k \in Keys : Holds(v, k) /\ Holds(w, k) => v = w

\* What the SELECT has found stays so while the transaction holds the row.
HeldIsThere ==
  \A w \in Writers :
    /\ At(w, "locked") => Exists(tx[w].key)
    /\ At(w, "inserted") => ~ Exists(tx[w].key)

\* The events under way are numbered apart from each other and from the others.
LiveAreNew ==
  /\ \A w \in Writers :
       tx[w] # NoEvent => /\ tx[w].id < events /\ tx[w].at <= now
                          /\ \A s \in stored : s.id # tx[w].id
  /\ \A v, w \in Writers :
       tx[v] # NoEvent /\ tx[w] # NoEvent /\ tx[v].id = tx[w].id => v = w
  /\ \A s \in stored : s.id < events

\* A thread that exists reaches the cooldown of each email about its key.
CooldownKept ==
  \A d \in deliveries :
    d.channel = "email" /\ d.status = "pending" =>
      \E t \in threads : t.key = d.key /\ t.cooldownUntil >= d.at + Cooldown

\* The thread an event is about to conflict with was opened after it occurred.
TwinOf(e) == \E s \in stored : s.key = e.key /\ s.end >= e.at /\ s.id # e.id

ConflictHasATwin ==
  \A w \in Writers : At(w, "insert") /\ Exists(tx[w].key) => TwinOf(tx[w])

StoredOf(k) == {e \in stored : e.key = k}

StoredHasThread == IsFiniteSet(stored) /\ \A s \in stored : Exists(s.key)

Protocol == TypeOK /\ OneHolder /\ HeldIsThere

USE NotificationAssumption

(* The row that readThreadByDedupeKey returns is the one with its key.     *)
LEMMA ThreadFound ==
  ASSUME NEW k, Exists(k) PROVE ThreadOf(k) \in threads /\ ThreadOf(k).key = k
BY DEF Exists, ThreadOf

LEMMA ProtocolInit == Init => Protocol
BY DEF Init, Protocol, TypeOK, OneHolder, HeldIsThere, Holds, At, NoEvent, Times, Exists

(* A transaction that is not idle is a record of an event.                 *)
LEMMA LiveIsEvent ==
  ASSUME TypeOK, NEW w \in Writers, tx[w] # NoEvent
  PROVE  /\ tx[w] \in Transactions
         /\ Event(w) \in Events
         /\ Event(w).id = tx[w].id /\ Event(w).key = tx[w].key
         /\ Event(w).at = tx[w].at /\ Event(w).to = tx[w].to /\ Event(w).end = now
BY DEF TypeOK, Transactions, Event, Events

(* The rows an event adds are deliveries of it.                            *)
LEMMA AddedDeliveries ==
  ASSUME TypeOK, NEW e \in Events, NEW cooling \in BOOLEAN
  PROVE  Shown(e) \subseteq Deliveries /\ Mailed(e, cooling) \subseteq Deliveries
<1>1. e.id \in Nat /\ e.key \in Keys /\ e.to \subseteq Users /\ e.at \in Times
  BY DEF Events
<1>2. ASSUME NEW d \in Shown(e) PROVE d \in Deliveries
  <2>1. PICK u \in e.to :
          d = [event |-> e.id, key |-> e.key, user |-> u, at |-> e.at, channel |-> "in_app",
               status |-> "sent", read |-> FALSE]
    BY <1>2 DEF Shown
  <2> QED
    BY <1>1, <2>1 DEF Deliveries
<1>3. ASSUME NEW d \in Mailed(e, cooling) PROVE d \in Deliveries
  <2>1. PICK u \in e.to :
          d = [event |-> e.id, key |-> e.key, user |-> u, at |-> e.at, channel |-> "email",
               status |-> IF cooling THEN "skipped" ELSE "pending", read |-> FALSE]
    BY <1>3 DEF Mailed
  <2> QED
    BY <1>1, <2>1 DEF Deliveries
<1> QED
  BY <1>2, <1>3

(* The first event of a key, and a later one, give a thread of that key.   *)
LEMMA NewThreadType ==
  ASSUME NEW e \in Events PROVE NewThread(e) \in Threads /\ NewThread(e).key = e.key
<1>1. e.at \in 0..MaxTime /\ e.key \in Keys
  BY DEF Events, Times
<1>2. CooldownAfter(e, 0, FALSE) \in 0..(MaxTime + Cooldown)
  BY <1>1 DEF CooldownAfter
<1> QED
  BY <1>1, <1>2 DEF NewThread, Threads, Times

\* The row that updateThread leaves.
Updated(t, e) ==
  [t EXCEPT !.count = Occurrences(t, e), !.last = e.at,
            !.cooldownUntil = CooldownAfter(e, @, t.cooldownUntil > e.at)]

LEMMA UpdatedType ==
  ASSUME NEW e \in Events, NEW t \in Threads
  PROVE  /\ Updated(t, e) \in Threads /\ Updated(t, e).key = t.key
         /\ Updated(t, e).count = t.count + 1
         /\ Updated(t, e).first = t.first /\ Updated(t, e).last = e.at
         /\ Updated(t, e).cooldownUntil = CooldownAfter(e, t.cooldownUntil, t.cooldownUntil > e.at)
<1>1. e.at \in 0..MaxTime /\ e.key \in Keys
  BY DEF Events, Times
<1>2. /\ t.cooldownUntil \in 0..(MaxTime + Cooldown) /\ t.count \in Nat
      /\ t.key \in Keys /\ t.first \in Times
  BY DEF Threads
<1>3. CooldownAfter(e, t.cooldownUntil, t.cooldownUntil > e.at) \in 0..(MaxTime + Cooldown)
  BY <1>1, <1>2 DEF CooldownAfter
<1> DEFINE until == CooldownAfter(e, t.cooldownUntil, t.cooldownUntil > e.at)
<1>4. Updated(t, e) = [t EXCEPT !.count = t.count + 1, !.last = e.at, !.cooldownUntil = until]
  BY DEF Updated, Occurrences
<1> HIDE DEF until
<1>6. until \in 0..(MaxTime + Cooldown)
  BY <1>3 DEF until
<1>5. /\ Updated(t, e).key = t.key /\ Updated(t, e).count = t.count + 1
      /\ Updated(t, e).first = t.first /\ Updated(t, e).last = e.at
      /\ Updated(t, e).cooldownUntil = until
  BY <1>4 DEF Threads
<1>7. t.count + 1 \in Nat /\ e.at \in Times
  BY <1>1, <1>2 DEF Times
<1>8. Updated(t, e) \in Threads
  BY <1>4, <1>6, <1>7 DEF Threads
<1> QED
  BY <1>5, <1>8 DEF until

(* What the two commits do to the rows of their key.                       *)
LEMMA FirstCommitted ==
  ASSUME Protocol, NEW w \in Writers, CommitFirst(w)
  PROVE  /\ Event(w) \in Events /\ tx[w] # NoEvent
         /\ ~ Exists(Event(w).key)
         /\ NewThread(Event(w)) \in Threads /\ NewThread(Event(w)).key = Event(w).key
         /\ threads' = threads \union {NewThread(Event(w))}
         /\ stored' = stored \union {Event(w)}
         /\ deliveries' = deliveries \union Shown(Event(w)) \union Mailed(Event(w), FALSE)
<1>1. At(w, "inserted") /\ tx[w] # NoEvent
  BY DEF CommitFirst, At, NoEvent
<1>2. Event(w) \in Events /\ Event(w).key = tx[w].key
  BY <1>1, LiveIsEvent DEF Protocol
<1>3. ~ Exists(Event(w).key)
  BY <1>1, <1>2 DEF Protocol, HeldIsThere
<1> QED
  BY <1>1, <1>2, <1>3, NewThreadType DEF CommitFirst

LEMMA NextCommitted ==
  ASSUME Protocol, NEW w \in Writers, CommitNext(w)
  PROVE  \E t \in threads :
           /\ Event(w) \in Events /\ tx[w] # NoEvent
           /\ t.key = Event(w).key /\ t \in Threads
           /\ \A u \in threads : u.key = t.key => u = t
           /\ threads' = (threads \ {t}) \union {Updated(t, Event(w))}
           /\ stored' = stored \union {Event(w)}
           /\ deliveries' = deliveries \union Shown(Event(w))
                              \union Mailed(Event(w), t.cooldownUntil > Event(w).at)
<1>1. At(w, "locked") /\ tx[w] # NoEvent
  BY DEF CommitNext, At, NoEvent
<1>2. Event(w) \in Events /\ Event(w).key = tx[w].key
  BY <1>1, LiveIsEvent DEF Protocol
<1>3. Exists(Event(w).key)
  BY <1>1, <1>2 DEF Protocol, HeldIsThere
<1>4. ThreadOf(Event(w).key) \in threads /\ ThreadOf(Event(w).key).key = Event(w).key
  BY <1>3, ThreadFound
<1>5. /\ ThreadOf(Event(w).key) \in Threads
      /\ \A u \in threads : u.key = ThreadOf(Event(w).key).key => u = ThreadOf(Event(w).key)
  BY <1>4 DEF Protocol, TypeOK
<1> QED
  BY <1>1, <1>2, <1>4, <1>5 DEF CommitNext, Updated

(* A commit keeps the threads, one for each key, and the deliveries typed. *)
LEMMA RowsAfterFirst ==
  ASSUME Protocol, NEW w \in Writers, CommitFirst(w)
  PROVE  /\ threads' \subseteq Threads /\ deliveries' \subseteq Deliveries
         /\ stored' \subseteq Events
         /\ \A t, u \in threads' : t.key = u.key => t = u
         /\ \A k : Exists(k)' <=> Exists(k) \/ k = Event(w).key
<1>1. /\ Event(w) \in Events /\ ~ Exists(Event(w).key)
      /\ NewThread(Event(w)) \in Threads /\ NewThread(Event(w)).key = Event(w).key
      /\ threads' = threads \union {NewThread(Event(w))}
      /\ stored' = stored \union {Event(w)}
      /\ deliveries' = deliveries \union Shown(Event(w)) \union Mailed(Event(w), FALSE)
  BY FirstCommitted
<1>2. Shown(Event(w)) \subseteq Deliveries /\ Mailed(Event(w), FALSE) \subseteq Deliveries
  BY <1>1, AddedDeliveries DEF Protocol
<1>3. /\ threads \subseteq Threads /\ deliveries \subseteq Deliveries /\ stored \subseteq Events
      /\ \A t, u \in threads : t.key = u.key => t = u
  BY DEF Protocol, TypeOK
<1>4. \A t, u \in threads' : t.key = u.key => t = u
  BY <1>1, <1>3 DEF Exists
<1>5. \A k : Exists(k)' <=> Exists(k) \/ k = Event(w).key
  BY <1>1 DEF Exists
<1> QED
  BY <1>1, <1>2, <1>3, <1>4, <1>5

LEMMA RowsAfterNext ==
  ASSUME Protocol, NEW w \in Writers, CommitNext(w)
  PROVE  /\ threads' \subseteq Threads /\ deliveries' \subseteq Deliveries
         /\ stored' \subseteq Events
         /\ \A t, u \in threads' : t.key = u.key => t = u
         /\ \A k : Exists(k)' <=> Exists(k)
<1>1. PICK t \in threads :
        /\ Event(w) \in Events
        /\ t.key = Event(w).key /\ t \in Threads
        /\ \A u \in threads : u.key = t.key => u = t
        /\ threads' = (threads \ {t}) \union {Updated(t, Event(w))}
        /\ stored' = stored \union {Event(w)}
        /\ deliveries' = deliveries \union Shown(Event(w))
                           \union Mailed(Event(w), t.cooldownUntil > Event(w).at)
  BY NextCommitted
<1> DEFINE new == Updated(t, Event(w))
<1>2. new \in Threads /\ new.key = t.key
  BY <1>1, UpdatedType
<1> HIDE DEF new
<1>3. threads' = (threads \ {t}) \union {new}
  BY <1>1 DEF new
<1> DEFINE cooling == t.cooldownUntil > Event(w).at
<1>8. cooling \in BOOLEAN
  OBVIOUS
<1> HIDE DEF cooling
<1>4. Shown(Event(w)) \subseteq Deliveries /\ Mailed(Event(w), cooling) \subseteq Deliveries
  BY <1>1, <1>8, AddedDeliveries DEF Protocol
<1>9. deliveries' = deliveries \union Shown(Event(w)) \union Mailed(Event(w), cooling)
  BY <1>1 DEF cooling
<1>5. /\ threads \subseteq Threads /\ deliveries \subseteq Deliveries /\ stored \subseteq Events
      /\ \A u, v \in threads : u.key = v.key => u = v
  BY DEF Protocol, TypeOK
<1>6. \A u, v \in threads' : u.key = v.key => u = v
  BY <1>1, <1>2, <1>3, <1>5
<1>7. \A k : Exists(k)' <=> Exists(k)
  BY <1>1, <1>2, <1>3 DEF Exists
<1> QED
  BY <1>1, <1>2, <1>3, <1>4, <1>5, <1>6, <1>7, <1>9

(* Reading a thread leaves every delivery but for its read mark.           *)
LEMMA ReadDeliveries ==
  ASSUME TypeOK, NEW u \in Users, NEW k \in Keys, MarkThreadRead(u, k)
  PROVE  /\ deliveries' \subseteq Deliveries
         /\ \A d \in deliveries' : d.channel = "email" => d \in deliveries
<1> DEFINE mine == {d \in deliveries : d.user = u /\ d.key = k /\ d.channel = "in_app"}
           read == {[d EXCEPT !.read = TRUE] : d \in mine}
<1>1. deliveries' = (deliveries \ mine) \union read
  BY DEF MarkThreadRead
<1>2. ASSUME NEW d \in read PROVE d \in Deliveries /\ d.channel = "in_app"
  <2>1. PICK x \in mine : d = [x EXCEPT !.read = TRUE]
    BY <1>2
  <2>2. x \in Deliveries /\ x.channel = "in_app"
    BY <2>1 DEF TypeOK
  <2> HIDE DEF mine, read
  <2> QED
    BY <2>1, <2>2 DEF Deliveries
<1> HIDE DEF read
<1> QED
  BY <1>1, <1>2 DEF TypeOK

\* What an event's transaction knows and holds keeps its type.
TxOK == tx \in [Writers -> Transactions \union {NoEvent}]

(* Every step keeps types, one holder for each key, and what was found.    *)
LEMMA ProtocolStep == Protocol /\ [Next]_vars => Protocol'
<1> SUFFICES ASSUME Protocol, [Next]_vars PROVE Protocol'
  OBVIOUS
<1> USE DEF Protocol
<1>t. TxOK /\ \A w \in Writers : tx[w] # NoEvent => tx[w] \in Transactions
  BY DEF TypeOK, TxOK
<1>1. CASE Tick
  BY <1>1 DEF Tick, TypeOK, OneHolder, HeldIsThere, Holds, At, Exists, Times
<1>2. ASSUME NEW w \in Writers, NEW k \in Keys, NEW to \in SUBSET Users \ {{}}, Occur(w, k, to)
      PROVE  Protocol'
  <2>1. [step |-> "select", id |-> events, key |-> k, to |-> to, at |-> now] \in Transactions
    BY DEF TypeOK, Transactions
  <2>2. TypeOK'
    BY <1>2, <2>1 DEF Occur, TypeOK
  <2> QED
    BY <1>2, <2>2 DEF Occur, OneHolder, HeldIsThere, Holds, At, Exists, TypeOK
<1>3. ASSUME NEW w \in Writers, SelectThread(w) PROVE Protocol'
  <2>1. tx[w] \in Transactions /\ tx[w].key \in Keys
    BY <1>3, <1>t DEF SelectThread, At, NoEvent, Transactions
  <2>2. TypeOK'
    BY <1>3, <2>1 DEF SelectThread, Goto, TypeOK, Transactions
  <2>3. OneHolder'
    BY <1>3, <2>1, <1>t DEF SelectThread, Goto, OneHolder, Holds, At, Free, TxOK
  <2>4. HeldIsThere'
    BY <1>3, <2>1, <1>t DEF SelectThread, Goto, HeldIsThere, At, Exists, TxOK
  <2> QED
    BY <2>2, <2>3, <2>4
<1>4. ASSUME NEW w \in Writers, InsertThread(w) PROVE Protocol'
  <2>1. tx[w] \in Transactions /\ tx[w].key \in Keys
    BY <1>4, <1>t DEF InsertThread, At, NoEvent, Transactions
  <2>2. TypeOK'
    BY <1>4, <2>1 DEF InsertThread, Goto, TypeOK, Transactions
  <2>3. OneHolder'
    BY <1>4, <2>1, <1>t DEF InsertThread, Goto, OneHolder, Holds, At, Free, TxOK
  <2>4. HeldIsThere'
    BY <1>4, <2>1, <1>t DEF InsertThread, Goto, HeldIsThere, At, Exists, TxOK
  <2> QED
    BY <2>2, <2>3, <2>4
<1>5. ASSUME NEW w \in Writers, InsertConflicts(w) PROVE Protocol'
  <2>1. tx[w] # NoEvent /\ Event(w) \in Events
    BY <1>5, LiveIsEvent DEF InsertConflicts, At, NoEvent
  <2>2. TypeOK'
    BY <1>5, <2>1 DEF InsertConflicts, TypeOK
  <2> QED
    BY <1>5, <2>2 DEF InsertConflicts, OneHolder, HeldIsThere, Holds, At, Exists, NoEvent, TypeOK
<1>6. ASSUME NEW w \in Writers, Abort(w) PROVE Protocol'
  <2>1. TypeOK'
    BY <1>6 DEF Abort, TypeOK
  <2> QED
    BY <1>6, <2>1 DEF Abort, OneHolder, HeldIsThere, Holds, At, Exists, NoEvent, TypeOK
<1>7. ASSUME NEW w \in Writers, CommitFirst(w) PROVE Protocol'
  <2>1. /\ threads' \subseteq Threads /\ deliveries' \subseteq Deliveries
        /\ stored' \subseteq Events
        /\ \A t, u \in threads' : t.key = u.key => t = u
        /\ \A k : Exists(k)' <=> Exists(k) \/ k = Event(w).key
    BY <1>7, RowsAfterFirst
  <2>2. tx[w] \in Transactions /\ tx[w].key \in Keys /\ Event(w).key = tx[w].key
    BY <1>7, <1>t DEF CommitFirst, At, NoEvent, Transactions, Event
  <2>3. tx' = [tx EXCEPT ![w] = NoEvent] /\ At(w, "inserted")
    BY <1>7 DEF CommitFirst
  <2>4. TypeOK'
    BY <1>7, <2>1, <2>3 DEF CommitFirst, TypeOK
  <2>5. OneHolder'
    BY <2>3, <1>t DEF OneHolder, Holds, At, NoEvent, TxOK
  <2>6. \A v \in Writers \ {w} : At(v, "inserted") => tx[v].key # tx[w].key
    <3>1. Holds(w, tx[w].key)
      BY <2>3 DEF Holds
    <3> QED
      BY <3>1, <2>2 DEF OneHolder, Holds
  <2>7. HeldIsThere'
    BY <2>1, <2>2, <2>3, <2>6, <1>t DEF HeldIsThere, At, NoEvent, TxOK
  <2> QED
    BY <2>4, <2>5, <2>7
<1>8. ASSUME NEW w \in Writers, CommitNext(w) PROVE Protocol'
  <2>1. /\ threads' \subseteq Threads /\ deliveries' \subseteq Deliveries
        /\ stored' \subseteq Events
        /\ \A t, u \in threads' : t.key = u.key => t = u
        /\ \A k : Exists(k)' <=> Exists(k)
    BY <1>8, RowsAfterNext
  <2>2. tx' = [tx EXCEPT ![w] = NoEvent]
    BY <1>8 DEF CommitNext
  <2>3. TypeOK'
    BY <1>8, <2>1, <2>2 DEF CommitNext, TypeOK
  <2>4. OneHolder'
    BY <2>2, <1>t DEF OneHolder, Holds, At, NoEvent, TxOK
  <2>5. HeldIsThere'
    BY <2>1, <2>2, <1>t DEF HeldIsThere, At, NoEvent, TxOK
  <2> QED
    BY <2>3, <2>4, <2>5
<1>9. ASSUME NEW u \in Users, NEW k \in Keys, MarkThreadRead(u, k) PROVE Protocol'
  <2>1. deliveries' \subseteq Deliveries
    BY <1>9, ReadDeliveries
  <2>2. UNCHANGED <<now, threads, tx, stored, lost, events, faults>>
    BY <1>9 DEF MarkThreadRead
  <2> QED
    BY <2>1, <2>2 DEF TypeOK, OneHolder, HeldIsThere, Holds, At, Exists
<1>10. CASE UNCHANGED vars
  BY <1>10 DEF vars, TypeOK, OneHolder, HeldIsThere, Holds, At, Exists
<1> QED
  BY <1>1, <1>2, <1>3, <1>4, <1>5, <1>6, <1>7, <1>8, <1>9, <1>10 DEF Next, WriterStep

(* Rows, transactions and the history keep their types; a key has one      *)
(* thread.                                                                 *)
THEOREM NotificationTypeCorrect == Spec => []TypeOK
<1>1. Protocol => TypeOK
  BY DEF Protocol
<1> QED
  BY ProtocolInit, ProtocolStep, <1>1, PTL DEF Spec

(* The unique index and the row locks keep one transaction at a time on a  *)
(* key, and what it has read of the thread stays so until it ends.         *)
THEOREM OneTransactionPerKey == Spec => []Protocol
BY ProtocolInit, ProtocolStep, PTL DEF Spec

(* An update of a thread never lowers its cooldown below what was needed,  *)
(* and a mail is only sent when the cooldown is over.                      *)
LEMMA MailStep ==
  Protocol /\ CooldownKept /\ OneEmailPerCooldown /\ [Next]_vars
    => CooldownKept' /\ OneEmailPerCooldown'
<1> SUFFICES ASSUME Protocol, CooldownKept, OneEmailPerCooldown, [Next]_vars
             PROVE  CooldownKept' /\ OneEmailPerCooldown'
  OBVIOUS
<1>1. ASSUME NEW w \in Writers, CommitFirst(w) PROVE CooldownKept' /\ OneEmailPerCooldown'
  <2> DEFINE e == Event(w)
             added == Shown(e) \union Mailed(e, FALSE)
             new == NewThread(e)
  <2>1. /\ e \in Events /\ ~ Exists(e.key)
        /\ threads' = threads \union {new}
        /\ deliveries' = deliveries \union Shown(e) \union Mailed(e, FALSE)
        /\ new.key = e.key
    BY <1>1, FirstCommitted
  <2>2. ASSUME NEW d \in added, d.channel = "email", d.status = "pending"
        PROVE  /\ d.key = e.key /\ d.at = e.at /\ d.event = e.id
               /\ new.cooldownUntil = d.at + Cooldown
    BY <2>2 DEF Shown, Mailed, NewThread, CooldownAfter
  <2>3. e.at \in Nat
    BY <2>1 DEF Events, Times
  <2> HIDE DEF e, new, added
  <2>4. deliveries' = deliveries \union added
    BY <2>1 DEF added
  <2>5. CooldownKept'
    <3> SUFFICES ASSUME NEW d \in deliveries', d.channel = "email", d.status = "pending"
                 PROVE  \E u \in threads' : u.key = d.key /\ u.cooldownUntil >= d.at + Cooldown
      BY DEF CooldownKept
    <3>1. CASE d \in deliveries
      BY <3>1, <2>1 DEF CooldownKept
    <3>2. CASE d \in added
      <4>1. new.key = d.key /\ new.cooldownUntil >= d.at + Cooldown
        BY <3>2, <2>1, <2>2, <2>3
      <4> QED
        BY <4>1, <2>1
    <3> QED
      BY <3>1, <3>2, <2>4
  <2>6. \A d \in deliveries : d.channel = "email" /\ d.status = "pending" => d.key # e.key
    BY <2>1 DEF CooldownKept, Exists
  <2>7. OneEmailPerCooldown'
    BY <2>2, <2>4, <2>6 DEF OneEmailPerCooldown
  <2> QED
    BY <2>5, <2>7
<1>2. ASSUME NEW w \in Writers, CommitNext(w) PROVE CooldownKept' /\ OneEmailPerCooldown'
  <2> DEFINE e == Event(w)
  <2>1. PICK t \in threads :
          /\ e \in Events
          /\ t.key = e.key /\ t \in Threads
          /\ \A u \in threads : u.key = t.key => u = t
          /\ threads' = (threads \ {t}) \union {Updated(t, e)}
          /\ deliveries' = deliveries \union Shown(e) \union Mailed(e, t.cooldownUntil > e.at)
    BY <1>2, NextCommitted
  <2> DEFINE cooling == t.cooldownUntil > e.at
             added == Shown(e) \union Mailed(e, cooling)
             new == Updated(t, e)
  <2>2. /\ new.key = e.key
        /\ new.cooldownUntil = CooldownAfter(e, t.cooldownUntil, cooling)
    BY <2>1, UpdatedType
  <2>3. e.at \in Nat /\ t.cooldownUntil \in Nat /\ cooling \in BOOLEAN
    BY <2>1 DEF Events, Times, Threads
  <2>4. new.cooldownUntil >= t.cooldownUntil
    BY <2>2, <2>3 DEF CooldownAfter
  <2>5. ASSUME NEW d \in added, d.channel = "email", d.status = "pending"
        PROVE  /\ d.key = e.key /\ d.at = e.at /\ d.event = e.id
               /\ new.cooldownUntil = d.at + Cooldown
               /\ t.cooldownUntil <= e.at
    <3>1. d \in Mailed(e, cooling) /\ e.key \in Warnings /\ ~ cooling
      BY <2>5 DEF Shown, Mailed
    <3>2. d.key = e.key /\ d.at = e.at /\ d.event = e.id
      BY <3>1 DEF Mailed
    <3>3. new.cooldownUntil = e.at + Cooldown
      BY <3>1, <2>2 DEF CooldownAfter
    <3> QED
      BY <3>1, <3>2, <3>3, <2>3
  <2> HIDE DEF e, cooling, added, new
  <2>6. deliveries' = deliveries \union added /\ threads' = (threads \ {t}) \union {new}
    BY <2>1 DEF cooling, added, new
  <2>7. \A d \in deliveries :
          d \in Deliveries /\ d.at \in Nat /\ \A u \in threads : u.cooldownUntil \in Nat
    BY DEF Protocol, TypeOK, Deliveries, Threads, Times
  <2>8. ASSUME NEW d \in deliveries, d.channel = "email", d.status = "pending"
        PROVE  \E u \in threads' : u.key = d.key /\ u.cooldownUntil >= d.at + Cooldown
    <3>1. PICK u \in threads : u.key = d.key /\ u.cooldownUntil >= d.at + Cooldown
      BY <2>8 DEF CooldownKept
    <3>2. CASE u = t
      <4>1. new.key = d.key /\ new.cooldownUntil >= d.at + Cooldown
        <5>1. new.cooldownUntil \in Nat
          BY <2>2, <2>3 DEF CooldownAfter
        <5> QED
          BY <2>1, <2>2, <2>3, <2>4, <2>7, <3>1, <3>2, <5>1
      <4> QED
        BY <4>1, <2>6
    <3>3. CASE u # t
      BY <3>1, <3>3, <2>6
    <3> QED
      BY <3>2, <3>3
  <2>9. CooldownKept'
    <3> SUFFICES ASSUME NEW d \in deliveries', d.channel = "email", d.status = "pending"
                 PROVE  \E u \in threads' : u.key = d.key /\ u.cooldownUntil >= d.at + Cooldown
      BY DEF CooldownKept
    <3>1. CASE d \in deliveries
      BY <3>1, <2>8
    <3>2. CASE d \in added
      <4>1. new.key = d.key /\ new.cooldownUntil >= d.at + Cooldown
        BY <3>2, <2>2, <2>3, <2>5
      <4> QED
        BY <4>1, <2>6
    <3> QED
      BY <3>1, <3>2, <2>6
  <2>10. ASSUME NEW d \in deliveries, d.channel = "email", d.status = "pending", d.key = e.key
         PROVE  t.cooldownUntil >= d.at + Cooldown
    BY <2>1, <2>10 DEF CooldownKept
  <2>11. OneEmailPerCooldown'
    <3> SUFFICES ASSUME NEW c \in deliveries', c.channel = "email", c.status = "pending",
                        NEW d \in deliveries', d.channel = "email", d.status = "pending",
                        c.event # d.event, c.key = d.key
                 PROVE  c.at >= d.at + Cooldown \/ d.at >= c.at + Cooldown
      BY DEF OneEmailPerCooldown
    <3>1. CASE c \in deliveries /\ d \in deliveries
      BY <3>1 DEF OneEmailPerCooldown
    <3>2. CASE c \in added /\ d \in deliveries
      BY <3>2, <2>3, <2>5, <2>7, <2>10
    <3>3. CASE c \in deliveries /\ d \in added
      BY <3>3, <2>3, <2>5, <2>7, <2>10
    <3>4. CASE c \in added /\ d \in added
      BY <3>4, <2>5
    <3> QED
      BY <3>1, <3>2, <3>3, <3>4, <2>6
  <2> QED
    BY <2>9, <2>11
<1>3. ASSUME NEW u \in Users, NEW k \in Keys, MarkThreadRead(u, k)
      PROVE  CooldownKept' /\ OneEmailPerCooldown'
  <2>1. \A d \in deliveries' : d.channel = "email" => d \in deliveries
    BY <1>3, ReadDeliveries DEF Protocol
  <2>2. threads' = threads
    BY <1>3 DEF MarkThreadRead
  <2> QED
    BY <2>1, <2>2 DEF CooldownKept, OneEmailPerCooldown
<1>4. ASSUME UNCHANGED <<threads, deliveries>> PROVE CooldownKept' /\ OneEmailPerCooldown'
  BY <1>4 DEF CooldownKept, OneEmailPerCooldown
<1>5. ASSUME NEW w \in Writers,
             SelectThread(w) \/ InsertThread(w) \/ InsertConflicts(w) \/ Abort(w)
      PROVE  CooldownKept' /\ OneEmailPerCooldown'
  BY <1>4, <1>5 DEF SelectThread, InsertThread, InsertConflicts, Abort
<1>6. ASSUME NEW w \in Writers, NEW k \in Keys, NEW to \in SUBSET Users \ {{}}, Occur(w, k, to)
      PROVE  CooldownKept' /\ OneEmailPerCooldown'
  BY <1>4, <1>6 DEF Occur
<1> QED
  BY <1>1, <1>2, <1>3, <1>4, <1>5, <1>6 DEF Next, WriterStep, Tick, vars

(* However the events of a key overlap or commit out of order, a user gets *)
(* one email about it in a cooldown.                                       *)
THEOREM MailedOncePerCooldown == Spec => []OneEmailPerCooldown
<1>1. Init => CooldownKept /\ OneEmailPerCooldown
  BY DEF Init, CooldownKept, OneEmailPerCooldown
<1> QED
  BY ProtocolInit, ProtocolStep, MailStep, <1>1, PTL DEF Spec

(* An event that fails by itself, because the thread it was about to       *)
(* insert is there by now, had a twin that was committed after it occurred.*)
LEMMA TwinInit == Init => LiveAreNew /\ ConflictHasATwin /\ LossHasATwin
BY DEF Init, LiveAreNew, ConflictHasATwin, LossHasATwin, At, NoEvent

LEMMA LiveStep == Protocol /\ LiveAreNew /\ [Next]_vars => LiveAreNew'
<1> SUFFICES ASSUME Protocol, LiveAreNew, [Next]_vars PROVE LiveAreNew'
  OBVIOUS
<1> USE DEF Protocol
<1>t. /\ TypeOK /\ tx \in [Writers -> Transactions \union {NoEvent}]
      /\ events \in Nat /\ now \in Nat
      /\ \A w \in Writers : tx[w] # NoEvent =>
           tx[w] \in Transactions /\ tx[w].id \in Nat /\ tx[w].at \in Nat
  BY DEF TypeOK, Transactions, Times
<1>1. CASE Tick
  BY <1>1, <1>t DEF Tick, LiveAreNew
<1>2. ASSUME NEW w \in Writers, NEW k \in Keys, NEW to \in SUBSET Users \ {{}}, Occur(w, k, to)
      PROVE  LiveAreNew'
  <2>1. /\ tx' = [tx EXCEPT ![w] = [step |-> "select", id |-> events, key |-> k,
                                    to |-> to, at |-> now]]
        /\ events' = events + 1 /\ UNCHANGED <<now, stored>>
    BY <1>2 DEF Occur
  <2>2. \A s \in stored : s.id \in Nat
    BY DEF TypeOK, Events
  <2> QED
    BY <2>1, <2>2, <1>t DEF LiveAreNew
<1>3. ASSUME NEW w \in Writers, NEW step,
             tx' = [tx EXCEPT ![w].step = step], tx[w] # NoEvent,
             UNCHANGED <<now, stored, events>>
      PROVE  LiveAreNew'
  <2>1. \A v \in Writers : tx'[v] # NoEvent => tx[v] # NoEvent
    BY <1>3, <1>t
  <2>2. \A v \in Writers : tx[v] # NoEvent => tx'[v].id = tx[v].id /\ tx'[v].at = tx[v].at
    BY <1>3, <1>t DEF Transactions
  <2> QED
    BY <1>3, <2>1, <2>2 DEF LiveAreNew
<1>4. ASSUME NEW w \in Writers, tx' = [tx EXCEPT ![w] = NoEvent], tx[w] # NoEvent,
             UNCHANGED <<now, events>>,
             stored' = stored \/ stored' = stored \union {Event(w)}
      PROVE  LiveAreNew'
  <2>1. Event(w).id = tx[w].id
    BY DEF Event
  <2>2. tx'[w] = NoEvent /\ \A v \in Writers \ {w} : tx'[v] = tx[v]
    BY <1>4, <1>t
  <2>3. \A s \in stored' : s \in stored \/ s = Event(w)
    BY <1>4
  <2> QED
    BY <1>4, <2>1, <2>2, <2>3 DEF LiveAreNew
<1>5. ASSUME NEW w \in Writers, SelectThread(w) \/ InsertThread(w) PROVE LiveAreNew'
  <2>1. tx[w] # NoEvent /\ UNCHANGED <<now, stored, events>>
    BY <1>5 DEF SelectThread, InsertThread, At, NoEvent
  <2>2. PICK step : tx' = [tx EXCEPT ![w].step = step]
    BY <1>5 DEF SelectThread, InsertThread, Goto
  <2> QED
    BY <1>3, <2>1, <2>2
<1>6. ASSUME NEW w \in Writers,
             InsertConflicts(w) \/ CommitFirst(w) \/ CommitNext(w) \/ Abort(w)
      PROVE  LiveAreNew'
  <2>1. tx' = [tx EXCEPT ![w] = NoEvent] /\ UNCHANGED <<now, events>>
    BY <1>6 DEF InsertConflicts, CommitFirst, CommitNext, Abort
  <2>2. tx[w] # NoEvent
    <3>1. CASE At(w, "insert") \/ At(w, "inserted") \/ At(w, "locked")
      BY <3>1 DEF At, NoEvent
    <3> QED
      BY <1>6, <3>1 DEF InsertConflicts, CommitFirst, CommitNext, Abort
  <2>3. stored' = stored \/ stored' = stored \union {Event(w)}
    BY <1>6 DEF InsertConflicts, CommitFirst, CommitNext, Abort
  <2> QED
    BY <1>4, <2>1, <2>2, <2>3
<1>7. ASSUME UNCHANGED <<tx, stored, now, events>> PROVE LiveAreNew'
  BY <1>7 DEF LiveAreNew
<1>8. ASSUME NEW u \in Users, NEW k \in Keys, MarkThreadRead(u, k) PROVE LiveAreNew'
  BY <1>7, <1>8 DEF MarkThreadRead
<1> QED
  BY <1>1, <1>2, <1>5, <1>6, <1>7, <1>8 DEF Next, WriterStep, vars

LEMMA TwinStep ==
  Protocol /\ LiveAreNew /\ ConflictHasATwin /\ LossHasATwin /\ [Next]_vars
    => ConflictHasATwin' /\ LossHasATwin'
<1> SUFFICES ASSUME Protocol, LiveAreNew, ConflictHasATwin, LossHasATwin, [Next]_vars
             PROVE  ConflictHasATwin' /\ LossHasATwin'
  OBVIOUS
<1> USE DEF Protocol
<1>t. tx \in [Writers -> Transactions \union {NoEvent}]
  BY DEF TypeOK
<1>k. stored \subseteq stored'
  BY DEF Next, vars, Tick, Occur, WriterStep, SelectThread, InsertThread, InsertConflicts,
         CommitFirst, CommitNext, Abort, MarkThreadRead
<1>u. \A e : TwinOf(e) => TwinOf(e)'
  BY <1>k DEF TwinOf
<1>l. ASSUME lost' = lost PROVE LossHasATwin'
  BY <1>l, <1>k DEF LossHasATwin
<1>1. ASSUME UNCHANGED <<tx, threads, lost>> PROVE ConflictHasATwin' /\ LossHasATwin'
  <2>1. \A w \in Writers : TwinOf(tx[w]) => TwinOf(tx[w])'
    BY <1>1, <1>u DEF TwinOf
  <2> QED
    BY <1>1, <1>l, <2>1 DEF ConflictHasATwin, At, Exists
<1>2. ASSUME NEW w \in Writers, NEW new, tx' = [tx EXCEPT ![w] = new],
             new.step # "insert" \/ ~ Exists(new.key),
             threads' = threads
      PROVE  ConflictHasATwin'
  <2> SUFFICES ASSUME NEW v \in Writers, At(v, "insert")', Exists(tx[v].key)'
               PROVE  TwinOf(tx[v])'
    BY DEF ConflictHasATwin
  <2>1. v # w /\ tx'[v] = tx[v]
    BY <1>2, <1>t DEF At, Exists
  <2>2. TwinOf(tx[v])
    BY <1>2, <2>1 DEF ConflictHasATwin, At, Exists
  <2> QED
    BY <2>1, <2>2, <1>k DEF TwinOf
<1>3. ASSUME NEW w \in Writers, NEW k \in Keys, NEW to \in SUBSET Users \ {{}}, Occur(w, k, to)
      PROVE  ConflictHasATwin' /\ LossHasATwin'
  BY <1>2, <1>3, <1>l DEF Occur
<1>4. ASSUME NEW w \in Writers, SelectThread(w) PROVE ConflictHasATwin' /\ LossHasATwin'
  <2>1. tx' = [tx EXCEPT ![w] = [tx[w] EXCEPT !.step = IF Exists(tx[w].key) THEN "locked"
                                                      ELSE "insert"]]
    BY <1>4, <1>t DEF SelectThread, Goto
  <2>2. tx[w] \in Transactions
    BY <1>4, <1>t DEF SelectThread, At, NoEvent
  <2> DEFINE new == [tx[w] EXCEPT !.step = IF Exists(tx[w].key) THEN "locked" ELSE "insert"]
  <2>3. new.step # "insert" \/ ~ Exists(new.key)
    BY <2>2 DEF Transactions
  <2>4. threads' = threads /\ lost' = lost
    BY <1>4 DEF SelectThread
  <2> HIDE DEF new
  <2>5. tx' = [tx EXCEPT ![w] = new]
    BY <2>1 DEF new
  <2> QED
    BY <1>2, <1>l, <2>3, <2>4, <2>5
<1>5. ASSUME NEW w \in Writers, InsertThread(w) PROVE ConflictHasATwin' /\ LossHasATwin'
  <2> DEFINE new == [tx[w] EXCEPT !.step = "inserted"]
  <2>1. tx[w] \in Transactions
    BY <1>5, <1>t DEF InsertThread, At, NoEvent
  <2>2. new.step # "insert"
    BY <2>1 DEF Transactions
  <2>3. tx' = [tx EXCEPT ![w] = new] /\ threads' = threads /\ lost' = lost
    BY <1>5, <1>t DEF InsertThread, Goto
  <2> HIDE DEF new
  <2> QED
    BY <1>2, <1>l, <2>2, <2>3
<1>6. ASSUME NEW w \in Writers, Abort(w) PROVE ConflictHasATwin' /\ LossHasATwin'
  <2>1. tx' = [tx EXCEPT ![w] = NoEvent] /\ threads' = threads /\ lost' = lost
    BY <1>6 DEF Abort
  <2>2. NoEvent.step # "insert"
    BY DEF NoEvent
  <2> QED
    BY <1>2, <1>l, <2>1, <2>2
<1>7. ASSUME NEW w \in Writers, InsertConflicts(w) PROVE ConflictHasATwin' /\ LossHasATwin'
  <2>1. /\ tx' = [tx EXCEPT ![w] = NoEvent] /\ threads' = threads /\ stored' = stored
        /\ lost' = lost \union {Event(w)} /\ At(w, "insert") /\ Exists(tx[w].key)
    BY <1>7 DEF InsertConflicts
  <2>2. NoEvent.step # "insert"
    BY DEF NoEvent
  <2>3. ConflictHasATwin'
    BY <1>2, <2>1, <2>2
  <2>4. TwinOf(tx[w])
    BY <2>1 DEF ConflictHasATwin
  <2>5. LossHasATwin'
    BY <2>1, <2>4 DEF LossHasATwin, TwinOf, Event
  <2> QED
    BY <2>3, <2>5
<1>8. ASSUME NEW w \in Writers, CommitFirst(w) PROVE ConflictHasATwin' /\ LossHasATwin'
  <2>1. /\ tx[w] # NoEvent /\ Event(w).end = now /\ Event(w).key = tx[w].key
        /\ Event(w).id = tx[w].id /\ Event(w) \in stored'
        /\ tx' = [tx EXCEPT ![w] = NoEvent] /\ lost' = lost
    BY <1>8 DEF CommitFirst, At, NoEvent, Event
  <2>2. \A k : Exists(k)' <=> Exists(k) \/ k = Event(w).key
    BY <1>8, RowsAfterFirst
  <2>3. now \in Nat
    BY DEF TypeOK, Times
  <2> SUFFICES ASSUME NEW v \in Writers, At(v, "insert")', Exists(tx[v].key)'
               PROVE  TwinOf(tx[v])'
    BY <2>1, <1>l DEF ConflictHasATwin
  <2>4. v # w /\ tx'[v] = tx[v] /\ At(v, "insert") /\ tx[v] # NoEvent
    BY <2>1, <1>t DEF At, NoEvent
  <2>5. CASE Exists(tx[v].key)
    BY <2>4, <2>5, <1>k DEF ConflictHasATwin, TwinOf
  <2>6. CASE tx[v].key = Event(w).key
    <3>1. tx[v].at <= now /\ tx[v].id # tx[w].id
      BY <2>1, <2>4 DEF LiveAreNew
    <3> QED
      BY <2>1, <2>4, <2>6, <3>1 DEF TwinOf
  <2>7. Exists(tx[v].key) \/ tx[v].key = Event(w).key
    BY <2>2, <2>4 DEF Exists
  <2> QED
    BY <2>5, <2>6, <2>7
<1>9. ASSUME NEW w \in Writers, CommitNext(w) PROVE ConflictHasATwin' /\ LossHasATwin'
  <2>1. tx' = [tx EXCEPT ![w] = NoEvent] /\ lost' = lost
    BY <1>9 DEF CommitNext
  <2>2. \A k : Exists(k)' <=> Exists(k)
    BY <1>9, RowsAfterNext
  <2> SUFFICES ASSUME NEW v \in Writers, At(v, "insert")', Exists(tx[v].key)'
               PROVE  TwinOf(tx[v])'
    BY <2>1, <1>l DEF ConflictHasATwin
  <2>3. v # w /\ tx'[v] = tx[v] /\ At(v, "insert")
    BY <2>1, <1>t DEF At, NoEvent
  <2>4. Exists(tx[v].key)
    BY <2>2, <2>3 DEF Exists
  <2> QED
    BY <2>3, <2>4, <1>k DEF ConflictHasATwin, TwinOf
<1>10. ASSUME NEW u \in Users, NEW k \in Keys, MarkThreadRead(u, k)
       PROVE  ConflictHasATwin' /\ LossHasATwin'
  BY <1>1, <1>10 DEF MarkThreadRead
<1> QED
  BY <1>1, <1>3, <1>4, <1>5, <1>6, <1>7, <1>8, <1>9, <1>10 DEF Next, WriterStep, Tick, vars

(* An event is lost without a fault only beside another one of its key     *)
(* that was committed after it had occurred.                               *)
THEOREM LostBesideATwin == Spec => []LossHasATwin
BY ProtocolInit, ProtocolStep, TwinInit, LiveStep, TwinStep, PTL DEF Spec

EndsArePast == \A e \in stored : e.end <= now

LEMMA CountInit == Init => StoredHasThread /\ ThreadsCountEvents /\ EndsArePast
BY FS_EmptySet DEF Init, StoredHasThread, ThreadsCountEvents, EndsArePast

(* A step never takes time back, and an event is committed now.            *)
LEMMA EndsStep == Protocol /\ EndsArePast /\ [Next]_vars => EndsArePast'
<1> SUFFICES ASSUME Protocol, EndsArePast, [Next]_vars, NEW e \in stored'
             PROVE  e.end <= now'
  BY DEF EndsArePast
<1>1. now \in Nat /\ \A s \in stored : s.end \in Nat
  BY DEF Protocol, TypeOK, Times, Events
<1>2. CASE Tick
  BY <1>1, <1>2 DEF Tick, EndsArePast
<1>3. ASSUME NEW w \in Writers, CommitFirst(w) \/ CommitNext(w) PROVE e.end <= now'
  <2>1. now' = now /\ stored' = stored \union {Event(w)} /\ Event(w).end = now
    BY <1>3 DEF CommitFirst, CommitNext, Event
  <2> QED
    BY <1>1, <2>1 DEF EndsArePast
<1>4. CASE stored' = stored /\ now' = now
  BY <1>4 DEF EndsArePast
<1> QED
  BY <1>2, <1>3, <1>4 DEF Next, WriterStep, Occur, SelectThread, InsertThread,
     InsertConflicts, Abort, MarkThreadRead, vars

(* An event that is stored is one more under its key, and changes nothing  *)
(* under another.                                                          *)
LEMMA OneMoreStored ==
  ASSUME IsFiniteSet(stored), NEW e, e \notin stored, stored' = stored \union {e}
  PROVE  /\ IsFiniteSet(stored')
         /\ \A k : IsFiniteSet(StoredOf(k)) /\ Cardinality(StoredOf(k)) \in Nat
         /\ Cardinality(StoredOf(e.key))' = Cardinality(StoredOf(e.key)) + 1
         /\ \A k : k # e.key => StoredOf(k)' = StoredOf(k)
<1>1. IsFiniteSet(stored')
  BY FS_AddElement
<1>2. \A k : IsFiniteSet(StoredOf(k)) /\ Cardinality(StoredOf(k)) \in Nat
  BY FS_Subset, FS_CardinalityType DEF StoredOf
<1>3. StoredOf(e.key)' = StoredOf(e.key) \union {e} /\ e \notin StoredOf(e.key)
  BY DEF StoredOf
<1>4. Cardinality(StoredOf(e.key))' = Cardinality(StoredOf(e.key)) + 1
  BY <1>2, <1>3, FS_AddElement
<1>5. \A k : k # e.key => StoredOf(k)' = StoredOf(k)
  BY DEF StoredOf
<1> QED
  BY <1>1, <1>2, <1>4, <1>5

FirstOf(t, mine) == \E e \in mine : e.at = t.first /\ \A f \in mine : e.end <= f.end

LastOf(t, mine) == \E e \in mine : e.at = t.last /\ \A f \in mine : f.end <= e.end

LEMMA CountStep ==
  Protocol /\ LiveAreNew /\ EndsArePast /\ StoredHasThread /\ ThreadsCountEvents /\ [Next]_vars
    => StoredHasThread' /\ ThreadsCountEvents'
<1> SUFFICES ASSUME Protocol, LiveAreNew, EndsArePast, StoredHasThread, ThreadsCountEvents,
                    [Next]_vars
             PROVE  StoredHasThread' /\ ThreadsCountEvents'
  OBVIOUS
<1>c. \A t \in threads :
        /\ t.count = Cardinality(StoredOf(t.key))
        /\ LastOf(t, StoredOf(t.key)) /\ FirstOf(t, StoredOf(t.key))
  BY DEF ThreadsCountEvents, StoredOf, FirstOf, LastOf
<1>n. now \in Nat /\ \A s \in stored : s.end \in Nat /\ s.end <= now
  BY DEF Protocol, TypeOK, Times, Events, EndsArePast
<1>1. ASSUME UNCHANGED <<threads, stored>> PROVE StoredHasThread' /\ ThreadsCountEvents'
  BY <1>1 DEF StoredHasThread, ThreadsCountEvents, Exists
<1>2. ASSUME NEW w \in Writers, CommitFirst(w) PROVE StoredHasThread' /\ ThreadsCountEvents'
  <2>0. PICK e, new : e = Event(w) /\ new = NewThread(e)
    OBVIOUS
  <2>1. /\ e \in Events /\ tx[w] # NoEvent /\ ~ Exists(e.key)
        /\ threads' = threads \union {new} /\ stored' = stored \union {e}
    BY <1>2, <2>0, FirstCommitted
  <2>2. new.key = e.key /\ new.count = 1 /\ new.first = e.at /\ new.last = e.at
    BY <2>0 DEF NewThread
  <2>3. e \notin stored
    BY <2>0, <2>1 DEF LiveAreNew, Event
  <2>4. \A k : Exists(k)' <=> Exists(k) \/ k = e.key
    BY <1>2, <2>0, RowsAfterFirst
  <2>5. /\ IsFiniteSet(stored')
        /\ Cardinality(StoredOf(e.key))' = Cardinality(StoredOf(e.key)) + 1
        /\ \A k : k # e.key => StoredOf(k)' = StoredOf(k)
    BY <2>1, <2>3, OneMoreStored DEF StoredHasThread
  <2>6. StoredHasThread'
    BY <2>1, <2>4, <2>5 DEF StoredHasThread
  <2>7. StoredOf(e.key) = {} /\ e \in StoredOf(e.key)'
    BY <2>1 DEF StoredHasThread, StoredOf
  <2>8. Cardinality(StoredOf(e.key))' = 1
    BY <2>5, <2>7, FS_EmptySet
  <2>9. ASSUME NEW t \in threads'
        PROVE  /\ t.count = Cardinality(StoredOf(t.key))'
               /\ LastOf(t, StoredOf(t.key)') /\ FirstOf(t, StoredOf(t.key)')
    <3>1. CASE t = new
      <4>1. StoredOf(e.key)' = {e}
        BY <2>1, <2>7 DEF StoredOf
      <4>2. e.end = now
        BY <2>0 DEF Event
      <4> QED
        BY <1>n, <3>1, <2>2, <2>8, <4>1, <4>2 DEF FirstOf, LastOf
    <3>2. CASE t \in threads
      <4>1. StoredOf(t.key)' = StoredOf(t.key)
        BY <3>2, <2>1, <2>5 DEF Exists
      <4> QED
        BY <3>2, <4>1, <1>c
    <3> QED
      BY <2>1, <2>9, <3>1, <3>2
  <2> QED
    BY <2>6, <2>9 DEF ThreadsCountEvents, StoredOf, FirstOf, LastOf
<1>3. ASSUME NEW w \in Writers, CommitNext(w) PROVE StoredHasThread' /\ ThreadsCountEvents'
  <2>0. PICK e : e = Event(w)
    OBVIOUS
  <2>1. PICK t \in threads :
          /\ e \in Events /\ tx[w] # NoEvent /\ t.key = e.key /\ t \in Threads
          /\ \A u \in threads : u.key = t.key => u = t
          /\ threads' = (threads \ {t}) \union {Updated(t, e)}
          /\ stored' = stored \union {e}
    BY <1>3, <2>0, NextCommitted
  <2>y. PICK new : new = Updated(t, e)
    OBVIOUS
  <2>2. new.key = e.key /\ new.count = t.count + 1 /\ new.first = t.first /\ new.last = e.at
    BY <2>1, <2>y, UpdatedType
  <2>3. e \notin stored
    BY <2>0, <2>1 DEF LiveAreNew, Event
  <2>4. \A k : Exists(k)' <=> Exists(k)
    BY <1>3, RowsAfterNext
  <2>x. threads' = (threads \ {t}) \union {new}
    BY <2>1, <2>y
  <2>5. /\ IsFiniteSet(stored')
        /\ Cardinality(StoredOf(e.key))' = Cardinality(StoredOf(e.key)) + 1
        /\ \A k : k # e.key => StoredOf(k)' = StoredOf(k)
    BY <2>1, <2>3, OneMoreStored DEF StoredHasThread
  <2>6. StoredHasThread'
    BY <2>1, <2>4, <2>5 DEF StoredHasThread, Exists
  <2>7. e \in StoredOf(e.key)' /\ \A s \in StoredOf(e.key) : s \in StoredOf(e.key)'
    BY <2>1 DEF StoredOf
  <2>8. ASSUME NEW u \in threads'
        PROVE  /\ u.count = Cardinality(StoredOf(u.key))'
               /\ LastOf(u, StoredOf(u.key)') /\ FirstOf(u, StoredOf(u.key)')
    <3>1. CASE u = new
      <4>1. e.end = now
        BY <2>0 DEF Event
      <4>2. \A s \in StoredOf(e.key)' :
              s = e \/ (s \in StoredOf(e.key) /\ s.end \in Nat /\ s.end <= now)
        BY <1>n, <2>1 DEF StoredOf
      <4>3. LastOf(new, StoredOf(e.key)')
        BY <1>n, <2>2, <2>7, <4>1, <4>2 DEF LastOf
      <4>4. FirstOf(new, StoredOf(e.key)')
        <5>1. PICK f \in StoredOf(t.key) :
                f.at = t.first /\ \A s \in StoredOf(t.key) : f.end <= s.end
          BY <1>c DEF FirstOf
        <5>2. f \in StoredOf(e.key)' /\ f.end <= now
          BY <1>n, <2>1, <2>7, <5>1 DEF StoredOf
        <5> QED
          BY <2>1, <2>2, <4>1, <4>2, <5>1, <5>2 DEF FirstOf
      <4> QED
        BY <3>1, <2>1, <2>2, <2>5, <4>3, <4>4, <1>c
    <3>2. CASE u \in threads /\ u # t
      <4>1. StoredOf(u.key)' = StoredOf(u.key)
        BY <3>2, <2>1, <2>5
      <4> QED
        BY <3>2, <4>1, <1>c
    <3> QED
      BY <2>x, <2>8, <3>1, <3>2
  <2> QED
    BY <2>6, <2>8 DEF ThreadsCountEvents, StoredOf, FirstOf, LastOf
<1>4. ASSUME NEW w \in Writers, NEW k \in Keys, NEW to \in SUBSET Users \ {{}}, Occur(w, k, to)
      PROVE  StoredHasThread' /\ ThreadsCountEvents'
  BY <1>1, <1>4 DEF Occur
<1>5. ASSUME NEW w \in Writers,
             SelectThread(w) \/ InsertThread(w) \/ InsertConflicts(w) \/ Abort(w)
      PROVE  StoredHasThread' /\ ThreadsCountEvents'
  BY <1>1, <1>5 DEF SelectThread, InsertThread, InsertConflicts, Abort
<1>6. ASSUME NEW u \in Users, NEW k \in Keys, MarkThreadRead(u, k)
      PROVE  StoredHasThread' /\ ThreadsCountEvents'
  BY <1>1, <1>6 DEF MarkThreadRead
<1>7. CASE Tick \/ UNCHANGED vars
  BY <1>1, <1>7 DEF Tick, vars
<1> QED
  BY <1>2, <1>3, <1>4, <1>5, <1>6, <1>7 DEF Next, WriterStep

(* However the transactions of a key overlap, its thread counts the events *)
(* stored under it, from the one committed first to the one committed last.*)
THEOREM ThreadsCounted == Spec => []ThreadsCountEvents
BY ProtocolInit, ProtocolStep, TwinInit, LiveStep, CountInit, EndsStep, CountStep, PTL DEF Spec

====
