---- MODULE DeviceIngestionProofs ----
(***************************************************************************)
(* For any number of organizations, tokens, devices and overlapping        *)
(* requests: the fleet shows the snapshot of a device committed last, a    *)
(* token verifies the snapshots of one device, a revoked token stays       *)
(* revoked, and a device with a row keeps its organization.                *)
(***************************************************************************)
EXTENDS DeviceIngestion, TLAPS

USE IngestionAssumption

-----------------------------------------------------------------------------
(* The inductive invariants: of the requests and tokens, of the device's   *)
(* row, of the fleet.                                                      *)

\* A request that is stored is a valid snapshot of its device.
RequestsAreReports ==
  \A q \in Requests :
    /\ ~ At(q, "idle") => \/ req[q].content = Invalid
                          \/ /\ req[q].device \in Devices
                             /\ req[q].content \in Snapshots(req[q].device)
    /\ req[q].step \in {"device", "agents", "commit"} => req[q].content.valid

\* The token is verified: it is that of the device claimed.
Verified(q) == req[q].step \in {"check", "device", "agents", "commit", "failed"}

TokensAreBound ==
  /\ \A k \in Tokens : tokens[k].status = "occupied" => tokens[k].device # None
  /\ \A q \in Requests :
       /\ Verified(q) => tokens[req[q].token].device = req[q].claimed
       /\ At(q, "bind") => /\ tokens[req[q].token].status = "pending"
                           /\ ~ OtherDevice(req[q].token, req[q].claimed)
  /\ \A p, q \in Requests :
       At(p, "bind") /\ At(q, "bind") /\ req[p].token = req[q].token => p = q
  /\ \A r \in reported : tokens[r[1]].device = r[2]

\* One transaction at a time holds the row of a device.
Writing(q) == At(q, "agents") \/ At(q, "commit")

OneWriter ==
  \A p, q \in Requests : Writing(p) /\ Writing(q) /\ req[p].device = req[q].device => p = q

\* What a transaction makes invisible is still what is missing when it commits.
GoneIsMissing == \A q \in Requests : At(q, "commit") => req[q].gone = Missing(req[q].content)

Typed == TypeOK /\ RequestsAreReports

-----------------------------------------------------------------------------
(* What a step does to the requests.                                       *)

Steps == {"verify", "bind", "check", "device", "agents", "commit", "failed"}

Kept(q) ==
  /\ req'[q].token = req[q].token /\ req'[q].claimed = req[q].claimed
  /\ req'[q].device = req[q].device /\ req'[q].content = req[q].content

Same(q) == Kept(q) /\ req'[q].step = req[q].step /\ req'[q].gone = req[q].gone

Others(q) == \A p \in Requests \ {q} : Same(p)

(* A request that goes on keeps its token, device and content.             *)
LEMMA Moved ==
  ASSUME TypeOK, NEW q \in Requests, ~ At(q, "idle"), NEW step \in Steps, Goto(q, step)
  PROVE  /\ req' \in [Requests -> Reports \union {Idle}]
         /\ Others(q) /\ Kept(q) /\ req'[q].step = step
<1>1. req \in [Requests -> Reports \union {Idle}] /\ req[q] \in Reports
  BY DEF TypeOK, At, Idle
<1> DEFINE new == [req[q] EXCEPT !.step = step]
<1>2. /\ new \in Reports /\ new.step = step /\ new.token = req[q].token
      /\ new.claimed = req[q].claimed
      /\ new.device = req[q].device /\ new.content = req[q].content
  BY <1>1 DEF Reports, Steps
<1>3. req' = [req EXCEPT ![q] = new]
  BY <1>1 DEF Goto
<1> HIDE DEF new
<1> QED
  BY <1>1, <1>2, <1>3 DEF Others, Kept, Same

(* A request that begins or ends leaves the others alone.                  *)
LEMMA Replaced ==
  ASSUME TypeOK, NEW q \in Requests, NEW new \in Reports \union {Idle},
         req' = [req EXCEPT ![q] = new]
  PROVE  req' \in [Requests -> Reports \union {Idle}] /\ Others(q) /\ req'[q] = new
BY DEF TypeOK, Others, Kept, Same

LEMMA Unmoved ==
  ASSUME req' = req PROVE \A q \in Requests : Same(q)
BY DEF Same, Kept

(* A report comes in with what its device has, or is one that is refused.  *)
LEMMA Sent ==
  ASSUME TypeOK, NEW q \in Requests, Send(q) \/ SendInvalid(q)
  PROVE  /\ req' \in [Requests -> Reports \union {Idle}]
         /\ Others(q) /\ req'[q].step = "verify"
         /\ \/ req'[q].content = Invalid
            \/ req'[q].device \in Devices /\ req'[q].content \in Snapshots(req'[q].device)
         /\ UNCHANGED <<tokens, past, rows, actual, changes>> /\ faults' \in Nat
<1>1. ASSUME NEW k \in Tokens, NEW claimed \in Devices \union {Unknown}, NEW d \in Devices,
             NEW content \in AllSnapshots \union {Invalid}
      PROVE  /\ Request(k, claimed, d, content) \in Reports
             /\ Request(k, claimed, d, content).step = "verify"
             /\ Request(k, claimed, d, content).device = d
             /\ Request(k, claimed, d, content).content = content
  BY DEF Request, Reports
<1>2. CASE Send(q)
  <2>1. PICK t \in Senders[q] : req' = [req EXCEPT ![q] = Request(t[1], t[2], t[3], actual[t[3]])]
    BY <1>2 DEF Send
  <2>2. t[1] \in Tokens /\ t[2] \in Devices /\ t[3] \in Devices
    BY <2>1
  <2>3. actual[t[3]] \in AllSnapshots /\ actual[t[3]] \in Snapshots(t[3])
    BY <2>2 DEF TypeOK
  <2>4. UNCHANGED <<tokens, past, rows, actual, changes>> /\ faults' \in Nat
    BY <1>2 DEF Send, TypeOK
  <2>5. PICK new \in Reports :
          /\ new.step = "verify" /\ new.device = t[3] /\ new.content = actual[t[3]]
          /\ req' = [req EXCEPT ![q] = new]
    <3> DEFINE new == Request(t[1], t[2], t[3], actual[t[3]])
    <3>1. /\ new \in Reports /\ new.step = "verify" /\ new.device = t[3]
          /\ new.content = actual[t[3]]
      BY <1>1, <2>2, <2>3
    <3>2. req' = [req EXCEPT ![q] = new]
      BY <2>1
    <3> HIDE DEF new
    <3> QED
      BY <3>1, <3>2
  <2>6. req' \in [Requests -> Reports \union {Idle}] /\ Others(q) /\ req'[q] = new
    BY <2>5, Replaced
  <2> QED
    BY <2>2, <2>3, <2>4, <2>5, <2>6
<1>3. CASE SendInvalid(q)
  <2>1. PICK t \in Senders[q], claimed \in Devices \union {Unknown} :
          req' = [req EXCEPT ![q] = Request(t[1], claimed, t[3], Invalid)]
    BY <1>3 DEF SendInvalid
  <2>2. t[1] \in Tokens /\ t[3] \in Devices
    BY <2>1
  <2>3. UNCHANGED <<tokens, past, rows, actual, changes>> /\ faults' \in Nat
    BY <1>3 DEF SendInvalid, Fault, TypeOK
  <2>5. PICK new \in Reports :
          /\ new.step = "verify" /\ new.content = Invalid
          /\ req' = [req EXCEPT ![q] = new]
    <3> DEFINE new == Request(t[1], claimed, t[3], Invalid)
    <3>1. new \in Reports /\ new.step = "verify" /\ new.content = Invalid
      BY <1>1, <2>2
    <3>2. req' = [req EXCEPT ![q] = new]
      BY <2>1
    <3> HIDE DEF new
    <3> QED
      BY <3>1, <3>2
  <2>6. req' \in [Requests -> Reports \union {Idle}] /\ Others(q) /\ req'[q] = new
    BY <2>5, Replaced
  <2> QED
    BY <2>3, <2>5, <2>6
<1> QED
  BY <1>2, <1>3

(* The organization is checked: the request goes on only with a snapshot   *)
(* that could be normalized.                                               *)
LEMMA Checked ==
  ASSUME TypeOK, NEW q \in Requests, CheckOrganization(q)
  PROVE  /\ req' \in [Requests -> Reports \union {Idle}]
         /\ Others(q) /\ Kept(q)
         /\ req'[q].step \in {"failed", "device"}
         /\ req'[q].step = "device" => req[q].content.valid
         /\ UNCHANGED <<tokens, past, rows, actual, changes, faults>>
<1>0. UNCHANGED <<tokens, past, rows, actual, changes, faults>>
  BY DEF CheckOrganization
<1>1. At(q, "check") /\ ~ At(q, "idle")
  BY DEF CheckOrganization, At
<1>2. CASE Goto(q, "failed")
  BY <1>0, <1>1, <1>2, Moved DEF Steps
<1>3. CASE ~ Goto(q, "failed")
  <2>1. /\ req[q].content.valid
        /\ req' = [req EXCEPT ![q].step = "device",
                              ![q].bornUnknown = owner[req[q].device] = None]
    BY <1>3 DEF CheckOrganization, Normalized
  <2>2. req \in [Requests -> Reports \union {Idle}] /\ req[q] \in Reports
    BY <1>1 DEF TypeOK, At, Idle
  <2>3. PICK b \in BOOLEAN : b = (owner[req[q].device] = None)
    OBVIOUS
  <2> DEFINE new == [req[q] EXCEPT !.step = "device", !.bornUnknown = b]
  <2>4. /\ new \in Reports /\ new.step = "device" /\ new.token = req[q].token
        /\ new.claimed = req[q].claimed
        /\ new.device = req[q].device /\ new.content = req[q].content
    BY <2>2 DEF Reports
  <2>5. req' = [req EXCEPT ![q] = new]
    BY <2>1, <2>2, <2>3
  <2> HIDE DEF new
  <2>6. req' \in [Requests -> Reports \union {Idle}] /\ Others(q) /\ req'[q] = new
    BY <2>4, <2>5, Replaced
  <2> QED
    BY <1>0, <2>1, <2>4, <2>6 DEF Kept
<1> QED
  BY <1>2, <1>3

(* The agents that the snapshot misses are remembered for the commit.      *)
LEMMA Upserted ==
  ASSUME TypeOK, NEW q \in Requests, UpsertAgents(q)
  PROVE  /\ req' \in [Requests -> Reports \union {Idle}]
         /\ Others(q) /\ Kept(q) /\ req'[q].step = "commit"
         /\ req'[q].gone = Missing(req[q].content)
         /\ UNCHANGED <<tokens, past, rows, actual, changes, faults>>
<1>0. UNCHANGED <<tokens, past, rows, actual, changes, faults>>
  BY DEF UpsertAgents
<1>1. req \in [Requests -> Reports \union {Idle}] /\ req[q] \in Reports
  BY DEF UpsertAgents, TypeOK, At, Idle
<1>2. PICK gone \in SUBSET Agents : gone = Missing(req[q].content)
  BY DEF Missing
<1> DEFINE new == [req[q] EXCEPT !.step = "commit", !.gone = gone]
<1>3. /\ new \in Reports /\ new.step = "commit" /\ new.token = req[q].token
      /\ new.claimed = req[q].claimed
      /\ new.device = req[q].device /\ new.content = req[q].content /\ new.gone = gone
  BY <1>1 DEF Reports
<1>4. req' = [req EXCEPT ![q] = new]
  BY <1>1, <1>2 DEF UpsertAgents
<1> HIDE DEF new
<1> QED
  BY <1>0, <1>1, <1>2, <1>3, <1>4 DEF Others, Kept, Same

(* A failure that is recorded ends its request and marks the others.       *)
LEMMA Recorded ==
  ASSUME TypeOK, NEW q \in Requests, RecordFailed(q)
  PROVE  /\ req' \in [Requests -> Reports \union {Idle}]
         /\ Others(q) /\ req'[q] = Idle
         /\ UNCHANGED <<tokens, past, owner, agents, stored, reported, actual, changes, faults>>
         /\ latest' \in [Devices \X Orgs -> {"none", "succeeded", "failed"}]
<1>0. UNCHANGED <<tokens, past, owner, agents, stored, reported, actual, changes, faults>>
  BY DEF RecordFailed
<1>1. req \in [Requests -> Reports \union {Idle}] /\ req[q] \in Reports
  BY DEF RecordFailed, TypeOK, At, Idle
<1>2. req[q].claimed \in Devices \union {Unknown} /\ OrgOfRequest(q) \in Orgs
  BY <1>1 DEF Reports, OrgOfRequest
<1>3. latest' \in [Devices \X Orgs -> {"none", "succeeded", "failed"}]
  BY <1>2 DEF RecordFailed, TypeOK
<1>4. \A p \in Requests :
        \/ p = q /\ req'[p] = Idle
        \/ p # q /\ req'[p] = req[p]
        \/ p # q /\ req[p] \in Reports /\ req'[p] = [req[p] EXCEPT !.overtaken = TRUE]
  <2> SUFFICES ASSUME NEW p \in Requests, p # q
               PROVE  \/ req'[p] = req[p]
                      \/ req[p] \in Reports /\ req'[p] = [req[p] EXCEPT !.overtaken = TRUE]
    BY DEF RecordFailed
  <2>1. CASE req[p] = Idle
    BY <2>1 DEF RecordFailed, Idle
  <2>2. CASE req[p] # Idle
    BY <1>1, <2>2 DEF RecordFailed
  <2> QED
    BY <2>1, <2>2
<1>5. ASSUME NEW r \in Reports
      PROVE  /\ [r EXCEPT !.overtaken = TRUE] \in Reports
             /\ [r EXCEPT !.overtaken = TRUE].step = r.step
             /\ [r EXCEPT !.overtaken = TRUE].token = r.token
             /\ [r EXCEPT !.overtaken = TRUE].claimed = r.claimed
             /\ [r EXCEPT !.overtaken = TRUE].device = r.device
             /\ [r EXCEPT !.overtaken = TRUE].content = r.content
             /\ [r EXCEPT !.overtaken = TRUE].gone = r.gone
  BY DEF Reports
<1>6. DOMAIN req' = Requests /\ req' = [p \in Requests |-> req'[p]]
  BY DEF RecordFailed
<1>7. \A p \in Requests : req'[p] \in Reports \union {Idle}
  <2> SUFFICES ASSUME NEW p \in Requests PROVE req'[p] \in Reports \union {Idle}
    OBVIOUS
  <2>1. CASE p = q
    BY <1>4, <2>1
  <2>2. CASE p # q /\ req'[p] = req[p]
    BY <1>1, <2>2
  <2>3. CASE p # q /\ req[p] \in Reports /\ req'[p] = [req[p] EXCEPT !.overtaken = TRUE]
    BY <1>5, <2>3
  <2> QED
    BY <1>4, <2>1, <2>2, <2>3
<1>8. Others(q) /\ req'[q] = Idle
  <2>1. ASSUME NEW p \in Requests, p # q PROVE Same(p)
    <3>1. CASE req'[p] = req[p]
      BY <3>1 DEF Same, Kept
    <3>2. CASE req[p] \in Reports /\ req'[p] = [req[p] EXCEPT !.overtaken = TRUE]
      BY <1>5, <3>2 DEF Same, Kept
    <3> QED
      BY <1>4, <2>1, <3>1, <3>2
  <2> QED
    BY <1>4, <2>1 DEF Others
<1>9. req' \in [Requests -> Reports \union {Idle}]
  BY <1>6, <1>7
<1> QED
  BY <1>0, <1>3, <1>8, <1>9

(* A request ends.                                                         *)
LEMMA Ended ==
  ASSUME TypeOK, NEW q \in Requests, Refuse(q) \/ Commit(q) \/ Die(q)
  PROVE  req' \in [Requests -> Reports \union {Idle}] /\ Others(q) /\ req'[q] = Idle
<1>1. req' = [req EXCEPT ![q] = Idle]
  BY DEF Refuse, Commit, Die
<1> QED
  BY <1>1, Replaced

(* What the transaction of a snapshot writes is a snapshot of its device.  *)
LEMMA WritesItsDevice ==
  ASSUME Typed, NEW q \in Requests, req[q].step \in {"device", "agents", "commit"}
  PROVE  /\ req[q] \in Reports /\ req[q].device \in Devices /\ req[q].token \in Tokens
         /\ req[q].content \in Snapshots(req[q].device)
         /\ OrgOfRequest(q) \in Orgs
<1>1. req[q] \in Reports /\ ~ At(q, "idle")
  BY DEF Typed, TypeOK, At, Idle
<1>2. req[q].content # Invalid
  BY DEF Typed, RequestsAreReports, Invalid
<1> QED
  BY <1>1, <1>2 DEF Typed, RequestsAreReports, Reports, OrgOfRequest

(* The steps that move a request and nothing else.                         *)
LEMMA MovedOn ==
  ASSUME TypeOK, NEW q \in Requests, Select(q) \/ Bind(q) \/ UpsertDevice(q) \/ QueryFails(q)
  PROVE  /\ req' \in [Requests -> Reports \union {Idle}] /\ Others(q) /\ Kept(q)
         /\ Select(q) => req'[q].step \in {"bind", "check"}
         /\ Bind(q) => req'[q].step = "check"
         /\ UpsertDevice(q) => req'[q].step = "agents"
         /\ QueryFails(q) => req'[q].step = "failed"
<1>1. ~ At(q, "idle")
  BY DEF Select, Bind, UpsertDevice, QueryFails, At
<1>2. ASSUME NEW step \in Steps, Goto(q, step)
      PROVE  /\ req' \in [Requests -> Reports \union {Idle}] /\ Others(q) /\ Kept(q)
             /\ req'[q].step = step
  BY <1>1, <1>2, Moved
<1>3. CASE Select(q)
  <2>1. Goto(q, "bind") \/ Goto(q, "check")
    BY <1>3 DEF Select
  <2> QED
    BY <1>2, <1>3, <2>1 DEF Steps, Select, Bind, UpsertDevice, QueryFails, At
<1>4. CASE Bind(q)
  <2>1. Goto(q, "check")
    BY <1>4 DEF Bind
  <2> QED
    BY <1>2, <1>4, <2>1 DEF Steps, Select, Bind, UpsertDevice, QueryFails, At
<1>5. CASE UpsertDevice(q)
  <2>1. Goto(q, "agents")
    BY <1>5 DEF UpsertDevice
  <2> QED
    BY <1>2, <1>5, <2>1 DEF Steps, Select, Bind, UpsertDevice, QueryFails, At
<1>6. CASE QueryFails(q)
  <2>1. Goto(q, "failed")
    BY <1>6 DEF QueryFails
  <2> QED
    BY <1>2, <1>6, <2>1 DEF Steps, Select, Bind, UpsertDevice, QueryFails, At
<1> QED
  BY <1>3, <1>4, <1>5, <1>6

LEMMA CommitTyped ==
  ASSUME Typed, NEW q \in Requests, Commit(q)
  PROVE  /\ owner' \in [Devices -> Orgs \union {None}]
         /\ agents' \in [Agents -> {"none", "online", "invisible"}]
         /\ latest' \in [Devices \X Orgs -> {"none", "succeeded", "failed"}]
         /\ stored' \in [Devices -> AllSnapshots \union {Invalid}]
         /\ \A d \in Devices :
              stored'[d] \in IF owner'[d] = None THEN {Invalid} ELSE Snapshots(d)
         /\ reported' \subseteq Tokens \X (Devices \union {Unknown})
<1> DEFINE d == req[q].device
           org == OrgOfRequest(q)
<1>1. /\ req[q] \in Reports /\ d \in Devices /\ req[q].token \in Tokens
      /\ req[q].content \in Snapshots(d) /\ org \in Orgs
  BY WritesItsDevice DEF Commit, At
<1>2. /\ owner' = [owner EXCEPT ![d] = Owner(@, org)]
      /\ latest' = IF req[q].overtaken THEN latest
                   ELSE [latest EXCEPT ![<<d, org>>] = "succeeded"]
      /\ stored' = [stored EXCEPT ![d] = req[q].content]
      /\ reported' = reported \union {<<req[q].token, req[q].claimed>>}
  BY DEF Commit
<1>3. /\ owner \in [Devices -> Orgs \union {None}]
      /\ latest \in [Devices \X Orgs -> {"none", "succeeded", "failed"}]
      /\ stored \in [Devices -> AllSnapshots \union {Invalid}]
      /\ \A e \in Devices : stored[e] \in IF owner[e] = None THEN {Invalid} ELSE Snapshots(e)
      /\ reported \subseteq Tokens \X (Devices \union {Unknown})
  BY DEF Typed, TypeOK
<1>4. /\ agents' \in [Agents -> {"none", "online", "invisible"}]
      /\ req[q].claimed \in Devices \union {Unknown}
  BY <1>1 DEF Commit, Typed, TypeOK, Reports
<1> HIDE DEF d, org
<1>5. req[q].content \in AllSnapshots
  BY <1>1 DEF AllSnapshots
<1>6. Owner(owner[d], org) \in Orgs
  BY <1>1, <1>3 DEF Owner
<1> QED
  BY <1>1, <1>2, <1>3, <1>4, <1>5, <1>6

LEMMA TypedInit == Init => Typed
<1>1. \A d \in Devices : Nothing \in Snapshots(d) /\ Nothing \in AllSnapshots
  BY DEF Snapshots, AllSnapshots
<1> QED
  BY <1>1 DEF Init, Typed, TypeOK, RequestsAreReports, At, Idle

(* A request that goes on, ends or begins is still a report.               *)
LEMMA ReportsStay ==
  ASSUME Typed, NEW q \in Requests, Others(q),
         \/ req'[q] = Idle
         \/ /\ Kept(q) /\ ~ At(q, "idle")
            /\ req'[q].step \in {"device", "agents", "commit"} => req[q].content.valid
         \/ /\ req'[q].step = "verify"
            /\ \/ req'[q].content = Invalid
               \/ req'[q].device \in Devices /\ req'[q].content \in Snapshots(req'[q].device)
  PROVE  RequestsAreReports'
<1> SUFFICES ASSUME NEW p \in Requests
             PROVE  /\ ~ At(p, "idle")' => \/ req'[p].content = Invalid
                                           \/ /\ req'[p].device \in Devices
                                              /\ req'[p].content \in Snapshots(req'[p].device)
                    /\ req'[p].step \in {"device", "agents", "commit"} => req'[p].content.valid
  BY DEF RequestsAreReports
<1>1. CASE p # q
  BY <1>1 DEF Others, Same, Kept, Typed, RequestsAreReports, At
<1>2. CASE p = q
  BY <1>2 DEF Kept, Typed, RequestsAreReports, At, Idle
<1> QED
  BY <1>1, <1>2

LEMMA TypedStep == Typed /\ [Next]_vars => Typed'
<1> SUFFICES ASSUME Typed, [Next]_vars PROVE Typed'
  OBVIOUS
<1>0. TypeOK
  BY DEF Typed
<1>t. tokens \in [Tokens -> [status : {"pending", "occupied", "revoked", "expired"},
                             device : Devices \union {Unknown, None}]]
  BY <1>0 DEF TypeOK
<1>1. ASSUME UNCHANGED vars PROVE Typed'
  BY <1>1 DEF vars, Typed, TypeOK, RequestsAreReports, At
<1>2. ASSUME NEW d \in Devices, Change(d) PROVE Typed'
  <2>1. PICK c \in Snapshots(d) : actual' = [actual EXCEPT ![d] = c]
    BY <1>2 DEF Change
  <2>2. actual' \in [Devices -> AllSnapshots] /\ \A e \in Devices : actual'[e] \in Snapshots(e)
    BY <1>0, <2>1 DEF TypeOK, AllSnapshots
  <2>3. UNCHANGED <<tokens, past, rows, req, faults>> /\ changes' \in Nat
    BY <1>0, <1>2 DEF Change, TypeOK
  <2> QED
    BY <1>0, <2>2, <2>3 DEF Typed, TypeOK, RequestsAreReports, At, rows
<1>3. ASSUME NEW k \in Tokens, Expire(k) PROVE Typed'
  BY <1>0, <1>3 DEF Expire, Typed, TypeOK, RequestsAreReports, At, rows
<1>4. ASSUME NEW k \in Tokens, Revoke(k) PROVE Typed'
  <2>1. tokens' = [tokens EXCEPT ![k].status = "revoked"]
    BY <1>4 DEF Revoke
  <2>2. tokens' \in [Tokens -> [status : {"pending", "occupied", "revoked", "expired"},
                                device : Devices \union {Unknown, None}]]
    BY <1>t, <2>1
  <2>3. UNCHANGED <<past, rows, req, actual, faults>> /\ changes' \in Nat
    BY <1>0, <1>4 DEF Revoke, TypeOK
  <2> QED
    BY <1>0, <2>2, <2>3 DEF Typed, TypeOK, RequestsAreReports, At, rows
<1>5. ASSUME NEW q \in Requests, Others(q),
             req' \in [Requests -> Reports \union {Idle}],
             RequestsAreReports', UNCHANGED <<past, rows, actual, changes>>, faults' \in Nat,
             tokens' \in [Tokens -> [status : {"pending", "occupied", "revoked", "expired"},
                                     device : Devices \union {Unknown, None}]]
      PROVE  Typed'
  BY <1>0, <1>5 DEF Typed, TypeOK, rows
<1>6. ASSUME NEW q \in Requests, Send(q) \/ SendInvalid(q) PROVE Typed'
  <2>1. /\ req' \in [Requests -> Reports \union {Idle}] /\ Others(q)
        /\ UNCHANGED <<tokens, past, rows, actual, changes>> /\ faults' \in Nat
    BY <1>0, <1>6, Sent
  <2>2. RequestsAreReports'
    BY <1>0, <1>6, Sent, ReportsStay
  <2> QED
    BY <1>5, <1>t, <2>1, <2>2
<1>7. ASSUME NEW q \in Requests, Refuse(q) \/ Die(q) PROVE Typed'
  <2>1. req' \in [Requests -> Reports \union {Idle}] /\ Others(q) /\ req'[q] = Idle
    BY <1>0, <1>7, Ended
  <2>2. UNCHANGED <<past, rows, actual, changes>> /\ faults' \in Nat
    BY <1>0, <1>7 DEF Refuse, Die, Fault, TypeOK
  <2>3. tokens' = tokens \/ tokens' = [tokens EXCEPT ![req[q].token].status = "expired"]
    BY <1>7 DEF Refuse, Die
  <2>4. tokens' \in [Tokens -> [status : {"pending", "occupied", "revoked", "expired"},
                                device : Devices \union {Unknown, None}]]
    BY <1>t, <2>3
  <2> QED
    BY <1>5, <2>1, <2>2, <2>4, ReportsStay
<1>8. ASSUME NEW q \in Requests, Select(q) \/ UpsertDevice(q) \/ QueryFails(q) PROVE Typed'
  <2>1. /\ req' \in [Requests -> Reports \union {Idle}] /\ Others(q) /\ Kept(q)
        /\ Select(q) => req'[q].step \in {"bind", "check"}
        /\ UpsertDevice(q) => req'[q].step = "agents"
        /\ QueryFails(q) => req'[q].step = "failed"
    BY <1>0, <1>8, MovedOn
  <2>2. UNCHANGED <<tokens, past, rows, actual, changes>> /\ faults' \in Nat
    BY <1>0, <1>8 DEF Select, UpsertDevice, QueryFails, Fault, TypeOK
  <2>3. ~ At(q, "idle") /\ (UpsertDevice(q) => req[q].content.valid)
    BY <1>8 DEF Select, UpsertDevice, QueryFails, At, Typed, RequestsAreReports
  <2>4. RequestsAreReports'
    BY <1>8, <2>1, <2>3, ReportsStay
  <2> QED
    BY <1>5, <1>t, <2>1, <2>2, <2>4
<1>9. ASSUME NEW q \in Requests, Bind(q) PROVE Typed'
  <2>1. /\ req' \in [Requests -> Reports \union {Idle}] /\ Others(q) /\ Kept(q)
        /\ req'[q].step = "check"
    BY <1>0, <1>9, MovedOn
  <2>2. ~ At(q, "idle") /\ UNCHANGED <<past, rows, actual, changes>> /\ faults' \in Nat
    BY <1>0, <1>9 DEF Bind, At, TypeOK
  <2>3. req[q] \in Reports
    BY <1>0, <2>2 DEF TypeOK, At, Idle
  <2>4. PICK device \in Devices \union {Unknown, None} :
          tokens' = [tokens EXCEPT ![req[q].token] = [status |-> "occupied", device |-> device]]
    BY <1>t, <1>9, <2>3 DEF Bind, Reports
  <2>5. tokens' \in [Tokens -> [status : {"pending", "occupied", "revoked", "expired"},
                                device : Devices \union {Unknown, None}]]
    BY <1>t, <2>4
  <2>6. RequestsAreReports'
    BY <2>1, <2>2, ReportsStay
  <2> QED
    BY <1>5, <2>1, <2>2, <2>5, <2>6
<1>10. ASSUME NEW q \in Requests, CheckOrganization(q) PROVE Typed'
  <2>1. /\ req' \in [Requests -> Reports \union {Idle}] /\ Others(q) /\ Kept(q)
        /\ req'[q].step \in {"failed", "device"}
        /\ req'[q].step = "device" => req[q].content.valid
        /\ UNCHANGED <<tokens, past, rows, actual, changes, faults>>
    BY <1>0, <1>10, Checked
  <2>2. ~ At(q, "idle") /\ faults' \in Nat
    BY <1>0, <1>10, <2>1 DEF CheckOrganization, At, TypeOK
  <2>3. RequestsAreReports'
    BY <2>1, <2>2, ReportsStay
  <2> QED
    BY <1>5, <1>t, <2>1, <2>2, <2>3
<1>11. ASSUME NEW q \in Requests, UpsertAgents(q) PROVE Typed'
  <2>1. /\ req' \in [Requests -> Reports \union {Idle}] /\ Others(q) /\ Kept(q)
        /\ UNCHANGED <<tokens, past, rows, actual, changes, faults>>
    BY <1>0, <1>11, Upserted
  <2>2. ~ At(q, "idle") /\ req[q].content.valid /\ faults' \in Nat
    BY <1>0, <1>11, <2>1 DEF UpsertAgents, At, TypeOK, Typed, RequestsAreReports
  <2>3. RequestsAreReports'
    BY <2>1, <2>2, ReportsStay
  <2> QED
    BY <1>5, <1>t, <2>1, <2>2, <2>3
<1>12. ASSUME NEW q \in Requests, Commit(q) PROVE Typed'
  <2>1. req' \in [Requests -> Reports \union {Idle}] /\ Others(q) /\ req'[q] = Idle
    BY <1>0, <1>12, Ended
  <2>2. RequestsAreReports'
    BY <2>1, ReportsStay
  <2>3. UNCHANGED <<tokens, past, actual, changes, faults>>
    BY <1>12 DEF Commit
  <2> QED
    BY <1>0, <1>12, <2>1, <2>2, <2>3, CommitTyped DEF Typed, TypeOK
<1>13. ASSUME NEW q \in Requests, RecordFailed(q) PROVE Typed'
  <2>1. /\ req' \in [Requests -> Reports \union {Idle}]
        /\ Others(q) /\ req'[q] = Idle
        /\ UNCHANGED <<tokens, past, owner, agents, stored, reported, actual, changes, faults>>
        /\ latest' \in [Devices \X Orgs -> {"none", "succeeded", "failed"}]
    BY <1>0, <1>13, Recorded
  <2>2. RequestsAreReports'
    BY <2>1, ReportsStay
  <2> QED
    BY <1>0, <2>1, <2>2 DEF Typed, TypeOK
<1> QED
  BY <1>1, <1>2, <1>3, <1>4, <1>6, <1>7, <1>8, <1>9, <1>10, <1>11, <1>12, <1>13
     DEF Next, Handle

(* Devices, agents and requests keep their types, and what is stored for a *)
(* device is a snapshot of it.                                             *)
THEOREM IngestionTypeCorrect == Spec => []TypeOK
<1>1. Typed => TypeOK
  BY DEF Typed
<1> QED
  BY TypedInit, TypedStep, <1>1, PTL DEF Spec

-----------------------------------------------------------------------------
(* Tokens.                                                                 *)

LEMMA TokensInit == Init => TokensAreBound
BY DEF Init, TokensAreBound, Verified, At, Idle

(* A status that changes while nobody verifies the token leaves its device.*)
LEMMA StatusChanges ==
  ASSUME Typed, TokensAreBound, NEW k \in Tokens, NEW status \in {"expired", "revoked"},
         ~ Locked(k), tokens' = [tokens EXCEPT ![k].status = status],
         reported' = reported,
         \A p \in Requests : Same(p) \/ req'[p] = Idle
  PROVE  TokensAreBound'
<1>t. tokens \in [Tokens -> [status : {"pending", "occupied", "revoked", "expired"},
                             device : Devices \union {Unknown, None}]]
  BY DEF Typed, TypeOK
<1>1. /\ \A j \in Tokens : tokens'[j].device = tokens[j].device
      /\ \A j \in Tokens \ {k} : tokens'[j] = tokens[j]
      /\ tokens'[k].status = status
  BY <1>t
<1>2. \A p \in Requests : ~ At(p, "idle") => req[p].token \in Tokens
  BY DEF Typed, TypeOK, Reports, At, Idle
<1>3. \A p \in Requests : At(p, "bind")' => Same(p) /\ At(p, "bind") /\ req[p].token # k
  BY DEF At, Idle, Same, Kept, Locked
<1>4. \A p \in Requests : Verified(p)' => Same(p) /\ Verified(p)
  BY DEF Verified, Idle, Same
<1>5. \A r \in reported : r[1] \in Tokens
  BY DEF Typed, TypeOK
<1>6. \A j \in Tokens : tokens'[j].status = "occupied" => tokens'[j].device # None
  BY <1>1 DEF TokensAreBound
<1>7. ASSUME NEW p \in Requests, Verified(p)'
      PROVE  tokens'[req'[p].token].device = req'[p].claimed
  BY <1>1, <1>2, <1>4, <1>7 DEF TokensAreBound, Same, Kept, Verified, At
<1>8. ASSUME NEW p \in Requests, At(p, "bind")'
      PROVE  /\ tokens'[req'[p].token].status = "pending"
             /\ tokens'[req'[p].token].device \in {None, req'[p].claimed}
  <2>1. /\ Same(p) /\ At(p, "bind") /\ req[p].token \in Tokens \ {k}
    BY <1>2, <1>3, <1>8 DEF At
  <2> QED
    BY <1>1, <2>1 DEF TokensAreBound, Same, Kept, OtherDevice
<1>9. \A p, q \in Requests :
        At(p, "bind")' /\ At(q, "bind")' /\ req'[p].token = req'[q].token => p = q
  BY <1>3 DEF TokensAreBound, Same, Kept
<1>10. \A r \in reported' : tokens'[r[1]].device = r[2]
  BY <1>1, <1>5 DEF TokensAreBound
<1> QED
  BY <1>6, <1>7, <1>8, <1>9, <1>10 DEF TokensAreBound, OtherDevice

(* A request that begins, ends or writes leaves the tokens bound.          *)
LEMMA TokensStay ==
  ASSUME Typed, TokensAreBound, NEW q \in Requests, Others(q), tokens' = tokens,
         \A r \in reported' : r \in reported \/ tokens[r[1]].device = r[2],
         \/ req'[q].step \in {"idle", "verify"}
         \/ Kept(q) /\ Verified(q) /\ req'[q].step # "bind"
  PROVE  TokensAreBound'
<1>1. \A p \in Requests : At(p, "bind")' => p # q /\ Same(p) /\ At(p, "bind")
  BY DEF Others, Same, At, Verified
<1>2. ASSUME NEW p \in Requests, Verified(p)'
      PROVE  tokens'[req'[p].token].device = req'[p].claimed
  <2>1. CASE p = q
    BY <1>2, <2>1 DEF TokensAreBound, Kept, Verified
  <2>2. CASE p # q
    BY <1>2, <2>2 DEF TokensAreBound, Others, Same, Kept, Verified
  <2> QED
    BY <2>1, <2>2
<1>3. ASSUME NEW p \in Requests, At(p, "bind")'
      PROVE  /\ tokens'[req'[p].token].status = "pending"
             /\ ~ OtherDevice(req[p].token, req[p].claimed)'
  BY <1>1, <1>3 DEF TokensAreBound, Same, Kept, OtherDevice
<1>4. \A p, o \in Requests :
        At(p, "bind")' /\ At(o, "bind")' /\ req'[p].token = req'[o].token => p = o
  BY <1>1 DEF TokensAreBound, Same, Kept
<1> QED
  BY <1>2, <1>3, <1>4 DEF TokensAreBound

(* Verifications of a token take turns: the one that is to bind it finds   *)
(* it pending until it does.                                               *)
LEMMA SelectKeepsTokens ==
  ASSUME Typed, TokensAreBound, NEW q \in Requests, Select(q) PROVE TokensAreBound'
<1> DEFINE k == req[q].token
<1>1. /\ At(q, "verify") /\ ~ Locked(k) /\ ~ OtherDevice(k, req[q].claimed)
      /\ StatusOf(k) \in {"pending", "occupied"} /\ UNCHANGED <<tokens, reported>>
      /\ Goto(q, IF StatusOf(k) = "pending" THEN "bind" ELSE "check")
  BY DEF Select, rows
<1>2. /\ Others(q) /\ Kept(q)
      /\ req'[q].step = IF StatusOf(k) = "pending" THEN "bind" ELSE "check"
  <2>1. ~ At(q, "idle") /\ TypeOK
    BY <1>1 DEF At, Typed
  <2> HIDE DEF k
  <2>2. CASE StatusOf(k) = "pending"
    BY <1>1, <2>1, <2>2, Moved DEF Steps
  <2>3. CASE StatusOf(k) # "pending"
    BY <1>1, <2>1, <2>3, Moved DEF Steps
  <2> QED
    BY <2>2, <2>3
<1>3. k \in Tokens /\ req[q].claimed # None
  BY <1>1 DEF Typed, TypeOK, Reports, At, Idle
<1>4. /\ StatusOf(k) = "pending" => tokens[k].status = "pending"
      /\ StatusOf(k) = "occupied" => tokens[k].status = "occupied"
  BY DEF StatusOf
<1> HIDE DEF k
<1>5. ASSUME NEW p \in Requests, Verified(p)'
      PROVE  tokens'[req'[p].token].device = req'[p].claimed
  <2>1. CASE p = q
    <3>1. StatusOf(k) # "pending" /\ tokens[k].status = "occupied"
      BY <1>1, <1>2, <1>4, <1>5, <2>1 DEF Verified
    <3>2. tokens[k].device = req[q].claimed
      BY <1>1, <1>3, <3>1 DEF TokensAreBound, OtherDevice
    <3> QED
      BY <1>1, <1>2, <2>1, <3>2 DEF Kept, k
  <2>2. CASE p # q
    BY <1>1, <1>2, <1>5, <2>2 DEF TokensAreBound, Others, Same, Kept, Verified
  <2> QED
    BY <2>1, <2>2
<1>6. ASSUME NEW p \in Requests, At(p, "bind")'
      PROVE  /\ tokens'[req'[p].token].status = "pending"
             /\ tokens'[req'[p].token].device \in {None, req'[p].claimed}
  <2>1. CASE p = q
    <3>1. tokens[k].status = "pending"
      BY <1>2, <1>4, <1>6, <2>1 DEF At
    <3> QED
      BY <1>1, <1>2, <2>1, <3>1 DEF Kept, k, OtherDevice
  <2>2. CASE p # q
    BY <1>1, <1>2, <1>6, <2>2 DEF TokensAreBound, Others, Same, Kept, At, OtherDevice
  <2> QED
    BY <2>1, <2>2
<1>7. ASSUME NEW p \in Requests, NEW o \in Requests, At(p, "bind")', At(o, "bind")',
             req'[p].token = req'[o].token
      PROVE  p = o
  <2>1. \A r \in Requests \ {q} : At(r, "bind")' => At(r, "bind") /\ req'[r].token = req[r].token
    BY <1>2 DEF Others, Same, Kept, At
  <2>2. \A r \in Requests \ {q} : At(r, "bind") => req[r].token # k
    BY <1>1 DEF Locked
  <2>3. req'[q].token = k
    BY <1>2 DEF Kept, k
  <2> QED
    BY <1>7, <2>1, <2>2, <2>3 DEF TokensAreBound
<1> QED
  BY <1>1, <1>5, <1>6, <1>7 DEF TokensAreBound, OtherDevice

(* A token that is bound keeps the device that it is bound to already.     *)
LEMMA BindKeepsTokens ==
  ASSUME Typed, TokensAreBound, NEW q \in Requests, Bind(q) PROVE TokensAreBound'
<1>t. tokens \in [Tokens -> [status : {"pending", "occupied", "revoked", "expired"},
                             device : Devices \union {Unknown, None}]]
  BY DEF Typed, TypeOK
<1>0. PICK k, d : k = req[q].token /\ d = req[q].claimed
  OBVIOUS
<1>1. At(q, "bind") /\ reported' = reported
  BY DEF Bind, rows
<1>2. Others(q) /\ Kept(q) /\ req'[q].step = "check"
  BY MovedOn DEF Typed
<1>3. k \in Tokens /\ d \in Devices \union {Unknown} /\ d # None
  BY <1>0, <1>1 DEF Typed, TypeOK, Reports, At, Idle
<1>4. tokens[k].device \in {None, d}
  BY <1>0, <1>1 DEF TokensAreBound, OtherDevice
<1>5. tokens' = [tokens EXCEPT ![k] = [status |-> "occupied", device |-> d]]
  BY <1>0, <1>4 DEF Bind
<1>6. /\ tokens'[k].status = "occupied" /\ tokens'[k].device = d
      /\ \A j \in Tokens \ {k} : tokens'[j] = tokens[j]
      /\ tokens[k].device # None => tokens'[k].device = tokens[k].device
  BY <1>t, <1>3, <1>4, <1>5
<1>7. \A j \in Tokens : tokens'[j].status = "occupied" => tokens'[j].device # None
  BY <1>3, <1>6 DEF TokensAreBound
<1>8. \A p \in Requests : ~ At(p, "idle") =>
        req[p].token \in Tokens /\ req[p].claimed \in Devices \union {Unknown}
  BY DEF Typed, TypeOK, Reports, At, Idle
<1>9. ASSUME NEW p \in Requests, Verified(p)'
      PROVE  tokens'[req'[p].token].device = req'[p].claimed
  <2>1. CASE p = q
    BY <1>0, <1>2, <1>6, <2>1 DEF Kept
  <2>2. CASE p # q
    <3>1. Same(p) /\ Verified(p)
      BY <1>2, <1>9, <2>2 DEF Others, Same, Verified
    <3>2. /\ tokens[req[p].token].device = req[p].claimed
          /\ req[p].token \in Tokens /\ req[p].claimed # None
      BY <1>8, <3>1 DEF TokensAreBound, Verified, At
    <3> QED
      BY <1>6, <3>1, <3>2 DEF Same, Kept
  <2> QED
    BY <2>1, <2>2
<1>10. \A p \in Requests : At(p, "bind")' =>
         p # q /\ Same(p) /\ At(p, "bind") /\ req[p].token \in Tokens \ {k}
  <2> SUFFICES ASSUME NEW p \in Requests, At(p, "bind")'
               PROVE  p # q /\ Same(p) /\ At(p, "bind") /\ req[p].token \in Tokens \ {k}
    OBVIOUS
  <2>1. p # q /\ Same(p) /\ At(p, "bind")
    BY <1>2 DEF Others, Same, At
  <2>2. req[p].token \in Tokens /\ req[p].token # k
    BY <1>0, <1>1, <1>8, <2>1 DEF TokensAreBound, At
  <2> QED
    BY <2>1, <2>2
<1>11. ASSUME NEW p \in Requests, At(p, "bind")'
       PROVE  /\ tokens'[req'[p].token].status = "pending"
              /\ tokens'[req'[p].token].device \in {None, req'[p].claimed}
  BY <1>6, <1>10, <1>11 DEF TokensAreBound, Same, Kept, OtherDevice
<1>12. \A p, o \in Requests :
         At(p, "bind")' /\ At(o, "bind")' /\ req'[p].token = req'[o].token => p = o
  BY <1>10 DEF TokensAreBound, Same, Kept
<1>13. \A r \in reported' : tokens'[r[1]].device = r[2]
  <2>1. \A r \in reported : r[1] \in Tokens /\ r[2] # None /\ tokens[r[1]].device = r[2]
    BY DEF Typed, TypeOK, TokensAreBound
  <2> QED
    BY <1>1, <1>6, <2>1
<1> QED
  BY <1>7, <1>9, <1>11, <1>12, <1>13 DEF TokensAreBound, OtherDevice

LEMMA TokensStep == Typed /\ TokensAreBound /\ [Next]_vars => TokensAreBound'
<1> SUFFICES ASSUME Typed, TokensAreBound, [Next]_vars PROVE TokensAreBound'
  OBVIOUS
<1>0. TypeOK
  BY DEF Typed
<1>1. ASSUME UNCHANGED <<tokens, req, reported>> PROVE TokensAreBound'
  BY <1>1 DEF TokensAreBound, Verified, At, OtherDevice
<1>2. ASSUME NEW d \in Devices, Change(d) PROVE TokensAreBound'
  BY <1>1, <1>2 DEF Change, rows
<1>3. ASSUME NEW k \in Tokens, Expire(k) PROVE TokensAreBound'
  BY <1>1, <1>3 DEF Expire, rows
<1>4. ASSUME NEW k \in Tokens, Revoke(k) PROVE TokensAreBound'
  <2>1. /\ ~ Locked(k) /\ tokens' = [tokens EXCEPT ![k].status = "revoked"]
        /\ req' = req /\ reported' = reported
    BY <1>4 DEF Revoke, rows
  <2> QED
    BY <2>1, StatusChanges, Unmoved
<1>5. ASSUME NEW q \in Requests, Send(q) \/ SendInvalid(q) PROVE TokensAreBound'
  <2>1. Others(q) /\ req'[q].step = "verify" /\ UNCHANGED <<tokens, rows>>
    BY <1>0, <1>5, Sent
  <2> QED
    BY <2>1, TokensStay DEF TokensAreBound, rows
<1>6. ASSUME NEW q \in Requests, Refuse(q) PROVE TokensAreBound'
  <2>1. Others(q) /\ req'[q] = Idle
    BY <1>0, <1>6, Ended
  <2>2. At(q, "verify") /\ ~ Locked(req[q].token) /\ reported' = reported
    BY <1>6 DEF Refuse, rows
  <2>3. req[q].token \in Tokens
    BY <1>0, <2>2 DEF TypeOK, Reports, At, Idle
  <2>4. CASE tokens' = tokens
    BY <2>1, <2>2, <2>4, TokensStay DEF TokensAreBound, Idle
  <2>5. CASE tokens' = [tokens EXCEPT ![req[q].token].status = "expired"]
    <3>1. \A p \in Requests : Same(p) \/ req'[p] = Idle
      BY <2>1 DEF Others
    <3> QED
      BY <2>2, <2>3, <2>5, <3>1, StatusChanges
  <2> QED
    BY <1>6, <2>4, <2>5 DEF Refuse
<1>7. ASSUME NEW q \in Requests, Die(q) \/ RecordFailed(q) PROVE TokensAreBound'
  <2>1. Others(q) /\ req'[q] = Idle
    BY <1>0, <1>7, Ended, Recorded
  <2>2. UNCHANGED <<tokens, reported>>
    BY <1>7 DEF Die, RecordFailed, rows
  <2> QED
    BY <2>1, <2>2, TokensStay DEF TokensAreBound, Idle
<1>8. ASSUME NEW q \in Requests, UpsertDevice(q) \/ QueryFails(q) PROVE TokensAreBound'
  <2>1. /\ Others(q) /\ Kept(q)
        /\ UpsertDevice(q) => req'[q].step = "agents"
        /\ QueryFails(q) => req'[q].step = "failed"
    BY <1>0, <1>8, MovedOn
  <2>2. UNCHANGED <<tokens, reported>> /\ Verified(q)
    BY <1>8 DEF UpsertDevice, QueryFails, rows, At, Verified
  <2> QED
    BY <1>8, <2>1, <2>2, TokensStay DEF TokensAreBound
<1>9. ASSUME NEW q \in Requests, CheckOrganization(q) PROVE TokensAreBound'
  <2>1. /\ Others(q) /\ Kept(q) /\ req'[q].step \in {"failed", "device"}
        /\ UNCHANGED <<tokens, rows>>
    BY <1>0, <1>9, Checked
  <2>2. Verified(q)
    BY <1>9 DEF CheckOrganization, At, Verified
  <2> QED
    BY <2>1, <2>2, TokensStay DEF TokensAreBound, rows
<1>10. ASSUME NEW q \in Requests, UpsertAgents(q) PROVE TokensAreBound'
  <2>1. Others(q) /\ Kept(q) /\ req'[q].step = "commit" /\ UNCHANGED <<tokens, rows>>
    BY <1>0, <1>10, Upserted
  <2>2. Verified(q)
    BY <1>10 DEF UpsertAgents, At, Verified
  <2> QED
    BY <2>1, <2>2, TokensStay DEF TokensAreBound, rows
<1>11. ASSUME NEW q \in Requests, Commit(q) PROVE TokensAreBound'
  <2>1. Others(q) /\ req'[q] = Idle
    BY <1>0, <1>11, Ended
  <2>2. /\ tokens' = tokens /\ Verified(q)
        /\ reported' = reported \union {<<req[q].token, req[q].claimed>>}
    BY <1>11 DEF Commit, At, Verified
  <2>3. \A r \in reported' : r \in reported \/ tokens[r[1]].device = r[2]
    BY <2>2 DEF TokensAreBound
  <2> QED
    BY <2>1, <2>2, <2>3, TokensStay DEF Idle
<1> QED
  BY <1>1, <1>2, <1>3, <1>4, <1>5, <1>6, <1>7, <1>8, <1>9, <1>10, <1>11,
     SelectKeepsTokens, BindKeepsTokens DEF Next, Handle, vars

(* However its first reports overlap, all snapshots stored under a token   *)
(* were verified for one and the same device.                              *)
THEOREM TokensVerifyOneDevice == Spec => []TokenVerifiesOneDevice
<1>1. TokensAreBound => TokenVerifiesOneDevice
  BY DEF TokensAreBound, TokenVerifiesOneDevice
<1> QED
  BY TypedInit, TypedStep, TokensInit, TokensStep, <1>1, PTL DEF Spec

LEMMA RevokedStep ==
  Typed /\ TokensAreBound /\ [Next]_vars
    => \A k \in Tokens : tokens[k].status = "revoked" => tokens'[k].status = "revoked"
<1> SUFFICES ASSUME Typed, TokensAreBound, [Next]_vars,
                    NEW k \in Tokens, tokens[k].status = "revoked"
             PROVE  tokens'[k].status = "revoked"
  OBVIOUS
<1>t. tokens \in [Tokens -> [status : {"pending", "occupied", "revoked", "expired"},
                             device : Devices \union {Unknown, None}]]
  BY DEF Typed, TypeOK
<1>1. ASSUME NEW j \in Tokens, Revoke(j) PROVE tokens'[k].status = "revoked"
  BY <1>t, <1>1 DEF Revoke
<1>2. ASSUME NEW q \in Requests, Refuse(q) PROVE tokens'[k].status = "revoked"
  <2>1. CASE req[q].token = k
    <3>1. StatusOf(req[q].token) # "expired"
      BY <2>1 DEF StatusOf
    <3>2. tokens' = tokens
      BY <1>2, <3>1 DEF Refuse
    <3> QED
      BY <3>2
  <2>2. CASE req[q].token # k
    BY <1>t, <1>2, <2>2 DEF Refuse
  <2> QED
    BY <2>1, <2>2
<1>3. ASSUME NEW q \in Requests, Bind(q) PROVE tokens'[k].status = "revoked"
  <2>1. req[q].token # k
    BY <1>3 DEF Bind, TokensAreBound
  <2> QED
    BY <1>t, <1>3, <2>1 DEF Bind
<1>4. ASSUME NEW q \in Requests, CheckOrganization(q) PROVE tokens' = tokens
  BY <1>4, Checked DEF Typed
<1>5. ASSUME NEW q \in Requests, Send(q) \/ SendInvalid(q) PROVE tokens' = tokens
  BY <1>5 DEF Send, SendInvalid
<1> QED
  BY <1>1, <1>2, <1>3, <1>4, <1>5
     DEF Next, Handle, vars, Change, Expire, Select, UpsertDevice, UpsertAgents, Commit,
         RecordFailed, QueryFails, Die

(* No verification that overlaps its revocation brings a token back.       *)
THEOREM RevocationIsFinal == Spec => RevokedStaysRevoked
BY TypedInit, TypedStep, TokensInit, TokensStep, RevokedStep, PTL DEF Spec, RevokedStaysRevoked

-----------------------------------------------------------------------------
(* The fleet.                                                              *)

\* The runtimes of a device's snapshots, and so their agents, are its own.
LEMMA OwnRuntimes ==
  ASSUME NEW d \in Devices, NEW e \in Devices,
         NEW c \in Snapshots(d), NEW f \in Snapshots(e)
  PROVE  /\ c.agents \subseteq Agents
         /\ \A a \in c.agents : RuntimeOf[a] \in c.runtimes
         /\ d # e => c.runtimes \intersect f.runtimes = {}
<1>1. \A g \in Devices : \A s \in Snapshots(g) :
        \/ s.runtimes = {} /\ s.agents = {}
        \/ \E t \in Contents[g] : s.runtimes = t.runtimes /\ s.agents = t.agents
  BY DEF Snapshots, Nothing
<1> QED
  BY <1>1, ContentsAssumption

\* A commit leaves the agents of other devices' runtimes alone.
LEMMA CommitWrites ==
  ASSUME Typed, GoneIsMissing, NEW q \in Requests, Commit(q)
  PROVE  /\ \A a \in req[q].content.agents : agents'[a] = "online"
         /\ \A a \in Agents : RuntimeOf[a] \in req[q].content.runtimes
                              /\ a \notin req[q].content.agents => agents'[a] # "online"
         /\ \A a \in Agents : RuntimeOf[a] \notin req[q].content.runtimes
                              => agents'[a] = agents[a]
<1> DEFINE c == req[q].content
<1>1. At(q, "commit") /\ req[q].gone = Missing(c)
  BY DEF Commit, GoneIsMissing
<1>2. req[q].device \in Devices /\ c \in Snapshots(req[q].device)
  BY <1>1, WritesItsDevice DEF At
<1>3. c.agents \subseteq Agents /\ \A a \in c.agents : RuntimeOf[a] \in c.runtimes
  BY <1>2, OwnRuntimes
<1>4. agents' = [a \in Agents |->
                   IF a \in c.agents THEN "online"
                   ELSE IF a \in req[q].gone THEN "invisible" ELSE agents[a]]
  BY DEF Commit
<1> HIDE DEF c
<1>5. \A a \in c.agents : agents'[a] = "online"
  BY <1>3, <1>4
<1>6. \A a \in Agents : a \notin c.agents /\ a \in req[q].gone => agents'[a] = "invisible"
  BY <1>4
<1>7. \A a \in Agents : a \notin c.agents /\ a \notin req[q].gone => agents'[a] = agents[a]
  BY <1>4
<1>8. \A a \in Agents :
        a \in req[q].gone <=> /\ RuntimeOf[a] \in c.runtimes
                              /\ a \notin c.agents /\ agents[a] = "online"
  BY <1>1 DEF Missing
<1> QED
  BY <1>3, <1>5, <1>6, <1>7, <1>8 DEF c

Fleet == OneWriter /\ GoneIsMissing /\ FleetIsLastSnapshot

LEMMA FleetInit == Init => Fleet
BY DEF Init, Fleet, OneWriter, Writing, GoneIsMissing, FleetIsLastSnapshot, At, Idle, Invalid

(* A step that writes no rows and lets no request go further than          *)
(* upsertDeviceStateDevice.                                                *)
LEMMA FleetStays ==
  ASSUME Fleet, UNCHANGED <<agents, stored>>,
         \A p \in Requests : Same(p) \/ ~ Writing(p)'
  PROVE  Fleet'
<1>1. \A p \in Requests : Writing(p)' => Same(p) /\ Writing(p)
  BY DEF Writing, Same, At
<1>2. OneWriter'
  BY <1>1 DEF Fleet, OneWriter, Same, Kept
<1>3. GoneIsMissing'
  <2> SUFFICES ASSUME NEW p \in Requests, At(p, "commit")'
               PROVE  req'[p].gone = Missing(req[p].content)'
    BY DEF GoneIsMissing
  <2>1. Same(p) /\ At(p, "commit")
    BY <1>1 DEF Writing, Same, At
  <2>2. \A c : Missing(c)' = Missing(c)
    BY DEF Missing
  <2> QED
    BY <2>1, <2>2 DEF Fleet, GoneIsMissing, Same, Kept, Missing
<1>4. FleetIsLastSnapshot'
  BY DEF Fleet, FleetIsLastSnapshot
<1> QED
  BY <1>2, <1>3, <1>4 DEF Fleet

\* upsertDeviceStateDevice waits for the row of its device.
LEMMA UpsertDeviceKeepsFleet ==
  ASSUME Typed, Fleet, NEW q \in Requests, UpsertDevice(q) PROVE Fleet'
<1>1. Others(q) /\ Kept(q) /\ req'[q].step = "agents"
  BY MovedOn DEF Typed
<1>2. UNCHANGED <<agents, stored>>
  BY DEF UpsertDevice, rows
<1>3. \A p \in Requests : Writing(p) => req[p].device # req[q].device
  BY DEF UpsertDevice, Writing
<1>4. \A p \in Requests \ {q} : Same(p) /\ (Writing(p)' <=> Writing(p))
  BY <1>1 DEF Others, Same, Writing, At
<1>5. OneWriter'
  BY <1>1, <1>3, <1>4 DEF OneWriter, Fleet, Same, Kept
<1>6. GoneIsMissing'
  <2> SUFFICES ASSUME NEW p \in Requests, At(p, "commit")'
               PROVE  req'[p].gone = Missing(req[p].content)'
    BY DEF GoneIsMissing
  <2>1. p # q /\ Same(p) /\ At(p, "commit")
    BY <1>1, <1>4 DEF Same, At
  <2> QED
    BY <1>2, <2>1 DEF Fleet, GoneIsMissing, Same, Kept, Missing
<1>7. FleetIsLastSnapshot'
  BY <1>2 DEF Fleet, FleetIsLastSnapshot
<1> QED
  BY <1>5, <1>6, <1>7 DEF Fleet

LEMMA UpsertAgentsKeepsFleet ==
  ASSUME Typed, Fleet, NEW q \in Requests, UpsertAgents(q) PROVE Fleet'
<1>1. /\ Others(q) /\ Kept(q) /\ req'[q].step = "commit"
      /\ req'[q].gone = Missing(req[q].content) /\ UNCHANGED rows
  BY Upserted DEF Typed
<1>2. UNCHANGED <<agents, stored>> /\ At(q, "agents")
  BY <1>1 DEF UpsertAgents, rows
<1>3. \A p \in Requests : Kept(p) /\ (Writing(p)' <=> Writing(p))
  BY <1>1, <1>2 DEF Others, Same, Writing, At
<1>4. OneWriter'
  BY <1>3 DEF OneWriter, Fleet, Kept
<1>5. GoneIsMissing'
  <2> SUFFICES ASSUME NEW p \in Requests, At(p, "commit")'
               PROVE  req'[p].gone = Missing(req[p].content)'
    BY DEF GoneIsMissing
  <2>1. CASE p = q
    BY <1>1, <1>2, <2>1 DEF Kept, Missing
  <2>2. CASE p # q
    <3>1. Same(p) /\ At(p, "commit")
      BY <1>1, <2>2 DEF Others, Same, At
    <3> QED
      BY <1>2, <3>1 DEF Fleet, GoneIsMissing, Same, Kept, Missing
  <2> QED
    BY <2>1, <2>2
<1>6. FleetIsLastSnapshot'
  BY <1>2 DEF Fleet, FleetIsLastSnapshot
<1> QED
  BY <1>4, <1>5, <1>6 DEF Fleet

\* A commit shows its snapshot, and disturbs no other device's.
LEMMA CommitKeepsFleet ==
  ASSUME Typed, Fleet, NEW q \in Requests, Commit(q) PROVE Fleet'
<1>1. Others(q) /\ req'[q] = Idle
  BY Ended DEF Typed
<1>2. PICK d, c : d = req[q].device /\ c = req[q].content
  OBVIOUS
<1>3. At(q, "commit") /\ stored' = [stored EXCEPT ![d] = c]
  BY <1>2 DEF Commit
<1>4. d \in Devices /\ c \in Snapshots(d)
  BY <1>2, <1>3, WritesItsDevice DEF At
<1>5. /\ \A a \in c.agents : agents'[a] = "online"
      /\ \A a \in Agents : RuntimeOf[a] \in c.runtimes /\ a \notin c.agents
                           => agents'[a] # "online"
      /\ \A a \in Agents : RuntimeOf[a] \notin c.runtimes => agents'[a] = agents[a]
  BY <1>2, CommitWrites DEF Fleet
<1>6. \A p \in Requests : Writing(p)' => p # q /\ Same(p) /\ Writing(p)
  BY <1>1 DEF Others, Same, Writing, At, Idle
<1>7. OneWriter'
  BY <1>6 DEF OneWriter, Fleet, Same, Kept
<1>8. GoneIsMissing'
  <2> SUFFICES ASSUME NEW p \in Requests, At(p, "commit")'
               PROVE  req'[p].gone = Missing(req[p].content)'
    BY DEF GoneIsMissing
  <2>1. p # q /\ Same(p) /\ At(p, "commit")
    BY <1>6 DEF Writing, Same, At
  <2>2. PICK e, f : e = req[p].device /\ f = req[p].content
    OBVIOUS
  <2>3. e # d
    BY <1>2, <1>3, <2>1, <2>2 DEF Fleet, OneWriter, Writing
  <2>4. e \in Devices /\ f \in Snapshots(e)
    BY <2>1, <2>2, WritesItsDevice DEF At
  <2>5. c.runtimes \intersect f.runtimes = {}
    BY <1>4, <2>3, <2>4, OwnRuntimes
  <2>6. \A a \in Agents : RuntimeOf[a] \in f.runtimes => agents'[a] = agents[a]
    BY <1>5, <2>5
  <2>7. Missing(f)' = Missing(f)
    BY <2>6 DEF Missing
  <2>8. req[p].gone = Missing(f)
    BY <2>1, <2>2 DEF Fleet, GoneIsMissing
  <2>9. req'[p].content = f /\ req'[p].gone = req[p].gone
    BY <2>1, <2>2 DEF Same, Kept
  <2> QED
    BY <2>7, <2>8, <2>9 DEF Missing
<1>9. FleetIsLastSnapshot'
  <2> SUFFICES ASSUME NEW e \in Devices, NEW a \in Agents, RuntimeOf[a] \in stored'[e].runtimes
               PROVE  agents'[a] = "online" <=> a \in stored'[e].agents
    BY DEF FleetIsLastSnapshot
  <2>t. /\ stored \in [Devices -> AllSnapshots \union {Invalid}]
        /\ stored[e] \in Snapshots(e) \/ stored[e] = Invalid
    BY DEF Typed, TypeOK
  <2>1. CASE e = d
    <3>1. stored'[e] = c
      BY <1>3, <1>4, <2>t, <2>1
    <3> QED
      BY <1>5, <3>1
  <2>2. CASE e # d
    <3>1. stored'[e] = stored[e]
      BY <1>3, <2>t, <2>2
    <3>2. stored[e] \in Snapshots(e)
      BY <2>t, <3>1 DEF Invalid
    <3>3. c.runtimes \intersect stored[e].runtimes = {}
      BY <1>4, <2>2, <3>2, OwnRuntimes
    <3>4. agents'[a] = agents[a]
      BY <1>5, <3>1, <3>3
    <3> QED
      BY <3>1, <3>4 DEF Fleet, FleetIsLastSnapshot
  <2> QED
    BY <2>1, <2>2
<1> QED
  BY <1>7, <1>8, <1>9 DEF Fleet

LEMMA FleetStep == Typed /\ Fleet /\ [Next]_vars => Fleet'
<1> SUFFICES ASSUME Typed, Fleet, [Next]_vars PROVE Fleet'
  OBVIOUS
<1>0. TypeOK
  BY DEF Typed
<1>1. ASSUME UNCHANGED <<agents, stored, req>> PROVE Fleet'
  BY <1>1, FleetStays, Unmoved
<1>2. ASSUME NEW q \in Requests, UNCHANGED <<agents, stored>>, Others(q), ~ Writing(q)'
      PROVE  Fleet'
  <2>1. \A p \in Requests : Same(p) \/ ~ Writing(p)'
    BY <1>2 DEF Others
  <2> QED
    BY <1>2, <2>1, FleetStays
<1>3. ASSUME NEW q \in Requests, Send(q) \/ SendInvalid(q) PROVE Fleet'
  <2>1. Others(q) /\ req'[q].step = "verify" /\ UNCHANGED rows
    BY <1>0, <1>3, Sent
  <2> QED
    BY <1>2, <2>1 DEF rows, Writing, At
<1>4. ASSUME NEW q \in Requests, Refuse(q) \/ Die(q) \/ RecordFailed(q) PROVE Fleet'
  <2>1. Others(q) /\ req'[q] = Idle
    BY <1>0, <1>4, Ended, Recorded
  <2>2. UNCHANGED <<agents, stored>>
    BY <1>4 DEF Refuse, Die, RecordFailed, rows
  <2> QED
    BY <1>2, <2>1, <2>2 DEF Writing, At, Idle
<1>5. ASSUME NEW q \in Requests, Select(q) \/ Bind(q) \/ QueryFails(q) PROVE Fleet'
  <2>1. UNCHANGED <<agents, stored>> /\ Others(q)
    BY <1>0, <1>5, MovedOn DEF Select, Bind, QueryFails, rows
  <2>2. req'[q].step \in {"bind", "check", "failed"}
    BY <1>0, <1>5, MovedOn
  <2> QED
    BY <1>2, <2>1, <2>2 DEF Writing, At
<1>6. ASSUME NEW q \in Requests, CheckOrganization(q) PROVE Fleet'
  <2>1. Others(q) /\ req'[q].step \in {"failed", "device"} /\ UNCHANGED rows
    BY <1>0, <1>6, Checked
  <2> QED
    BY <1>2, <2>1 DEF rows, Writing, At
<1>7. ASSUME NEW d \in Devices, Change(d) PROVE Fleet'
  BY <1>1, <1>7 DEF Change, rows
<1>8. ASSUME NEW k \in Tokens, Expire(k) \/ Revoke(k) PROVE Fleet'
  BY <1>1, <1>8 DEF Expire, Revoke, rows
<1>9. CASE UNCHANGED vars
  BY <1>1, <1>9 DEF vars
<1> QED
  BY <1>3, <1>4, <1>5, <1>6, <1>7, <1>8, <1>9,
     UpsertDeviceKeepsFleet, UpsertAgentsKeepsFleet, CommitKeepsFleet DEF Next, Handle

(* However the snapshots of a device overlap, the fleet shows the agents   *)
(* of the one that was committed last.                                     *)
THEOREM FleetShowsLastSnapshot == Spec => []FleetIsLastSnapshot
<1>1. Fleet => FleetIsLastSnapshot
  BY DEF Fleet
<1> QED
  BY TypedInit, TypedStep, FleetInit, FleetStep, <1>1, PTL DEF Spec

-----------------------------------------------------------------------------
(* The organization of a device.                                           *)

Writes(q) == req[q].step \in {"device", "agents", "commit"}

\* A transaction that has found a row of its device has found its organization.
OwnersAreKnown ==
  \A q \in Requests :
    Writes(q) /\ ~ req[q].bornUnknown => owner[req[q].device] = OrgOfRequest(q)

Carried(q) ==
  /\ req'[q].token = req[q].token /\ req'[q].device = req[q].device
  /\ req'[q].bornUnknown = req[q].bornUnknown

Admitted(q) ==
  /\ At(q, "check") /\ MayWrite(q)
  /\ req'[q].token = req[q].token /\ req'[q].device = req[q].device
  /\ ~ req'[q].bornUnknown => owner[req[q].device] # None

(* Only the check lets a request write.                                    *)
LEMMA WritersWereAdmitted ==
  ASSUME TypeOK, NEW q \in Requests, [Next]_vars, Writes(q)'
  PROVE  (Writes(q) /\ Carried(q)) \/ (Admitted(q) /\ owner' = owner)
<1>1. req \in [Requests -> Reports \union {Idle}]
  BY DEF TypeOK
<1>2. ASSUME req'[q] = req[q] PROVE Writes(q) /\ Carried(q)
  BY <1>2 DEF Writes, Carried
<1>3. ASSUME NEW p \in Requests, NEW new \in {"verify", "bind", "check", "failed", "idle"},
             req'[p].step = new, \A r \in Requests \ {p} : req'[r] = req[r]
      PROVE  Writes(q) /\ Carried(q)
  <2>1. p # q
    BY <1>3 DEF Writes
  <2> QED
    BY <1>2, <1>3, <2>1
<1>4. ASSUME NEW p \in Requests, Send(p) \/ SendInvalid(p) PROVE Writes(q) /\ Carried(q)
  <2>1. /\ req'[p].step = "verify"
        /\ \A r \in Requests \ {p} : req'[r] = req[r]
    BY <1>1, <1>4 DEF Send, SendInvalid, Request
  <2> QED
    BY <1>3, <2>1
<1>5. ASSUME NEW p \in Requests, Refuse(p) \/ Commit(p) \/ Die(p)
      PROVE  Writes(q) /\ Carried(q)
  <2>1. req' = [req EXCEPT ![p] = Idle]
    BY <1>5 DEF Refuse, Commit, Die
  <2>2. /\ req'[p].step = "idle"
        /\ \A r \in Requests \ {p} : req'[r] = req[r]
    BY <1>1, <2>1 DEF Idle
  <2> QED
    BY <1>3, <2>2
<1>6. ASSUME NEW p \in Requests, NEW step \in {"bind", "check", "failed"},
             ~ At(p, "idle"), Goto(p, step)
      PROVE  Writes(q) /\ Carried(q)
  <2>1. req[p] \in Reports
    BY <1>1, <1>6 DEF At, Idle
  <2>2. /\ req'[p].step = step
        /\ \A r \in Requests \ {p} : req'[r] = req[r]
    BY <1>1, <1>6, <2>1 DEF Goto, Reports
  <2> QED
    BY <1>3, <1>6, <2>2
<1>7. ASSUME NEW p \in Requests, Select(p) PROVE Writes(q) /\ Carried(q)
  <2>1. ~ At(p, "idle") /\ (Goto(p, "bind") \/ Goto(p, "check"))
    BY <1>7 DEF Select, At
  <2> QED
    BY <1>6, <2>1
<1>8. ASSUME NEW p \in Requests, Bind(p) \/ QueryFails(p) PROVE Writes(q) /\ Carried(q)
  <2>1. ~ At(p, "idle") /\ (Goto(p, "check") \/ Goto(p, "failed"))
    BY <1>8 DEF Bind, QueryFails, At
  <2> QED
    BY <1>6, <2>1
<1>9. ASSUME NEW p \in Requests, UpsertDevice(p) \/ UpsertAgents(p)
      PROVE  Writes(q) /\ Carried(q)
  <2>1. req[p] \in Reports /\ Writes(p)
    BY <1>1, <1>9 DEF UpsertDevice, UpsertAgents, At, Idle, Writes
  <2>2. \A r \in Requests \ {p} : req'[r] = req[r]
    BY <1>1, <1>9 DEF UpsertDevice, UpsertAgents, Goto
  <2>3. Carried(p)
    BY <1>1, <1>9, <2>1 DEF UpsertDevice, UpsertAgents, Goto, Carried, Reports
  <2> QED
    BY <1>2, <2>1, <2>2, <2>3
<1>10. ASSUME NEW p \in Requests, RecordFailed(p) PROVE Writes(q) /\ Carried(q)
  <2>1. p # q
    BY <1>10 DEF RecordFailed, Writes, Idle
  <2>2. req'[q] = req[q] \/ (req'[q] = [req[q] EXCEPT !.overtaken = TRUE] /\ Writes(q))
    BY <1>10, <2>1 DEF RecordFailed, Writes
  <2>3. Writes(q) => req[q] \in Reports
    BY <1>1 DEF Writes, Idle
  <2> QED
    BY <1>2, <2>2, <2>3 DEF Carried, Reports
<1>11. ASSUME NEW p \in Requests, CheckOrganization(p)
       PROVE  (Writes(q) /\ Carried(q)) \/ (Admitted(q) /\ owner' = owner)
  <2>1. ~ At(p, "idle") /\ At(p, "check") /\ owner' = owner
    BY <1>11 DEF CheckOrganization, At, rows
  <2>2. CASE Goto(p, "failed")
    BY <1>6, <2>1, <2>2
  <2>3. CASE ~ Goto(p, "failed")
    <3>1. /\ MayWrite(p)
          /\ req' = [req EXCEPT ![p].step = "device",
                                ![p].bornUnknown = owner[req[p].device] = None]
      BY <1>11, <2>3 DEF CheckOrganization
    <3>2. req[p] \in Reports
      BY <1>1, <2>1 DEF At, Idle
    <3>3. PICK b \in BOOLEAN : b = (owner[req[p].device] = None)
      OBVIOUS
    <3>4. req' = [req EXCEPT ![p] = [req[p] EXCEPT !.step = "device", !.bornUnknown = b]]
      BY <1>1, <3>1, <3>2, <3>3
    <3>5. \A r \in Requests \ {p} : req'[r] = req[r]
      BY <1>1, <3>4
    <3>6. /\ req'[p].token = req[p].token /\ req'[p].device = req[p].device
          /\ req'[p].bornUnknown = b
      BY <1>1, <3>2, <3>4 DEF Reports
    <3>7. ~ b => owner[req[p].device] # None
      BY <3>3
    <3>8. Admitted(p)
      BY <2>1, <3>1, <3>6, <3>7 DEF Admitted
    <3> QED
      BY <1>2, <2>1, <3>5, <3>8
  <2> QED
    BY <2>2, <2>3
<1>12. CASE UNCHANGED req
  BY <1>2, <1>12
<1> QED
  BY <1>4, <1>5, <1>7, <1>8, <1>9, <1>10, <1>11, <1>12
     DEF Next, Handle, vars, Change, Expire, Revoke

(* A device that has an organization keeps it.                             *)
LEMMA OwnersStay ==
  ASSUME Typed, [Next]_vars, NEW d \in Devices, owner[d] # None PROVE owner'[d] = owner[d]
<1>1. ASSUME NEW q \in Requests, Commit(q) PROVE owner'[d] = owner[d]
  BY <1>1 DEF Commit, Owner, Typed, TypeOK
<1>2. ASSUME NEW q \in Requests, Send(q) \/ SendInvalid(q) PROVE owner' = owner
  BY <1>2 DEF Send, SendInvalid, rows
<1>3. ASSUME NEW q \in Requests, CheckOrganization(q) \/ RecordFailed(q) PROVE owner' = owner
  BY <1>3 DEF CheckOrganization, RecordFailed, rows
<1> QED
  BY <1>1, <1>2, <1>3
     DEF Next, Handle, vars, rows, Change, Expire, Revoke, Refuse, Select, Bind,
         UpsertDevice, UpsertAgents, QueryFails, Die

LEMMA OwnersInit == Init => OwnersAreKnown
BY DEF Init, OwnersAreKnown, Writes, Idle

LEMMA OwnersStep == Typed /\ OwnersAreKnown /\ [Next]_vars => OwnersAreKnown'
<1> SUFFICES ASSUME Typed, OwnersAreKnown, [Next]_vars, NEW q \in Requests,
                    Writes(q)', ~ req'[q].bornUnknown
             PROVE  owner'[req'[q].device] = OrgOf[req'[q].token]
  BY DEF OwnersAreKnown, OrgOfRequest
<1>0. Typed'
  BY TypedStep
<1>1. (Writes(q) /\ Carried(q)) \/ (Admitted(q) /\ owner' = owner)
  BY WritersWereAdmitted DEF Typed
<1>2. CASE Writes(q) /\ Carried(q)
  <2>1. req[q].device \in Devices /\ OrgOfRequest(q) \in Orgs
    BY <1>2, WritesItsDevice DEF Writes
  <2>2. owner[req[q].device] = OrgOfRequest(q)
    BY <1>2 DEF OwnersAreKnown, Carried
  <2>3. owner[req[q].device] # None
    BY <2>1, <2>2
  <2> QED
    BY <1>2, <2>1, <2>2, <2>3, OwnersStay DEF Carried, OrgOfRequest
<1>3. CASE Admitted(q) /\ owner' = owner
  BY <1>3 DEF Admitted, MayWrite, OrgOfRequest
<1> QED
  BY <1>1, <1>2, <1>3

LEMMA OthersStep ==
  Typed /\ OwnersAreKnown /\ [Next]_vars =>
    \A d \in Devices :
      owner[d] # None =>
        /\ owner'[d] = owner[d]
        /\ \A q \in Requests :
             At(q, "commit") /\ req[q].device = d /\ req'[q] = Idle /\ stored' # stored
               => OrgOfRequest(q) = owner[d] \/ req[q].bornUnknown
<1> SUFFICES ASSUME Typed, OwnersAreKnown, [Next]_vars, NEW d \in Devices, owner[d] # None
             PROVE  /\ owner'[d] = owner[d]
                    /\ \A q \in Requests :
                         At(q, "commit") /\ req[q].device = d
                           => OrgOfRequest(q) = owner[d] \/ req[q].bornUnknown
  OBVIOUS
<1>1. owner'[d] = owner[d]
  BY OwnersStay
<1> QED
  BY <1>1 DEF OwnersAreKnown, Writes, At

(* A device keeps its organization, and another one's snapshot gets in     *)
(* only when it was checked before the device had a row.                   *)
THEOREM OthersCommitOnlyAtBirth == Spec => OthersOnlyAtBirth
BY TypedInit, TypedStep, OwnersInit, OwnersStep, OthersStep, PTL DEF Spec, OthersOnlyAtBirth

====
