---- MODULE DeviceIngestion ----
(***************************************************************************)
(* POST /api/device-state-snapshots: a device reports its runtimes and     *)
(* agents under a device token. The token is verified, and bound to the    *)
(* device that uses it first, in one transaction; the snapshot is stored   *)
(* in another one; a refused one is recorded as a failed ingestion. The    *)
(* token is verified for the device that the body names first (deviceId,   *)
(* else device.id), the snapshot is stored for its device.id. The requests *)
(* of one device overlap (a timed out one, a run by hand, another          *)
(* organization's installation), and tokens are revoked and expire.        *)
(***************************************************************************)
EXTENDS Naturals, FiniteSets

CONSTANTS
  Orgs, Tokens, Devices, Agents,
  OrgOf,         \* the organization of each token
  Presets,       \* the devices that each token may be created for; None: for any
  RuntimeOf,     \* the runtime of each agent
  Contents,      \* what each device may find: its runtimes and agents
  Requests,      \* requests under way at once
  Senders,       \* what each of them may carry: <<token, deviceId, device.id>>
  Unknown,       \* extractDeviceId() of a report without a device
  None,
  MaxChanges, MaxFaults    \* bounds

ASSUME IngestionAssumption ==
  /\ OrgOf \in [Tokens -> Orgs]
  /\ Presets \in [Tokens -> SUBSET (Devices \union {None})]
  /\ Senders \in [Requests -> SUBSET (Tokens \X Devices \X Devices)]
  /\ Unknown \notin Devices /\ None \notin Devices \union Orgs \union {Unknown}

\* The ids of runtimes and agents begin with that of their device.
ASSUME ContentsAssumption ==
  \A d, e \in Devices : \A c \in Contents[d], f \in Contents[e] :
    /\ c.agents \subseteq Agents
    /\ \A a \in c.agents : RuntimeOf[a] \in c.runtimes
    /\ d # e => c.runtimes \intersect f.runtimes = {}

VARIABLES
  tokens,        \* device_tokens: status and device_id
  past,          \* the tokens whose expires_at is over
  owner,         \* devices.organization_id; None: no row
  agents,        \* agents.collection_status
  latest,        \* the newest row of collector_ingestions of a device in an organization
  req,           \* the requests
  actual,        \* what there is on each device
  stored,        \* history: the snapshot of each device committed last
  reported,      \* history: the tokens of committed snapshots, and what they were verified for
  changes, faults

vars == <<tokens, past, owner, agents, latest, req, actual, stored, reported, changes, faults>>

rows == <<owner, agents, latest, stored, reported>>

Idle == [step |-> "idle"]

Invalid == [runtimes |-> {}, agents |-> {}, valid |-> FALSE]

\* No runtime is installed yet.
Nothing == [runtimes |-> {}, agents |-> {}, valid |-> TRUE]

Snapshots(d) ==
  {[runtimes |-> c.runtimes, agents |-> c.agents, valid |-> TRUE] : c \in Contents[d]}
    \union {Nothing}

AllSnapshots == UNION {Snapshots(d) : d \in Devices}

Reports ==
  [step : {"verify", "bind", "check", "device", "agents", "commit", "failed"},
   token : Tokens,
   claimed : Devices \union {Unknown},  \* extractDeviceId() of the body
   device : Devices,                    \* device.id of the snapshot
   content : AllSnapshots \union {Invalid},
   bornUnknown : BOOLEAN,      \* the check has found no row of the device
   gone : SUBSET Agents,       \* the agents it makes invisible
   overtaken : BOOLEAN]        \* a failure was recorded after its BEGIN

TypeOK ==
  /\ tokens \in [Tokens -> [status : {"pending", "occupied", "revoked", "expired"},
                            device : Devices \union {Unknown, None}]]
  /\ past \subseteq Tokens
  /\ owner \in [Devices -> Orgs \union {None}]
  /\ agents \in [Agents -> {"none", "online", "invisible"}]
  /\ latest \in [Devices \X Orgs -> {"none", "succeeded", "failed"}]
  /\ req \in [Requests -> Reports \union {Idle}]
  /\ actual \in [Devices -> AllSnapshots] /\ \A d \in Devices : actual[d] \in Snapshots(d)
  /\ stored \in [Devices -> AllSnapshots \union {Invalid}]
  /\ \A d \in Devices : stored[d] \in IF owner[d] = None THEN {Invalid} ELSE Snapshots(d)
  /\ reported \subseteq Tokens \X (Devices \union {Unknown})
  /\ changes \in Nat /\ faults \in Nat

Init ==
  /\ tokens \in [Tokens -> [status : {"pending"}, device : Devices \union {None}]]
  /\ \A k \in Tokens : tokens[k].device \in Presets[k]
  /\ past = {}
  /\ owner = [d \in Devices |-> None]
  /\ agents = [a \in Agents |-> "none"]
  /\ latest = [p \in Devices \X Orgs |-> "none"]
  /\ req = [q \in Requests |-> Idle]
  /\ actual = [d \in Devices |-> Nothing]
  /\ stored = [d \in Devices |-> Invalid]
  /\ reported = {}
  /\ changes = 0 /\ faults = 0

At(q, step) == req[q].step = step

Goto(q, step) == req' = [req EXCEPT ![q].step = step]

Fault == faults < MaxFaults /\ faults' = faults + 1

-----------------------------------------------------------------------------
(* The devices, their collectors and the organizations' administrators.    *)

Change(d) ==
  /\ changes < MaxChanges /\ changes' = changes + 1
  /\ \E c \in Snapshots(d) \ {actual[d]} : actual' = [actual EXCEPT ![d] = c]
  /\ UNCHANGED <<tokens, past, rows, req, faults>>

Request(k, claimed, d, content) ==
  [step |-> "verify", token |-> k, claimed |-> claimed, device |-> d, content |-> content,
   bornUnknown |-> FALSE, gone |-> {}, overtaken |-> FALSE]

Send(q) ==
  /\ At(q, "idle")
  /\ \E s \in Senders[q] :
       req' = [req EXCEPT ![q] = Request(s[1], s[2], s[3], actual[s[3]])]
  /\ UNCHANGED <<tokens, past, rows, actual, changes, faults>>

\* A report that normalizeDeviceStateSnapshot() refuses; it may name no device.
SendInvalid(q) ==
  /\ At(q, "idle") /\ Fault
  /\ \E s \in Senders[q], claimed \in Devices \union {Unknown} :
       /\ claimed \in {s[2], Unknown}
       /\ req' = [req EXCEPT ![q] = Request(s[1], claimed, s[3], Invalid)]
  /\ UNCHANGED <<tokens, past, rows, actual, changes>>

Expire(k) ==
  /\ past' = past \union {k} /\ past' # past
  /\ changes < MaxChanges /\ changes' = changes + 1
  /\ UNCHANGED <<tokens, rows, req, actual, faults>>

\* Bug: the row is not locked.
NeverLocked(k) == FALSE

\* FOR UPDATE: another transaction verifies the token.
Locked(k) == \E q \in Requests : At(q, "bind") /\ req[q].token = k

\* revokeDeviceToken(): waits for a verification of the token.
Revoke(k) ==
  /\ tokens[k].status # "revoked" /\ ~ Locked(k)
  /\ changes < MaxChanges /\ changes' = changes + 1
  /\ tokens' = [tokens EXCEPT ![k].status = "revoked"]
  /\ UNCHANGED <<past, rows, req, actual, faults>>

-----------------------------------------------------------------------------
(* verifyDeviceToken(): SELECT ... FOR UPDATE, then UPDATE and COMMIT.     *)

\* resolveDeviceTokenStatus()
StatusOf(k) ==
  IF tokens[k].status # "revoked" /\ k \in past THEN "expired" ELSE tokens[k].status

OtherDevice(k, d) == tokens[k].device \notin {None, d}

Refuse(q) ==
  LET k == req[q].token
  IN /\ At(q, "verify") /\ ~ Locked(k)
     /\ StatusOf(k) \in {"revoked", "expired"} \/ OtherDevice(k, req[q].claimed)
     /\ tokens' = IF StatusOf(k) = "expired" THEN [tokens EXCEPT ![k].status = "expired"]
                  ELSE tokens
     /\ req' = [req EXCEPT ![q] = Idle]
     /\ UNCHANGED <<past, rows, actual, changes, faults>>

\* Bug: the row is read without FOR UPDATE.
SelectUnlocked(q) ==
  LET k == req[q].token
  IN /\ At(q, "verify")
     /\ StatusOf(k) \in {"pending", "occupied"} /\ ~ OtherDevice(k, req[q].claimed)
     /\ Goto(q, IF StatusOf(k) = "pending" THEN "bind" ELSE "check")
     /\ UNCHANGED <<tokens, past, rows, actual, changes, faults>>

\* The token of a device that has used it before is touched (last_used_at).
Select(q) ==
  LET k == req[q].token
  IN /\ At(q, "verify") /\ ~ Locked(k)
     /\ StatusOf(k) \in {"pending", "occupied"} /\ ~ OtherDevice(k, req[q].claimed)
     /\ Goto(q, IF StatusOf(k) = "pending" THEN "bind" ELSE "check")
     /\ UNCHANGED <<tokens, past, rows, actual, changes, faults>>

Bind(q) ==
  LET k == req[q].token
      device == IF tokens[k].device = None THEN req[q].claimed ELSE tokens[k].device
  IN /\ At(q, "bind")
     /\ tokens' = [tokens EXCEPT ![k] = [status |-> "occupied", device |-> device]]
     /\ Goto(q, "check")
     /\ UNCHANGED <<past, rows, actual, changes, faults>>

-----------------------------------------------------------------------------
(* upsertDeviceStateSnapshot(), a transaction that ends in "commit".       *)

OrgOfRequest(q) == OrgOf[req[q].token]

\* Bug: any organization may report a device.
AnyMayWrite(q) == TRUE

\* assertDeviceOrganizationWritable(): a row that is not committed is not seen.
MayWrite(q) == owner[req[q].device] \in {None, OrgOfRequest(q)}

\* normalizeDeviceStateSnapshot()
Normalized(q) == req[q].content.valid

\* The snapshot is normalized, BEGIN, and the device's organization is read.
CheckOrganization(q) ==
  /\ At(q, "check")
  /\ IF Normalized(q) /\ MayWrite(q)
     THEN req' = [req EXCEPT ![q].step = "device",
                             ![q].bornUnknown = owner[req[q].device] = None]
     ELSE Goto(q, "failed")
  /\ UNCHANGED <<tokens, past, rows, actual, changes, faults>>

\* Bug: the agents are written before the device's row.
UpsertDeviceUnlocked(q) ==
  /\ At(q, "device")
  /\ Goto(q, "agents")
  /\ UNCHANGED <<tokens, past, rows, actual, changes, faults>>

\* upsertDeviceStateDevice(): holds the device's row until COMMIT.
UpsertDevice(q) ==
  /\ At(q, "device")
  /\ \A p \in Requests : At(p, "agents") \/ At(p, "commit") => req[p].device # req[q].device
  /\ Goto(q, "agents")
  /\ UNCHANGED <<tokens, past, rows, actual, changes, faults>>

\* Bug: only the agents of the snapshot are written.
NoneMissing(content) == {}

\* markAgentsMissingFromPresentRuntimesInvisible(): of the rows that are committed.
Missing(content) ==
  {a \in Agents : /\ RuntimeOf[a] \in content.runtimes
                  /\ a \notin content.agents /\ agents[a] = "online"}

UpsertAgents(q) ==
  /\ At(q, "agents")
  /\ req' = [req EXCEPT ![q].step = "commit", ![q].gone = Missing(req[q].content)]
  /\ UNCHANGED <<tokens, past, rows, actual, changes, faults>>

Owner(old, new) == IF old = None THEN new ELSE old

\* insertCollectorIngestion() and COMMIT. received_at is the time of BEGIN: a
\* failure recorded since then is newer.
Commit(q) ==
  LET d == req[q].device
      org == OrgOfRequest(q)
  IN /\ At(q, "commit")
     /\ owner' = [owner EXCEPT ![d] = Owner(@, org)]
     /\ agents' = [a \in Agents |->
                     IF a \in req[q].content.agents THEN "online"
                     ELSE IF a \in req[q].gone THEN "invisible" ELSE agents[a]]
     /\ latest' = IF req[q].overtaken THEN latest
                  ELSE [latest EXCEPT ![<<d, org>>] = "succeeded"]
     /\ stored' = [stored EXCEPT ![d] = req[q].content]
     /\ reported' = reported \union {<<req[q].token, req[q].claimed>>}
     /\ req' = [req EXCEPT ![q] = Idle]
     /\ UNCHANGED <<tokens, past, actual, changes, faults>>

\* A query of the transaction fails: ROLLBACK.
QueryFails(q) ==
  /\ req[q].step \in {"check", "device", "agents", "commit"} /\ Fault
  /\ Goto(q, "failed")
  /\ UNCHANGED <<tokens, past, rows, actual, changes>>

\* recordFailedCollectorIngestion(), after the ROLLBACK, for the device claimed.
RecordFailed(q) ==
  LET d == req[q].claimed
      org == OrgOfRequest(q)
      begun(p) == req[p].step \in {"device", "agents", "commit"} /\ req[p].device = d
                    /\ OrgOfRequest(p) = org
  IN /\ At(q, "failed")
     /\ latest' = IF d = Unknown THEN latest ELSE [latest EXCEPT ![<<d, org>>] = "failed"]
     /\ req' = [p \in Requests |->
                  IF p = q THEN Idle
                  ELSE IF begun(p) THEN [req[p] EXCEPT !.overtaken = TRUE] ELSE req[p]]
     /\ UNCHANGED <<tokens, past, owner, agents, stored, reported, actual, changes, faults>>

\* The process dies, or the failure cannot be recorded either.
Die(q) ==
  /\ ~ At(q, "idle") /\ Fault
  /\ req' = [req EXCEPT ![q] = Idle]
  /\ UNCHANGED <<tokens, past, rows, actual, changes>>

Handle(q) ==
  \/ Refuse(q) \/ Select(q) \/ Bind(q)
  \/ CheckOrganization(q) \/ UpsertDevice(q) \/ UpsertAgents(q) \/ Commit(q)
  \/ RecordFailed(q)

Next ==
  \/ \E d \in Devices : Change(d)
  \/ \E k \in Tokens : Expire(k) \/ Revoke(k)
  \/ \E q \in Requests :
       Send(q) \/ SendInvalid(q) \/ Handle(q) \/ QueryFails(q) \/ Die(q)

\* A collector reports in every interval; the server handles what it is sent.
Spec ==
  /\ Init /\ [][Next]_vars
  /\ \A q \in Requests : WF_vars(Send(q)) /\ WF_vars(Handle(q))

-----------------------------------------------------------------------------
(* The fleet shows, of the runtimes of the snapshot that was committed     *)
(* last, the agents of that snapshot and no other, however the snapshots   *)
(* of the device overlap.                                                  *)
FleetIsLastSnapshot ==
  \A d \in Devices : \A a \in Agents :
    RuntimeOf[a] \in stored[d].runtimes => (agents[a] = "online" <=> a \in stored[d].agents)

(* All snapshots that are stored under a token were verified for one and   *)
(* the same device, also when several devices use it for the first time at *)
(* once or it was created for one. The code does not compare that device   *)
(* with the one the snapshot is stored for: only a body that names one     *)
(* device, as the collector's do, is stored for the device of its token.   *)
TokenVerifiesOneDevice ==
  \A r, s \in reported : r[1] = s[1] => r[2] = s[2]

(* A token that was revoked is never valid again: no verification that     *)
(* overlaps the revocation brings it back.                                 *)
RevokedStaysRevoked ==
  [][\A k \in Tokens : tokens[k].status = "revoked" => tokens'[k].status = "revoked"]_vars

(* A device keeps its organization. A snapshot of another one is stored    *)
(* only when it was checked before the device had a row at all.            *)
OthersOnlyAtBirth ==
  [][\A d \in Devices :
       owner[d] # None =>
         /\ owner'[d] = owner[d]
         /\ \A q \in Requests :
              At(q, "commit") /\ req[q].device = d /\ req'[q] = Idle /\ stored' # stored
                => OrgOfRequest(q) = owner[d] \/ req[q].bornUnknown]_vars

(* When reports are valid and accepted again, the fleet shows what there   *)
(* is on a device, and its newest ingestion is no failure: no report that  *)
(* is late or was overtaken stays for good.                                *)
Accepted(k, d) ==
  StatusOf(k) = "occupied" /\ tokens[k].device = d /\ owner[d] = OrgOf[k]

ShownAsItIs(d) ==
  \A a \in Agents :
    RuntimeOf[a] \in actual[d].runtimes => (agents[a] = "online" <=> a \in actual[d].agents)

DevicesRecover ==
  <>[](\A q \in Requests, k \in Tokens, d \in Devices :
         Senders[q] = {<<k, d, d>>} /\ Accepted(k, d)
           => ShownAsItIs(d) /\ latest[<<d, OrgOf[k]>>] = "succeeded")

====
