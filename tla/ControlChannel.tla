---------------------------- MODULE ControlChannel ----------------------------
(***************************************************************************)
(* The device control channel: startControlChannel of the collector, the   *)
(* web socket wrapper of src/backend/backend-server.ts, the in-memory      *)
(* channel of src/server/runtime-control-channel.ts and the connections    *)
(* that src/server/runtime-device-state-store.ts keeps.                    *)
(*                                                                         *)
(* The two ends of a socket notice the end of the connection on their own: *)
(* what the device wrote before is delivered late or not at all, and the   *)
(* device may already talk over its next socket.                           *)
(***************************************************************************)
EXTENDS Naturals, Sequences

CONSTANTS
  Device,
  Socket,         (* the sockets the devices open, in whatever order       *)
  Owner,          (* the device that opens the socket                      *)
  NoDevice,
  NoSocket,
  TokenRequired,  (* the backend verifies device tokens                    *)
  StaleAfter,     (* staleAfterMs, in ticks                                *)
  MaxQueue        (* bound of the messages waiting on a socket             *)

ASSUME ChannelAssumption ==
  /\ Owner \in [Socket -> Device]
  /\ NoDevice \notin Device
  /\ {NoSocket, "none", "pending"} \cap Socket = {}
  /\ TokenRequired \in BOOLEAN
  /\ StaleAfter \in Nat
  /\ MaxQueue \in Nat

VARIABLES
  client,   (* the socket as the device sees it                            *)
  server,   (* the socket as the backend sees it                           *)
  up,       (* messages under way from the device                          *)
  authenticating,  (* of the socket wrapper; FALSE where it is not read:   *)
                   (* before the first message and when authenticated      *)
  pending,  (* pendingMessages: received while the token is verified       *)
  channel,  (* the maps of the control channel and of the connection store *)
  startup   (* the progress of an upgrade the collector was restarted for: *)
            (* none, pending, or the socket it was sent over               *)

vars == <<client, server, up, authenticating, pending, channel, startup>>

Message == {"hello", "heartbeat", "progress"}

(* socketDeviceIds, socketsByDeviceId; status and age of lastHeartbeatAt   *)
(* of a device connection (the age is not told apart beyond StaleAfter);   *)
(* confirmed: the devices whose upgrade progress was passed on.            *)
Channel ==
  [deviceOf : [Socket -> Device \cup {NoDevice}],
   socketOf : [Device -> Socket \cup {NoSocket}],
   status   : [Device -> {"unknown", "online", "offline"}],
   age      : [Device -> 0..(StaleAfter + 1)],
   confirmed : SUBSET Device]

TypeOK ==
  /\ client \in [Socket -> {"unused", "open", "closed"}]
  /\ server \in [Socket -> {"none", "anonymous", "verifying", "attached", "closed"}]
  /\ up \in [Socket -> Seq(Message)]
  /\ authenticating \in [Socket -> BOOLEAN]
  /\ pending \in [Socket -> Seq(Message)]
  /\ channel \in Channel
  /\ startup \in [Device -> {"none", "pending"} \cup Socket]

Init ==
  /\ client = [s \in Socket |-> "unused"]
  /\ server = [s \in Socket |-> "none"]
  /\ up = [s \in Socket |-> <<>>]
  /\ authenticating = [s \in Socket |-> FALSE]
  /\ pending = [s \in Socket |-> <<>>]
  /\ channel = [deviceOf |-> [s \in Socket |-> NoDevice],
                socketOf |-> [d \in Device |-> NoSocket],
                status |-> [d \in Device |-> "unknown"],
                age |-> [d \in Device |-> 0],
                confirmed |-> {}]
  /\ startup \in [Device -> {"none", "pending"}]
------------------------------------------------------------------------------
(* The collector.                                                          *)

(* connect and its open handler.  The progress of a finished upgrade is    *)
(* sent once and recorded as sent in upgrade-state.json.                   *)
Open(s) ==
  LET d == Owner[s] IN
  /\ client[s] = "unused"
  /\ \A z \in Socket : Owner[z] = d => client[z] # "open"
  /\ client' = [client EXCEPT ![s] = "open"]
  /\ server' = [server EXCEPT ![s] = IF TokenRequired THEN "anonymous" ELSE "attached"]
  /\ up' = [up EXCEPT ![s] = <<"hello", "heartbeat">> \o
                             (IF startup[d] = "pending" THEN <<"progress">> ELSE <<>>)]
  /\ startup' = [startup EXCEPT ![d] = IF @ = "pending" THEN s ELSE @]
  /\ UNCHANGED <<authenticating, pending, channel>>

Heartbeat(s) ==
  /\ client[s] = "open" /\ server[s] # "closed"
  /\ Len(up[s]) + Len(pending[s]) < MaxQueue
  /\ up' = [up EXCEPT ![s] = Append(@, "heartbeat")]
  /\ UNCHANGED <<client, server, authenticating, pending, channel, startup>>

(* The device sees the connection end; a part of what it sent is lost. *)
ClientCloses(s) ==
  /\ client[s] = "open"
  /\ client' = [client EXCEPT ![s] = "closed"]
  /\ \E n \in 0..Len(up[s]) : up' = [up EXCEPT ![s] = SubSeq(@, 1, n)]
  /\ UNCHANGED <<server, authenticating, pending, channel, startup>>
------------------------------------------------------------------------------
(* Bug: a heartbeat only refreshes the time of an existing connection. *)
ReceivedKeepingStatus(ch, s, m) ==
  LET d == Owner[s] IN
  CASE m = "hello" ->
         [ch EXCEPT !.deviceOf[s] = d, !.socketOf[d] = s, !.status[d] = "online", !.age[d] = 0]
    [] m = "heartbeat" -> [ch EXCEPT !.age[d] = 0]
    [] m = "progress" -> [ch EXCEPT !.confirmed = @ \cup {d}]

(* receive of the control channel.  A progress message over a socket that  *)
(* is not registered for the device is answered with an error and dropped. *)
Received(ch, s, m) ==
  LET d == Owner[s] IN
  CASE m = "hello" ->
         [ch EXCEPT !.deviceOf[s] = d, !.socketOf[d] = s, !.status[d] = "online", !.age[d] = 0]
    [] m = "heartbeat" ->
         [ch EXCEPT !.status[d] = "online", !.age[d] = 0]
    [] m = "progress" ->
         IF ch.deviceOf[s] = d THEN [ch EXCEPT !.confirmed = @ \cup {d}] ELSE ch

(* Bug: a socket that is gone stays registered. *)
DetachedHalfway(ch, s) ==
  LET d == ch.deviceOf[s] IN
  IF d = NoDevice THEN ch
  ELSE [ch EXCEPT !.deviceOf[s] = NoDevice, !.status[d] = "offline"]

(* detach of the control channel. *)
Detached(ch, s) ==
  LET d == ch.deviceOf[s] IN
  IF d = NoDevice THEN ch
  ELSE [ch EXCEPT !.deviceOf[s] = NoDevice,
                  !.socketOf[d] = IF @ = s THEN NoSocket ELSE @,
                  !.status[d] = IF @ = "unknown" THEN @ ELSE "offline"]

(* The messages that waited are received in one go: the backend does       *)
(* nothing else before the last of them.                                   *)
BackendIsFree == \A s \in Socket : server[s] = "attached" => pending[s] = <<>>

(* What the wrapper of the backend closes on its own account is gone with  *)
(* all that waits on it: webSocket.close(1008).                            *)
Refuse(s) ==
  /\ server' = [server EXCEPT ![s] = "closed"]
  /\ up' = [up EXCEPT ![s] = <<>>]
  /\ pending' = [pending EXCEPT ![s] = <<>>]
  /\ authenticating' = [authenticating EXCEPT ![s] = FALSE]
  /\ UNCHANGED channel

(* The first messages of an anonymous socket, which may arrive at once: the *)
(* verification of the token starts, those behind the hello wait for it.    *)
(* The handler of a message that waits is over at once, and its finally     *)
(* takes authenticating back, though the verification goes on.              *)
StartVerification(s) ==
  /\ server[s] = "anonymous"
  /\ server' = [server EXCEPT ![s] = "verifying"]
  /\ \E n \in 1..Len(up[s]) :
       /\ pending' = [pending EXCEPT ![s] = SubSeq(up[s], 2, n)]
       /\ up' = [up EXCEPT ![s] = SubSeq(@, n + 1, Len(@))]
       /\ authenticating' = [authenticating EXCEPT ![s] = (n = 1)]
  /\ UNCHANGED channel

(* More messages arrive, together, while authenticating stands. *)
WaitForToken(s) ==
  /\ server[s] = "verifying" /\ authenticating[s]
  /\ \E n \in 1..Len(up[s]) :
       /\ pending' = [pending EXCEPT ![s] = @ \o SubSeq(up[s], 1, n)]
       /\ up' = [up EXCEPT ![s] = SubSeq(@, n + 1, Len(@))]
  /\ authenticating' = [authenticating EXCEPT ![s] = FALSE]
  /\ UNCHANGED <<server, channel>>

(* authenticating was taken back: what comes next is taken for a hello, is *)
(* none, and the socket is closed while the token is still being verified. *)
TakenForHello(s) ==
  /\ server[s] = "verifying" /\ ~authenticating[s]
  /\ up[s] # <<>>
  /\ Refuse(s)

Receive(s) ==
  /\ server[s] = "attached"
  /\ up[s] # <<>>
  /\ channel' = Received(channel, s, Head(up[s]))
  /\ up' = [up EXCEPT ![s] = Tail(@)]
  /\ UNCHANGED <<server, authenticating, pending>>

(* The message event of the web socket. *)
Deliver(s) ==
  /\ BackendIsFree
  /\ StartVerification(s) \/ WaitForToken(s) \/ TakenForHello(s) \/ Receive(s)
  /\ UNCHANGED <<client, startup>>

(* Bug: the waiting messages are received before the hello. *)
VerifiedHelloLast(s) ==
  /\ BackendIsFree
  /\ server[s] = "verifying"
  /\ server' = [server EXCEPT ![s] = "attached"]
  /\ pending' = [pending EXCEPT ![s] = Append(@, "hello")]
  /\ authenticating' = [authenticating EXCEPT ![s] = FALSE]
  /\ UNCHANGED <<client, up, channel, startup>>

(* The token is valid: the hello is received, and then what has waited.    *)
Verified(s) ==
  /\ BackendIsFree
  /\ server[s] = "verifying"
  /\ server' = [server EXCEPT ![s] = "attached"]
  /\ channel' = Received(channel, s, "hello")
  /\ authenticating' = [authenticating EXCEPT ![s] = FALSE]
  /\ UNCHANGED <<client, up, pending, startup>>

(* The next of the messages that waited for the token. *)
Replay(s) ==
  /\ server[s] = "attached"
  /\ pending[s] # <<>>
  /\ channel' = Received(channel, s, Head(pending[s]))
  /\ pending' = [pending EXCEPT ![s] = Tail(@)]
  /\ UNCHANGED <<client, server, up, authenticating, startup>>

(* The token is invalid, or the query failed: webSocket.close(1008). *)
Rejected(s) ==
  /\ BackendIsFree
  /\ server[s] = "verifying"
  /\ Refuse(s)
  /\ UNCHANGED <<client, startup>>

(* The close or error event of the web socket. *)
ServerCloses(s) ==
  /\ BackendIsFree
  /\ server[s] \in {"anonymous", "verifying", "attached"}
  /\ server' = [server EXCEPT ![s] = "closed"]
  /\ up' = [up EXCEPT ![s] = <<>>]
  /\ pending' = [pending EXCEPT ![s] = <<>>]
  /\ channel' = Detached(channel, s)
  /\ authenticating' = [authenticating EXCEPT ![s] = FALSE]
  /\ UNCHANGED <<client, startup>>

(* Bug: staleness is written back instead of computed by the reader. *)
TickWritingStale ==
  /\ channel' = [channel EXCEPT !.status =
       [d \in Device |-> IF @[d] = "online" THEN "stale" ELSE @[d]]]
  /\ UNCHANGED <<client, server, up, authenticating, pending, startup>>

(* Time passes. *)
Tick ==
  /\ channel' = [channel EXCEPT !.age =
       [d \in Device |-> IF @[d] > StaleAfter THEN @[d] ELSE @[d] + 1]]
  /\ UNCHANGED <<client, server, up, authenticating, pending, startup>>

Next ==
  \/ \E s \in Socket :
       \/ Open(s) \/ Heartbeat(s) \/ ClientCloses(s)
       \/ Deliver(s) \/ Verified(s) \/ Replay(s) \/ Rejected(s) \/ ServerCloses(s)
  \/ Tick

Spec == Init /\ [][Next]_vars

(* The heartbeat timer runs, TCP delivers, the verification query returns, *)
(* time passes.  Nobody notices a dead connection in time.                 *)
Fairness ==
  /\ \A s \in Socket :
       /\ WF_vars(Heartbeat(s)) /\ WF_vars(Deliver(s))
       /\ WF_vars(Verified(s) \/ Rejected(s)) /\ WF_vars(Replay(s))
  /\ WF_vars(Tick)

FairSpec == Spec /\ Fairness
------------------------------------------------------------------------------
(* Bug: the stored status is shown, however old it is. *)
ShownAsStored(d) == channel.status[d]

(* The status readDeviceConnection shows. *)
Shown(d) ==
  IF channel.status[d] = "online" /\ channel.age[d] > StaleAfter THEN "stale"
  ELSE channel.status[d]

(* Both ends of a socket of the device are open. *)
Talking(s) == client[s] = "open" /\ server[s] = "attached"

Connected(d) == \E s \in Socket : Owner[s] = d /\ Talking(s)

(* The two maps agree, and neither holds a socket the backend has closed:  *)
(* a request is never written to the socket of another device or to one    *)
(* known to be gone, whatever the order of hellos and closes.              *)
RegistryAgrees ==
  /\ \A d \in Device : channel.socketOf[d] # NoSocket =>
       channel.deviceOf[channel.socketOf[d]] = d
  /\ \A s \in Socket : channel.deviceOf[s] # NoDevice =>
       server[s] = "attached" /\ channel.deviceOf[s] = Owner[s]

(* The progress a restarted collector sends right after its hello, once,   *)
(* is lost only with its socket: while both ends of the socket it was sent *)
(* over stand, it is under way, it waits for the verification of the token *)
(* the hello carries, or it was passed on.  It is never taken before the   *)
(* hello and answered with an error.                                       *)
HasProgress(q) == \E i \in 1..Len(q) : q[i] = "progress"

ProgressIsNotDropped ==
  \A s \in Socket :
    startup[Owner[s]] = s /\ client[s] = "open" /\ server[s] # "closed" =>
      \/ HasProgress(up[s]) \/ HasProgress(pending[s])
      \/ Owner[s] \in channel.confirmed

(* A device that stays connected is shown online again and again, even     *)
(* when the close of an earlier socket, noticed late, sets it offline.     *)
StableDeviceIsShownOnline ==
  \A d \in Device : <>[]Connected(d) => []<>(Shown(d) = "online")

(* A device whose connections are gone is not shown online for ever, even  *)
(* when the backend never notices.                                         *)
GoneDeviceIsNotShownOnline ==
  \A d \in Device :
    <>[](\A s \in Socket : Owner[s] = d => client[s] # "open") => <>[](Shown(d) # "online")

==============================================================================
