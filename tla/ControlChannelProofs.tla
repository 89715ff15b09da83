------------------------- MODULE ControlChannelProofs ------------------------
(***************************************************************************)
(* For any number of devices and sockets, with and without tokens, however *)
(* messages, closes and verifications interleave: the maps of the channel  *)
(* agree, and the progress a device sends after its hello is not dropped   *)
(* while its socket stands.  The argument is that a socket the channel     *)
(* does not know yet has its hello at the head of what is under way, and   *)
(* nothing waiting.                                                        *)
(***************************************************************************)
EXTENDS ControlChannel, SequenceTheorems, TLAPS

(* The two maps of a channel agree. *)
MapsAgree(ch) ==
  /\ \A d \in Device : ch.socketOf[d] # NoSocket => ch.deviceOf[ch.socketOf[d]] = d
  /\ \A s \in Socket : ch.deviceOf[s] # NoDevice => ch.deviceOf[s] = Owner[s]

KnownSocketsAreAttached ==
  \A s \in Socket : channel.deviceOf[s] # NoDevice => server[s] = "attached"

(* A socket that is not opened has nothing on either side. *)
UnusedIsEmpty ==
  \A s \in Socket : client[s] = "unused" => server[s] = "none" /\ pending[s] = <<>>

(* The backend has the socket and has not received its hello. *)
Unmet(s) ==
  \/ server[s] = "anonymous"
  \/ server[s] = "attached" /\ channel.deviceOf[s] = NoDevice

HelloComesFirst ==
  \A s \in Socket : Unmet(s) =>
    /\ pending[s] = <<>>
    /\ up[s] # <<>> => up[s][1] = "hello"
    /\ client[s] = "open" => up[s] # <<>>

(* The progress is recorded as sent over a socket that has been opened. *)
SentIsUsed == \A s \in Socket : startup[Owner[s]] = s => client[s] # "unused"

ChannelInv ==
  /\ TypeOK /\ MapsAgree(channel) /\ KnownSocketsAreAttached
  /\ UnusedIsEmpty /\ HelloComesFirst /\ SentIsUsed /\ ProgressIsNotDropped

------------------------------------------------------------------------------
(* What a message and the end of a socket do to the maps.                  *)

LEMMA ReceivedMaps ==
  ASSUME NEW ch \in Channel, MapsAgree(ch), NEW s \in Socket, NEW m \in Message
  PROVE  /\ Received(ch, s, m) \in Channel
         /\ MapsAgree(Received(ch, s, m))
         /\ \A z \in Socket : Received(ch, s, m).deviceOf[z] =
              IF z = s /\ m = "hello" THEN Owner[s] ELSE ch.deviceOf[z]
         /\ ch.confirmed \subseteq Received(ch, s, m).confirmed
         /\ m = "progress" /\ ch.deviceOf[s] = Owner[s]
              => Owner[s] \in Received(ch, s, m).confirmed
<1> DEFINE d == Owner[s]
<1>0. d \in Device /\ 0 \in 0..(StaleAfter + 1)
  BY ChannelAssumption
<1>1. CASE m = "hello"
  <2> DEFINE new == [ch EXCEPT !.deviceOf = [ch.deviceOf EXCEPT ![s] = d],
                               !.socketOf = [ch.socketOf EXCEPT ![d] = s],
                               !.status = [ch.status EXCEPT ![d] = "online"],
                               !.age = [ch.age EXCEPT ![d] = 0]]
  <2>1. Received(ch, s, m) = new
    BY <1>1 DEF Received
  <2>2. /\ new \in Channel /\ new.confirmed = ch.confirmed
        /\ new.deviceOf = [ch.deviceOf EXCEPT ![s] = d]
        /\ new.socketOf = [ch.socketOf EXCEPT ![d] = s]
    BY <1>0 DEF Channel
  <2> HIDE DEF new
  <2>3. MapsAgree(new)
    BY <1>0, <2>2, ChannelAssumption DEF MapsAgree, Channel
  <2> QED
    BY <1>1, <2>1, <2>2, <2>3 DEF Channel
<1>2. CASE m = "heartbeat"
  <2> DEFINE new == [ch EXCEPT !.status = [ch.status EXCEPT ![d] = "online"],
                               !.age = [ch.age EXCEPT ![d] = 0]]
  <2>1. Received(ch, s, m) = new
    BY <1>2 DEF Received
  <2>2. /\ new \in Channel /\ new.confirmed = ch.confirmed
        /\ new.deviceOf = ch.deviceOf /\ new.socketOf = ch.socketOf
    BY <1>0 DEF Channel
  <2> HIDE DEF new
  <2> QED
    BY <1>2, <2>1, <2>2 DEF MapsAgree
<1>3. CASE m = "progress"
  <2> DEFINE new == Received(ch, s, m)
  <2>1. new = IF ch.deviceOf[s] = d THEN [ch EXCEPT !.confirmed = ch.confirmed \cup {d}]
              ELSE ch
    BY <1>3 DEF Received
  <2>2. /\ new \in Channel /\ new.deviceOf = ch.deviceOf /\ new.socketOf = ch.socketOf
        /\ ch.confirmed \subseteq new.confirmed
        /\ ch.deviceOf[s] = d => d \in new.confirmed
    <3> HIDE DEF new
    <3>1. CASE ch.deviceOf[s] = d
      <4>1. new = [ch EXCEPT !.confirmed = ch.confirmed \cup {d}]
        BY <2>1, <3>1
      <4>2. ch.confirmed \cup {d} \in SUBSET Device
        BY <1>0 DEF Channel
      <4> QED
        BY <4>1, <4>2 DEF Channel
    <3>2. CASE ch.deviceOf[s] # d
      BY <2>1, <3>2
    <3> QED
      BY <3>1, <3>2
  <2>3. MapsAgree(new)
    BY <2>2 DEF MapsAgree
  <2>4. /\ \A z \in Socket : new.deviceOf[z] = ch.deviceOf[z]
        /\ ch.deviceOf[s] = Owner[s] => Owner[s] \in new.confirmed
    BY <2>2
  <2> HIDE DEF new
  <2>5. m # "hello"
    BY <1>3
  <2> USE DEF new
  <2> QED
    BY <1>3, <2>2, <2>3, <2>4, <2>5
<1> QED
  BY <1>1, <1>2, <1>3 DEF Message

LEMMA DetachedMaps ==
  ASSUME NEW ch \in Channel, MapsAgree(ch), NEW s \in Socket
  PROVE  /\ Detached(ch, s) \in Channel
         /\ MapsAgree(Detached(ch, s))
         /\ \A z \in Socket : Detached(ch, s).deviceOf[z] =
              IF z = s THEN NoDevice ELSE ch.deviceOf[z]
         /\ Detached(ch, s).confirmed = ch.confirmed
<1> DEFINE d == ch.deviceOf[s]
<1>1. CASE d = NoDevice
  BY <1>1 DEF Detached
<1>2. CASE d # NoDevice
  <2>0. d \in Device
    BY <1>2 DEF Channel
  <2> DEFINE new == [ch EXCEPT !.deviceOf = [ch.deviceOf EXCEPT ![s] = NoDevice],
                               !.socketOf = [ch.socketOf EXCEPT ![d] =
                                   IF ch.socketOf[d] = s THEN NoSocket ELSE ch.socketOf[d]],
                               !.status = [ch.status EXCEPT ![d] =
                                   IF ch.status[d] = "unknown" THEN ch.status[d] ELSE "offline"]]
  <2>1. Detached(ch, s) = new
    BY <1>2 DEF Detached
  <2>2. /\ new \in Channel /\ new.confirmed = ch.confirmed
        /\ new.deviceOf = [ch.deviceOf EXCEPT ![s] = NoDevice]
        /\ new.socketOf = [ch.socketOf EXCEPT ![d] =
                             IF ch.socketOf[d] = s THEN NoSocket ELSE ch.socketOf[d]]
    BY <2>0 DEF Channel
  <2> HIDE DEF new
  <2>3. MapsAgree(new)
    BY <1>2, <2>0, <2>2, ChannelAssumption DEF MapsAgree, Channel
  <2> QED
    BY <2>1, <2>2, <2>3 DEF Channel
<1> QED
  BY <1>1, <1>2

------------------------------------------------------------------------------
(* What a new socket sends first, and what is left of what it sent.        *)

LEMMA FirstMessages ==
  ASSUME NEW tail \in {<<>>, <<"progress">>}
  PROVE  /\ <<"hello", "heartbeat">> \o tail \in Seq(Message)
         /\ <<"hello", "heartbeat">> \o tail # <<>>
         /\ (<<"hello", "heartbeat">> \o tail)[1] = "hello"
         /\ tail # <<>> => HasProgress(<<"hello", "heartbeat">> \o tail)
<1>1. <<"hello", "heartbeat">> \in Seq(Message) /\ tail \in Seq(Message)
  <2>1. "hello" \in Message /\ "heartbeat" \in Message /\ "progress" \in Message
    BY DEF Message
  <2>2. <<"hello", "heartbeat">> \in Seq(Message)
    BY <2>1
  <2>3. <<"progress">> \in Seq(Message)
    BY <2>1
  <2>4. <<>> \in Seq(Message)
    BY EmptySeq
  <2> QED
    BY <2>2, <2>3, <2>4
<1>2. Len(<<"hello", "heartbeat">>) = 2 /\ Len(tail) \in Nat
  BY <1>1, LenProperties
<1>3. /\ <<"hello", "heartbeat">> \o tail \in Seq(Message)
      /\ Len(<<"hello", "heartbeat">> \o tail) = 2 + Len(tail)
      /\ (<<"hello", "heartbeat">> \o tail)[1] = "hello"
  BY <1>1, <1>2, ConcatProperties
<1>4. CASE tail = <<"progress">>
  <2>1. Len(tail) = 1 /\ tail[1] = "progress"
    BY <1>4
  <2>2. (<<"hello", "heartbeat">> \o tail)[3] = "progress"
    BY <1>1, <1>2, <2>1, ConcatProperties
  <2> QED
    BY <1>2, <1>3, <2>1, <2>2, EmptySeq DEF HasProgress
<1> QED
  BY <1>2, <1>3, <1>4, EmptySeq

(* A part of what is under way, and the progress in one of two parts.      *)
LEMMA PartOf ==
  ASSUME NEW q \in Seq(Message), NEW m \in 1..2, NEW n \in 0..Len(q)
  PROVE  /\ SubSeq(q, m, n) \in Seq(Message)
         /\ SubSeq(q, n + 1, Len(q)) \in Seq(Message)
         /\ n >= 1 /\ HasProgress(q) /\ (m = 2 => q[1] # "progress") =>
              HasProgress(SubSeq(q, m, n)) \/ HasProgress(SubSeq(q, n + 1, Len(q)))
<1>0. Len(q) \in Nat /\ \A i \in 1..Len(q) : q[i] \in Message
  BY LenProperties, ElementOfSeq
<1>1. /\ SubSeq(q, m, n) \in Seq(Message)
      /\ Len(SubSeq(q, m, n)) = IF m <= n THEN n - m + 1 ELSE 0
      /\ \A i \in 1..(n - m + 1) : SubSeq(q, m, n)[i] = q[m + i - 1]
  <2>1. \A i \in m..n : q[i] \in Message
    BY <1>0
  <2> QED
    BY <1>0, <2>1, SubSeqProperties
<1>2. /\ SubSeq(q, n + 1, Len(q)) \in Seq(Message)
      /\ Len(SubSeq(q, n + 1, Len(q))) = IF n + 1 <= Len(q) THEN Len(q) - (n + 1) + 1 ELSE 0
      /\ \A i \in 1..(Len(q) - (n + 1) + 1) :
           SubSeq(q, n + 1, Len(q))[i] = q[n + 1 + i - 1]
  <2>1. \A i \in (n + 1)..Len(q) : q[i] \in Message
    BY <1>0
  <2>2. n + 1 \in Int /\ Len(q) \in Int
    BY <1>0
  <2> HIDE DEF HasProgress
  <2> QED
    BY <2>1, <2>2, SubSeqProperties
<1>3. ASSUME n >= 1, HasProgress(q), m = 2 => q[1] # "progress"
      PROVE  HasProgress(SubSeq(q, m, n)) \/ HasProgress(SubSeq(q, n + 1, Len(q)))
  <2>1. PICK i \in 1..Len(q) : q[i] = "progress"
    BY <1>3 DEF HasProgress
  <2>2. CASE i <= n
    <3>1. i >= m /\ i - m + 1 \in 1..(n - m + 1) /\ m <= n
      BY <1>0, <1>3, <2>1, <2>2
    <3>2. SubSeq(q, m, n)[i - m + 1] = q[m + (i - m + 1) - 1]
      BY <1>1, <3>1
    <3>3. m + (i - m + 1) - 1 = i
      OBVIOUS
    <3>4. i - m + 1 \in 1..Len(SubSeq(q, m, n))
      BY <1>1, <3>1
    <3> QED
      BY <2>1, <3>2, <3>3, <3>4 DEF HasProgress
  <2>3. CASE i > n
    <3>1. i - n \in 1..(Len(q) - (n + 1) + 1) /\ n + 1 <= Len(q)
      BY <1>0, <2>3
    <3>2. SubSeq(q, n + 1, Len(q))[i - n] = q[n + 1 + (i - n) - 1]
      BY <1>2, <3>1
    <3>3. n + 1 + (i - n) - 1 = i
      OBVIOUS
    <3>4. i - n \in 1..Len(SubSeq(q, n + 1, Len(q)))
      BY <1>2, <3>1
    <3> QED
      BY <2>1, <3>2, <3>3, <3>4 DEF HasProgress
  <2> QED
    BY <1>0, <2>2, <2>3
<1> QED
  BY <1>1, <1>2, <1>3

(* What waits keeps the progress when more comes to wait. *)
LEMMA Joined ==
  ASSUME NEW p \in Seq(Message), NEW q \in Seq(Message)
  PROVE  /\ p \o q \in Seq(Message)
         /\ HasProgress(p) \/ HasProgress(q) => HasProgress(p \o q)
<1>0. Len(p) \in Nat /\ Len(q) \in Nat
  BY LenProperties
<1>1. /\ p \o q \in Seq(Message) /\ Len(p \o q) = Len(p) + Len(q)
      /\ \A i \in 1..(Len(p) + Len(q)) :
           (p \o q)[i] = IF i <= Len(p) THEN p[i] ELSE q[i - Len(p)]
  BY ConcatProperties
<1>2. ASSUME HasProgress(p) PROVE HasProgress(p \o q)
  <2>1. PICK i \in 1..Len(p) : p[i] = "progress"
    BY <1>2 DEF HasProgress
  <2> QED
    BY <1>0, <1>1, <2>1 DEF HasProgress
<1>3. ASSUME HasProgress(q) PROVE HasProgress(p \o q)
  <2>1. PICK i \in 1..Len(q) : q[i] = "progress"
    BY <1>3 DEF HasProgress
  <2>2. i + Len(p) \in 1..(Len(p) + Len(q)) /\ ~(i + Len(p) <= Len(p))
        /\ i + Len(p) - Len(p) = i
    BY <1>0
  <2>3. (p \o q)[i + Len(p)] = q[i]
    BY <1>1, <2>2
  <2> QED
    BY <1>1, <2>1, <2>2, <2>3 DEF HasProgress
<1> QED
  BY <1>1, <1>2, <1>3

LEMMA PrefixOf ==
  ASSUME NEW q \in Seq(Message), NEW n \in 0..Len(q)
  PROVE  /\ SubSeq(q, 1, n) \in Seq(Message)
         /\ SubSeq(q, 1, n) # <<>> => q # <<>> /\ SubSeq(q, 1, n)[1] = q[1]
<1>1. \A i \in 1..n : q[i] \in Message
  BY LenProperties, ElementOfSeq
<1>2. /\ SubSeq(q, 1, n) \in Seq(Message)
      /\ Len(SubSeq(q, 1, n)) = IF 1 <= n THEN n - 1 + 1 ELSE 0
      /\ \A i \in 1..(n - 1 + 1) : SubSeq(q, 1, n)[i] = q[1 + i - 1]
  BY <1>1, LenProperties, SubSeqProperties
<1>3. CASE n = 0
  BY <1>2, <1>3, EmptySeq
<1>4. CASE n > 0
  BY <1>2, <1>4, LenProperties, EmptySeq
<1> QED
  BY <1>2, <1>3, <1>4, LenProperties

------------------------------------------------------------------------------
LEMMA ChannelInit == Init => ChannelInv
<1> SUFFICES ASSUME Init PROVE ChannelInv
  OBVIOUS
<1>1. channel \in Channel
  BY ChannelAssumption DEF Init, Channel
<1>2. TypeOK
  BY <1>1, EmptySeq DEF Init, TypeOK
<1>3. \A s \in Socket : startup[Owner[s]] # s
  <2>1. \A s \in Socket : startup[Owner[s]] \in {"none", "pending"} /\ s \notin {"none", "pending"}
    BY ChannelAssumption DEF Init
  <2> QED
    BY <2>1
<1>4. MapsAgree(channel) /\ KnownSocketsAreAttached /\ UnusedIsEmpty /\ HelloComesFirst
  BY DEF Init, MapsAgree, KnownSocketsAreAttached, UnusedIsEmpty, HelloComesFirst, Unmet
<1> QED
  BY <1>2, <1>3, <1>4 DEF ChannelInv, SentIsUsed, ProgressIsNotDropped

(* What is left of a queue after its head. *)
LEMMA QueueStep ==
  ASSUME NEW q \in Seq(Message), q # <<>>
  PROVE  /\ Head(q) \in Message /\ Tail(q) \in Seq(Message) /\ Head(q) = q[1]
         /\ HasProgress(q) /\ Head(q) # "progress" => HasProgress(Tail(q))
<1>1. /\ Head(q) \in Message /\ Tail(q) \in Seq(Message) /\ Head(q) = q[1]
      /\ Len(Tail(q)) = Len(q) - 1 /\ \A i \in 1..Len(Tail(q)) : Tail(q)[i] = q[i + 1]
  BY HeadTailProperties
<1>2. ASSUME HasProgress(q), Head(q) # "progress" PROVE HasProgress(Tail(q))
  <2>1. PICK i \in 1..Len(q) : q[i] = "progress"
    BY <1>2 DEF HasProgress
  <2>2. Len(q) \in Nat /\ i - 1 \in 1..Len(Tail(q)) /\ (i - 1) + 1 = i
    BY <1>1, <1>2, <2>1, LenProperties
  <2> QED
    BY <1>1, <2>1, <2>2 DEF HasProgress
<1> QED
  BY <1>1, <1>2

LEMMA Appended ==
  ASSUME NEW q \in Seq(Message), NEW m \in Message
  PROVE  /\ Append(q, m) \in Seq(Message) /\ Append(q, m) # <<>>
         /\ q # <<>> => Append(q, m)[1] = q[1]
         /\ HasProgress(q) => HasProgress(Append(q, m))
<1>1. /\ Append(q, m) \in Seq(Message)
      /\ Len(Append(q, m)) = Len(q) + 1
      /\ \A i \in 1..Len(q) : Append(q, m)[i] = q[i]
  BY AppendProperties, LenProperties
<1>2. HasProgress(q) => HasProgress(Append(q, m))
  BY <1>1, LenProperties DEF HasProgress
<1>3. Append(q, m) # <<>> /\ (q # <<>> => Append(q, m)[1] = q[1])
  BY <1>1, LenProperties, EmptySeq
<1> QED
  BY <1>1, <1>2, <1>3

(* A step that leaves all sockets but one alone, and that one met.         *)
LEMMA SocketIsMet ==
  ASSUME HelloComesFirst, NEW s \in Socket,
         server'[s] # "anonymous",
         server'[s] = "attached" => channel'.deviceOf[s] # NoDevice,
         \A z \in Socket : z # s =>
           /\ client'[z] = client[z] /\ server'[z] = server[z]
           /\ up'[z] = up[z] /\ pending'[z] = pending[z]
           /\ channel'.deviceOf[z] = channel.deviceOf[z]
  PROVE  HelloComesFirst'
<1> SUFFICES ASSUME NEW z \in Socket, Unmet(z)'
             PROVE  /\ pending'[z] = <<>>
                    /\ up'[z] # <<>> => up'[z][1] = "hello"
                    /\ client'[z] = "open" => up'[z] # <<>>
  BY DEF HelloComesFirst
<1>1. z # s
  BY DEF Unmet
<1>2. Unmet(z)
  BY <1>1 DEF Unmet
<1> QED
  BY <1>1, <1>2 DEF HelloComesFirst

(* A step that leaves all sockets but one alone, and keeps the progress of *)
(* that one while both of its ends stand.                                  *)
LEMMA ProgressIsKept ==
  ASSUME ProgressIsNotDropped, NEW s \in Socket, startup' = startup,
         channel.confirmed \subseteq channel'.confirmed,
         client'[s] = "open" /\ server'[s] # "closed" =>
           /\ client[s] = "open" /\ server[s] # "closed"
           /\ HasProgress(up[s]) \/ HasProgress(pending[s]) =>
                \/ HasProgress(up'[s]) \/ HasProgress(pending'[s])
                \/ Owner[s] \in channel'.confirmed,
         \A z \in Socket : z # s =>
           /\ client'[z] = client[z] /\ server'[z] = server[z]
           /\ up'[z] = up[z] /\ pending'[z] = pending[z]
  PROVE  ProgressIsNotDropped'
<1> SUFFICES ASSUME NEW z \in Socket, startup'[Owner[z]] = z,
                    client'[z] = "open", server'[z] # "closed"
             PROVE  \/ HasProgress(up'[z]) \/ HasProgress(pending'[z])
                    \/ Owner[z] \in channel'.confirmed
  BY DEF ProgressIsNotDropped, HasProgress
<1>1. CASE z = s
  BY <1>1 DEF ProgressIsNotDropped
<1>2. CASE z # s
  BY <1>2 DEF ProgressIsNotDropped
<1> QED
  BY <1>1, <1>2

(* A socket that the wrapper closes while its token is verified. *)
LEMMA RefusedSocket ==
  ASSUME ChannelInv, NEW s \in Socket, server[s] = "verifying", Refuse(s),
         UNCHANGED <<client, startup>>
  PROVE  ChannelInv'
<1>1. /\ server' = [server EXCEPT ![s] = "closed"]
      /\ up' = [up EXCEPT ![s] = <<>>] /\ pending' = [pending EXCEPT ![s] = <<>>]
      /\ authenticating' = [authenticating EXCEPT ![s] = FALSE]
      /\ UNCHANGED <<client, channel, startup>>
  BY DEF Refuse
<1>2. TypeOK'
  BY <1>1, EmptySeq DEF ChannelInv, TypeOK
<1>3. KnownSocketsAreAttached' /\ UnusedIsEmpty' /\ HelloComesFirst'
  BY <1>1 DEF ChannelInv, TypeOK, KnownSocketsAreAttached, UnusedIsEmpty, HelloComesFirst,
     Unmet
<1>4. ProgressIsNotDropped'
  <2>1. server'[s] = "closed" /\ \A z \in Socket : z # s =>
          server'[z] = server[z] /\ up'[z] = up[z] /\ pending'[z] = pending[z]
    BY <1>1 DEF ChannelInv, TypeOK
  <2> QED
    BY <1>1, <2>1, ProgressIsKept DEF ChannelInv
<1> QED
  BY <1>1, <1>2, <1>3, <1>4 DEF ChannelInv, MapsAgree, SentIsUsed

(* Every step preserves the invariant.                                     *)
LEMMA ChannelStep == ChannelInv /\ [Next]_vars => ChannelInv'
<1> SUFFICES ASSUME ChannelInv, [Next]_vars PROVE ChannelInv'
  OBVIOUS
<1> USE DEF ChannelInv, KnownSocketsAreAttached, UnusedIsEmpty, HelloComesFirst, Unmet
<1>0. /\ client \in [Socket -> {"unused", "open", "closed"}]
      /\ server \in [Socket -> {"none", "anonymous", "verifying", "attached", "closed"}]
      /\ up \in [Socket -> Seq(Message)] /\ pending \in [Socket -> Seq(Message)]
      /\ authenticating \in [Socket -> BOOLEAN]
      /\ channel \in Channel /\ startup \in [Device -> {"none", "pending"} \cup Socket]
  BY DEF TypeOK
<1>1. ASSUME NEW s \in Socket, Open(s) PROVE ChannelInv'
  <2> DEFINE d == Owner[s]
             tail == IF startup[d] = "pending" THEN <<"progress">> ELSE <<>>
             said == <<"hello", "heartbeat">> \o tail
  <2>1. tail \in {<<>>, <<"progress">>}
    OBVIOUS
  <2>2. said \in Seq(Message) /\ said # <<>> /\ said[1] = "hello"
        /\ (tail # <<>> => HasProgress(said))
    BY <2>1, FirstMessages
  <2>3. up' = [up EXCEPT ![s] = said]
    BY <1>1 DEF Open
  <2> HIDE DEF said, tail
  <2>4. TypeOK'
    <3>1. /\ client' = [client EXCEPT ![s] = "open"]
          /\ server' = [server EXCEPT ![s] = IF TokenRequired THEN "anonymous" ELSE "attached"]
          /\ startup' = [startup EXCEPT ![d] = IF startup[d] = "pending" THEN s
                                              ELSE startup[d]]
          /\ UNCHANGED <<authenticating, pending, channel>>
      BY <1>1 DEF Open
    <3> QED
      BY <1>0, <2>2, <2>3, <3>1 DEF TypeOK
  <2>5. server[s] = "none" /\ pending[s] = <<>> /\ channel.deviceOf[s] = NoDevice
    BY <1>0, <1>1 DEF Open
  <2>6. /\ client' = [client EXCEPT ![s] = "open"] /\ channel' = channel
        /\ pending' = pending
        /\ server' = [server EXCEPT ![s] = IF TokenRequired THEN "anonymous" ELSE "attached"]
    BY <1>1 DEF Open
  <2>7. KnownSocketsAreAttached' /\ UnusedIsEmpty'
    BY <1>0, <2>5, <2>6
  <2>8. HelloComesFirst'
    BY <1>0, <2>2, <2>3, <2>5, <2>6
  <2>9. /\ client[s] = "unused"
        /\ startup' = [startup EXCEPT ![d] = IF startup[d] = "pending" THEN s
                                            ELSE startup[d]]
    BY <1>1 DEF Open
  <2>10. ASSUME NEW z \in Socket, z # s, startup'[Owner[z]] = z
         PROVE  startup[Owner[z]] = z
    <3>1. Owner[z] \in Device /\ d \in Device
      BY ChannelAssumption
    <3> QED
      BY <1>0, <2>9, <2>10, <3>1
  <2>11. startup[d] # s
    BY <2>9 DEF SentIsUsed
  <2>12. SentIsUsed'
    BY <1>0, <2>6, <2>9, <2>10 DEF SentIsUsed
  <2>13. ProgressIsNotDropped'
    <3> SUFFICES ASSUME NEW z \in Socket, startup'[Owner[z]] = z,
                        client'[z] = "open", server'[z] # "closed"
                 PROVE  \/ HasProgress(up'[z]) \/ HasProgress(pending'[z])
                        \/ Owner[z] \in channel'.confirmed
      BY DEF ProgressIsNotDropped, HasProgress
    <3>1. CASE z # s
      <4>1. /\ client[z] = "open" /\ server[z] # "closed"
            /\ up'[z] = up[z] /\ pending'[z] = pending[z]
        BY <1>0, <2>3, <2>6, <3>1
      <4> QED
        BY <2>6, <2>10, <3>1, <4>1 DEF ProgressIsNotDropped
    <3>2. CASE z = s
      <4>1. d \in Device
        BY ChannelAssumption
      <4>2. startup[d] = "pending"
        BY <1>0, <2>9, <2>11, <3>2, <4>1
      <4>3. HasProgress(said)
        BY <2>2, <4>2 DEF tail
      <4>4. up'[s] = said
        BY <1>0, <2>3
      <4> QED
        BY <3>2, <4>3, <4>4
    <3> QED
      BY <3>1, <3>2
  <2> QED
    BY <2>4, <2>6, <2>7, <2>8, <2>12, <2>13
<1>2. ASSUME NEW s \in Socket, Heartbeat(s) PROVE ChannelInv'
  <2> DEFINE more == Append(up[s], "heartbeat")
  <2>1. /\ client[s] = "open" /\ up' = [up EXCEPT ![s] = more]
        /\ UNCHANGED <<client, server, authenticating, pending, channel, startup>>
    BY <1>2 DEF Heartbeat
  <2>2. more \in Seq(Message) /\ more # <<>> /\ (up[s] # <<>> => more[1] = up[s][1])
        /\ (HasProgress(up[s]) => HasProgress(more))
    BY <1>0, Appended DEF Message
  <2> HIDE DEF more
  <2>3. TypeOK'
    BY <1>0, <2>1, <2>2 DEF TypeOK
  <2>4. HelloComesFirst'
    BY <1>0, <2>1, <2>2
  <2>5. ProgressIsNotDropped'
    <3>1. up'[s] = more /\ \A z \in Socket : z # s => up'[z] = up[z]
      BY <1>0, <2>1
    <3> QED
      BY <2>1, <2>2, <3>1, ProgressIsKept
  <2> QED
    BY <2>1, <2>3, <2>4, <2>5 DEF SentIsUsed
<1>3. ASSUME NEW s \in Socket, ClientCloses(s) PROVE ChannelInv'
  <2>1. PICK n \in 0..Len(up[s]) : up' = [up EXCEPT ![s] = SubSeq(up[s], 1, n)]
    BY <1>3 DEF ClientCloses
  <2> DEFINE left == SubSeq(up[s], 1, n)
  <2>2. left \in Seq(Message) /\ (left # <<>> => up[s] # <<>> /\ left[1] = up[s][1])
    BY <1>0, PrefixOf
  <2>3. up' = [up EXCEPT ![s] = left]
    BY <2>1
  <2> HIDE DEF left
  <2>4. /\ client' = [client EXCEPT ![s] = "closed"]
        /\ UNCHANGED <<server, authenticating, pending, channel, startup>>
        /\ client[s] = "open"
    BY <1>3 DEF ClientCloses
  <2>5. TypeOK'
    BY <1>0, <2>2, <2>3, <2>4 DEF TypeOK
  <2>6. HelloComesFirst'
    BY <1>0, <2>2, <2>3, <2>4
  <2>7. UnusedIsEmpty'
    BY <1>0, <2>4
  <2>8. ProgressIsNotDropped'
    <3>1. client'[s] = "closed" /\ \A z \in Socket : z # s =>
            client'[z] = client[z] /\ up'[z] = up[z]
      BY <1>0, <2>3, <2>4
    <3> QED
      BY <2>4, <3>1, ProgressIsKept
  <2>9. SentIsUsed'
    BY <1>0, <2>4 DEF SentIsUsed
  <2> QED
    BY <2>4, <2>5, <2>6, <2>7, <2>8, <2>9
<1>4. ASSUME NEW s \in Socket, Deliver(s) PROVE ChannelInv'
  <2>1. UNCHANGED <<client, startup>> /\ BackendIsFree
    BY <1>4 DEF Deliver
  <2>2. SentIsUsed'
    BY <2>1 DEF SentIsUsed
  <2>3. CASE StartVerification(s)
    <3>1. PICK n \in 1..Len(up[s]) :
            /\ pending' = [pending EXCEPT ![s] = SubSeq(up[s], 2, n)]
            /\ up' = [up EXCEPT ![s] = SubSeq(up[s], n + 1, Len(up[s]))]
            /\ authenticating' = [authenticating EXCEPT ![s] = (n = 1)]
      BY <2>3 DEF StartVerification
    <3>2. /\ server[s] = "anonymous" /\ server' = [server EXCEPT ![s] = "verifying"]
          /\ channel' = channel
      BY <2>3 DEF StartVerification
    <3> DEFINE kept == SubSeq(up[s], 2, n)
               rest == SubSeq(up[s], n + 1, Len(up[s]))
    <3>3. Len(up[s]) \in Nat /\ up[s] # <<>>
      BY <1>0, EmptySeq, LenProperties
    <3>4. up[s][1] = "hello" /\ pending[s] = <<>>
      BY <3>2, <3>3
    <3>5. kept \in Seq(Message) /\ rest \in Seq(Message)
          /\ (HasProgress(up[s]) => HasProgress(kept) \/ HasProgress(rest))
      BY <1>0, <3>3, <3>4, PartOf
    <3>6. /\ pending' = [pending EXCEPT ![s] = kept] /\ up' = [up EXCEPT ![s] = rest]
          /\ authenticating' \in [Socket -> BOOLEAN]
      BY <1>0, <3>1
    <3> HIDE DEF kept, rest
    <3>7. TypeOK'
      BY <1>0, <2>1, <3>2, <3>5, <3>6 DEF TypeOK
    <3>8. KnownSocketsAreAttached'
      BY <1>0, <3>2
    <3>9. UnusedIsEmpty'
      BY <1>0, <2>1, <3>2, <3>6
    <3>10. HelloComesFirst'
      BY <1>0, <2>1, <3>2, <3>6
    <3>11. ProgressIsNotDropped'
      <4>1. ~HasProgress(pending[s])
        BY <3>4 DEF HasProgress
      <4>2. pending'[s] = kept /\ up'[s] = rest /\ \A z \in Socket : z # s =>
              /\ server'[z] = server[z] /\ up'[z] = up[z] /\ pending'[z] = pending[z]
        BY <1>0, <3>2, <3>6
      <4> QED
        BY <2>1, <3>2, <3>5, <4>1, <4>2, ProgressIsKept
    <3> QED
      BY <2>2, <3>2, <3>7, <3>8, <3>9, <3>10, <3>11
  <2>4. CASE WaitForToken(s)
    <3>1. PICK n \in 1..Len(up[s]) :
            /\ pending' = [pending EXCEPT ![s] = pending[s] \o SubSeq(up[s], 1, n)]
            /\ up' = [up EXCEPT ![s] = SubSeq(up[s], n + 1, Len(up[s]))]
      BY <2>4 DEF WaitForToken
    <3>2. /\ server[s] = "verifying" /\ server' = server /\ channel' = channel
          /\ authenticating' = [authenticating EXCEPT ![s] = FALSE]
      BY <2>4 DEF WaitForToken
    <3> DEFINE more == SubSeq(up[s], 1, n)
               kept == pending[s] \o more
               rest == SubSeq(up[s], n + 1, Len(up[s]))
    <3>3. more \in Seq(Message) /\ rest \in Seq(Message)
          /\ (HasProgress(up[s]) => HasProgress(more) \/ HasProgress(rest))
      BY <1>0, LenProperties, PartOf
    <3>4. kept \in Seq(Message)
          /\ (HasProgress(pending[s]) \/ HasProgress(more) => HasProgress(kept))
      BY <1>0, <3>3, Joined
    <3>5. pending' = [pending EXCEPT ![s] = kept] /\ up' = [up EXCEPT ![s] = rest]
      BY <3>1
    <3> HIDE DEF more, kept, rest
    <3>6. TypeOK'
      BY <1>0, <2>1, <3>2, <3>3, <3>4, <3>5 DEF TypeOK
    <3>7. KnownSocketsAreAttached' /\ UnusedIsEmpty'
      BY <1>0, <2>1, <3>2, <3>5
    <3>8. HelloComesFirst'
      BY <1>0, <2>1, <3>2, <3>5
    <3>9. ProgressIsNotDropped'
      <4>1. pending'[s] = kept /\ up'[s] = rest /\ \A z \in Socket : z # s =>
              up'[z] = up[z] /\ pending'[z] = pending[z]
        BY <1>0, <3>5
      <4> QED
        BY <2>1, <3>2, <3>3, <3>4, <4>1, ProgressIsKept
    <3> QED
      BY <2>2, <3>2, <3>6, <3>7, <3>8, <3>9
  <2>5. CASE TakenForHello(s)
    <3>1. server[s] = "verifying" /\ Refuse(s)
      BY <2>5 DEF TakenForHello
    <3> QED
      BY <2>1, <2>2, <3>1, RefusedSocket
  <2>6. CASE Receive(s)
    <3> DEFINE m == Head(up[s])
    <3>0. /\ server[s] = "attached" /\ up[s] # <<>>
          /\ channel' = Received(channel, s, m)
          /\ up' = [up EXCEPT ![s] = Tail(up[s])]
          /\ UNCHANGED <<server, authenticating, pending>>
      BY <2>6 DEF Receive
    <3>1. m \in Message /\ Tail(up[s]) \in Seq(Message) /\ m = up[s][1]
          /\ (HasProgress(up[s]) /\ m # "progress" => HasProgress(Tail(up[s])))
      BY <1>0, <3>0, QueueStep
    <3>2. m = "progress" => channel.deviceOf[s] = Owner[s]
      BY <1>0, <3>0, <3>1 DEF MapsAgree
    <3> HIDE DEF m
    <3>3. /\ channel' \in Channel /\ MapsAgree(channel')
          /\ channel.confirmed \subseteq channel'.confirmed
          /\ m = "progress" => Owner[s] \in channel'.confirmed
          /\ \A z \in Socket : channel'.deviceOf[z] =
               IF z = s /\ m = "hello" THEN Owner[s] ELSE channel.deviceOf[z]
      BY <1>0, <3>0, <3>1, <3>2, ReceivedMaps
    <3>4. channel'.deviceOf[s] # NoDevice
      <4>1. Owner[s] # NoDevice
        BY ChannelAssumption
      <4>2. channel.deviceOf[s] = NoDevice => m = "hello"
        BY <3>0, <3>1
      <4> QED
        BY <3>3, <4>1, <4>2
    <3>5. TypeOK'
      BY <1>0, <2>1, <3>0, <3>1, <3>3 DEF TypeOK
    <3>6. KnownSocketsAreAttached' /\ UnusedIsEmpty'
      <4>1. ASSUME NEW z \in Socket, channel'.deviceOf[z] # NoDevice
            PROVE  server'[z] = "attached"
        BY <1>0, <3>0, <3>3, <4>1
      <4> QED
        BY <2>1, <3>0, <4>1
    <3>7. up'[s] = Tail(up[s]) /\ \A z \in Socket : z # s =>
            /\ client'[z] = client[z] /\ server'[z] = server[z]
            /\ up'[z] = up[z] /\ pending'[z] = pending[z]
            /\ channel'.deviceOf[z] = channel.deviceOf[z]
      BY <1>0, <2>1, <3>0, <3>3
    <3>8. HelloComesFirst'
      BY <3>0, <3>4, <3>7, SocketIsMet
    <3>9. ProgressIsNotDropped'
      BY <2>1, <3>0, <3>1, <3>3, <3>7, ProgressIsKept
    <3> QED
      BY <2>2, <3>3, <3>5, <3>6, <3>8, <3>9 DEF MapsAgree
  <2> QED
    BY <1>4, <2>3, <2>4, <2>5, <2>6 DEF Deliver
<1>5. ASSUME NEW s \in Socket, Verified(s) PROVE ChannelInv'
  <2>1. /\ server[s] = "verifying" /\ server' = [server EXCEPT ![s] = "attached"]
        /\ channel' = Received(channel, s, "hello")
        /\ authenticating' = [authenticating EXCEPT ![s] = FALSE]
        /\ UNCHANGED <<client, up, pending, startup>>
    BY <1>5 DEF Verified
  <2>2. /\ channel' \in Channel /\ MapsAgree(channel')
        /\ channel.confirmed \subseteq channel'.confirmed
        /\ \A z \in Socket : channel'.deviceOf[z] =
             IF z = s THEN Owner[s] ELSE channel.deviceOf[z]
    <3>1. "hello" \in Message
      BY DEF Message
    <3> QED
      BY <1>0, <2>1, <3>1, ReceivedMaps
  <2>3. TypeOK'
    BY <1>0, <2>1, <2>2 DEF TypeOK
  <2>4. KnownSocketsAreAttached' /\ UnusedIsEmpty'
    <3>1. ASSUME NEW z \in Socket, channel'.deviceOf[z] # NoDevice
          PROVE  server'[z] = "attached"
      BY <1>0, <2>1, <2>2, <3>1, ZenonT(60)
    <3>2. UnusedIsEmpty'
      BY <1>0, <2>1
    <3> QED
      BY <3>1, <3>2
  <2>5. HelloComesFirst'
    <3>1. \A z \in Socket : z # s =>
            /\ client'[z] = client[z] /\ server'[z] = server[z]
            /\ up'[z] = up[z] /\ pending'[z] = pending[z]
            /\ channel'.deviceOf[z] = channel.deviceOf[z]
      BY <1>0, <2>1, <2>2
    <3>2. server'[s] = "attached" /\ channel'.deviceOf[s] # NoDevice
      <4>1. channel'.deviceOf[s] = Owner[s] /\ Owner[s] # NoDevice
        BY <2>2, ChannelAssumption
      <4> QED
        BY <1>0, <2>1, <4>1
    <3> QED
      BY <3>1, <3>2, SocketIsMet
  <2>6. ProgressIsNotDropped'
    <3>1. \A z \in Socket : z # s => server'[z] = server[z]
      BY <1>0, <2>1
    <3> QED
      BY <2>1, <2>2, <3>1, ProgressIsKept
  <2> QED
    BY <2>1, <2>2, <2>3, <2>4, <2>5, <2>6 DEF MapsAgree, SentIsUsed
<1>6. ASSUME NEW s \in Socket, Replay(s) PROVE ChannelInv'
  <2>1. /\ server[s] = "attached" /\ pending[s] # <<>>
        /\ channel' = Received(channel, s, Head(pending[s]))
        /\ pending' = [pending EXCEPT ![s] = Tail(pending[s])]
        /\ UNCHANGED <<client, server, up, authenticating, startup>>
    BY <1>6 DEF Replay
  <2>2. Head(pending[s]) \in Message /\ Tail(pending[s]) \in Seq(Message)
        /\ (HasProgress(pending[s]) /\ Head(pending[s]) # "progress"
              => HasProgress(Tail(pending[s])))
    BY <1>0, <2>1, QueueStep
  <2>3. channel.deviceOf[s] = Owner[s]
    BY <1>0, <2>1 DEF MapsAgree
  <2>4. /\ channel' \in Channel /\ MapsAgree(channel')
        /\ channel.confirmed \subseteq channel'.confirmed
        /\ Head(pending[s]) = "progress" => Owner[s] \in channel'.confirmed
        /\ \A z \in Socket : channel'.deviceOf[z] = channel.deviceOf[z]
    BY <1>0, <2>1, <2>2, <2>3, ReceivedMaps
  <2>5. TypeOK'
    BY <1>0, <2>1, <2>2, <2>4 DEF TypeOK
  <2>6. KnownSocketsAreAttached' /\ UnusedIsEmpty'
    <3>1. ASSUME NEW z \in Socket, channel'.deviceOf[z] # NoDevice
          PROVE  server'[z] = "attached"
      BY <1>0, <2>1, <2>4, <3>1
    <3>2. UnusedIsEmpty'
      BY <1>0, <2>1
    <3> QED
      BY <3>1, <3>2
  <2>7. HelloComesFirst'
    <3>1. \A z \in Socket : z # s =>
            /\ client'[z] = client[z] /\ server'[z] = server[z]
            /\ up'[z] = up[z] /\ pending'[z] = pending[z]
            /\ channel'.deviceOf[z] = channel.deviceOf[z]
      BY <1>0, <2>1, <2>4
    <3>2. server'[s] = "attached" /\ channel'.deviceOf[s] # NoDevice
      BY <1>0, <2>1, <2>3, <2>4, ChannelAssumption
    <3> QED
      BY <3>1, <3>2, SocketIsMet
  <2>8. ProgressIsNotDropped'
    <3>1. /\ pending'[s] = Tail(pending[s])
          /\ \A z \in Socket : z # s => pending'[z] = pending[z]
      BY <1>0, <2>1
    <3> QED
      BY <2>1, <2>2, <2>4, <3>1, ProgressIsKept
  <2> QED
    BY <2>1, <2>4, <2>5, <2>6, <2>7, <2>8 DEF MapsAgree, SentIsUsed
<1>7. ASSUME NEW s \in Socket, Rejected(s) PROVE ChannelInv'
  <2>1. server[s] = "verifying" /\ Refuse(s) /\ UNCHANGED <<client, startup>>
    BY <1>7 DEF Rejected
  <2> QED
    BY <2>1, RefusedSocket
<1>8. ASSUME NEW s \in Socket, ServerCloses(s) PROVE ChannelInv'
  <2>1. /\ server[s] # "none" /\ server' = [server EXCEPT ![s] = "closed"]
        /\ up' = [up EXCEPT ![s] = <<>>] /\ pending' = [pending EXCEPT ![s] = <<>>]
        /\ channel' = Detached(channel, s)
        /\ authenticating' = [authenticating EXCEPT ![s] = FALSE]
        /\ UNCHANGED <<client, startup>>
    BY <1>0, <1>8 DEF ServerCloses
  <2>2. /\ channel' \in Channel /\ MapsAgree(channel')
        /\ channel'.confirmed = channel.confirmed
        /\ \A z \in Socket : channel'.deviceOf[z] =
             IF z = s THEN NoDevice ELSE channel.deviceOf[z]
    BY <1>0, <2>1, DetachedMaps
  <2>3. TypeOK'
    BY <1>0, <2>1, <2>2, EmptySeq DEF TypeOK
  <2>4. KnownSocketsAreAttached'
    <3>1. ASSUME NEW z \in Socket, channel'.deviceOf[z] # NoDevice
          PROVE  server'[z] = "attached"
      BY <1>0, <2>1, <2>2, <3>1, ZenonT(60)
    <3> QED
      BY <3>1
  <2>5. UnusedIsEmpty'
    BY <1>0, <2>1
  <2>6. HelloComesFirst'
    <3>1. \A z \in Socket : z # s =>
            /\ client'[z] = client[z] /\ server'[z] = server[z]
            /\ up'[z] = up[z] /\ pending'[z] = pending[z]
            /\ channel'.deviceOf[z] = channel.deviceOf[z]
      BY <1>0, <2>1, <2>2
    <3>2. server'[s] = "closed"
      BY <1>0, <2>1
    <3> QED
      BY <3>1, <3>2, SocketIsMet
  <2>7. ProgressIsNotDropped'
    <3>1. server'[s] = "closed" /\ \A z \in Socket : z # s =>
            server'[z] = server[z] /\ up'[z] = up[z] /\ pending'[z] = pending[z]
      BY <1>0, <2>1
    <3> QED
      BY <2>1, <2>2, <3>1, ProgressIsKept
  <2> QED
    BY <2>1, <2>2, <2>3, <2>4, <2>5, <2>6, <2>7 DEF MapsAgree, SentIsUsed
<1>9. CASE Tick
  <2> DEFINE age == [d \in Device |-> IF channel.age[d] > StaleAfter THEN channel.age[d]
                                      ELSE channel.age[d] + 1]
  <2>1. channel' = [channel EXCEPT !.age = age]
        /\ UNCHANGED <<client, server, up, authenticating, pending, startup>>
    BY <1>9 DEF Tick
  <2>2. age \in [Device -> 0..(StaleAfter + 1)]
    BY <1>0, ChannelAssumption DEF Channel
  <2> HIDE DEF age
  <2>3. /\ channel' \in Channel /\ channel'.confirmed = channel.confirmed
        /\ channel'.deviceOf = channel.deviceOf /\ channel'.socketOf = channel.socketOf
    BY <1>0, <2>1, <2>2 DEF Channel
  <2>4. TypeOK'
    BY <1>0, <2>1, <2>3 DEF TypeOK
  <2>5. MapsAgree(channel')
    BY <2>3 DEF MapsAgree
  <2>6. ProgressIsNotDropped'
    BY <2>1, <2>3 DEF ProgressIsNotDropped, HasProgress
  <2> QED
    BY <2>1, <2>3, <2>4, <2>5, <2>6 DEF MapsAgree, SentIsUsed
<1>10. CASE UNCHANGED vars
  <2>1. TypeOK' /\ MapsAgree(channel)' /\ SentIsUsed' /\ ProgressIsNotDropped'
    BY <1>10 DEF vars, TypeOK, MapsAgree, SentIsUsed, ProgressIsNotDropped, HasProgress
  <2> QED
    BY <1>10, <2>1 DEF vars
<1> QED
  BY <1>1, <1>2, <1>3, <1>4, <1>5, <1>6, <1>7, <1>8, <1>9, <1>10 DEF Next

LEMMA ChannelInvHolds == Spec => []ChannelInv
  BY ChannelInit, ChannelStep, PTL DEF Spec

(* Sockets, queues and the maps of the channel are well typed.             *)
THEOREM ChannelTypeCorrect == Spec => []TypeOK
<1>1. ChannelInv => TypeOK
  BY DEF ChannelInv
<1> QED
  BY <1>1, ChannelInvHolds, PTL

(* The two maps of the channel agree and hold no closed socket.            *)
THEOREM RegistryIsConsistent == Spec => []RegistryAgrees
<1>1. ChannelInv => RegistryAgrees
  BY DEF ChannelInv, MapsAgree, KnownSocketsAreAttached, RegistryAgrees
<1> QED
  BY <1>1, ChannelInvHolds, PTL

(* The progress that a restarted collector sends behind its hello is lost  *)
(* only with the socket it was sent over, whether or not the hello has to  *)
(* wait for its token.                                                     *)
THEOREM ProgressIsLostOnlyWithItsSocket == Spec => []ProgressIsNotDropped
<1>1. ChannelInv => ProgressIsNotDropped
  BY DEF ChannelInv
<1> QED
  BY <1>1, ChannelInvHolds, PTL
==============================================================================
