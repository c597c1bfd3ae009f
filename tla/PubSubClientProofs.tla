------------------------- MODULE PubSubClientProofs -------------------------
(***************************************************************************)
(* Proofs about the session, for any keep-alive, timeout, gap, message ids *)
(* and queue bounds:                                                       *)
(*   - no transport is left open behind a session that was given up, and a *)
(*     connected client was accepted on the transport it uses;             *)
(*   - a ping under way and a QoS 1 message are at one place each;         *)
(*   - the session implements KeepAliveTimer;                              *)
(*   - the AWS bridge uses the session as PubSubClient lets any caller use *)
(*     it, so all this holds for the sketch, and the session it serves is  *)
(*     one it subscribed on.                                               *)
(***************************************************************************)
EXTENDS AwsBridge, PubSubClientTiming, SequenceTheorems, TLAPS

DownPacket == [type : DownTypes, id : Ids]
UpPacket == [type : UpTypes, id : Ids]

-----------------------------------------------------------------------------
(* Acceptance: transports, states and the broker's mind.                   *)

\* Acceptance is the broker's before it is on the wire.
AcceptanceIsSent ==
    link = "open" /\ (\E i \in DOMAIN inbox : inbox[i] = Plain("CONNACK"))
        => broker.accepted

SessionInv ==
    /\ TypeOK
    /\ NoOrphanTransport
    /\ ConnectedMeansAccepted
    /\ AcceptanceIsSent

\* Every packet that carries no id, and every one that carries a legal id, is one of
\* the types of its direction.
LEMMA PlainTypes ==
    /\ \A t \in DownTypes : Plain(t) \in DownPacket
    /\ \A t \in UpTypes : Plain(t) \in UpPacket
    /\ \A t \in DownTypes, i \in Ids : Packet(t, i) \in DownPacket
    /\ \A t \in UpTypes, i \in Ids : Packet(t, i) \in UpPacket
BY SessionAssumption DEF Plain, Packet, DownPacket, UpPacket, Ids

\* What write() leaves on the way to the broker is still packets.
LEMMA WrittenType ==
    ASSUME TypeOK, NEW s \in Seq(UpPacket)
    PROVE  Written(s) \in Seq(UpPacket)
BY DEF TypeOK, Written, UpPacket

\* The invariant holds of a client that has just been constructed.
LEMMA SessionInit == Init => SessionInv
<1> SUFFICES ASSUME Init PROVE SessionInv
  OBVIOUS
<1>1. /\ link = "closed" /\ state = "DISCONNECTED"
      /\ state \in States /\ pc \in {"idle", "connack", "callback"}
      /\ nextMsgId \in 1 .. IdModulus - 1
      /\ sinceIn \in Nat /\ sinceOut \in Nat /\ sinceLoop \in 0 .. LoopGap
      /\ inbox = <<>> /\ up = <<>>
  BY SessionAssumption DEF Init, States
<1>2. handling \in [type : {"NONE", "PUBLISH0", "PUBLISH1"}, id : Ids]
  BY SessionAssumption DEF Init, NoPacket, Plain, Packet, Ids
<1>3. broker \in [accepted : BOOLEAN, unacked : SUBSET MsgIds, hung : BOOLEAN]
  BY DEF Init, FreshBroker
<1>4. pingOutstanding \in BOOLEAN
  BY DEF Init
<1>5. TypeOK
  BY <1>1, <1>2, <1>3, <1>4 DEF TypeOK
<1> QED
  BY <1>1, <1>5
  DEF SessionInv, NoOrphanTransport, ConnectedMeansAccepted, AcceptanceIsSent,
      IsConnected

\* Every path on which the session ends stops the transport.
LEMMA StopStep ==
    ASSUME SessionInv, Stop,
           state' \in States, pingOutstanding' \in BOOLEAN,
           nextMsgId' \in 1 .. IdModulus - 1,
           sinceIn' = 0, sinceOut' = 0, sinceLoop' = 0,
           pc' \in {"idle", "connack", "callback"}, UNCHANGED handling
    PROVE  SessionInv'
<1>1. TypeOK'
  BY SessionAssumption DEF SessionInv, TypeOK, Stop, FreshBroker
<1>2. link' = "closed"
  BY DEF Stop
<1> QED
  BY <1>1, <1>2
  DEF SessionInv, NoOrphanTransport, ConnectedMeansAccepted, AcceptanceIsSent,
      IsConnected

\* Steps that write at most, and leave the session as it is.
LEMMA WriteStep ==
    ASSUME SessionInv,
           NEW s \in Seq(UpPacket), up' = Written(s),
           UNCHANGED <<state, link, inbox, broker>>,
           pingOutstanding' \in BOOLEAN,
           nextMsgId' \in 1 .. IdModulus - 1,
           sinceIn' \in Nat, sinceOut' \in Nat, sinceLoop' \in 0 .. LoopGap,
           pc' \in {"idle", "connack", "callback"},
           pc = "connack" => pc' = "connack",
           handling' \in [type : {"NONE", "PUBLISH0", "PUBLISH1"}, id : Ids]
    PROVE  SessionInv'
<1>1. up' \in Seq(UpPacket)
  BY WrittenType DEF SessionInv
<1>2. TypeOK'
  BY <1>1 DEF SessionInv, TypeOK, UpPacket
<1>3. NoOrphanTransport' /\ ConnectedMeansAccepted' /\ AcceptanceIsSent'
  BY DEF SessionInv, NoOrphanTransport, ConnectedMeansAccepted,
         AcceptanceIsSent, IsConnected
<1> QED  BY <1>2, <1>3 DEF SessionInv

\* connect(), up to its wait for the broker's answer, keeps the invariant.
LEMMA ConnectStep ==
    ASSUME SessionInv, Connect PROVE SessionInv'
<1> USE SessionAssumption DEF SessionInv
<1>1. NoticedState \in States
  BY DEF NoticedState, TypeOK, States
<1>2. CASE ConnectFails
  BY <1>2, StopStep DEF ConnectFails, TypeOK, States
<1>3. CASE ConnectTooLong
  BY <1>1, <1>3, StopStep DEF ConnectTooLong, TypeOK
<1>4. CASE ConnectStart
  <2>1. link # "open"
    BY <1>4 DEF ConnectStart, NoOrphanTransport, IsConnected
  <2>2. /\ link' = "open" /\ inbox' = <<>> /\ broker' = FreshBroker
        /\ up' = <<Plain("CONNECT")>> /\ pc' = "connack"
        /\ state' = NoticedState /\ NoticedState # "CONNECTED"
    BY <1>4, <2>1 DEF ConnectStart, NoticedState
  <2>3. up' \in Seq([type : UpTypes, id : Ids])
    BY <2>2, PlainTypes DEF UpPacket, UpTypes
  <2>4. broker' \in [accepted : BOOLEAN, unacked : SUBSET MsgIds, hung : BOOLEAN]
    BY <2>2 DEF FreshBroker
  <2>5. TypeOK'
    BY <1>1, <1>4, <2>2, <2>3, <2>4 DEF ConnectStart, TypeOK
  <2>6. AcceptanceIsSent'
    BY <2>2 DEF AcceptanceIsSent
  <2> QED
    BY <2>2, <2>5, <2>6
    DEF NoOrphanTransport, ConnectedMeansAccepted, IsConnected
<1> QED  BY <1>2, <1>3, <1>4 DEF Connect

\* So does each way in which that wait ends.
LEMMA ConnackStep ==
    ASSUME SessionInv, Connack PROVE SessionInv'
<1> USE SessionAssumption DEF SessionInv
<1>1. CASE ConnackTimeout
  BY <1>1, StopStep DEF ConnackTimeout, TypeOK, States
<1>2. CASE ConnackAccepted
  <2>1. /\ inbox # <<>> /\ Head(inbox) = Plain("CONNACK")
        /\ inbox' = Tail(inbox)
        /\ inbox \in Seq(DownPacket)
        /\ state' = "CONNECTED" /\ pc' = "idle"
        /\ UNCHANGED <<link, broker, up, nextMsgId, handling, sinceOut>>
    BY <1>2 DEF ConnackAccepted, TypeOK, DownPacket
  <2>2. /\ pingOutstanding' = FALSE
        /\ sinceIn' \in Nat /\ sinceLoop' \in 0 .. LoopGap
    BY <1>2 DEF ConnackAccepted
  <2>3. 1 \in DOMAIN inbox /\ inbox[1] = Plain("CONNACK")
    BY <2>1
  <2>4. link = "open" => broker.accepted
    BY <2>3 DEF AcceptanceIsSent
  <2>5. inbox' \in Seq(DownPacket)
    BY <2>1
  <2>6. TypeOK'
    BY <2>1, <2>2, <2>5 DEF TypeOK, States, DownPacket
  <2> QED
    BY <2>1, <2>4, <2>6
    DEF NoOrphanTransport, ConnectedMeansAccepted, AcceptanceIsSent, IsConnected
<1>3. CASE ConnackRefused
  <2>1. state' \in States
    BY <1>3 DEF ConnackRefused, TypeOK, States
  <2> QED  BY <1>3, <2>1, StopStep DEF ConnackRefused, TypeOK
<1> QED  BY <1>1, <1>2, <1>3 DEF Connack

\* So does loop(), up to the callback it may call.
LEMMA LoopStep ==
    ASSUME SessionInv, Loop PROVE SessionInv'
<1> USE SessionAssumption DEF SessionInv
<1>1. CASE LoopTimesOut
  BY <1>1, StopStep DEF LoopTimesOut, TypeOK, States
<1>2. CASE LoopKilled
  <2>1. pingOutstanding' \in BOOLEAN
    BY <1>2 DEF LoopKilled
  <2> QED  BY <1>2, <2>1, StopStep DEF LoopKilled, TypeOK, States
<1>3. CASE LoopReads
  <2> DEFINE packet == IF inbox = <<>> THEN NoPacket ELSE Head(inbox)
  <2>1. /\ IsConnected /\ pc = "idle"
        /\ inbox' = IF inbox = <<>> THEN <<>> ELSE Tail(inbox)
        /\ up' = Written(Pings \o Replies(packet))
        /\ UNCHANGED <<state, nextMsgId, link, broker>>
    BY <1>3 DEF LoopReads
  <2>2. inbox \in Seq(DownPacket)
    BY DEF TypeOK, DownPacket
  <2>3. /\ inbox' \in Seq(DownPacket)
        /\ \A i \in DOMAIN inbox' : \E j \in DOMAIN inbox : inbox'[i] = inbox[j]
    <3>1. CASE inbox = <<>>
      BY <2>1, <3>1
    <3>2. CASE inbox # <<>>
      BY <2>1, <2>2, <3>2
    <3> QED  BY <3>1, <3>2
  <2>4. up' \in Seq(UpPacket)
    <3>1. Pings \in Seq(UpPacket) /\ Replies(packet) \in Seq(UpPacket)
      BY PlainTypes DEF Pings, Replies, UpTypes
    <3>2. Pings \o Replies(packet) \in Seq(UpPacket)
      BY <3>1
    <3> HIDE DEF packet
    <3> QED  BY <2>1, <3>2, WrittenType
  <2>5. /\ pc' \in {"idle", "callback"}
        /\ handling' \in [type : {"NONE", "PUBLISH0", "PUBLISH1"}, id : Ids]
    <3>1. CASE inbox # <<>> /\ IsPublish(packet)
      <4>1. packet \in DownPacket
        BY <2>2, <3>1
      <4>2. pc' = "callback" /\ handling' = packet
        BY <1>3, <3>1 DEF LoopReads
      <4> QED  BY <4>1, <4>2, <3>1 DEF IsPublish, DownPacket
    <3>2. CASE ~(inbox # <<>> /\ IsPublish(packet))
      <4>1. ~IsPublish(packet)
        BY <3>2 DEF IsPublish, NoPacket, Plain, Packet
      <4>2. pc' = pc /\ handling' = handling
        BY <1>3, <4>1 DEF LoopReads
      <4> QED  BY <4>2, <2>1 DEF TypeOK
    <3> QED  BY <3>1, <3>2
  <2>6. /\ sinceIn' \in Nat /\ sinceOut' \in Nat /\ sinceLoop' \in 0 .. LoopGap
    BY <1>3 DEF LoopReads, TypeOK
  <2>7. pingOutstanding' \in BOOLEAN
    BY <1>3 DEF LoopReads
  <2>8. TypeOK'
    BY <2>1, <2>3, <2>4, <2>5, <2>6, <2>7 DEF TypeOK, DownPacket, UpPacket
  <2>9. AcceptanceIsSent'
    BY <2>1, <2>3 DEF AcceptanceIsSent
  <2> QED
    BY <2>1, <2>8, <2>9
    DEF NoOrphanTransport, ConnectedMeansAccepted, IsConnected
<1> QED  BY <1>1, <1>2, <1>3 DEF Loop

\* So do the callback's return and the other calls of the interface.
LEMMA CallStep ==
    ASSUME SessionInv,
           \/ CallbackReturns \/ Publish \/ Disconnect \/ Notice
           \/ Request("SUBSCRIBE") \/ Request("UNSUBSCRIBE")
    PROVE  SessionInv'
<1> USE SessionAssumption DEF SessionInv
<1>1. CASE CallbackReturns
  <2>1. CASE handling.type = "PUBLISH1"
    <3>1. <<Packet("PUBACK", handling.id)>> \in Seq(UpPacket)
      BY PlainTypes DEF UpTypes, TypeOK
    <3>2. handling' \in [type : {"NONE", "PUBLISH0", "PUBLISH1"}, id : Ids]
      BY <1>1 DEF CallbackReturns, NoPacket, Plain, Packet, Ids
    <3>3. /\ up' = Written(<<Packet("PUBACK", handling.id)>>)
          /\ pc = "callback" /\ pc' = "idle"
          /\ UNCHANGED <<state, pingOutstanding, nextMsgId, sinceIn, sinceLoop,
                         link, inbox, broker>>
      BY <1>1, <2>1 DEF CallbackReturns
    <3>4. sinceOut' \in Nat
      BY <1>1, <2>1 DEF CallbackReturns, TypeOK
    <3> QED  BY <3>1, <3>2, <3>3, <3>4, WriteStep DEF TypeOK
  <2>2. CASE handling.type # "PUBLISH1"
    <3>1. handling' \in [type : {"NONE", "PUBLISH0", "PUBLISH1"}, id : Ids]
      BY <1>1 DEF CallbackReturns, NoPacket, Plain, Packet, Ids
    <3>2. TypeOK'
      BY <1>1, <2>2, <3>1 DEF CallbackReturns, TypeOK
    <3> QED
      BY <1>1, <2>2, <3>2
      DEF CallbackReturns, NoOrphanTransport, ConnectedMeansAccepted,
          AcceptanceIsSent, IsConnected
  <2> QED  BY <2>1, <2>2
<1>2. CASE Publish
  <2>1. <<Plain("PUBLISH")>> \in Seq(UpPacket)
    BY PlainTypes DEF UpTypes
  <2> QED
    BY <1>2, <2>1, WriteStep DEF Publish, TypeOK, client
<1>3. CASE Disconnect
  BY <1>3, StopStep DEF Disconnect, TypeOK, States
<1>4. CASE Notice
  <2>1. ~IsConnected /\ state' = NoticedState /\ NoticedState \in States
    BY <1>4 DEF Notice, NoticeLoss, NoticedState, TypeOK, States
  <2>2. CASE NoticedState # state
    BY <1>4, <2>1, <2>2, StopStep DEF Notice, NoticeLoss, TypeOK
  <2>3. CASE NoticedState = state
    BY <1>4, <2>1, <2>3
    DEF Notice, NoticeLoss, wire, clock, TypeOK, NoOrphanTransport,
        ConnectedMeansAccepted, AcceptanceIsSent, IsConnected
  <2> QED  BY <2>2, <2>3
<1>5. ASSUME NEW type \in {"SUBSCRIBE", "UNSUBSCRIBE"}, Request(type)
      PROVE  SessionInv'
  <2>1. FollowingMsgId \in 1 .. IdModulus - 1
    BY DEF FollowingMsgId, TypeOK
  <2>2. <<Packet(type, FollowingMsgId)>> \in Seq(UpPacket)
    BY <2>1, PlainTypes DEF UpTypes, Ids
  <2> QED
    BY <1>5, <2>1, <2>2, WriteStep DEF Request, TypeOK
<1> QED  BY <1>1, <1>2, <1>3, <1>4, <1>5

\* A packet reaches the inbox, an acceptance after the broker's mind.
LEMMA ReceiveStep ==
    ASSUME SessionInv,
           NEW p \in DownPacket, inbox' \in {inbox, Append(inbox, p)},
           p = Plain("CONNACK") => broker'.accepted,
           broker.accepted => broker'.accepted,
           broker' \in [accepted : BOOLEAN, unacked : SUBSET MsgIds, hung : BOOLEAN],
           up' \in Seq(UpPacket), UNCHANGED <<client, clock, link>>
    PROVE  SessionInv'
<1>0. inbox \in Seq(DownPacket)
  BY DEF SessionInv, TypeOK, DownPacket
<1>1. inbox \in Seq(DownPacket) /\ inbox' \in Seq(DownPacket)
  <2>1. Append(inbox, p) \in Seq(DownPacket)
    BY <1>0
  <2> QED  BY <1>0, <2>1
<1>2. TypeOK'
  BY <1>1 DEF SessionInv, TypeOK, client, clock, DownPacket, UpPacket
<1>3. ASSUME NEW i \in DOMAIN inbox', inbox'[i] = Plain("CONNACK")
      PROVE  p = Plain("CONNACK") \/ \E j \in DOMAIN inbox : inbox[j] = Plain("CONNACK")
  <2>1. CASE inbox' = inbox
    BY <1>3, <2>1
  <2>2. CASE inbox' = Append(inbox, p)
    BY <1>1, <1>3, <2>2
  <2> QED  BY <2>1, <2>2
<1>4. AcceptanceIsSent'
  BY <1>3 DEF SessionInv, AcceptanceIsSent
<1> QED
  BY <1>2, <1>4
  DEF SessionInv, client, NoOrphanTransport, ConnectedMeansAccepted, IsConnected

\* So do the broker, the network and time.
LEMMA WorldStep ==
    ASSUME SessionInv, BrokerReads \/ BrokerSends \/ Hang \/ Break \/ Tick
    PROVE  SessionInv'
<1> USE SessionAssumption DEF SessionInv
<1>1. CASE BrokerReads
  <2> DEFINE packet == Head(up)
  <2>1. /\ packet \in UpPacket /\ up' \in Seq(UpPacket)
        /\ UNCHANGED <<client, clock, link>>
    <3>1. up # <<>> /\ up' = Tail(up) /\ UNCHANGED <<client, clock, link>>
      BY <1>1 DEF BrokerReads
    <3>2. up \in Seq(UpPacket)
      BY DEF TypeOK, UpPacket
    <3> QED  BY <3>1, <3>2
  <2>2. broker \in [accepted : BOOLEAN, unacked : SUBSET MsgIds, hung : BOOLEAN]
    BY DEF TypeOK
  <2>3. ASSUME NEW p \in DownPacket, p # Plain("CONNACK"),
               inbox' \in {inbox, Append(inbox, p)}, UNCHANGED broker
        PROVE  SessionInv'
    BY <2>1, <2>2, <2>3, ReceiveStep
  <2>4. /\ Packet("CONNACK", 5) \in DownPacket /\ Plain("MALFORMED") \in DownPacket
        /\ Plain("PINGRESP") \in DownPacket /\ Plain("CONNACK") \in DownPacket
        /\ Packet("SUBACK", packet.id) \in DownPacket
        /\ Packet("UNSUBACK", packet.id) \in DownPacket
        /\ Packet("CONNACK", 5) # Plain("CONNACK")
        /\ Plain("MALFORMED") # Plain("CONNACK")
        /\ Plain("PINGRESP") # Plain("CONNACK")
        /\ Packet("SUBACK", packet.id) # Plain("CONNACK")
        /\ Packet("UNSUBACK", packet.id) # Plain("CONNACK")
    <3>1. packet.id \in Ids /\ 5 \in Ids
      BY <2>1 DEF UpPacket, Ids
    <3> QED  BY <3>1, PlainTypes DEF DownTypes, Plain, Packet
  <2>5. CASE packet.type = "CONNECT"
    <3>1. \/ /\ inbox' = Append(inbox, Plain("CONNACK"))
             /\ broker' = [broker EXCEPT !.accepted = TRUE]
          \/ /\ \/ inbox' = Append(inbox, Packet("CONNACK", 5))
                \/ inbox' = Append(inbox, Plain("MALFORMED"))
             /\ UNCHANGED broker
      BY <1>1, <2>5 DEF BrokerReads
    <3>2. CASE /\ inbox' = Append(inbox, Plain("CONNACK"))
               /\ broker' = [broker EXCEPT !.accepted = TRUE]
      <4>1. broker'.accepted
        BY <2>2, <3>2
      <4>2. broker' \in [accepted : BOOLEAN, unacked : SUBSET MsgIds, hung : BOOLEAN]
        BY <2>2, <3>2
      <4> QED  BY <2>1, <2>4, <3>2, <4>1, <4>2, ReceiveStep
    <3> QED  BY <2>3, <2>4, <3>1, <3>2
  <2>6. CASE packet.type = "PINGREQ"
    BY <1>1, <2>3, <2>4, <2>6 DEF BrokerReads
  <2>7. CASE packet.type = "SUBSCRIBE"
    BY <1>1, <2>3, <2>4, <2>7 DEF BrokerReads
  <2>8. CASE packet.type = "UNSUBSCRIBE"
    BY <1>1, <2>3, <2>4, <2>8 DEF BrokerReads
  <2>9. CASE packet.type = "PUBACK"
    <3>1. /\ inbox' = inbox
          /\ broker' = [broker EXCEPT !.unacked = @ \ {packet.id}]
      BY <1>1, <2>9 DEF BrokerReads
    <3>2. /\ broker' \in [accepted : BOOLEAN, unacked : SUBSET MsgIds, hung : BOOLEAN]
          /\ broker'.accepted = broker.accepted
      BY <2>2, <3>1
    <3> QED  BY <2>1, <2>4, <3>1, <3>2, ReceiveStep
  <2>10. CASE packet.type \notin {"CONNECT", "PINGREQ", "SUBSCRIBE",
                                 "UNSUBSCRIBE", "PUBACK"}
    BY <1>1, <2>3, <2>4, <2>10 DEF BrokerReads
  <2> QED  BY <2>5, <2>6, <2>7, <2>8, <2>9, <2>10
<1>2. CASE BrokerSends
  <2>1. /\ up' \in Seq(UpPacket) /\ UNCHANGED <<client, clock, link>>
        /\ broker \in [accepted : BOOLEAN, unacked : SUBSET MsgIds, hung : BOOLEAN]
    BY <1>2 DEF BrokerSends, TypeOK, UpPacket
  <2>2. CASE \E type \in {"PUBLISH0", "OVERSIZE", "PINGREQ", "MALFORMED"} :
               inbox' = Append(inbox, Plain(type)) /\ UNCHANGED broker
    <3>1. PICK type \in {"PUBLISH0", "OVERSIZE", "PINGREQ", "MALFORMED"} :
            inbox' = Append(inbox, Plain(type)) /\ UNCHANGED broker
      BY <2>2
    <3>2. Plain(type) \in DownPacket /\ Plain(type) # Plain("CONNACK")
      BY PlainTypes DEF DownTypes, Plain, Packet
    <3> QED  BY <2>1, <3>1, <3>2, ReceiveStep
  <2>3. CASE \E id \in MsgIds \ broker.unacked :
               /\ inbox' = Append(inbox, Packet("PUBLISH1", id))
               /\ broker' = [broker EXCEPT !.unacked = @ \cup {id}]
    <3>1. PICK id \in MsgIds :
            /\ inbox' = Append(inbox, Packet("PUBLISH1", id))
            /\ broker' = [broker EXCEPT !.unacked = @ \cup {id}]
      BY <2>3
    <3>2. /\ Packet("PUBLISH1", id) \in DownPacket
          /\ Packet("PUBLISH1", id) # Plain("CONNACK")
      BY PlainTypes DEF DownTypes, Ids, Plain, Packet
    <3>3. /\ broker' \in [accepted : BOOLEAN, unacked : SUBSET MsgIds, hung : BOOLEAN]
          /\ broker'.accepted = broker.accepted
      BY <2>1, <3>1
    <3> QED  BY <2>1, <3>1, <3>2, <3>3, ReceiveStep
  <2> QED  BY <1>2, <2>2, <2>3 DEF BrokerSends
<1>3. CASE Hang
  <2>1. broker' \in [accepted : BOOLEAN, unacked : SUBSET MsgIds, hung : BOOLEAN]
    BY <1>3 DEF Hang, TypeOK
  <2>2. broker'.accepted = broker.accepted
    BY <1>3 DEF Hang, TypeOK
  <2>3. UNCHANGED <<client, clock, link, inbox>> /\ up' = <<>>
    BY <1>3 DEF Hang
  <2>4. TypeOK'
    BY <2>1, <2>3 DEF TypeOK, client, clock
  <2> QED
    BY <2>2, <2>3, <2>4
    DEF client, NoOrphanTransport, ConnectedMeansAccepted,
        AcceptanceIsSent, IsConnected
<1>4. CASE Break
  BY <1>4
  DEF Break, TypeOK, client, clock, NoOrphanTransport, ConnectedMeansAccepted,
      AcceptanceIsSent, IsConnected
<1>5. CASE Tick
  BY <1>5
  DEF Tick, TypeOK, client, wire, NoOrphanTransport, ConnectedMeansAccepted,
      AcceptanceIsSent, IsConnected
<1> QED  BY <1>1, <1>2, <1>3, <1>4, <1>5

\* Every step keeps the invariant.
LEMMA SessionStep == SessionInv /\ [Next]_vars => SessionInv'
<1> SUFFICES ASSUME SessionInv, [Next]_vars PROVE SessionInv'
  OBVIOUS
<1>1. CASE UNCHANGED vars
  BY <1>1
  DEF vars, client, clock, wire, SessionInv, TypeOK, NoOrphanTransport,
      ConnectedMeansAccepted, AcceptanceIsSent, IsConnected
<1> QED
  BY <1>1, ConnectStep, ConnackStep, LoopStep, CallStep, WorldStep DEF Next

\* A session is typed, has no transport it does not know of, and is accepted on
\* the transport it uses, after any calls, losses and delays.
THEOREM SessionInvariant == Spec => []SessionInv
BY SessionInit, SessionStep, PTL DEF Spec

\* The session's variables keep their types.
THEOREM TypeCorrect == Spec => []TypeOK
<1>1. SessionInv => TypeOK
  BY DEF SessionInv
<1> QED  BY <1>1, SessionInvariant, PTL

\* No sequence of calls, answers, losses and delays leaves a transport open
\* that connect() would take for a fresh one.
THEOREM NoTransportIsOrphaned == Spec => []NoOrphanTransport
<1>1. SessionInv => NoOrphanTransport
  BY DEF SessionInv
<1> QED  BY <1>1, SessionInvariant, PTL

\* A client that takes itself for connected was accepted by the broker on the
\* transport it is about to use, not on an earlier one.
THEOREM ConnectedIsAccepted == Spec => []ConnectedMeansAccepted
<1>1. SessionInv => ConnectedMeansAccepted
  BY DEF SessionInv
<1> QED  BY <1>1, SessionInvariant, PTL

-----------------------------------------------------------------------------
(* Packets in a sequence of them.                                          *)

\* Two packets written together are two packets written one after the other.
LEMMA AppendTwo ==
    ASSUME NEW S, NEW s \in Seq(S), NEW a \in S, NEW b \in S
    PROVE  s \o (<<a>> \o <<b>>) = Append(Append(s, a), b)
<1>1. <<a>> \in Seq(S) /\ <<b>> \in Seq(S) /\ Append(s, a) \in Seq(S)
  OBVIOUS
<1>2. s \o (<<a>> \o <<b>>) = (s \o <<a>>) \o <<b>>
  BY <1>1, ConcatAssociative
<1> QED  BY <1>1, <1>2, AppendIsConcat

\* Count tells none, one and more apart.
LEMMA CountRange == ASSUME NEW s, NEW p PROVE Count(s, p) \in {0, 1, 2}
BY DEF Count

\* A packet more: one more of its kind, and of the others what there was.
LEMMA CountAppend ==
    ASSUME NEW S, NEW s \in Seq(S), NEW e \in S, NEW p
    PROVE  Count(Append(s, e), p) = IF e # p THEN Count(s, p)
                                    ELSE IF Count(s, p) = 0 THEN 1 ELSE 2
<1> DEFINE t == Append(s, e)
<1>1. /\ DOMAIN s = 1 .. Len(s) /\ DOMAIN t = 1 .. Len(s) + 1 /\ Len(s) \in Nat
      /\ \A i \in 1 .. Len(s) : t[i] = s[i]
      /\ t[Len(s) + 1] = e
  OBVIOUS
<1> HIDE DEF t
<1>2. CASE e # p
  BY <1>1, <1>2 DEF Count
<1>3. CASE e = p
  BY <1>1, <1>3 DEF Count
<1> QED  BY <1>2, <1>3 DEF t

\* The first packet taken away: one less of its kind, and of the others what there was.
LEMMA CountTail ==
    ASSUME NEW S, NEW s \in Seq(S), s # <<>>, NEW p
    PROVE  /\ Head(s) # p => Count(Tail(s), p) = Count(s, p)
           /\ Head(s) = p => Count(s, p) = IF Count(Tail(s), p) = 0 THEN 1 ELSE 2
<1> DEFINE t == Tail(s)
           n == Len(s)
<1>1. /\ DOMAIN s = 1 .. n /\ DOMAIN t = 1 .. n - 1 /\ n \in Nat /\ n > 0
      /\ \A i \in 1 .. n - 1 : t[i] = s[i + 1]
      /\ Head(s) = s[1]
  OBVIOUS
<1> HIDE DEF t, n
<1>2. \A i \in 2 .. n : i - 1 \in 1 .. n - 1 /\ t[i - 1] = s[i]
  BY <1>1
<1>3. (\E i \in DOMAIN t : t[i] = p) <=> (\E i \in 2 .. n : s[i] = p)
  <2>1. ASSUME NEW i \in DOMAIN t, t[i] = p PROVE i + 1 \in 2 .. n /\ s[i + 1] = p
    BY <1>1, <2>1
  <2>2. ASSUME NEW i \in 2 .. n, s[i] = p PROVE i - 1 \in DOMAIN t /\ t[i - 1] = p
    BY <1>1, <1>2, <2>2
  <2> QED  BY <2>1, <2>2
<1>4. (\E i, j \in DOMAIN t : i # j /\ t[i] = p /\ t[j] = p)
        <=> (\E i, j \in 2 .. n : i # j /\ s[i] = p /\ s[j] = p)
  <2>1. ASSUME NEW i \in DOMAIN t, NEW j \in DOMAIN t, i # j, t[i] = p, t[j] = p
        PROVE  /\ i + 1 \in 2 .. n /\ s[i + 1] = p
               /\ j + 1 \in 2 .. n /\ s[j + 1] = p /\ i + 1 # j + 1
    BY <1>1, <2>1
  <2>2. ASSUME NEW i \in 2 .. n, NEW j \in 2 .. n, i # j, s[i] = p, s[j] = p
        PROVE  /\ i - 1 \in DOMAIN t /\ t[i - 1] = p
               /\ j - 1 \in DOMAIN t /\ t[j - 1] = p /\ i - 1 # j - 1
    BY <1>1, <1>2, <2>2
  <2> QED  BY <2>1, <2>2
<1>5. /\ \A i \in DOMAIN s : i = 1 \/ i \in 2 .. n
      /\ \A i \in 2 .. n : i \in DOMAIN s /\ i # 1
      /\ 1 \in DOMAIN s
  BY <1>1
<1>6. CASE s[1] # p
  <2>1. (\E i \in DOMAIN s : s[i] = p) <=> (\E i \in 2 .. n : s[i] = p)
    BY <1>5, <1>6
  <2>2. (\E i, j \in DOMAIN s : i # j /\ s[i] = p /\ s[j] = p)
          <=> (\E i, j \in 2 .. n : i # j /\ s[i] = p /\ s[j] = p)
    BY <1>5, <1>6
  <2> QED  BY <1>1, <1>3, <1>4, <1>6, <2>1, <2>2 DEF Count, t
<1>7. CASE s[1] = p
  <2>1. (\E i, j \in DOMAIN s : i # j /\ s[i] = p /\ s[j] = p)
          <=> (\E i \in 2 .. n : s[i] = p)
    BY <1>5, <1>7
  <2>2. Count(t, p) = 0 <=> ~(\E i \in 2 .. n : s[i] = p)
    BY <1>3, <1>4 DEF Count
  <2> QED  BY <1>1, <1>5, <1>7, <2>1, <2>2 DEF Count, t
<1> QED  BY <1>6, <1>7

\* Of a packet that is there once, CHOOSE finds the place.
LEMMA Chosen ==
    ASSUME NEW s, NEW p, Count(s, p) # 2, NEW k \in DOMAIN s, s[k] = p
    PROVE  (CHOOSE i \in DOMAIN s : s[i] = p) = k
BY DEF Count

-----------------------------------------------------------------------------
(* Books: the pings and QoS 1 messages under way.                          *)

\* The broker reads and answers.
Answering == link = "open" /\ ~broker.hung

PingsUnderWay == Count(up, Plain("PINGREQ")) + Count(inbox, Plain("PINGRESP"))

PlacesOf(id) ==
    Count(inbox, Packet("PUBLISH1", id)) + Count(up, Packet("PUBACK", id))
    + (IF handling = Packet("PUBLISH1", id) THEN 1 ELSE 0)

\* Pings have no id.
PingsArePlain ==
    /\ \A i \in DOMAIN inbox : inbox[i].type = "PINGRESP" => inbox[i] = Plain("PINGRESP")
    /\ \A i \in DOMAIN up : up[i].type = "PINGREQ" => up[i] = Plain("PINGREQ")

\* Where the calls that wait leave the session.
WaitsInv ==
    /\ pc = "connack" => state # "CONNECTED"
    /\ pc # "callback" => handling = NoPacket

\* The books, during connect() too, when there is no ping yet.
PingBooks ==
    Answering => PingsUnderWay = IF pingOutstanding /\ pc # "connack" THEN 1 ELSE 0
QoS1Books ==
    Answering => \A id \in MsgIds : PlacesOf(id) = IF id \in broker.unacked THEN 1 ELSE 0

BooksInv == PingsArePlain /\ WaitsInv /\ PingBooks /\ QoS1Books

\* The books balance before any connection, with nothing in them.
LEMMA BooksInit == Init => BooksInv
<1> SUFFICES ASSUME Init PROVE BooksInv OBVIOUS
<1>1. inbox = <<>> /\ up = <<>> /\ link = "closed" /\ pc = "idle" /\ handling = NoPacket
  BY DEF Init
<1> QED  BY <1>1 DEF BooksInv, PingsArePlain, WaitsInv, PingBooks, QoS1Books, Answering

\* Once the transport is closed there is nothing to account for.
LEMMA BooksClosed ==
    ASSUME BooksInv, Stop, UNCHANGED handling,
           pc' = "connack" => state' # "CONNECTED",
           pc' # "callback" => pc # "callback"
    PROVE  BooksInv'
BY DEF BooksInv, Stop, PingsArePlain, WaitsInv, PingBooks, QoS1Books, Answering

\* A packet written: the counts it changes.
LEMMA WrittenCount ==
    ASSUME TypeOK, Answering, NEW e \in UpPacket
    PROVE  /\ Written(<<e>>) = Append(up, e)
           /\ \A p : Count(Append(up, e), p) = IF e # p THEN Count(up, p)
                                                ELSE IF Count(up, p) = 0 THEN 1 ELSE 2
           /\ \A i \in DOMAIN Append(up, e) : Append(up, e)[i] = e \/ \E j \in DOMAIN up : Append(up, e)[i] = up[j]
<1>1. up \in Seq(UpPacket)
  BY DEF TypeOK, UpPacket
<1>2. Written(<<e>>) = Append(up, e)
  BY <1>1 DEF Written, Answering
<1>3. \A i \in DOMAIN Append(up, e) : Append(up, e)[i] = e \/ \E j \in DOMAIN up : Append(up, e)[i] = up[j]
  BY <1>1
<1> QED  BY <1>1, <1>2, <1>3, CountAppend

\* Calls that write one packet that is no ping and no acknowledgement.
LEMMA BooksWrite ==
    ASSUME TypeOK, BooksInv, NEW e \in UpPacket, e.type \notin {"PINGREQ", "PUBACK"},
           up' = Written(<<e>>), UNCHANGED <<link, inbox, broker, pingOutstanding, state, pc, handling>>
    PROVE  BooksInv'
<1>1. WaitsInv' BY DEF BooksInv, WaitsInv
<1>2. CASE ~Answering
  <2>1. up' = up /\ ~Answering' BY <1>2 DEF Written, Answering
  <2> QED  BY <1>1, <2>1 DEF BooksInv, PingsArePlain, PingBooks, QoS1Books
<1>3. CASE Answering
  <2>1. up' = Append(up, e) BY <1>3, WrittenCount
  <2>2. e # Plain("PINGREQ") /\ \A id : e # Packet("PUBACK", id)
    BY DEF Plain, Packet
  <2>0. \A p : p # e => Count(up', p) = Count(up, p)
    BY <1>3, <2>1, WrittenCount, Zenon
  <2>3. Count(up', Plain("PINGREQ")) = Count(up, Plain("PINGREQ"))
    BY <2>0, <2>2, Zenon
  <2>4. \A id : Count(up', Packet("PUBACK", id)) = Count(up, Packet("PUBACK", id))
    BY <2>0, <2>2, Zenon
  <2>5. PingsArePlain'
    BY <1>3, <2>1, WrittenCount DEF BooksInv, PingsArePlain
  <2>6. PingBooks'
    BY <1>3, <2>3 DEF BooksInv, PingBooks, PingsUnderWay, Answering
  <2>7. QoS1Books'
    BY <1>3, <2>4 DEF BooksInv, QoS1Books, PlacesOf, Answering
  <2> QED  BY <1>1, <2>5, <2>6, <2>7 DEF BooksInv
<1> QED  BY <1>2, <1>3

\* A packet read: the counts it changes.
LEMMA ReadCount ==
    ASSUME TypeOK, inbox # <<>>
    PROVE  /\ Head(inbox) \in DownPacket /\ Head(inbox) = inbox[1] /\ 1 \in DOMAIN inbox
           /\ \A p : p # Head(inbox) => Count(Tail(inbox), p) = Count(inbox, p)
           /\ \A p : p = Head(inbox)
                => Count(inbox, p) = IF Count(Tail(inbox), p) = 0 THEN 1 ELSE 2
           /\ \A i \in DOMAIN Tail(inbox) : \E j \in DOMAIN inbox : Tail(inbox)[i] = inbox[j]
<1>1. inbox \in Seq(DownPacket)
  BY DEF TypeOK, DownPacket
<1>2. /\ Head(inbox) \in DownPacket /\ Head(inbox) = inbox[1] /\ 1 \in DOMAIN inbox
      /\ \A i \in DOMAIN Tail(inbox) : \E j \in DOMAIN inbox : Tail(inbox)[i] = inbox[j]
  BY <1>1
<1> QED  BY <1>1, <1>2, CountTail

\* connect() starts a transport on which nothing is under way but the CONNECT.
LEMMA BooksConnect ==
    ASSUME SessionInv, BooksInv, Connect PROVE BooksInv'
<1>1. CASE ConnectFails
  BY <1>1, BooksClosed DEF ConnectFails
<1>2. CASE ConnectTooLong
  BY <1>2, BooksClosed DEF ConnectTooLong
<1>3. CASE ConnectStart
  <2>1. link # "open"
    BY <1>3 DEF ConnectStart, SessionInv, NoOrphanTransport, IsConnected
  <2>2. /\ link' = "open" /\ inbox' = <<>> /\ broker' = FreshBroker
        /\ up' = <<Plain("CONNECT")>> /\ pc = "idle" /\ pc' = "connack"
        /\ state' # "CONNECTED" /\ handling' = handling
    BY <1>3, <2>1 DEF ConnectStart, NoticedState
  <2>3. PingsArePlain' /\ WaitsInv'
    BY <2>2 DEF BooksInv, PingsArePlain, WaitsInv, Plain, Packet
  <2>4. /\ Count(up', Plain("PINGREQ")) = 0 /\ Count(inbox', Plain("PINGRESP")) = 0
        /\ \A id : Count(up', Packet("PUBACK", id)) = 0 /\ Count(inbox', Packet("PUBLISH1", id)) = 0
    BY <2>2 DEF Count, Plain, Packet
  <2>5. \A id : handling' # Packet("PUBLISH1", id)
    BY <2>2 DEF BooksInv, WaitsInv, NoPacket, Plain, Packet
  <2>6. broker'.unacked = {}
    BY <2>2 DEF FreshBroker
  <2> QED
    BY <2>2, <2>3, <2>4, <2>5, <2>6
    DEF BooksInv, PingBooks, QoS1Books, PingsUnderWay, PlacesOf
<1> QED  BY <1>1, <1>2, <1>3 DEF Connect

\* The packet connect() waits for is neither a ping's answer nor a message.
LEMMA BooksConnack ==
    ASSUME SessionInv, BooksInv, Connack PROVE BooksInv'
<1>1. CASE ConnackTimeout
  BY <1>1, BooksClosed DEF ConnackTimeout, BooksInv, WaitsInv
<1>2. CASE ConnackRefused
  BY <1>2, BooksClosed DEF ConnackRefused
<1>3. CASE ConnackAccepted
  <2>1. /\ pc = "connack" /\ inbox # <<>> /\ Head(inbox) = Plain("CONNACK")
        /\ inbox' = Tail(inbox) /\ pingOutstanding' = FALSE /\ pc' = "idle"
        /\ UNCHANGED <<up, link, broker, handling>>
    BY <1>3 DEF ConnackAccepted
  <2>2. Count(inbox', Plain("PINGRESP")) = Count(inbox, Plain("PINGRESP"))
    BY <2>1, ReadCount DEF SessionInv, Plain, Packet
  <2>3. \A id : Count(inbox', Packet("PUBLISH1", id)) = Count(inbox, Packet("PUBLISH1", id))
    BY <2>1, ReadCount DEF SessionInv, Plain, Packet
  <2>4. PingsArePlain' /\ WaitsInv'
    BY <2>1, ReadCount DEF SessionInv, BooksInv, PingsArePlain, WaitsInv
  <2>5. PingBooks'
    BY <2>1, <2>2 DEF BooksInv, PingBooks, PingsUnderWay, Answering
  <2>6. QoS1Books'
    BY <2>1, <2>3 DEF BooksInv, QoS1Books, PlacesOf, Answering
  <2> QED  BY <2>4, <2>5, <2>6 DEF BooksInv
<1> QED  BY <1>1, <1>2, <1>3 DEF Connack

\* loop() without a packet that ends it: the packet leaves the inbox, a ping
\* that is written is the only one.
LEMMA BooksLoopReads ==
    ASSUME SessionInv, BooksInv, LoopReads PROVE BooksInv'
<1> DEFINE packet == IF inbox = <<>> THEN NoPacket ELSE Head(inbox)
<1>1. /\ pc = "idle" /\ IsConnected /\ ~(Overdue /\ pingOutstanding)
      /\ inbox' = IF inbox = <<>> THEN <<>> ELSE Tail(inbox)
      /\ up' = Written(Pings \o Replies(packet))
      /\ pingOutstanding' = (packet.type # "PINGRESP" /\ (pingOutstanding \/ Overdue))
      /\ IF IsPublish(packet) THEN pc' = "callback" /\ handling' = packet
         ELSE UNCHANGED <<pc, handling>>
      /\ UNCHANGED <<state, link, broker>>
  BY DEF LoopReads
<1>2. /\ \A p : p # packet => Count(inbox', p) = Count(inbox, p)
      /\ \A p : p = packet /\ inbox # <<>>
           => Count(inbox, p) = IF Count(inbox', p) = 0 THEN 1 ELSE 2
      /\ \A i \in DOMAIN inbox' : \E j \in DOMAIN inbox : inbox'[i] = inbox[j]
      /\ inbox # <<>> => packet \in DownPacket /\ \E j \in DOMAIN inbox : packet = inbox[j]
  <2>1. CASE inbox = <<>>
    BY <1>1, <2>1
  <2>2. CASE inbox # <<>>
    <3>1. inbox' = Tail(inbox) /\ packet = Head(inbox)
      BY <1>1, <2>2
    <3> HIDE DEF packet
    <3> QED  BY <3>1, <2>2, ReadCount DEF SessionInv
  <2> QED  BY <2>1, <2>2
<1>3. packet.type = "PINGRESP" => packet = Plain("PINGRESP") /\ inbox # <<>>
  BY <1>2 DEF BooksInv, PingsArePlain, NoPacket, Plain, Packet
<1>4. packet.type = "PUBLISH1" => packet = Packet("PUBLISH1", packet.id) /\ inbox # <<>>
  BY <1>2 DEF DownPacket, NoPacket, Plain, Packet
<1>5. WaitsInv'
  BY <1>1 DEF BooksInv, WaitsInv
<1>6. \A id : handling # Packet("PUBLISH1", id)
  BY <1>1 DEF BooksInv, WaitsInv, NoPacket, Plain, Packet
<1>7. \A id : handling' = Packet("PUBLISH1", id) <=> packet = Packet("PUBLISH1", id)
  BY <1>1, <1>6 DEF IsPublish, Packet
<1> HIDE DEF packet
<1>8. CASE broker.hung
  <2>1. up' = up /\ ~Answering' BY <1>1, <1>8 DEF Written, Answering
  <2>2. PingsArePlain' BY <1>2, <2>1 DEF BooksInv, PingsArePlain
  <2> QED  BY <1>5, <2>1, <2>2 DEF BooksInv, PingBooks, QoS1Books
<1>9. CASE ~broker.hung
  <2>1. Answering /\ TypeOK
    BY <1>1, <1>9 DEF Answering, IsConnected, SessionInv
  <2>2. /\ Plain("PINGREQ") \in UpPacket /\ Plain("PINGRESP") \in UpPacket
    BY PlainTypes DEF UpTypes
  <2>3. /\ \A p : p # Plain("PINGREQ") /\ p # Plain("PINGRESP") => Count(up', p) = Count(up, p)
        /\ Count(up', Plain("PINGREQ")) = IF ~Overdue THEN Count(up, Plain("PINGREQ"))
              ELSE IF Count(up, Plain("PINGREQ")) = 0 THEN 1 ELSE 2
        /\ \A i \in DOMAIN up' : \/ up'[i] = Plain("PINGREQ") \/ up'[i] = Plain("PINGRESP")
                                 \/ \E j \in DOMAIN up : up'[i] = up[j]
    <3>1. CASE ~Overdue /\ packet.type # "PINGREQ"
      <4>1. up' = up
        <5>1. Pings \o Replies(packet) = <<>> BY <3>1 DEF Pings, Replies
        <5> QED  BY <1>1, <2>1, <5>1 DEF Written, TypeOK, Answering
      <4> QED  BY <3>1, <4>1
    <3>2. CASE ~Overdue /\ packet.type = "PINGREQ"
      <4>1. up' = Written(<<Plain("PINGRESP")>>)
        <5>1. Pings \o Replies(packet) = <<Plain("PINGRESP")>> BY <3>2 DEF Pings, Replies
        <5> QED  BY <1>1, <5>1
      <4>2. Plain("PINGRESP") # Plain("PINGREQ") BY DEF Plain, Packet
      <4>3. /\ \A p : Count(up', p) = IF Plain("PINGRESP") # p THEN Count(up, p)
                                    ELSE IF Count(up, p) = 0 THEN 1 ELSE 2
            /\ \A i \in DOMAIN up' : up'[i] = Plain("PINGRESP") \/ \E j \in DOMAIN up : up'[i] = up[j]
        <5> DEFINE t == Append(up, Plain("PINGRESP"))
        <5>1. /\ up' = t
              /\ \A p : Count(t, p) = IF Plain("PINGRESP") # p THEN Count(up, p)
                                     ELSE IF Count(up, p) = 0 THEN 1 ELSE 2
              /\ \A i \in DOMAIN t : t[i] = Plain("PINGRESP") \/ \E j \in DOMAIN up : t[i] = up[j]
          BY <2>1, <2>2, <4>1, WrittenCount
        <5> HIDE DEF t
        <5> QED  BY <5>1
      <4> QED  BY <3>2, <4>3, <4>2
    <3>3. CASE Overdue /\ packet.type # "PINGREQ"
      <4>1. up' = Written(<<Plain("PINGREQ")>>)
        <5>1. Pings \o Replies(packet) = <<Plain("PINGREQ")>> BY <3>3 DEF Pings, Replies
        <5> QED  BY <1>1, <5>1
      <4>3. /\ \A p : Count(up', p) = IF Plain("PINGREQ") # p THEN Count(up, p)
                                    ELSE IF Count(up, p) = 0 THEN 1 ELSE 2
            /\ \A i \in DOMAIN up' : up'[i] = Plain("PINGREQ") \/ \E j \in DOMAIN up : up'[i] = up[j]
        <5> DEFINE t == Append(up, Plain("PINGREQ"))
        <5>1. /\ up' = t
              /\ \A p : Count(t, p) = IF Plain("PINGREQ") # p THEN Count(up, p)
                                     ELSE IF Count(up, p) = 0 THEN 1 ELSE 2
              /\ \A i \in DOMAIN t : t[i] = Plain("PINGREQ") \/ \E j \in DOMAIN up : t[i] = up[j]
          BY <2>1, <2>2, <4>1, WrittenCount
        <5> HIDE DEF t
        <5> QED  BY <5>1
      <4> QED  BY <3>3, <4>3
    <3>4. CASE Overdue /\ packet.type = "PINGREQ"
      <4> DEFINE mid == Append(up, Plain("PINGREQ"))
      <4>1. up \in Seq(UpPacket) /\ mid \in Seq(UpPacket)
        BY <2>1, <2>2 DEF TypeOK, UpPacket
      <4>2. up' = Append(mid, Plain("PINGRESP"))
        <5>1. Pings = <<Plain("PINGREQ")>> /\ Replies(packet) = <<Plain("PINGRESP")>>
          BY <3>4 DEF Pings, Replies
        <5>2. up' = up \o (<<Plain("PINGREQ")>> \o <<Plain("PINGRESP")>>)
          BY <1>1, <2>1, <5>1 DEF Written, Answering
        <5> QED  BY <2>2, <4>1, <5>2, AppendTwo
      <4>3. \A p : Count(mid, p) = IF Plain("PINGREQ") # p THEN Count(up, p)
                                   ELSE IF Count(up, p) = 0 THEN 1 ELSE 2
        BY <2>1, <2>2, WrittenCount
      <4>4. \A i \in DOMAIN mid : mid[i] = Plain("PINGREQ") \/ \E j \in DOMAIN up : mid[i] = up[j]
        BY <2>1, <2>2, WrittenCount
      <4> HIDE DEF mid
      <4>5. \A p : p # Plain("PINGRESP") => Count(up', p) = Count(mid, p)
        BY <2>2, <4>1, <4>2, CountAppend
      <4>6. \A i \in DOMAIN up' : up'[i] = Plain("PINGRESP") \/ \E j \in DOMAIN mid : up'[i] = mid[j]
        BY <2>2, <4>1, <4>2
      <4>7. Plain("PINGRESP") # Plain("PINGREQ") BY DEF Plain, Packet
      <4> QED  BY <3>4, <4>3, <4>4, <4>5, <4>6, <4>7
    <3> QED  BY <3>1, <3>2, <3>3, <3>4
  <2>4. PingsArePlain'
    BY <1>2, <2>3 DEF BooksInv, PingsArePlain, Plain, Packet
  <2>5. \A id : Count(up', Packet("PUBACK", id)) = Count(up, Packet("PUBACK", id))
    BY <2>3 DEF Plain, Packet
  <2>6. PingBooks'
    <3>1. /\ Count(up, Plain("PINGREQ")) \in {0, 1, 2} /\ Count(inbox, Plain("PINGRESP")) \in {0, 1, 2}
          /\ Count(inbox', Plain("PINGRESP")) \in {0, 1, 2}
      BY CountRange
    <3>2. PingsUnderWay = IF pingOutstanding THEN 1 ELSE 0
      BY <1>1, <2>1 DEF BooksInv, PingBooks
    <3>3. pc' # "connack"
      BY <1>1
    <3>4. CASE packet.type = "PINGRESP"
      <4>1. /\ Count(inbox, Plain("PINGRESP")) = IF Count(inbox', Plain("PINGRESP")) = 0 THEN 1 ELSE 2
            /\ ~pingOutstanding'
        BY <1>1, <1>2, <1>3, <3>4
      <4>2. pingOutstanding /\ ~Overdue
        BY <1>1, <3>1, <3>2, <4>1 DEF PingsUnderWay
      <4> QED  BY <2>3, <3>1, <3>2, <4>1, <4>2 DEF PingBooks, PingsUnderWay
    <3>5. CASE packet.type # "PINGRESP"
      <4>1. /\ Count(inbox', Plain("PINGRESP")) = Count(inbox, Plain("PINGRESP"))
            /\ pingOutstanding' = (pingOutstanding \/ Overdue)
        BY <1>1, <1>2, <3>5 DEF Plain, Packet
      <4>2. CASE Overdue
        <5>1. ~pingOutstanding /\ pingOutstanding'
          BY <1>1, <4>1, <4>2
        <5>2. Count(up, Plain("PINGREQ")) = 0 /\ Count(inbox, Plain("PINGRESP")) = 0
          BY <3>1, <3>2, <5>1 DEF PingsUnderWay
        <5>3. Count(up', Plain("PINGREQ")) = 1 /\ Count(inbox', Plain("PINGRESP")) = 0
          BY <2>3, <4>1, <4>2, <5>2
        <5> QED  BY <3>3, <5>1, <5>3 DEF PingBooks, PingsUnderWay
      <4>3. CASE ~Overdue
        BY <1>1, <2>3, <3>1, <3>2, <3>3, <4>1, <4>3 DEF PingBooks, PingsUnderWay
      <4> QED  BY <4>2, <4>3
    <3> QED  BY <3>4, <3>5
  <2>7. QoS1Books'
    <3> SUFFICES ASSUME NEW id \in MsgIds
                 PROVE  PlacesOf(id)' = IF id \in broker'.unacked THEN 1 ELSE 0
      BY DEF QoS1Books
    <3>1. PlacesOf(id) = (IF id \in broker.unacked THEN 1 ELSE 0) /\ broker' = broker
      BY <1>1, <2>1 DEF BooksInv, QoS1Books
    <3>2. /\ Count(inbox, Packet("PUBLISH1", id)) \in {0, 1, 2}
          /\ Count(inbox', Packet("PUBLISH1", id)) \in {0, 1, 2}
          /\ Count(up, Packet("PUBACK", id)) \in {0, 1, 2}
      BY CountRange
    <3>3. CASE packet = Packet("PUBLISH1", id)
      <4>1. Count(inbox, Packet("PUBLISH1", id)) = IF Count(inbox', Packet("PUBLISH1", id)) = 0 THEN 1 ELSE 2
        <5>1. inbox # <<>> BY <1>4, <3>3 DEF Packet
        <5> QED  BY <1>2, <3>3, <5>1
      <4>2. handling' = Packet("PUBLISH1", id) /\ handling # Packet("PUBLISH1", id)
        BY <1>6, <1>7, <3>3
      <4> QED  BY <2>5, <3>1, <3>2, <4>1, <4>2 DEF PlacesOf
    <3>4. CASE packet # Packet("PUBLISH1", id)
      <4>1. Count(inbox', Packet("PUBLISH1", id)) = Count(inbox, Packet("PUBLISH1", id))
        BY <1>2, <3>4
      <4>2. handling' # Packet("PUBLISH1", id) /\ handling # Packet("PUBLISH1", id)
        BY <1>6, <1>7, <3>4
      <4> QED  BY <2>5, <3>1, <3>2, <4>1, <4>2 DEF PlacesOf
    <3> QED  BY <3>3, <3>4
  <2> QED  BY <1>5, <2>4, <2>6, <2>7 DEF BooksInv
<1> QED  BY <1>8, <1>9

\* The callback's message is acknowledged: one place becomes another.
LEMMA BooksCallback ==
    ASSUME SessionInv, BooksInv, CallbackReturns PROVE BooksInv'
<1>1. /\ pc = "callback" /\ pc' = "idle" /\ handling' = NoPacket
      /\ UNCHANGED <<state, pingOutstanding, link, inbox, broker>>
      /\ handling \in [type : {"NONE", "PUBLISH0", "PUBLISH1"}, id : Ids]
  BY DEF CallbackReturns, SessionInv, TypeOK
<1>2. WaitsInv' /\ \A id : handling' # Packet("PUBLISH1", id)
  BY <1>1 DEF WaitsInv, NoPacket, Plain, Packet
<1>3. CASE handling.type # "PUBLISH1"
  <2>1. up' = up BY <1>3 DEF CallbackReturns
  <2>2. \A id : handling # Packet("PUBLISH1", id) BY <1>3 DEF Packet
  <2>3. PingsArePlain' /\ PingBooks'
    BY <1>1, <2>1 DEF BooksInv, PingsArePlain, PingBooks, PingsUnderWay, Answering
  <2>4. QoS1Books'
    BY <1>1, <1>2, <2>1, <2>2 DEF BooksInv, QoS1Books, PlacesOf, Answering
  <2> QED  BY <1>2, <2>3, <2>4 DEF BooksInv
<1>4. CASE handling.type = "PUBLISH1"
  <2> DEFINE e == Packet("PUBACK", handling.id)
  <2>1. e \in UpPacket /\ up' = Written(<<e>>)
    BY <1>1, <1>4, PlainTypes DEF CallbackReturns, UpTypes
  <2>2. CASE ~Answering
    <3>1. up' = up /\ ~Answering' BY <1>1, <2>1, <2>2 DEF Written, Answering
    <3> QED  BY <1>1, <1>2, <3>1 DEF BooksInv, PingsArePlain, PingBooks, QoS1Books
  <2>3. CASE Answering
    <3> DEFINE t == Append(up, e)
    <3>1. /\ up' = t
          /\ \A p : Count(t, p) = IF e # p THEN Count(up, p)
                                  ELSE IF Count(up, p) = 0 THEN 1 ELSE 2
          /\ \A i \in DOMAIN t : t[i] = e \/ \E j \in DOMAIN up : t[i] = up[j]
      BY <2>1, <2>3, WrittenCount DEF SessionInv
    <3> HIDE DEF t
    <3>2. Count(up', Plain("PINGREQ")) = Count(up, Plain("PINGREQ"))
      BY <3>1 DEF Plain, Packet
    <3>3. PingsArePlain' BY <1>1, <3>1 DEF BooksInv, PingsArePlain, Packet
    <3>4. PingBooks' BY <1>1, <3>2 DEF BooksInv, PingBooks, PingsUnderWay, Answering
    <3>5. QoS1Books'
      <4> SUFFICES ASSUME NEW id \in MsgIds
                   PROVE  PlacesOf(id)' = IF id \in broker'.unacked THEN 1 ELSE 0
        BY DEF QoS1Books
      <4>1. PlacesOf(id) = (IF id \in broker.unacked THEN 1 ELSE 0) /\ broker' = broker
        BY <1>1, <2>3 DEF BooksInv, QoS1Books
      <4>2. /\ Count(inbox, Packet("PUBLISH1", id)) \in {0, 1, 2}
            /\ Count(up, Packet("PUBACK", id)) \in {0, 1, 2}
        BY CountRange
      <4>3. CASE id = handling.id
        <5>1. handling = Packet("PUBLISH1", id) BY <1>1, <1>4, <4>3 DEF Packet
        <5>2. Count(up', Packet("PUBACK", id)) = IF Count(up, Packet("PUBACK", id)) = 0 THEN 1 ELSE 2
          BY <3>1, <4>3
        <5> QED  BY <1>1, <1>2, <4>1, <4>2, <5>1, <5>2 DEF PlacesOf
      <4>4. CASE id # handling.id
        <5>1. handling # Packet("PUBLISH1", id) BY <4>4 DEF Packet
        <5>2. Count(up', Packet("PUBACK", id)) = Count(up, Packet("PUBACK", id))
          BY <3>1, <4>4 DEF Packet
        <5> QED  BY <1>1, <1>2, <4>1, <5>1, <5>2 DEF PlacesOf
      <4> QED  BY <4>3, <4>4
    <3> QED  BY <1>2, <3>3, <3>4, <3>5 DEF BooksInv
  <2> QED  BY <2>2, <2>3
<1> QED  BY <1>3, <1>4

\* The calls that write, or end the session, do not disturb the books.
LEMMA BooksCall ==
    ASSUME SessionInv, BooksInv,
           \/ Publish \/ Disconnect \/ Notice
           \/ Request("SUBSCRIBE") \/ Request("UNSUBSCRIBE")
    PROVE  BooksInv'
<1>1. CASE Publish
  <2>1. Plain("PUBLISH") \in UpPacket /\ Plain("PUBLISH").type \notin {"PINGREQ", "PUBACK"}
    BY PlainTypes DEF UpTypes, Plain, Packet
  <2> QED  BY <1>1, <2>1, BooksWrite DEF Publish, SessionInv, client
<1>2. CASE Disconnect
  BY <1>2, BooksClosed DEF Disconnect
<1>3. CASE Notice
  <2>1. CASE NoticedState # state
    <3>1. state' # "CONNECTED" BY <1>3, <2>1 DEF Notice, NoticeLoss, NoticedState
    <3> QED  BY <1>3, <2>1, <3>1, BooksClosed DEF Notice, NoticeLoss
  <2>2. CASE NoticedState = state
    BY <1>3, <2>2
    DEF Notice, NoticeLoss, wire, BooksInv, PingsArePlain, WaitsInv, PingBooks,
        QoS1Books, PingsUnderWay, PlacesOf, Answering
  <2> QED  BY <2>1, <2>2
<1>4. ASSUME NEW type \in {"SUBSCRIBE", "UNSUBSCRIBE"}, Request(type) PROVE BooksInv'
  <2>1. FollowingMsgId \in Ids
    BY SessionAssumption DEF FollowingMsgId, SessionInv, TypeOK, Ids
  <2>2. /\ Packet(type, FollowingMsgId) \in UpPacket
        /\ Packet(type, FollowingMsgId).type \notin {"PINGREQ", "PUBACK"}
    BY <2>1, PlainTypes DEF UpTypes, Packet
  <2> QED  BY <1>4, <2>2, BooksWrite DEF Request, SessionInv
<1> QED  BY <1>1, <1>2, <1>3, <1>4

\* A packet arrives: the counts it changes.
LEMMA ArrivedCount ==
    ASSUME TypeOK, NEW e \in DownPacket
    PROVE  /\ \A p : Count(Append(inbox, e), p) = IF e # p THEN Count(inbox, p)
                                                  ELSE IF Count(inbox, p) = 0 THEN 1 ELSE 2
           /\ \A i \in DOMAIN Append(inbox, e) :
                 Append(inbox, e)[i] = e \/ \E j \in DOMAIN inbox : Append(inbox, e)[i] = inbox[j]
<1>1. inbox \in Seq(DownPacket)
  BY DEF TypeOK, DownPacket
<1>2. \A i \in DOMAIN Append(inbox, e) :
         Append(inbox, e)[i] = e \/ \E j \in DOMAIN inbox : Append(inbox, e)[i] = inbox[j]
  BY <1>1
<1> QED  BY <1>1, <1>2, CountAppend

\* The broker reads: a ping becomes its answer, a PUBACK closes an account.
LEMMA BooksBroker ==
    ASSUME SessionInv, BooksInv, BrokerReads PROVE BooksInv'
<1> DEFINE packet == Head(up)
<1>1. /\ Answering /\ (Answering' <=> ~broker'.hung)
      /\ UNCHANGED <<state, pingOutstanding, pc, handling, link>>
      /\ packet \in UpPacket /\ TypeOK
      /\ \A p : p # packet => Count(up', p) = Count(up, p)
      /\ \A p : p = packet => Count(up, p) = IF Count(up', p) = 0 THEN 1 ELSE 2
      /\ \A i \in DOMAIN up' : \E j \in DOMAIN up : up'[i] = up[j]
      /\ packet.type = "PINGREQ" => packet = Plain("PINGREQ")
  <2>1. up # <<>> /\ up' = Tail(up) /\ up \in Seq(UpPacket)
    BY DEF BrokerReads, SessionInv, TypeOK, UpPacket
  <2>2. \A i \in DOMAIN up' : \E j \in DOMAIN up : up'[i] = up[j]
    BY <2>1
  <2>3. packet \in UpPacket /\ packet = up[1] /\ 1 \in DOMAIN up
    BY <2>1
  <2>4. \A p : /\ packet # p => Count(Tail(up), p) = Count(up, p)
               /\ packet = p => Count(up, p) = IF Count(Tail(up), p) = 0 THEN 1 ELSE 2
    BY <2>1, CountTail
  <2>5. packet.type = "PINGREQ" => packet = Plain("PINGREQ")
    BY <2>3 DEF BooksInv, PingsArePlain
  <2>6. /\ Answering /\ (Answering' <=> ~broker'.hung)
        /\ UNCHANGED <<state, pingOutstanding, pc, handling, link>>
    BY DEF BrokerReads, Answering, client
  <2> HIDE DEF packet
  <2> QED  BY <2>1, <2>2, <2>3, <2>4, <2>5, <2>6 DEF SessionInv
<1>2. \A p : Count(up, p) \in {0, 1, 2} /\ Count(inbox, p) \in {0, 1, 2} /\ Count(up', p) \in {0, 1, 2}
  BY CountRange
<1>3. /\ PingsUnderWay = IF pingOutstanding /\ pc # "connack" THEN 1 ELSE 0
      /\ \A id \in MsgIds : PlacesOf(id) = IF id \in broker.unacked THEN 1 ELSE 0
  BY <1>1 DEF BooksInv, PingBooks, QoS1Books
<1>4. WaitsInv' BY <1>1 DEF BooksInv, WaitsInv
<1>5. ASSUME packet.type \notin {"PINGREQ", "PUBACK"}, broker'.unacked = broker.unacked,
             \/ inbox' = inbox
             \/ \E e \in DownPacket : e.type \notin {"PINGRESP", "PUBLISH1"} /\ inbox' = Append(inbox, e)
      PROVE  BooksInv'
  <2>1. /\ Count(up', Plain("PINGREQ")) = Count(up, Plain("PINGREQ"))
        /\ \A id : Count(up', Packet("PUBACK", id)) = Count(up, Packet("PUBACK", id))
    BY <1>1, <1>5 DEF Plain, Packet
  <2>2. /\ Count(inbox', Plain("PINGRESP")) = Count(inbox, Plain("PINGRESP"))
        /\ \A id : Count(inbox', Packet("PUBLISH1", id)) = Count(inbox, Packet("PUBLISH1", id))
        /\ \A i \in DOMAIN inbox' : inbox'[i].type # "PINGRESP" \/ \E j \in DOMAIN inbox : inbox'[i] = inbox[j]
    <3>1. CASE inbox' = inbox BY <3>1
    <3>2. CASE \E e \in DownPacket : e.type \notin {"PINGRESP", "PUBLISH1"} /\ inbox' = Append(inbox, e)
      <4>1. PICK e \in DownPacket : e.type \notin {"PINGRESP", "PUBLISH1"} /\ inbox' = Append(inbox, e)
        BY <3>2
      <4>2. /\ \A p : Count(inbox', p) = IF e # p THEN Count(inbox, p)
                                         ELSE IF Count(inbox, p) = 0 THEN 1 ELSE 2
            /\ \A i \in DOMAIN inbox' : inbox'[i] = e \/ \E j \in DOMAIN inbox : inbox'[i] = inbox[j]
        <5> DEFINE t == Append(inbox, e)
        <5>1. /\ inbox' = t
              /\ \A p : Count(t, p) = IF e # p THEN Count(inbox, p)
                                      ELSE IF Count(inbox, p) = 0 THEN 1 ELSE 2
              /\ \A i \in DOMAIN t : t[i] = e \/ \E j \in DOMAIN inbox : t[i] = inbox[j]
          BY <1>1, <4>1, ArrivedCount
        <5> HIDE DEF t
        <5> QED  BY <5>1
      <4>3. e # Plain("PINGRESP") /\ \A id : e # Packet("PUBLISH1", id)
        BY <4>1 DEF Plain, Packet
      <4> QED  BY <4>1, <4>2, <4>3
    <3> QED  BY <1>5, <3>1, <3>2
  <2>3. PingsArePlain' BY <1>1, <2>2 DEF BooksInv, PingsArePlain
  <2>4. PingBooks' BY <1>1, <1>3, <2>1, <2>2 DEF PingBooks, PingsUnderWay
  <2>5. QoS1Books' BY <1>1, <1>3, <1>5, <2>1, <2>2 DEF QoS1Books, PlacesOf
  <2> QED  BY <1>4, <2>3, <2>4, <2>5 DEF BooksInv
<1>6. CASE packet.type = "PINGREQ"
  <2>1. inbox' = Append(inbox, Plain("PINGRESP")) /\ UNCHANGED broker
    BY <1>6 DEF BrokerReads
  <2>2. /\ \A p : Count(inbox', p) = IF Plain("PINGRESP") # p THEN Count(inbox, p)
                                     ELSE IF Count(inbox, p) = 0 THEN 1 ELSE 2
        /\ \A i \in DOMAIN inbox' : inbox'[i] = Plain("PINGRESP") \/ \E j \in DOMAIN inbox : inbox'[i] = inbox[j]
    <3> DEFINE t == Append(inbox, Plain("PINGRESP"))
    <3>1. Plain("PINGRESP") \in DownPacket BY PlainTypes DEF DownTypes
    <3>2. /\ inbox' = t
          /\ \A p : Count(t, p) = IF Plain("PINGRESP") # p THEN Count(inbox, p)
                                  ELSE IF Count(inbox, p) = 0 THEN 1 ELSE 2
          /\ \A i \in DOMAIN t : t[i] = Plain("PINGRESP") \/ \E j \in DOMAIN inbox : t[i] = inbox[j]
      BY <1>1, <2>1, <3>1, ArrivedCount
    <3> HIDE DEF t
    <3> QED  BY <3>2
  <2>3. PingsArePlain' BY <1>1, <2>2 DEF BooksInv, PingsArePlain
  <2>4. PingBooks'
    <3>1. Count(up, Plain("PINGREQ")) = IF Count(up', Plain("PINGREQ")) = 0 THEN 1 ELSE 2
      BY <1>1, <1>6
    <3>2. /\ pingOutstanding /\ pc # "connack" /\ Count(inbox, Plain("PINGRESP")) = 0
          /\ Count(up', Plain("PINGREQ")) = 0
      BY <1>2, <1>3, <3>1 DEF PingsUnderWay
    <3>3. Count(inbox', Plain("PINGRESP")) = 1 BY <2>2, <3>2
    <3> QED  BY <1>1, <3>2, <3>3 DEF PingBooks, PingsUnderWay
  <2>5. QoS1Books'
    <3>1. /\ \A id : Count(up', Packet("PUBACK", id)) = Count(up, Packet("PUBACK", id))
          /\ \A id : Count(inbox', Packet("PUBLISH1", id)) = Count(inbox, Packet("PUBLISH1", id))
      BY <1>1, <1>6, <2>2 DEF Plain, Packet
    <3> QED  BY <1>1, <1>3, <2>1, <3>1 DEF QoS1Books, PlacesOf
  <2> QED  BY <1>4, <2>3, <2>4, <2>5 DEF BooksInv
<1>7. CASE packet.type = "PUBACK"
  <2>1. inbox' = inbox /\ broker' = [broker EXCEPT !.unacked = @ \ {packet.id}]
    BY <1>7 DEF BrokerReads
  <2>2. broker'.unacked = broker.unacked \ {packet.id}
    BY <1>1, <2>1 DEF TypeOK
  <2>3. packet = Packet("PUBACK", packet.id)
    BY <1>1, <1>7 DEF UpPacket, Packet
  <2>4. PingsArePlain' BY <1>1, <2>1 DEF BooksInv, PingsArePlain
  <2>5. PingBooks'
    <3>1. Count(up', Plain("PINGREQ")) = Count(up, Plain("PINGREQ"))
      BY <1>1, <1>7 DEF Plain, Packet
    <3> QED  BY <1>1, <1>3, <2>1, <3>1 DEF PingBooks, PingsUnderWay
  <2>6. QoS1Books'
    <3> SUFFICES ASSUME NEW id \in MsgIds
                 PROVE  PlacesOf(id)' = IF id \in broker'.unacked THEN 1 ELSE 0
      BY DEF QoS1Books
    <3>1. CASE id = packet.id
      <4>1. Count(up, Packet("PUBACK", id)) = IF Count(up', Packet("PUBACK", id)) = 0 THEN 1 ELSE 2
        BY <1>1, <2>3, <3>1
      <4>2. /\ Count(inbox, Packet("PUBLISH1", id)) = 0 /\ handling # Packet("PUBLISH1", id)
            /\ Count(up', Packet("PUBACK", id)) = 0
        BY <1>2, <1>3, <4>1 DEF PlacesOf
      <4> QED  BY <1>1, <2>1, <2>2, <3>1, <4>2 DEF PlacesOf
    <3>2. CASE id # packet.id
      <4>1. Count(up', Packet("PUBACK", id)) = Count(up, Packet("PUBACK", id))
        BY <1>1, <3>2 DEF Packet
      <4> QED  BY <1>1, <1>3, <2>1, <2>2, <3>2, <4>1 DEF PlacesOf
    <3> QED  BY <3>1, <3>2
  <2> QED  BY <1>4, <2>4, <2>5, <2>6 DEF BooksInv
<1>8. CASE packet.type \notin {"PINGREQ", "PUBACK"}
  <2>1. /\ Packet("CONNACK", 5) \in DownPacket /\ Plain("MALFORMED") \in DownPacket
        /\ Plain("CONNACK") \in DownPacket
        /\ Packet("SUBACK", packet.id) \in DownPacket /\ Packet("UNSUBACK", packet.id) \in DownPacket
    <3>1. packet.id \in Ids /\ 5 \in Ids BY <1>1 DEF UpPacket, Ids
    <3> QED  BY <3>1, PlainTypes DEF DownTypes
  <2>2. /\ Packet("CONNACK", 5).type = "CONNACK" /\ Plain("MALFORMED").type = "MALFORMED"
        /\ Plain("CONNACK").type = "CONNACK"
        /\ Packet("SUBACK", packet.id).type = "SUBACK" /\ Packet("UNSUBACK", packet.id).type = "UNSUBACK"
    BY DEF Plain, Packet
  <2>3. broker'.unacked = broker.unacked
    BY <1>1, <1>8 DEF BrokerReads, TypeOK
  <2>4. \/ inbox' = inbox
        \/ inbox' = Append(inbox, Plain("CONNACK")) \/ inbox' = Append(inbox, Packet("CONNACK", 5))
        \/ inbox' = Append(inbox, Plain("MALFORMED"))
        \/ inbox' = Append(inbox, Packet("SUBACK", packet.id))
        \/ inbox' = Append(inbox, Packet("UNSUBACK", packet.id))
    BY <1>8 DEF BrokerReads
  <2> QED  BY <1>5, <1>8, <2>1, <2>2, <2>3, <2>4
<1> QED  BY <1>6, <1>7, <1>8

\* A message opens an account; silence and breaks end all of them.
LEMMA BooksWorld ==
    ASSUME SessionInv, BooksInv, BrokerSends \/ Hang \/ Break \/ Tick
    PROVE  BooksInv'
<1>1. CASE BrokerSends
  <2>1. /\ UNCHANGED <<state, pingOutstanding, pc, handling, link, up>>
        /\ Answering /\ broker'.hung = broker.hung /\ TypeOK
    BY <1>1 DEF BrokerSends, client, Answering, SessionInv, TypeOK
  <2>2. \E e \in DownPacket :
          /\ inbox' = Append(inbox, e) /\ e.type # "PINGRESP"
          /\ \/ e.type # "PUBLISH1" /\ broker' = broker
             \/ /\ e = Packet("PUBLISH1", e.id) /\ e.id \in MsgIds \ broker.unacked
                /\ broker'.unacked = broker.unacked \cup {e.id}
    <3>1. CASE \E type \in {"PUBLISH0", "OVERSIZE", "PINGREQ", "MALFORMED"} :
                 inbox' = Append(inbox, Plain(type)) /\ UNCHANGED broker
      <4>1. PICK type \in {"PUBLISH0", "OVERSIZE", "PINGREQ", "MALFORMED"} :
              inbox' = Append(inbox, Plain(type)) /\ UNCHANGED broker
        BY <3>1
      <4>2. Plain(type) \in DownPacket /\ Plain(type).type = type
        BY PlainTypes DEF DownTypes, Plain, Packet
      <4> QED  BY <4>1, <4>2
    <3>2. CASE \E id \in MsgIds \ broker.unacked :
                 /\ inbox' = Append(inbox, Packet("PUBLISH1", id))
                 /\ broker' = [broker EXCEPT !.unacked = @ \cup {id}]
      <4>1. PICK id \in MsgIds \ broker.unacked :
              /\ inbox' = Append(inbox, Packet("PUBLISH1", id))
              /\ broker' = [broker EXCEPT !.unacked = @ \cup {id}]
        BY <3>2
      <4>2. Packet("PUBLISH1", id) \in DownPacket
        BY PlainTypes DEF DownTypes, Ids
      <4>3. Packet("PUBLISH1", id).type = "PUBLISH1" /\ Packet("PUBLISH1", id).id = id
        BY DEF Packet
      <4>4. broker'.unacked = broker.unacked \cup {id}
        BY <2>1, <4>1 DEF TypeOK
      <4> QED  BY <4>1, <4>2, <4>3, <4>4
    <3> QED  BY <1>1, <3>1, <3>2 DEF BrokerSends
  <2>3. PICK e \in DownPacket :
          /\ inbox' = Append(inbox, e) /\ e.type # "PINGRESP"
          /\ \/ e.type # "PUBLISH1" /\ broker' = broker
             \/ /\ e = Packet("PUBLISH1", e.id) /\ e.id \in MsgIds \ broker.unacked
                /\ broker'.unacked = broker.unacked \cup {e.id}
    BY <2>2
  <2>4. /\ \A p : Count(inbox', p) = IF e # p THEN Count(inbox, p)
                                     ELSE IF Count(inbox, p) = 0 THEN 1 ELSE 2
        /\ \A i \in DOMAIN inbox' : inbox'[i] = e \/ \E j \in DOMAIN inbox : inbox'[i] = inbox[j]
    <3> DEFINE t == Append(inbox, e)
    <3>1. /\ inbox' = t
          /\ \A p : Count(t, p) = IF e # p THEN Count(inbox, p)
                                  ELSE IF Count(inbox, p) = 0 THEN 1 ELSE 2
          /\ \A i \in DOMAIN t : t[i] = e \/ \E j \in DOMAIN inbox : t[i] = inbox[j]
      BY <2>1, <2>3, ArrivedCount
    <3> HIDE DEF t
    <3> QED  BY <3>1
  <2>5. PingsArePlain' /\ WaitsInv'
    BY <2>1, <2>3, <2>4 DEF BooksInv, PingsArePlain, WaitsInv
  <2>6. PingBooks'
    <3>1. Count(inbox', Plain("PINGRESP")) = Count(inbox, Plain("PINGRESP"))
      BY <2>3, <2>4 DEF Plain, Packet
    <3> QED  BY <2>1, <3>1 DEF BooksInv, PingBooks, PingsUnderWay
  <2>7. QoS1Books'
    <3> SUFFICES ASSUME NEW id \in MsgIds
                 PROVE  PlacesOf(id)' = IF id \in broker'.unacked THEN 1 ELSE 0
      BY DEF QoS1Books
    <3>1. PlacesOf(id) = IF id \in broker.unacked THEN 1 ELSE 0
      BY <2>1 DEF BooksInv, QoS1Books
    <3>2. /\ Count(inbox, Packet("PUBLISH1", id)) \in {0, 1, 2}
          /\ Count(up, Packet("PUBACK", id)) \in {0, 1, 2}
      BY CountRange
    <3>3. CASE e = Packet("PUBLISH1", id)
      <4>1. id \notin broker.unacked /\ id \in broker'.unacked
        BY <2>3, <3>3 DEF Packet
      <4>2. Count(inbox', Packet("PUBLISH1", id)) = IF Count(inbox, Packet("PUBLISH1", id)) = 0 THEN 1 ELSE 2
        BY <2>4, <3>3
      <4> QED  BY <2>1, <3>1, <3>2, <4>1, <4>2 DEF PlacesOf
    <3>4. CASE e # Packet("PUBLISH1", id)
      <4>1. id \in broker'.unacked <=> id \in broker.unacked
        BY <2>3, <3>4
      <4>2. Count(inbox', Packet("PUBLISH1", id)) = Count(inbox, Packet("PUBLISH1", id))
        BY <2>4, <3>4
      <4> QED  BY <2>1, <3>1, <4>1, <4>2 DEF PlacesOf
    <3> QED  BY <3>3, <3>4
  <2> QED  BY <2>5, <2>6, <2>7 DEF BooksInv
<1>2. CASE Hang
  <2>1. /\ UNCHANGED <<state, pc, handling, inbox>> /\ up' = <<>> /\ broker'.hung
    BY <1>2 DEF Hang, client, SessionInv, TypeOK
  <2> QED
    BY <2>1 DEF BooksInv, PingsArePlain, WaitsInv, PingBooks, QoS1Books, Answering
<1>3. CASE Break
  BY <1>3 DEF Break, client, BooksInv, PingsArePlain, WaitsInv, PingBooks, QoS1Books, Answering
<1>4. CASE Tick
  BY <1>4
  DEF Tick, client, wire, BooksInv, PingsArePlain, WaitsInv, PingBooks, QoS1Books,
      PingsUnderWay, PlacesOf, Answering
<1> QED  BY <1>1, <1>2, <1>3, <1>4

\* Every step keeps the books.
LEMMA BooksStep == SessionInv /\ BooksInv /\ [Next]_vars => BooksInv'
<1> SUFFICES ASSUME SessionInv, BooksInv, [Next]_vars PROVE BooksInv'
  OBVIOUS
<1>1. CASE UNCHANGED vars
  BY <1>1
  DEF vars, client, wire, BooksInv, PingsArePlain, WaitsInv, PingBooks, QoS1Books,
      PingsUnderWay, PlacesOf, Answering
<1>2. CASE Loop
  <2>1. CASE LoopTimesOut
    BY <2>1, BooksClosed DEF LoopTimesOut
  <2>2. CASE LoopKilled
    BY <2>2, BooksClosed DEF LoopKilled
  <2> QED  BY <1>2, <2>1, <2>2, BooksLoopReads DEF Loop
<1> QED
  BY <1>1, <1>2, BooksConnect, BooksConnack, BooksCallback, BooksCall, BooksBroker,
     BooksWorld DEF Next

\* The books balance after any calls, losses and delays.
THEOREM BooksInvariant == Spec => []BooksInv
BY BooksInit, BooksStep, SessionInvariant, PTL DEF Spec

\* However calls, answers, losses and delays interleave, the flag says whether
\* a ping is under way, and never is a second one.
THEOREM PingsAreAccounted == Spec => []PingAccounted
<1>1. BooksInv => PingAccounted
  BY DEF BooksInv, WaitsInv, PingBooks, PingsUnderWay, PingAccounted, Answering, IsConnected
<1> QED  BY <1>1, BooksInvariant, PTL

\* A QoS 1 message the broker waits for is unread, in the callback or
\* acknowledged, and at one of these places only.
THEOREM QoS1IsAccounted == Spec => []QoS1Accounted
<1>1. BooksInv => QoS1Accounted
  BY DEF BooksInv, QoS1Books, PlacesOf, QoS1Accounted, Answering, IsConnected
<1> QED  BY <1>1, BooksInvariant, PTL

-----------------------------------------------------------------------------
(* Time: each step of the session is one of the timer's, or a stutter.     *)

\* What the mapping rests on.  The answer to a ping may be in the inbox of a
\* session whose broker has fallen silent since; connect() waits for
\* socketTimeout at most; a callback is one of a message.
TimingInv ==
    /\ link = "open" => Count(inbox, Plain("PINGRESP"))
                          <= IF pingOutstanding /\ pc # "connack" THEN 1 ELSE 0
    /\ pc = "connack" => sinceOut <= SocketTimeout /\ sinceOut = sinceIn
    /\ pc = "callback" => IsPublish(handling)

TimedInv == SessionInv /\ BooksInv /\ TimingInv

\* What the mapping rests on holds at first.
LEMMA TimingInit == Init => TimingInv
BY DEF Init, TimingInv

\* And every step keeps it.
LEMMA TimingStep == TimedInv /\ BooksInv' /\ [Next]_vars => TimingInv'
<1> SUFFICES ASSUME TimedInv, BooksInv', [Next]_vars PROVE TimingInv'
  OBVIOUS
<1> DEFINE Answers == Count(inbox, Plain("PINGRESP"))
           Limit == IF pingOutstanding /\ pc # "connack" THEN 1 ELSE 0
<1>1. Answers \in {0, 1, 2} /\ Answers' \in {0, 1, 2} /\ Count(up', Plain("PINGREQ")) \in {0, 1, 2}
      /\ Count(up, Plain("PINGREQ")) \in {0, 1, 2}
  BY CountRange
<1>2. /\ pc' = "connack" => sinceOut' <= SocketTimeout /\ sinceOut' = sinceIn'
      /\ pc' = "callback" => IsPublish(handling')
  <2>1. SocketTimeout \in Nat /\ (pc = "connack" => sinceOut <= SocketTimeout /\ sinceOut = sinceIn)
        /\ (pc = "callback" => IsPublish(handling)) /\ sinceIn \in Nat
    BY SessionAssumption DEF TimedInv, TimingInv, SessionInv, TypeOK
  <2>2. CASE Connect BY <2>1, <2>2 DEF Connect, ConnectFails, ConnectTooLong, ConnectStart
  <2>3. CASE Connack BY <2>3 DEF Connack, ConnackTimeout, ConnackAccepted, ConnackRefused
  <2>4. CASE Loop
    <3>1. CASE LoopReads
      <4>1. \/ pc' = "callback" /\ IsPublish(handling')
            \/ pc' = "idle"
        BY <3>1 DEF LoopReads
      <4> QED  BY <4>1
    <3> QED  BY <2>4, <3>1 DEF Loop, LoopTimesOut, LoopKilled
  <2>5. CASE CallbackReturns BY <2>5 DEF CallbackReturns
  <2>6. CASE Publish \/ Disconnect \/ Notice \/ Request("SUBSCRIBE") \/ Request("UNSUBSCRIBE")
    BY <2>1, <2>6 DEF Publish, Disconnect, Notice, NoticeLoss, Request, Calling, client
  <2>7. CASE BrokerReads \/ BrokerSends \/ Hang \/ Break \/ UNCHANGED vars
    <3>1. UNCHANGED <<client, clock>>
      BY <2>7 DEF BrokerReads, BrokerSends, Hang, Break, vars
    <3> QED  BY <2>1, <3>1 DEF client, clock
  <2>8. CASE Tick BY <2>1, <2>8 DEF Tick, client
  <2> QED  BY <2>2, <2>3, <2>4, <2>5, <2>6, <2>7, <2>8 DEF Next
<1>3. CASE Answering'
  BY <1>1, <1>2, <1>3 DEF BooksInv, PingBooks, PingsUnderWay, TimingInv, Answering
<1>4. ASSUME link' = "open", broker'.hung PROVE Answers' <= Limit'
  <2>1. TypeOK /\ (link = "open" => Answers <= Limit)
    BY DEF TimedInv, TimingInv, SessionInv
  <2>2. broker \in [accepted : BOOLEAN, unacked : SUBSET MsgIds, hung : BOOLEAN]
    BY <2>1 DEF TypeOK
  <2>3. CASE Connect
    <3>1. CASE ConnectStart
      <4>1. link # "open" => inbox' = <<>>
        BY <3>1 DEF ConnectStart
      <4>2. link # "open"
        BY <3>1 DEF ConnectStart, TimedInv, SessionInv, NoOrphanTransport, IsConnected
      <4> QED  BY <1>4, <3>1, <4>2 DEF ConnectStart, FreshBroker
    <3> QED  BY <1>4, <2>3, <3>1 DEF Connect, ConnectFails, ConnectTooLong, Stop
  <2>4. CASE Connack
    <3>1. CASE ConnackAccepted
      <4>1. /\ link = "open" /\ pc = "connack" /\ inbox' = Tail(inbox) /\ inbox # <<>>
            /\ Head(inbox) = Plain("CONNACK")
        BY <1>4, <3>1 DEF ConnackAccepted
      <4>2. Answers' = Answers
        BY <2>1, <4>1, ReadCount DEF Plain, Packet
      <4> QED  BY <1>1, <2>1, <4>1, <4>2
    <3> QED  BY <1>4, <2>4, <3>1 DEF Connack, ConnackTimeout, ConnackRefused, Stop
  <2>5. CASE Loop
    <3>1. CASE LoopReads
      <4> DEFINE packet == IF inbox = <<>> THEN NoPacket ELSE Head(inbox)
      <4>1. /\ pc = "idle" /\ IsConnected
            /\ inbox' = IF inbox = <<>> THEN <<>> ELSE Tail(inbox)
            /\ pingOutstanding' = (packet.type # "PINGRESP" /\ (pingOutstanding \/ Overdue))
            /\ pc' # "connack"
        BY <3>1 DEF LoopReads
      <4>2. CASE packet.type # "PINGRESP"
        <5>1. Answers' = Answers
          BY <2>1, <4>1, <4>2, ReadCount DEF Plain, Packet
        <5>2. Answers <= Limit /\ (pingOutstanding => pingOutstanding')
          BY <2>1, <4>1, <4>2 DEF IsConnected
        <5>3. Limit \in {0, 1} /\ (Limit = 1 => Limit' = 1) /\ Limit' \in {0, 1}
          BY <4>1, <5>2
        <5> QED  BY <1>1, <5>1, <5>2, <5>3
      <4>3. CASE packet.type = "PINGRESP"
        <5>1. inbox # <<>>
          BY <4>3 DEF NoPacket, Plain, Packet
        <5>2. packet = Head(inbox) /\ packet = inbox[1] /\ 1 \in DOMAIN inbox /\ inbox' = Tail(inbox)
          BY <2>1, <4>1, <5>1, ReadCount
        <5>3. packet = Plain("PINGRESP")
          BY <4>3, <5>2 DEF TimedInv, BooksInv, PingsArePlain
        <5>4. Answers = IF Answers' = 0 THEN 1 ELSE 2
          BY <2>1, <5>1, <5>2, <5>3, ReadCount
        <5> QED  BY <1>1, <2>1, <4>1, <5>4 DEF IsConnected
      <4> QED  BY <4>2, <4>3
    <3> QED  BY <1>4, <2>5, <3>1 DEF Loop, LoopTimesOut, LoopKilled, Stop
  <2>6. CASE CallbackReturns \/ Publish \/ Disconnect \/ Notice \/ Request("SUBSCRIBE") \/ Request("UNSUBSCRIBE")
    BY <1>4, <2>1, <2>6
    DEF CallbackReturns, Publish, Disconnect, Notice, NoticeLoss, Request, Stop, client, wire, Calling
  <2>7. CASE BrokerReads \/ BrokerSends
    BY <1>4, <2>2, <2>7 DEF BrokerReads, BrokerSends
  <2>8. CASE Hang \/ Tick \/ UNCHANGED vars
    BY <1>4, <2>1, <2>8 DEF Hang, Tick, vars, client, wire
  <2>9. CASE Break
    BY <1>4, <2>9 DEF Break
  <2> QED  BY <2>3, <2>4, <2>5, <2>6, <2>7, <2>8, <2>9 DEF Next
<1> QED  BY <1>1, <1>2, <1>3, <1>4 DEF TimingInv, Answering

\* Where the answer to a ping is in a sequence of packets that has one.
AnswerIn(s) == \E i \in DOMAIN s : s[i] = Plain("PINGRESP")
Where(s) == CHOOSE i \in DOMAIN s : s[i] = Plain("PINGRESP")

\* Where an answer is said to be, there is one.
LEMMA WhereIs ==
    ASSUME NEW s \in Seq(DownPacket), AnswerIn(s)
    PROVE  Where(s) \in 1 .. Len(s) /\ s[Where(s)] = Plain("PINGRESP")
BY DEF AnswerIn, Where

\* An answer is there when the count of answers is not 0.
LEMMA CountAnswers ==
    ASSUME NEW s PROVE AnswerIn(s) <=> Count(s, Plain("PINGRESP")) # 0
BY DEF AnswerIn, Count

\* A packet read in front of the answer brings the answer one place nearer.
LEMMA AnswerBehind ==
    ASSUME NEW s \in Seq(DownPacket), s # <<>>, Head(s) # Plain("PINGRESP"),
           Count(s, Plain("PINGRESP")) # 2
    PROVE  /\ AnswerIn(Tail(s)) <=> AnswerIn(s)
           /\ AnswerIn(s) => Where(s) > 1 /\ Where(Tail(s)) = Where(s) - 1
<1>1. Count(Tail(s), Plain("PINGRESP")) = Count(s, Plain("PINGRESP"))
  BY CountTail
<1>2. AnswerIn(Tail(s)) <=> AnswerIn(s)
  BY <1>1, CountAnswers
<1>3. ASSUME AnswerIn(s) PROVE Where(s) > 1 /\ Where(Tail(s)) = Where(s) - 1
  <2>1. Where(s) \in 1 .. Len(s) /\ s[Where(s)] = Plain("PINGRESP")
    BY <1>3, WhereIs
  <2>2. Where(s) # 1
    BY <2>1
  <2> DEFINE k == Where(s) - 1
             t == Tail(s)
  <2>3. k \in DOMAIN t /\ t[k] = Plain("PINGRESP")
    BY <2>1, <2>2
  <2>4. Count(t, Plain("PINGRESP")) # 2
    BY <1>1
  <2> HIDE DEF k, t
  <2>5. Where(t) = k
    BY <2>3, <2>4, Chosen DEF Where
  <2> QED  BY <2>1, <2>2, <2>5 DEF k, t
<1> QED  BY <1>2, <1>3

\* The answer read, there is none left.
LEMMA AnswerFirst ==
    ASSUME NEW s \in Seq(DownPacket), s # <<>>, Head(s) = Plain("PINGRESP"),
           Count(s, Plain("PINGRESP")) # 2
    PROVE  AnswerIn(s) /\ Where(s) = 1 /\ ~AnswerIn(Tail(s))
<1>1. Count(s, Plain("PINGRESP")) = IF Count(Tail(s), Plain("PINGRESP")) = 0 THEN 1 ELSE 2
  BY CountTail
<1>2. AnswerIn(s) /\ ~AnswerIn(Tail(s))
  BY <1>1, CountAnswers
<1>3. 1 \in DOMAIN s /\ s[1] = Plain("PINGRESP")
  OBVIOUS
<1>4. Where(s) = 1
  BY <1>3, Chosen DEF Where
<1> QED  BY <1>2, <1>4

\* A packet that arrives after the answer leaves it where it is.
LEMMA AnswerBefore ==
    ASSUME NEW s \in Seq(DownPacket), NEW e \in DownPacket, e # Plain("PINGRESP"),
           Count(s, Plain("PINGRESP")) # 2
    PROVE  /\ AnswerIn(Append(s, e)) <=> AnswerIn(s)
           /\ AnswerIn(s) => Where(Append(s, e)) = Where(s)
<1> DEFINE t == Append(s, e)
<1>1. Count(t, Plain("PINGRESP")) = Count(s, Plain("PINGRESP"))
  BY CountAppend
<1>2. AnswerIn(t) <=> AnswerIn(s)
  BY <1>1, CountAnswers
<1>3. ASSUME AnswerIn(s) PROVE Where(t) = Where(s)
  <2>1. Where(s) \in 1 .. Len(s) /\ s[Where(s)] = Plain("PINGRESP")
    BY <1>3, WhereIs
  <2> DEFINE k == Where(s)
  <2>2. k \in DOMAIN t /\ t[k] = Plain("PINGRESP")
    BY <2>1
  <2> HIDE DEF k, t
  <2>3. Where(t) = k
    BY <1>1, <2>2, Chosen DEF Where
  <2> QED  BY <2>3 DEF k
<1> QED  BY <1>2, <1>3

\* An answer that arrives is behind everything that arrived before.
LEMMA AnswerLast ==
    ASSUME NEW s \in Seq(DownPacket), ~AnswerIn(s)
    PROVE  LET t == Append(s, Plain("PINGRESP")) IN AnswerIn(t) /\ Where(t) = Len(s) + 1
<1> DEFINE t == Append(s, Plain("PINGRESP"))
           k == Len(s) + 1
<1>0. Plain("PINGRESP") \in DownPacket
  BY PlainTypes DEF DownTypes
<1>1. Count(s, Plain("PINGRESP")) = 0
  BY CountAnswers
<1>2. Count(t, Plain("PINGRESP")) = 1
  BY <1>0, <1>1, CountAppend
<1>3. k \in DOMAIN t /\ t[k] = Plain("PINGRESP")
  OBVIOUS
<1> HIDE DEF k, t
<1>4. AnswerIn(t) /\ Where(t) = k
  BY <1>2, <1>3, Chosen, CountAnswers DEF Where
<1> QED  BY <1>4 DEF k, t

\* The session's first state is the timer's.
LEMMA TimerInit == Init => Timer!Init
BY DEF Init, Timer!Init, IsConnected, WhileUp

\* Nothing the timer can see happens between sessions.
LEMMA TimerDown ==
    ASSUME ~IsConnected, ~IsConnected', UNCHANGED pingOutstanding
    PROVE  UNCHANGED Timer!vars
BY DEF Timer!vars, Timer!ages, WhileUp

\* The end of a session is one of its own, or the one loop() was about to find.
LEMMA TimerEnds ==
    ASSUME TimedInv, IsConnected, ~IsConnected', UNCHANGED pingOutstanding
    PROVE  Timer!Next
BY DEF TimedInv, SessionInv, TypeOK, Timer!Next, Timer!Ends, Timer!TimesOut,
       Timer!GivesUp, Timer!Down, Timer!Overdue, WhileUp

\* connect() is nothing the timer can see, until it is accepted: the timer's Connect.
LEMMA TimerConnect ==
    ASSUME TimedInv, Connect \/ Connack PROVE [Timer!Next]_Timer!vars
<1>0. SocketTimeout \in Nat /\ TypeOK
  BY SessionAssumption DEF TimedInv, SessionInv
<1>1. CASE Connect
  <2>1. ~IsConnected /\ ~IsConnected' /\ UNCHANGED pingOutstanding
    BY <1>1 DEF Connect, ConnectFails, ConnectTooLong, ConnectStart, Stop, IsConnected, NoticedState
  <2> QED  BY <2>1, TimerDown
<1>2. CASE ConnackTimeout \/ ConnackRefused
  <2>1. ~IsConnected /\ ~IsConnected' /\ UNCHANGED pingOutstanding
    BY <1>2 DEF ConnackTimeout, ConnackRefused, Stop, IsConnected, TimedInv, BooksInv, WaitsInv
  <2> QED  BY <2>1, TimerDown
<1>3. CASE ConnackAccepted
  <2>1. /\ pc = "connack" /\ state' = "CONNECTED" /\ pingOutstanding' = FALSE
        /\ sinceIn' = 0 /\ sinceLoop' = 0 /\ UNCHANGED <<sinceOut, link, handling>>
    BY <1>3 DEF ConnackAccepted
  <2>2. ~IsConnected /\ handling.type = "NONE" /\ sinceOut \in 0 .. SocketTimeout
    BY <1>0, <2>1
    DEF TimedInv, BooksInv, WaitsInv, TimingInv, TypeOK, IsConnected, NoPacket, Plain, Packet
  <2>3. Timer!Connect
    BY <2>1, <2>2 DEF Timer!Connect, IsConnected, WhileUp
  <2> QED  BY <2>3 DEF Timer!Next
<1> QED  BY <1>1, <1>2, <1>3 DEF Connack

\* A call that writes is the timer's Writes, a return its CallbackReturns, an end its
\* Ends; what is left it cannot see.
LEMMA TimerCall ==
    ASSUME TimedInv,
           \/ CallbackReturns \/ Publish \/ Disconnect \/ Notice
           \/ Request("SUBSCRIBE") \/ Request("UNSUBSCRIBE")
    PROVE  [Timer!Next]_Timer!vars
<1>1. CASE CallbackReturns
  <2>1. /\ handling' = NoPacket /\ pc = "callback"
        /\ UNCHANGED <<state, pingOutstanding, sinceIn, sinceLoop, link, inbox>>
        /\ sinceOut' = IF handling.type = "PUBLISH1" THEN sinceLoop ELSE sinceOut
    BY <1>1 DEF CallbackReturns
  <2>2. CASE IsConnected
    <3>1. handling.type \in {"PUBLISH0", "PUBLISH1"} /\ handling'.type = "NONE"
      BY <2>1 DEF TimedInv, TimingInv, IsPublish, NoPacket, Plain, Packet
    <3>2. Timer!CallbackReturns
      BY <2>1, <2>2, <3>1
      DEF Timer!CallbackReturns, IsConnected, WhileUp, AnswerReceived, BeforeAnswer, AnswerAt
    <3> QED  BY <3>2 DEF Timer!Next
  <2>3. CASE ~IsConnected
    BY <2>1, <2>3, TimerDown DEF IsConnected
  <2> QED  BY <2>2, <2>3
<1>2. CASE Publish \/ Request("SUBSCRIBE") \/ Request("UNSUBSCRIBE")
  <2>1. /\ IsConnected /\ sinceOut' = 0
        /\ UNCHANGED <<state, pingOutstanding, handling, sinceIn, sinceLoop, link, inbox>>
    BY <1>2 DEF Publish, Request, client
  <2>2. Timer!Writes
    BY <2>1 DEF Timer!Writes, IsConnected, WhileUp, AnswerReceived, BeforeAnswer, AnswerAt
  <2> QED  BY <2>2 DEF Timer!Next
<1>3. CASE Disconnect \/ Notice
  <2>1. ~IsConnected' /\ UNCHANGED pingOutstanding
    BY <1>3 DEF Disconnect, Notice, NoticeLoss, NoticedState, Stop, IsConnected, wire
  <2> QED  BY <2>1, TimerDown, TimerEnds
<1> QED  BY <1>1, <1>2, <1>3

\* Steps that leave the session as it is, and of the inbox at least what is
\* before and at the answer.
LEMMA TimerBlind ==
    ASSUME UNCHANGED <<client, clock, link>>,
           AnswerIn(inbox') <=> AnswerIn(inbox),
           AnswerIn(inbox) => Where(inbox') = Where(inbox)
    PROVE  UNCHANGED Timer!vars
<1>1. /\ AnswerReceived' <=> AnswerReceived
      /\ AnswerReceived => BeforeAnswer' = BeforeAnswer
  BY DEF AnswerReceived, BeforeAnswer, AnswerAt, AnswerIn, Where
<1>2. IsConnected' <=> IsConnected
  BY DEF IsConnected, client
<1> QED  BY <1>1, <1>2 DEF Timer!vars, Timer!ages, WhileUp, client, clock

\* loop() is the timer's TimesOut, Ends, LoopReadsAnswer or LoopReadsOther.
LEMMA TimerLoop ==
    ASSUME TimedInv, Loop, TimingInv', BooksInv' PROVE [Timer!Next]_Timer!vars
<1>0. /\ TypeOK /\ inbox \in Seq(DownPacket)
      /\ sinceIn \in Nat /\ sinceOut \in Nat /\ sinceLoop \in Nat /\ KeepAlive \in Nat
      /\ pingOutstanding \in BOOLEAN
  BY SessionAssumption DEF TimedInv, SessionInv, TypeOK, DownPacket
<1>1. pc = "idle" /\ IsConnected /\ handling.type = "NONE"
  <2>1. pc = "idle" /\ IsConnected BY DEF Loop, LoopTimesOut, LoopKilled, LoopReads
  <2> QED  BY <2>1 DEF TimedInv, BooksInv, WaitsInv, NoPacket, Plain, Packet
<1>2. CASE LoopTimesOut
  <2>1. ~IsConnected' /\ UNCHANGED pingOutstanding
    BY <1>2 DEF LoopTimesOut, Stop, IsConnected
  <2> QED  BY <1>1, <2>1, TimerEnds
<1>3. CASE LoopKilled
  <2>1. /\ ~IsConnected' /\ pingOutstanding' = (pingOutstanding \/ Overdue)
        /\ ~(Overdue /\ pingOutstanding)
    BY <1>3 DEF LoopKilled, Stop, IsConnected
  <2>2. Timer!Ends
    BY <1>1, <2>1 DEF Timer!Ends, Timer!GivesUp, Timer!Down, Timer!Overdue, Overdue, WhileUp
  <2> QED  BY <2>2 DEF Timer!Next
<1>4. CASE LoopReads
  <2> DEFINE packet == IF inbox = <<>> THEN NoPacket ELSE Head(inbox)
             kept == inbox # <<>> /\ packet.type # "OVERSIZE"
             callback == CASE packet.type = "PUBLISH0" -> "qos0"
                           [] packet.type = "PUBLISH1" -> "qos1" [] OTHER -> "no"
             answer == Plain("PINGRESP")
  <2>1. /\ ~(Overdue /\ pingOutstanding)
        /\ inbox' = IF inbox = <<>> THEN <<>> ELSE Tail(inbox)
        /\ sinceIn' = IF Overdue \/ kept THEN 0 ELSE sinceIn
        /\ sinceOut' = IF Overdue THEN 0 ELSE sinceOut
        /\ sinceLoop' = 0
        /\ pingOutstanding' = (packet.type # "PINGRESP" /\ (pingOutstanding \/ Overdue))
        /\ IF IsPublish(packet) THEN handling' = packet ELSE UNCHANGED handling
        /\ UNCHANGED <<state, link>>
    BY <1>4 DEF LoopReads
  <2>2. /\ IsConnected' /\ ~Timer!GivesUp
    BY <1>1, <2>1 DEF IsConnected, Timer!GivesUp, Timer!Overdue, Overdue, WhileUp
  <2>3. Timer!Overdue <=> Overdue
    BY <1>1 DEF Timer!Overdue, Overdue, WhileUp
  <2>4. /\ Count(inbox, answer) <= IF pingOutstanding THEN 1 ELSE 0
        /\ Count(inbox, answer) \in {0, 1, 2}
    BY <1>1, CountRange DEF TimedInv, TimingInv, IsConnected
  <2>5. Count(inbox, answer) # 2 /\ (AnswerIn(inbox) => pingOutstanding)
    BY <2>4, CountAnswers
  <2>6. (packet.type = "PUBLISH0" \/ packet.type = "PUBLISH1") => inbox # <<>>
    BY DEF NoPacket, Plain, Packet
  <2>7. CASE handling'.type = "NONE" /\ packet.type = "PINGRESP"
    <3>1. inbox # <<>> /\ Head(inbox) = answer
      <4>1. inbox # <<>> BY <2>7 DEF NoPacket, Plain, Packet
      <4>2. Head(inbox).type = "PINGRESP" /\ Head(inbox) = inbox[1] /\ 1 \in DOMAIN inbox
        BY <1>0, <2>7, <4>1
      <4> QED  BY <4>1, <4>2 DEF TimedInv, BooksInv, PingsArePlain
    <3>2. AnswerIn(inbox) /\ Where(inbox) = 1 /\ ~AnswerIn(inbox') /\ kept
      BY <1>0, <2>1, <2>5, <2>7, <3>1, AnswerFirst
    <3>3. /\ AnswerReceived <=> AnswerIn(inbox)
          /\ BeforeAnswer = Where(inbox) - 1
      BY DEF AnswerReceived, BeforeAnswer, AnswerAt, AnswerIn, Where
    <3>4. AnswerReceived /\ BeforeAnswer = 0 /\ pingOutstanding /\ ~pingOutstanding'
      <4>1. AnswerReceived /\ BeforeAnswer = 0 BY <3>2, <3>3
      <4>2. pingOutstanding BY <2>5, <3>2
      <4>3. ~pingOutstanding' BY <2>1, <2>7
      <4> QED  BY <4>1, <4>2, <4>3
    <3> HIDE DEF packet, kept
    <3>5. Timer!LoopReadsAnswer
      BY <1>1, <2>1, <2>2, <2>3, <2>7, <3>2, <3>4
      DEF Timer!LoopReadsAnswer, Timer!Loop, WhileUp
    <3> QED  BY <3>5 DEF Timer!Next
  <2>8. CASE packet.type # "PINGRESP"
    <3>1. pingOutstanding' = (pingOutstanding \/ Overdue)
      BY <2>1, <2>8
    <3>2. /\ AnswerIn(inbox') <=> AnswerIn(inbox)
          /\ AnswerIn(inbox) => /\ Where(inbox) > 1 /\ Where(inbox') = Where(inbox) - 1
                                /\ Where(inbox) \in Nat
      <4>1. CASE inbox = <<>> BY <2>1, <4>1 DEF AnswerIn
      <4>2. CASE inbox # <<>>
        <5>1. Head(inbox) # answer BY <2>8, <4>2 DEF Plain, Packet
        <5> QED  BY <1>0, <2>1, <2>5, <4>2, <5>1, AnswerBehind, WhereIs
      <4> QED  BY <4>1, <4>2
    <3>3. /\ AnswerReceived <=> AnswerIn(inbox)
          /\ AnswerReceived' <=> AnswerIn(inbox')
          /\ BeforeAnswer = Where(inbox) - 1
          /\ BeforeAnswer' = Where(inbox') - 1
      BY DEF AnswerReceived, BeforeAnswer, AnswerAt, AnswerIn, Where
    <3>4. callback = CASE handling'.type = "PUBLISH0" -> "qos0"
                       [] handling'.type = "PUBLISH1" -> "qos1" [] OTHER -> "no"
      BY <1>1, <2>1 DEF IsPublish
    <3>5. kept \in BOOLEAN /\ callback \in {"no", "qos0", "qos1"} /\ (callback # "no" => kept)
      BY <2>6
    <3> HIDE DEF packet, kept, callback
    <3>6. Timer!Loop(kept, callback)
      BY <1>1, <2>1, <2>2, <2>3, <3>4 DEF Timer!Loop, WhileUp
    <3>7. Timer!LoopReadsOther
      <4>1. CASE Overdue
        <5>1. ~pingOutstanding /\ pingOutstanding' /\ ~AnswerReceived'
          BY <2>1, <2>5, <3>1, <3>2, <3>3, <4>1
        <5> QED
          BY <1>1, <2>2, <2>3, <3>5, <3>6, <4>1, <5>1 DEF Timer!LoopReadsOther
      <4>2. CASE ~Overdue
        <5>1. pingOutstanding' <=> pingOutstanding
          BY <3>1, <4>2
        <5>2. CASE pingOutstanding /\ AnswerReceived
          <6>1. AnswerReceived' /\ BeforeAnswer > 0 /\ BeforeAnswer' = BeforeAnswer - 1
            BY <3>2, <3>3, <5>2
          <6> QED
            BY <1>1, <2>2, <2>3, <3>1, <3>5, <3>6, <4>2, <5>1, <5>2, <6>1 DEF Timer!LoopReadsOther
        <5>3. CASE ~(pingOutstanding /\ AnswerReceived)
          <6>1. ~(pingOutstanding' /\ AnswerReceived') /\ (AnswerReceived' <=> AnswerReceived)
            BY <3>2, <3>3, <5>1, <5>3
          <6> QED
            BY <1>0, <1>1, <2>2, <2>3, <3>1, <3>5, <3>6, <4>2, <5>1, <5>3, <6>1
               DEF Timer!LoopReadsOther
        <5> QED  BY <5>2, <5>3
      <4> QED  BY <4>1, <4>2
    <3> QED  BY <3>7 DEF Timer!Next
  <2>9. packet.type = "PINGRESP" => handling'.type = "NONE"
    BY <1>1, <2>1 DEF IsPublish
  <2> QED  BY <2>7, <2>8, <2>9
<1> QED  BY <1>2, <1>3, <1>4 DEF Loop

\* The broker's answer is the timer's Answered, time its Tick, a break or a silence
\* Ends or nothing it can see.
LEMMA TimerWorld ==
    ASSUME TimedInv, BrokerReads \/ BrokerSends \/ Hang \/ Break \/ Tick
    PROVE  [Timer!Next]_Timer!vars
<1>0. /\ TypeOK /\ inbox \in Seq(DownPacket)
      /\ link = "open" => Count(inbox, Plain("PINGRESP")) # 2
  BY DEF TimedInv, SessionInv, TypeOK, TimingInv, DownPacket
<1>1. ASSUME link = "open", UNCHANGED <<client, clock, link>>,
             \/ inbox' = inbox
             \/ \E e \in DownPacket : e.type # "PINGRESP" /\ inbox' = Append(inbox, e)
      PROVE  UNCHANGED Timer!vars
  <2>1. CASE inbox' = inbox
    BY <1>1, <2>1, TimerBlind
  <2>2. CASE \E e \in DownPacket : e.type # "PINGRESP" /\ inbox' = Append(inbox, e)
    <3>1. PICK e \in DownPacket : e.type # "PINGRESP" /\ inbox' = Append(inbox, e)
      BY <2>2
    <3>2. e # Plain("PINGRESP") BY <3>1 DEF Plain, Packet
    <3>3. /\ AnswerIn(inbox') <=> AnswerIn(inbox)
          /\ AnswerIn(inbox) => Where(inbox') = Where(inbox)
      BY <1>0, <1>1, <3>1, <3>2, AnswerBefore
    <3> QED  BY <1>1, <3>3, TimerBlind
  <2> QED  BY <1>1, <2>1, <2>2
<1>2. CASE BrokerReads
  <2> DEFINE packet == Head(up)
  <2>1. /\ link = "open" /\ ~broker.hung /\ UNCHANGED <<client, clock, link>>
        /\ up # <<>> /\ packet \in UpPacket /\ packet = up[1] /\ 1 \in DOMAIN up
    <3>1. link = "open" /\ ~broker.hung /\ UNCHANGED <<client, clock, link>> /\ up # <<>>
      BY <1>2 DEF BrokerReads
    <3>2. up \in Seq(UpPacket)
      BY <1>0 DEF TypeOK, UpPacket
    <3> QED  BY <3>1, <3>2
  <2>2. CASE packet.type = "PINGREQ"
    <3>1. inbox' = Append(inbox, Plain("PINGRESP")) /\ Len(inbox) < MaxIn
      BY <1>2, <2>2 DEF BrokerReads, InboxRoom
    <3>2. packet = Plain("PINGREQ")
      BY <2>1, <2>2 DEF TimedInv, BooksInv, PingsArePlain
    <3>3. Count(up, Plain("PINGREQ")) # 0
      BY <2>1, <3>2 DEF Count
    <3>4. /\ PingsUnderWay = IF pingOutstanding /\ pc # "connack" THEN 1 ELSE 0
          /\ Count(up, Plain("PINGREQ")) \in {0, 1, 2} /\ Count(inbox, Plain("PINGRESP")) \in {0, 1, 2}
      BY <2>1, CountRange DEF TimedInv, BooksInv, PingBooks, Answering
    <3>5. pingOutstanding /\ pc # "connack" /\ Count(inbox, Plain("PINGRESP")) = 0
      BY <3>3, <3>4 DEF PingsUnderWay
    <3>6. ~AnswerIn(inbox)
      BY <3>5, CountAnswers
    <3>7. AnswerIn(inbox') /\ Where(inbox') = Len(inbox) + 1
      BY <1>0, <3>1, <3>6, AnswerLast
    <3>8. ~AnswerReceived /\ AnswerReceived' /\ BeforeAnswer' \in 0 .. MaxIn - 1
      <4>1. /\ AnswerReceived <=> AnswerIn(inbox)
            /\ AnswerReceived' <=> AnswerIn(inbox')
            /\ BeforeAnswer' = Where(inbox') - 1
        BY DEF AnswerReceived, BeforeAnswer, AnswerAt, AnswerIn, Where
      <4>2. Len(inbox) \in Nat /\ MaxIn \in Nat BY <1>0, SessionAssumption
      <4> QED  BY <3>1, <3>6, <3>7, <4>1, <4>2
    <3>9. IsConnected
      BY <2>1, <3>5 DEF TimedInv, SessionInv, NoOrphanTransport, IsConnected
    <3>10. Timer!Answered
      BY <2>1, <3>5, <3>8, <3>9 DEF Timer!Answered, Timer!ages, WhileUp, IsConnected, client, clock
    <3> QED  BY <3>10 DEF Timer!Next
  <2>3. CASE packet.type # "PINGREQ"
    <3>1. packet.id \in Ids /\ 5 \in Ids BY <2>1 DEF UpPacket, Ids
    <3>2. /\ Packet("CONNACK", 5) \in DownPacket /\ Plain("MALFORMED") \in DownPacket
          /\ Plain("CONNACK") \in DownPacket
          /\ Packet("SUBACK", packet.id) \in DownPacket /\ Packet("UNSUBACK", packet.id) \in DownPacket
      BY <3>1, PlainTypes DEF DownTypes
    <3>3. /\ Packet("CONNACK", 5).type = "CONNACK" /\ Plain("MALFORMED").type = "MALFORMED"
          /\ Plain("CONNACK").type = "CONNACK"
          /\ Packet("SUBACK", packet.id).type = "SUBACK" /\ Packet("UNSUBACK", packet.id).type = "UNSUBACK"
      BY DEF Plain, Packet
    <3>4. \/ inbox' = inbox
          \/ inbox' = Append(inbox, Plain("CONNACK")) \/ inbox' = Append(inbox, Packet("CONNACK", 5))
          \/ inbox' = Append(inbox, Plain("MALFORMED"))
          \/ inbox' = Append(inbox, Packet("SUBACK", packet.id))
          \/ inbox' = Append(inbox, Packet("UNSUBACK", packet.id))
      BY <1>2, <2>3 DEF BrokerReads
    <3> QED  BY <1>1, <2>1, <3>2, <3>3, <3>4
  <2> QED  BY <2>2, <2>3
<1>3. CASE BrokerSends
  <2>1. link = "open" /\ UNCHANGED <<client, clock, link>>
    BY <1>3 DEF BrokerSends
  <2>2. \E e \in DownPacket : e.type # "PINGRESP" /\ inbox' = Append(inbox, e)
    <3>1. CASE \E type \in {"PUBLISH0", "OVERSIZE", "PINGREQ", "MALFORMED"} : inbox' = Append(inbox, Plain(type))
      <4>1. PICK type \in {"PUBLISH0", "OVERSIZE", "PINGREQ", "MALFORMED"} : inbox' = Append(inbox, Plain(type))
        BY <3>1
      <4>2. Plain(type) \in DownPacket /\ Plain(type).type = type
        BY PlainTypes DEF DownTypes, Plain, Packet
      <4> QED  BY <4>1, <4>2
    <3>2. CASE \E id \in MsgIds : inbox' = Append(inbox, Packet("PUBLISH1", id))
      <4>1. PICK id \in MsgIds : inbox' = Append(inbox, Packet("PUBLISH1", id))
        BY <3>2
      <4>2. Packet("PUBLISH1", id) \in DownPacket /\ Packet("PUBLISH1", id).type = "PUBLISH1"
        BY PlainTypes DEF DownTypes, Ids, Packet
      <4> QED  BY <4>1, <4>2
    <3> QED  BY <1>3, <3>1, <3>2 DEF BrokerSends
  <2> QED  BY <1>1, <2>1, <2>2
<1>4. CASE Hang
  BY <1>1, <1>4 DEF Hang
<1>5. CASE Break
  <2>1. ~IsConnected' /\ UNCHANGED pingOutstanding
    BY <1>5 DEF Break, IsConnected, client
  <2> QED  BY <2>1, TimerDown, TimerEnds
<1>6. CASE Tick
  <2>1. /\ UNCHANGED <<client, wire>> /\ sinceIn' = sinceIn + 1 /\ sinceOut' = sinceOut + 1
        /\ IsConnected => sinceLoop < LoopGap /\ sinceLoop' = sinceLoop + 1
    BY <1>6 DEF Tick, IsConnected, TimedInv, BooksInv, WaitsInv
  <2>2. CASE IsConnected
    <3>1. Timer!Tick
      BY <2>1, <2>2
      DEF Timer!Tick, IsConnected, WhileUp, AnswerReceived, BeforeAnswer, AnswerAt, client, wire
    <3> QED  BY <3>1 DEF Timer!Next
  <2>3. CASE ~IsConnected
    BY <2>1, <2>3, TimerDown DEF IsConnected, client, wire
  <2> QED  BY <2>2, <2>3
<1> QED  BY <1>2, <1>3, <1>4, <1>5, <1>6

\* Every step of the session is one of the timer's, or a stutter.
LEMMA TimerStep == TimedInv /\ TimedInv' /\ [Next]_vars => [Timer!Next]_Timer!vars
<1> SUFFICES ASSUME TimedInv, TimedInv', [Next]_vars PROVE [Timer!Next]_Timer!vars
  OBVIOUS
<1>1. CASE UNCHANGED vars
  BY <1>1, TimerBlind DEF vars, wire
<1>2. CASE Loop
  BY <1>2, TimerLoop DEF TimedInv
<1> QED  BY <1>1, <1>2, TimerConnect, TimerCall, TimerWorld DEF Next

\* Every behaviour of a session is one of the timer: the promises proved of
\* KeepAliveTimer's clocks are the session's.
THEOREM SessionImplementsTimer == Spec => ImplementsTimer
<1>1. Spec => []TimedInv
  <2>1. Init => TimedInv
    BY SessionInit, BooksInit, TimingInit DEF TimedInv
  <2>2. TimedInv /\ [Next]_vars => TimedInv'
    BY SessionStep, BooksStep, TimingStep DEF TimedInv
  <2> QED  BY <2>1, <2>2, PTL DEF Spec
<1> QED  BY <1>1, TimerInit, TimerStep, PTL DEF Spec, ImplementsTimer, Timer!Spec

(***************************************************************************)
(* The AWS bridge: the same, for any timing, queue bounds and number of    *)
(* faults.                                                                 *)
(***************************************************************************)

\* The library waits only where the sketch waits for it.
WaitsForCall ==
    /\ pc \in {"idle", "connack", "callback"}
    /\ pc = "connack" => at = "connecting"
    /\ pc = "callback" => at = "callback"

\* The library waits for nothing when the sketch starts.
LEMMA WaitsInit == BridgeInit => WaitsForCall
BY DEF BridgeInit, Init, WaitsForCall

\* The library waits only inside the call the sketch has made.
LEMMA WaitsStep ==
    WaitsForCall /\ [BridgeNext]_bridgeVars => WaitsForCall'
<1> SUFFICES ASSUME WaitsForCall, [BridgeNext]_bridgeVars PROVE WaitsForCall'
  OBVIOUS
<1> USE DEF WaitsForCall, Goto
<1>1. CASE UNCHANGED <<pc, at>>
  BY <1>1
<1>2. CASE UNCHANGED bridgeVars
  BY <1>2, <1>1 DEF bridgeVars, vars, client
<1>3. CASE Sketch
  <2>1. CASE UNCHANGED pc /\ at \notin {"connecting", "callback"}
    BY <2>1
  <2>2. CASE JoinWiFi \/ WhileConnected \/ DelayPasses \/ SerialIdle
    BY <2>1, <2>2
    DEF JoinWiFi, WhileConnected, DelayPasses, SerialIdle, Connected, vars, client
  <2>3. CASE WhileNotConnected \/ CallSubscribe \/ Check \/ SerialPublish
    BY <2>1, <2>3
    DEF WhileNotConnected, CallSubscribe, Check, SerialPublish, Connected,
        NotConnected, NoticeLoss, Request, Publish, vars, client
  <2>4. CASE CallConnect
    BY <2>4 DEF CallConnect, ConnectFails, ConnectStart
  <2>5. CASE ConnectReturnsTrue \/ ConnectReturnsFalse
    BY <2>5
    DEF ConnectReturnsTrue, ConnectReturnsFalse, ConnackAccepted,
        ConnackTimeout, ConnackRefused
  <2>6. CASE CallLoop
    <3>1. pc' \in {"idle", "callback"}
      BY <2>6
      DEF CallLoop, NotConnected, NoticeLoss, Loop, LoopTimesOut, LoopKilled,
          LoopReads
    <3> QED  BY <2>6, <3>1 DEF CallLoop
  <2>7. CASE Callback
    BY <2>7 DEF Callback, CallbackReturns
  <2> QED
    BY <1>3, <2>2, <2>3, <2>4, <2>5, <2>6, <2>7 DEF Sketch
<1>4. CASE BrokerAnswers \/ BrokerPublishes \/ NetworkFails \/ TimePasses
  BY <1>1, <1>4
  DEF BrokerAnswers, BrokerPublishes, NetworkFails, TimePasses, BrokerReads,
      BrokerSends, Hang, Break, Tick, client
<1> QED
  BY <1>2, <1>3, <1>4 DEF BridgeNext

\* Every step of the bridge is a step of the session, or leaves it alone.
LEMMA BridgeSteps ==
    WaitsForCall /\ [BridgeNext]_bridgeVars => [Next]_vars
<1> SUFFICES ASSUME WaitsForCall, [BridgeNext]_bridgeVars PROVE [Next]_vars
  OBVIOUS
<1>1. CASE UNCHANGED bridgeVars
  BY <1>1 DEF bridgeVars
<1>2. CASE NotConnected /\ at \notin {"connecting", "callback"}
  BY <1>2 DEF NotConnected, WaitsForCall, Next, Notice, Calling
<1>3. CASE Sketch
  <2> USE DEF Goto
  <2>1. CASE JoinWiFi \/ WhileConnected \/ DelayPasses \/ SerialIdle
    BY <2>1 DEF JoinWiFi, WhileConnected, DelayPasses, SerialIdle, Connected
  <2>2. CASE WhileNotConnected \/ CallSubscribe \/ Check \/ SerialPublish
    BY <1>2, <2>2
    DEF WhileNotConnected, CallSubscribe, Check, SerialPublish, Connected, Next
  <2>3. CASE CallConnect \/ ConnectReturnsTrue \/ ConnectReturnsFalse
    BY <2>3
    DEF CallConnect, ConnectReturnsTrue, ConnectReturnsFalse, Next, Connect, Connack
  <2>4. CASE CallLoop \/ Callback
    BY <1>2, <2>4 DEF CallLoop, Callback, Next
  <2> QED
    BY <1>3, <2>1, <2>2, <2>3, <2>4 DEF Sketch
<1>4. CASE BrokerAnswers \/ BrokerPublishes \/ NetworkFails \/ TimePasses
  BY <1>4 DEF BrokerAnswers, BrokerPublishes, NetworkFails, TimePasses, Next
<1> QED
  BY <1>1, <1>3, <1>4 DEF BridgeNext

\* The sketch makes no call, in no state, that PubSubClient does not allow for:
\* whatever is proved of a session holds of the sketch's.
THEOREM BridgeUsesSession == BridgeSpec => Spec
<1>1. BridgeInit => Init
  BY DEF BridgeInit
<1> QED
  BY <1>1, WaitsInit, WaitsStep, BridgeSteps, PTL DEF BridgeSpec, Spec

-----------------------------------------------------------------------------

Serving == {"while", "check", "loop", "callback", "serial"}

\* connectAWS() waits and calls connect() only without a connection.
ApartUnlessServing == at \in {"wifi", "connect", "delay"} => ~IsConnected

\* ServesSubscribed, and the same at the test that ends connectAWS().
Served ==
    at \in Serving /\ IsConnected /\ ~broker.hung => subscribed \/ Subscribing

BridgeInv == ApartUnlessServing /\ Served

\* A step after which there is no connection.
LEMMA LostStep == ~IsConnected' => BridgeInv'
BY DEF BridgeInv, ApartUnlessServing, Served

\* The paths that end without a connection.
LEMMA LosingActions ==
    ASSUME SessionInv,
           \/ NotConnected \/ ConnectFails \/ ConnackTimeout \/ ConnackRefused
           \/ ConnectStart \/ LoopTimesOut \/ LoopKilled \/ Break
    PROVE  ~IsConnected'
BY DEF NotConnected, NoticeLoss, NoticedState, ConnectFails, ConnackTimeout,
       ConnackRefused, ConnectStart, LoopTimesOut, LoopKilled, Break, Stop,
       IsConnected, wire, client

\* What is written behind a SUBSCRIBE leaves it under way.
LEMMA WritesKeepSubscribing ==
    ASSUME TypeOK, NEW s \in Seq(UpPacket), up' = Written(s), Subscribing
    PROVE  Subscribing'
<1>1. up \in Seq(UpPacket)
  BY DEF TypeOK, UpPacket
<1>2. PICK i \in DOMAIN up : up[i].type = "SUBSCRIBE"
  BY DEF Subscribing
<1>3. i \in DOMAIN up' /\ up'[i] = up[i]
  BY <1>1, <1>2 DEF Written
<1> QED
  BY <1>2, <1>3 DEF Subscribing

\* A call on a session that stands, and goes on standing as it was.
LEMMA StandingStep ==
    ASSUME TypeOK, BridgeInv, NEW s \in Seq(UpPacket), up' = Written(s),
           UNCHANGED <<state, link, broker>>, Kept,
           at \in Serving, at' \in Serving
    PROVE  BridgeInv'
<1>1. Subscribing => Subscribing'
  BY WritesKeepSubscribing
<1>2. /\ IsConnected' <=> IsConnected
      /\ IsConnected => (subscribed' <=> subscribed)
  BY DEF IsConnected, Kept
<1>3. Served'
  BY <1>1, <1>2 DEF BridgeInv, Served
<1> QED
  BY <1>3 DEF BridgeInv, ApartUnlessServing, Serving

\* Writing nothing changes nothing.
LEMMA NothingWritten ==
    ASSUME TypeOK PROVE <<>> \in Seq(UpPacket) /\ Written(<<>>) = up
BY DEF TypeOK, Written, UpPacket

\* There is no connection when the sketch starts.
LEMMA BridgeInvInit == BridgeInit => BridgeInv
BY DEF BridgeInit, Init, BridgeInv, ApartUnlessServing, Served, IsConnected, Serving

\* The sketch's own steps.
LEMMA SketchStep ==
    ASSUME SessionInv, BridgeInv, Sketch
    PROVE  BridgeInv'
<1>0. TypeOK /\ <<>> \in Seq(UpPacket) /\ Written(<<>>) = up
  BY NothingWritten DEF SessionInv
<1> USE DEF Goto
<1>1. CASE ~IsConnected'
  BY <1>1, LostStep
<1>2. CASE JoinWiFi \/ DelayPasses
  BY <1>1, <1>2
  DEF JoinWiFi, DelayPasses, BridgeInv, ApartUnlessServing, IsConnected, vars,
      client, wire
<1>3. CASE WhileConnected \/ SerialIdle
  <2>1. UNCHANGED <<up, state, link, broker>> /\ at \in Serving /\ at' \in Serving
    BY <1>3
    DEF WhileConnected, SerialIdle, Connected, vars, client, wire, Serving
  <2>2. Served'
    BY <1>3, <2>1
    DEF WhileConnected, SerialIdle, Kept, BridgeInv, Served, IsConnected, Subscribing
  <2> QED
    BY <2>1, <2>2 DEF BridgeInv, ApartUnlessServing, Serving
<1>4. CASE NotConnected
  BY <1>1, <1>4, LosingActions
<1>5. CASE WhileNotConnected
  BY <1>4, <1>5 DEF WhileNotConnected
<1>6. CASE CallConnect \/ ConnectReturnsFalse
  BY <1>1, <1>6, LosingActions DEF CallConnect, ConnectReturnsFalse
<1>7. CASE ConnectReturnsTrue
  BY <1>7
  DEF ConnectReturnsTrue, BridgeInv, ApartUnlessServing, Served, Serving
<1>8. CASE CallSubscribe
  <2>1. CASE Request("SUBSCRIBE") /\ at' = "while"
    <3>1. /\ IsConnected /\ UNCHANGED broker
          /\ up' = Written(<<Packet("SUBSCRIBE", FollowingMsgId)>>)
      BY <2>1 DEF Request
    <3>2. ~broker.hung => Subscribing'
      <4> SUFFICES ASSUME ~broker.hung PROVE Subscribing'
        OBVIOUS
      <4>1. up' = Append(up, Packet("SUBSCRIBE", FollowingMsgId))
        BY <3>1, <1>0 DEF Written, IsConnected, TypeOK
      <4>2. /\ Len(up') \in DOMAIN up'
            /\ up'[Len(up')] = Packet("SUBSCRIBE", FollowingMsgId)
        BY <4>1, <1>0 DEF TypeOK
      <4> QED
        BY <4>2 DEF Subscribing, Packet
    <3> QED
      BY <2>1, <3>1, <3>2 DEF BridgeInv, ApartUnlessServing, Served
  <2> QED
    BY <1>4, <1>8, <2>1 DEF CallSubscribe
<1>9. CASE Check
  <2>1. CASE Goto("check", "loop") /\ Connected /\ Kept
    BY <1>0, <2>1, StandingStep
    DEF Connected, vars, client, wire, SessionInv, Serving
  <2> QED
    BY <1>4, <1>9, <2>1 DEF Check
<1>10. CASE CallLoop
  <2>1. at \in Serving /\ at' \in Serving
    BY <1>10 DEF CallLoop, Serving
  <2>2. CASE LoopReads /\ Kept
    <3> DEFINE packet == IF inbox = <<>> THEN NoPacket ELSE Head(inbox)
    <3>1. /\ up' = Written(Pings \o Replies(packet))
          /\ UNCHANGED <<state, link, broker>>
      BY <2>2 DEF LoopReads
    <3>2. Pings \o Replies(packet) \in Seq(UpPacket)
      BY PlainTypes, SessionAssumption DEF Pings, Replies, UpTypes
    <3> HIDE DEF packet
    <3> QED
      BY <1>0, <2>1, <2>2, <3>1, <3>2, StandingStep
  <2>3. CASE LoopTimesOut \/ LoopKilled
    BY <1>1, <2>3, LosingActions
  <2> QED
    BY <1>4, <1>10, <2>2, <2>3 DEF CallLoop, Loop
<1>11. CASE Callback
  <2>1. at \in Serving /\ at' \in Serving /\ Kept /\ UNCHANGED <<state, link, broker>>
    BY <1>11 DEF Callback, CallbackReturns, Serving
  <2>2. CASE handling.type = "PUBLISH1"
    <3>1. <<Packet("PUBACK", handling.id)>> \in Seq(UpPacket)
      BY <1>0, PlainTypes DEF TypeOK, UpTypes
    <3>2. up' = Written(<<Packet("PUBACK", handling.id)>>)
      BY <1>11, <2>2 DEF Callback, CallbackReturns
    <3> QED
      BY <1>0, <2>1, <3>1, <3>2, StandingStep
  <2>3. CASE handling.type # "PUBLISH1"
    BY <1>0, <1>11, <2>1, <2>3, StandingStep DEF Callback, CallbackReturns
  <2> QED
    BY <2>2, <2>3
<1>12. CASE SerialPublish
  <2>1. CASE Publish /\ Goto("serial", "check") /\ Kept
    <3>1. <<Plain("PUBLISH")>> \in Seq(UpPacket)
      BY PlainTypes DEF UpTypes
    <3>2. up' = Written(<<Plain("PUBLISH")>>) /\ UNCHANGED <<state, link, broker>>
      BY <2>1 DEF Publish, client
    <3> QED
      BY <1>0, <2>1, <3>1, <3>2, StandingStep DEF Serving
  <2> QED
    BY <1>4, <1>12, <2>1 DEF SerialPublish
<1> QED
  BY <1>2, <1>3, <1>5, <1>6, <1>7, <1>8, <1>9, <1>10, <1>11, <1>12 DEF Sketch

\* The broker, the network and time.
LEMMA WorldKeepsServing ==
    ASSUME SessionInv, BridgeInv,
           BrokerAnswers \/ BrokerPublishes \/ NetworkFails \/ TimePasses
    PROVE  BridgeInv'
<1>0. TypeOK /\ up \in Seq(UpPacket)
  BY DEF SessionInv, TypeOK, UpPacket
<1>1. CASE BrokerAnswers
  <2>1. /\ up # <<>> /\ up' = Tail(up) /\ ~broker.hung
        /\ UNCHANGED <<state, link, at>>
    BY <1>1 DEF BrokerAnswers, BrokerReads, client
  <2>2. subscribed' = (subscribed \/ Head(up).type = "SUBSCRIBE")
    BY <1>1 DEF BrokerAnswers
  <2>3. ASSUME Subscribing, Head(up).type # "SUBSCRIBE" PROVE Subscribing'
    <3>1. PICK i \in DOMAIN up : up[i].type = "SUBSCRIBE"
      BY <2>3 DEF Subscribing
    <3>2. i # 1
      BY <1>0, <2>1, <2>3, <3>1
    <3>3. i - 1 \in DOMAIN up' /\ up'[i - 1] = up[i]
      BY <1>0, <2>1, <3>1, <3>2
    <3> QED
      BY <3>1, <3>3 DEF Subscribing
  <2>4. IsConnected' <=> IsConnected
    BY <2>1 DEF IsConnected
  <2>5. Served'
    BY <2>1, <2>2, <2>3, <2>4 DEF BridgeInv, Served
  <2> QED
    BY <2>1, <2>4, <2>5 DEF BridgeInv, ApartUnlessServing
<1>2. CASE BrokerPublishes \/ TimePasses
  <2>1. /\ UNCHANGED <<state, link, up, at, subscribed>>
        /\ broker'.hung <=> broker.hung
    <3>1. CASE BrokerPublishes
      <4>1. /\ UNCHANGED <<state, link, up, at, subscribed>>
            /\ \/ UNCHANGED broker
               \/ \E id \in MsgIds :
                    broker' = [broker EXCEPT !.unacked = @ \cup {id}]
        BY <3>1 DEF BrokerPublishes, BrokerSends, client
      <4> QED
        BY <1>0, <4>1 DEF TypeOK
    <3>2. CASE TimePasses
      BY <3>2 DEF TimePasses, Tick, client, wire
    <3> QED
      BY <1>2, <3>1, <3>2
  <2> QED
    BY <2>1
    DEF BridgeInv, ApartUnlessServing, Served, IsConnected, Subscribing
<1>3. CASE NetworkFails
  <2>1. CASE Hang
    <3>1. broker'.hung /\ UNCHANGED <<state, link, at>>
      BY <1>0, <1>3, <2>1 DEF NetworkFails, Hang, client, TypeOK
    <3> QED
      BY <3>1 DEF BridgeInv, ApartUnlessServing, Served, IsConnected
  <2>2. CASE Break
    BY <2>2, LosingActions, LostStep
  <2> QED
    BY <1>3, <2>1, <2>2 DEF NetworkFails
<1> QED
  BY <1>1, <1>2, <1>3

\* Every step of the sketch, the broker and the network keeps the invariant.
LEMMA BridgeStep ==
    SessionInv /\ BridgeInv /\ [BridgeNext]_bridgeVars => BridgeInv'
<1> SUFFICES ASSUME SessionInv, BridgeInv, [BridgeNext]_bridgeVars
             PROVE  BridgeInv'
  OBVIOUS
<1>1. CASE UNCHANGED bridgeVars
  BY <1>1
  DEF bridgeVars, vars, client, wire, BridgeInv, ApartUnlessServing, Served,
      IsConnected, Subscribing
<1> QED
  BY <1>1, SketchStep, WorldKeepsServing DEF BridgeNext

\* The sketch serves no session the broker has no subscription for (or is
\* about to read one): true across every way a connection can be lost, and
\* replaced, between any two statements of the sketch.
THEOREM ServedIsSubscribed == BridgeSpec => []ServesSubscribed
<1>1. BridgeInv => ServesSubscribed
  BY DEF BridgeInv, Served, ServesSubscribed, Serving
<1> QED
  BY <1>1, BridgeInvInit, BridgeStep, BridgeUsesSession, SessionInvariant, PTL
  DEF BridgeSpec
=============================================================================
