---------------------------- MODULE PubSubClient ----------------------------
(***************************************************************************)
(* An MQTT session as PubSubClient runs it: the calls of its API, made by  *)
(* any caller (a sketch) from one thread, over a transport that delivers   *)
(* in order until it breaks, to a broker that answers, refuses, goes       *)
(* silent or sends what the library has to cope with.                      *)
(*                                                                         *)
(* Each API call is one action, except where it waits: connect() waits for *)
(* CONNACK (pc = "connack"), loop() runs the caller's callback             *)
(* (pc = "callback") and goes on after it.  Everything else may happen     *)
(* while it waits.  Packets are read whole: PacketReader models the bytes. *)
(*                                                                         *)
(* Time is counted in ticks.  sinceIn, sinceOut and sinceLoop are          *)
(* millis() - lastInActivity, millis() - lastOutActivity and millis() - t, *)
(* t being the time the last loop() read when it began.  They are kept     *)
(* only while they are in use, and are 0 otherwise.                        *)
(***************************************************************************)
EXTENDS Integers, Sequences

CONSTANTS
    KeepAlive,      \* keepAlive, in ticks
    SocketTimeout,  \* socketTimeout, in ticks
    LoopGap,        \* the caller calls loop() at least this often
    IdModulus,      \* 2^16, the width of nextMsgId
    MsgIds,         \* message ids the broker gives to its QoS 1 messages
    MaxUp, MaxIn    \* bounds on the packets under way in each direction

ASSUME SessionAssumption ==
    /\ KeepAlive \in Nat /\ SocketTimeout \in Nat
    /\ LoopGap \in Nat \ {0}
    /\ IdModulus \in Nat /\ IdModulus >= 2
    /\ 0 \notin MsgIds
    /\ MaxUp \in Nat /\ MaxIn \in Nat

VARIABLES
    state,              \* _state
    pingOutstanding, nextMsgId,
    sinceIn, sinceOut, sinceLoop,
    pc,                 \* where the call in progress waits, or "idle"
    handling,           \* the PUBLISH whose callback runs
    link,               \* the transport: "closed", "open", or "broken" by the peer
    inbox,              \* packets the transport has for read()
    up,                 \* packets written and not yet read by the broker
    broker              \* what the broker is to this connection

clock  == <<sinceIn, sinceOut, sinceLoop>>
client == <<state, pingOutstanding, nextMsgId, pc, handling>>
wire   == <<link, inbox, up, broker>>
vars   == <<client, clock, wire>>

States == {"DISCONNECTED", "CONNECTED", "CONNECTION_TIMEOUT",
           "CONNECTION_LOST", "CONNECT_FAILED", "REFUSED"}

Packet(type, id) == [type |-> type, id |-> id]
Plain(type) == Packet(type, 0)
NoPacket == Plain("NONE")

\* accepted: it sent CONNACK 0; unacked: QoS 1 messages it has no PUBACK for;
\* hung: it neither reads nor writes, though the transport looks open.
FreshBroker == [accepted |-> FALSE, unacked |-> {}, hung |-> FALSE]

Init ==
    /\ state = "DISCONNECTED" /\ pingOutstanding = FALSE /\ nextMsgId = 1
    /\ sinceIn = 0 /\ sinceOut = 0 /\ sinceLoop = 0
    /\ pc = "idle" /\ handling = NoPacket
    /\ link = "closed" /\ inbox = <<>> /\ up = <<>> /\ broker = FreshBroker

-----------------------------------------------------------------------------
(* The transport and connected().                                          *)

\* _client->stop(): what was not read is discarded, what was not delivered lost.
Stop ==
    /\ link' = "closed" /\ inbox' = <<>> /\ up' = <<>> /\ broker' = FreshBroker

\* _client->write(): bytes go nowhere once the peer is gone or silent.
Written(packets) ==
    IF link = "open" /\ ~broker.hung THEN up \o packets ELSE up

\* Room for whatever one call writes, while somebody reads it.
Room == Len(up) + 2 <= MaxUp

\* connected() when it returns true.
IsConnected == link = "open" /\ state = "CONNECTED"

\* The state connected() leaves behind, and the loss it notices.
NoticedState == IF link # "open" /\ state = "CONNECTED"
                THEN "CONNECTION_LOST" ELSE state

\* connected() when it returns false, as every call of the API begins.
NoticeLoss ==
    /\ ~IsConnected
    /\ state' = NoticedState
    /\ IF NoticedState # state
       THEN Stop /\ sinceIn' = 0 /\ sinceOut' = 0 /\ sinceLoop' = 0
       ELSE UNCHANGED <<wire, clock>>
    /\ UNCHANGED <<pingOutstanding, nextMsgId, pc, handling>>

-----------------------------------------------------------------------------
(* connect().                                                              *)

\* The transport cannot be opened.
ConnectFails ==
    /\ pc = "idle" /\ ~IsConnected /\ link # "open"
    /\ state' = "CONNECT_FAILED"
    /\ Stop
    /\ sinceIn' = 0 /\ sinceOut' = 0 /\ sinceLoop' = 0
    /\ UNCHANGED <<pingOutstanding, nextMsgId, pc, handling>>

\* The transport is open, newly or from before, but the client id, the will
\* or the credentials do not fit the buffer: CHECK_STRING_LENGTH.
ConnectTooLong ==
    /\ pc = "idle" /\ ~IsConnected
    /\ state' = NoticedState
    /\ nextMsgId' = 1
    /\ Stop
    /\ sinceIn' = 0 /\ sinceOut' = 0 /\ sinceLoop' = 0
    /\ UNCHANGED <<pingOutstanding, pc, handling>>

\* CONNECT is written on an open transport (reused if it already is), and
\* the wait for CONNACK begins.
ConnectStart ==
    /\ pc = "idle" /\ ~IsConnected
    /\ IF link = "open"
       THEN /\ up' = Written(<<Plain("CONNECT")>>)
            /\ UNCHANGED <<link, inbox, broker>>
       ELSE /\ link' = "open" /\ inbox' = <<>> /\ broker' = FreshBroker
            /\ up' = <<Plain("CONNECT")>>
    /\ state' = NoticedState
    /\ nextMsgId' = 1
    /\ sinceIn' = 0 /\ sinceOut' = 0 /\ sinceLoop' = 0
    /\ pc' = "connack"
    /\ UNCHANGED <<pingOutstanding, handling>>

\* Mutant of ConnackTimeout: the wait starts over.
ConnackTimeoutMutant ==
    /\ pc = "connack" /\ inbox = <<>> /\ sinceIn >= SocketTimeout
    /\ sinceIn' = 0 /\ sinceOut' = 0
    /\ UNCHANGED <<client, sinceLoop, wire>>

\* No byte within socketTimeout.
ConnackTimeout ==
    /\ pc = "connack" /\ inbox = <<>> /\ sinceIn >= SocketTimeout
    /\ state' = "CONNECTION_TIMEOUT"
    /\ Stop
    /\ sinceIn' = 0 /\ sinceOut' = 0 /\ sinceLoop' = 0
    /\ pc' = "idle"
    /\ UNCHANGED <<pingOutstanding, nextMsgId, handling>>

\* Mutant of ConnackAccepted: the return code is not looked at.
ConnackAcceptedAnyCode ==
    /\ pc = "connack" /\ inbox # <<>> /\ Head(inbox).type = "CONNACK"
    /\ inbox' = Tail(inbox)
    /\ state' = "CONNECTED" /\ pingOutstanding' = FALSE
    /\ sinceIn' = 0 /\ sinceLoop' = 0
    /\ pc' = "idle"
    /\ UNCHANGED <<nextMsgId, handling, sinceOut, link, up, broker>>

\* Mutant of ConnackAccepted: the flag of an earlier session's ping stays.
ConnackAcceptedNoReset ==
    /\ pc = "connack" /\ inbox # <<>> /\ Head(inbox) = Plain("CONNACK")
    /\ inbox' = Tail(inbox)
    /\ state' = "CONNECTED"
    /\ sinceIn' = 0 /\ sinceLoop' = 0
    /\ pc' = "idle"
    /\ UNCHANGED <<pingOutstanding, nextMsgId, handling, sinceOut, link, up, broker>>

\* A packet of four bytes whose last is 0, the CONNACK that accepts: connect()
\* looks at the length and that byte only, never at the packet's type.
ConnackAccepted ==
    /\ pc = "connack" /\ inbox # <<>> /\ Head(inbox) = Plain("CONNACK")
    /\ inbox' = Tail(inbox)
    /\ state' = "CONNECTED" /\ pingOutstanding' = FALSE
    /\ sinceIn' = 0 /\ sinceLoop' = 0
    /\ pc' = "idle"
    /\ UNCHANGED <<nextMsgId, handling, sinceOut, link, up, broker>>

\* Anything else: another return code becomes the state, readPacket() kills
\* the connection on a malformed length, and any other packet leaves the
\* state as it was.  The transport is stopped in each case.
ConnackRefused ==
    /\ pc = "connack" /\ inbox # <<>> /\ Head(inbox) # Plain("CONNACK")
    /\ state' = CASE Head(inbox).type = "CONNACK"   -> "REFUSED"
                  [] Head(inbox).type = "MALFORMED" -> "DISCONNECTED"
                  [] OTHER                          -> state
    /\ Stop
    /\ sinceIn' = 0 /\ sinceOut' = 0 /\ sinceLoop' = 0
    /\ pc' = "idle"
    /\ UNCHANGED <<pingOutstanding, nextMsgId, handling>>

-----------------------------------------------------------------------------
(* loop().                                                                 *)

\* Mutant of Overdue: only what was written is looked at.
OverdueMutant == sinceOut > KeepAlive

\* Nothing was read, or nothing was written, for longer than keepAlive.
Overdue == sinceIn > KeepAlive \/ sinceOut > KeepAlive

\* Mutant of LoopTimesOut: the unanswered ping is forgotten.
LoopTimesOutMutant ==
    /\ pc = "idle" /\ IsConnected /\ Overdue /\ pingOutstanding
    /\ pingOutstanding' = FALSE
    /\ sinceIn' = 0 /\ sinceOut' = 0 /\ sinceLoop' = 0
    /\ UNCHANGED <<state, nextMsgId, pc, handling, wire>>

\* The ping written before is still unanswered: give up.
LoopTimesOut ==
    /\ pc = "idle" /\ IsConnected /\ Overdue /\ pingOutstanding
    /\ state' = "CONNECTION_TIMEOUT"
    /\ Stop
    /\ sinceIn' = 0 /\ sinceOut' = 0 /\ sinceLoop' = 0
    /\ UNCHANGED <<pingOutstanding, nextMsgId, pc, handling>>

\* Mutant of LoopKilled: the state is reset, the transport not stopped.
LoopKilledMutant ==
    /\ pc = "idle" /\ IsConnected /\ ~(Overdue /\ pingOutstanding)
    /\ inbox # <<>> /\ Head(inbox).type = "MALFORMED"
    /\ state' = "DISCONNECTED"
    /\ inbox' = Tail(inbox)
    /\ sinceIn' = 0 /\ sinceOut' = 0 /\ sinceLoop' = 0
    /\ UNCHANGED <<pingOutstanding, nextMsgId, pc, handling, link, up, broker>>

\* readPacket() kills the connection on a length of more than four digits.
LoopKilled ==
    /\ pc = "idle" /\ IsConnected /\ ~(Overdue /\ pingOutstanding)
    /\ inbox # <<>> /\ Head(inbox).type = "MALFORMED"
    /\ state' = "DISCONNECTED"
    /\ pingOutstanding' = (pingOutstanding \/ Overdue)
    /\ Stop
    /\ sinceIn' = 0 /\ sinceOut' = 0 /\ sinceLoop' = 0
    /\ UNCHANGED <<nextMsgId, pc, handling>>

\* What loop() writes: the ping it owes, then the answer to the packet read.
Pings == IF Overdue THEN <<Plain("PINGREQ")>> ELSE <<>>
Replies(packet) == IF packet.type = "PINGREQ" THEN <<Plain("PINGRESP")>> ELSE <<>>

IsPublish(packet) == packet.type \in {"PUBLISH0", "PUBLISH1"}

\* One turn of loop() on a connected client: a ping when one is due, then at
\* most one packet.  A packet too long for the buffer (OVERSIZE) is read and
\* dropped, and does not count as activity.
LoopReads ==
    /\ pc = "idle" /\ IsConnected /\ ~(Overdue /\ pingOutstanding)
    /\ Room
    /\ LET packet == IF inbox = <<>> THEN NoPacket ELSE Head(inbox)
           kept   == inbox # <<>> /\ packet.type # "OVERSIZE"
       IN  /\ packet.type # "MALFORMED"
           /\ inbox' = IF inbox = <<>> THEN <<>> ELSE Tail(inbox)
           /\ up' = Written(Pings \o Replies(packet))
           /\ sinceIn' = IF Overdue \/ kept THEN 0 ELSE sinceIn
           /\ sinceOut' = IF Overdue THEN 0 ELSE sinceOut
           /\ sinceLoop' = 0
           /\ pingOutstanding' = /\ packet.type # "PINGRESP"
                                 /\ pingOutstanding \/ Overdue
           /\ IF IsPublish(packet)
              THEN pc' = "callback" /\ handling' = packet
              ELSE UNCHANGED <<pc, handling>>
    /\ UNCHANGED <<state, nextMsgId, link, broker>>

\* Mutant of CallbackReturns: the id is taken from the buffer after the
\* callback, which has written a request of its own there.
CallbackReturnsMutant ==
    /\ pc = "callback" /\ Room
    /\ IF handling.type = "PUBLISH1"
       THEN /\ up' = Written(<<Packet("PUBACK", nextMsgId)>>)
            /\ sinceOut' = sinceLoop
       ELSE UNCHANGED <<up, sinceOut>>
    /\ pc' = "idle" /\ handling' = NoPacket
    /\ UNCHANGED <<state, pingOutstanding, nextMsgId, sinceIn, sinceLoop,
                   link, inbox, broker>>

\* The callback returns; a QoS 1 message is acknowledged with the id taken
\* before it ran, and lastOutActivity set to the t taken before it ran.
CallbackReturns ==
    /\ pc = "callback" /\ Room
    /\ IF handling.type = "PUBLISH1"
       THEN /\ up' = Written(<<Packet("PUBACK", handling.id)>>)
            /\ sinceOut' = sinceLoop
       ELSE UNCHANGED <<up, sinceOut>>
    /\ pc' = "idle" /\ handling' = NoPacket
    /\ UNCHANGED <<state, pingOutstanding, nextMsgId, sinceIn, sinceLoop,
                   link, inbox, broker>>

-----------------------------------------------------------------------------
(* The other calls, made between two loop()s or from the callback.         *)

Calling == pc \in {"idle", "callback"}

\* publish(), publish_P(), beginPublish(), write(): one packet, sent once.
Publish ==
    /\ Calling /\ IsConnected /\ Room
    /\ up' = Written(<<Plain("PUBLISH")>>)
    /\ sinceOut' = 0
    /\ UNCHANGED <<client, sinceIn, sinceLoop, link, inbox, broker>>

\* Mutant of FollowingMsgId: 0 is not skipped.
FollowingMsgIdMutant == (nextMsgId + 1) % IdModulus

\* ++nextMsgId, skipping 0 when the uint16_t wraps.
FollowingMsgId ==
    LET id == (nextMsgId + 1) % IdModulus IN IF id = 0 THEN 1 ELSE id

\* subscribe() and unsubscribe().
Request(type) ==
    /\ Calling /\ IsConnected /\ Room
    /\ nextMsgId' = FollowingMsgId
    /\ up' = Written(<<Packet(type, FollowingMsgId)>>)
    /\ sinceOut' = 0
    /\ UNCHANGED <<state, pingOutstanding, pc, handling, sinceIn, sinceLoop,
                   link, inbox, broker>>

\* disconnect(): DISCONNECT is written whatever the state, then stop().
Disconnect ==
    /\ Calling
    /\ state' = "DISCONNECTED"
    /\ Stop
    /\ sinceIn' = 0 /\ sinceOut' = 0 /\ sinceLoop' = 0
    /\ UNCHANGED <<pingOutstanding, nextMsgId, pc, handling>>

-----------------------------------------------------------------------------
(* The broker, the network and time.                                       *)

InboxRoom == Len(inbox) < MaxIn

\* The broker reads one packet and answers it: CONNECT with an acceptance, a
\* refusal or something malformed, the others as MQTT has it.
BrokerReads ==
    /\ link = "open" /\ ~broker.hung /\ up # <<>>
    /\ LET packet == Head(up)
           Answer(p) == InboxRoom /\ inbox' = Append(inbox, p)
           NoAnswer == UNCHANGED inbox
       IN  CASE packet.type = "CONNECT" ->
                  \/ /\ Answer(Plain("CONNACK"))
                     /\ broker' = [broker EXCEPT !.accepted = TRUE]
                  \/ /\ \/ Answer(Packet("CONNACK", 5))
                        \/ Answer(Plain("MALFORMED"))
                     /\ UNCHANGED broker
             [] packet.type = "PINGREQ" ->
                  Answer(Plain("PINGRESP")) /\ UNCHANGED broker
             [] packet.type = "SUBSCRIBE" ->
                  Answer(Packet("SUBACK", packet.id)) /\ UNCHANGED broker
             [] packet.type = "UNSUBSCRIBE" ->
                  Answer(Packet("UNSUBACK", packet.id)) /\ UNCHANGED broker
             [] packet.type = "PUBACK" ->
                  /\ NoAnswer
                  /\ broker' = [broker EXCEPT !.unacked = @ \ {packet.id}]
             [] OTHER -> NoAnswer /\ UNCHANGED broker
    /\ up' = Tail(up)
    /\ UNCHANGED <<client, clock, link>>

\* What a broker sends of its own accord to a session it accepted.
BrokerSends ==
    /\ link = "open" /\ broker.accepted /\ ~broker.hung /\ InboxRoom
    /\ \/ \E type \in {"PUBLISH0", "OVERSIZE", "PINGREQ", "MALFORMED"} :
             inbox' = Append(inbox, Plain(type)) /\ UNCHANGED broker
       \/ \E id \in MsgIds \ broker.unacked :
             /\ inbox' = Append(inbox, Packet("PUBLISH1", id))
             /\ broker' = [broker EXCEPT !.unacked = @ \cup {id}]
    /\ UNCHANGED <<client, clock, link, up>>

\* The broker or the path to it goes silent, and the transport does not know.
Hang ==
    /\ link = "open" /\ ~broker.hung
    /\ broker' = [broker EXCEPT !.hung = TRUE]
    /\ up' = <<>>
    /\ UNCHANGED <<client, clock, link, inbox>>

\* The transport is broken by the peer; received packets stay readable.
Break ==
    /\ link = "open"
    /\ link' = "broken" /\ up' = <<>>
    /\ UNCHANGED <<client, clock, inbox, broker>>

\* Time passes between the calls of a connected client, in its callback, and
\* in connect(), whose wait ends as soon as it may.
Tick ==
    /\ \/ pc = "connack" /\ sinceIn < SocketTimeout /\ UNCHANGED sinceLoop
       \/ /\ pc # "connack" /\ state = "CONNECTED"
          /\ sinceLoop < LoopGap
          /\ sinceLoop' = sinceLoop + 1
    /\ sinceIn' = sinceIn + 1 /\ sinceOut' = sinceOut + 1
    /\ UNCHANGED <<client, wire>>

-----------------------------------------------------------------------------

Connect == ConnectFails \/ ConnectTooLong \/ ConnectStart
Connack == ConnackTimeout \/ ConnackAccepted \/ ConnackRefused
Loop == LoopTimesOut \/ LoopKilled \/ LoopReads

\* Any call that finds the client not connected begins with connected().
Notice == Calling /\ NoticeLoss

Next ==
    \/ Connect \/ Connack
    \/ Loop \/ CallbackReturns
    \/ Publish \/ Request("SUBSCRIBE") \/ Request("UNSUBSCRIBE")
    \/ Disconnect \/ Notice
    \/ BrokerReads \/ BrokerSends \/ Hang \/ Break
    \/ Tick

Spec == Init /\ [][Next]_vars

-----------------------------------------------------------------------------

\* A sketch's loop() calls client.loop() again and again, callbacks return,
\* connect() polls its transport, and millis() goes on.  Nothing is assumed of
\* the network, the broker or the other calls.
Fairness ==
    /\ WF_vars(Loop) /\ WF_vars(Notice) /\ WF_vars(CallbackReturns)
    /\ WF_vars(Connack)
    /\ WF_vars(Tick)

FairSpec == Spec /\ Fairness

-----------------------------------------------------------------------------

DownTypes == {"CONNACK", "PUBLISH0", "PUBLISH1", "PINGREQ", "PINGRESP",
              "SUBACK", "UNSUBACK", "OVERSIZE", "MALFORMED"}
UpTypes == {"CONNECT", "PUBLISH", "PUBACK", "SUBSCRIBE", "UNSUBSCRIBE",
            "PINGREQ", "PINGRESP"}
Ids == (0 .. IdModulus - 1) \cup MsgIds \cup {5}

TypeOK ==
    /\ state \in States
    /\ pingOutstanding \in BOOLEAN
    /\ nextMsgId \in 1 .. IdModulus - 1
    /\ sinceIn \in Nat /\ sinceOut \in Nat /\ sinceLoop \in 0 .. LoopGap
    /\ pc \in {"idle", "connack", "callback"}
    /\ handling \in [type : {"NONE", "PUBLISH0", "PUBLISH1"}, id : Ids]
    /\ link \in {"closed", "open", "broken"}
    /\ inbox \in Seq([type : DownTypes, id : Ids])
    /\ up \in Seq([type : UpTypes, id : Ids])
    /\ broker \in [accepted : BOOLEAN, unacked : SUBSET MsgIds, hung : BOOLEAN]

\* Between two calls a transport is open only under a connected client: every
\* path that gives a session up also stops the transport, and so connect()
\* never takes over a stream with packets of an earlier session in it.
NoOrphanTransport == link = "open" => state = "CONNECTED" \/ pc = "connack"

\* A client that believes itself connected over a working transport was
\* accepted by the broker on this very transport.
ConnectedMeansAccepted == IsConnected => broker.accepted

\* How often a packet of a type is in a sequence of them.
Count(packets, p) ==
    LET At(i) == packets[i] = p
    IN  IF \E i, j \in DOMAIN packets : i # j /\ At(i) /\ At(j) THEN 2
        ELSE IF \E i \in DOMAIN packets : At(i) THEN 1 ELSE 0

\* While the session stands and the broker answers, the flag says exactly
\* whether one ping is under way, as its request or as its answer: no ping is
\* lost from the books (which would time out a live connection) and none is
\* written while another is under way (whose answer would then be mistaken).
PingAccounted ==
    IsConnected /\ ~broker.hung
        => Count(up, Plain("PINGREQ")) + Count(inbox, Plain("PINGRESP"))
           = IF pingOutstanding THEN 1 ELSE 0

\* Every QoS 1 message the broker waits for an acknowledgement of is at
\* exactly one place: unread, in the hands of the callback, or acknowledged
\* by a PUBACK under way, which names no other message.
QoS1Accounted ==
    IsConnected /\ ~broker.hung =>
        \A id \in MsgIds :
            Count(inbox, Packet("PUBLISH1", id)) + Count(up, Packet("PUBACK", id))
            + (IF handling = Packet("PUBLISH1", id) THEN 1 ELSE 0)
            = IF id \in broker.unacked THEN 1 ELSE 0

\* A broker that falls silent on an open transport does not keep the client
\* for ever, whatever the client goes on sending (keepalive_spec.cpp,
\* "disconnects a hung connection").
HungIsNoticed == broker.hung /\ IsConnected ~> ~IsConnected

\* connect() comes back, whatever the broker answers or does not.
ConnectReturns == pc = "connack" ~> pc = "idle"
=============================================================================
