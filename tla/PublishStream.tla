--------------------------- MODULE PublishStream ---------------------------
(***************************************************************************)
(* The bytes PubSubClient puts on the transport for outgoing PUBLISH       *)
(* packets, by the three routes of its API:                                *)
(*                                                                         *)
(*   publish()        one packet assembled in the client's buffer,         *)
(*   publish_P()      header from the buffer, payload byte by byte,        *)
(*   beginPublish() write()* endPublish()   a payload streamed by the      *)
(*                    caller, of a length announced beforehand.            *)
(*                                                                         *)
(* The model keeps, for the packet being sent, the length its header       *)
(* declares to the receiver and the number of bytes that really follow.    *)
(* The receiver takes the next packet to start where the declared length   *)
(* ends, so the two must agree for the stream to stay in step.             *)
(***************************************************************************)
EXTENDS MqttLength, FiniteSets

CONSTANTS
    BufferSize,     \* bufferSize: set by setBufferSize(uint16_t)
    TopicLengths,   \* lengths of the topics that are published to
    PayloadLengths, \* lengths of the payloads (unsigned int)
    MaxWrite        \* largest piece handed to write(buffer, size)

ASSUME StreamAssumption ==
    /\ BufferSize \in 1 .. Width - 1
    /\ TopicLengths \subseteq Nat /\ PayloadLengths \subseteq Nat
    /\ MaxWrite \in Nat

VARIABLES
    transport,  \* whether the transport accepts bytes
    packet,     \* the packet being sent, or the last one
    result      \* what the last call returned

vars == <<transport, packet, result>>

MaxHeaderSize == 5      \* MQTT_MAX_HEADER_SIZE

\* route: the call that started the packet; total: remaining length meant by
\* the caller; declared: remaining length a receiver reads from the header;
\* body: bytes the transport accepted after the header; due: payload bytes the
\* caller of beginPublish() has still to write; phase: open till endPublish().
Packet == [route : {"none", "publish", "publish_P", "stream"},
           total : Nat, declared : Nat, body : Nat, due : Nat,
           phase : {"closed", "open"}]

NoPacket == [route |-> "none", total |-> 0, declared |-> 0, body |-> 0,
             due |-> 0, phase |-> "closed"]

\* The remaining length a receiver reads back from a header buildHeader() made.
Declared(n) == ReadLength(LengthBytes(n)).length

\* What follows the header: two bytes of topic length, the topic, the payload.
Remaining(topic, plength) == 2 + topic + plength

\* Mutant of Fits: the sum is made in 16 bits.
FitsMutant(topic, plength) ==
    BufferSize >= ToUint16(MaxHeaderSize + 2 + topic + plength)

\* The guard of publish(): the whole packet, with the largest header, must fit.
Fits(topic, plength) == BufferSize >= MaxHeaderSize + 2 + topic + plength

Init == transport = "up" /\ packet = NoPacket /\ result = "failed"

\* A write of size bytes: all of it, or a part when the transport goes down
\* under it.  A transport that is down accepts nothing.
Accepted(size) == IF transport = "up" THEN 0 .. size ELSE {0}

\* What a call returns that compares the bytes sent with the bytes meant.
Outcome(complete) == IF complete THEN "ok" ELSE "failed"

\* write(header, buf, length) and publish(): refused when the packet does not
\* fit; else one write of header and body, whose return code is compared.
Publish(topic, plength) ==
    /\ packet.phase = "closed"
    /\ LET length == Remaining(topic, plength)
       IN  IF transport = "up" /\ Fits(topic, plength)
           THEN \E sent \in Accepted(length) :
                  /\ packet' = [route |-> "publish", total |-> length,
                                declared |-> Declared(length), body |-> sent,
                                due |-> 0, phase |-> "closed"]
                  /\ result' = Outcome(sent = ToUint16(length))
                  /\ transport' = IF sent = length THEN "up" ELSE "down"
           ELSE packet' = NoPacket /\ result' = "failed" /\ UNCHANGED transport

\* publish_P(): its own digit loop over an unsigned int, which no conversion
\* narrows; header and topic, then the payload byte by byte.
PublishP(topic, plength) ==
    /\ packet.phase = "closed"
    /\ LET length == Remaining(topic, plength)
       IN  IF transport = "up"
           THEN \E sent \in Accepted(length) :
                  /\ packet' = [route |-> "publish_P", total |-> length,
                                declared |-> length, body |-> sent,
                                due |-> 0, phase |-> "closed"]
                  /\ result' = Outcome(sent = length)
                  /\ transport' = IF sent = length THEN "up" ELSE "down"
           ELSE packet' = NoPacket /\ result' = "failed" /\ UNCHANGED transport

\* beginPublish(): header and topic.  No check of the length, which the call
\* of buildHeader() narrows to a uint16_t.
BeginPublish(topic, plength) ==
    /\ packet.phase = "closed"
    /\ LET length == Remaining(topic, plength)
       IN  IF transport = "up"
           THEN \E sent \in Accepted(Remaining(topic, 0)) :
                  /\ packet' = [route |-> "stream", total |-> length,
                                declared |-> Declared(length), body |-> sent,
                                due |-> plength, phase |-> "open"]
                  /\ result' = Outcome(sent = Remaining(topic, 0))
                  /\ transport' = IF sent = Remaining(topic, 0) THEN "up" ELSE "down"
           ELSE packet' = NoPacket /\ result' = "failed" /\ UNCHANGED transport

\* write(buffer, size): the caller supplies the payload in pieces.
Write(size) ==
    /\ packet.phase = "open"
    /\ size <= packet.due
    /\ \E sent \in Accepted(size) :
          /\ packet' = [packet EXCEPT !.due = @ - size, !.body = @ + sent]
          /\ result' = Outcome(sent = size)
          /\ transport' = IF sent = size THEN transport ELSE "down"

\* endPublish(): returns 1 whatever happened.
EndPublish ==
    /\ packet.phase = "open"
    /\ packet.due = 0
    /\ packet' = [packet EXCEPT !.phase = "closed"]
    /\ result' = "ok"
    /\ UNCHANGED transport

\* The transport is lost; a later connect() brings a new one.
TransportDown ==
    /\ transport = "up" /\ transport' = "down"
    /\ UNCHANGED <<packet, result>>

Reconnect ==
    /\ transport = "down" /\ packet.phase = "closed"
    /\ transport' = "up" /\ packet' = NoPacket /\ result' = "failed"

Next ==
    \/ \E t \in TopicLengths, p \in PayloadLengths :
          Publish(t, p) \/ PublishP(t, p) \/ BeginPublish(t, p)
    \/ \E size \in 1 .. MaxWrite : Write(size)
    \/ EndPublish
    \/ TransportDown
    \/ Reconnect

Spec == Init /\ [][Next]_vars

-----------------------------------------------------------------------------

TypeOK ==
    /\ transport \in {"up", "down"}
    /\ packet \in Packet
    /\ result \in {"ok", "failed"}

\* A packet publish() or publish_P() reports as sent is whole and framed: all
\* of the topic and payload follow the header, and the length it declares is
\* theirs, so the receiver finds the next packet where it begins.  publish()
\* counts in uint16_t throughout; its size check keeps every sum from wrapping.
SentPacketsAreWhole ==
    packet.route \in {"publish", "publish_P"} /\ result = "ok"
        => packet.body = packet.total /\ packet.declared = packet.total

\* The same for a streamed payload whose remaining length fits a uint16_t,
\* as long as the transport took every piece.
SmallStreamsAreFramed ==
    /\ packet.route = "stream" /\ packet.phase = "closed"
    /\ packet.total < Width /\ packet.body = packet.total
    => packet.declared = packet.body

\* PubSubClient.h:161-162 of beginPublish()/write()/endPublish(): "Allows for
\* arbitrarily large payloads to be sent".  A payload of which every byte was
\* supplied and accepted is framed, whatever its length.
ArbitrarilyLargePayloads ==
    /\ packet.route = "stream" /\ packet.phase = "closed"
    /\ packet.body = packet.total
    => packet.declared = packet.body

=============================================================================
