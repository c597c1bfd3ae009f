---------------------------- MODULE PacketReader ----------------------------
(***************************************************************************)
(* readPacket() of PubSubClient, byte by byte: the packet type, the digits *)
(* of the remaining length, the two bytes of topic length of a PUBLISH,    *)
(* and the rest, of which as much is kept as the buffer holds.             *)
(*                                                                         *)
(* Each byte is waited for, up to socketTimeout; when that passes,         *)
(* readPacket() returns 0 from wherever it is, the transport stays open,   *)
(* and the next loop() takes the next byte for the type of a packet.       *)
(* The two bytes of topic length are read from a PUBLISH that has no room  *)
(* for them too, and are then those of the packet after it.                *)
(*                                                                         *)
(* A byte is its value and whether it is the first of a packet, which only *)
(* the broker knows.  Values at least Radix continue a length; PublishByte *)
(* is the type of a PUBLISH, any other that of another packet.             *)
(***************************************************************************)
EXTENDS MqttLength

CONSTANTS
    InBuffer,       \* bufferSize
    Lengths,        \* remaining lengths of the packets the broker sends
    Contents,       \* values of the bytes in their bodies
    MaxWire         \* bound on the bytes under way

\* What the constants must be.
ReaderConstants ==
    /\ InBuffer \in Nat
    /\ Lengths \subseteq 0 .. Width - 1
    /\ Contents \subseteq 0 .. 2 * Radix - 1
    /\ MaxWire \in Nat

VARIABLES
    open,       \* the transport
    wire,       \* bytes the broker has sent and the client has not read
    unread,     \* the packets they belong to (the broker's view)
    phase,      \* what the next byte is taken for
    isPublish, digits,
    due,        \* bytes of the packet still to be read
    read,       \* bytes of it that were read (idx)
    got,        \* what the last readPacket() that finished made of its packet
    meant,      \* what the broker meant by it
    derailed    \* readPacket() left a packet early, or read past the end of one

reader == <<phase, isPublish, digits, due, read>>
readerVars == <<open, wire, unread, reader, got, meant, derailed>>

PublishByte == 2 * Radix - 1
OtherByte == 0

Byte(value, first) == [value |-> value, first |-> first]
Nothing == [type |-> "none", length |-> 0, kept |-> FALSE]
Message(publish, length, kept) ==
    [type |-> IF publish THEN "publish" ELSE "other", length |-> length, kept |-> kept]

ReaderInit ==
    /\ open = TRUE /\ wire = <<>> /\ unread = <<>>
    /\ phase = "type" /\ isPublish = FALSE /\ digits = <<>>
    /\ due = 0 /\ read = 0
    /\ got = Nothing /\ meant = Nothing /\ derailed = FALSE

-----------------------------------------------------------------------------
(* The broker.                                                             *)

\* The size of a packet on the wire.
Size(length) == 1 + Len(LengthBytes(length)) + length

Unmarked(values) == [i \in DOMAIN values |-> Byte(values[i], FALSE)]

\* Once the reader is derailed it no longer matters which packet is the next.
Sent(packet) == unread' = IF derailed THEN unread ELSE Append(unread, packet)

\* A packet of any type, length and content, a PUBLISH without a topic too.
Send(publish, length) ==
    /\ open /\ Len(wire) + Size(length) <= MaxWire
    /\ \E body \in [1 .. length -> Contents] :
         wire' = wire \o <<Byte(IF publish THEN PublishByte ELSE OtherByte, TRUE)>>
                      \o Unmarked(LengthBytes(length)) \o Unmarked(body)
    /\ Sent(Message(publish, length, Size(length) <= InBuffer))
    /\ UNCHANGED <<open, reader, got, meant, derailed>>

\* A length that continues past its fourth digit.
SendMalformed ==
    /\ open /\ Len(wire) + 6 <= MaxWire
    /\ wire' = wire \o <<Byte(OtherByte, TRUE)>>
                    \o [i \in 1 .. 5 |-> Byte(PublishByte, FALSE)]
    /\ Sent(Nothing)
    /\ UNCHANGED <<open, reader, got, meant, derailed>>

-----------------------------------------------------------------------------
(* The reader.                                                             *)

Value == Head(wire).value

\* Between packets.
AtRest == /\ phase' = "type" /\ digits' = <<>> /\ due' = 0 /\ read' = 0
          /\ isPublish' = FALSE

ReadType ==
    /\ open /\ phase = "type" /\ wire # <<>>
    /\ isPublish' = (Value = PublishByte)
    /\ phase' = "length" /\ digits' = <<>> /\ due' = 0 /\ read' = 1
    /\ wire' = Tail(wire)
    /\ UNCHANGED <<open, unread, got, meant, derailed>>

\* The two bytes of the topic length of a PUBLISH are read without asking
\* whether the packet has them.
Short(publish, length) == publish /\ length < 2

\* How many bytes readPacket() reads after the length.
Due(publish, length) == IF Short(publish, length) THEN 2 ELSE length

\* Mutant of Complete: the header is not counted against the buffer.
CompleteMutant(length, size) ==
    /\ got' = Message(isPublish, length, length <= InBuffer)
    /\ meant' = IF unread = <<>> THEN Nothing ELSE Head(unread)
    /\ unread' = IF unread = <<>> THEN <<>> ELSE Tail(unread)
    /\ AtRest

\* The packet is complete: kept, unless it is larger than the buffer.
Complete(length, size) ==
    /\ got' = Message(isPublish, length, size <= InBuffer)
    /\ meant' = IF unread = <<>> THEN Nothing ELSE Head(unread)
    /\ unread' = IF unread = <<>> THEN <<>> ELSE Tail(unread)
    /\ AtRest

ReadDigit ==
    /\ open /\ phase = "length" /\ wire # <<>>
    /\ LET field == ReadLength(Append(digits, Value))
       IN  /\ field.status # "killed"
           /\ CASE field.status = "waiting" ->
                     /\ digits' = Append(digits, Value) /\ read' = read + 1
                     /\ UNCHANGED <<phase, isPublish, due, unread, got, meant, derailed>>
                [] field.status = "ok" /\ Due(isPublish, field.length) = 0 ->
                     Complete(field.length, read + 1) /\ UNCHANGED derailed
                [] OTHER ->
                     /\ digits' = Append(digits, Value) /\ read' = read + 1
                     /\ due' = Due(isPublish, field.length)
                     /\ phase' = "body"
                     /\ derailed' = (derailed \/ Short(isPublish, field.length))
                     /\ unread' = IF derailed' THEN <<>> ELSE unread
                     /\ UNCHANGED <<isPublish, got, meant>>
    /\ wire' = Tail(wire)
    /\ UNCHANGED open

\* Mutant of Kill: the session is given up, but its transport is not stopped.
KillMutant ==
    /\ open /\ phase = "length" /\ wire # <<>>
    /\ ReadLength(Append(digits, Value)).status = "killed"
    /\ wire' = Tail(wire)
    /\ unread' = IF unread = <<>> THEN <<>> ELSE Tail(unread)
    /\ AtRest
    /\ UNCHANGED <<open, got, meant, derailed>>

\* len == 5: four digits and no end.  The session is over.
Kill ==
    /\ open /\ phase = "length" /\ wire # <<>>
    /\ ReadLength(Append(digits, Value)).status = "killed"
    /\ open' = FALSE /\ wire' = <<>> /\ unread' = <<>>
    /\ AtRest
    /\ UNCHANGED <<got, meant, derailed>>

ReadBody ==
    /\ open /\ phase = "body" /\ wire # <<>>
    /\ IF due = 1
       THEN Complete(ReadLength(digits).length, read + 1)
       ELSE /\ due' = due - 1 /\ read' = read + 1
            /\ UNCHANGED <<phase, isPublish, digits, unread, got, meant>>
    /\ wire' = Tail(wire)
    /\ UNCHANGED <<open, derailed>>

\* The next byte does not come within socketTimeout: readPacket() returns 0.
Stall ==
    /\ open /\ phase # "type"
    /\ AtRest
    /\ derailed' = TRUE /\ unread' = <<>>
    /\ UNCHANGED <<open, wire, got, meant>>

\* loop() gives the session up, or the caller disconnects: between two packets.
Close ==
    /\ open /\ phase = "type"
    /\ open' = FALSE /\ wire' = <<>> /\ unread' = <<>>
    /\ UNCHANGED <<reader, got, meant, derailed>>

\* connect() opens a new connection.
Reopen ==
    /\ ~open
    /\ open' = TRUE /\ got' = Nothing /\ meant' = Nothing /\ derailed' = FALSE
    /\ UNCHANGED <<wire, unread, reader>>

ReaderNext ==
    \/ \E publish \in BOOLEAN, length \in Lengths : Send(publish, length)
    \/ SendMalformed
    \/ ReadType \/ ReadDigit \/ Kill \/ ReadBody
    \/ Stall
    \/ Close \/ Reopen

ReaderSpec == ReaderInit /\ [][ReaderNext]_readerVars

-----------------------------------------------------------------------------

\* As long as no byte came late and no PUBLISH was too short for the length of
\* its topic, loop() begins each readPacket() at the first byte of a packet,
\* whatever the packets: readPacket() leaves the stream at the end of the
\* packet it read, kept or dropped, or closes the connection.
StaysInStep == open /\ phase = "type" /\ ~derailed /\ wire # <<>> => Head(wire).first

\* On the same terms, what readPacket() makes of a packet (its type, its
\* length, and whether it fits the buffer) is what the broker sent:
\* a message is dropped just when the packet is larger than bufferSize, and
\* nothing dropped or malformed is taken for the message after it.
ReadsWhatWasSent == ~derailed => got = meant
=============================================================================
