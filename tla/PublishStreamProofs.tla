------------------------ MODULE PublishStreamProofs -------------------------
(***************************************************************************)
(* The length field round trip, for every radix and width; the framing of  *)
(* the packets publish() and publish_P() report as sent and of streamed    *)
(* ones; and readPacket(), which stays in step with the packets it reads.  *)
(***************************************************************************)
EXTENDS PublishStream, PacketReader, SequenceTheorems, TLAPS

\* Quotient and remainder, the arithmetic the digits rest on.
LEMMA DivMod ==
    ASSUME NEW n \in Nat
    PROVE  /\ n \div Radix \in Nat /\ n % Radix \in 0 .. Radix - 1
           /\ n = Radix * (n \div Radix) + (n % Radix)
BY LengthAssumption, SMT

\* A length below the radix has one digit.
LEMMA SmallDigit ==
    ASSUME NEW d \in Nat, d < Radix
    PROVE  d % Radix = d
BY LengthAssumption, SMT

\* Digit and continuation bit of a byte made from a digit.
LEMMA ByteParts ==
    ASSUME NEW d \in 0 .. Radix - 1
    PROVE  /\ Digit(d) = d /\ ~Continues(d)
           /\ Digit(Radix + d) = d /\ Continues(Radix + d)
<1>1. d % Radix = d /\ (Radix + d) % Radix = d
  BY LengthAssumption, SMT
<1> QED  BY <1>1, LengthAssumption, SMT DEF Digit, Continues

\* A field has one end, and the reader stops there whatever bytes follow it.
LEMMA ReadsToTheEnd ==
    ASSUME NEW s \in Seq(Nat), NEW k \in 1 .. 4, EndsAt(s, k)
    PROVE  ReadLength(s) =
             [status |-> "ok", length |-> FieldValue(s, k), used |-> k]
<1> DEFINE last == CHOOSE j \in 1 .. 4 : EndsAt(s, j)
<1>1. last \in 1 .. 4 /\ EndsAt(s, last)
  OBVIOUS
<1>2. ASSUME NEW j \in 1 .. 4, EndsAt(s, j)
      PROVE  ~(k < j) /\ ~(j < k)
  <2>1. ASSUME k < j PROVE FALSE
    <3>1. k \in 1 .. j - 1
      BY <2>1
    <3> QED  BY <3>1, <1>2 DEF EndsAt
  <2>2. ASSUME j < k PROVE FALSE
    <3>1. j \in 1 .. k - 1
      BY <2>2
    <3> QED  BY <3>1, <1>2 DEF EndsAt
  <2> QED  BY <2>1, <2>2
<1>3. last = k
  <2> HIDE DEF last
  <2> QED  BY <1>1, <1>2
<1> QED  BY <1>3 DEF ReadLength

\* readPacket() reads back every length buildHeader() wrote, in exactly the
\* bytes it wrote, and does not look at those that follow.
THEOREM LengthRoundTrip ==
    ASSUME NEW n \in 0 .. Width - 1, NEW rest \in Seq(Nat)
    PROVE  /\ ReadLength(LengthBytes(n) \o rest).status = "ok"
           /\ ReadLength(LengthBytes(n) \o rest).length = n
           /\ ReadLength(LengthBytes(n) \o rest).used = Len(LengthBytes(n))
<1> DEFINE d1 == n % Radix
           q1 == n \div Radix
           d2 == q1 % Radix
           q2 == q1 \div Radix
<1>1. ToUint16(n) = n
  BY LengthAssumption, SMT DEF ToUint16
<1>2. /\ d1 \in 0 .. Radix - 1 /\ q1 \in Nat /\ n = Radix * q1 + d1
  BY DivMod, SMT
<1>3. /\ d2 \in 0 .. Radix - 1 /\ q2 \in Nat /\ q1 = Radix * q2 + d2
  BY DivMod, <1>2
<1>4. q2 < Radix
  <2> HIDE DEF q2, q1, d1, d2
  <2> SUFFICES ASSUME q2 >= Radix PROVE FALSE
    BY <1>3, LengthAssumption, SMT
  <2>1. Radix * q2 >= Radix * Radix
    BY <1>3, LengthAssumption, SMT
  <2>2. q1 >= Radix * Radix
    BY <2>1, <1>3, LengthAssumption, SMT
  <2>3. Radix * q1 >= Radix * (Radix * Radix)
    BY <2>2, <1>2, LengthAssumption, SMT
  <2>4. n >= Radix * Radix * Radix
    BY <2>3, <1>2, LengthAssumption, SMT
  <2> QED  BY <2>4, LengthAssumption, SMT
<1> DEFINE d3 == q2 % Radix
<1>5. d3 = q2
  BY <1>3, <1>4, SmallDigit
<1> DEFINE s == LengthBytes(n) \o rest
<1> HIDE DEF s
<1>6. CASE q1 = 0
  <2>1. LengthBytes(n) = <<d1>>
    BY <1>1, <1>6 DEF LengthBytes
  <2>2. /\ <<d1>> \in Seq(Nat) /\ Len(<<d1>>) = 1
        /\ s \in Seq(Nat) /\ Len(s) >= 1 /\ s[1] = d1
    BY <2>1, <1>2, LengthAssumption DEF s
  <2>3. EndsAt(s, 1)
    BY <2>2, <1>2, ByteParts DEF EndsAt
  <2>4. FieldValue(s, 1) = n
    BY <2>2, <1>2, <1>6, ByteParts, LengthAssumption DEF FieldValue
  <2>5. ReadLength(s) = [status |-> "ok", length |-> n, used |-> 1]
    BY <2>2, <2>3, <2>4, ReadsToTheEnd, SMT
  <2> QED  BY <2>1, <2>2, <2>5 DEF s
<1>7. CASE q1 # 0 /\ q2 = 0
  <2>1. q1 = d2
    BY <1>3, <1>7, LengthAssumption, SMT
  <2>2. LengthBytes(n) = <<Radix + d1, d2>>
    BY <1>1, <1>7 DEF LengthBytes
  <2>3. /\ <<Radix + d1, d2>> \in Seq(Nat) /\ Len(<<Radix + d1, d2>>) = 2
        /\ s \in Seq(Nat) /\ Len(s) >= 2 /\ s[1] = Radix + d1 /\ s[2] = d2
    BY <2>2, <1>2, <1>3, LengthAssumption DEF s
  <2>4. EndsAt(s, 2)
    BY <2>3, <1>2, <1>3, ByteParts DEF EndsAt
  <2>5. Digit(s[1]) = d1 /\ Digit(s[2]) = d2
    BY <2>3, <1>2, <1>3, ByteParts
  <2>6. FieldValue(s, 2) = n
    <3> HIDE DEF d1, d2, q1, q2
    <3> QED  BY <2>1, <2>5, <1>2, <1>3, LengthAssumption, SMT DEF FieldValue
  <2>7. ReadLength(s) = [status |-> "ok", length |-> n, used |-> 2]
    BY <2>3, <2>4, <2>6, ReadsToTheEnd, SMT
  <2> QED  BY <2>2, <2>3, <2>7 DEF s
<1>8. CASE q1 # 0 /\ q2 # 0
  <2>1. LengthBytes(n) = <<Radix + d1, Radix + d2, d3>>
    BY <1>1, <1>8 DEF LengthBytes
  <2>2. /\ <<Radix + d1, Radix + d2, d3>> \in Seq(Nat)
        /\ Len(<<Radix + d1, Radix + d2, d3>>) = 3
        /\ s \in Seq(Nat) /\ Len(s) >= 3
        /\ s[1] = Radix + d1 /\ s[2] = Radix + d2 /\ s[3] = d3
    BY <2>1, <1>2, <1>3, <1>5, LengthAssumption DEF s
  <2>3. d3 \in 0 .. Radix - 1
    BY <1>3, <1>4, <1>5, LengthAssumption
  <2>4. EndsAt(s, 3)
    BY <2>2, <2>3, <1>2, <1>3, ByteParts DEF EndsAt
  <2>5. Digit(s[1]) = d1 /\ Digit(s[2]) = d2 /\ Digit(s[3]) = d3
    BY <2>2, <2>3, <1>2, <1>3, ByteParts
  <2>6. FieldValue(s, 3) = d1 + Radix * d2 + Radix * Radix * d3
    <3> HIDE DEF d1, d2, d3, q1, q2
    <3> QED  BY <2>3, <2>5, <1>2, <1>3, LengthAssumption, SMT DEF FieldValue
  <2>7. n = d1 + Radix * d2 + Radix * Radix * d3
    <3> HIDE DEF d1, d2, d3, q1, q2
    <3>1. n = Radix * (Radix * q2 + d2) + d1
      BY <1>2, <1>3
    <3>2. Radix * (Radix * q2 + d2) = Radix * Radix * q2 + Radix * d2
      BY <1>2, <1>3, LengthAssumption, SMT
    <3> QED  BY <3>1, <3>2, <1>2, <1>3, <1>5, LengthAssumption, SMT
  <2>8. ReadLength(s) = [status |-> "ok", length |-> n, used |-> 3]
    BY <2>2, <2>4, <2>6, <2>7, ReadsToTheEnd, SMT
  <2> QED  BY <2>1, <2>2, <2>8 DEF s
<1> QED  BY <1>6, <1>7, <1>8 DEF s

-----------------------------------------------------------------------------

\* The length a receiver reads from a header made for n is n narrowed to a
\* uint16_t, and so n itself when that loses nothing.
LEMMA DeclaredIsNarrowed ==
    ASSUME NEW n \in Nat
    PROVE  /\ Declared(n) = ToUint16(n)
           /\ ToUint16(n) \in 0 .. Width - 1
           /\ n < Width => ToUint16(n) = n
<1> DEFINE m == ToUint16(n)
<1>1. m \in 0 .. Width - 1 /\ (n < Width => m = n)
  BY LengthAssumption, SMT DEF ToUint16
<1>2. ToUint16(m) = m
  BY <1>1, LengthAssumption, SMT DEF ToUint16
<1>3. LengthBytes(n) = LengthBytes(m)
  BY <1>2 DEF LengthBytes
<1>4. LengthBytes(m) \o <<>> = LengthBytes(m)
  <2>1. LengthBytes(m) \in Seq(Int)
    <3>1. m % Radix \in Int /\ m \div Radix \in Nat
      BY <1>1, DivMod, SMT
    <3>2. (m \div Radix) % Radix \in Int /\ (m \div Radix) \div Radix \in Nat
      BY <3>1, DivMod, SMT
    <3>3. ((m \div Radix) \div Radix) % Radix \in Int
      BY <3>2, DivMod, SMT
    <3> HIDE DEF m
    <3> QED  BY <3>1, <3>2, <3>3, <1>2, LengthAssumption DEF LengthBytes
  <2> QED  BY <2>1
<1>5. <<>> \in Seq(Nat)
  OBVIOUS
<1>6. Declared(n) = m
  <2> HIDE DEF m
  <2>1. ReadLength(LengthBytes(m) \o <<>>).length = m
    BY <1>1, <1>5, LengthRoundTrip
  <2> QED  BY <2>1, <1>3, <1>4 DEF Declared
<1> QED  BY <1>1, <1>6

\* Only beginPublish() leaves a packet open for write() and endPublish().
OnlyStreamsOpen == packet.phase = "open" => packet.route = "stream"

\* The inductive invariant.
FramingInv == TypeOK /\ OnlyStreamsOpen /\ SentPacketsAreWhole

\* Nothing is written at first.
LEMMA FramingInit == Init => FramingInv
BY DEF Init, FramingInv, TypeOK, OnlyStreamsOpen, SentPacketsAreWhole,
       NoPacket, Packet

\* Whatever the buffer size, the topics and the payloads: the size check keeps
\* what publish() sends below the width of buildHeader()'s length.
LEMMA FramingStep == FramingInv /\ [Next]_vars => FramingInv'
<1> SUFFICES ASSUME FramingInv, [Next]_vars PROVE FramingInv'
  OBVIOUS
<1> USE DEF FramingInv, TypeOK, OnlyStreamsOpen, SentPacketsAreWhole, Packet,
           Outcome
<1>1. ASSUME NEW t \in TopicLengths, NEW p \in PayloadLengths
      PROVE  /\ Remaining(t, p) \in Nat
             /\ Remaining(t, 0) \in Nat
             /\ Declared(Remaining(t, p)) \in Nat
             /\ Accepted(Remaining(t, p)) \subseteq Nat
             /\ Accepted(Remaining(t, 0)) \subseteq Nat
             /\ p \in Nat
  <2>1. Remaining(t, p) \in Nat /\ Remaining(t, 0) \in Nat /\ p \in Nat
    BY StreamAssumption, SMT DEF Remaining
  <2>2. Declared(Remaining(t, p)) \in Nat
    BY <2>1, DeclaredIsNarrowed, LengthAssumption, SMT
  <2> QED  BY <2>1, <2>2 DEF Accepted
<1>2. ASSUME NEW t \in TopicLengths, NEW p \in PayloadLengths, Publish(t, p)
      PROVE  FramingInv'
  <2> DEFINE length == Remaining(t, p)
  <2>1. CASE transport = "up" /\ Fits(t, p)
    <3>1. length < Width
      BY <1>1, <2>1, StreamAssumption, LengthAssumption, SMT
      DEF Fits, Remaining, MaxHeaderSize
    <3>2. Declared(length) = length /\ ToUint16(length) = length
      BY <1>1, <3>1, DeclaredIsNarrowed
    <3>3. PICK sent \in Accepted(length) :
            /\ packet' = [route |-> "publish", total |-> length,
                          declared |-> length, body |-> sent,
                          due |-> 0, phase |-> "closed"]
            /\ result' = Outcome(sent = length)
            /\ transport' = IF sent = length THEN "up" ELSE "down"
      BY <1>2, <2>1, <3>2 DEF Publish
    <3> HIDE DEF length
    <3> QED  BY <1>1, <3>3 DEF length
  <2>2. CASE ~(transport = "up" /\ Fits(t, p))
    BY <1>2, <2>2 DEF Publish, NoPacket
  <2> QED  BY <2>1, <2>2
<1>3. ASSUME NEW t \in TopicLengths, NEW p \in PayloadLengths, PublishP(t, p)
      PROVE  FramingInv'
  <2>1. CASE transport = "up"
    <3>1. PICK sent \in Accepted(Remaining(t, p)) :
            /\ packet' = [route |-> "publish_P", total |-> Remaining(t, p),
                          declared |-> Remaining(t, p), body |-> sent,
                          due |-> 0, phase |-> "closed"]
            /\ result' = Outcome(sent = Remaining(t, p))
            /\ transport' = IF sent = Remaining(t, p) THEN "up" ELSE "down"
      BY <1>3, <2>1 DEF PublishP
    <3> QED  BY <1>1, <3>1
  <2>2. CASE transport # "up"
    BY <1>3, <2>2 DEF PublishP, NoPacket
  <2> QED  BY <2>1, <2>2
<1>4. ASSUME NEW t \in TopicLengths, NEW p \in PayloadLengths,
             BeginPublish(t, p)
      PROVE  FramingInv'
  <2>1. CASE transport = "up"
    <3>1. PICK sent \in Accepted(Remaining(t, 0)) :
            /\ packet' = [route |-> "stream", total |-> Remaining(t, p),
                          declared |-> Declared(Remaining(t, p)), body |-> sent,
                          due |-> p, phase |-> "open"]
            /\ result' = Outcome(sent = Remaining(t, 0))
            /\ transport' = IF sent = Remaining(t, 0) THEN "up" ELSE "down"
      BY <1>4, <2>1 DEF BeginPublish
    <3> QED  BY <1>1, <3>1
  <2>2. CASE transport # "up"
    BY <1>4, <2>2 DEF BeginPublish, NoPacket
  <2> QED  BY <2>1, <2>2
<1>5. ASSUME NEW size \in 1 .. MaxWrite, Write(size)
      PROVE  FramingInv'
  <2>1. PICK sent \in Accepted(size) :
          /\ packet' = [packet EXCEPT !.due = @ - size, !.body = @ + sent]
          /\ result' = Outcome(sent = size)
          /\ transport' = IF sent = size THEN transport ELSE "down"
    BY <1>5 DEF Write
  <2>2. sent \in Nat
    BY <1>5 DEF Accepted
  <2>3. packet.due - size \in Nat /\ packet.body + sent \in Nat
    BY <1>5, <2>2 DEF Write
  <2>4. packet' \in Packet /\ packet'.route = packet.route
    BY <2>1, <2>3
  <2>5. packet.route = "stream"
    BY <1>5 DEF Write
  <2> QED  BY <2>1, <2>4, <2>5
<1>6. CASE EndPublish
  BY <1>6 DEF EndPublish
<1>7. CASE TransportDown
  BY <1>7 DEF TransportDown
<1>8. CASE Reconnect
  BY <1>8 DEF Reconnect, NoPacket
<1>9. CASE UNCHANGED vars
  BY <1>9 DEF vars
<1> QED
  BY <1>2, <1>3, <1>4, <1>5, <1>6, <1>7, <1>8, <1>9 DEF Next

\* Every packet publish() or publish_P() reports as sent is whole and framed,
\* whatever the buffer size, the topics, the payloads and the transport's faults.
THEOREM SentWhole == Spec => []SentPacketsAreWhole
<1>1. FramingInv => SentPacketsAreWhole
  BY DEF FramingInv
<1> QED  BY <1>1, FramingInit, FramingStep, PTL DEF Spec

-----------------------------------------------------------------------------

\* The header of a streamed packet declares its length narrowed to a uint16_t, and
\* never more follows than the caller announced.
StreamInv ==
    packet.route = "stream" => /\ packet.declared = ToUint16(packet.total)
                               /\ packet.body + packet.due <= packet.total

\* Whatever pieces the caller writes and the transport takes, what the header
\* declared stands.
LEMMA StreamStep == FramingInv /\ StreamInv /\ [Next]_vars => StreamInv'
<1> SUFFICES ASSUME FramingInv, StreamInv, [Next]_vars PROVE StreamInv'
  OBVIOUS
<1> USE DEF StreamInv
<1>1. ASSUME NEW t \in TopicLengths, NEW p \in PayloadLengths, BeginPublish(t, p)
      PROVE  StreamInv'
  <2>1. CASE transport = "up"
    <3>1. PICK sent \in Accepted(Remaining(t, 0)) :
            packet' = [route |-> "stream", total |-> Remaining(t, p),
                       declared |-> Declared(Remaining(t, p)), body |-> sent,
                       due |-> p, phase |-> "open"]
      BY <1>1, <2>1 DEF BeginPublish
    <3>2. /\ p \in Nat /\ Remaining(t, p) \in Nat /\ Remaining(t, 0) \in Nat
          /\ Remaining(t, p) = Remaining(t, 0) + p
      BY StreamAssumption, SMT DEF Remaining
    <3>3. Declared(Remaining(t, p)) = ToUint16(Remaining(t, p))
      BY <3>2, DeclaredIsNarrowed
    <3>4. sent \in Nat /\ sent <= Remaining(t, 0)
      BY <3>2 DEF Accepted
    <3> QED  BY <3>1, <3>2, <3>3, <3>4
  <2>2. CASE transport # "up"
    BY <1>1, <2>2 DEF BeginPublish, NoPacket
  <2> QED  BY <2>1, <2>2
<1>2. ASSUME NEW size \in 1 .. MaxWrite, Write(size)
      PROVE  StreamInv'
  <2>1. PICK sent \in Accepted(size) :
          packet' = [packet EXCEPT !.due = @ - size, !.body = @ + sent]
    BY <1>2 DEF Write
  <2>2. sent \in Nat /\ sent <= size
    BY <1>2 DEF Accepted
  <2>3. packet.route = "stream" /\ packet \in Packet
    BY <1>2 DEF Write, FramingInv, OnlyStreamsOpen, TypeOK
  <2>4. /\ packet'.total = packet.total /\ packet'.declared = packet.declared
        /\ packet'.body = packet.body + sent /\ packet'.due = packet.due - size
    BY <2>1, <2>3 DEF Packet
  <2> QED  BY <2>2, <2>3, <2>4 DEF Packet
<1>3. CASE EndPublish
  <2>1. packet \in Packet /\ packet' = [packet EXCEPT !.phase = "closed"]
    BY <1>3 DEF EndPublish, FramingInv, TypeOK
  <2> QED  BY <2>1 DEF Packet
<1>4. ASSUME NEW t \in TopicLengths, NEW p \in PayloadLengths, Publish(t, p) \/ PublishP(t, p)
      PROVE  StreamInv'
  BY <1>4 DEF Publish, PublishP, NoPacket
<1>5. CASE TransportDown \/ Reconnect \/ UNCHANGED vars
  BY <1>5 DEF TransportDown, Reconnect, NoPacket, vars
<1> QED  BY <1>1, <1>2, <1>3, <1>4, <1>5 DEF Next

\* What beginPublish() declared, and the bytes that follow it, at all times.
LEMMA StreamInvariance == Spec => [](FramingInv /\ StreamInv)
<1>1. Init => StreamInv
  BY DEF Init, StreamInv, NoPacket
<1> QED  BY <1>1, FramingInit, FramingStep, StreamStep, PTL DEF Spec

\* A streamed payload whose remaining length fits a uint16_t is framed, in whatever
\* pieces it was written, as long as the transport took every piece.
THEOREM SmallStreamsStayFramed == Spec => []SmallStreamsAreFramed
<1>1. FramingInv /\ StreamInv => SmallStreamsAreFramed
  BY DeclaredIsNarrowed DEF FramingInv, TypeOK, Packet, StreamInv, SmallStreamsAreFramed
<1> QED  BY <1>1, StreamInvariance, PTL

\* And no other is: a streamed packet that went out whole is framed if, and only
\* if, its remaining length fits a uint16_t.
THEOREM OnlySmallStreamsAreFramed ==
    Spec => [](packet.route = "stream" /\ packet.body = packet.total
               => (packet.declared = packet.body <=> packet.total < Width))
<1>1. FramingInv /\ StreamInv =>
        (packet.route = "stream" /\ packet.body = packet.total
         => (packet.declared = packet.body <=> packet.total < Width))
  <2> SUFFICES ASSUME FramingInv, StreamInv, packet.route = "stream", packet.body = packet.total
               PROVE  packet.declared = packet.body <=> packet.total < Width
    OBVIOUS
  <2>1. packet.total \in Nat /\ packet.declared = ToUint16(packet.total)
    BY DEF FramingInv, TypeOK, Packet, StreamInv
  <2>2. /\ ToUint16(packet.total) \in 0 .. Width - 1
        /\ packet.total < Width => ToUint16(packet.total) = packet.total
    BY <2>1, DeclaredIsNarrowed
  <2> QED  BY <2>1, <2>2, LengthAssumption
<1> QED  BY <1>1, StreamInvariance, PTL
-----------------------------------------------------------------------------
(***************************************************************************)
(* PacketReader.  The bytes under way are those of the packets not read,   *)
(* one after the other, the first of which readPacket() may be in.         *)
(***************************************************************************)

\* What is under way.
Bytes == [value : Nat, first : BOOLEAN]

\* The packets a broker sends: Nothing stands for the malformed one.
Wellformed == {Message(x[1], x[2], Size(x[2]) <= InBuffer) : x \in BOOLEAN \X (0 .. Width - 1)}
Sendable == Wellformed \cup {Nothing}

\* Its first byte, its length field, and how many bytes it has.
TypeByte(p) == IF p.type = "publish" THEN PublishByte ELSE OtherByte
Field(p) == IF p = Nothing THEN [i \in 1 .. 5 |-> PublishByte] ELSE LengthBytes(p.length)
Extent(p) == IF p = Nothing THEN 6 ELSE Size(p.length)

\* b is byte j of packet p, from 0.
Carries(b, p, j) ==
    /\ j = 0 => b = Byte(TypeByte(p), TRUE)
    /\ j \in 1 .. Len(Field(p)) => b.value = Field(p)[j]

\* Packet i of u begins at start[i] of w; the first one did so before the r
\* bytes of it that are already read.
Begins(start, w, u, r) ==
    /\ start \in [1 .. Len(u) + 1 -> Int]
    /\ start[1] = 1 - r /\ start[Len(u) + 1] = Len(w) + 1
    /\ \A i \in 1 .. Len(u) :
         /\ start[i + 1] = start[i] + Extent(u[i]) /\ start[i + 1] <= Len(w) + 1
         /\ \A j \in 0 .. Extent(u[i]) - 1 :
              start[i] + j >= 1 => Carries(w[start[i] + j], u[i], j)

\* What is read of the first packet.
Current ==
    /\ phase # "type" => unread # <<>> /\ read >= 1 /\ isPublish = (unread[1].type = "publish")
    /\ phase = "length" =>
         /\ Len(digits) < Len(Field(unread[1])) /\ Len(digits) <= 3 /\ read = Len(digits) + 1
         /\ \A d \in 1 .. Len(digits) : digits[d] = Field(unread[1])[d]
    /\ phase = "body" =>
         /\ unread[1] # Nothing /\ digits = LengthBytes(unread[1].length)
         /\ due >= 1 /\ read + due = Extent(unread[1])

\* Types while in step with the broker.
InStepTypes ==
    /\ wire \in Seq(Bytes) /\ unread \in Seq(Sendable)
    /\ digits \in Seq(Nat) /\ due \in Nat /\ read \in Nat

\* Between packets nothing of one is kept, and off line nothing is under way.
AtRestBetween ==
    /\ phase \in {"type", "length", "body"}
    /\ phase = "type" => digits = <<>> /\ due = 0 /\ read = 0
    /\ ~open => phase = "type" /\ wire = <<>> /\ unread = <<>>

\* The inductive invariant of the reader.
ReaderInv ==
    /\ AtRestBetween
    /\ ~derailed => got = meant
    /\ open /\ ~derailed => InStepTypes /\ Current /\ \E start : Begins(start, wire, unread, read)

\* The length field of n: one to three digits, of which the last one ends it.
LEMMA FieldDigits ==
    ASSUME NEW n \in 0 .. Width - 1
    PROVE  /\ LengthBytes(n) \in Seq(Nat) /\ Len(LengthBytes(n)) \in 1 .. 3
           /\ \A k \in 1 .. Len(LengthBytes(n)) - 1 : Continues(LengthBytes(n)[k])
<1> DEFINE d1 == n % Radix
           q1 == n \div Radix
           d2 == q1 % Radix
           q2 == q1 \div Radix
           d3 == q2 % Radix
<1>1. ToUint16(n) = n BY LengthAssumption, SMT DEF ToUint16
<1>2. d1 \in 0 .. Radix - 1 /\ q1 \in Nat BY DivMod, SMT
<1>3. d2 \in 0 .. Radix - 1 /\ q2 \in Nat BY <1>2, DivMod
<1>4. d3 \in 0 .. Radix - 1 BY <1>3, DivMod
<1>5. LengthBytes(n) = IF q1 = 0 THEN <<d1>>
                       ELSE IF q2 = 0 THEN <<Radix + d1, d2>> ELSE <<Radix + d1, Radix + d2, d3>>
  BY <1>1 DEF LengthBytes
<1>6. Continues(Radix + d1) /\ Continues(Radix + d2) BY <1>2, <1>3, ByteParts
<1> HIDE DEF d1, d2, d3, q1, q2
<1> QED BY <1>2, <1>3, <1>4, <1>5, <1>6, LengthAssumption

\* A field all of whose bytes go on is waited for, up to its fourth byte.
LEMMA UnendedField ==
    ASSUME NEW d \in Seq(Nat), \A k \in 1 .. Len(d) : Continues(d[k])
    PROVE  ReadLength(d).status = (IF Len(d) >= 4 THEN "killed" ELSE "waiting")
<1>1. ~ \E k \in 1 .. 4 : EndsAt(d, k) BY DEF EndsAt
<1> QED BY <1>1 DEF ReadLength

\* And one that is whole is read.
LEMMA WholeField ==
    ASSUME NEW n \in 0 .. Width - 1
    PROVE  /\ ReadLength(LengthBytes(n)).status = "ok" /\ ReadLength(LengthBytes(n)).length = n
<1>1. LengthBytes(n) \o <<>> = LengthBytes(n) BY FieldDigits
<1>2. <<>> \in Seq(Nat) OBVIOUS
<1>3. /\ ReadLength(LengthBytes(n) \o <<>>).status = "ok"
      /\ ReadLength(LengthBytes(n) \o <<>>).length = n
  BY <1>2, LengthRoundTrip
<1> QED BY <1>1, <1>3

\* What a packet the broker sends is made of.
LEMMA SendableFacts ==
    ASSUME NEW p \in Sendable
    PROVE  /\ Field(p) \in Seq(Nat) /\ Len(Field(p)) \in 1 .. 5
           /\ Extent(p) \in Nat /\ Extent(p) >= 1 + Len(Field(p))
           /\ p = Nothing => Len(Field(p)) = 5 /\ \A k \in 1 .. 5 : Continues(Field(p)[k])
           /\ p # Nothing =>
                /\ p.length \in 0 .. Width - 1 /\ p.kept = (Size(p.length) <= InBuffer)
                /\ p.type \in {"publish", "other"}
                /\ Field(p) = LengthBytes(p.length) /\ Len(Field(p)) \in 1 .. 3
                /\ Extent(p) = 1 + Len(Field(p)) + p.length
                /\ p = Message(p.type = "publish", p.length, p.kept)
                /\ \A k \in 1 .. Len(Field(p)) - 1 : Continues(Field(p)[k])
<1>1. CASE p = Nothing
  <2>1. Field(p) = [i \in 1 .. 5 |-> PublishByte] /\ Extent(p) = 6 BY <1>1 DEF Field, Extent
  <2>2. PublishByte \in Nat /\ Continues(PublishByte) BY LengthAssumption DEF PublishByte, Continues
  <2> QED BY <1>1, <2>1, <2>2
<1>2. CASE p # Nothing
  <2>1. PICK publish \in BOOLEAN, n \in 0 .. Width - 1 :
           p = Message(publish, n, Size(n) <= InBuffer)
    BY <1>2 DEF Sendable, Wellformed
  <2>2. /\ p.length = n /\ p.kept = (Size(n) <= InBuffer) /\ (p.type = "publish") = publish
        /\ p.type \in {"publish", "other"} /\ p = Message(p.type = "publish", p.length, p.kept)
    BY <2>1 DEF Message
  <2>3. Field(p) = LengthBytes(n) /\ Extent(p) = 1 + Len(LengthBytes(n)) + n
    BY <1>2, <2>2 DEF Field, Extent, Size
  <2>4. n \in Nat BY LengthAssumption
  <2> QED BY <1>2, <2>1, <2>2, <2>3, <2>4, FieldDigits
<1> QED BY <1>1, <1>2

-----------------------------------------------------------------------------

\* A byte of a packet that ends inside w is inside w.
LEMMA InsideBytes ==
    ASSUME NEW s \in Int, NEW e \in Nat, NEW l \in Nat, NEW j \in 0 .. e - 1,
           s + e <= l + 1, s + j >= 1
    PROVE  s + j \in 1 .. l
OBVIOUS

\* The same byte, in w and in its tail.
LEMMA InsideTail ==
    ASSUME NEW a \in Int, NEW e \in Nat, NEW l \in Nat, NEW j \in 0 .. e - 1,
           a + e <= l + 1, NEW b, b = a - 1, b + j >= 1
    PROVE  a + j >= 1 /\ a + j \in 1 .. l /\ b + j \in 1 .. l - 1 /\ (b + j) + 1 = a + j
<1>1. b \in Int /\ j \in Int /\ j <= e - 1 OBVIOUS
<1>2. a + j = (b + j) + 1 /\ a + j <= l BY <1>1
<1> QED BY <1>1, <1>2

\* A byte is read: all packets begin one earlier.
LEMMA ByteRead ==
    ASSUME NEW w \in Seq(Bytes), w # <<>>, NEW u \in Seq(Sendable), NEW r \in Nat,
           NEW start, Begins(start, w, u, r)
    PROVE  \E begun : Begins(begun, Tail(w), u, r + 1)
<1> DEFINE begun == [i \in 1 .. Len(u) + 1 |-> start[i] - 1]
<1>0. Len(Tail(w)) = Len(w) - 1 /\ Len(w) \in Nat OBVIOUS
<1>1. Len(Tail(w)) = Len(w) - 1 /\ Len(w) \in Nat /\ \A k \in 1 .. Len(w) - 1 : Tail(w)[k] = w[k + 1]
  OBVIOUS
<1>2. /\ start \in [1 .. Len(u) + 1 -> Int] /\ Len(u) \in Nat
      /\ start[1] = 1 - r /\ start[Len(u) + 1] = Len(w) + 1
  BY DEF Begins
<1>3. begun \in [1 .. Len(u) + 1 -> Int] /\ begun[1] = 1 - (r + 1)
      /\ begun[Len(u) + 1] = Len(Tail(w)) + 1
  BY <1>1, <1>2
<1>4. ASSUME NEW i \in 1 .. Len(u)
      PROVE  /\ begun[i + 1] = begun[i] + Extent(u[i]) /\ begun[i + 1] <= Len(Tail(w)) + 1
             /\ \A j \in 0 .. Extent(u[i]) - 1 :
                  begun[i] + j >= 1 => Carries(Tail(w)[begun[i] + j], u[i], j)
  <2>1. PICK p : p = u[i] OBVIOUS
  <2>2. p \in Sendable /\ i \in 1 .. Len(u) + 1 /\ i + 1 \in 1 .. Len(u) + 1 BY <1>2, <2>1
  <2>3. start[i + 1] = start[i] + Extent(p) /\ start[i + 1] <= Len(w) + 1 BY <2>1 DEF Begins
  <2>4. \A j \in 0 .. Extent(p) - 1 : start[i] + j >= 1 => Carries(w[start[i] + j], p, j)
    BY <2>1 DEF Begins
  <2>5. Extent(p) \in Nat /\ start[i] \in Int /\ start[i + 1] \in Int BY <1>2, <2>2, SendableFacts
  <2>6. begun[i] = start[i] - 1 /\ begun[i + 1] = start[i + 1] - 1 BY <2>2
  <2> HIDE DEF begun
  <2>7. ASSUME NEW j \in 0 .. Extent(p) - 1, begun[i] + j >= 1
        PROVE  Carries(Tail(w)[begun[i] + j], p, j)
    <3>1. PICK a \in Int : a = start[i] BY <2>5
    <3>2. PICK e \in Nat : e = Extent(p) BY <2>5
    <3>3. PICK b : b = begun[i] OBVIOUS
    <3>6. a + e <= Len(w) + 1 /\ b = a - 1 /\ b + j >= 1 /\ j \in 0 .. e - 1
      BY <2>3, <2>6, <2>7, <3>1, <3>2, <3>3
    <3>7. a + j >= 1 /\ a + j \in 1 .. Len(w) /\ b + j \in 1 .. Len(w) - 1 /\ (b + j) + 1 = a + j
      BY <1>0, <3>6, InsideTail
    <3>4. Carries(w[a + j], p, j) BY <2>4, <3>1, <3>7
    <3>5. Tail(w)[b + j] = w[a + j] BY <1>1, <3>7
    <3> QED BY <3>3, <3>4, <3>5
  <2>8. begun[i + 1] = begun[i] + Extent(p) /\ begun[i + 1] <= Len(Tail(w)) + 1
    <3>1. PICK a \in Int : a = start[i] BY <2>5
    <3>2. PICK c \in Int : c = start[i + 1] BY <2>5
    <3>3. PICK e \in Nat : e = Extent(p) BY <2>5
    <3>4. c = a + e /\ c <= Len(w) + 1 /\ begun[i] = a - 1 /\ begun[i + 1] = c - 1
      BY <2>3, <2>6, <3>1, <3>2, <3>3
    <3>5. c - 1 = (a - 1) + e /\ c - 1 <= Len(Tail(w)) + 1 BY <1>0, <3>4
    <3> QED BY <3>3, <3>4, <3>5
  <2> QED BY <2>1, <2>7, <2>8
<1> HIDE DEF begun
<1>5. Begins(begun, Tail(w), u, r + 1) BY <1>3, <1>4 DEF Begins
<1> QED BY <1>5

\* The last byte of a packet is read: the next one is the first.
LEMMA LastByteRead ==
    ASSUME NEW w \in Seq(Bytes), w # <<>>, NEW u \in Seq(Sendable), u # <<>>, NEW r \in Nat,
           r + 1 = Extent(u[1]), NEW start, Begins(start, w, u, r)
    PROVE  \E begun : Begins(begun, Tail(w), Tail(u), 0)
<1> DEFINE begun == [i \in 1 .. Len(u) |-> start[i + 1] - 1]
<1>a. PICK y : y = Tail(w) OBVIOUS
<1>b. PICK v : v = Tail(u) OBVIOUS
<1>0. Len(y) = Len(w) - 1 /\ Len(w) \in Nat BY <1>a
<1>1. /\ Len(y) = Len(w) - 1 /\ Len(w) \in Nat /\ \A k \in 1 .. Len(w) - 1 : y[k] = w[k + 1]
      /\ Len(v) = Len(u) - 1 /\ Len(u) \in Nat \ {0}
      /\ \A k \in 1 .. Len(u) - 1 : v[k] = u[k + 1]
  BY <1>a, <1>b
<1>2. /\ start \in [1 .. Len(u) + 1 -> Int]
      /\ start[1] = 1 - r /\ start[Len(u) + 1] = Len(w) + 1 /\ start[2] = start[1] + Extent(u[1])
  BY <1>1 DEF Begins
<1>3. /\ begun \in [1 .. Len(v) + 1 -> Int] /\ begun[1] = 1 /\ begun[Len(v) + 1] = Len(y) + 1
      /\ \A i \in 1 .. Len(u) : begun[i] = start[i + 1] - 1
  <2>1. PICK n \in Nat : n = Len(v) BY <1>1
  <2>2. Len(u) = n + 1 BY <1>1, <2>1
  <2>3. begun = [i \in 1 .. n + 1 |-> start[i + 1] - 1] BY <2>2
  <2>4. start \in [1 .. n + 2 -> Int] BY <1>2, <2>2
  <2>5. \A i \in 1 .. n + 1 : i + 1 \in 1 .. n + 2 BY <2>1
  <2>6. begun \in [1 .. n + 1 -> Int] BY <2>3, <2>4, <2>5
  <2>7. start[2] = 2
    <3>1. PICK x : x = start[1] OBVIOUS
    <3>2. PICK z : z = start[2] OBVIOUS
    <3>3. PICK e : e = Extent(u[1]) OBVIOUS
    <3>4. x = 1 - r /\ z = x + e /\ e = r + 1 BY <1>2, <3>1, <3>2, <3>3
    <3>5. (1 - r) + (r + 1) = 2 OBVIOUS
    <3> QED BY <3>2, <3>4, <3>5
  <2>8. begun[1] = 1
    <3>1. begun[1] = start[1 + 1] - 1 BY <2>3
    <3>2. 1 + 1 = 2 /\ 2 - 1 = 1 OBVIOUS
    <3> QED BY <2>7, <3>1, <3>2
  <2>9. start[n + 2] = Len(w) + 1 /\ (n + 1) + 1 = n + 2 BY <1>2, <2>2
  <2>10. begun[n + 1] = (Len(w) + 1) - 1 BY <2>3, <2>9
  <2>11. (Len(w) + 1) - 1 = Len(y) + 1 BY <1>0
  <2> HIDE DEF begun
  <2> QED BY <2>1, <2>2, <2>3, <2>6, <2>8, <2>10, <2>11
<1> HIDE DEF begun
<1>4. ASSUME NEW i \in 1 .. Len(v)
      PROVE  /\ begun[i + 1] = begun[i] + Extent(v[i]) /\ begun[i + 1] <= Len(y) + 1
             /\ \A j \in 0 .. Extent(v[i]) - 1 :
                  begun[i] + j >= 1 => Carries(y[begun[i] + j], v[i], j)
  <2>1. PICK n : n = i + 1 OBVIOUS
  <2>2. PICK p : p = u[n] OBVIOUS
  <2>3. n \in 1 .. Len(u) /\ v[i] = p /\ p \in Sendable BY <1>1, <2>1, <2>2
  <2>4. start[n + 1] = start[n] + Extent(p) /\ start[n + 1] <= Len(w) + 1
    BY <2>2, <2>3 DEF Begins
  <2>8. \A j \in 0 .. Extent(p) - 1 : start[n] + j >= 1 => Carries(w[start[n] + j], p, j)
    BY <2>2, <2>3 DEF Begins
  <2>5. Extent(p) \in Nat /\ start[n] \in Int /\ start[n + 1] \in Int
    <3>1. n \in 1 .. Len(u) + 1 /\ n + 1 \in 1 .. Len(u) + 1 BY <1>1, <2>3
    <3> QED BY <1>2, <2>3, <3>1, SendableFacts
  <2>6. begun[i] = start[n] - 1 /\ begun[i + 1] = start[n + 1] - 1
    <3>1. i \in 1 .. Len(u) /\ i + 1 \in 1 .. Len(u) /\ (i + 1) + 1 = n + 1 BY <1>1, <2>1
    <3> QED BY <1>3, <2>1, <3>1
  <2>7. ASSUME NEW j \in 0 .. Extent(p) - 1, begun[i] + j >= 1
        PROVE  Carries(y[begun[i] + j], p, j)
    <3>1. PICK a \in Int : a = start[n] BY <2>5
    <3>2. PICK e \in Nat : e = Extent(p) BY <2>5
    <3>3. PICK b : b = begun[i] OBVIOUS
    <3>6. a + e <= Len(w) + 1 /\ b = a - 1 /\ b + j >= 1 /\ j \in 0 .. e - 1
      BY <2>4, <2>6, <2>7, <3>1, <3>2, <3>3
    <3>7. a + j >= 1 /\ a + j \in 1 .. Len(w) /\ b + j \in 1 .. Len(w) - 1 /\ (b + j) + 1 = a + j
      BY <1>0, <3>6, InsideTail
    <3>4. Carries(w[a + j], p, j) BY <2>8, <3>1, <3>7
    <3>5. y[b + j] = w[a + j] BY <1>1, <3>7
    <3> QED BY <3>3, <3>4, <3>5
  <2>9. begun[i + 1] = begun[i] + Extent(p) /\ begun[i + 1] <= Len(y) + 1
    <3>1. PICK a \in Int : a = start[n] BY <2>5
    <3>2. PICK b \in Int : b = start[n + 1] BY <2>5
    <3>3. PICK e \in Nat : e = Extent(p) BY <2>5
    <3>4. b = a + e /\ b <= Len(w) + 1 /\ begun[i] = a - 1 /\ begun[i + 1] = b - 1
      BY <2>4, <2>6, <3>1, <3>2, <3>3
    <3>5. b - 1 = (a - 1) + e /\ b - 1 <= Len(y) + 1 BY <1>0, <3>4
    <3> QED BY <3>3, <3>4, <3>5
  <2> QED BY <2>3, <2>7, <2>9
<1>5. Begins(begun, y, v, 0) BY <1>3, <1>4 DEF Begins
<1> QED BY <1>5, <1>a, <1>b

\* The broker sends a packet p, whose bytes follow those of w in y.
LEMMA PacketSent ==
    ASSUME NEW w \in Seq(Bytes), NEW u \in Seq(Sendable), NEW r \in Nat, NEW p \in Sendable,
           NEW y, Len(y) = Len(w) + Extent(p), \A k \in 1 .. Len(w) : y[k] = w[k],
           \A j \in 0 .. Extent(p) - 1 : Carries(y[(Len(w) + 1) + j], p, j),
           NEW start, Begins(start, w, u, r)
    PROVE  \E begun : Begins(begun, y, Append(u, p), r)
<1> DEFINE begun == [i \in 1 .. Len(u) + 2 |-> IF i <= Len(u) + 1 THEN start[i] ELSE Len(w) + 1 + Extent(p)]
<1>a. PICK v : v = Append(u, p) OBVIOUS
<1>1. Len(w) \in Nat /\ Len(u) \in Nat /\ Extent(p) \in Nat /\ Extent(p) >= 1
  BY SendableFacts
<1>2. Len(v) = Len(u) + 1 /\ v[Len(u) + 1] = p /\ \A k \in 1 .. Len(u) : v[k] = u[k]
  BY <1>a, AppendProperties
<1>3. /\ start \in [1 .. Len(u) + 1 -> Int]
      /\ start[1] = 1 - r /\ start[Len(u) + 1] = Len(w) + 1
  BY DEF Begins
<1>4. /\ begun \in [1 .. Len(v) + 1 -> Int] /\ begun[1] = 1 - r /\ begun[Len(v) + 1] = Len(y) + 1
      /\ \A i \in 1 .. Len(u) + 1 : begun[i] = start[i]
      /\ begun[Len(u) + 2] = Len(w) + 1 + Extent(p)
  <2>1. \A i \in 1 .. Len(u) + 1 : begun[i] = start[i] BY <1>1
  <2>2. begun[Len(u) + 2] = Len(w) + 1 + Extent(p) BY <1>1
  <2>3. begun \in [1 .. Len(u) + 2 -> Int] BY <1>1, <1>3
  <2> HIDE DEF begun
  <2> QED BY <1>1, <1>2, <1>3, <2>1, <2>2, <2>3
<1> HIDE DEF begun
<1>5. ASSUME NEW i \in 1 .. Len(v)
      PROVE  /\ begun[i + 1] = begun[i] + Extent(v[i]) /\ begun[i + 1] <= Len(y) + 1
             /\ \A j \in 0 .. Extent(v[i]) - 1 :
                  begun[i] + j >= 1 => Carries(y[begun[i] + j], v[i], j)
  <2>1. CASE i = Len(u) + 1
    <3>1. begun[i] = Len(w) + 1 /\ begun[i + 1] = Len(w) + 1 + Extent(p) /\ v[i] = p
      <4>1. Len(u) + 1 \in 1 .. Len(u) + 1 BY <1>1
      <4>2. begun[Len(u) + 1] = Len(w) + 1 BY <1>3, <1>4, <4>1
      <4>3. i + 1 = Len(u) + 2 BY <1>1, <2>1
      <4> QED BY <1>2, <1>4, <2>1, <4>2, <4>3
    <3>2. Len(w) + 1 + Extent(p) = (Len(w) + 1) + Extent(p) /\ Len(w) + 1 + Extent(p) <= Len(y) + 1
      BY <1>1
    <3>3. \A j \in 0 .. Extent(p) - 1 : Carries(y[begun[i] + j], p, j) BY <3>1
    <3> QED BY <3>1, <3>2, <3>3
  <2>2. CASE i \in 1 .. Len(u)
    <3>1. PICK q : q = u[i] OBVIOUS
    <3>2. v[i] = q /\ q \in Sendable BY <1>2, <2>2, <3>1
    <3>3. i \in 1 .. Len(u) + 1 /\ i + 1 \in 1 .. Len(u) + 1 BY <1>1, <2>2
    <3>4. begun[i] = start[i] /\ begun[i + 1] = start[i + 1] BY <1>4, <3>3
    <3>5. start[i + 1] = start[i] + Extent(q) /\ start[i + 1] <= Len(w) + 1
      BY <2>2, <3>1 DEF Begins
    <3>8. \A j \in 0 .. Extent(q) - 1 : start[i] + j >= 1 => Carries(w[start[i] + j], q, j)
      BY <2>2, <3>1 DEF Begins
    <3>6. Extent(q) \in Nat /\ start[i] \in Int /\ start[i + 1] \in Int BY <1>3, <3>2, <3>3, SendableFacts
    <3>7. ASSUME NEW j \in 0 .. Extent(q) - 1, start[i] + j >= 1
          PROVE  Carries(y[start[i] + j], q, j)
      <4>1. start[i] + j \in 1 .. Len(w) BY <1>1, <3>5, <3>6, <3>7, InsideBytes
      <4> QED BY <1>1, <3>7, <3>8, <4>1
    <3>9. start[i + 1] <= Len(y) + 1
      <4>1. PICK c \in Int : c = start[i + 1] BY <3>6
      <4>2. PICK e \in Nat : e = Extent(p) BY <1>1
      <4>3. PICK l \in Nat : l = Len(w) BY <1>1
      <4>4. c <= l + 1 /\ Len(y) = l + e BY <3>5, <4>1, <4>2, <4>3
      <4>5. c <= (l + e) + 1 BY <4>4
      <4> QED BY <4>1, <4>4, <4>5
    <3> QED BY <3>2, <3>4, <3>5, <3>7, <3>9
  <2>3. i = Len(u) + 1 \/ i \in 1 .. Len(u)
    <3>1. Len(v) = Len(u) + 1 /\ Len(u) \in Nat BY <1>a, AppendProperties
    <3> QED BY <3>1
  <2> QED BY <2>1, <2>2, <2>3
<1>6. Begins(begun, y, v, r) BY <1>4, <1>5 DEF Begins
<1> QED BY <1>6, <1>a

\* The next byte is the one of the first packet that is next.
LEMMA NextByte ==
    ASSUME NEW w \in Seq(Bytes), w # <<>>, NEW u \in Seq(Sendable), NEW r \in Nat,
           NEW start, Begins(start, w, u, r)
    PROVE  /\ u = <<>> => r # 0
           /\ u # <<>> /\ r < Extent(u[1]) => Carries(Head(w), u[1], r)
<1>1. Len(w) \in Nat \ {0} /\ Head(w) = w[1] OBVIOUS
<1>2. ASSUME u = <<>> PROVE r # 0 BY <1>1, <1>2 DEF Begins
<1>3. ASSUME u # <<>>, r < Extent(u[1]) PROVE Carries(Head(w), u[1], r)
  <2>1. 1 \in 1 .. Len(u) /\ u[1] \in Sendable BY <1>3
  <2>2. Extent(u[1]) \in Nat /\ start[1] = 1 - r BY <2>1, SendableFacts DEF Begins
  <2>3. r \in 0 .. Extent(u[1]) - 1 /\ start[1] + r = 1 BY <1>3, <2>2
  <2>4. start[1] + r >= 1 => Carries(w[start[1] + r], u[1], r) BY <2>1, <2>3 DEF Begins
  <2> QED BY <1>1, <2>3, <2>4
<1> QED BY <1>2, <1>3

-----------------------------------------------------------------------------

\* A function on 1 .. n is a sequence of length n.
LEMMA FunctionIsSeq ==
    ASSUME NEW S, NEW n \in Nat, NEW g \in [1 .. n -> S]
    PROVE  g \in Seq(S) /\ Len(g) = n
OBVIOUS

\* One sequence after another.
LEMMA Joined ==
    ASSUME NEW S, NEW s \in Seq(S), NEW t \in Seq(S), NEW y, y = s \o t
    PROVE  /\ y \in Seq(S) /\ Len(y) = Len(s) + Len(t)
           /\ \A k \in 1 .. Len(y) : y[k] = IF k <= Len(s) THEN s[k] ELSE t[k - Len(s)]
BY ConcatProperties

\* A first byte, the bytes of a field and those of a body, after those of w.
LEMMA ThreeParts ==
    ASSUME NEW S, NEW w \in Seq(S), NEW b \in S, NEW f \in Seq(S), NEW d \in Seq(S),
           NEW y, y = w \o <<b>> \o f \o d
    PROVE  /\ y \in Seq(S) /\ Len(y) = ((Len(w) + 1) + Len(f)) + Len(d)
           /\ \A k \in 1 .. Len(w) : y[k] = w[k]
           /\ y[Len(w) + 1] = b
           /\ \A k \in 1 .. Len(f) : y[(Len(w) + 1) + k] = f[k]
<1>1. PICK t : t = w \o <<b>> OBVIOUS
<1>2. PICK m : m = t \o f OBVIOUS
<1>3. Len(w) \in Nat /\ Len(f) \in Nat /\ Len(d) \in Nat OBVIOUS
<1>4. t \in Seq(S) /\ Len(t) = Len(w) + 1 BY <1>1
<1>5. t[Len(w) + 1] = b /\ \A k \in 1 .. Len(w) : t[k] = w[k] BY <1>1, <1>3
<1>6. /\ m \in Seq(S) /\ Len(m) = Len(t) + Len(f)
      /\ \A k \in 1 .. Len(m) : m[k] = IF k <= Len(t) THEN t[k] ELSE f[k - Len(t)]
  <2>1. t \in Seq(S) /\ f \in Seq(S) /\ m = t \o f BY <1>2, <1>4
  <2> QED BY ONLY <2>1, Joined
<1>8. y = m \o d BY <1>1, <1>2
<1>9. /\ y \in Seq(S) /\ Len(y) = Len(m) + Len(d)
      /\ \A k \in 1 .. Len(y) : y[k] = IF k <= Len(m) THEN m[k] ELSE d[k - Len(m)]
  <2>1. m \in Seq(S) /\ d \in Seq(S) /\ y = m \o d BY <1>6, <1>8
  <2> QED BY ONLY <2>1, Joined
<1>11. \A k \in 1 .. Len(m) : y[k] = m[k] BY <1>3, <1>4, <1>6, <1>9
<1>12. \A k \in 1 .. Len(t) : y[k] = t[k] BY <1>3, <1>4, <1>6, <1>11
<1>13. ASSUME NEW k \in 1 .. Len(f) PROVE y[(Len(w) + 1) + k] = f[k]
  <2>1. PICK n : n = (Len(w) + 1) + k OBVIOUS
  <2>2. n \in 1 .. Len(m) /\ ~(n <= Len(t)) /\ n - Len(t) = k BY <1>3, <1>4, <1>6, <2>1
  <2> QED BY <1>6, <1>11, <2>1, <2>2
<1>14. \A k \in 1 .. Len(w) : y[k] = w[k] BY <1>3, <1>4, <1>5, <1>12
<1>15. y[Len(w) + 1] = b BY <1>3, <1>4, <1>5, <1>12
<1>16. Len(y) = ((Len(w) + 1) + Len(f)) + Len(d) BY <1>3, <1>4, <1>6, <1>9
<1> QED BY <1>9, <1>13, <1>14, <1>15, <1>16

\* After any packet the broker sends, all are in step.
LEMMA StaysAfterSending ==
    ASSUME ReaderInv, NEW p \in Sendable, NEW f \in Seq(Bytes), NEW d \in Seq(Bytes),
           Len(f) = Len(Field(p)), \A k \in 1 .. Len(f) : f[k].value = Field(p)[k],
           (1 + Len(f)) + Len(d) = Extent(p),
           open, wire' = wire \o <<Byte(TypeByte(p), TRUE)>> \o f \o d,
           Sent(p), UNCHANGED <<open, reader, got, meant, derailed>>
    PROVE  ReaderInv'
<1>1. /\ open' = open /\ derailed' = derailed /\ got' = got /\ meant' = meant /\ phase' = phase
      /\ isPublish' = isPublish /\ digits' = digits /\ due' = due /\ read' = read
  BY DEF reader
<1>2. AtRestBetween' /\ (~derailed' => got' = meant') BY <1>1 DEF ReaderInv, AtRestBetween
<1>3. ASSUME ~derailed
      PROVE  InStepTypes' /\ Current' /\ \E start : Begins(start, wire', unread', read')
  <2>1. InStepTypes /\ Current BY <1>3 DEF ReaderInv
  <2>2. PICK start : Begins(start, wire, unread, read) BY <1>3 DEF ReaderInv
  <2>3. /\ wire \in Seq(Bytes) /\ unread \in Seq(Sendable)
        /\ digits \in Seq(Nat) /\ due \in Nat /\ read \in Nat
    BY <2>1 DEF InStepTypes
  <2>4. unread' = Append(unread, p) BY <1>3 DEF Sent
  <2>5. Byte(TypeByte(p), TRUE) \in Bytes
    BY LengthAssumption DEF Byte, TypeByte, PublishByte, OtherByte, Bytes
  <2>6. PICK y : y = wire' OBVIOUS
  <2>15. PICK b \in Bytes : b = Byte(TypeByte(p), TRUE) BY <2>5
  <2>16. y = wire \o <<b>> \o f \o d BY <2>6, <2>15
  <2>7. /\ y \in Seq(Bytes) /\ Len(y) = ((Len(wire) + 1) + Len(f)) + Len(d)
        /\ \A k \in 1 .. Len(wire) : y[k] = wire[k]
        /\ y[Len(wire) + 1] = b
        /\ \A k \in 1 .. Len(f) : y[(Len(wire) + 1) + k] = f[k]
    <3>1. wire \in Seq(Bytes) /\ b \in Bytes /\ f \in Seq(Bytes) /\ d \in Seq(Bytes) BY <2>3
    <3>2. PICK w : w = wire OBVIOUS
    <3>3. PICK S : S = Bytes OBVIOUS
    <3>4. w \in Seq(S) /\ b \in S /\ f \in Seq(S) /\ d \in Seq(S) /\ y = w \o <<b>> \o f \o d
      BY <2>16, <3>1, <3>2, <3>3
    <3>5. /\ y \in Seq(S) /\ Len(y) = ((Len(w) + 1) + Len(f)) + Len(d)
          /\ \A k \in 1 .. Len(w) : y[k] = w[k]
          /\ y[Len(w) + 1] = b
          /\ \A k \in 1 .. Len(f) : y[(Len(w) + 1) + k] = f[k]
      BY <3>4, ThreeParts
    <3> QED BY <3>2, <3>3, <3>5
  <2>8. Len(wire) \in Nat /\ Len(f) \in Nat /\ Len(d) \in Nat BY <2>3
  <2>9. Len(y) = Len(wire) + Extent(p) BY <2>7, <2>8
  <2>10. ASSUME NEW j \in 0 .. Extent(p) - 1 PROVE Carries(y[(Len(wire) + 1) + j], p, j)
    <3>1. j = 0 => y[(Len(wire) + 1) + j] = Byte(TypeByte(p), TRUE)
      <4>1. j = 0 => (Len(wire) + 1) + j = Len(wire) + 1 BY <2>8
      <4> QED BY <2>7, <2>15, <4>1
    <3>2. j \in 1 .. Len(Field(p)) => y[(Len(wire) + 1) + j].value = Field(p)[j] BY <2>7
    <3> QED BY <3>1, <3>2 DEF Carries
  <2>11. \E begun : Begins(begun, y, Append(unread, p), read)
    BY <2>2, <2>3, <2>7, <2>9, <2>10, PacketSent
  <2>12. unread # <<>> => unread' # <<>> /\ unread'[1] = unread[1]
    <3>1. unread # <<>> => 1 <= Len(unread) BY <2>3
    <3>2. Len(unread') = Len(unread) + 1 BY <2>3, <2>4, AppendProperties
    <3>3. \A k \in 1 .. Len(unread) : unread'[k] = unread[k] BY <2>3, <2>4, AppendProperties
    <3>4. Len(unread) \in Nat BY <2>3
    <3>5. Len(<<>>) = 0 OBVIOUS
    <3> QED BY <3>1, <3>2, <3>3, <3>4, <3>5
  <2>13. unread' \in Seq(Sendable) BY <2>3, <2>4, AppendProperties
  <2>14. Current' BY <1>1, <2>1, <2>12 DEF Current
  <2>17. InStepTypes' BY <1>1, <2>3, <2>6, <2>7, <2>13 DEF InStepTypes
  <2>18. \E begun : Begins(begun, wire', unread', read') BY <1>1, <2>4, <2>6, <2>11
  <2> QED BY <2>14, <2>17, <2>18
<1>4. (open' <=> open) /\ (derailed' <=> derailed) BY <1>1
<1> QED BY <1>2, <1>3, <1>4 DEF ReaderInv

\* The broker sends a packet.
LEMMA SendStep ==
    ASSUME ReaderConstants, ReaderInv, NEW publish \in BOOLEAN, NEW length \in Lengths, Send(publish, length)
    PROVE  ReaderInv'
<1>1. PICK p : p = Message(publish, length, Size(length) <= InBuffer) OBVIOUS
<1>2. length \in 0 .. Width - 1 /\ Width \in Nat /\ length \in Nat
  BY LengthAssumption DEF ReaderConstants
<1>3. p \in Wellformed
  <2>1. PICK x : x = <<publish, length>> OBVIOUS
  <2>2. x \in BOOLEAN \X (0 .. Width - 1) /\ x[1] = publish /\ x[2] = length BY <1>2, <2>1
  <2> QED BY <1>1, <2>2 DEF Wellformed
<1>4. p \in Sendable /\ p # Nothing BY <1>1, <1>3 DEF Sendable, Message, Nothing
<1>5. /\ Field(p) = LengthBytes(length) /\ Extent(p) = 1 + Len(LengthBytes(length)) + length
      /\ TypeByte(p) = IF publish THEN PublishByte ELSE OtherByte
  BY <1>1, <1>4 DEF Field, Extent, TypeByte, Message, Size
<1>6. PICK body \in [1 .. length -> Contents] :
         wire' = wire \o <<Byte(TypeByte(p), TRUE)>> \o Unmarked(LengthBytes(length)) \o Unmarked(body)
  BY <1>5 DEF Send
<1>7. PICK f : f = Unmarked(LengthBytes(length)) OBVIOUS
<1>8. PICK d : d = Unmarked(body) OBVIOUS
<1>9. LengthBytes(length) \in Seq(Nat) /\ Len(LengthBytes(length)) \in Nat BY <1>2, FieldDigits
<1>10. /\ f \in Seq(Bytes) /\ Len(f) = Len(Field(p))
       /\ \A k \in 1 .. Len(f) : f[k].value = Field(p)[k]
  <2>1. PICK s \in Seq(Nat) : s = LengthBytes(length) BY <1>9
  <2>2. f = [i \in 1 .. Len(s) |-> Byte(s[i], FALSE)] BY <1>7, <2>1 DEF Unmarked
  <2>3. \A i \in 1 .. Len(s) : Byte(s[i], FALSE) \in Bytes /\ Byte(s[i], FALSE).value = s[i]
    BY <2>1 DEF Byte, Bytes
  <2>4. f \in Seq(Bytes) /\ Len(f) = Len(s)
    <3>1. f \in [1 .. Len(s) -> Bytes] BY <2>2, <2>3
    <3>2. Len(s) \in Nat OBVIOUS
    <3> QED BY <3>1, <3>2, FunctionIsSeq
  <2> QED BY <1>5, <2>1, <2>2, <2>3, <2>4
<1>11. d \in Seq(Bytes) /\ Len(d) = length
  <2>1. d = [i \in 1 .. length |-> Byte(body[i], FALSE)] BY <1>8 DEF Unmarked
  <2>2. \A i \in 1 .. length : body[i] \in Nat
    <3>1. Contents \subseteq Nat BY LengthAssumption DEF ReaderConstants
    <3> QED BY <3>1
  <2>3. \A i \in 1 .. length : Byte(body[i], FALSE) \in Bytes BY <2>2 DEF Byte, Bytes
  <2>4. d \in [1 .. length -> Bytes] BY <2>1, <2>3
  <2> QED BY <1>2, <2>4, FunctionIsSeq
<1>12. (1 + Len(f)) + Len(d) = Extent(p) BY <1>2, <1>5, <1>9, <1>10, <1>11
<1>13. open /\ Sent(p) /\ UNCHANGED <<open, reader, got, meant, derailed>> BY <1>1 DEF Send
<1> QED BY <1>4, <1>6, <1>7, <1>8, <1>10, <1>11, <1>12, <1>13, StaysAfterSending

\* The broker sends a malformed packet.
LEMMA SendMalformedStep ==
    ASSUME ReaderConstants, ReaderInv, SendMalformed
    PROVE  ReaderInv'
<1>1. PICK f : f = [i \in 1 .. 5 |-> Byte(PublishByte, FALSE)] OBVIOUS
<1>2. /\ Nothing \in Sendable /\ Extent(Nothing) = 6 /\ Field(Nothing) = [i \in 1 .. 5 |-> PublishByte]
      /\ TypeByte(Nothing) = OtherByte
  BY DEF Sendable, Extent, Field, TypeByte, Nothing
<1>3. PublishByte \in Nat BY LengthAssumption DEF PublishByte
<1>4. Byte(PublishByte, FALSE) \in Bytes /\ Byte(PublishByte, FALSE).value = PublishByte
  BY <1>3 DEF Byte, Bytes
<1>5. f \in Seq(Bytes) /\ Len(f) = 5 /\ \A k \in 1 .. 5 : f[k].value = PublishByte
  <2>1. f \in [1 .. 5 -> Bytes] BY <1>1, <1>4
  <2>2. f \in Seq(Bytes) /\ Len(f) = 5 BY <2>1, FunctionIsSeq
  <2> QED BY <1>1, <1>4, <2>2
<1>6. Len(f) = Len(Field(Nothing)) /\ \A k \in 1 .. Len(f) : f[k].value = Field(Nothing)[k]
  BY <1>2, <1>3, <1>5
<1>7. <<>> \in Seq(Bytes) /\ Len(<<>>) = 0 /\ (1 + Len(f)) + Len(<<>>) = Extent(Nothing) BY <1>2, <1>5
<1>8. wire' = wire \o <<Byte(TypeByte(Nothing), TRUE)>> \o f BY <1>1, <1>2 DEF SendMalformed
<1>9. CASE wire \in Seq(Bytes)
  <2>1. Byte(TypeByte(Nothing), TRUE) \in Bytes BY <1>2 DEF Byte, Bytes, OtherByte
  <2>2. wire \o <<Byte(TypeByte(Nothing), TRUE)>> \o f \in Seq(Bytes)
    <3>1. <<Byte(TypeByte(Nothing), TRUE)>> \in Seq(Bytes)
      <4>1. PICK b \in Bytes : b = Byte(TypeByte(Nothing), TRUE) BY <2>1
      <4>2. <<b>> \in Seq(Bytes) OBVIOUS
      <4> QED BY <4>1, <4>2
    <3>2. wire \o <<Byte(TypeByte(Nothing), TRUE)>> \in Seq(Bytes) BY <1>9, <3>1, ConcatProperties
    <3> QED BY <1>5, <3>2, ConcatProperties
  <2>3. wire' = wire \o <<Byte(TypeByte(Nothing), TRUE)>> \o f \o <<>> BY <1>8, <2>2
  <2>4. open /\ Sent(Nothing) /\ UNCHANGED <<open, reader, got, meant, derailed>> BY DEF SendMalformed
  <2> QED BY <1>2, <1>5, <1>6, <1>7, <2>3, <2>4, StaysAfterSending
<1>10. CASE wire \notin Seq(Bytes)
  <2>1. derailed BY <1>10 DEF ReaderInv, InStepTypes, SendMalformed
  <2> QED BY <2>1 DEF ReaderInv, AtRestBetween, SendMalformed, reader
<1> QED BY <1>9, <1>10

-----------------------------------------------------------------------------

\* At the start of a connection nothing is under way.
LEMMA InStepAtFirst ==
    wire = <<>> /\ unread = <<>> /\ read = 0 => \E start : Begins(start, wire, unread, read)
<1> DEFINE begun == [i \in 1 .. 1 |-> 1]
<1>1. wire = <<>> /\ unread = <<>> /\ read = 0 => Begins(begun, wire, unread, read) BY DEF Begins
<1> QED BY <1>1

\* It holds at first.
LEMMA ReaderInitInv == ReaderInit => ReaderInv
BY InStepAtFirst DEF ReaderInit, ReaderInv, AtRestBetween, Current, InStepTypes

\* readPacket() begins a packet.
LEMMA ReadTypeStep == ASSUME ReaderInv, ReadType PROVE ReaderInv'
<1>1. /\ open /\ phase = "type" /\ wire # <<>> /\ phase' = "length" /\ digits' = <<>>
      /\ due' = 0 /\ read' = 1 /\ wire' = Tail(wire) /\ isPublish' = (Head(wire).value = PublishByte)
      /\ UNCHANGED <<open, unread, got, meant, derailed>>
  BY DEF ReadType, Value
<1>2. AtRestBetween' /\ (~derailed' => got' = meant') BY <1>1 DEF ReaderInv, AtRestBetween
<1>3. ASSUME ~derailed
      PROVE  InStepTypes' /\ Current' /\ \E start : Begins(start, wire', unread', read')
  <2>1. PICK start : Begins(start, wire, unread, read) BY <1>1, <1>3 DEF ReaderInv
  <2>2. wire \in Seq(Bytes) /\ unread \in Seq(Sendable) /\ read = 0
    BY <1>1, <1>3 DEF ReaderInv, InStepTypes, AtRestBetween
  <2>3. unread # <<>> BY <1>1, <2>1, <2>2, NextByte
  <2>4. unread[1] \in Sendable BY <2>2, <2>3
  <2>5. /\ Extent(unread[1]) \in Nat /\ Extent(unread[1]) >= 1 + Len(Field(unread[1]))
        /\ Len(Field(unread[1])) \in 1 .. 5
    BY <2>4, SendableFacts
  <2>6. Carries(Head(wire), unread[1], read)
    <3>1. read < Extent(unread[1]) BY <2>2, <2>5
    <3> QED BY <1>1, <2>1, <2>2, <2>3, <3>1, NextByte
  <2>7. Head(wire).value = TypeByte(unread[1]) BY <2>2, <2>6 DEF Carries, Byte
  <2>8. isPublish' = (unread[1].type = "publish")
    <3>1. PublishByte # OtherByte BY LengthAssumption DEF PublishByte, OtherByte
    <3> QED BY <1>1, <2>7, <3>1 DEF TypeByte
  <2>12. Len(digits') = 0 /\ Len(digits') < Len(Field(unread[1]))
    <3>1. Len(<<>>) = 0 OBVIOUS
    <3>2. Len(digits') = 0 BY <1>1, <3>1
    <3>3. Len(Field(unread[1])) \in 1 .. 5 BY <2>5
    <3>4. PICK m \in 1 .. 5 : m = Len(Field(unread[1])) BY <3>3
    <3>5. 0 < m OBVIOUS
    <3> QED BY <3>2, <3>4, <3>5
  <2>13. \A k \in 1 .. Len(digits') : digits'[k] = Field(unread[1])[k] BY <2>12
  <2>14. unread' = unread /\ phase' = "length" /\ read' = 1 BY <1>1
  <2>15. read' >= 1 /\ read' = Len(digits') + 1 /\ Len(digits') <= 3 BY <2>12, <2>14
  <2>9. Current' BY <2>3, <2>8, <2>12, <2>13, <2>14, <2>15 DEF Current
  <2>10. \E begun : Begins(begun, Tail(wire), unread, read + 1) BY <1>1, <2>1, <2>2, ByteRead
  <2>11. InStepTypes' BY <1>1, <2>2 DEF InStepTypes
  <2> QED BY <1>1, <2>2, <2>9, <2>10, <2>11
<1>4. (open' <=> open) /\ (derailed' <=> derailed) BY <1>1
<1> QED BY <1>2, <1>3, <1>4 DEF ReaderInv

\* The last byte of a packet comes: what is made of it is what was sent.
LEMMA Completes ==
    ASSUME ReaderInv, open, ~derailed, wire # <<>>, unread # <<>>, unread[1] # Nothing,
           read + 1 = Extent(unread[1]), isPublish = (unread[1].type = "publish"),
           Complete(unread[1].length, read + 1), wire' = Tail(wire), UNCHANGED <<open, derailed>>
    PROVE  ReaderInv'
<1>1. PICK start : Begins(start, wire, unread, read) BY DEF ReaderInv
<1>2. wire \in Seq(Bytes) /\ unread \in Seq(Sendable) /\ read \in Nat BY DEF ReaderInv, InStepTypes
<1>3. PICK p : p = unread[1] OBVIOUS
<1>4. /\ p.length \in 0 .. Width - 1 /\ p.kept = (Size(p.length) <= InBuffer)
      /\ Extent(p) = Size(p.length) /\ p = Message(p.type = "publish", p.length, p.kept)
  <2>1. p \in Sendable /\ p # Nothing BY <1>2, <1>3
  <2> QED BY <2>1, SendableFacts DEF Extent
<1>5. /\ got' = Message(isPublish, p.length, read + 1 <= InBuffer)
      /\ meant' = p /\ unread' = Tail(unread)
      /\ phase' = "type" /\ digits' = <<>> /\ due' = 0 /\ read' = 0
  BY <1>2, <1>3 DEF Complete, AtRest
<1>6. got' = p
  <2>1. (read + 1 <= InBuffer) = p.kept BY <1>3, <1>4
  <2>2. isPublish = (p.type = "publish") BY <1>3
  <2> QED BY <1>4, <1>5, <2>1, <2>2
<1>7. \E begun : Begins(begun, Tail(wire), Tail(unread), 0) BY <1>1, <1>2, LastByteRead
<1>8. Tail(wire) \in Seq(Bytes) /\ Tail(unread) \in Seq(Sendable) BY <1>2
<1>9. InStepTypes' BY <1>5, <1>8 DEF InStepTypes
<1>10. Current' BY <1>5 DEF Current
<1>11. open' /\ ~derailed' OBVIOUS
<1>12. AtRestBetween' BY <1>5, <1>11 DEF AtRestBetween
<1> QED BY <1>5, <1>6, <1>7, <1>9, <1>10, <1>12 DEF ReaderInv

\* A byte of the length field is read.
LEMMA ReadDigitStep == ASSUME ReaderInv, ReadDigit PROVE ReaderInv'
<1> DEFINE d == Append(digits, Value)
           field == ReadLength(d)
<1>1. /\ open /\ phase = "length" /\ wire # <<>> /\ wire' = Tail(wire) /\ UNCHANGED open
      /\ field.status # "killed"
  BY DEF ReadDigit
<1>2. \/ /\ field.status = "waiting"
         /\ digits' = d /\ read' = read + 1 /\ UNCHANGED <<phase, isPublish, due, unread, got, meant, derailed>>
      \/ /\ field.status = "ok" /\ Due(isPublish, field.length) = 0
         /\ Complete(field.length, read + 1) /\ UNCHANGED derailed
      \/ /\ digits' = d /\ read' = read + 1 /\ due' = Due(isPublish, field.length) /\ phase' = "body"
         /\ derailed' = (derailed \/ Short(isPublish, field.length))
         /\ unread' = (IF derailed' THEN <<>> ELSE unread)
         /\ UNCHANGED <<isPublish, got, meant>>
         /\ field.status # "waiting" /\ ~(field.status = "ok" /\ Due(isPublish, field.length) = 0)
  BY DEF ReadDigit
<1> HIDE DEF d
<1>3. open' <=> open BY <1>1
<1>4. ASSUME derailed' PROVE ReaderInv'
  <2>1. phase' \in {"type", "length", "body"} BY <1>1, <1>2 DEF Complete, AtRest
  <2>2. phase' = "type" => digits' = <<>> /\ due' = 0 /\ read' = 0 BY <1>1, <1>2 DEF Complete, AtRest
  <2> QED BY <1>1, <1>3, <1>4, <2>1, <2>2 DEF ReaderInv, AtRestBetween
<1>5. ASSUME ~derailed' PROVE ReaderInv'
  <2>0. ~derailed BY <1>2, <1>5
  <2>1. PICK start : Begins(start, wire, unread, read) BY <1>1, <2>0 DEF ReaderInv
  <2>2. /\ wire \in Seq(Bytes) /\ unread \in Seq(Sendable) /\ digits \in Seq(Nat)
        /\ due \in Nat /\ read \in Nat /\ got = meant
    BY <1>1, <2>0 DEF ReaderInv, InStepTypes
  <2>3. PICK p : p = unread[1] OBVIOUS
  <2>4. /\ unread # <<>> /\ read >= 1 /\ isPublish = (p.type = "publish")
        /\ Len(digits) < Len(Field(p)) /\ Len(digits) <= 3 /\ read = Len(digits) + 1
        /\ \A k \in 1 .. Len(digits) : digits[k] = Field(p)[k]
    BY <1>1, <2>0, <2>3 DEF ReaderInv, Current
  <2>5. p \in Sendable BY <2>2, <2>3, <2>4
  <2>6. /\ Field(p) \in Seq(Nat) /\ Len(Field(p)) \in 1 .. 5
        /\ Extent(p) \in Nat /\ Extent(p) >= 1 + Len(Field(p))
    BY <2>5, SendableFacts
  <2>7. Value = Field(p)[read]
    <3>1. read < Extent(p) /\ read \in 1 .. Len(Field(p)) BY <2>2, <2>4, <2>6
    <3>2. Carries(Head(wire), p, read) BY <1>1, <2>1, <2>2, <2>3, <2>4, <3>1, NextByte
    <3> QED BY <3>1, <3>2 DEF Carries, Value
  <2>13. read \in 1 .. Len(Field(p)) BY <2>2, <2>4, <2>6
  <2>14. Value \in Nat BY <2>6, <2>7, <2>13
  <2>8. d \in Seq(Nat) /\ Len(d) = read /\ Len(d) <= Len(Field(p)) /\ Len(d) <= 4
    <3>1. Len(digits) <= 3 /\ read = Len(digits) + 1 BY <2>4
    <3>2. d \in Seq(Nat) /\ Len(d) = Len(digits) + 1 BY <2>2, <2>14, AppendProperties DEF d
    <3> QED BY <2>2, <2>13, <3>1, <3>2
  <2>15. ASSUME NEW k \in 1 .. Len(d) PROVE d[k] = Field(p)[k]
    <3>1. Len(d) = Len(digits) + 1 /\ d[Len(digits) + 1] = Value
      BY <2>2, <2>14, AppendProperties DEF d
    <3>2. \A i \in 1 .. Len(digits) : d[i] = digits[i] BY <2>2, <2>14, AppendProperties DEF d
    <3>3. k = Len(digits) + 1 \/ k \in 1 .. Len(digits) BY <2>2, <3>1
    <3>4. CASE k = Len(digits) + 1 BY <2>4, <2>7, <3>1, <3>4
    <3>5. CASE k \in 1 .. Len(digits) BY <2>4, <3>2, <3>5
    <3> QED BY <3>3, <3>4, <3>5
  <2>16. Len(d) \in Nat /\ Len(Field(p)) \in Nat BY <2>6, <2>8
  <2>9. \E begun : Begins(begun, Tail(wire), unread, read + 1) BY <1>1, <2>1, <2>2, ByteRead
  <2>10. Tail(wire) \in Seq(Bytes) BY <1>1, <2>2
  <2>11. ASSUME Len(d) < Len(Field(p)) \/ p = Nothing PROVE ReaderInv'
    <3>1. \A k \in 1 .. Len(d) : Continues(d[k])
      <4>1. CASE p = Nothing
        <5>1. Len(Field(p)) = 5 /\ \A k \in 1 .. 5 : Continues(Field(p)[k]) BY <2>5, <4>1, SendableFacts
        <5>2. Len(d) <= 5 BY <2>8, <5>1
        <5> SUFFICES ASSUME NEW k \in 1 .. Len(d) PROVE Continues(d[k]) OBVIOUS
        <5>3. k \in 1 .. 5 BY <2>16, <5>2
        <5> QED BY <2>15, <5>1, <5>3
      <4>2. CASE p # Nothing
        <5>1. \A k \in 1 .. Len(Field(p)) - 1 : Continues(Field(p)[k]) BY <2>5, <4>2, SendableFacts
        <5>2. Len(d) < Len(Field(p)) BY <2>11, <4>2
        <5> SUFFICES ASSUME NEW k \in 1 .. Len(d) PROVE Continues(d[k]) OBVIOUS
        <5>3. k \in 1 .. Len(Field(p)) - 1 BY <2>16, <5>2
        <5> QED BY <2>15, <5>1, <5>3
      <4> QED BY <4>1, <4>2
    <3>2. field.status = (IF Len(d) >= 4 THEN "killed" ELSE "waiting") BY <2>8, <3>1, UnendedField
    <3>3. Len(d) <= 3 /\ field.status = "waiting" BY <1>1, <2>16, <3>2
    <3>4. digits' = d /\ read' = read + 1 /\ UNCHANGED <<phase, isPublish, due, unread, got, meant>>
      BY <1>2, <3>3
    <3>5. Len(d) < Len(Field(p))
      <4>1. CASE p = Nothing
        <5>1. Len(Field(p)) = 5 BY <2>5, <4>1, SendableFacts
        <5>2. Len(d) <= 3 BY <3>3
        <5> QED BY <2>16, <5>1, <5>2
      <4>2. CASE p # Nothing BY <2>11, <4>2
      <4> QED BY <4>1, <4>2
    <3>6. InStepTypes' BY <1>1, <2>2, <2>8, <2>10, <3>4 DEF InStepTypes
    <3>10. read >= 1 /\ read' >= 1 /\ read' = Len(digits') + 1 /\ Len(digits') <= 3
      BY <2>2, <2>8, <2>13, <3>3, <3>4
    <3>11. \A k \in 1 .. Len(digits') : digits'[k] = Field(p)[k] BY <2>15, <3>4
    <3>12. phase' = "length" /\ unread' = unread /\ (isPublish' <=> isPublish) /\ isPublish' = isPublish
      BY <1>1, <3>4
    <3>13. Len(digits') < Len(Field(p)) BY <3>4, <3>5
    <3>14. unread # <<>> /\ isPublish = (p.type = "publish") BY <2>4
    <3>7. Current' BY <2>3, <3>10, <3>11, <3>12, <3>13, <3>14 DEF Current
    <3>8. AtRestBetween' BY <1>1, <1>3, <3>4 DEF AtRestBetween
    <3>9. \E begun : Begins(begun, wire', unread', read') BY <1>1, <2>9, <3>4
    <3> QED BY <2>2, <3>4, <3>6, <3>7, <3>8, <3>9 DEF ReaderInv
  <2>12. ASSUME ~(Len(d) < Len(Field(p))), p # Nothing PROVE ReaderInv'
    <3>1. /\ p.length \in 0 .. Width - 1 /\ Field(p) = LengthBytes(p.length)
          /\ Extent(p) = 1 + Len(Field(p)) + p.length
      BY <2>5, <2>12, SendableFacts
    <3>2. Len(d) = Len(Field(p)) BY <2>8, <2>12, <2>16
    <3>3. d = LengthBytes(p.length)
      <4>1. PICK f \in Seq(Nat) : f = Field(p) BY <2>6
      <4>2. Len(d) = Len(f) /\ \A k \in 1 .. Len(d) : d[k] = f[k] BY <2>15, <3>2, <4>1
      <4>3. d = f BY <2>8, <4>1, <4>2, SeqEqual
      <4> QED BY <3>1, <4>1, <4>3
    <3>4. field.status = "ok" /\ field.length = p.length BY <3>1, <3>3, WholeField
    <3>6. p.length \in Nat BY <3>1, LengthAssumption
    <3>5. Due(isPublish, field.length) = p.length
      <4>1. CASE Short(isPublish, field.length)
        <5>1. Due(isPublish, field.length) # 0 BY <4>1 DEF Due
        <5>2. derailed' BY <1>2, <3>4, <4>1, <5>1
        <5> QED BY <1>5, <5>2
      <4>2. CASE ~Short(isPublish, field.length) BY <3>4, <4>2 DEF Due
      <4> QED BY <4>1, <4>2
    <3>9. read = Len(Field(p)) BY <2>8, <3>2
    <3>10. read + 1 + p.length = Extent(p) BY <2>2, <3>1, <3>6, <3>9
    <3>7. CASE p.length = 0
      <4>1. Complete(p.length, read + 1) /\ UNCHANGED derailed BY <1>2, <3>4, <3>5, <3>7
      <4>2. read + 1 = Extent(p) BY <2>2, <3>7, <3>10
      <4> QED BY <1>1, <2>0, <2>3, <2>4, <2>12, <4>1, <4>2, Completes
    <3>8. CASE p.length # 0
      <4>1. /\ digits' = d /\ read' = read + 1 /\ due' = p.length /\ phase' = "body"
            /\ UNCHANGED <<isPublish, unread, got, meant>>
        BY <1>2, <1>5, <3>4, <3>5, <3>8
      <4>2. InStepTypes' BY <1>1, <2>2, <2>8, <2>10, <3>6, <4>1 DEF InStepTypes
      <4>3. read' + due' = Extent(p) /\ read' >= 1 /\ due' >= 1
        BY <2>2, <3>6, <3>8, <3>10, <4>1
      <4>4. Current' BY <2>3, <2>4, <2>12, <3>3, <4>1, <4>3 DEF Current
      <4>5. AtRestBetween' BY <1>1, <1>3, <4>1 DEF AtRestBetween
      <4>6. \E begun : Begins(begun, wire', unread', read') BY <1>1, <2>9, <4>1
      <4> QED BY <2>2, <4>1, <4>2, <4>4, <4>5, <4>6 DEF ReaderInv
    <3> QED BY <3>7, <3>8
  <2> QED BY <2>11, <2>12
<1> QED BY <1>4, <1>5

\* A byte of the rest of a packet is read.
LEMMA ReadBodyStep == ASSUME ReaderInv, ReadBody PROVE ReaderInv'
<1>1. /\ open /\ phase = "body" /\ wire # <<>> /\ wire' = Tail(wire) /\ UNCHANGED <<open, derailed>>
  BY DEF ReadBody
<1>2. \/ due = 1 /\ Complete(ReadLength(digits).length, read + 1)
      \/ /\ due # 1 /\ due' = due - 1 /\ read' = read + 1
         /\ UNCHANGED <<phase, isPublish, digits, unread, got, meant>>
  BY DEF ReadBody
<1>3. (open' <=> open) /\ (derailed' <=> derailed) BY <1>1
<1>4. CASE derailed
  <2>1. phase' \in {"type", "length", "body"} BY <1>1, <1>2 DEF Complete, AtRest
  <2>2. phase' = "type" => digits' = <<>> /\ due' = 0 /\ read' = 0 BY <1>1, <1>2 DEF Complete, AtRest
  <2> QED BY <1>1, <1>3, <1>4, <2>1, <2>2 DEF ReaderInv, AtRestBetween
<1>5. CASE ~derailed
  <2>1. PICK start : Begins(start, wire, unread, read) BY <1>1, <1>5 DEF ReaderInv
  <2>2. /\ wire \in Seq(Bytes) /\ unread \in Seq(Sendable) /\ digits \in Seq(Nat)
        /\ due \in Nat /\ read \in Nat /\ got = meant
    BY <1>1, <1>5 DEF ReaderInv, InStepTypes
  <2>3. PICK p : p = unread[1] OBVIOUS
  <2>4. /\ unread # <<>> /\ read >= 1 /\ isPublish = (p.type = "publish") /\ p # Nothing
        /\ digits = LengthBytes(p.length) /\ due >= 1 /\ read + due = Extent(p)
    BY <1>1, <1>5, <2>3 DEF ReaderInv, Current
  <2>5. CASE due = 1
    <3>1. p \in Sendable BY <2>2, <2>3, <2>4
    <3>2. p.length \in 0 .. Width - 1 BY <2>4, <3>1, SendableFacts
    <3>3. Complete(p.length, read + 1) BY <1>2, <2>4, <2>5, <3>2, WholeField
    <3> QED BY <1>1, <1>5, <2>3, <2>4, <2>5, <3>3, Completes
  <2>6. CASE due # 1
    <3>1. due' = due - 1 /\ read' = read + 1 /\ UNCHANGED <<phase, isPublish, digits, unread, got, meant>>
      BY <1>2, <2>6
    <3>2. due' \in Nat /\ due' >= 1 /\ read' \in Nat /\ read' >= 1 /\ read' + due' = Extent(p)
      BY <2>2, <2>4, <2>6, <3>1
    <3>3. \E begun : Begins(begun, Tail(wire), unread, read + 1) BY <1>1, <2>1, <2>2, ByteRead
    <3>4. Tail(wire) \in Seq(Bytes) BY <1>1, <2>2
    <3>5. InStepTypes' BY <1>1, <2>2, <3>1, <3>2, <3>4 DEF InStepTypes
    <3>6. Current' BY <1>1, <2>3, <2>4, <3>1, <3>2 DEF Current
    <3>7. AtRestBetween' BY <1>1, <1>3, <3>1 DEF AtRestBetween
    <3> QED BY <1>1, <2>2, <3>1, <3>3, <3>5, <3>6, <3>7 DEF ReaderInv
  <2> QED BY <2>5, <2>6
<1> QED BY <1>4, <1>5

\* Every step keeps the reader in step.
LEMMA ReaderStep == ReaderConstants /\ ReaderInv /\ [ReaderNext]_readerVars => ReaderInv'
<1> SUFFICES ASSUME ReaderConstants, ReaderInv, [ReaderNext]_readerVars PROVE ReaderInv' OBVIOUS
<1>1. CASE \E publish \in BOOLEAN, length \in Lengths : Send(publish, length) BY <1>1, SendStep
<1>2. CASE SendMalformed BY <1>2, SendMalformedStep
<1>3. CASE ReadType BY <1>3, ReadTypeStep
<1>4. CASE ReadDigit BY <1>4, ReadDigitStep
<1>5. CASE Kill BY <1>5 DEF Kill, AtRest, ReaderInv, AtRestBetween
<1>6. CASE ReadBody BY <1>6, ReadBodyStep
<1>7. CASE Stall BY <1>7 DEF Stall, AtRest, ReaderInv, AtRestBetween
<1>8. CASE Close BY <1>8 DEF Close, reader, ReaderInv, AtRestBetween
<1>9. CASE Reopen
  <2>1. /\ ~open /\ open' = TRUE /\ derailed' = FALSE /\ got' = Nothing /\ meant' = Nothing
        /\ wire' = wire /\ unread' = unread /\ phase' = phase
        /\ digits' = digits /\ due' = due /\ read' = read
    BY <1>9 DEF Reopen, reader
  <2>2. wire = <<>> /\ unread = <<>> /\ phase = "type" /\ digits = <<>> /\ due = 0 /\ read = 0
    BY <2>1 DEF ReaderInv, AtRestBetween
  <2>3. \E start : Begins(start, wire', unread', read') BY <2>1, <2>2, InStepAtFirst
  <2>4. InStepTypes' /\ Current' /\ AtRestBetween' BY <2>1, <2>2 DEF InStepTypes, Current, AtRestBetween
  <2> QED BY <2>1, <2>3, <2>4 DEF ReaderInv
<1>10. CASE UNCHANGED readerVars
  BY <1>10 DEF readerVars, reader, ReaderInv, AtRestBetween, InStepTypes, Current
<1> QED BY <1>1, <1>2, <1>3, <1>4, <1>5, <1>6, <1>7, <1>8, <1>9, <1>10 DEF ReaderNext

\* The invariant of the reader.
LEMMA ReaderInvariance == ReaderConstants /\ ReaderSpec => []ReaderInv
<1> SUFFICES ASSUME ReaderConstants PROVE ReaderSpec => []ReaderInv OBVIOUS
<1> QED BY ReaderInitInv, ReaderStep, PTL DEF ReaderSpec

\* StaysInStep: for any radix, buffer, lengths and contents, and any number of
\* packets under way, each readPacket() begins at the first byte of a packet
\* until a byte comes later than socketTimeout or a PUBLISH has no room for
\* the length of its topic.
THEOREM ReaderStaysInStep == ReaderConstants /\ ReaderSpec => []StaysInStep
<1>1. ReaderInv => StaysInStep
  <2> SUFFICES ASSUME ReaderInv, open, phase = "type", ~derailed, wire # <<>> PROVE Head(wire).first
    BY DEF StaysInStep
  <2>1. PICK start : Begins(start, wire, unread, read) BY DEF ReaderInv
  <2>2. wire \in Seq(Bytes) /\ unread \in Seq(Sendable) /\ read = 0
    BY DEF ReaderInv, InStepTypes, AtRestBetween
  <2>3. unread # <<>> BY <2>1, <2>2, NextByte
  <2>4. unread[1] \in Sendable BY <2>2, <2>3
  <2>5. read < Extent(unread[1]) BY <2>2, <2>4, SendableFacts
  <2>6. Carries(Head(wire), unread[1], 0) BY <2>1, <2>2, <2>3, <2>5, NextByte
  <2> QED BY <2>6 DEF Carries, Byte
<1> QED BY <1>1, ReaderInvariance, PTL

\* ReadsWhatWasSent: what readPacket() makes of each packet is what was sent,
\* and it is dropped just when it is larger than the buffer.
THEOREM ReaderReadsWhatWasSent == ReaderConstants /\ ReaderSpec => []ReadsWhatWasSent
<1>1. ReaderInv => ReadsWhatWasSent BY DEF ReaderInv, ReadsWhatWasSent
<1> QED BY <1>1, ReaderInvariance, PTL
=============================================================================
