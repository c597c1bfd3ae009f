# A verification project for the Bharat Pi sketches

TLA+ models, TLC runs and TLAPS proofs for the programs of this repository: a
set of ESP32 (Bharat Pi) sketches that talk MQTT to AWS IoT, serve a web page
over a web socket, and read a GPS receiver, with the Arduino libraries they
are built on (`src/Arduino Libaray`).  The sketches are short and keep little
state; what makes them right or wrong (when a session is alive, which bytes
belong to which packet, what survives a reconnect) is decided in the libraries
they call.  The models therefore take a sketch together with the library that
carries its state, beginning with the MQTT bridge to AWS IoT.

## Inventory

| Part | State it keeps | Operations | Interacts with |
|---|---|---|---|
| **PubSubClient** (`PubSubClient.cpp`, 769 lines) | `_state`, `pingOutstanding`, `nextMsgId`, the two activity times, one buffer for both directions | connect, loop, publish (three ways), subscribe, unsubscribe, disconnect, connected | the transport (`Client`), the broker through it, the caller's callback from inside loop() |
| **AWS bridge sketch** (`AWS_IoT_2Way_Communication.ino`) | its program counter, the serial receive buffer | setup, connectAWS, loop, callback | PubSubClient, Wi-Fi, the serial monitor |
| **AWS GPS publisher** (`GPS/aws gps.txt`) | program counter | the same, publishing every 10 s, no subscription | PubSubClient, Wi-Fi; the bridge sketch, through the client id both use |
| **AsyncTCP** (`AsyncTCP.cpp`, 1661 lines) | event queue, closed slots, per-client buffers and timers | lwIP callbacks (one thread), the service task (another), API calls (any) | ESPAsyncWebServer and the web socket sketch |
| **TinyGPS++** | a sentence being parsed, staged and committed fields, their ages | encode(), the getters | the GPS sketches |
| **GSM trackers** (`NavIC_GPS.txt`) over **TinyGSM** | which command the round is at, unread answers | a round: post over HTTP, SMS; sendAT, waitResponse | the modem |
| **EspSoftwareSerial** (`SoftwareSerial.cpp`, `circular_queue.h`, `circular_queue_mp.h`) | edge, byte and parity rings, the word being put together | the edge interrupt, rxBits, read, peek, flush, overflow; push, pop, for_each of the rings | the serial line, the program that reads |
| Print and echo sketches, HTML pages | none | read and print | serial port, browser |
| other vendored libraries | | | not reached by a sketch, or conversion and device I/O |

What is hard in these parts:

* *PubSubClient* is one thread, but everything around it moves while a call is
  under way: the transport breaks between any two calls, the broker stays
  silent, answers late or sends something malformed, and the caller's callback
  calls the library again from inside loop().  Time is compared in two places
  with two clocks that a third place (PUBACK after a callback) sets back.
* *The bridge sketch* looks at the session anew at each statement, and must be
  right whenever the answer changes in between.
* *AsyncTCP* has two threads, a bounded queue that each may wait for, events
  removed from its middle, and connections that close while their events queue.
* *TinyGPS++* stages fields as they come and commits them after a checksum, on a
  line that loses characters whenever a sketch is in delay().
* *The trackers* read answers that say neither which command they are to nor
  that they come late.
* *EspSoftwareSerial* shares rings between an interrupt (or several producers)
  and a program without a lock, and makes words of edges it may look at late.

What makes each part correct:

* PubSubClient: a transport is open only under a session; a session is one the
  broker accepted on this transport; a ping or QoS 1 message is never lost
  from the books; a dead connection is noticed, a live one kept; a packet
  reported as sent is whole; a reader stays in step with the packets.
* Bridge sketch: it serves only sessions it subscribed on, and gets back to one.
* GPS publisher and bridge together: one client id gives one session.
* AsyncTCP: events of one connection in order, none after its close, no deadlock.
* TinyGPS++: a committed field is that of a sentence whose checksum held.
* Trackers: prompts do not go astray, posts are of their round, and rounds go on.
* EspSoftwareSerial: the rings are FIFOs; a word comes out as it went in, or
  overflow() says why not.

`hazards` in PROJECT.json lists these at their lines, with the properties that
cover each.

## Modules

    MqttLength             the length field: what buildHeader() writes, readPacket() reads
      PublishStream        publish(), publish_P() and beginPublish()/write()/endPublish()
      PacketReader         readPacket(), byte by byte
        PublishStreamProofs  (of all three)

    KeepAliveTimer         ABSTRACT: when loop() takes a session for dead
      KeepAliveClock       ... with the clocks in which its promises are stated
        KeepAliveProofs

    PubSubClient           the session: every call, the callback, broker, network, time
      PubSubClientTiming   refinement mapping onto KeepAliveTimer
      InboundQos0          the schedule of a test of the repository
      AwsBridge            the sketch over the session
        PubSubClientProofs   (of the session, its timing and the sketch)

    SharedClientId         both AWS sketches, any number of boards, one client id
      SharedClientIdProofs

    AsyncTcpQueue          the event queue between the lwIP thread and the service task
      AsyncTcpQueueProofs
    AsyncSlots             the closed slots that guard calls into lwIP
      AsyncSlotsProofs

    TinyGpsPlus            the NMEA parser
      GpsFeed              a receiver over a line that loses characters
    GsmTracker             a tracker's rounds of AT commands, and the modem
      TrackerProofs        (of GpsFeed and GsmTracker)

    BoundedFifo            ABSTRACT: a FIFO of fixed capacity
    CircularQueue          the ring for one producer and one consumer; refines BoundedFifo
    CircularQueueMp        the ring for several producers, both builds
    SerialParity           the packed parity bits of the words
    SerialReceive          edges to words: rxBits() and its interrupt
    SerialRings            the three rings and the receiver beside each other
      CircularQueueProofs  (of all four)

    MCTiming, MCAwsBridge, MCSharedClientId, MCAsyncTcpQueue, MCAsyncSlots
                           values and symmetry for TLC
    MCFraming              PublishStream and PacketReader side by side
    MCTrackers             GpsFeed and GsmTracker side by side, the latter with two settings
    MCSerial               SerialRings and the other build of CircularQueueMp

Where parts of one library share no state, one run checks them side by side: a
behaviour is one of a single part (`part`, `direction`), and the variables of the
others keep their initial values.  Nothing is multiplied that way, and nothing
hidden: a part at rest is in an initial state of its own, where its properties
hold, so that they may be stated of every behaviour.  What must be so of one part
only (which build, which setting) says of which.  The modules that are combined
state what their constants must be as an operator (`ReaderConstants`,
`QueueConstants`, ...), which the MC module assumes and the theorems name.

An operator whose name ends in `Mutant` (or, in PubSubClient, `AnyCode` and
`NoReset`) is no part of a model: it is the definition after it with a
plausible mistake, kept to show that a property would notice.

**PubSubClient.**  One action per way through an API call.  A call that waits
is split where it waits, because everything else may happen there: `connect()`
into `ConnectStart` and one of `ConnackTimeout`, `ConnackAccepted`,
`ConnackRefused`; `loop()` with a message into `LoopReads` and
`CallbackReturns`, with `Publish`, `Request` or `Disconnect` called in
between, from the callback.  `connected()` is not a mere test: when it finds a
connected state over a dead transport it changes the state and stops the
transport, and so it is an action (`NoticeLoss`) of every call.
`lastInActivity`, `lastOutActivity` and loop()'s `t` are kept as ages, and
reset where the code no longer reads them, so that the state space is finite.
The 8-bit message types are strings; a message is its type and id.  The
transport is reliable and ordered until it breaks (`link`), and a broker can
fall silent without its breaking (`broker.hung`).  `OVERSIZE` is a packet
larger than the buffer, `MALFORMED` one whose length field does not end.
A callback that calls connect() is left out: no sketch has one.

**PublishStream** counts bytes: what the caller meant to send, what a receiver
would take the header to declare, what the transport accepted.  Digits of the
length are the modelled arithmetic of `MqttLength`, including the conversion
to `uint16_t` at buildHeader()'s parameter, for any radix and width.

**PacketReader** takes the packets apart: each step reads one byte.  The
broker marks the first byte of each packet, which the reader cannot see, and
records the packets it sends; the properties compare what the reader makes of
the bytes with both.  A packet may be of any type and length.  A PUBLISH without
room for the two bytes of its topic's length makes readPacket() read them from
the packet after it (PubSubClient.cpp:338-339), and a byte later than
socketTimeout makes it leave a packet early; `derailed` records either, up to
the next connection.

**KeepAliveTimer** is what the session promises about time and nothing else:
two ages, a flag, where the ping is and how many unread packets precede its
answer.  `PubSubClientTiming` maps the session to it and TLC checks that every
step of the session is one of the timer's or a stutter.  `KeepAliveClock` adds
two history clocks, silence and the age of the ping, that no code keeps.

**AwsBridge** is the sketch: `at` is its program counter, and each of its
statements that calls the library is conjoined with the library's own action.
Every faulty event (a failed or refused connection, a malformed packet, a
break, a silence) is counted against `MaxFaults`.

**SharedClientId** takes a library call as a step, but connect(): CONNECT is
under way until the broker reads it, another board's may overtake it, and the
broker then cuts the older session of the id.  The end of a connection reaches
the board later.  Network failures are AwsBridge's subject and left out; the
delays of the sketches are not ordered.

**AsyncTcpQueue** has one action per FreeRTOS queue operation, which is atomic,
so that the lwIP thread may act between any two of the service task's: between
`xQueuePeek()` and `xQueueReceive()` of a coalescing, and between the receive and
send of each event `_remove_events_with_arg()` turns round.  An event carries
its client's address, and `Reused` addresses are given to later clients.  The
choice by random number under congestion is nondeterministic.  `raced` records
that lwIP posted inside one of those; what holds without races is stated as
`SoundUnlessRaced`, what holds with them apart from it.

**AsyncSlots** splits a call into lwIP where the service task reads `_pcb` and
`_closed_slot` one after the other and where the lwIP thread gets to it.

**TinyGpsPlus** reads the five characters the parser tells apart and otherwise
whole texts.  The exclusive or of texts is kept as their set with equal ones
cancelled.  The code has eight bits of it, in which texts that differ may cancel
too (a time 120001 turned into 120010 together with a 1914.6781 into 1914.6790),
so that a checksum may pass though its texts are not those received: by `luck`,
which TLC and the proofs try both ways at every checksum.  Numbers are not
parsed, and the limit of 14 characters to a term is left out.  **GpsFeed**
loses characters in gaps, and of a text that a gap cuts a part comes through
(`Cut`).  `Buffer` characters get through between two gaps: a whole receive
buffer in gpscheck.txt, which empties it before it waits, but in NavIC_GPS.txt,
which posts and waits inside its read loop after each sentence that passed, only
what it read since, a short sentence perhaps.  So two gaps may lie in one
sentence.  `doubtful` is set by a checksum that lets a location be committed by
luck or after two gaps since the $, and the properties of the location are
stated of the others.

**GsmTracker** runs NavIC_GPS.txt's `httpPost()` and `sendSMS()` as twelve
commands in order; `Awaited` is what each waits for.  waitResponse() takes the
first answer that fits, whatever it is to, after which the sketch goes on, as the
code does, for most errors as well as for success.  The modem, which is external,
answers in order, may refuse and may be late, and reads everything as text
after the prompt of an SMS.  The promises depend on what may fail, and MCTrackers
has two settings.  `late`: any answer may come late and anything but the body be
refused; then old positions are not posted, and no DOWNLOAD the modem gave is
taken by another wait, nor an HTTPDATA read as a body: the sketch waits in vain only
where the modem refused the HTTPDATA, is off line or takes commands for text.  `posts`: what a post can do without may fail, and
answers before the prompt may be late; then round follows round.  There CMGF and
CSCS are not refused, since that ERROR would be taken for that of CMGS, the
prompt would go unseen and the tracker hang.  `fresh` says that the modem took a
body since the last ACTION reached it, and `stale` that it performed one without.

**CircularQueue** has a step for each load of a position, copy of an item and
store of a position, for all calls of the header but capacity(cap).  What it
implements is BoundedFifo: items are accepted up to the room there is, and come
out oldest first.  In for_each_rev_requeue() the items already seen live in the
call, since their slots may be taken by items put back.  Steps are sequentially
consistent, which the orderings in the code give but for the load of m_outPos in
push(), which is relaxed (circular_queue.h:184): an old value shows push() less
room than there is, never more.  **CircularQueueMp** is
push() for several producers: on the ESP32 every access to an atomic is a step
and a compare_exchange_weak() may fail for no reason; elsewhere what is done
with interrupts off is a step.

**SerialReceive** counts time in bits.  Edges are on time, so that a difference
of ticks is a whole number of bits, and a word is the sequence of its bits.
rxBits() is split where the interrupt can come between two of its looks:
`CallRxBits`, `LoadEdges`, `Each`, `CheckEdges`, `ReadClock`.  `stall` counts bits that
begin between the last two, which the code takes for simultaneous.  It has bytes
and their parity in one queue; **SerialParity** shows why it may.

## Runs

| Run | Module | Shows | States |
|---|---|---|---|
| session | MCTiming | in every interleaving the session's books balance and it implements KeepAliveTimer; a silent broker is noticed though the caller publishes; connect() returns | 175k |
| timer | KeepAliveClock | a standing session received something within `2 * (Interval + LoopGap)`; one with timely answers is never given up | 1k |
| framing | MCFraming | a packet reported as sent is whole and framed; readPacket() stays in step and drops just what is too large | 9.1M |
| aws_bridge | MCAwsBridge | the sketch serves only sessions it subscribed on, and comes back to one after any finite number of faults | 152k |
| shared_id | MCSharedClientId | three boards with one id take the session from each other for ever, and each comes back | 4k |
| async_queue | MCAsyncTcpQueue | until a race, events come in order, without gaps and never after the client's end; races included, the queue keeps its bound and a coalescing frees no data | 1.3M |
| async_slots | MCAsyncSlots | a call on a closed pcb is refused until all other free slots were used; a slot per pcb suffices | 76k |
| trackers | MCTrackers | luck and two gaps in a sentence aside, the location is one fix and no older one comes back; whole fixes are committed; no old position is posted; no prompt goes astray; posts go on | 5.5M |
| serial | MCSerial | the ring implements BoundedFifo and no slot is shared; several producers' items come out as claimed; words with parity come through whenever rxBits() looks, or overflow() says why not | 420k |
| inbound_qos0 | InboundQos0 | *violated*: see Findings | |
| large_payload | MCFraming | *violated* | |
| async_order | MCAsyncTcpQueue | *violated* | |

Bounds, and why they suffice:

* `KeepAlive`, `SocketTimeout` = 1 or 2 ticks, `LoopGap` = 1 or 2; in `timer` an
  interval of 5 and a gap of 2: each age can be under, at and over the interval,
  and a gap can step over it.  The proofs
  below remove these bounds for the safety and timing properties.
* `MaxUp` = 3 and `MaxIn` = 2 (4 in aws_bridge) packets under way: enough for a ping, an
  acknowledgement and a request to be under way together, and for an answer to
  queue behind another packet.  `Room` asks for place for the two packets one
  call may write.  In AwsBridge `MaxSent` keeps place in the inbox for the two
  answers that can be owed at once, so that no deadlock comes of the bounds.
* `IdModulus` = 3 wraps nextMsgId after two requests; the code's is 2^16.
* `Radix` = 3, `Width` = 27 and a buffer of 25: lengths of one, two and three
  digits and lengths past the width, as 128 and 2^16 have them.  With
  `BufferSize` = 25 a packet of the width does not fit, as in the code, where
  bufferSize is itself a `uint16_t`.
* PacketReader: the same radix and width, remaining lengths of 0, 3, 4 and 9
  (one, two and three digits), a buffer of 6 with a packet of exactly 6 bytes and
  one of 7; `MaxWire` = 13 bytes under way, so that the reader is inside one
  packet while the next comes.  A PUBLISH of length 0 is too short for the length
  of its topic.  Bytes of a body have the one value that would
  do harm: read as a header it is a PUBLISH or a digit that continues.
* `MaxFaults` = 2 in aws_bridge: a fault can follow the recovery from another.
* SharedClientId: three boards, so that a session can be taken from one by a
  second while a third waits; two failed connects.
* AsyncTcpQueue: two connections, whose events are each other's "rest" in a
  removal, with addresses that later clients get; a queue of 3, which they fill
  (4 and more data in async_order).
* AsyncSlots: three slots and five connections, so that a slot is used again
  while a call on its former client is under way.  `MaxIndex` stops short of the
  wrap of `_closed_index`.
* GpsFeed: three sentences, each a RMC with a fix or a GGA with or without one, and
  two gaps; `Buffer` = 18 characters, the shortest of these sentences, so that both
  gaps may lie in one.  The third sentence is sent after one
  gap at most, which keeps the run short; the proofs have no such bound.
* GsmTracker: five faults, which may be in successive rounds; rounds are not
  bounded.
* CircularQueue: four slots, blocks of 1 to 3, eight items, which go round twice;
  each of the two blocks of push_n() can have any length.  `SizeT` = 64 makes the
  underflow of a size visible as a large number.
* CircularQueueMp: four slots for two producers of three items each, in both builds.
* SerialReceive: three data bits, with words whose edges are nowhere, at the
  stop bit alone and at every bit; two words, room for one word and for the edges
  of one, and time for each to be followed by a pause in which the faux stop bit
  is due.  `MaxStall` = 1 is one bit beginning between available() and micros().
  With 2, a word is lost without overflow (see Findings): the bound is the
  promise's condition.
* SerialParity: words of three bits for the code's eight, four bytes, so that a
  byte queue that is full has its parity in one, two or three words.

Deadlock is checked in every run but those of AsyncTcpQueue, AsyncSlots,
MCTrackers and MCSerial, where the bounds on what is sent let the model come to
its end (the sketch's rounds in MCTrackers have no end, and PostsGoOn is a
stronger statement of it).

## Fairness

`FairSpec` (session): loop() is called again and again, callbacks
return, connect()'s wait polls the transport and `millis()` advances.  That is
what the Arduino core does: it calls the sketch's `loop()` for ever, and the
sketch's calls `client.loop()` each time.  Nothing is assumed of the broker or
the network, and nothing of publish() or subscribe().

`PunctualSpec` (aws_bridge): the sketch's next statement is executed, the
broker reads what reaches it, time advances; and a broker that is neither
silent nor cut off answers a CONNECT before socketTimeout (`PunctualTime`).
Without the last, a broker that is always too late would rightly never be
connected to.

The others: each board's sketch goes on, and the broker reads what reaches it
(shared_id); the sketch goes on and the modem reads and answers (part `posts` of
trackers); the line's bits follow each other and rxBits() is called and returns
(part `words` of serial).  read() has strong fairness there: it is enabled between
two calls of rxBits() only, and a program that calls rxBits() does so to read.
AsyncTCP's threads, the rings and the receiver of GPS need none: only safety is
stated of them.

## What is proved

For every value of the constants that the named assumptions allow:

* **LengthRoundTrip**: reading what buildHeader() wrote gives the length that
  was passed, modulo the width.  Case split on the number of digits.
* **SentWhole**: `[]SentPacketsAreWhole`.  The invariant needs that the packet
  was within the buffer, hence below the width, hence not narrowed.
* **SmallStreamsStayFramed, OnlySmallStreamsAreFramed**: a streamed packet is framed
  if, and only if, its remaining length is below the width; the run large_payload shows
  the other side of this.  The invariant counts the bytes handed to the transport
  against those that were announced, over any pieces they were written in.
* **ReaderStaysInStep, ReaderReadsWhatWasSent**: `[]StaysInStep` and
  `[]ReadsWhatWasSent` of PacketReader, from `ReaderConstants`, until a byte comes late
  or a PUBLISH is too short for its topic's length.  The invariant
  states where each packet not yet read begins (`Begins`: positions in the stream, the
  first of them before it by the bytes already read), that consecutive packets
  abut, and that every byte of a header is the one its packet has at that place.  What
  the reader holds of its packet is then a prefix of its length field, which
  ends where LengthRoundTrip says, and what it still has to read is the rest of it.
  A malformed packet has a field that never ends, and the connection ends first.
* **HungSessionEnds**: `[]SilenceIsBounded`.  The property is not inductive.
  The invariant relates silence to the state of the ping: without one, silence
  is the age of lastInActivity; with one, it is at most `Interval + LoopGap`
  more, because writing the ping renewed that age when silence was so old.
* **LiveSessionStays**: `[]NoFalseTimeout`, assuming the answer's delay and the
  backlog fit the interval (`Timely`).  The invariant bounds the ping's age by
  the delay and by one LoopGap for each packet read since the answer came.
* **TypeCorrect, NoTransportIsOrphaned, ConnectedIsAccepted**: `[]TypeOK`,
  `[]NoOrphanTransport`, `[]ConnectedMeansAccepted` of the session.  The
  strengthening is that an acceptance under way was recorded by the broker.
* **PingsAreAccounted, QoS1IsAccounted**: `[]PingAccounted`, `[]QoS1Accounted`.
  The invariant states the books as sums over the places a packet can be in
  (pings: on the way to the broker, or its answer in the inbox; a QoS 1 message:
  in the inbox, in the callback, its PUBACK on the way), during connect() too,
  where the flag may still be the last session's and the transport is new.  It
  adds that pings have no id, so that equal packets are equal pings, and where the
  waiting calls leave the session.  Lemmas say how appending to a queue and taking
  from it change what is counted.
* **SessionImplementsTimer**: `Spec => ImplementsTimer`, so that each behaviour of a
  session is one of KeepAliveTimer.  The books say that the inbox holds one answer
  at most; the invariant keeps that after the broker fell silent, when the books
  say nothing, and bounds connect()'s wait by socketTimeout, since the
  timer's session starts with lastOutActivity as old as that wait.
* **BridgeUsesSession**: `BridgeSpec => Spec` of PubSubClient, from an invariant
  that places the library's waits in the sketch's program.  So every theorem of
  the session holds of the sketch.
* **ServedIsSubscribed**: `[]ServesSubscribed`.  The invariant extends it to the
  test that ends connectAWS() and adds that where connectAWS() waits or calls
  connect() there is no connection.  It uses the session's invariant.

* **AsyncTcpQueueProofs**: `[]TypeOK` and `[]CoalescingSparesData`.  The latter needs
  that while the task is between peek and receive, the event it looked at is at
  the front, or behind an ACCEPT or CLEAR that was prepended.
* **EventsStaySound**: `[]SoundUnlessRaced`.  Its invariant is a disjunction: lwIP has
  raced, or the events under way are in order (`OrderInv`).  An event under way
  may be in the task's hands, put back, queued or waited with, and in the middle
  of a removal the queue is rotated; `Stream` lays them all out in the order in
  which they are due, on places of which only the order counts, so that a step
  of the task is a renumbering, a thinning or an addition at one end.  Of the
  stream it says: an ACCEPT is the first event of its client and an ERROR or FIN
  the last, data are numbered without a gap from what was handled to what
  was posted, and a client that is gone is attended by a CLEAR in front.
* **AsyncSlotsProofs**: `[]TypeOK`, `[]SlotsAgree`, `[]StaleCallsAreRefused` and
  `[]SlotsSuffice`, for any number of slots and connections, as long as
  `_closed_index` does not wrap (`MaxIndex`, any number).  A slot freed under a call is
  the youngest free one; the slots older than it and those allocated since
  are together as many as waited when it was freed (`StaleSlotAges`, a cardinality that
  allocation of the oldest moves by one from one to the other).  When all are in
  use, none by a client whose pcb is gone, each is used by a live one: there are
  as many live clients as pcbs.
* **PostsStayCurrent, PromptsAreNotLost**: `[]PostsAreCurrent`, for any choice of failures and late answers
  but a refused body, and `[]WaitsInVainOnlyIf`, for any choice at all.  Answers may go
  astray everywhere else; HTTPDATA brings sketch and modem back together
  (`Round`): it is on its way once at most, as the last command, while its prompt is
  waited for, and there is one prompt at most, found by no other wait.  While the modem
  waits for the body, either the prompt is on its way to the sketch or the body is on
  its way to the modem (`BodyIsDue`), so that the modem is never left in the prompt of
  an earlier HTTPDATA when the next one comes.  BODY is read where it is meant
  to be, before the one ACTION that follows (`Post`).
* **PositionsAreNotMixed, PositionsAreCurrent, FixesAreCommitted**: `[]LocationIsOneFix`,
  `LocationFollowsTheReceiver` and `WholeFixesAreCommitted`, for any number of sentences
  and gaps, any `Buffer` and any set of the five kinds.  Where a gap ends, the parser
  has the beginning of one sentence and hears the rest of another, and the invariant
  (`FeedInv`) says what becomes of it while there is one gap since the $.  The parity
  is wrong for good, since the texts of two sentences differ or one was cut; or the *
  was lost, and no checksum is compared; or nothing that counts is missing, the
  beginnings of the two sentences being alike; or an even number of commas in a row is
  missing, which no checksum notices, but only a sentence without a fix has
  two commas in a row, and it commits no location.  A parity that is wrong may still
  match by luck, which is then `doubtful`, and so are two gaps: each may take
  one comma of a sentence with a fix, which leaves its parity right and its terms
  misnumbered.  What was staged, and what was committed by luck, is overwritten before a
  sentence in step is committed, and a sentence that comes whole is in step and never
  doubtful.
* **OneGapToASentence**: `[](cuts < 2)` if `Buffer` is at least 24, the longest sentence
  in the model's characters.  This is gpscheck.txt, where only luck is left to
  doubt, if the core gives its HardwareSerial a receive buffer as long as a
  sentence; NavIC_GPS.txt does not satisfy the hypothesis.
* **CircularQueueProofs**: `[]TypeOK` and `[]NoSharedSlot`, for any size of ring and
  of push.  The invariant says where the blocks of the push under way lie: from
  inPos up to at most the end, and from the start only if the first reached the
  end, together less than the room there was; the consumer's calls lie within
  what was available when they began, and what is available only grows under
  them.  Distances from outPos (`Ahead`) then tell the two apart.
* **RingImplementsFifo**: `Spec => ImplementsFifo`, for any size of ring and of push, so
  that each behaviour of the two threads is one of BoundedFifo: a push that begins is
  an offer, cut short only by a full queue, and each store of a position adds or takes;
  all other steps the queue does not see.  A slot is named by how far it is past
  the oldest item (`Nth`), which a push leaves as it is.  The invariant adds to the one
  above that what a push has copied are the next items (`CopiedInv`), that what a call
  was handed are the oldest, and of for_each_rev_requeue() that the slots it keeps hold
  some of the items it has seen, in their order (`Sifted`): an item put back may
  overwrite only a slot whose item was seen before.
* **PopsAsClaimed, AcceptedStaysReadable**: `[]PoppedAsClaimed` for any ring,
  both builds of circular_queue_mp and any number of producers, and
  `[]AcceptedIsReadable` for the build with interrupts off.  Positions are
  compared by their distance from the consumer's: readable, claimed, and between
  them what a push under way has seen.  A compare_exchange that succeeds
  on a position that has come round (ABA) does no harm, since there is room
  after what it saw exactly if it is still what is claimed (`RoomInv`).
* **ParityStaysWithItsByte**: `[]EachHasItsOwn` of SerialParity, for any capacity and
  number of bits in a word.  The two queues are tied by a single equation: the
  bytes in the queue and the bits before the first are the whole words and the
  bits in the last.  From it the n-th byte finds its bit by one division, whose
  quotient and remainder are unique.
* **WordsAreReceived**: `[]ReceivedUnlessOverflow` of SerialReceive, for any word
  format, sizes of the queues, words and times between them, if `MaxStall` is at most
  `StopBits`.  `RxInv` speaks of the line: what it showed at each bit (`Wave`, `OnLine`),
  that the edges in the queue are all its changes since the last one read
  (`Recorded`), unless overflow() is set, and that what rxBits() has made of the
  edges it read is what the line showed at those bits (`Decoded`).  The delicate part is
  the edge rxBits() makes up when a word ends without one: by then the stop bits are over,
  and a queue found empty before micros() was read stays empty of edges of that word,
  since a next word begins no sooner than the stop bits are long.  With one bit more
  the invariant fails, which TLC shows for StopBits = 1 and MaxStall = 2: the condition
  is exact.
* **SharedClientIdProofs**: `[]TypeOK` and `[]ServedUnlessTaken`, for any number of
  boards.  The invariant adds that the board with the session has an open
  connection, so that a session is never left with a board that put its away.

The runs of these properties are small instances of the same theorems; `timer`
runs with timely answers and aws_bridge with punctual time, under which the
theorems' SilenceIsBounded and ServesSubscribed, proved of `ClockSpec` and
`BridgeSpec`, hold all the more.

Only model-checked, with the reason:

* HungIsNoticed, ConnectReturns, Recovers, EachReturns, PostsGoOn, AllReceived:
  liveness under fairness, which the prover cannot treat.

## Findings

* *large_payload*: `beginPublish()` "allows for arbitrarily large payloads"
  (PubSubClient.h:162), but hands the remaining length to a `uint16_t`
  parameter.  From 65536 on, the header declares the rest modulo 2^16 and the
  receiver takes the payload for further packets.
* *inbound_qos0*: "keeps a connection alive that only receives qos0"
  (keepalive_spec.cpp:85).  loop() reads one packet per call.  With one message
  a second and one loop() a second, as in the test, nothing drains the queue, and
  each PINGRESP makes it longer by one.  After enough pings the answer waits
  longer than keepAlive behind older messages, and loop() gives up a connection
  that is alive.  The test lasts 50 s, too short to see it.
* *async_order*: `_remove_events_with_arg()` puts events back "so we can keep the
  order" (AsyncTCP.cpp:225), one at a time, while lwIP appends.

What the conditions of some properties set aside, and no run claims:

* A coalescing may free an ACCEPT or CLEAR prepended since the peek
  (AsyncTCP.cpp:174): CoalescingSparesData speaks of data.
* The service task prepends a CLEAR to a full queue and waits without limit for
  itself to make room (AsyncTCP.cpp:368): PostClear needs room, and no liveness
  is stated of the two threads.
* A course staged from a sentence whose checksum failed is committed by the next
  sentence without one: LocationIsOneFix speaks of the location.
* A checksum that matches by luck, in eight bits, or after two gaps in one sentence
  commits a mixture of positions, which stands until the next sentence that passes: LocationIsOneFix and
  LocationFollowsTheReceiver except it (`doubtful`).
* When HTTPINIT failed, the loop that waits for DOWNLOAD (NavIC_GPS.txt:165)
  waits for ever, and so it does when the prompt of an SMS came late and the modem
  reads commands as text: WaitsInVainOnlyIf names both.
* A PUBLISH too short for the length of its topic, from a broker that breaks the
  protocol, takes readPacket() past its end: StaysInStep and ReadsWhatWasSent speak
  of what comes before.
* In the ESP32 build of `circular_queue_mp::push()` a producer may publish a
  position it loaded before another's whole push, and what that accepted is
  hidden until somebody pushes again: AcceptedIsReadable is stated of the other
  build.
* rxBits() looks for new edges before it reads the clock, not after
  (SoftwareSerial.cpp:479).  Held up in between by two bits, it puts the faux stop
  bit out of sequence: see `MaxStall`.

## Not modelled, and why

* Message contents, topics and the stream of setStream(): no property is about
  them.  The optional `MQTT_MAX_TRANSFER_SIZE` path is not compiled.
* Setters called during a session; a callback that calls connect().
* What the packets that come after a byte later than socketTimeout are taken for:
  readPacket() leaves the stream in the middle of a packet.  PacketReader has that
  behaviour (`Stall`) and its properties speak of connections on which it has not
  happened.
* Sessions that outlive a connection (cleanSession = false) and the broker's
  retransmissions in them.
* The wrap of millis() after 49 days: ages are differences of `unsigned long`
  and stay right across it.
* The serial receive buffer; what is typed has no identity.
* AsyncTCP: the client role (connect, DNS), the SENT event and send buffer, timeouts
  as times, AsyncServer's begin and end.
* TinyGPSCustom, ages and statistics of TinyGPS++; TinyGSM's sockets, which no
  sketch opens; the setup() of the trackers.
* Liveness of AsyncTCP's two threads, which wait for each other without limit
  once the queue is full.
* EspSoftwareSerial: capacity(cap), which is not meant for concurrent use;
  push_n() for several producers, which no program calls and whose ESP32 build
  uses a position it has not set; `rxBitSyncISR()`; the transmitting side, with
  one-wire switching; onReceive().
* The vendored libraries no sketch reaches.  They are nearly all of the million
  lines under src/ (TCP/IP stacks, Wi-Fi drivers, display fonts, JSON), which is
  why the share of all lines the models map stays small: the sketches and the
  parts of libraries that keep their state are a few thousand.

## Plan

Done: PubSubClient, both AWS sketches, AsyncTCP's queue and slots, TinyGPS++, the
tracker's rounds, EspSoftwareSerial's receiver and rings.  What is left:

1. PubSubClient: the byte that comes later than socketTimeout in the middle of a
   packet; a QoS 1 message larger than the buffer, which the broker sends again;
   connect() and the type of the first packet.
2. The bridge sketch's serial receive buffer: lines typed while it reconnects.
3. AsyncTCP's send side: SENT events, the send buffer and the ack timeout.
4. AsyncTCP: how long a queue keeps the two threads from waiting for each other.
5. EspSoftwareSerial: one-wire switching between write() and the receiver.

Every safety property of a passing run is the statement of a theorem, and so is
every refinement.  The liveness properties remain with TLC.
