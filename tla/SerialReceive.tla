--------------------------- MODULE SerialReceive ---------------------------
(***************************************************************************)
(* The receiving side of SoftwareSerial.cpp (EspSoftwareSerial): the edge  *)
(* interrupt, the queue of edges, and rxBits(), which makes words of them  *)
(* in the main program.  The line is not inverted.                         *)
(*                                                                         *)
(* Time goes bit by bit: an edge is on time, so a difference of ticks is a *)
(* whole number of bits.  The word is the sequence of its bits.  The two   *)
(* queues are sequences, as CircularQueue shows them to be.                *)
(***************************************************************************)
EXTENDS Integers, Sequences

CONSTANTS
    DataBits, StopBits,     \* m_dataBits, m_stopBits
    Parity,                 \* is there a parity bit?
    BufCapacity,            \* of m_buffer
    IsrBufCapacity,         \* of m_isrBuffer
    Frames,                 \* the words the line may carry, each with its parity bit
    MaxFrames, MaxTime,     \* bounds: words sent, bits of time
    MaxStall,               \* how many bits may begin between the two looks of rxBits()
    TickMod                 \* one more than the largest tick

\* What the constants must be.
SerialConstants ==
    /\ DataBits \in Nat \ {0} /\ StopBits \in Nat \ {0} /\ Parity \in BOOLEAN
    /\ Frames \subseteq [bits : [1..DataBits -> BOOLEAN],
                         parity : IF Parity THEN BOOLEAN ELSE {FALSE}]
    /\ BufCapacity \in Nat /\ IsrBufCapacity \in Nat
    /\ MaxFrames \in Nat /\ MaxTime \in Nat /\ MaxStall \in Nat /\ TickMod \in Nat
    /\ TickMod > MaxTime + DataBits + StopBits

VARIABLES
    now,          \* micros()
    line,         \* the level of the pin
    rest,         \* the levels the word on the line has yet to show
    sent,         \* the words sent
    isrBuffer,    \* m_isrBuffer: edges, with the level after them
    isrOverflow,  \* m_isrOverflow
    lastTick,     \* m_isrLastTick: the last edge rxBits() saw
    rx,           \* m_rxLastBit, m_rxCurByte and m_rxCurParity
    buffer,       \* m_buffer and m_parityBuffer
    overflow,     \* m_overflow
    at,           \* where rxBits() is
    left,         \* the edges for_each() has yet to hand over
    stall,        \* how long rxBits() has been held up
    received,     \* the words read
    reported      \* overflow() has returned true

vars == <<now, line, rest, sent, isrBuffer, isrOverflow, lastTick, rx, buffer, overflow,
          at, left, stall, received, reported>>

sender == <<now, line, rest, sent>>
program == <<received, reported>>

PduBits == DataBits + (IF Parity THEN 1 ELSE 0) + StopBits

Init ==
    /\ now = 0 /\ line = TRUE /\ rest = <<>> /\ sent = <<>>
    /\ isrBuffer = <<>> /\ isrOverflow = FALSE
    /\ lastTick = [tick |-> 0, level |-> TRUE]
    /\ rx = [last |-> PduBits - 1, bits |-> <<>>, parity |-> FALSE]
    /\ buffer = <<>> /\ overflow = FALSE
    /\ at = "away" /\ left = 0 /\ stall = 0
    /\ received = <<>> /\ reported = FALSE

(***************************************************************************)
(* The line and the interrupt                                              *)
(***************************************************************************)
High(n) == [i \in 1..n |-> TRUE]

\* A start bit, the word, and the stop bits.
Levels(f) == <<FALSE>> \o f.bits \o (IF Parity THEN <<f.parity>> ELSE <<>>) \o High(StopBits)

\* rxBitISR(), at an edge.
RxBitISR(level) ==
    IF Len(isrBuffer) < IsrBufCapacity
    THEN /\ isrBuffer' = Append(isrBuffer, [tick |-> now + 1, level |-> level])
         /\ UNCHANGED isrOverflow
    ELSE isrOverflow' = TRUE /\ UNCHANGED isrBuffer

Show(level) ==
    /\ line' = level
    /\ IF level # line THEN RxBitISR(level) ELSE UNCHANGED <<isrBuffer, isrOverflow>>

\* The next bit of time.  The line idles high between words.
NextBit ==
    /\ now < MaxTime /\ now' = now + 1
    /\ \/ rest # <<>> /\ Show(Head(rest)) /\ rest' = Tail(rest) /\ UNCHANGED sent
       \/ rest = <<>> /\ Show(TRUE) /\ UNCHANGED <<rest, sent>>
       \/ /\ rest = <<>> /\ Len(sent) < MaxFrames /\ now + PduBits + 3 <= MaxTime
          /\ \E f \in Frames : sent' = Append(sent, f) /\ Show(FALSE) /\ rest' = Tail(Levels(f))
    /\ IF at = "clock" THEN stall < MaxStall /\ stall' = stall + 1 ELSE UNCHANGED stall
    /\ UNCHANGED <<lastTick, rx, buffer, overflow, at, left, received, reported>>

(***************************************************************************)
(* rxBits(isrTick): what the level since the last edge says.  n is the     *)
(* number of bits not yet accounted for.                                   *)
(***************************************************************************)
\* Mutant of StartBit: the start bit is taken for a data bit.
StartBitMutant(r, n, level) ==
    IF n > 0 /\ r.last >= PduBits - 1
    THEN IF level THEN <<r, 0>> ELSE <<[r EXCEPT !.last = -1], n>>
    ELSE <<r, n>>

StartBit(r, n, level) ==
    IF n > 0 /\ r.last >= PduBits - 1
    THEN IF level THEN <<r, 0>> ELSE <<[r EXCEPT !.last = -1], n - 1>>
    ELSE <<r, n>>

DataBitsOf(r, n, level) ==
    LET k == IF n < DataBits - 1 - r.last THEN n ELSE DataBits - 1 - r.last
    IN  IF n > 0 /\ r.last < DataBits - 1
        THEN <<[r EXCEPT !.last = @ + k, !.bits = @ \o [i \in 1..k |-> level]], n - k>>
        ELSE <<r, n>>

ParityBit(r, n, level) ==
    IF n > 0 /\ Parity /\ r.last = DataBits - 1
    THEN <<[r EXCEPT !.last = @ + 1, !.parity = level], n - 1>>
    ELSE <<r, n>>

\* The word before its stop bits, with how many bits are left.
Word(n, level) ==
    LET s == StartBit(rx, n, level)
        d == DataBitsOf(s[1], s[2], level)
    IN  ParityBit(d[1], d[2], level)

\* Are the stop bits there?
StopBit(r, n, level) == n >= PduBits - 1 - r.last /\ level

\* A mutant of RxBitsOf: a full buffer drops the word and says nothing.
RxBitsOfMutant(edge) ==
    LET n == (edge.tick - lastTick.tick) % TickMod
        w == Word(n, lastTick.level)
    IN  /\ lastTick' = edge
        /\ rx' = (IF w[2] > 0 THEN [last |-> PduBits - 1, bits |-> <<>>, parity |-> FALSE] ELSE w[1])
        /\ buffer' = (IF w[2] > 0 /\ StopBit(w[1], w[2], lastTick.level) /\ Len(buffer) < BufCapacity
                      THEN Append(buffer, [bits |-> w[1].bits, parity |-> w[1].parity]) ELSE buffer)
        /\ UNCHANGED overflow

RxBitsOf(edge) ==
    LET n == (edge.tick - lastTick.tick) % TickMod
        w == Word(n, lastTick.level)
        complete == w[2] > 0 /\ StopBit(w[1], w[2], lastTick.level)
    IN  /\ lastTick' = edge
        /\ rx' = (IF w[2] > 0 THEN [last |-> PduBits - 1, bits |-> <<>>, parity |-> FALSE] ELSE w[1])
        /\ buffer' = (IF complete /\ Len(buffer) < BufCapacity
                      THEN Append(buffer, [bits |-> w[1].bits, parity |-> w[1].parity]) ELSE buffer)
        /\ overflow' = (overflow \/ (complete /\ Len(buffer) = BufCapacity))

(***************************************************************************)
(* rxBits(), which available(), read(), peek() and write() call            *)
(***************************************************************************)
CallRxBits ==
    /\ at = "away" /\ at' = "load"
    /\ overflow' = (overflow \/ isrOverflow) /\ isrOverflow' = FALSE
    /\ UNCHANGED <<isrBuffer, lastTick, rx, buffer, left, stall, sender, program>>

\* for_each() takes the edges there are now.
LoadEdges ==
    /\ at = "load" /\ at' = "each"
    /\ left' = Len(isrBuffer)
    /\ UNCHANGED <<isrBuffer, isrOverflow, lastTick, rx, buffer, overflow, stall, sender, program>>

Each ==
    /\ at = "each" /\ left > 0 /\ left' = left - 1
    /\ RxBitsOf(Head(isrBuffer))
    /\ isrBuffer' = Tail(isrBuffer)
    /\ UNCHANGED <<isrOverflow, at, stall, sender, program>>

\* A word may be pending, unless there is a new edge: available() is the first look ...
CheckEdges ==
    /\ at = "each" /\ left = 0
    /\ at' = (IF rx.last < PduBits - 1 /\ isrBuffer = <<>> THEN "clock" ELSE "away")
    /\ UNCHANGED <<isrBuffer, isrOverflow, lastTick, rx, buffer, overflow, left, stall, sender, program>>

\* ... and micros() the second.  If the time of the word is over, a stop bit
\* level that made no edge is made up for.  The clock may be into the bit (late)
\* or at its edge.
ReadClock ==
    LET detection == PduBits - 1 - rx.last
    IN  /\ at = "clock" /\ at' = "away" /\ stall' = 0
        /\ \E late \in {0, 1} :
           IF now - lastTick.tick + late > detection
           THEN RxBitsOf([tick |-> lastTick.tick + detection, level |-> TRUE])
           ELSE UNCHANGED <<lastTick, rx, buffer, overflow>>
        /\ UNCHANGED <<isrBuffer, isrOverflow, left, sender, program>>

RxBits == CallRxBits \/ LoadEdges \/ Each \/ CheckEdges \/ ReadClock

\* read(), when there is a word.
Read ==
    /\ at = "away" /\ buffer # <<>>
    /\ received' = Append(received, Head(buffer))
    /\ buffer' = Tail(buffer)
    /\ UNCHANGED <<isrBuffer, isrOverflow, lastTick, rx, overflow, at, left, stall, reported, sender>>

\* overflow(), when it has something to say.
AskOverflow ==
    /\ at = "away" /\ overflow
    /\ reported' = TRUE /\ overflow' = FALSE
    /\ UNCHANGED <<isrBuffer, isrOverflow, lastTick, rx, buffer, at, left, stall, received, sender>>

Next == NextBit \/ RxBits \/ Read \/ AskOverflow

Spec == Init /\ [][Next]_vars
FairSpec == Spec /\ WF_vars(NextBit) /\ WF_vars(RxBits) /\ SF_vars(Read)

(***************************************************************************)
(* Properties                                                              *)
(***************************************************************************)
\* Each word is received as it was sent, in its place, whenever rxBits() comes
\* to it: in time or late, in pieces, between two words or within one.  The
\* exception is a queue that was full, and overflow() says that it was.
ReceivedUnlessOverflow ==
    \/ SubSeq(sent, 1, Len(received \o buffer)) = received \o buffer
    \/ isrOverflow \/ overflow \/ reported

\* rxBits() leaves no word behind, the last one included, whose stop bit makes
\* no edge, if no queue was full.
AllReceived == <>[](received = sent \/ isrOverflow \/ overflow \/ reported)
=============================================================================
