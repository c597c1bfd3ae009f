---------------------------- MODULE SerialRings ----------------------------
(***************************************************************************)
(* The rings of EspSoftwareSerial beside each other: the one for one       *)
(* producer (CircularQueue), the one for several (CircularQueueMp), the    *)
(* packed parity bits beside the bytes (SerialParity), and the receiver    *)
(* that fills them from the line (SerialReceive).  They share no state; a  *)
(* behaviour is one of a single part.                                      *)
(***************************************************************************)
EXTENDS CircularQueue, SerialParity

CONSTANTS
    Producers, Messages, LockFree,  \* of CircularQueueMp; its ring is as large as the other
    DataBits, StopBits, Parity, RxCapacity, IsrBufCapacity, Frames,
    MaxFrames, MaxTime, MaxStall, TickMod   \* of SerialReceive

VARIABLES
    part,   \* which part a behaviour is of
    mpBuffer, mpInPos, inPosMp, mpOutPos, concurrent, at, seen, count, mpSent,
    claims, popped, holding,
    now, line, rest, sent, isrBuffer, isrOverflow, lastTick, rx, rxBuffer,
    overflow, rxAt, left, stall, received, reported

mpVars == <<mpBuffer, mpInPos, inPosMp, mpOutPos, concurrent, at, seen, count,
            mpSent, claims, popped, holding>>
rxVars == <<now, line, rest, sent, isrBuffer, isrOverflow, lastTick, rx, rxBuffer,
            overflow, rxAt, left, stall, received, reported>>

Mp == INSTANCE CircularQueueMp
          WITH buffer <- mpBuffer, inPos <- mpInPos, outPos <- mpOutPos, sent <- mpSent

Rx == INSTANCE SerialReceive
          WITH BufCapacity <- RxCapacity, buffer <- rxBuffer, at <- rxAt

\* PoppedAsClaimed of CircularQueueMp, for either build: what is popped are the
\* messages in the order their slots were claimed, each of them once.
PoppedAsClaimed == Mp!PoppedAsClaimed

\* AcceptedIsReadable of CircularQueueMp, where interrupts are off around the
\* end of a push: with no push under way everything accepted can be popped.
AcceptedIsReadable == part = "guarded" => Mp!AcceptedIsReadable

\* ReceivedUnlessOverflow of SerialReceive: each word is received as it was
\* sent, or overflow() says that a queue was full.
ReceivedUnlessOverflow == Rx!ReceivedUnlessOverflow

\* AllReceived of SerialReceive: rxBits() leaves no word behind.
AllReceived == Rx!AllReceived
=============================================================================
