--------------------------- MODULE SerialParity ---------------------------
(***************************************************************************)
(* The parity bits of received bytes in SoftwareSerial.cpp.  The bytes are *)
(* in one queue, m_buffer; their parity bits are packed, WordBits to an    *)
(* element, in another, m_parityBuffer, and nothing but two bit positions  *)
(* says which bit is whose.  SerialReceive takes the two for one queue of  *)
(* bytes with their parity, which is what is shown here.                   *)
(*                                                                         *)
(* A byte stands for itself by the parity it came with.  The program is    *)
(* the only one to touch either queue, so each call is one step.           *)
(***************************************************************************)
EXTENDS Naturals, Sequences

CONSTANTS
    BufCapacity,   \* of m_buffer
    WordBits       \* bits of an element of m_parityBuffer

\* What the constants must be.
ParityConstants == BufCapacity \in Nat \ {0} /\ WordBits \in Nat \ {0}

VARIABLES
    bytes,         \* m_buffer: the parity each byte came with, oldest first
    words,         \* m_parityBuffer: its slots,
    in, out,       \*   and its m_inPos and m_outPos
    inBit, outBit, \* the bits set in m_parityInPos and m_parityOutPos
    lastParity,    \* m_lastReadParity
    lastByte       \* the byte read() or peek() returned last

parityVars == <<bytes, words, in, out, inBit, outBit, lastParity, lastByte>>

\* m_bufSize of m_parityBuffer
ParitySlots == (BufCapacity + WordBits - 1) \div WordBits + 1

Slots == 0..(ParitySlots - 1)
Bits == 0..(WordBits - 1)
Plus(slot, n) == (slot + n) % ParitySlots

\* beginRx().  The slots are not initialised.
ParityInit ==
    /\ bytes = <<>> /\ words \in [Slots -> [Bits -> BOOLEAN]]
    /\ in = 0 /\ out = 0 /\ inBit = 0 /\ outBit = 0
    /\ lastParity = FALSE /\ lastByte = FALSE

\* A mutant of Store: the slot is given to the queue with its first bit.
StoreMutant(parity) ==
    /\ Len(bytes) < BufCapacity
    /\ bytes' = Append(bytes, parity)
    /\ words' = [words EXCEPT ![in][inBit] = parity]
    /\ inBit' = (inBit + 1) % WordBits
    /\ in' = (IF inBit = 0 /\ Plus(in, 1) # out THEN Plus(in, 1) ELSE in)
    /\ UNCHANGED <<out, outBit, lastParity, lastByte>>

\* rxBits() with a complete word.  pushpeek() writes to the slot pending the
\* next push(), which is refused when the queue is full.
Store(parity) ==
    /\ Len(bytes) < BufCapacity
    /\ bytes' = Append(bytes, parity)
    /\ words' = [words EXCEPT ![in][inBit] = parity]
    /\ inBit' = (inBit + 1) % WordBits
    /\ in' = (IF inBit = WordBits - 1 /\ Plus(in, 1) # out THEN Plus(in, 1) ELSE in)
    /\ UNCHANGED <<out, outBit, lastParity, lastByte>>

\* m_parityBuffer->pop() and pop_n()
Elements == (in + ParitySlots - out) % ParitySlots
PopWords(n) == out' = Plus(out, IF n <= Elements THEN n ELSE Elements)

\* peek()
Peek ==
    /\ bytes # <<>>
    /\ lastParity' = words[out][outBit] /\ lastByte' = Head(bytes)
    /\ UNCHANGED <<bytes, words, in, out, inBit, outBit>>

\* read()
Read ==
    /\ bytes # <<>>
    /\ lastParity' = words[out][outBit]
    /\ lastByte' = Head(bytes) /\ bytes' = Tail(bytes)
    /\ outBit' = (outBit + 1) % WordBits
    /\ PopWords(IF outBit = WordBits - 1 THEN 1 ELSE 0)
    /\ UNCHANGED <<words, in, inBit>>

\* read(buffer, size), which got n bytes and passes over their parity.
ReadMany(n) ==
    /\ n > 0 /\ bytes' = SubSeq(bytes, n + 1, Len(bytes))
    /\ outBit' = (outBit + n) % WordBits
    /\ PopWords((outBit + n) \div WordBits)
    /\ UNCHANGED <<words, in, inBit, lastParity, lastByte>>

\* flush().  The word that was being filled is not thrown away, its slot is
\* where both queue positions are.
Flush ==
    /\ bytes' = <<>>
    /\ inBit' = 0 /\ outBit' = 0 /\ out' = in
    /\ UNCHANGED <<words, in, lastParity, lastByte>>

ParityNext ==
    \/ \E parity \in BOOLEAN : Store(parity)
    \/ Peek \/ Read \/ Flush
    \/ \E n \in 1..Len(bytes) : ReadMany(n)

ParitySpec == ParityInit /\ [][ParityNext]_parityVars

(***************************************************************************)
(* Properties                                                              *)
(***************************************************************************)
\* Each byte in the queue has its own parity bit in the other queue, however
\* the calls that take one byte, take many, look or throw away follow each
\* other, and full queues included.  And readParity() answers for the byte that
\* read() or peek() returned last.
EachHasItsOwn ==
    /\ \A i \in DOMAIN bytes :
          LET pos == outBit + i - 1
          IN  words[Plus(out, pos \div WordBits)][pos % WordBits] = bytes[i]
    /\ lastParity = lastByte
=============================================================================
