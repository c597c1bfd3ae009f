--------------------------- MODULE CircularQueue ---------------------------
(***************************************************************************)
(* circular_queue.h of EspSoftwareSerial: a ring of m_bufSize slots, one   *)
(* producer and one consumer, no lock.  Each load of a position, each copy *)
(* of an item and each store of a position is a step, so the two may meet  *)
(* anywhere.  Calls that find the queue full or empty change nothing and   *)
(* are left out.  The stores are seq_cst or release and the loads acquire  *)
(* or fenced, but for the load of m_outPos in push(), which is relaxed.    *)
(* It is taken for a step like the others: an old value only shows push()  *)
(* less room than there is, and the copy into the slot waits for the       *)
(* branch on it on the in-order cores this library is built for.           *)
(*                                                                         *)
(* capacity(cap) is not lock-free by its own comment, nobody calls it and  *)
(* it is not modelled.                                                     *)
(***************************************************************************)
EXTENDS Integers, Sequences

CONSTANTS
    BufSize,    \* m_bufSize: one more than the capacity
    SizeT,      \* one more than the largest size_t
    Sizes,      \* the sizes asked of push_n and pop_n
    MaxPushed   \* bound: items pushed

ASSUME QueueAssumption ==
    /\ BufSize \in Nat \ {0} /\ SizeT \in Nat /\ MaxPushed \in Nat
    /\ Sizes \subseteq 1..(SizeT - 1) /\ SizeT > 2 * BufSize

VARIABLES
    buffer,    \* m_buffer: the items are numbers, 0 is what a new slot holds
    inPos,     \* m_inPos
    outPos,    \* m_outPos
    next,      \* the number of the next item
    producer,  \* the push under way: how many items go up to the end of the ring and how
               \* many to its start, and how many of them are copied
    consumer,  \* the call under way: its name, the positions and the number it works with,
               \* and what it has been handed
    given      \* what the last call was handed

vars == <<buffer, inPos, outPos, next, producer, consumer, given>>

Positions == 0..(BufSize - 1)

\* x % m_bufSize, of an x below 2 * m_bufSize.
Wrap(x) == IF x >= BufSize THEN x - BufSize ELSE x

\* The value of an int expression as a size_t.
AsSize(x) == IF x < 0 THEN x + SizeT ELSE x

MinOf(x, y) == IF x <= y THEN x ELSE y

NoPush == [at |-> "idle", block |-> 0, rest |-> 0, copied |-> 0]
NoCall == [at |-> "idle", n |-> 0, pos |-> 0, kept |-> 0, got |-> <<>>]

Init ==
    /\ buffer = [p \in Positions |-> 0]
    /\ inPos = 0 /\ outPos = 0 /\ next = 1
    /\ producer = NoPush /\ consumer = NoCall
    /\ given = <<>>

(***************************************************************************)
(* The producer                                                            *)
(***************************************************************************)
\* push(): one item, unless the queue is full.
CallPush ==
    /\ producer = NoPush /\ next <= MaxPushed
    /\ Wrap(inPos + 1) # outPos
    /\ producer' = [NoPush EXCEPT !.at = "copying", !.block = 1]
    /\ UNCHANGED <<buffer, inPos, outPos, next, consumer, given>>

\* Mutant of Block: the slot that tells full from empty is filled.
BlockMutant(size) ==
    MinOf(size, IF outPos > inPos THEN outPos - 1 - inPos ELSE BufSize - inPos)

\* push_n(): what it finds room for ahead of the end of the ring ...
Block(size) ==
    MinOf(size, IF outPos > inPos THEN outPos - 1 - inPos
                ELSE IF outPos = 0 THEN BufSize - 1 - inPos
                ELSE BufSize - inPos)

\* Mutant of Rest: the block at the start runs up to the oldest item.
RestMutant(size) ==
    MinOf(size - Block(size), IF outPos > 0 THEN AsSize(outPos - Wrap(inPos + Block(size))) ELSE 0)

\* ... and then at its start.
Rest(size) ==
    MinOf(size - Block(size), IF outPos > 1 THEN AsSize(outPos - Wrap(inPos + Block(size)) - 1) ELSE 0)

CallPushN(size) ==
    /\ producer = NoPush /\ next + size - 1 <= MaxPushed
    /\ Block(size) > 0
    /\ producer' = [NoPush EXCEPT !.at = "copying", !.block = Block(size), !.rest = Rest(size)]
    /\ UNCHANGED <<buffer, inPos, outPos, next, consumer, given>>

\* The slot of the i-th item of the push, from 0.
PushSlot(i) == IF i < producer.block THEN inPos + i ELSE i - producer.block

CopyIn ==
    /\ producer.copied < producer.block + producer.rest
    /\ buffer' = [buffer EXCEPT ![PushSlot(producer.copied)] = next + producer.copied]
    /\ producer' = [producer EXCEPT !.copied = @ + 1]
    /\ UNCHANGED <<inPos, outPos, next, consumer, given>>

\* Mutant of StoreIn: the position is stored ahead of the last copy.
StoreInMutant ==
    /\ producer.at = "copying" /\ producer.copied + 1 >= producer.block + producer.rest
    /\ inPos' = Wrap(inPos + producer.block) + producer.rest
    /\ next' = next + producer.block + producer.rest
    /\ producer' = NoPush
    /\ UNCHANGED <<buffer, outPos, consumer, given>>

StoreIn ==
    /\ producer.at = "copying" /\ producer.copied = producer.block + producer.rest
    /\ inPos' = Wrap(inPos + producer.block) + producer.rest
    /\ next' = next + producer.block + producer.rest
    /\ producer' = NoPush
    /\ UNCHANGED <<buffer, outPos, consumer, given>>

(***************************************************************************)
(* The consumer                                                            *)
(***************************************************************************)
\* available(): loads m_inPos and m_outPos.
Available == IF inPos - outPos < 0 THEN inPos - outPos + BufSize ELSE inPos - outPos

\* pop() takes one item, pop_n() up to size of them.
CallPop(size) ==
    /\ consumer = NoCall /\ Available > 0
    /\ consumer' = [NoCall EXCEPT !.at = "pop", !.n = MinOf(size, Available)]
    /\ UNCHANGED <<buffer, inPos, outPos, next, producer, given>>

\* The i-th slot pop_n() copies, from 0: up to the end of the ring, then from its start.
PopSlot(i) ==
    LET ahead == MinOf(consumer.n, BufSize - outPos) IN IF i < ahead THEN outPos + i ELSE i - ahead

CopyOut ==
    /\ consumer.at = "pop" /\ Len(consumer.got) < consumer.n
    /\ consumer' = [consumer EXCEPT !.got = Append(@, buffer[PopSlot(Len(@))])]
    /\ UNCHANGED <<buffer, inPos, outPos, next, producer, given>>

\* pop_n(nullptr, size) stores without a copy.
StoreOut ==
    /\ consumer.at = "pop" /\ Len(consumer.got) \in {0, consumer.n}
    /\ outPos' = Wrap(outPos + consumer.n)
    /\ given' = consumer.got
    /\ consumer' = NoCall
    /\ UNCHANGED <<buffer, inPos, next, producer>>

\* for_each(): the items there are at the call, one by one.
CallForEach ==
    /\ consumer = NoCall /\ inPos # outPos
    /\ consumer' = [NoCall EXCEPT !.at = "each", !.pos = inPos]
    /\ UNCHANGED <<buffer, inPos, outPos, next, producer, given>>

CallBack ==
    /\ consumer.at = "each" /\ consumer.got = <<>>
    /\ consumer' = [consumer EXCEPT !.got = <<buffer[outPos]>>]
    /\ UNCHANGED <<buffer, inPos, outPos, next, producer, given>>

StoreEach ==
    /\ consumer.at = "each" /\ consumer.got # <<>>
    /\ outPos' = Wrap(outPos + 1)
    /\ given' = consumer.got
    /\ consumer' = (IF outPos' = consumer.pos THEN NoCall ELSE [consumer EXCEPT !.got = <<>>])
    /\ UNCHANGED <<buffer, inPos, next, producer>>

\* for_each_rev_requeue(): from the newest item at the call to the oldest.
CallForEachRev ==
    /\ consumer = NoCall /\ inPos # outPos
    /\ consumer' = [NoCall EXCEPT !.at = "rev", !.n = Available, !.pos = inPos, !.kept = inPos]
    /\ UNCHANGED <<buffer, inPos, outPos, next, producer, given>>

\* One item: the callback returns whether it is put back.
Requeue(keep) ==
    LET pos == Wrap(consumer.pos + BufSize - 1)
        kept == IF keep THEN Wrap(consumer.kept + BufSize - 1) ELSE consumer.kept
    IN  /\ consumer.at = "rev" /\ (consumer.got = <<>> \/ consumer.pos # outPos)
        /\ consumer' = [consumer EXCEPT !.pos = pos, !.kept = kept, !.got = Append(@, buffer[pos])]
        /\ buffer' = (IF keep THEN [buffer EXCEPT ![kept] = buffer[pos]] ELSE buffer)
        /\ UNCHANGED <<inPos, outPos, next, producer, given>>

StoreRev ==
    /\ consumer.at = "rev" /\ consumer.pos = outPos /\ consumer.got # <<>>
    /\ outPos' = consumer.kept
    /\ given' = consumer.got
    /\ consumer' = NoCall
    /\ UNCHANGED <<buffer, inPos, next, producer>>

\* flush(): m_outPos becomes the m_inPos it has loaded.
CallFlush ==
    /\ consumer = NoCall
    /\ consumer' = [NoCall EXCEPT !.at = "flush", !.pos = inPos]
    /\ UNCHANGED <<buffer, inPos, outPos, next, producer, given>>

StoreFlush ==
    /\ consumer.at = "flush"
    /\ outPos' = consumer.pos
    /\ given' = <<>>
    /\ consumer' = NoCall
    /\ UNCHANGED <<buffer, inPos, next, producer>>

Produce == CallPush \/ (\E size \in Sizes : CallPushN(size)) \/ CopyIn \/ StoreIn
Consume ==
    \/ (\E size \in Sizes \cup {1} : CallPop(size)) \/ CopyOut \/ StoreOut
    \/ CallForEach \/ CallBack \/ StoreEach
    \/ CallForEachRev \/ (\E keep \in BOOLEAN : Requeue(keep)) \/ StoreRev
    \/ CallFlush \/ StoreFlush

Next == Produce \/ Consume

Spec == Init /\ [][Next]_vars

(***************************************************************************)
(* Properties                                                              *)
(***************************************************************************)
\* How far position p is past the oldest item.
Ahead(p) == IF p < outPos THEN p - outPos + BufSize ELSE p - outPos

\* What is in the queue, for the consumer: what for_each_rev_requeue() has seen
\* it holds, as the slots it came from may be taken by items put back.
Items ==
    [i \in 1..Available |->
        IF consumer.at = "rev" /\ i <= consumer.n /\ consumer.n - i < Len(consumer.got)
        THEN consumer.got[consumer.n - i + 1]
        ELSE buffer[Wrap(outPos + i - 1)]]

Fifo == INSTANCE BoundedFifo WITH
    Capacity <- BufSize - 1, items <- Items, accepted <- producer.block + producer.rest

\* The queue is a FIFO of its capacity for one producer and one consumer,
\* wherever their steps meet: no item is lost, doubled, reordered or handed
\* over before it is copied, and a push is cut short only by a full queue.
ImplementsFifo == Fifo!Spec

ProducerSlots == {PushSlot(i) : i \in 0..(producer.block + producer.rest - 1)}

\* The slots the consumer's call may still touch.
ConsumerSlots ==
    IF consumer.at = "pop" THEN {PopSlot(i) : i \in 0..(consumer.n - 1)}
    ELSE IF consumer.at = "each" THEN {p \in Positions : Ahead(p) < Ahead(consumer.pos)}
    ELSE IF consumer.at = "rev" THEN {p \in Positions : Ahead(p) < consumer.n}
    ELSE {}

\* Producer and consumer never touch the same slot, so the plain copies of
\* items between the atomic loads and stores of the positions are no data race.
NoSharedSlot == ProducerSlots \cap ConsumerSlots = {}

\* The two positions never meet by a push: a full queue never looks empty.  And
\* the slots in use are those of the items, those being pushed and one spare.
TypeOK ==
    /\ buffer \in [Positions -> Nat]
    /\ inPos \in Positions /\ outPos \in Positions /\ next \in Nat
    /\ producer \in [at : {"idle", "copying"}, block : 0..BufSize, rest : 0..BufSize, copied : Nat]
    /\ consumer \in [at : {"idle", "pop", "each", "rev", "flush"}, n : 0..BufSize,
                      pos : Positions, kept : Positions, got : Seq(Nat)]
    /\ given \in Seq(Nat)
    /\ Available + producer.block + producer.rest < BufSize
=============================================================================
