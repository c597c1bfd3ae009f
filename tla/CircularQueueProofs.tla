------------------------ MODULE CircularQueueProofs ------------------------
(***************************************************************************)
(* Proofs about CircularQueue: for every size of the ring and every size   *)
(* of a push, the positions and the calls under way always leave producer  *)
(* and consumer slots of their own, and the ring is the queue BoundedFifo. *)
(*                                                                         *)
(* And about CircularQueueMp, for every number of producers, of messages   *)
(* and of slots; about SerialParity, for every capacity and every number   *)
(* of bits in a word; and about SerialReceive, for every word format.      *)
(***************************************************************************)
EXTENDS SerialRings, SequenceTheorems, FiniteSetTheorems, TLAPS

\* The push under way: its blocks are where copy_n() may put them, the second
\* one only when the first has reached the end of the ring.
PushInv ==
    /\ producer.at = "idle" => producer.block = 0 /\ producer.rest = 0 /\ producer.copied = 0
    /\ producer.at = "copying" =>
        /\ producer.block > 0 /\ inPos + producer.block <= BufSize
        /\ producer.rest > 0 => inPos + producer.block = BufSize
        /\ producer.copied <= producer.block + producer.rest

\* The call under way: what it set out to take is still in the queue.
CallInv ==
    /\ consumer.at = "pop" => 1 <= consumer.n /\ consumer.n <= Available
    /\ consumer.at = "each" => 1 <= Ahead(consumer.pos) /\ Ahead(consumer.pos) <= Available
    /\ consumer.at = "flush" => Ahead(consumer.pos) <= Available
    /\ consumer.at = "rev" =>
        /\ 1 <= consumer.n /\ consumer.n <= Available
        /\ Ahead(consumer.pos) <= Ahead(consumer.kept) /\ Ahead(consumer.kept) <= consumer.n
        /\ consumer.got = <<>> => 1 <= Ahead(consumer.pos)

IInv == TypeOK /\ PushInv /\ CallInv

\* A position wrapped around once is in the ring.
LEMMA WrapInRing == ASSUME NEW x \in 0..(2 * BufSize - 1) PROVE Wrap(x) \in Positions
  BY QueueAssumption DEF Wrap, Positions

\* How far p is ahead of o, around the ring: Ahead(p) for o = outPos, and
\* Available for p = inPos as well.
Distance(p, o) == IF p < o THEN p - o + BufSize ELSE p - o

\* A distance is less than the ring, and 0 only from a position to itself.
LEMMA DistanceRange ==
  ASSUME NEW p \in Positions, NEW o \in Positions
  PROVE  Distance(p, o) \in 0..(BufSize - 1) /\ (p # o => 1 <= Distance(p, o))
  BY QueueAssumption DEF Distance, Positions

\* An end that moves n on, not past p, comes n nearer to it.
LEMMA NearerFromBehind ==
  ASSUME NEW p \in Positions, NEW o \in Positions, NEW n \in Nat, n <= Distance(p, o)
  PROVE  /\ Wrap(o + n) \in Positions
         /\ Distance(p, Wrap(o + n)) = Distance(p, o) - n
<1> USE QueueAssumption DEF Positions
<1>1. CASE p < o
  <2>1. Distance(p, o) = p - o + BufSize BY <1>1 DEF Distance
  <2>2. CASE o + n >= BufSize
    <3>1. Wrap(o + n) = o + n - BufSize BY <2>2 DEF Wrap
    <3>2. 0 <= o + n - BufSize /\ o + n - BufSize <= p BY <2>1, <2>2
    <3> QED BY <2>1, <3>1, <3>2 DEF Distance
  <2>3. CASE o + n < BufSize
    <3>1. Wrap(o + n) = o + n BY <2>3 DEF Wrap
    <3> QED BY <1>1, <2>1, <2>3, <3>1 DEF Distance
  <2> QED BY <2>2, <2>3
<1>2. CASE ~(p < o)
  <2>1. Distance(p, o) = p - o BY <1>2 DEF Distance
  <2>2. o + n <= p /\ o + n < BufSize BY <2>1
  <2>3. Wrap(o + n) = o + n BY <2>2 DEF Wrap
  <2> QED BY <2>1, <2>2, <2>3 DEF Distance
<1> QED BY <1>1, <1>2

\* And p, one position back, is one nearer to o.
LEMMA NearerFromAhead ==
  ASSUME NEW p \in Positions, NEW o \in Positions, p # o
  PROVE  /\ Wrap(p + BufSize - 1) \in Positions
         /\ Distance(Wrap(p + BufSize - 1), o) = Distance(p, o) - 1
<1> USE QueueAssumption DEF Positions
<1>1. CASE p = 0
  <2>1. Wrap(p + BufSize - 1) = BufSize - 1 BY <1>1 DEF Wrap
  <2> QED BY <1>1, <2>1 DEF Distance
<1>2. CASE p # 0
  <2>1. Wrap(p + BufSize - 1) = p - 1 BY <1>2 DEF Wrap
  <2> QED BY <1>2, <2>1 DEF Distance
<1> QED BY <1>1, <1>2

\* From p to a position before q it is as much less as they are apart.
LEMMA NearerByDistance ==
  ASSUME NEW p \in Positions, NEW q \in Positions, NEW o \in Positions,
         Distance(q, o) <= Distance(p, o)
  PROVE  Distance(p, q) = Distance(p, o) - Distance(q, o)
  BY QueueAssumption DEF Distance, Positions

\* push_n(): the two blocks fit in what is free.
LEMMA RoomIsFree ==
  ASSUME TypeOK, NEW size \in Sizes
  PROVE  /\ Block(size) \in 0..BufSize /\ Rest(size) \in 0..BufSize
         /\ Available + Block(size) + Rest(size) < BufSize
         /\ inPos + Block(size) <= BufSize
         /\ Rest(size) > 0 => inPos + Block(size) = BufSize
<1>1. size \in Nat /\ size >= 1 BY QueueAssumption
<1>2. BufSize \in Nat \ {0} /\ SizeT \in Nat /\ SizeT > 2 * BufSize BY QueueAssumption
<1>3. inPos \in 0..(BufSize - 1) /\ outPos \in 0..(BufSize - 1) BY DEF TypeOK, Positions
<1> QED BY <1>1, <1>2, <1>3 DEF Block, Rest, AsSize, MinOf, Wrap, Available

\* The slots of a push are in the ring, and past all that can be read.
LEMMA PushSlotsAreFree ==
  ASSUME IInv, NEW i \in 0..(producer.block + producer.rest - 1)
  PROVE  PushSlot(i) \in Positions /\ Available <= Ahead(PushSlot(i))
<1>1. BufSize \in Nat \ {0} BY QueueAssumption
<1>2. inPos \in 0..(BufSize - 1) /\ outPos \in 0..(BufSize - 1) BY DEF IInv, TypeOK, Positions
<1>3. /\ producer.block \in 0..BufSize /\ producer.rest \in 0..BufSize /\ i \in Nat
      /\ Available + producer.block + producer.rest < BufSize
  BY <1>1 DEF IInv, TypeOK
<1>4. producer.at = "copying"
  <2>1. producer.block + producer.rest > 0 BY <1>3
  <2>2. producer.at \in {"idle", "copying"} BY DEF IInv, TypeOK
  <2> QED BY <2>1, <2>2 DEF IInv, PushInv
<1>5. /\ inPos + producer.block <= BufSize
      /\ producer.rest > 0 => inPos + producer.block = BufSize
  BY <1>4 DEF IInv, PushInv
<1> QED BY <1>1, <1>2, <1>3, <1>5 DEF PushSlot, Available, Ahead, Positions

\* And those of a call are among what can be read.
LEMMA CallSlotsAreFull ==
  ASSUME IInv, NEW p \in ConsumerSlots
  PROVE  Ahead(p) < Available
<1>1. BufSize \in Nat \ {0} BY QueueAssumption
<1>2. inPos \in 0..(BufSize - 1) /\ outPos \in 0..(BufSize - 1) BY DEF IInv, TypeOK, Positions
<1>3. consumer.n \in 0..BufSize /\ consumer.pos \in 0..(BufSize - 1) BY DEF IInv, TypeOK, Positions
<1>4. CASE consumer.at = "pop"
  <2>1. PICK i \in 0..(consumer.n - 1) : p = PopSlot(i) BY <1>4 DEF ConsumerSlots
  <2>2. consumer.n <= Available BY <1>4 DEF IInv, CallInv
  <2> QED BY <1>1, <1>2, <1>3, <2>1, <2>2 DEF PopSlot, MinOf, Available, Ahead
<1>5. CASE consumer.at = "each"
  <2>1. p \in Positions /\ Ahead(p) < Ahead(consumer.pos) BY <1>5 DEF ConsumerSlots
  <2>2. Ahead(consumer.pos) <= Available BY <1>5 DEF IInv, CallInv
  <2> QED BY <1>1, <1>2, <1>3, <2>1, <2>2 DEF Available, Ahead, Positions
<1>6. CASE consumer.at = "rev"
  <2>1. p \in Positions /\ Ahead(p) < consumer.n BY <1>6 DEF ConsumerSlots
  <2>2. consumer.n <= Available BY <1>6 DEF IInv, CallInv
  <2> QED BY <1>1, <1>2, <1>3, <2>1, <2>2 DEF Available, Ahead, Positions
<1> QED BY <1>4, <1>5, <1>6 DEF ConsumerSlots

\* The invariant keeps the two threads' slots apart.
LEMMA SlotsAreApart == IInv => NoSharedSlot
<1> SUFFICES ASSUME IInv, NEW p \in ProducerSlots, p \in ConsumerSlots PROVE FALSE
  BY DEF NoSharedSlot
<1>1. PICK i \in 0..(producer.block + producer.rest - 1) : p = PushSlot(i) BY DEF ProducerSlots
<1>2. p \in Positions /\ Available <= Ahead(p) BY <1>1, PushSlotsAreFree
<1>3. Ahead(p) < Available BY CallSlotsAreFull
<1>4. inPos \in 0..(BufSize - 1) /\ outPos \in 0..(BufSize - 1) /\ BufSize \in Nat \ {0}
  BY QueueAssumption DEF IInv, TypeOK, Positions
<1> QED BY <1>2, <1>3, <1>4 DEF Available, Ahead, Positions

\* The invariant holds of an empty ring.
LEMMA InitInv == Init => IInv
<1> SUFFICES ASSUME Init PROVE IInv OBVIOUS
<1>1. buffer \in [Positions -> Nat] BY DEF Init
<1>2. 0 \in Positions BY QueueAssumption DEF Positions
<1>3. <<>> \in Seq(Nat) OBVIOUS
<1>4. producer \in [at : {"idle", "copying"}, block : 0..BufSize, rest : 0..BufSize, copied : Nat]
  BY QueueAssumption DEF Init, NoPush
<1>5. consumer \in [at : {"idle", "pop", "each", "rev", "flush"}, n : 0..BufSize,
                    pos : Positions, kept : Positions, got : Seq(Nat)]
  BY <1>2, <1>3, QueueAssumption DEF Init, NoCall
<1> QED BY <1>1, <1>2, <1>3, <1>4, <1>5, QueueAssumption
        DEF Init, IInv, TypeOK, PushInv, CallInv, NoPush, NoCall, Available

\* The parts of the type invariant, one at a time.
CallType == consumer \in [at : {"idle", "pop", "each", "rev", "flush"}, n : 0..BufSize,
                          pos : Positions, kept : Positions, got : Seq(Nat)]
PushType == producer \in [at : {"idle", "copying"}, block : 0..BufSize, rest : 0..BufSize, copied : Nat]

\* Each step of a push keeps it.
LEMMA PushStep == IInv /\ Produce => IInv'
<1> SUFFICES ASSUME IInv, Produce PROVE IInv' OBVIOUS
<1>1. BufSize \in Nat \ {0} BY QueueAssumption
<1>2. inPos \in 0..(BufSize - 1) /\ outPos \in 0..(BufSize - 1) BY DEF IInv, TypeOK, Positions
<1>3. CallType /\ PushType /\ next \in Nat BY DEF IInv, TypeOK, CallType, PushType
<1>4. /\ producer.block \in 0..BufSize /\ producer.rest \in 0..BufSize /\ producer.copied \in Nat
      /\ producer.at \in {"idle", "copying"}
  BY <1>3 DEF PushType
<1>5. Available + producer.block + producer.rest < BufSize BY DEF IInv, TypeOK
<1>6. ASSUME outPos' = outPos, consumer' = consumer, Available' >= Available, Available' \in Int
      PROVE  CallInv'
  <2>1. consumer.n \in Nat /\ consumer.pos \in 0..(BufSize - 1) BY <1>3 DEF CallType, Positions
  <2>2. Ahead(consumer.pos)' = Ahead(consumer.pos) /\ Ahead(consumer.kept)' = Ahead(consumer.kept)
    BY <1>6 DEF Ahead
  <2>3. Ahead(consumer.pos) \in Int BY <1>1, <1>2, <2>1 DEF Ahead
  <2>4. Available \in Int BY <1>1, <1>2 DEF Available
  <2>5. CallInv BY DEF IInv
  <2> QED BY <1>6, <2>1, <2>2, <2>3, <2>4, <2>5 DEF CallInv
<1>7. ASSUME UNCHANGED <<buffer, inPos, outPos, next, consumer, given>>,
             producer'.block \in 0..BufSize, producer'.rest \in 0..BufSize,
             producer' = [at |-> "copying", block |-> producer'.block, rest |-> producer'.rest, copied |-> 0],
             producer'.block > 0, inPos + producer'.block <= BufSize,
             producer'.rest > 0 => inPos + producer'.block = BufSize,
             Available + producer'.block + producer'.rest < BufSize
      PROVE  IInv'
  <2>1. /\ producer'.at = "copying" /\ producer'.copied = 0
        /\ PushType'
    BY <1>7 DEF PushType
  <2>2. Available' = Available BY <1>7 DEF Available
  <2>3. TypeOK' BY <1>7, <2>1, <2>2 DEF IInv, TypeOK, PushType
  <2>4. PushInv' BY <1>7, <2>1 DEF PushInv
  <2>5. Available \in Int BY <1>1, <1>2 DEF Available
  <2>6. CallInv' BY <1>6, <1>7, <2>2, <2>5, <1>2
  <2> QED BY <2>3, <2>4, <2>6 DEF IInv
<1>8. CASE CallPush
  <2>1. producer = NoPush /\ Wrap(inPos + 1) # outPos BY <1>8 DEF CallPush
  <2>2. producer' = [NoPush EXCEPT !.at = "copying", !.block = 1] BY <1>8 DEF CallPush
  <2>3. producer'.block = 1 /\ producer'.rest = 0 BY <2>2 DEF NoPush
  <2>4. producer' = [at |-> "copying", block |-> producer'.block, rest |-> producer'.rest, copied |-> 0]
    BY <2>2, <2>3 DEF NoPush
  <2>5. Available + 1 < BufSize /\ inPos + 1 <= BufSize BY <1>1, <1>2, <2>1 DEF Wrap, Available
  <2>6. UNCHANGED <<buffer, inPos, outPos, next, consumer, given>> BY <1>8 DEF CallPush
  <2>7. 1 \in 0..BufSize /\ 0 \in 0..BufSize BY <1>1
  <2>8. producer'.block \in 0..BufSize /\ producer'.rest \in 0..BufSize BY <2>3, <2>7
  <2>9. Available + producer'.block + producer'.rest < BufSize /\ inPos + producer'.block <= BufSize
    <3>1. Available \in Int BY <1>1, <1>2 DEF Available
    <3> QED BY <1>1, <1>2, <2>3, <2>5, <3>1
  <2>10. producer'.block > 0 /\ ~(producer'.rest > 0) BY <2>3
  <2> QED BY <1>7, <2>4, <2>6, <2>8, <2>9, <2>10
<1>9. ASSUME NEW size \in Sizes, CallPushN(size) PROVE IInv'
  <2>1. producer' = [NoPush EXCEPT !.at = "copying", !.block = Block(size), !.rest = Rest(size)]
    BY <1>9 DEF CallPushN
  <2>2. producer'.block = Block(size) /\ producer'.rest = Rest(size) BY <2>1 DEF NoPush
  <2>3. TypeOK BY DEF IInv
  <2>4. Block(size) > 0 /\ UNCHANGED <<buffer, inPos, outPos, next, consumer, given>>
    BY <1>9 DEF CallPushN
  <2>5. producer' = [at |-> "copying", block |-> producer'.block, rest |-> producer'.rest, copied |-> 0]
    BY <2>1, <2>2 DEF NoPush
  <2> QED BY <1>7, <1>9, <2>2, <2>3, <2>4, <2>5, RoomIsFree
<1>10. CASE CopyIn
  <2>1. producer.copied < producer.block + producer.rest BY <1>10 DEF CopyIn
  <2>2. producer.copied \in 0..(producer.block + producer.rest - 1) BY <1>4, <2>1
  <2>3. PushSlot(producer.copied) \in Positions BY <2>2, PushSlotsAreFree
  <2>4. next + producer.copied \in Nat BY <1>3, <1>4
  <2>5. buffer' = [buffer EXCEPT ![PushSlot(producer.copied)] = next + producer.copied] BY <1>10 DEF CopyIn
  <2>6. buffer \in [Positions -> Nat] BY DEF IInv, TypeOK
  <2>7. buffer' \in [Positions -> Nat] BY <2>3, <2>4, <2>5, <2>6
  <2>8. producer' = [producer EXCEPT !.copied = @ + 1] BY <1>10 DEF CopyIn
  <2>9. UNCHANGED <<inPos, outPos, next, consumer, given>> BY <1>10 DEF CopyIn
  <2>10. /\ PushType' /\ producer'.at = producer.at /\ producer'.block = producer.block
         /\ producer'.rest = producer.rest /\ producer'.copied = producer.copied + 1
    BY <1>3, <1>4, <2>8 DEF PushType
  <2>11. Available' = Available BY <2>9 DEF Available
  <2>12. TypeOK' BY <2>7, <2>9, <2>10, <2>11, <1>5 DEF IInv, TypeOK, PushType
  <2>13. PushInv' BY <1>4, <2>1, <2>9, <2>10 DEF IInv, PushInv
  <2>14. Available \in Int BY <1>1, <1>2 DEF Available
  <2>15. CallInv' BY <1>2, <1>6, <2>9, <2>11, <2>14
  <2> QED BY <2>12, <2>13, <2>15 DEF IInv
<1>11. CASE StoreIn
  <2>1. producer.at = "copying" BY <1>11 DEF StoreIn
  <2>2. /\ inPos + producer.block <= BufSize
        /\ producer.rest > 0 => inPos + producer.block = BufSize
    BY <2>1 DEF IInv, PushInv
  <2>3. inPos' = Wrap(inPos + producer.block) + producer.rest BY <1>11 DEF StoreIn
  <2>4. UNCHANGED <<buffer, outPos, consumer, given>> BY <1>11 DEF StoreIn
  <2>5. /\ inPos' \in 0..(BufSize - 1)
        /\ Available' = Available + producer.block + producer.rest
    BY <1>1, <1>2, <1>4, <1>5, <2>2, <2>3, <2>4 DEF Wrap, Available
  <2>6. producer' = NoPush /\ next' = next + producer.block + producer.rest BY <1>11 DEF StoreIn
  <2>7. next' \in Nat BY <1>3, <1>4, <2>6
  <2>8. /\ PushType' /\ producer'.at = "idle" /\ producer'.block = 0 /\ producer'.rest = 0
        /\ producer'.copied = 0
    BY <1>1, <2>6 DEF NoPush, PushType
  <2>9. Available \in Int BY <1>1, <1>2 DEF Available
  <2>10. TypeOK'
    <3>1. (Available + producer.block + producer.rest < BufSize)' BY <1>1, <1>4, <1>5, <2>5, <2>8, <2>9
    <3>2. inPos' \in Positions BY <2>5 DEF Positions
    <3> QED BY <2>4, <2>7, <2>8, <3>1, <3>2 DEF IInv, TypeOK, PushType
  <2>11. PushInv' BY <2>8 DEF PushInv
  <2>12. CallInv' BY <1>4, <1>6, <2>4, <2>5, <2>9
  <2> QED BY <2>10, <2>11, <2>12 DEF IInv
<1> QED BY <1>8, <1>9, <1>10, <1>11 DEF Produce

\* Each step of the consumer's calls keeps it.
LEMMA CallStep == IInv /\ Consume => IInv'
<1> SUFFICES ASSUME IInv, Consume PROVE IInv' OBVIOUS
<1>1. BufSize \in Nat \ {0} BY QueueAssumption
<1>2. inPos \in 0..(BufSize - 1) /\ outPos \in 0..(BufSize - 1) BY DEF IInv, TypeOK, Positions
<1>3. CallType /\ buffer \in [Positions -> Nat] /\ given \in Seq(Nat) BY DEF IInv, TypeOK, CallType
<1>4. /\ consumer.n \in 0..BufSize /\ consumer.got \in Seq(Nat)
      /\ consumer.pos \in 0..(BufSize - 1) /\ consumer.kept \in 0..(BufSize - 1)
  BY <1>3 DEF CallType, Positions
<1>a. <<>> \in Seq(Nat) /\ 0 \in Positions /\ 0 \in 0..BufSize BY <1>1 DEF Positions
<1>b. /\ inPos \in Positions /\ outPos \in Positions
      /\ consumer.pos \in Positions /\ consumer.kept \in Positions
  BY <1>2, <1>4 DEF Positions
<1>c. Available = Distance(inPos, outPos) BY <1>2 DEF Available, Distance
<1>d. ASSUME inPos' = inPos, outPos' \in Positions PROVE Available' = Distance(inPos, outPos')
  <2>1. \A i, o \in Positions :
          (IF i - o < 0 THEN i - o + BufSize ELSE i - o) = Distance(i, o)
    BY <1>1 DEF Distance, Positions
  <2>2. Available' = IF inPos - outPos' < 0 THEN inPos - outPos' + BufSize ELSE inPos - outPos'
    BY <1>d DEF Available
  <2> QED BY <1>b, <1>d, <2>1, <2>2
<1>e. \A p : Ahead(p) = Distance(p, outPos) BY DEF Ahead, Distance
<1>5. /\ Available \in 0..(BufSize - 1) /\ Ahead(consumer.pos) \in 0..(BufSize - 1)
      /\ Ahead(consumer.kept) \in 0..(BufSize - 1)
  BY <1>b, <1>c, <1>e, DistanceRange
<1>6. /\ producer.block \in 0..BufSize /\ producer.rest \in 0..BufSize
      /\ Available + producer.block + producer.rest < BufSize
  BY DEF IInv, TypeOK
\* The producer's side stays as it is, and what can be read does not grow.
<1>7. ASSUME UNCHANGED <<inPos, next, producer>>, buffer' \in [Positions -> Nat],
             outPos' \in Positions, given' \in Seq(Nat), CallType', CallInv',
             Available' \in Int, Available' <= Available
      PROVE  IInv'
  <2>1. (Available + producer.block + producer.rest < BufSize)'
    <3>1. Available' \in Int /\ Available' <= Available /\ producer' = producer BY <1>7
    <3>2. producer.block \in Int /\ producer.rest \in Int /\ Available \in Int
      BY <1>1, <1>5, <1>6
    <3>3. Available' + producer.block + producer.rest < BufSize BY <1>1, <1>6, <3>1, <3>2
    <3> QED BY <3>1, <3>3
  <2>2. TypeOK' BY <1>7, <2>1 DEF IInv, TypeOK, CallType
  <2>3. PushInv' BY <1>7 DEF IInv, PushInv
  <2> QED BY <1>7, <2>2, <2>3 DEF IInv
\* A call begins: nothing moves.
<1>8. ASSUME UNCHANGED <<buffer, inPos, outPos, next, producer, given>>, CallType', CallInv'
      PROVE  IInv'
  <2>1. Available' = Available BY <1>8 DEF Available
  <2>2. outPos' \in Positions BY <1>2, <1>8 DEF Positions
  <2> QED BY <1>3, <1>5, <1>7, <1>8, <2>1, <2>2
\* A call ends: m_outPos is n further on, of what can be read.
<1>9. ASSUME NEW n \in Nat, n <= Available, outPos' \in Positions, given' = consumer.got \/ given' = <<>>,
             Available' = Available - n,
             UNCHANGED <<buffer, inPos, next, producer>>, consumer' = NoCall
      PROVE  IInv'
  <2>1. given' \in Seq(Nat) BY <1>4, <1>9, <1>a
  <2>2. CallType' BY <1>a, <1>1, <1>9 DEF CallType, NoCall, Positions
  <2>3. CallInv' BY <1>9 DEF CallInv, NoCall
  <2>4. Available' \in Int /\ Available' <= Available BY <1>5, <1>9
  <2> QED BY <1>3, <1>7, <1>9, <2>1, <2>2, <2>3, <2>4
<1>10. ASSUME NEW size \in Sizes \cup {1}, CallPop(size) PROVE IInv'
  <2>1. UNCHANGED <<buffer, inPos, outPos, next, producer, given>> BY <1>10 DEF CallPop
  <2>2. consumer' = [NoCall EXCEPT !.at = "pop", !.n = MinOf(size, Available)] /\ Available > 0
    BY <1>10 DEF CallPop
  <2>3. size \in Nat /\ size >= 1 BY QueueAssumption
  <2>4. MinOf(size, Available) \in 0..BufSize /\ 1 <= MinOf(size, Available) /\ MinOf(size, Available) <= Available
    BY <1>1, <1>5, <2>2, <2>3 DEF MinOf
  <2>5. consumer'.at = "pop" /\ consumer'.n = MinOf(size, Available) BY <2>2 DEF NoCall
  <2>6. CallType' BY <1>a, <1>1, <2>2, <2>4 DEF CallType, NoCall, Positions
  <2>7. Available' = Available BY <2>1 DEF Available
  <2>8. CallInv' BY <2>4, <2>5, <2>7 DEF CallInv
  <2> QED BY <1>8, <2>1, <2>6, <2>8
<1>11. CASE CopyOut
  <2>1. UNCHANGED <<buffer, inPos, outPos, next, producer, given>> BY <1>11 DEF CopyOut
  <2>2. /\ consumer.at = "pop" /\ Len(consumer.got) < consumer.n
        /\ consumer' = [consumer EXCEPT !.got = Append(@, buffer[PopSlot(Len(@))])]
    BY <1>11 DEF CopyOut
  <2>3. Len(consumer.got) \in 0..(consumer.n - 1) BY <1>4, <2>2
  <2>4. PopSlot(Len(consumer.got)) \in Positions
    <3>1. consumer.n <= Available BY <2>2 DEF IInv, CallInv
    <3>2. consumer.n <= BufSize - 1 /\ consumer.n \in Nat BY <1>1, <1>4, <1>5, <3>1
    <3>3. BufSize - outPos \in 1..BufSize BY <1>1, <1>2
    <3>4. CASE consumer.n <= BufSize - outPos
      BY <1>1, <1>2, <2>3, <3>2, <3>3, <3>4 DEF PopSlot, MinOf, Positions
    <3>5. CASE ~(consumer.n <= BufSize - outPos)
      BY <1>1, <1>2, <2>3, <3>2, <3>3, <3>5 DEF PopSlot, MinOf, Positions
    <3> QED BY <3>4, <3>5
  <2>5. buffer[PopSlot(Len(consumer.got))] \in Nat BY <1>3, <2>4
  <2>6. Append(consumer.got, buffer[PopSlot(Len(consumer.got))]) \in Seq(Nat) BY <1>4, <2>5
  <2>7. CallType' BY <1>3, <2>2, <2>6 DEF CallType
  <2>8. consumer'.at = "pop" /\ consumer'.n = consumer.n BY <1>3, <2>2 DEF CallType
  <2>9. Available' = Available BY <2>1 DEF Available
  <2>10. CallInv' BY <2>2, <2>8, <2>9 DEF IInv, CallInv
  <2> QED BY <1>8, <2>1, <2>7, <2>10
<1>12. CASE StoreOut
  <2>1. /\ consumer.at = "pop" /\ outPos' = Wrap(outPos + consumer.n) /\ given' = consumer.got
        /\ consumer' = NoCall /\ UNCHANGED <<buffer, inPos, next, producer>>
    BY <1>12 DEF StoreOut
  <2>2. consumer.n <= Available BY <2>1 DEF IInv, CallInv
  <2>5. consumer.n \in Nat BY <1>4
  <2>3. /\ outPos' \in Positions
        /\ Distance(inPos, outPos') = Distance(inPos, outPos) - consumer.n
    BY <1>b, <1>c, <2>1, <2>2, <2>5, NearerFromBehind
  <2>4. Available' = Available - consumer.n BY <1>c, <1>d, <2>1, <2>3
  <2> QED BY <1>9, <2>1, <2>2, <2>3, <2>4, <2>5
<1>13. CASE CallForEach
  <2>1. UNCHANGED <<buffer, inPos, outPos, next, producer, given>> BY <1>13 DEF CallForEach
  <2>2. inPos # outPos /\ consumer' = [NoCall EXCEPT !.at = "each", !.pos = inPos] BY <1>13 DEF CallForEach
  <2>3. consumer'.at = "each" /\ consumer'.pos = inPos BY <2>2 DEF NoCall
  <2>4. CallType' BY <1>a, <1>1, <1>2, <2>2 DEF CallType, NoCall, Positions
  <2>5. Ahead(inPos) = Available /\ 1 <= Available
    BY <1>b, <1>c, <1>e, <2>2, DistanceRange
  <2>6. Available' = Available /\ Ahead(consumer.pos)' = Ahead(inPos) BY <2>1, <2>3 DEF Available, Ahead
  <2>7. CallInv' BY <1>5, <2>3, <2>5, <2>6 DEF CallInv
  <2> QED BY <1>8, <2>1, <2>4, <2>7
<1>14. CASE CallBack
  <2>1. UNCHANGED <<buffer, inPos, outPos, next, producer, given>> BY <1>14 DEF CallBack
  <2>2. consumer.at = "each" /\ consumer' = [consumer EXCEPT !.got = <<buffer[outPos]>>]
    BY <1>14 DEF CallBack
  <2>3. <<buffer[outPos]>> \in Seq(Nat) BY <1>2, <1>3 DEF Positions
  <2>4. CallType' BY <1>3, <2>2, <2>3 DEF CallType
  <2>5. consumer'.at = "each" /\ consumer'.pos = consumer.pos BY <1>3, <2>2 DEF CallType
  <2>6. Available' = Available /\ Ahead(consumer.pos)' = Ahead(consumer.pos)
    BY <2>1, <2>5 DEF Available, Ahead
  <2>7. CallInv' BY <2>2, <2>5, <2>6 DEF IInv, CallInv
  <2> QED BY <1>8, <2>1, <2>4, <2>7
<1>15. CASE StoreEach
  <2>1. /\ consumer.at = "each" /\ outPos' = Wrap(outPos + 1) /\ given' = consumer.got
        /\ UNCHANGED <<buffer, inPos, next, producer>>
        /\ consumer' = IF outPos' = consumer.pos THEN NoCall ELSE [consumer EXCEPT !.got = <<>>]
    BY <1>15 DEF StoreEach
  <2>2. 1 <= Ahead(consumer.pos) /\ Ahead(consumer.pos) <= Available BY <2>1 DEF IInv, CallInv
  <2>a. 1 <= Available BY <1>5, <2>2
  <2>3. /\ outPos' \in Positions
        /\ Distance(inPos, outPos') = Distance(inPos, outPos) - 1
    BY <1>b, <1>c, <2>1, <2>a, NearerFromBehind
  <2>4. Available' = Available - 1 BY <1>c, <1>d, <2>1, <2>3
  <2>5. CASE outPos' = consumer.pos
    <3>1. 1 <= Available BY <1>5, <2>2
    <3> QED BY <1>9, <2>1, <2>3, <2>4, <2>5, <3>1
  <2>6. CASE outPos' # consumer.pos
    <3>1. consumer' = [consumer EXCEPT !.got = <<>>] BY <2>1, <2>6
    <3>2. CallType' BY <1>3, <1>a, <3>1 DEF CallType
    <3>3. consumer'.at = "each" /\ consumer'.pos = consumer.pos BY <1>3, <2>1, <3>1 DEF CallType
    <3>4. Ahead(consumer.pos)' = Ahead(consumer.pos) - 1
      <4>1. Ahead(consumer.pos)' = Distance(consumer.pos, outPos')
        BY <3>3 DEF Ahead, Distance
      <4>2. Distance(consumer.pos, outPos') = Distance(consumer.pos, outPos) - 1
        BY <1>b, <1>e, <2>1, <2>2, NearerFromBehind
      <4> QED BY <1>e, <4>1, <4>2
    <3>5. Ahead(consumer.pos) # 1
      <4>1. Ahead(consumer.pos)' >= 1
        BY <1>b, <2>3, <2>6, <3>3, DistanceRange DEF Ahead, Distance
      <4> QED BY <1>5, <3>4, <4>1
    <3>6. CallInv' BY <1>5, <2>2, <2>4, <3>3, <3>4, <3>5 DEF CallInv
    <3>7. Available' \in Int /\ Available' <= Available BY <1>5, <2>4
    <3>8. given' \in Seq(Nat) BY <1>4, <2>1
    <3> QED BY <1>3, <1>7, <2>1, <2>3, <3>2, <3>6, <3>7, <3>8
  <2> QED BY <2>5, <2>6
<1>16. CASE CallForEachRev
  <2>1. UNCHANGED <<buffer, inPos, outPos, next, producer, given>> BY <1>16 DEF CallForEachRev
  <2>2. /\ inPos # outPos
        /\ consumer' = [NoCall EXCEPT !.at = "rev", !.n = Available, !.pos = inPos, !.kept = inPos]
    BY <1>16 DEF CallForEachRev
  <2>3. consumer'.at = "rev" /\ consumer'.pos = inPos /\ consumer'.kept = inPos /\ consumer'.n = Available
    BY <2>2 DEF NoCall
  <2>4. Available \in 0..BufSize BY <1>1, <1>5
  <2>5. CallType' BY <1>a, <1>1, <1>2, <2>2, <2>4 DEF CallType, NoCall, Positions
  <2>6. Ahead(inPos) = Available /\ 1 <= Available
    BY <1>b, <1>c, <1>e, <2>2, DistanceRange
  <2>7. /\ Available' = Available /\ Ahead(consumer.pos)' = Ahead(inPos)
        /\ Ahead(consumer.kept)' = Ahead(inPos)
    BY <2>1, <2>3 DEF Available, Ahead
  <2>8. CallInv' BY <1>5, <2>3, <2>6, <2>7 DEF CallInv
  <2> QED BY <1>8, <2>1, <2>5, <2>8
<1>17. ASSUME NEW keep \in BOOLEAN, Requeue(keep) PROVE IInv'
  <2> DEFINE pos == Wrap(consumer.pos + BufSize - 1)
  <2> DEFINE kept == IF keep THEN Wrap(consumer.kept + BufSize - 1) ELSE consumer.kept
  <2>1. /\ consumer.at = "rev" /\ (consumer.got = <<>> \/ consumer.pos # outPos)
        /\ consumer' = [consumer EXCEPT !.pos = pos, !.kept = kept, !.got = Append(@, buffer[pos])]
        /\ buffer' = IF keep THEN [buffer EXCEPT ![kept] = buffer[pos]] ELSE buffer
        /\ UNCHANGED <<inPos, outPos, next, producer, given>>
    BY <1>17 DEF Requeue
  <2>2. /\ 1 <= consumer.n /\ consumer.n <= Available
        /\ Ahead(consumer.pos) <= Ahead(consumer.kept) /\ Ahead(consumer.kept) <= consumer.n
        /\ consumer.got = <<>> => 1 <= Ahead(consumer.pos)
    BY <2>1 DEF IInv, CallInv
  <2>3. 1 <= Ahead(consumer.pos)
    <3>1. consumer.pos # outPos => 1 <= Ahead(consumer.pos)
      BY <1>b, <1>e, DistanceRange
    <3> QED BY <2>1, <2>2, <3>1
  <2>4. pos \in 0..(BufSize - 1) /\ kept \in 0..(BufSize - 1) BY <1>1, <1>4 DEF Wrap
  <2>a. \A p \in Positions : 1 <= Ahead(p) => p # outPos
    BY <1>2 DEF Ahead, Positions
  <2>5. Ahead(pos) = Ahead(consumer.pos) - 1
    BY <1>b, <1>e, <2>3, <2>a, NearerFromAhead
  <2>6. Ahead(kept) \in {Ahead(consumer.kept), Ahead(consumer.kept) - 1}
    <3>1. 1 <= Ahead(consumer.kept) BY <1>5, <2>2, <2>3
    <3>2. CASE keep
      <4>1. Ahead(Wrap(consumer.kept + BufSize - 1)) = Ahead(consumer.kept) - 1
        BY <1>b, <1>e, <2>a, <3>1, NearerFromAhead
      <4> QED BY <3>2, <4>1
    <3>3. CASE ~keep BY <3>3
    <3> QED BY <3>2, <3>3
  <2> HIDE DEF pos, kept
  <2>7. buffer[pos] \in Nat BY <1>3, <2>4 DEF Positions
  <2>8. buffer' \in [Positions -> Nat] BY <1>3, <2>1, <2>4, <2>7 DEF Positions
  <2>9. Append(consumer.got, buffer[pos]) \in Seq(Nat) /\ Append(consumer.got, buffer[pos]) # <<>>
    <3>1. Append(consumer.got, buffer[pos]) \in Seq(Nat) BY <1>4, <2>7, AppendProperties
    <3>2. Len(Append(consumer.got, buffer[pos])) = Len(consumer.got) + 1 BY <1>4, <2>7, AppendProperties
    <3>3. Len(consumer.got) \in Nat BY <1>4, LenProperties
    <3> QED BY <3>1, <3>2, <3>3, EmptySeq
  <2>10. CallType' BY <1>3, <2>1, <2>4, <2>9 DEF CallType, Positions
  <2>11. /\ consumer'.at = "rev" /\ consumer'.pos = pos /\ consumer'.kept = kept
         /\ consumer'.n = consumer.n /\ consumer'.got # <<>>
    BY <1>3, <2>1, <2>9 DEF CallType
  <2>12. /\ Available' = Available /\ Ahead(consumer.pos)' = Ahead(pos)
         /\ Ahead(consumer.kept)' = Ahead(kept)
    BY <2>1, <2>11 DEF Available, Ahead
  <2>13. CallInv' BY <1>4, <1>5, <2>2, <2>5, <2>6, <2>11, <2>12 DEF CallInv
  <2>14. outPos' \in Positions /\ given' \in Seq(Nat) BY <1>2, <1>3, <2>1 DEF Positions
  <2> QED BY <1>5, <1>7, <2>1, <2>8, <2>10, <2>12, <2>13, <2>14
<1>18. CASE StoreRev
  <2>1. /\ consumer.at = "rev" /\ outPos' = consumer.kept /\ given' = consumer.got
        /\ consumer' = NoCall /\ UNCHANGED <<buffer, inPos, next, producer>>
    BY <1>18 DEF StoreRev
  <2>2. Ahead(consumer.kept) <= consumer.n /\ consumer.n <= Available BY <2>1 DEF IInv, CallInv
  <2>3. outPos' \in Positions BY <1>4, <2>1 DEF Positions
  <2>4. Ahead(consumer.kept) <= Available BY <1>4, <1>5, <2>2
  <2>5. Available' = Available - Ahead(consumer.kept)
    BY <1>b, <1>c, <1>d, <1>e, <2>1, <2>4, NearerByDistance
  <2>6. Ahead(consumer.kept) \in Nat BY <1>5
  <2> QED BY <1>9, <2>1, <2>3, <2>4, <2>5, <2>6
<1>19. CASE CallFlush
  <2>1. UNCHANGED <<buffer, inPos, outPos, next, producer, given>> BY <1>19 DEF CallFlush
  <2>2. consumer' = [NoCall EXCEPT !.at = "flush", !.pos = inPos] BY <1>19 DEF CallFlush
  <2>3. consumer'.at = "flush" /\ consumer'.pos = inPos BY <2>2 DEF NoCall
  <2>4. CallType' BY <1>a, <1>1, <1>2, <2>2 DEF CallType, NoCall, Positions
  <2>5. Ahead(inPos) = Available BY <1>c, <1>e
  <2>6. Available' = Available /\ Ahead(consumer.pos)' = Ahead(inPos) BY <2>1, <2>3 DEF Available, Ahead
  <2>7. CallInv' BY <1>5, <2>3, <2>5, <2>6 DEF CallInv
  <2> QED BY <1>8, <2>1, <2>4, <2>7
<1>20. CASE StoreFlush
  <2>1. /\ consumer.at = "flush" /\ outPos' = consumer.pos /\ given' = <<>>
        /\ consumer' = NoCall /\ UNCHANGED <<buffer, inPos, next, producer>>
    BY <1>20 DEF StoreFlush
  <2>2. Ahead(consumer.pos) <= Available BY <2>1 DEF IInv, CallInv
  <2>3. outPos' \in Positions BY <1>4, <2>1 DEF Positions
  <2>4. Available' = Available - Ahead(consumer.pos)
    BY <1>b, <1>c, <1>d, <1>e, <2>1, <2>2, NearerByDistance
  <2>5. Ahead(consumer.pos) \in Nat BY <1>5
  <2> QED BY <1>9, <2>1, <2>2, <2>3, <2>4, <2>5
<1> QED
  BY <1>10, <1>11, <1>12, <1>13, <1>14, <1>15, <1>16, <1>17, <1>18, <1>19, <1>20 DEF Consume

\* And so does every step.
LEMMA StepInv == IInv /\ [Next]_vars => IInv'
<1>1. IInv /\ UNCHANGED vars => IInv'
  BY DEF vars, IInv, TypeOK, PushInv, CallInv, Available, Ahead
<1> QED BY <1>1, PushStep, CallStep DEF Next

\* It holds for any size of ring and of blocks.
LEMMA Invariance == Spec => []IInv
BY InitInv, StepInv, PTL DEF Spec

\* Positions, blocks and counts stay in range, and the items in the queue and
\* those being pushed always leave a slot free: a full queue never looks empty.
THEOREM TypeCorrect == Spec => []TypeOK
<1>1. IInv => TypeOK BY DEF IInv
<1> QED BY Invariance, <1>1, PTL

\* Producer and consumer never have a slot in common, whatever the size of the
\* ring and of the blocks: the copies outside the atomic positions do not race.
THEOREM SlotsNeverShared == Spec => []NoSharedSlot
BY Invariance, SlotsAreApart, PTL

(***************************************************************************)
(* CircularQueue implements BoundedFifo.  A slot is named by how far it is *)
(* past the oldest item, which no push changes; what the calls under way   *)
(* have copied, put back or been handed is told by the items it is of.     *)
(***************************************************************************)

\* The slot j past slot o.
Nth(o, j) == Wrap(o + j)

\* What a push has copied are the next items.
CopiedInv == \A i \in 0..(producer.copied - 1) : buffer[PushSlot(i)] = next + i

\* for_each_rev_requeue() has seen the items of the call from this one on, and
\* keeps its slots from that one on.
Seen == Ahead(consumer.pos)
Kept == Ahead(consumer.kept)

\* Slot i of those it keeps has the item pick[i] past the oldest, in their order.
Sifted(pick) ==
    /\ pick \in [Kept..(consumer.n - 1) -> Seen..(consumer.n - 1)]
    /\ \A i, j \in Kept..(consumer.n - 1) : i < j => pick[i] < pick[j]
    /\ \A i \in Kept..(consumer.n - 1) : buffer[Nth(outPos, i)] = Items[pick[i] + 1]

\* What the call under way was handed are the items it is of.
TakenInv ==
    /\ consumer.at = "pop" =>
         /\ Len(consumer.got) <= consumer.n
         /\ \A i \in 1..Len(consumer.got) : consumer.got[i] = Items[i]
    /\ consumer.at = "each" => consumer.got = <<>> \/ consumer.got = <<Items[1]>>
    /\ consumer.at = "rev" => Len(consumer.got) + Seen = consumer.n /\ \E pick : Sifted(pick)

\* The inductive invariant of the refinement.
FifoInv == IInv /\ CopiedInv /\ TakenInv

\* What the state is made of.
Sized ==
    /\ inPos \in Positions /\ outPos \in Positions /\ buffer \in [Positions -> Nat] /\ next \in Nat
    /\ Available \in 0..(BufSize - 1) /\ Available = Distance(inPos, outPos)
    /\ producer.block \in 0..BufSize /\ producer.rest \in 0..BufSize /\ producer.copied \in Nat
    /\ Available + producer.block + producer.rest < BufSize
    /\ consumer.n \in 0..BufSize /\ consumer.got \in Seq(Nat) /\ Len(consumer.got) \in Nat
    /\ consumer.pos \in Positions /\ consumer.kept \in Positions
    /\ Seen \in 0..(BufSize - 1) /\ Kept \in 0..(BufSize - 1)
    /\ consumer.at \in {"idle", "pop", "each", "rev", "flush"}

\* And the items in it.
Itemised ==
    /\ Items \in Seq(Nat) /\ Len(Items) = Available
    /\ \A i \in 1..Available :
         Items[i] = IF consumer.at = "rev" /\ i <= consumer.n /\ consumer.n - i < Len(consumer.got)
                    THEN consumer.got[consumer.n - i + 1]
                    ELSE buffer[Nth(outPos, i - 1)]

\* A slot so named is in the ring, and as far as its name says.
LEMMA NthInRing ==
  ASSUME NEW o \in Positions, NEW j \in 0..(BufSize - 1)
  PROVE  Nth(o, j) \in Positions /\ Distance(Nth(o, j), o) = j
BY QueueAssumption DEF Nth, Wrap, Positions, Distance

\* Every slot has such a name.
LEMMA NthOfDistance ==
  ASSUME NEW o \in Positions, NEW p \in Positions
  PROVE  Nth(o, Distance(p, o)) = p
BY QueueAssumption DEF Nth, Wrap, Positions, Distance

\* Two names are of two slots.
LEMMA NthApart ==
  ASSUME NEW o \in Positions, NEW j \in 0..(BufSize - 1), NEW k \in 0..(BufSize - 1), j # k
  PROVE  Nth(o, j) # Nth(o, k)
BY NthInRing

\* Names from n slots on.
LEMMA NthOfNth ==
  ASSUME NEW o \in Positions, NEW n \in Nat, NEW j \in Nat, n + j <= BufSize - 1
  PROVE  Nth(Nth(o, n), j) = Nth(o, n + j)
BY QueueAssumption DEF Nth, Wrap, Positions

\* The invariant says what the state is made of.
LEMMA SizedIs == IInv => Sized
<1> SUFFICES ASSUME IInv PROVE Sized OBVIOUS
<1>1. BufSize \in Nat \ {0} BY QueueAssumption
<1>2. /\ inPos \in Positions /\ outPos \in Positions /\ buffer \in [Positions -> Nat] /\ next \in Nat
      /\ producer.block \in 0..BufSize /\ producer.rest \in 0..BufSize /\ producer.copied \in Nat
      /\ Available + producer.block + producer.rest < BufSize
      /\ consumer.n \in 0..BufSize /\ consumer.got \in Seq(Nat)
      /\ consumer.pos \in Positions /\ consumer.kept \in Positions
      /\ consumer.at \in {"idle", "pop", "each", "rev", "flush"}
  BY DEF IInv, TypeOK
<1>3. Available = Distance(inPos, outPos) BY <1>1, <1>2 DEF Available, Distance, Positions
<1>4. Seen = Distance(consumer.pos, outPos) /\ Kept = Distance(consumer.kept, outPos)
  BY DEF Seen, Kept, Ahead, Distance
<1>5. Available \in 0..(BufSize - 1) BY <1>2, <1>3, DistanceRange
<1>6. Seen \in 0..(BufSize - 1) /\ Kept \in 0..(BufSize - 1) BY <1>2, <1>4, DistanceRange
<1>7. Len(consumer.got) \in Nat BY <1>2
<1> QED BY <1>2, <1>3, <1>5, <1>6, <1>7 DEF Sized

\* And what its items are.
LEMMA ItemisedIs == IInv => Itemised
<1> SUFFICES ASSUME IInv PROVE Itemised OBVIOUS
<1>1. Sized BY SizedIs
<1> DEFINE told(i) == consumer.at = "rev" /\ i <= consumer.n /\ consumer.n - i < Len(consumer.got)
           item(i) == IF told(i) THEN consumer.got[consumer.n - i + 1] ELSE buffer[Wrap(outPos + i - 1)]
<1>2. Items = [i \in 1..Available |-> item(i)] BY DEF Items
<1>3. ASSUME NEW i \in 1..Available PROVE item(i) \in Nat /\ Wrap(outPos + i - 1) = Nth(outPos, i - 1)
  <2>1. (outPos + i) - 1 = outPos + (i - 1) /\ i - 1 \in 0..(BufSize - 1) /\ i \in Nat
    BY <1>1, QueueAssumption DEF Sized, Positions
  <2>2. Wrap(outPos + i - 1) = Nth(outPos, i - 1) BY <2>1 DEF Nth
  <2>3. Nth(outPos, i - 1) \in Positions BY <1>1, <2>1, NthInRing DEF Sized
  <2>4. buffer[Wrap(outPos + i - 1)] \in Nat BY <1>1, <2>2, <2>3 DEF Sized
  <2>5. ASSUME told(i) PROVE consumer.got[consumer.n - i + 1] \in Nat
    <3>1. consumer.n \in Nat /\ Len(consumer.got) \in Nat BY <1>1, QueueAssumption DEF Sized
    <3>2. i <= consumer.n /\ consumer.n - i < Len(consumer.got) BY <2>5
    <3>3. consumer.n - i + 1 \in 1..Len(consumer.got) BY <2>1, <3>1, <3>2
    <3> QED BY <1>1, <3>3, ElementOfSeq DEF Sized
  <2> QED BY <2>2, <2>4, <2>5
<1>4. Items \in [1..Available -> Nat] BY <1>2, <1>3
<1>5. Available \in Nat BY <1>1, QueueAssumption DEF Sized
<1>6. Items \in Seq(Nat) /\ Len(Items) = Available
  <2>1. PICK n \in Nat : n = Available BY <1>5
  <2>2. PICK g \in [1..n -> Nat] : g = Items BY <1>4, <2>1
  <2>3. g \in Seq(Nat) /\ Len(g) = n OBVIOUS
  <2> QED BY <2>1, <2>2, <2>3
<1>7. \A i \in 1..Available : Items[i] = item(i) BY <1>2
<1> QED BY <1>3, <1>6, <1>7 DEF Itemised

\* The slots of a push follow those of the items.
LEMMA PushSlotIs ==
  ASSUME IInv, NEW i \in 0..(producer.block + producer.rest - 1)
  PROVE  /\ PushSlot(i) = Nth(outPos, Available + i) /\ PushSlot(i) \in Positions
         /\ Available + i \in 0..(BufSize - 1)
<1>1. BufSize \in Nat \ {0} BY QueueAssumption
<1>2. Sized BY SizedIs
<1>3. /\ inPos \in 0..(BufSize - 1) /\ outPos \in 0..(BufSize - 1) /\ i \in Nat
      /\ producer.block \in 0..BufSize /\ producer.rest \in 0..BufSize
      /\ Available + producer.block + producer.rest < BufSize /\ Available \in Nat
  BY <1>1, <1>2 DEF Sized, Positions
<1>4. producer.at = "copying"
  <2>1. producer.block + producer.rest > 0 BY <1>3
  <2>2. producer.at \in {"idle", "copying"} BY DEF IInv, TypeOK
  <2> QED BY <2>1, <2>2 DEF IInv, PushInv
<1>5. /\ inPos + producer.block <= BufSize
      /\ producer.rest > 0 => inPos + producer.block = BufSize
  BY <1>4 DEF IInv, PushInv
<1>6. PushSlot(i) = Nth(outPos, Available + i)
  BY <1>1, <1>3, <1>5 DEF PushSlot, Available, Nth, Wrap
<1>7. Available + i \in 0..(BufSize - 1) BY <1>1, <1>3
<1>8. PushSlot(i) \in Positions BY PushSlotsAreFree
<1> QED BY <1>6, <1>7, <1>8

\* The slots of a pop are those of the oldest items.
LEMMA PopSlotIs ==
  ASSUME IInv, consumer.at = "pop", NEW i \in 0..(consumer.n - 1)
  PROVE  PopSlot(i) = Nth(outPos, i) /\ i + 1 \in 1..Available
<1>1. BufSize \in Nat \ {0} BY QueueAssumption
<1>2. Sized BY SizedIs
<1>3. consumer.n <= Available BY DEF IInv, CallInv
<1>4. /\ outPos \in 0..(BufSize - 1) /\ Available \in 0..(BufSize - 1) /\ consumer.n \in Nat /\ i \in Nat
  <2>1. outPos \in 0..(BufSize - 1) /\ Available \in 0..(BufSize - 1) BY <1>2 DEF Sized, Positions
  <2>2. consumer.n \in 0..BufSize BY <1>2 DEF Sized
  <2>3. consumer.n \in Nat BY <1>1, <2>2
  <2> QED BY <2>1, <2>3
<1>5. PopSlot(i) = Nth(outPos, i) BY <1>1, <1>3, <1>4 DEF PopSlot, MinOf, Nth, Wrap
<1> QED BY <1>3, <1>4, <1>5

\* The same items, one by one.
LEMMA SameItems ==
  ASSUME IInv, IInv', Available' = Available, \A i \in 1..Available : Items'[i] = Items[i]
  PROVE  Items' = Items
<1>1. Itemised BY ItemisedIs
<1>2. Itemised'
  <2>1. (IInv => Itemised)' BY ItemisedIs, PTL
  <2> QED BY <2>1
<1> QED BY <1>1, <1>2, SeqEqual DEF Itemised

\* A push may go on, and what the consumer is about stays as it is.
LEMMA ConsumerUnmoved ==
  ASSUME IInv, IInv', TakenInv, UNCHANGED <<outPos, consumer>>, Available' >= Available,
         \A j \in 0..(Available - 1) : buffer'[Nth(outPos, j)] = buffer[Nth(outPos, j)]
  PROVE  TakenInv' /\ \A i \in 1..Available : Items'[i] = Items[i]
<1>1. Sized /\ Itemised BY SizedIs, ItemisedIs
<1>2. Sized' /\ Itemised'
  <2>1. (IInv => Sized)' /\ (IInv => Itemised)' BY SizedIs, ItemisedIs, PTL
  <2> QED BY <2>1
<1>3. outPos' = outPos /\ consumer' = consumer OBVIOUS
<1>4. Available \in Nat /\ Available' \in Nat /\ Available \in Int BY <1>1, <1>2, QueueAssumption DEF Sized
<1>5. \A i \in 1..Available : Items'[i] = Items[i]
  <2> TAKE i \in 1..Available
  <2>1. i \in 1..Available' /\ i - 1 \in 0..(Available - 1) BY <1>4
  <2>2. buffer'[Nth(outPos, i - 1)] = buffer[Nth(outPos, i - 1)] BY <2>1
  <2> QED BY <1>1, <1>2, <1>3, <2>1, <2>2 DEF Itemised, Nth
<1>6. Seen' = Seen /\ Kept' = Kept BY <1>3 DEF Seen, Kept, Ahead
<1>7. CallInv BY DEF IInv
<1>8. consumer.n \in Nat /\ Seen \in Nat /\ Kept \in Nat /\ Len(consumer.got) \in Nat
  BY <1>1, QueueAssumption DEF Sized
<1>9. CASE consumer.at = "pop"
  <2>1. consumer.n <= Available BY <1>7, <1>9 DEF CallInv
  <2>2. Len(consumer.got) <= consumer.n /\ \A i \in 1..Len(consumer.got) : consumer.got[i] = Items[i]
    BY <1>9 DEF TakenInv
  <2>3. \A i \in 1..Len(consumer.got) : i \in 1..Available BY <1>4, <1>8, <2>1, <2>2
  <2> QED BY <1>3, <1>5, <1>9, <2>2, <2>3 DEF TakenInv
<1>10. CASE consumer.at = "each"
  <2>1. 1 <= Ahead(consumer.pos) /\ Ahead(consumer.pos) <= Available BY <1>7, <1>10 DEF CallInv
  <2>2. Seen = Ahead(consumer.pos) BY DEF Seen
  <2>3. 1 \in 1..Available BY <1>4, <1>8, <2>1, <2>2
  <2> QED BY <1>3, <1>5, <1>10, <2>3 DEF TakenInv
<1>11. CASE consumer.at = "rev"
  <2>1. consumer.n <= Available BY <1>7, <1>11 DEF CallInv
  <2>2. Len(consumer.got) + Seen = consumer.n BY <1>11 DEF TakenInv
  <2>3. PICK pick : Sifted(pick) BY <1>11 DEF TakenInv
  <2>4. \A i \in Kept..(consumer.n - 1) :
          i \in 0..(Available - 1) /\ pick[i] + 1 \in 1..Available
    <3> TAKE i \in Kept..(consumer.n - 1)
    <3>1. pick[i] \in Seen..(consumer.n - 1) BY <2>3 DEF Sifted
    <3>2. PICK p \in Seen..(consumer.n - 1) : p = pick[i] BY <3>1
    <3>3. p + 1 \in 1..Available BY <1>4, <1>8, <2>1, <3>2
    <3> QED BY <1>4, <1>8, <2>1, <3>2, <3>3
  <2>5. \A i \in Kept..(consumer.n - 1) : buffer'[Nth(outPos, i)] = Items'[pick[i] + 1]
    BY <1>5, <2>3, <2>4 DEF Sifted
  <2>6. Sifted(pick)' BY <1>3, <1>6, <2>3, <2>5 DEF Sifted, Nth
  <2>7. TakenInv' BY <1>3, <1>6, <1>11, <2>2, <2>6 DEF TakenInv
  <2> QED BY <1>5, <2>7
<1>12. CASE consumer.at # "pop" /\ consumer.at # "each" /\ consumer.at # "rev"
  BY <1>3, <1>5, <1>12 DEF TakenInv
<1> QED BY <1>9, <1>10, <1>11, <1>12

\* A step the abstract queue does not see.
LEMMA Unseen ==
  ASSUME Items' = Items, UNCHANGED <<next, given>>,
         producer'.block + producer'.rest = producer.block + producer.rest
  PROVE  [Fifo!Next]_(Fifo!vars)
BY DEF Fifo!vars

\* push_n() fills the room there is, or takes all it is asked for.
LEMMA RoomIsUsed ==
  ASSUME TypeOK, NEW size \in Sizes
  PROVE  Block(size) + Rest(size) = MinOf(size, BufSize - 1 - Available)
<1>1. size \in Nat /\ size >= 1 BY QueueAssumption
<1>2. BufSize \in Nat \ {0} /\ SizeT \in Nat /\ SizeT > 2 * BufSize BY QueueAssumption
<1>3. inPos \in 0..(BufSize - 1) /\ outPos \in 0..(BufSize - 1) BY DEF TypeOK, Positions
<1> QED BY <1>1, <1>2, <1>3 DEF Block, Rest, AsSize, MinOf, Wrap, Available

\* What a step of the producer must do to its own part.
LEMMA ProducerSteps ==
  ASSUME FifoInv, IInv', CopiedInv', UNCHANGED <<outPos, consumer>>, Available' = Available,
         \A j \in 0..(Available - 1) : buffer'[Nth(outPos, j)] = buffer[Nth(outPos, j)]
  PROVE  FifoInv' /\ Items' = Items
<1>1. IInv /\ TakenInv BY DEF FifoInv
<1>2. Sized BY <1>1, SizedIs
<1>3. Available' >= Available BY <1>2, QueueAssumption DEF Sized
<1>4. TakenInv' /\ \A i \in 1..Available : Items'[i] = Items[i] BY <1>1, <1>3, ConsumerUnmoved
<1>5. Items' = Items BY <1>1, <1>4, SameItems
<1> QED BY <1>4, <1>5 DEF FifoInv

\* push() and push_n() offer what they will add.
LEMMA PushOffers ==
  ASSUME FifoInv, IInv', NEW k \in Nat \ {0}, producer = NoPush, producer'.copied = 0,
         UNCHANGED <<buffer, inPos, outPos, next, consumer, given>>,
         producer'.block + producer'.rest = MinOf(k, BufSize - 1 - Available),
         Available < BufSize - 1
  PROVE  FifoInv' /\ [Fifo!Next]_(Fifo!vars)
<1>1. IInv BY DEF FifoInv
<1>2. Sized /\ Itemised BY <1>1, SizedIs, ItemisedIs
<1>3. CopiedInv' BY DEF CopiedInv
<1>4. Available' = Available BY DEF Available
<1>5. FifoInv' /\ Items' = Items BY <1>3, <1>4, ProducerSteps
<1>6. PICK room \in Nat : room = BufSize - 1 - Available BY <1>2, QueueAssumption DEF Sized
<1>7. BufSize \in Nat /\ Available \in Nat /\ Len(Items) = Available
  BY <1>2, QueueAssumption DEF Sized, Itemised
<1> DEFINE size == MinOf(k, BufSize - 1)
<1>8. size \in 1..(BufSize - 1) BY <1>6, <1>7 DEF MinOf
<1>9. MinOf(k, BufSize - 1 - Available) = IF size <= (BufSize - 1) - Available THEN size ELSE (BufSize - 1) - Available
  BY <1>6, <1>7 DEF MinOf
<1>10. producer.block + producer.rest = 0 BY DEF NoPush
<1>11. size > 0 BY <1>7, <1>8
<1>12. Fifo!Offer(size) BY <1>5, <1>7, <1>9, <1>10, <1>11 DEF Fifo!Offer
<1>13. Fifo!Next BY <1>8, <1>12 DEF Fifo!Next
<1> QED BY <1>5, <1>13

\* One item more is copied, to a slot past the items.
LEMMA CopyInIsUnseen == ASSUME FifoInv, IInv', CopyIn PROVE FifoInv' /\ [Fifo!Next]_(Fifo!vars)
<1>1. IInv /\ CopiedInv BY DEF FifoInv
<1>2. Sized BY <1>1, SizedIs
<1>3. /\ producer.copied < producer.block + producer.rest
      /\ buffer' = [buffer EXCEPT ![PushSlot(producer.copied)] = next + producer.copied]
      /\ producer' = [producer EXCEPT !.copied = @ + 1]
      /\ UNCHANGED <<inPos, outPos, next, consumer, given>>
  BY DEF CopyIn
<1>4. /\ producer'.block = producer.block /\ producer'.rest = producer.rest
      /\ producer'.copied = producer.copied + 1
  BY <1>1, <1>3 DEF IInv, TypeOK
<1>5. PICK c \in Nat : c = producer.copied BY <1>2 DEF Sized
<1>6. PICK k \in Nat : k = producer.block + producer.rest BY <1>2, QueueAssumption DEF Sized
<1>7. PICK a \in Nat : a = Available BY <1>2, QueueAssumption DEF Sized
<1>8. c < k /\ outPos \in Positions /\ buffer \in [Positions -> Nat] /\ a <= BufSize - 1 /\ BufSize \in Nat
  BY <1>2, <1>3, <1>5, <1>6, <1>7, QueueAssumption DEF Sized
<1>9. \A i \in 0..(k - 1) : /\ PushSlot(i) = Nth(outPos, a + i) /\ PushSlot(i) \in Positions
                            /\ a + i \in 0..(BufSize - 1)
  <2> TAKE i \in 0..(k - 1)
  <2>1. i \in 0..(producer.block + producer.rest - 1)
    <3>1. PICK b \in 0..BufSize : b = producer.block BY <1>2 DEF Sized
    <3>2. PICK r \in 0..BufSize : r = producer.rest BY <1>2 DEF Sized
    <3>3. BufSize \in Nat /\ k = b + r BY <1>6, <3>1, <3>2, QueueAssumption
    <3>4. i \in 0..(b + r - 1) BY <3>3
    <3> QED BY ONLY <3>1, <3>2, <3>4
  <2>2. /\ PushSlot(i) = Nth(outPos, Available + i) /\ PushSlot(i) \in Positions
        /\ Available + i \in 0..(BufSize - 1)
    BY ONLY <1>1, <2>1, PushSlotIs
  <2> QED BY <1>7, <2>2
<1>10. \A i : PushSlot(i)' = PushSlot(i) BY <1>3, <1>4 DEF PushSlot
<1>11. c \in 0..(k - 1) /\ \A i \in 0..(c - 1) : i \in 0..(k - 1) /\ i # c /\ a + i # a + c BY <1>5, <1>6, <1>7, <1>8
<1>12. \A i \in 0..(c - 1) : buffer'[PushSlot(i)] = buffer[PushSlot(i)]
  <2> TAKE i \in 0..(c - 1)
  <2>1. PushSlot(i) # PushSlot(c) BY <1>8, <1>9, <1>11, NthApart
  <2> QED BY <1>3, <1>5, <1>8, <1>9, <1>11, <2>1
<1>13. buffer'[PushSlot(c)] = next + c BY <1>3, <1>5, <1>8, <1>9, <1>11
<1>14. CopiedInv'
  <2>1. ASSUME NEW i \in 0..c PROVE buffer'[PushSlot(i)] = next + i
    <3>1. CASE i = c BY <1>13, <3>1
    <3>2. CASE i \in 0..(c - 1) BY <1>1, <1>5, <1>12, <3>2 DEF CopiedInv
    <3> QED BY <1>5, <3>1, <3>2
  <2>2. producer'.copied - 1 = c BY <1>4, <1>5
  <2> QED BY <1>3, <1>10, <2>1, <2>2 DEF CopiedInv
<1>15. \A j \in 0..(Available - 1) : buffer'[Nth(outPos, j)] = buffer[Nth(outPos, j)]
  <2> SUFFICES ASSUME NEW j \in 0..(a - 1) PROVE buffer'[Nth(outPos, j)] = buffer[Nth(outPos, j)] BY <1>7
  <2>1. j \in 0..(BufSize - 1) /\ j # a + c /\ a + c \in 0..(BufSize - 1) BY <1>5, <1>7, <1>8, <1>9, <1>11
  <2>2. Nth(outPos, j) # PushSlot(c) BY <1>8, <1>9, <1>11, <2>1, NthApart
  <2>3. Nth(outPos, j) \in Positions BY <1>8, <2>1, NthInRing
  <2> QED BY <1>3, <1>5, <1>8, <2>2, <2>3
<1>16. Available' = Available BY <1>3 DEF Available
<1>17. FifoInv' /\ Items' = Items BY <1>3, <1>14, <1>15, <1>16, ProducerSteps
<1> QED BY <1>3, <1>4, <1>17, Unseen

\* The items copied become items of the queue, behind those it holds.
LEMMA StoreInAdds == ASSUME FifoInv, IInv', StoreIn PROVE FifoInv' /\ [Fifo!Next]_(Fifo!vars)
<1>1. IInv /\ CopiedInv /\ TakenInv BY DEF FifoInv
<1>2. Sized /\ Itemised BY <1>1, SizedIs, ItemisedIs
<1>3. Sized' /\ Itemised'
  <2>1. (IInv => Sized)' /\ (IInv => Itemised)' BY SizedIs, ItemisedIs, PTL
  <2> QED BY <2>1
<1>4. /\ producer.at = "copying" /\ producer.copied = producer.block + producer.rest
      /\ inPos' = Wrap(inPos + producer.block) + producer.rest
      /\ next' = next + producer.block + producer.rest
      /\ producer' = NoPush
      /\ UNCHANGED <<buffer, outPos, consumer, given>>
  BY DEF StoreIn
<1>5. PICK k \in Nat : k = producer.block + producer.rest BY <1>2, QueueAssumption DEF Sized
<1>6. PICK a \in Nat : a = Available BY <1>2, QueueAssumption DEF Sized
<1>7. producer.block > 0 /\ inPos + producer.block <= BufSize
      /\ (producer.rest > 0 => inPos + producer.block = BufSize)
  BY <1>1, <1>4 DEF IInv, PushInv
<1>8. k > 0 /\ next' = next + k /\ a + k < BufSize /\ next \in Nat
  <2>1. BufSize \in Nat BY QueueAssumption
  <2>2. PICK b \in Nat : b = producer.block BY <1>2, <2>1 DEF Sized
  <2>3. PICK r \in Nat : r = producer.rest BY <1>2, <2>1 DEF Sized
  <2>4. next' = next + b + r /\ k = b + r /\ b > 0 BY <1>4, <1>5, <1>7, <2>2, <2>3
  <2>5. a + b + r < BufSize /\ next \in Nat BY <1>2, <1>6, <2>2, <2>3 DEF Sized
  <2> QED BY <2>4, <2>5
<1>9. Available' = a + k
  <2>1. inPos \in 0..(BufSize - 1) /\ outPos \in 0..(BufSize - 1) /\ BufSize \in Nat \ {0}
    BY <1>2, QueueAssumption DEF Sized, Positions
  <2>2. producer.block \in 0..BufSize /\ producer.rest \in 0..BufSize
        /\ Available + producer.block + producer.rest < BufSize
    BY <1>2 DEF Sized
  <2>3. /\ inPos' = Wrap(inPos + producer.block) + producer.rest /\ outPos' = outPos BY <1>4
  <2>4. Available' = Available + producer.block + producer.rest
    BY <1>7, <2>1, <2>2, <2>3 DEF Wrap, Available
  <2> QED BY <1>5, <1>6, <2>1, <2>2, <2>4
<1>10. TakenInv' /\ \A i \in 1..a : Items'[i] = Items[i]
  <2>1. Available' >= Available BY <1>6, <1>9, <1>5
  <2> QED BY <1>1, <1>4, <1>6, <2>1, ConsumerUnmoved
<1>11. ASSUME NEW j \in 1..k PROVE Items'[a + j] = next + j - 1
  <2>1. PICK n \in Nat : n = consumer.n
    <3>1. BufSize \in Nat /\ consumer.n \in 0..BufSize BY <1>2, QueueAssumption DEF Sized
    <3> QED BY <3>1
  <2>2. consumer.at = "rev" => n <= a BY <1>1, <1>6, <2>1 DEF IInv, CallInv
  <2>3. a + j \in 1..Available' /\ ~(consumer.at = "rev" /\ a + j <= n) /\ (a + j) - 1 = a + (j - 1)
    BY <1>9, <2>1, <2>2
  <2>4. Items'[a + j] = buffer[Nth(outPos, a + (j - 1))]
    BY <1>3, <1>4, <2>1, <2>3 DEF Itemised, Nth
  <2>5. j - 1 \in 0..(producer.block + producer.rest - 1) /\ j - 1 \in 0..(producer.copied - 1)
    <3>1. PICK b \in 0..BufSize : b = producer.block BY <1>2 DEF Sized
    <3>2. PICK r \in 0..BufSize : r = producer.rest BY <1>2 DEF Sized
    <3>3. BufSize \in Nat /\ k = b + r /\ producer.copied = b + r BY <1>4, <1>5, <3>1, <3>2, QueueAssumption
    <3>4. j - 1 \in 0..(b + r - 1) BY <3>3
    <3> QED BY ONLY <3>1, <3>2, <3>3, <3>4
  <2>6. PushSlot(j - 1) = Nth(outPos, a + (j - 1)) BY <1>1, <1>6, <2>5, PushSlotIs
  <2>7. buffer[PushSlot(j - 1)] = next + (j - 1) BY <1>1, <2>5 DEF CopiedInv
  <2> QED BY <1>8, <2>4, <2>6, <2>7
<1> DEFINE new == [i \in 1..k |-> next + i - 1]
<1>12. new \in Seq(Nat) /\ Len(new) = k /\ \A j \in 1..k : new[j] = next + j - 1
  <2>1. \A i \in 1..k : next + i - 1 \in Nat BY <1>8
  <2>2. new \in [1..k -> Nat] BY <2>1
  <2> QED BY <2>2
<1>13. Items \in Seq(Nat) /\ Len(Items) = a /\ Items' \in Seq(Nat) /\ Len(Items') = a + k
  BY <1>2, <1>3, <1>6, <1>9 DEF Itemised
<1> HIDE DEF new
<1>14. Items' = Items \o new
  <2>1. /\ Items \o new \in Seq(Nat) /\ Len(Items \o new) = a + k
        /\ \A i \in 1..(a + k) : (Items \o new)[i] = IF i <= a THEN Items[i] ELSE new[i - a]
    BY <1>12, <1>13, ConcatProperties
  <2>2. ASSUME NEW i \in 1..(a + k) PROVE Items'[i] = (Items \o new)[i]
    <3>1. CASE i <= a BY <1>10, <2>1, <3>1
    <3>2. CASE ~(i <= a)
      <4>1. PICK j \in 1..k : i = a + j
        <5>1. i - a \in 1..k /\ i = a + (i - a) BY <3>2
        <5> QED BY <5>1
      <4>2. i - a = j BY <4>1
      <4> QED BY <1>11, <1>12, <2>1, <3>2, <4>1, <4>2
    <3> QED BY <3>1, <3>2
  <2> QED BY <1>13, <2>1, <2>2, SeqEqual
<1>15. producer'.block + producer'.rest = 0 /\ producer'.copied = 0 BY <1>4 DEF NoPush
<1>16. Fifo!Add
  <2>1. new = [i \in 1..(producer.block + producer.rest) |-> next + i - 1] BY <1>5 DEF new
  <2>2. next' = next + (producer.block + producer.rest) BY <1>5, <1>8
  <2> QED BY <1>4, <1>5, <1>8, <1>14, <1>15, <2>1, <2>2 DEF Fifo!Add
<1>17. CopiedInv' BY <1>15 DEF CopiedInv
<1>18. Fifo!Next BY <1>16 DEF Fifo!Next
<1> QED BY <1>10, <1>17, <1>18 DEF FifoInv

\* What a step that is the consumer's leaves to the producer.
LEMMA CopiedStays ==
  ASSUME FifoInv, UNCHANGED <<buffer, inPos, producer, next>> PROVE CopiedInv'
<1>1. producer' = producer /\ inPos' = inPos OBVIOUS
<1>2. \A i : PushSlot(i)' = PushSlot(i) BY <1>1 DEF PushSlot
<1> QED BY <1>2 DEF FifoInv, CopiedInv

\* Outside for_each_rev_requeue() the items are what is in the slots.
LEMMA PlainItems ==
  ASSUME IInv, consumer.at # "rev" \/ consumer.got = <<>>
  PROVE  \A i \in 1..Available : Items[i] = buffer[Nth(outPos, i - 1)]
<1>1. Sized /\ Itemised BY SizedIs, ItemisedIs
<1>2. consumer.n \in Nat /\ Available \in Nat BY <1>1, QueueAssumption DEF Sized
<1>3. ASSUME NEW i \in 1..Available, consumer.at = "rev", i <= consumer.n PROVE ~(consumer.n - i < Len(consumer.got))
  <2>1. Len(consumer.got) = 0 BY <1>3
  <2>2. i \in Nat BY <1>2
  <2>3. consumer.n - i >= 0 BY <1>2, <1>3, <2>2
  <2> QED BY <2>1, <2>2, <2>3, <1>2
<1> QED BY <1>1, <1>3 DEF Itemised

\* A call begins: it has been handed nothing, and nothing changes.
LEMMA CallIsUnseen ==
  ASSUME FifoInv, IInv', consumer = NoCall, consumer'.got = <<>>,
         UNCHANGED <<buffer, inPos, outPos, next, producer, given>>,
         consumer'.at = "rev" => consumer'.n = Available /\ consumer'.pos = inPos /\ consumer'.kept = inPos
  PROVE  FifoInv' /\ [Fifo!Next]_(Fifo!vars)
<1>1. IInv /\ Sized BY SizedIs DEF FifoInv
<1>2. Available' = Available BY DEF Available
<1>3. consumer.got = <<>> BY DEF NoCall
<1>4. \A i \in 1..Available : Items[i] = buffer[Nth(outPos, i - 1)] BY <1>1, <1>3, PlainItems
<1>5. \A i \in 1..Available : Items'[i] = buffer[Nth(outPos, i - 1)]
  <2>1. (IInv /\ consumer.got = <<>> => \A i \in 1..Available : Items[i] = buffer[Nth(outPos, i - 1)])'
    BY PlainItems, PTL
  <2> QED BY <1>2, <2>1 DEF Nth
<1>6. Items' = Items BY <1>1, <1>2, <1>4, <1>5, SameItems
<1>7. CopiedInv' BY CopiedStays
<1>8. Len(consumer'.got) = 0 /\ consumer'.got = <<>> OBVIOUS
<1>9. TakenInv'
  <2>1. (consumer.at = "pop" =>
         /\ Len(consumer.got) <= consumer.n
         /\ \A i \in 1..Len(consumer.got) : consumer.got[i] = Items[i])'
    <3>1. (IInv => Sized)' BY SizedIs, PTL
    <3>2. consumer'.n \in Nat BY <3>1, QueueAssumption DEF Sized
    <3> QED BY <1>8, <3>2
  <2>2. ASSUME consumer'.at = "rev" PROVE Len(consumer'.got) + Seen' = consumer'.n /\ (\E pick : Sifted(pick))'
    <3>1. Seen' = Distance(inPos, outPos) /\ Kept' = Distance(inPos, outPos)
      BY <2>2 DEF Seen, Kept, Ahead, Distance
    <3>2. Available = Distance(inPos, outPos) /\ Available \in Nat BY <1>1, QueueAssumption DEF Sized
    <3>3. PICK a \in Nat : a = Available BY <3>2
    <3>4. Seen' = a /\ Kept' = a /\ consumer'.n = a BY <2>2, <3>1, <3>2, <3>3
    <3>5. \A i : i \notin a..(a - 1) BY <3>3
    <3>6. PICK pick : pick \in [a..(a - 1) -> a..(a - 1)]
      <4>1. [i \in a..(a - 1) |-> i] \in [a..(a - 1) -> a..(a - 1)] BY <3>5
      <4> QED BY <4>1
    <3>7. Sifted(pick)' BY <3>4, <3>5, <3>6 DEF Sifted
    <3>8. (\E p : Sifted(p))' BY <3>7
    <3> QED BY <1>8, <3>3, <3>4, <3>8
  <2> QED BY <1>8, <2>1, <2>2 DEF TakenInv
<1>10. FifoInv' BY <1>7, <1>9 DEF FifoInv
<1> QED BY <1>6, <1>10, Unseen

\* One item more is copied out.
LEMMA CopyOutIsUnseen == ASSUME FifoInv, IInv', CopyOut PROVE FifoInv' /\ [Fifo!Next]_(Fifo!vars)
<1>1. IInv /\ Sized /\ TakenInv BY SizedIs DEF FifoInv
<1>2. /\ consumer.at = "pop" /\ Len(consumer.got) < consumer.n
      /\ consumer' = [consumer EXCEPT !.got = Append(consumer.got, buffer[PopSlot(Len(consumer.got))])]
      /\ UNCHANGED <<buffer, inPos, outPos, next, producer, given>>
  BY DEF CopyOut
<1>3. PICK g \in Seq(Nat) : g = consumer.got BY <1>1 DEF Sized
<1>4. PICK l \in Nat : l = Len(g) OBVIOUS
<1>5. PICK n \in Nat : n = consumer.n
  <2>1. BufSize \in Nat /\ consumer.n \in 0..BufSize BY <1>1, QueueAssumption DEF Sized
  <2> QED BY <2>1
<1>6. l < n /\ l \in 0..(n - 1) BY <1>2, <1>3, <1>4, <1>5
<1>7. PopSlot(l) = Nth(outPos, l) /\ l + 1 \in 1..Available
  <2>1. l \in 0..(consumer.n - 1) BY <1>5, <1>6
  <2> QED BY <1>1, <1>2, <2>1, PopSlotIs
<1>8. buffer[PopSlot(l)] = Items[l + 1]
  <2>1. (l + 1) - 1 = l OBVIOUS
  <2>2. \A i \in 1..Available : Items[i] = buffer[Nth(outPos, i - 1)] BY <1>1, <1>2, PlainItems
  <2> QED BY <1>7, <2>1, <2>2
<1>9. Items' = Items
  <2>1. Available' = Available BY <1>2 DEF Available
  <2>2. consumer'.at = "pop" BY <1>1, <1>2 DEF IInv, TypeOK
  <2>3. (IInv /\ consumer.at # "rev" => \A i \in 1..Available : Items[i] = buffer[Nth(outPos, i - 1)])'
    BY PlainItems, PTL
  <2>4. \A i \in 1..Available : Items'[i] = buffer[Nth(outPos, i - 1)] BY <1>2, <2>1, <2>2, <2>3 DEF Nth
  <2>5. \A i \in 1..Available : Items[i] = buffer[Nth(outPos, i - 1)] BY <1>1, <1>2, PlainItems
  <2> QED BY <1>1, <2>1, <2>4, <2>5, SameItems
<1>10. Items[l + 1] \in Nat
  <2>1. Items \in Seq(Nat) /\ Len(Items) = Available BY <1>1, ItemisedIs DEF Itemised
  <2> QED BY <1>7, <2>1, ElementOfSeq
<1>11. /\ consumer'.at = "pop" /\ consumer'.n = n /\ consumer'.got = Append(g, Items[l + 1])
  BY <1>1, <1>2, <1>3, <1>4, <1>5, <1>8 DEF IInv, TypeOK
<1>12. /\ Len(consumer'.got) = l + 1 /\ consumer'.got[l + 1] = Items[l + 1]
       /\ \A i \in 1..l : consumer'.got[i] = g[i]
  BY <1>4, <1>10, <1>11, AppendProperties
<1>13. \A i \in 1..l : g[i] = Items[i] BY <1>1, <1>2, <1>3, <1>4 DEF TakenInv
<1>14. \A i \in 1..(l + 1) : consumer'.got[i] = Items'[i]
  <2> TAKE i \in 1..(l + 1)
  <2>1. i = l + 1 \/ i \in 1..l OBVIOUS
  <2> QED BY <1>9, <1>12, <1>13, <2>1
<1>15. TakenInv' BY <1>6, <1>11, <1>12, <1>14 DEF TakenInv
<1>16. CopiedInv' BY <1>2, CopiedStays
<1> QED BY <1>2, <1>9, <1>15, <1>16, Unseen DEF FifoInv

\* The callback sees the oldest item.
LEMMA CallBackIsUnseen == ASSUME FifoInv, IInv', CallBack PROVE FifoInv' /\ [Fifo!Next]_(Fifo!vars)
<1>1. IInv /\ Sized BY SizedIs DEF FifoInv
<1>2. /\ consumer.at = "each" /\ consumer' = [consumer EXCEPT !.got = <<buffer[outPos]>>]
      /\ UNCHANGED <<buffer, inPos, outPos, next, producer, given>>
  BY DEF CallBack
<1>3. consumer'.at = "each" /\ consumer'.got = <<buffer[outPos]>> BY <1>1, <1>2 DEF IInv, TypeOK
<1>4. \A i \in 1..Available : Items[i] = buffer[Nth(outPos, i - 1)] BY <1>1, <1>2, PlainItems
<1>5. Available' = Available BY <1>2 DEF Available
<1>6. Items' = Items
  <2>1. (IInv /\ consumer.at # "rev" => \A i \in 1..Available : Items[i] = buffer[Nth(outPos, i - 1)])'
    BY PlainItems, PTL
  <2>2. \A i \in 1..Available : Items'[i] = buffer[Nth(outPos, i - 1)] BY <1>2, <1>3, <1>5, <2>1 DEF Nth
  <2> QED BY <1>1, <1>4, <1>5, <2>2, SameItems
<1>7. 1 \in 1..Available
  <2>1. 1 <= Seen /\ Seen <= Available BY <1>1, <1>2 DEF IInv, CallInv, Seen
  <2>2. Seen \in Nat /\ Available \in Nat BY <1>1, QueueAssumption DEF Sized
  <2> QED BY <2>1, <2>2
<1>8. Nth(outPos, 1 - 1) = outPos
  <2>1. outPos \in 0..(BufSize - 1) /\ BufSize \in Nat BY <1>1, QueueAssumption DEF Sized, Positions
  <2> QED BY <2>1 DEF Nth, Wrap
<1>9. Items[1] = buffer[outPos] BY <1>4, <1>7, <1>8
<1>10. TakenInv' BY <1>3, <1>6, <1>9 DEF TakenInv
<1>11. CopiedInv' BY <1>2, CopiedStays
<1> QED BY <1>2, <1>6, <1>10, <1>11, Unseen DEF FifoInv

\* The oldest n go.
LEMMA OldestGo ==
  ASSUME IInv, IInv', NEW n \in 0..Available, outPos' = Nth(outPos, n), UNCHANGED <<buffer, inPos>>,
         consumer.at # "rev" \/ consumer.n <= n, consumer'.at # "rev" \/ consumer'.got = <<>>
  PROVE  /\ Available' = Available - n
         /\ \A i \in 1..(Available - n) : Items'[i] = Items[n + i]
<1>1. Sized /\ Itemised BY SizedIs, ItemisedIs
<1>2. Sized'
  <2>1. (IInv => Sized)' BY SizedIs, PTL
  <2> QED BY <2>1
<1>3. PICK a \in Nat : a = Available BY <1>1, QueueAssumption DEF Sized
<1>4. n \in 0..a /\ a <= BufSize - 1 /\ BufSize \in Nat /\ n \in Nat BY <1>1, <1>3, QueueAssumption DEF Sized
<1>5. inPos \in Positions /\ outPos \in Positions /\ Available = Distance(inPos, outPos) BY <1>1 DEF Sized
<1>6. Available' = a - n
  <2>1. Available' = Distance(inPos, Wrap(outPos + n)) BY <1>2 DEF Sized, Nth
  <2>2. Distance(inPos, Wrap(outPos + n)) = Distance(inPos, outPos) - n BY <1>3, <1>4, <1>5, NearerFromBehind
  <2> QED BY <1>3, <1>5, <2>1, <2>2
<1>7. \A i \in 1..Available : Items[i] = buffer[Nth(outPos, i - 1)] \/ i <= n
  <2> TAKE i \in 1..Available
  <2>1. consumer.n \in Nat
    <3>1. consumer.n \in 0..BufSize BY <1>1 DEF Sized
    <3> QED BY <1>4, <3>1
  <2>2. consumer.at = "rev" /\ i <= consumer.n => i <= n BY <1>3, <1>4, <2>1
  <2> QED BY <1>1, <2>2 DEF Itemised
<1>8. \A i \in 1..(a - n) : Items'[i] = buffer[Nth(outPos', i - 1)]
  <2>1. (IInv /\ (consumer.at # "rev" \/ consumer.got = <<>>)
            => \A i \in 1..Available : Items[i] = buffer[Nth(outPos, i - 1)])'
    BY PlainItems, PTL
  <2> QED BY <1>6, <2>1 DEF Nth
<1>9. \A i \in 1..(a - n) : Items'[i] = Items[n + i]
  <2> TAKE i \in 1..(a - n)
  <2>1. i - 1 \in Nat /\ n + (i - 1) <= BufSize - 1 /\ n + i \in 1..a /\ (n + i) - 1 = n + (i - 1) /\ ~(n + i <= n)
    BY <1>4
  <2>2. Nth(outPos', i - 1) = Nth(outPos, n + (i - 1)) BY <1>4, <1>5, <2>1, NthOfNth
  <2>3. Items[n + i] = buffer[Nth(outPos, (n + i) - 1)] BY <1>3, <1>7, <2>1
  <2> QED BY <1>8, <2>1, <2>2, <2>3
<1> QED BY <1>3, <1>6, <1>9

\* Which is what the rest of a sequence is.
LEMMA RestIs ==
  ASSUME NEW s \in Seq(Nat), NEW t \in Seq(Nat), NEW n \in 0..Len(s), Len(t) = Len(s) - n,
         \A i \in 1..(Len(s) - n) : t[i] = s[n + i]
  PROVE  t = SubSeq(s, n + 1, Len(s))
<1>1. PICK l \in Nat : l = Len(s) OBVIOUS
<1>2. n \in 0..l /\ n \in Nat BY <1>1
<1>3. \A i \in (n + 1)..l : s[i] \in Nat
  <2>1. \A i \in (n + 1)..l : i \in 1..Len(s) BY <1>1, <1>2
  <2> QED BY <2>1, ElementOfSeq
<1>4. /\ SubSeq(s, n + 1, l) \in Seq(Nat)
      /\ Len(SubSeq(s, n + 1, l)) = IF n + 1 <= l THEN l - (n + 1) + 1 ELSE 0
      /\ \A i \in 1..(l - (n + 1) + 1) : SubSeq(s, n + 1, l)[i] = s[(n + 1) + i - 1]
  BY <1>1, <1>2, <1>3, SubSeqProperties
<1>5. Len(SubSeq(s, n + 1, l)) = l - n BY <1>2, <1>4
<1>6. \A i \in 1..(l - n) : i \in 1..(l - (n + 1) + 1) /\ (n + 1) + i - 1 = n + i BY <1>2
<1>7. \A i \in 1..(l - n) : SubSeq(s, n + 1, l)[i] = t[i] BY <1>1, <1>4, <1>6
<1> QED BY <1>1, <1>4, <1>5, <1>7, SeqEqual

\* And the beginning of one.
LEMMA FirstIs ==
  ASSUME NEW s \in Seq(Nat), NEW t \in Seq(Nat), NEW n \in 0..Len(s), Len(t) = n,
         \A i \in 1..n : t[i] = s[i]
  PROVE  t = SubSeq(s, 1, n)
<1>1. PICK l \in Nat : l = Len(s) OBVIOUS
<1>2. n \in 0..l /\ n \in Nat BY <1>1
<1>3. \A i \in 1..n : s[i] \in Nat
  <2>1. \A i \in 1..n : i \in 1..Len(s) BY <1>1, <1>2
  <2> QED BY <2>1, ElementOfSeq
<1>4. /\ SubSeq(s, 1, n) \in Seq(Nat)
      /\ Len(SubSeq(s, 1, n)) = IF 1 <= n THEN n - 1 + 1 ELSE 0
      /\ \A i \in 1..(n - 1 + 1) : SubSeq(s, 1, n)[i] = s[1 + i - 1]
  BY <1>2, <1>3, SubSeqProperties
<1>5. Len(SubSeq(s, 1, n)) = n BY <1>2, <1>4
<1>6. \A i \in 1..n : i \in 1..(n - 1 + 1) /\ 1 + i - 1 = i BY <1>2
<1>7. \A i \in 1..n : SubSeq(s, 1, n)[i] = t[i] BY <1>4, <1>6
<1> QED BY <1>4, <1>5, <1>7, SeqEqual

\* A call that is not for_each_rev_requeue() stores how far it got.
LEMMA StoreTakes ==
  ASSUME FifoInv, IInv', NEW n \in 0..Available, outPos' = Nth(outPos, n),
         UNCHANGED <<buffer, inPos, next, producer>>, consumer.at # "rev",
         given' = <<>> \/ (given' \in Seq(Nat) /\ Len(given') = n /\ \A i \in 1..n : given'[i] = Items[i]),
         consumer'.at = "idle" \/ (consumer'.at = "each" /\ consumer'.got = <<>>)
  PROVE  FifoInv' /\ [Fifo!Next]_(Fifo!vars)
<1>1. IInv BY DEF FifoInv
<1>2. Itemised BY <1>1, ItemisedIs
<1>3. Itemised'
  <2>1. (IInv => Itemised)' BY ItemisedIs, PTL
  <2> QED BY <2>1
<1>4. Available' = Available - n /\ \A i \in 1..(Available - n) : Items'[i] = Items[n + i]
  BY <1>1, OldestGo
<1>5. Items \in Seq(Nat) /\ Len(Items) = Available /\ Items' \in Seq(Nat) /\ Len(Items') = Available'
  BY <1>2, <1>3 DEF Itemised
<1>6. Items' = SubSeq(Items, n + 1, Len(Items)) BY <1>4, <1>5, RestIs
<1>7. given' \in {SubSeq(Items, 1, n), <<>>} BY <1>5, FirstIs
<1>8. UNCHANGED <<producer.block + producer.rest, next>> OBVIOUS
<1>9. Fifo!Take(n) BY <1>6, <1>7, <1>8 DEF Fifo!Take
<1>10. n \in 0..Len(Items) BY <1>5
<1>11. Fifo!Next BY <1>9, <1>10 DEF Fifo!Next
<1>12. TakenInv' BY DEF TakenInv
<1>13. CopiedInv' BY CopiedStays
<1> QED BY <1>11, <1>12, <1>13 DEF FifoInv

\* pop() and pop_n().
LEMMA StoreOutTakes == ASSUME FifoInv, IInv', StoreOut PROVE FifoInv' /\ [Fifo!Next]_(Fifo!vars)
<1>1. IInv /\ TakenInv /\ Sized BY SizedIs DEF FifoInv
<1>2. /\ consumer.at = "pop" /\ Len(consumer.got) \in {0, consumer.n}
      /\ outPos' = Wrap(outPos + consumer.n)
      /\ given' = consumer.got /\ consumer' = NoCall
      /\ UNCHANGED <<buffer, inPos, next, producer>>
  BY DEF StoreOut
<1>3. consumer.n \in 0..Available
  <2>1. 1 <= consumer.n /\ consumer.n <= Available BY <1>1, <1>2 DEF IInv, CallInv
  <2>2. consumer.n \in 0..BufSize /\ BufSize \in Nat /\ Available \in 0..(BufSize - 1) BY <1>1, QueueAssumption DEF Sized
  <2> QED BY <2>1, <2>2
<1>4. outPos' = Nth(outPos, consumer.n) BY <1>2 DEF Nth
<1>5. consumer.got \in Seq(Nat) BY <1>1 DEF Sized
<1>6. CASE Len(consumer.got) = 0
  <2>1. given' = <<>> BY <1>2, <1>5, <1>6, EmptySeq
  <2> QED BY <1>2, <1>3, <1>4, <2>1, StoreTakes DEF NoCall
<1>7. CASE Len(consumer.got) = consumer.n
  <2>1. \A i \in 1..consumer.n : given'[i] = Items[i] BY <1>1, <1>2, <1>7 DEF TakenInv
  <2>2. given' \in Seq(Nat) /\ Len(given') = consumer.n BY <1>2, <1>5, <1>7
  <2> QED BY <1>2, <1>3, <1>4, <2>1, <2>2, StoreTakes DEF NoCall
<1> QED BY <1>2, <1>6, <1>7

\* for_each(), one item at a time.
LEMMA StoreEachTakes == ASSUME FifoInv, IInv', StoreEach PROVE FifoInv' /\ [Fifo!Next]_(Fifo!vars)
<1>1. IInv /\ TakenInv /\ Sized BY SizedIs DEF FifoInv
<1>2. /\ consumer.at = "each" /\ consumer.got # <<>>
      /\ outPos' = Wrap(outPos + 1)
      /\ given' = consumer.got
      /\ consumer' = (IF outPos' = consumer.pos THEN NoCall ELSE [consumer EXCEPT !.got = <<>>])
      /\ UNCHANGED <<buffer, inPos, next, producer>>
  BY DEF StoreEach
<1>3. 1 \in 0..Available
  <2>1. 1 <= Seen /\ Seen <= Available BY <1>1, <1>2 DEF IInv, CallInv, Seen
  <2>2. Seen \in Nat /\ Available \in Nat BY <1>1, QueueAssumption DEF Sized
  <2> QED BY <2>1, <2>2
<1>4. outPos' = Nth(outPos, 1) BY <1>2 DEF Nth
<1>5. given' = <<Items[1]>> BY <1>1, <1>2 DEF TakenInv
<1>6. given' \in Seq(Nat) /\ Len(given') = 1 /\ \A i \in 1..1 : given'[i] = Items[i]
  <2>1. given' \in Seq(Nat) BY <1>1, <1>2 DEF Sized
  <2> QED BY <1>5, <2>1
<1>7. consumer'.at = "idle" \/ (consumer'.at = "each" /\ consumer'.got = <<>>)
  <2>1. [consumer EXCEPT !.got = <<>>].at = "each" /\ [consumer EXCEPT !.got = <<>>].got = <<>>
    BY <1>1, <1>2 DEF IInv, TypeOK
  <2> QED BY <1>2, <2>1 DEF NoCall
<1>8. consumer.at # "rev" BY <1>2
<1> QED BY <1>2, <1>3, <1>4, <1>6, <1>7, <1>8, StoreTakes

\* flush().
LEMMA StoreFlushTakes == ASSUME FifoInv, IInv', StoreFlush PROVE FifoInv' /\ [Fifo!Next]_(Fifo!vars)
<1>1. IInv /\ Sized BY SizedIs DEF FifoInv
<1>2. /\ consumer.at = "flush" /\ outPos' = consumer.pos /\ given' = <<>> /\ consumer' = NoCall
      /\ UNCHANGED <<buffer, inPos, next, producer>>
  BY DEF StoreFlush
<1>3. Seen \in 0..Available
  <2>1. Seen <= Available BY <1>1, <1>2 DEF IInv, CallInv, Seen
  <2>2. Seen \in Nat /\ Available \in Nat BY <1>1, QueueAssumption DEF Sized
  <2> QED BY <2>1, <2>2
<1>4. outPos' = Nth(outPos, Seen)
  <2>1. Seen = Distance(consumer.pos, outPos) BY DEF Seen, Ahead, Distance
  <2>2. outPos \in Positions /\ consumer.pos \in Positions BY <1>1 DEF Sized
  <2> QED BY <1>2, <2>1, <2>2, NthOfDistance
<1>5. consumer'.at = "idle" /\ consumer.at # "rev" BY <1>2 DEF NoCall
<1> QED BY <1>2, <1>3, <1>4, <1>5, StoreTakes

\* for_each_rev_requeue() sees the next item: those it has seen are the newest
\* of the call, and those it has put back are behind them in the ring.
LEMMA RequeueIsUnseen ==
  ASSUME FifoInv, IInv', NEW keep \in BOOLEAN, Requeue(keep)
  PROVE  FifoInv' /\ [Fifo!Next]_(Fifo!vars)
<1> DEFINE p == Wrap(consumer.pos + BufSize - 1)
           h == Wrap(consumer.kept + BufSize - 1)
<1>1. IInv /\ TakenInv /\ CopiedInv /\ Sized /\ Itemised BY SizedIs, ItemisedIs DEF FifoInv
<1>2. Sized' /\ Itemised'
  <2>1. (IInv => Sized)' /\ (IInv => Itemised)' BY SizedIs, ItemisedIs, PTL
  <2> QED BY <2>1
<1>3. /\ consumer.at = "rev" /\ (consumer.got = <<>> \/ consumer.pos # outPos)
      /\ consumer' = [consumer EXCEPT !.pos = p, !.kept = IF keep THEN h ELSE consumer.kept,
                                      !.got = Append(consumer.got, buffer[p])]
      /\ buffer' = (IF keep THEN [buffer EXCEPT ![h] = buffer[p]] ELSE buffer)
      /\ UNCHANGED <<inPos, outPos, next, producer, given>>
  BY DEF Requeue
<1>4. /\ consumer'.at = "rev" /\ consumer'.n = consumer.n /\ consumer'.pos = p
      /\ consumer'.kept = (IF keep THEN h ELSE consumer.kept)
      /\ consumer'.got = Append(consumer.got, buffer[p])
  BY <1>1, <1>3 DEF IInv, TypeOK
<1> HIDE DEF p, h
<1>5. BufSize \in Nat \ {0} BY QueueAssumption
<1>6. PICK n \in Nat : n = consumer.n
  <2>1. consumer.n \in 0..BufSize BY <1>1 DEF Sized
  <2> QED BY <1>5, <2>1
<1>7. PICK g \in Seq(Nat) : g = consumer.got BY <1>1 DEF Sized
<1>8. PICK l \in Nat : l = Len(g) OBVIOUS
<1>9. PICK a \in Nat : a = Available BY <1>1, <1>5 DEF Sized
<1>10. PICK s \in Nat : s = Seen BY <1>1, <1>5 DEF Sized
<1>11. PICK k \in Nat : k = Kept BY <1>1, <1>5 DEF Sized
<1>12. /\ 1 <= n /\ n <= a /\ s <= k /\ k <= n /\ (g = <<>> => 1 <= s) /\ a <= BufSize - 1
  <2>1. CallInv BY <1>1 DEF IInv
  <2>2. /\ 1 <= consumer.n /\ consumer.n <= Available
        /\ Seen <= Kept /\ Kept <= consumer.n
        /\ consumer.got = <<>> => 1 <= Seen
    BY <1>3, <2>1 DEF CallInv, Seen, Kept
  <2>3. Available <= BufSize - 1 BY <1>1, <1>5 DEF Sized
  <2> QED BY <1>6, <1>7, <1>9, <1>10, <1>11, <2>2, <2>3
<1>13. l + s = n BY <1>1, <1>3, <1>6, <1>7, <1>8, <1>10 DEF TakenInv
<1>14. outPos \in Positions /\ consumer.pos \in Positions /\ consumer.kept \in Positions
       /\ buffer \in [Positions -> Nat]
  BY <1>1 DEF Sized
<1>15. s = Distance(consumer.pos, outPos) /\ k = Distance(consumer.kept, outPos)
  BY <1>10, <1>11 DEF Seen, Kept, Ahead, Distance
<1>16. 1 <= s
  <2>1. CASE consumer.got = <<>> BY <1>7, <1>12, <2>1
  <2>2. CASE consumer.pos # outPos BY <1>14, <1>15, <2>2, DistanceRange
  <2> QED BY <1>3, <2>1, <2>2
<1>17. p \in Positions /\ Distance(p, outPos) = s - 1 /\ p = Nth(outPos, s - 1)
  <2>1. consumer.pos # outPos
    <3>1. outPos \in 0..(BufSize - 1) BY <1>14 DEF Positions
    <3>2. Distance(outPos, outPos) = 0 BY <1>5, <3>1 DEF Distance
    <3> QED BY <1>15, <1>16, <3>2
  <2>2. p \in Positions /\ Distance(p, outPos) = s - 1 BY <1>14, <1>15, <2>1, NearerFromAhead DEF p
  <2> QED BY <1>14, <2>2, NthOfDistance
<1>18. h \in Positions /\ Distance(h, outPos) = k - 1 /\ h = Nth(outPos, k - 1)
  <2>1. consumer.kept # outPos
    <3>1. outPos \in 0..(BufSize - 1) BY <1>14 DEF Positions
    <3>2. Distance(outPos, outPos) = 0 BY <1>5, <3>1 DEF Distance
    <3> QED BY <1>12, <1>15, <1>16, <3>2
  <2>2. h \in Positions /\ Distance(h, outPos) = k - 1 BY <1>14, <1>15, <2>1, NearerFromAhead DEF h
  <2> QED BY <1>14, <2>2, NthOfDistance
<1>19. Seen' = s - 1 /\ Kept' = IF keep THEN k - 1 ELSE k
  <2>1. Seen' = Distance(p, outPos) BY <1>3, <1>4 DEF Seen, Ahead, Distance
  <2>2. Kept' = Distance(IF keep THEN h ELSE consumer.kept, outPos) BY <1>3, <1>4 DEF Kept, Ahead, Distance
  <2> QED BY <1>15, <1>17, <1>18, <2>1, <2>2
<1>20. Available' = a BY <1>3, <1>9 DEF Available
<1>21. \A i \in 1..a : Items[i] = IF i <= n /\ n - i < l THEN g[n - i + 1] ELSE buffer[Nth(outPos, i - 1)]
  BY <1>1, <1>3, <1>6, <1>7, <1>8, <1>9 DEF Itemised
<1>22. buffer[p] = Items[s]
  <2>1. s \in 1..a /\ ~(n - s < l) BY <1>12, <1>13, <1>16
  <2> QED BY <1>17, <1>21, <2>1
<1>23. buffer[p] \in Nat BY <1>14, <1>17
<1>24. /\ Len(consumer'.got) = l + 1 /\ consumer'.got[l + 1] = buffer[p]
       /\ \A i \in 1..l : consumer'.got[i] = g[i]
  BY <1>4, <1>7, <1>8, <1>23, AppendProperties
<1>25. \A j \in 0..(BufSize - 1) : keep /\ j # k - 1 => buffer'[Nth(outPos, j)] = buffer[Nth(outPos, j)]
  <2> SUFFICES ASSUME NEW j \in 0..(BufSize - 1), keep, j # k - 1
               PROVE  buffer'[Nth(outPos, j)] = buffer[Nth(outPos, j)]
    OBVIOUS
  <2>1. k - 1 \in 0..(BufSize - 1) BY <1>5, <1>12, <1>16
  <2>2. Nth(outPos, j) # h BY <1>14, <1>18, <2>1, NthApart
  <2>3. Nth(outPos, j) \in Positions BY <1>14, NthInRing
  <2> QED BY <1>3, <1>14, <2>2, <2>3
<1>26. ~keep => buffer' = buffer BY <1>3
<1>27. \A i \in 1..a : Items'[i] = IF i <= n /\ n - i < l + 1 THEN consumer'.got[n - i + 1]
                                  ELSE buffer'[Nth(outPos, i - 1)]
  BY <1>2, <1>3, <1>4, <1>6, <1>20, <1>24 DEF Itemised, Nth
<1>28. \A i \in 1..a : Items'[i] = Items[i]
  <2> TAKE i \in 1..a
  <2>1. CASE i <= n /\ n - i < l
    <3>1. n - i < l + 1 /\ n - i + 1 \in 1..l BY <2>1
    <3> QED BY <1>21, <1>24, <1>27, <2>1, <3>1
  <2>2. CASE i = s
    <3>1. i <= n /\ n - i < l + 1 /\ n - i + 1 = l + 1 BY <1>12, <1>13, <2>2
    <3> QED BY <1>22, <1>24, <1>27, <2>2, <3>1
  <2>3. CASE ~(i <= n /\ n - i < l) /\ i # s
    <3>1. ~(i <= n /\ n - i < l + 1) /\ i - 1 # k - 1 /\ i - 1 \in 0..(BufSize - 1)
      BY <1>5, <1>12, <1>13, <2>3
    <3>2. buffer'[Nth(outPos, i - 1)] = buffer[Nth(outPos, i - 1)] BY <1>25, <1>26, <3>1
    <3> QED BY <1>21, <1>27, <2>3, <3>1, <3>2
  <2> QED BY <2>1, <2>2, <2>3
<1>29. Items' = Items BY <1>1, <1>9, <1>20, <1>28, SameItems
<1>30. PICK pick : Sifted(pick) BY <1>1, <1>3 DEF TakenInv
<1>31. /\ pick \in [k..(n - 1) -> s..(n - 1)]
       /\ \A i, j \in k..(n - 1) : i < j => pick[i] < pick[j]
       /\ \A i \in k..(n - 1) : buffer[Nth(outPos, i)] = Items[pick[i] + 1]
  BY <1>6, <1>10, <1>11, <1>30 DEF Sifted
<1>32. \A i \in k..(n - 1) : pick[i] \in s..(n - 1) /\ pick[i] \in (s - 1)..(n - 1)
  <2> TAKE i \in k..(n - 1)
  <2>1. pick[i] \in s..(n - 1) BY <1>31
  <2>2. s..(n - 1) \subseteq (s - 1)..(n - 1) OBVIOUS
  <2> QED BY <2>1, <2>2
<1>33. (\E q : Sifted(q))'
  <2>1. CASE ~keep
    <3>1. pick \in [k..(n - 1) -> (s - 1)..(n - 1)] BY <1>31, <1>32
    <3>2. Sifted(pick)' BY <1>3, <1>4, <1>6, <1>19, <1>26, <1>29, <1>31, <2>1, <3>1 DEF Sifted, Nth
    <3> QED BY <3>2
  <2>2. CASE keep
    <3> DEFINE q == [i \in (k - 1)..(n - 1) |-> IF i = k - 1 THEN s - 1 ELSE pick[i]]
    <3>1. \A i \in (k - 1)..(n - 1) : i = k - 1 \/ i \in k..(n - 1) BY <1>12, <1>16
    <3>2. s - 1 \in (s - 1)..(n - 1) BY <1>12, <1>16
    <3>3. q \in [(k - 1)..(n - 1) -> (s - 1)..(n - 1)] BY <1>32, <3>1, <3>2
    <3>4. q[k - 1] = s - 1 /\ \A i \in k..(n - 1) : q[i] = pick[i]
      <4>1. k - 1 \in (k - 1)..(n - 1) /\ \A i \in k..(n - 1) : i \in (k - 1)..(n - 1) /\ i # k - 1
        BY <1>12, <1>16
      <4> QED BY <4>1
    <3> HIDE DEF q
    <3>5. \A i, j \in (k - 1)..(n - 1) : i < j => q[i] < q[j]
      <4> SUFFICES ASSUME NEW i \in (k - 1)..(n - 1), NEW j \in (k - 1)..(n - 1), i < j PROVE q[i] < q[j]
        OBVIOUS
      <4>1. j \in k..(n - 1) /\ q[j] = pick[j]
        <5>1. j \in k..(n - 1) BY <3>1
        <5> QED BY <3>4, <5>1
      <4>2. CASE i = k - 1
        <5>1. pick[j] \in s..(n - 1) BY <1>32, <4>1
        <5>2. s - 1 < pick[j] BY <5>1
        <5> QED BY <3>4, <4>1, <4>2, <5>2
      <4>3. CASE i \in k..(n - 1) BY <1>31, <3>4, <4>1, <4>3
      <4> QED BY <3>1, <4>2, <4>3
    <3>6. \A i \in (k - 1)..(n - 1) : buffer'[Nth(outPos, i)] = Items[q[i] + 1]
      <4> TAKE i \in (k - 1)..(n - 1)
      <4>1. CASE i = k - 1
        <5>1. buffer'[h] = buffer[p] BY <1>3, <1>14, <1>18, <2>2
        <5>2. (s - 1) + 1 = s OBVIOUS
        <5> QED BY <1>18, <1>22, <3>4, <4>1, <5>1, <5>2
      <4>2. CASE i \in k..(n - 1)
        <5>1. i \in 0..(BufSize - 1) /\ i # k - 1 BY <1>5, <1>12, <4>2
        <5>2. buffer'[Nth(outPos, i)] = buffer[Nth(outPos, i)] BY <1>25, <2>2, <5>1
        <5> QED BY <1>31, <3>4, <4>2, <5>2
      <4> QED BY <3>1, <4>1, <4>2
    <3>7. Sifted(q)' BY <1>3, <1>4, <1>6, <1>19, <1>29, <2>2, <3>3, <3>5, <3>6 DEF Sifted, Nth
    <3> QED BY <3>7
  <2> QED BY <2>1, <2>2
<1>34. TakenInv'
  <2>1. Len(consumer'.got) + Seen' = consumer'.n BY <1>4, <1>6, <1>13, <1>19, <1>24
  <2> QED BY <1>4, <1>33, <2>1 DEF TakenInv
<1>35. CopiedInv'
  <2>1. ASSUME NEW i \in 0..(producer.copied - 1) PROVE buffer'[PushSlot(i)] = next + i
    <3>1. i \in 0..(producer.block + producer.rest - 1)
      <4>1. PICK b \in 0..BufSize : b = producer.block BY <1>1 DEF Sized
      <4>2. PICK r \in 0..BufSize : r = producer.rest BY <1>1 DEF Sized
      <4>3. PICK c \in Nat : c = producer.copied BY <1>1 DEF Sized
      <4>4. producer.at \in {"idle", "copying"} BY <1>1 DEF IInv, TypeOK
      <4>5. c <= b + r BY <1>1, <4>1, <4>2, <4>3, <4>4 DEF IInv, PushInv
      <4>6. i \in 0..(c - 1) BY <4>3
      <4>7. i \in 0..(b + r - 1) BY <1>5, <4>5, <4>6
      <4> QED BY ONLY <4>1, <4>2, <4>7
    <3>2. PushSlot(i) = Nth(outPos, Available + i) /\ Available + i \in 0..(BufSize - 1)
      BY <1>1, <3>1, PushSlotIs
    <3>3. Available + i # k - 1
      <4>1. i >= 0 /\ i \in Int BY <3>1
      <4> QED BY <1>9, <1>12, <4>1
    <3>4. buffer'[PushSlot(i)] = buffer[PushSlot(i)] BY <1>25, <1>26, <3>2, <3>3
    <3> QED BY <1>1, <3>4 DEF CopiedInv
  <2>2. producer' = producer /\ inPos' = inPos /\ next' = next BY <1>3
  <2>3. \A i : PushSlot(i)' = PushSlot(i) BY <2>2 DEF PushSlot
  <2> QED BY <2>1, <2>2, <2>3 DEF CopiedInv
<1> QED BY <1>3, <1>29, <1>34, <1>35, Unseen DEF FifoInv

\* for_each_rev_requeue() stores where the items it put back begin.
LEMMA StoreRevSifts == ASSUME FifoInv, IInv', StoreRev PROVE FifoInv' /\ [Fifo!Next]_(Fifo!vars)
<1>1. IInv /\ TakenInv /\ Sized /\ Itemised BY SizedIs, ItemisedIs DEF FifoInv
<1>2. Itemised'
  <2>1. (IInv => Itemised)' BY ItemisedIs, PTL
  <2> QED BY <2>1
<1>3. /\ consumer.at = "rev" /\ consumer.pos = outPos
      /\ outPos' = consumer.kept /\ given' = consumer.got /\ consumer' = NoCall
      /\ UNCHANGED <<buffer, inPos, next, producer>>
  BY DEF StoreRev
<1>4. BufSize \in Nat \ {0} BY QueueAssumption
<1>5. PICK n \in Nat : n = consumer.n
  <2>1. consumer.n \in 0..BufSize BY <1>1 DEF Sized
  <2> QED BY <1>4, <2>1
<1>6. PICK g \in Seq(Nat) : g = consumer.got BY <1>1 DEF Sized
<1>7. PICK a \in Nat : a = Available BY <1>1, <1>4 DEF Sized
<1>8. PICK k \in Nat : k = Kept BY <1>1, <1>4 DEF Sized
<1>9. 1 <= n /\ n <= a /\ k <= n /\ a <= BufSize - 1
  <2>1. CallInv BY <1>1 DEF IInv
  <2>2. 1 <= consumer.n /\ consumer.n <= Available /\ Kept <= consumer.n
    BY <1>3, <2>1 DEF CallInv, Kept
  <2>3. Available <= BufSize - 1 BY <1>1, <1>4 DEF Sized
  <2> QED BY <1>5, <1>7, <1>8, <2>2, <2>3
<1>10. outPos \in Positions /\ inPos \in Positions /\ consumer.kept \in Positions
       /\ Available = Distance(inPos, outPos)
  BY <1>1 DEF Sized
<1>11. Seen = 0
  <2>1. outPos \in 0..(BufSize - 1) BY <1>10 DEF Positions
  <2> QED BY <1>3, <1>4, <2>1 DEF Seen, Ahead
<1>12. Len(g) = n BY <1>1, <1>3, <1>5, <1>6, <1>11 DEF TakenInv
<1>13. outPos' = Nth(outPos, k)
  <2>1. k = Distance(consumer.kept, outPos) BY <1>8 DEF Kept, Ahead, Distance
  <2> QED BY <1>3, <1>10, <2>1, NthOfDistance
<1>14. Available' = a - k
  <2>1. Available' = Distance(inPos, Wrap(outPos + k))
    <3>1. (IInv => Sized)' BY SizedIs, PTL
    <3> QED BY <1>3, <1>13, <3>1 DEF Sized, Nth
  <2>2. k <= Distance(inPos, outPos) BY <1>7, <1>9, <1>10
  <2>3. Distance(inPos, Wrap(outPos + k)) = Distance(inPos, outPos) - k BY <1>10, <2>2, NearerFromBehind
  <2> QED BY <1>7, <1>10, <2>1, <2>3
<1>15. \A i \in 1..a : Items[i] = IF i <= n THEN g[n - i + 1] ELSE buffer[Nth(outPos, i - 1)]
  <2> TAKE i \in 1..a
  <2>1. i <= n => n - i < Len(g) BY <1>12
  <2> QED BY <1>1, <1>3, <1>5, <1>6, <1>7, <2>1 DEF Itemised
<1>16. Items \in Seq(Nat) /\ Len(Items) = a /\ Items' \in Seq(Nat) /\ Len(Items') = a - k
  BY <1>1, <1>2, <1>7, <1>14 DEF Itemised
<1>17. \A i \in 1..(a - k) : Items'[i] = buffer[Nth(outPos, k + (i - 1))]
  <2>1. consumer'.at # "rev" BY <1>3 DEF NoCall
  <2>2. (IInv /\ (consumer.at # "rev" \/ consumer.got = <<>>)
            => \A i \in 1..Available : Items[i] = buffer[Nth(outPos, i - 1)])'
    BY PlainItems, PTL
  <2>3. \A i \in 1..(a - k) : Items'[i] = buffer[Nth(outPos', i - 1)] BY <1>3, <1>14, <2>1, <2>2 DEF Nth
  <2> TAKE i \in 1..(a - k)
  <2>4. i - 1 \in Nat /\ k + (i - 1) <= BufSize - 1 BY <1>4, <1>9
  <2>5. Nth(outPos', i - 1) = Nth(outPos, k + (i - 1)) BY <1>10, <1>13, <2>4, NthOfNth
  <2> QED BY <2>3, <2>5
<1>18. PICK pick : Sifted(pick) BY <1>1, <1>3 DEF TakenInv
<1>19. /\ pick \in [k..(n - 1) -> 0..(n - 1)]
       /\ \A i, j \in k..(n - 1) : i < j => pick[i] < pick[j]
       /\ \A i \in k..(n - 1) : buffer[Nth(outPos, i)] = Items[pick[i] + 1]
  BY <1>5, <1>8, <1>11, <1>18 DEF Sifted
<1>20. PICK m \in Nat : m = n - k /\ m \in 0..n BY <1>9
<1> DEFINE pk == [i \in 1..m |-> pick[k + i - 1] + 1]
<1>21. \A i \in 1..m : k + i - 1 \in k..(n - 1) /\ k + i - 1 = k + (i - 1) BY <1>20
<1>22. \A i \in 1..m : pick[k + i - 1] + 1 \in 1..n
  <2> TAKE i \in 1..m
  <2>1. pick[k + i - 1] \in 0..(n - 1) BY <1>19, <1>21
  <2> QED BY <2>1
<1>23. pk \in [1..m -> 1..n] BY <1>22
<1>24. \A i \in 1..m : pk[i] = pick[k + i - 1] + 1 OBVIOUS
<1> HIDE DEF pk
<1>25. DOMAIN pk = 1..m /\ \A i \in 1..m : pk[i] \in 1..n BY <1>23
<1>26. \A i, j \in DOMAIN pk : i < j => pk[i] < pk[j]
  <2> SUFFICES ASSUME NEW i \in 1..m, NEW j \in 1..m, i < j PROVE pk[i] < pk[j] BY <1>25
  <2>1. k + i - 1 < k + j - 1 OBVIOUS
  <2>2. pick[k + i - 1] < pick[k + j - 1] BY <1>19, <1>21, <2>1
  <2>3. PICK x \in 0..(n - 1) : x = pick[k + i - 1] BY <1>19, <1>21
  <2>4. PICK y \in 0..(n - 1) : y = pick[k + j - 1] BY <1>19, <1>21
  <2> QED BY <1>24, <2>2, <2>3, <2>4
<1> DEFINE stay == [i \in DOMAIN pk |-> Items[pk[i]]]
           after == SubSeq(Items, n + 1, Len(Items))
<1>27. stay \in Seq(Nat) /\ Len(stay) = m /\ \A i \in 1..m : stay[i] = Items[pk[i]]
  <2>1. \A i \in 1..m : Items[pk[i]] \in Nat
    <3> TAKE i \in 1..m
    <3>1. pk[i] \in 1..a BY <1>9, <1>25
    <3> QED BY <1>16, <3>1, ElementOfSeq
  <2>2. stay = [i \in 1..m |-> Items[pk[i]]] BY <1>25
  <2>3. stay \in [1..m -> Nat] BY <2>1, <2>2
  <2>4. PICK f \in [1..m -> Nat] : f = stay BY <2>3
  <2>5. f \in Seq(Nat) /\ Len(f) = m OBVIOUS
  <2> QED BY <2>2, <2>4, <2>5
<1>28. /\ after \in Seq(Nat) /\ Len(after) = a - n
       /\ \A i \in 1..(a - n) : after[i] = Items[n + i]
  <2>1. \A i \in (n + 1)..a : i \in 1..a BY <1>9
  <2>2. \A i \in (n + 1)..a : Items[i] \in Nat BY <1>16, <2>1, ElementOfSeq
  <2>3. /\ SubSeq(Items, n + 1, a) \in Seq(Nat)
        /\ Len(SubSeq(Items, n + 1, a)) = IF n + 1 <= a THEN a - (n + 1) + 1 ELSE 0
        /\ \A i \in 1..(a - (n + 1) + 1) : SubSeq(Items, n + 1, a)[i] = Items[(n + 1) + i - 1]
    BY <2>2, SubSeqProperties
  <2>4. Len(SubSeq(Items, n + 1, a)) = a - n BY <1>9, <2>3
  <2>5. \A i \in 1..(a - n) : i \in 1..(a - (n + 1) + 1) /\ (n + 1) + i - 1 = n + i BY <1>9
  <2> QED BY <1>16, <2>3, <2>4, <2>5
<1> HIDE DEF stay, after
<1>29. /\ stay \o after \in Seq(Nat) /\ Len(stay \o after) = m + (a - n)
       /\ \A i \in 1..(m + (a - n)) : (stay \o after)[i] = IF i <= m THEN stay[i] ELSE after[i - m]
  <2>1. /\ stay \o after \in Seq(Nat) /\ Len(stay \o after) = Len(stay) + Len(after)
        /\ \A i \in 1..(Len(stay) + Len(after)) :
             (stay \o after)[i] = IF i <= Len(stay) THEN stay[i] ELSE after[i - Len(stay)]
    BY <1>27, <1>28, ConcatProperties
  <2>2. Len(stay) = m /\ Len(after) = a - n BY <1>27, <1>28
  <2> QED BY <2>1, <2>2, Zenon
<1>30. Items' = stay \o after
  <2>1. m + (a - n) = a - k BY <1>20
  <2>2. ASSUME NEW i \in 1..(a - k) PROVE Items'[i] = (stay \o after)[i]
    <3>1. CASE i <= m
      <4>1. i \in 1..m BY <3>1
      <4>2. Items'[i] = Items[pk[i]] BY <1>17, <1>19, <1>21, <1>24, <4>1
      <4> QED BY <1>27, <1>29, <2>1, <3>1, <4>1, <4>2
    <3>2. CASE ~(i <= m)
      <4>1. i - m \in 1..(a - n) /\ n + (i - m) = k + i /\ k + i \in 1..a /\ ~(k + i <= n)
            /\ (k + i) - 1 = k + (i - 1)
        BY <1>9, <1>20, <3>2
      <4>2. after[i - m] = Items[k + i] BY <1>28, <4>1
      <4>3. Items[k + i] = buffer[Nth(outPos, k + (i - 1))] BY <1>15, <4>1
      <4> QED BY <1>17, <1>29, <2>1, <3>2, <4>2, <4>3
    <3> QED BY <3>1, <3>2
  <2> QED BY <1>16, <1>29, <2>1, <2>2, SeqEqual
<1> DEFINE oldest == SubSeq(Items, 1, n)
<1>31. /\ oldest \in Seq(Nat) /\ Len(oldest) = n
       /\ \A i \in 1..n : oldest[i] = Items[i]
  <2>1. \A i \in 1..n : i \in 1..a BY <1>9
  <2>2. \A i \in 1..n : Items[i] \in Nat BY <1>16, <2>1, ElementOfSeq
  <2>3. /\ oldest \in Seq(Nat)
        /\ Len(oldest) = IF 1 <= n THEN n - 1 + 1 ELSE 0
        /\ \A i \in 1..(n - 1 + 1) : oldest[i] = Items[1 + i - 1]
    BY <2>2, SubSeqProperties
  <2>4. Len(oldest) = n BY <1>9, <2>3
  <2>5. \A i \in 1..n : i \in 1..(n - 1 + 1) /\ 1 + i - 1 = i OBVIOUS
  <2> QED BY <2>3, <2>4, <2>5
<1> HIDE DEF oldest
<1>32. g = Fifo!Reverse(oldest)
  <2>1. Fifo!Reverse(oldest) = [i \in 1..n |-> oldest[(n - i) + 1]] BY <1>31 DEF Fifo!Reverse
  <2>2. \A i \in 1..n : oldest[(n - i) + 1] = g[i]
    <3> TAKE i \in 1..n
    <3>1. (n - i) + 1 \in 1..n /\ (n - i) + 1 \in 1..a /\ n - ((n - i) + 1) + 1 = i BY <1>9
    <3>2. Items[(n - i) + 1] = g[i] BY <1>15, <3>1
    <3> QED BY <1>31, <3>1, <3>2
  <2>3. g = [i \in 1..n |-> g[i]] BY <1>12
  <2> QED BY <2>1, <2>2, <2>3
<1>33. Fifo!Sift(n, pk)
  <2>1. given' = Fifo!Reverse(SubSeq(Items, 1, n)) BY <1>3, <1>6, <1>32 DEF oldest
  <2>2. Items' = [i \in DOMAIN pk |-> Items[pk[i]]] \o SubSeq(Items, n + 1, Len(Items))
    BY <1>30 DEF stay, after
  <2>3. UNCHANGED <<producer.block + producer.rest, next>> BY <1>3
  <2> QED BY <1>26, <2>1, <2>2, <2>3 DEF Fifo!Sift
<1>34. Fifo!Next
  <2>1. n \in 0..Len(Items) BY <1>9, <1>16
  <2>2. \E q \in [1..m -> 1..n] : Fifo!Sift(n, q) BY <1>23, <1>33
  <2>3. \E w \in 0..n : \E q \in [1..w -> 1..n] : Fifo!Sift(n, q) BY <1>20, <2>2
  <2> QED BY <2>1, <2>3 DEF Fifo!Next
<1>35. TakenInv' BY <1>3 DEF TakenInv, NoCall
<1>36. CopiedInv' BY <1>3, CopiedStays
<1> QED BY <1>34, <1>35, <1>36 DEF FifoInv

\* The ring begins as an empty queue.
LEMMA InitFifo == Init => FifoInv /\ Fifo!Init
<1> SUFFICES ASSUME Init PROVE FifoInv /\ Fifo!Init OBVIOUS
<1>1. IInv BY InitInv
<1>2. Available = 0 BY DEF Init, Available
<1>3. Items = <<>>
  <2>1. Items \in Seq(Nat) /\ Len(Items) = 0 BY <1>1, <1>2, ItemisedIs DEF Itemised
  <2> QED BY <2>1, EmptySeq
<1>4. producer.block + producer.rest = 0 /\ producer.copied = 0 BY DEF Init, NoPush
<1>5. CopiedInv BY <1>4 DEF CopiedInv
<1>6. TakenInv BY DEF Init, NoCall, TakenInv
<1> QED BY <1>1, <1>3, <1>4, <1>5, <1>6 DEF FifoInv, Init, Fifo!Init

\* Each step of either thread is a step of the queue, or none.
LEMMA FifoStep == FifoInv /\ [Next]_vars => FifoInv' /\ [Fifo!Next]_(Fifo!vars)
<1> SUFFICES ASSUME FifoInv, [Next]_vars PROVE FifoInv' /\ [Fifo!Next]_(Fifo!vars) OBVIOUS
<1>1. IInv /\ Sized BY SizedIs DEF FifoInv
<1>2. IInv' BY <1>1, StepInv
<1>3. CASE CallPush
  <2>1. /\ producer = NoPush /\ producer' = [NoPush EXCEPT !.at = "copying", !.block = 1]
        /\ UNCHANGED <<buffer, inPos, outPos, next, consumer, given>>
    BY <1>3 DEF CallPush
  <2>2. producer'.block = 1 /\ producer'.rest = 0 /\ producer'.copied = 0 BY <2>1 DEF NoPush
  <2>3. Available' = Available BY <2>1 DEF Available
  <2>4. Available + 1 < BufSize
    <3>1. (IInv => Sized)' BY SizedIs, PTL
    <3>2. Available + 1 + 0 < BufSize BY <1>2, <2>2, <2>3, <3>1 DEF Sized
    <3>3. Available \in Int BY <1>1 DEF Sized
    <3> QED BY <3>2, <3>3
  <2>5. PICK a \in Nat : a = Available BY <1>1, QueueAssumption DEF Sized
  <2>6. BufSize \in Nat BY QueueAssumption
  <2>7. producer'.block + producer'.rest = MinOf(1, BufSize - 1 - Available) /\ Available < BufSize - 1
    BY <2>2, <2>4, <2>5, <2>6 DEF MinOf
  <2> QED BY <1>2, <2>1, <2>2, <2>7, PushOffers
<1>4. ASSUME NEW size \in Sizes, CallPushN(size) PROVE FifoInv' /\ [Fifo!Next]_(Fifo!vars)
  <2>1. /\ producer = NoPush /\ Block(size) > 0
        /\ producer' = [NoPush EXCEPT !.at = "copying", !.block = Block(size), !.rest = Rest(size)]
        /\ UNCHANGED <<buffer, inPos, outPos, next, consumer, given>>
    BY <1>4 DEF CallPushN
  <2>2. producer'.block = Block(size) /\ producer'.rest = Rest(size) /\ producer'.copied = 0
    BY <2>1 DEF NoPush
  <2>3. TypeOK BY <1>1 DEF IInv
  <2>4. size \in Nat \ {0} BY QueueAssumption
  <2>5. producer'.block + producer'.rest = MinOf(size, BufSize - 1 - Available) BY <2>2, <2>3, RoomIsUsed
  <2>6. Available < BufSize - 1
    <3>1. /\ Block(size) \in 0..BufSize /\ Rest(size) \in 0..BufSize
          /\ Available + Block(size) + Rest(size) < BufSize
      BY <2>3, RoomIsFree
    <3>2. BufSize \in Nat /\ Available \in Nat BY <1>1, QueueAssumption DEF Sized
    <3> QED BY <2>1, <3>1, <3>2
  <2> QED BY <1>2, <2>1, <2>2, <2>4, <2>5, <2>6, PushOffers
<1>5. CASE CopyIn BY <1>2, <1>5, CopyInIsUnseen
<1>6. CASE StoreIn BY <1>2, <1>6, StoreInAdds
<1>7. ASSUME NEW size \in Sizes \cup {1}, CallPop(size) PROVE FifoInv' /\ [Fifo!Next]_(Fifo!vars)
  <2>1. consumer = NoCall /\ UNCHANGED <<buffer, inPos, outPos, next, producer, given>>
        /\ consumer'.got = <<>> /\ consumer'.at # "rev"
    BY <1>7 DEF CallPop, NoCall
  <2> QED BY <1>2, <2>1, CallIsUnseen
<1>8. CASE CopyOut BY <1>2, <1>8, CopyOutIsUnseen
<1>9. CASE StoreOut BY <1>2, <1>9, StoreOutTakes
<1>10. CASE CallForEach
  <2>1. consumer = NoCall /\ UNCHANGED <<buffer, inPos, outPos, next, producer, given>>
        /\ consumer'.got = <<>> /\ consumer'.at # "rev"
    BY <1>10 DEF CallForEach, NoCall
  <2> QED BY <1>2, <2>1, CallIsUnseen
<1>11. CASE CallBack BY <1>2, <1>11, CallBackIsUnseen
<1>12. CASE StoreEach BY <1>2, <1>12, StoreEachTakes
<1>13. CASE CallForEachRev
  <2>1. consumer = NoCall /\ UNCHANGED <<buffer, inPos, outPos, next, producer, given>>
        /\ consumer'.got = <<>>
        /\ consumer'.n = Available /\ consumer'.pos = inPos /\ consumer'.kept = inPos
    BY <1>13 DEF CallForEachRev, NoCall
  <2> QED BY <1>2, <2>1, CallIsUnseen
<1>14. ASSUME NEW keep \in BOOLEAN, Requeue(keep) PROVE FifoInv' /\ [Fifo!Next]_(Fifo!vars)
  BY <1>2, <1>14, RequeueIsUnseen
<1>15. CASE StoreRev BY <1>2, <1>15, StoreRevSifts
<1>16. CASE CallFlush
  <2>1. consumer = NoCall /\ UNCHANGED <<buffer, inPos, outPos, next, producer, given>>
        /\ consumer'.got = <<>> /\ consumer'.at # "rev"
    BY <1>16 DEF CallFlush, NoCall
  <2> QED BY <1>2, <2>1, CallIsUnseen
<1>17. CASE StoreFlush BY <1>2, <1>17, StoreFlushTakes
<1>18. CASE UNCHANGED vars
  <2>1. UNCHANGED <<buffer, inPos, outPos, next, producer, consumer, given>> BY <1>18 DEF vars
  <2>2. Available' = Available BY <2>1 DEF Available
  <2>3. CopiedInv' BY <2>1, CopiedStays
  <2>4. FifoInv' /\ Items' = Items BY <1>2, <2>1, <2>2, <2>3, ProducerSteps
  <2> QED BY <2>1, <2>4, Unseen
<1> QED BY <1>3, <1>4, <1>5, <1>6, <1>7, <1>8, <1>9, <1>10, <1>11, <1>12, <1>13, <1>14, <1>15,
           <1>16, <1>17, <1>18 DEF Next, Produce, Consume

\* ImplementsFifo: for every size of the ring, every sizes asked for and
\* wherever the steps of the two threads meet, the ring is a FIFO queue of its
\* capacity: nothing lost, doubled, reordered or handed over before its copy.
THEOREM RingImplementsFifo == Spec => ImplementsFifo
<1>1. Init => FifoInv /\ Fifo!Init BY InitFifo
<1>2. FifoInv /\ [Next]_vars => FifoInv' /\ [Fifo!Next]_(Fifo!vars) BY FifoStep
<1> QED BY <1>1, <1>2, PTL DEF Spec, ImplementsFifo, Fifo!Spec

(***************************************************************************)
(* CircularQueueMp.  Positions are modulo BufSize; how far each is ahead   *)
(* of the consumer's tells which claim it stands for, as long as whoever   *)
(* holds a position is never overtaken by the consumer.  That is what the  *)
(* invariant says: no ABA, though m_inPos_mp does come back to the same    *)
(* value.                                                                  *)
(***************************************************************************)

\* How far position x is ahead of position o.
Dist(x, o) == IF x < o THEN x - o + BufSize ELSE x - o

\* How many messages the consumer is done with.
Done == Len(popped) - (IF holding THEN 1 ELSE 0)

\* What slots hold: messages, or nothing yet.
Slotted == (Producers \X Nat) \cup {<<>>}

\* Where a push can be.
Places == {"idle", "load", "look", "claim", "write", "end", "count", "publish", "leave"}

\* Where it works with the position it has loaded.
Knowing == {"look", "claim", "write", "count", "publish"}

\* The types, and that the other boards' push has no steps but its own.
MpTypes ==
    /\ mpBuffer \in [Mp!Positions -> Slotted]
    /\ mpInPos \in Mp!Positions /\ inPosMp \in Mp!Positions /\ mpOutPos \in Mp!Positions
    /\ concurrent \in Nat
    /\ at \in [Producers -> Places] /\ seen \in [Producers -> Mp!Positions]
    /\ count \in [Producers -> Nat] /\ mpSent \in [Producers -> Nat]
    /\ claims \in Seq(Slotted) /\ popped \in Seq(Slotted) /\ holding \in BOOLEAN
    /\ ~LockFree => \A p \in Producers : at[p] \in {"idle", "write", "end"}

\* The three positions in their order: consumed, readable, claimed.
OrderInv ==
    /\ Done >= 0 /\ Done + Dist(inPosMp, mpOutPos) = Len(claims)
    /\ Dist(mpInPos, mpOutPos) <= Dist(inPosMp, mpOutPos)
    /\ holding => 1 <= Dist(mpInPos, mpOutPos)

\* A position a push works with is neither consumed nor readable yet, ...
SeenInv ==
    \A p \in Producers :
        at[p] \in Knowing =>
            /\ Dist(mpInPos, mpOutPos) <= Dist(seen[p], mpOutPos)
            /\ Dist(seen[p], mpOutPos) <= Dist(inPosMp, mpOutPos)

\* ... there is room if it is still what is claimed, ...
RoomInv ==
    \A p \in Producers :
        at[p] = "claim" /\ seen[p] = inPosMp => Mp!After(seen[p]) # mpOutPos

\* ... and the slot being written is that of the claim.
WriteInv ==
    \A p \in Producers :
        at[p] = "write" =>
            /\ Dist(seen[p], mpOutPos) < Dist(inPosMp, mpOutPos)
            /\ claims[Done + Dist(seen[p], mpOutPos) + 1] = <<p, mpSent[p] - 1>>

\* One push at a time makes slots readable, and those of the others are not among them.
PublishInv ==
    \A q \in Producers : at[q] = "publish" =>
        \A p \in Producers : p # q /\ at[p] \in Knowing =>
            at[p] # "publish" /\ Dist(seen[q], mpOutPos) <= Dist(seen[p], mpOutPos)

\* Every claimed slot holds its message or is about to.
SlotInv ==
    \A x \in Mp!Positions :
        Dist(x, mpOutPos) < Dist(inPosMp, mpOutPos) =>
            \/ mpBuffer[x] = claims[Done + Dist(x, mpOutPos) + 1]
            \/ \E p \in Producers : at[p] = "write" /\ seen[p] = x

\* What was popped, in the order of the claims.
PoppedInv == \A i \in 1..Len(popped) : popped[i] = claims[i]

\* The pushes under way are counted.
CountInv == IsFiniteSet(Mp!Inside) /\ concurrent = Cardinality(Mp!Inside)

\* The inductive invariant.
MpInv ==
    /\ MpTypes /\ OrderInv /\ SeenInv /\ RoomInv /\ WriteInv
    /\ PublishInv /\ SlotInv /\ PoppedInv /\ CountInv

\* The position after a position.
LEMMA AfterPosition ==
  ASSUME Mp!QueueConstants, NEW x \in Mp!Positions
  PROVE  Mp!After(x) = (IF x = BufSize - 1 THEN 0 ELSE x + 1) /\ Mp!After(x) \in Mp!Positions
<1>1. BufSize \in Nat /\ BufSize >= 2 /\ x \in Nat /\ x <= BufSize - 1 BY DEF Mp!QueueConstants, Mp!Positions
<1>2. CASE x = BufSize - 1
  <2>1. (x + 1) % BufSize = 0 BY <1>1, <1>2
  <2> QED BY <1>1, <1>2, <2>1 DEF Mp!After, Mp!Positions
<1>3. CASE x # BufSize - 1
  <2>1. x + 1 \in 0..(BufSize - 1) BY <1>1, <1>3
  <2>2. (x + 1) % BufSize = x + 1 BY <1>1, <2>1
  <2> QED BY <1>1, <1>3, <2>1, <2>2 DEF Mp!After, Mp!Positions
<1> QED BY <1>2, <1>3

\* Positions apart stay apart.
LEMMA AfterApart ==
  ASSUME Mp!QueueConstants, NEW x \in Mp!Positions, NEW y \in Mp!Positions, Mp!After(x) = Mp!After(y)
  PROVE  x = y
<1>1. /\ Mp!After(x) = (IF x = BufSize - 1 THEN 0 ELSE x + 1)
      /\ Mp!After(y) = (IF y = BufSize - 1 THEN 0 ELSE y + 1)
  BY AfterPosition
<1>2. BufSize \in Nat /\ x \in 0..(BufSize - 1) /\ y \in 0..(BufSize - 1)
  BY DEF Mp!QueueConstants, Mp!Positions
<1>3. CASE x = BufSize - 1
  <2>1. Mp!After(y) = 0 BY <1>1, <1>3
  <2> QED BY <1>1, <1>2, <1>3, <2>1
<1>4. CASE x # BufSize - 1
  <2>1. Mp!After(y) = x + 1 /\ x + 1 # 0 BY <1>1, <1>2, <1>4
  <2>2. y # BufSize - 1 BY <1>1, <2>1
  <2>3. y + 1 = x + 1 BY <1>1, <2>1, <2>2
  <2> QED BY <1>2, <2>3
<1> QED BY <1>3, <1>4

\* Distances are less than the ring and tell positions apart; the next
\* position is one further on, except from behind o to o.
LEMMA DistFacts ==
  ASSUME Mp!QueueConstants, NEW o \in Mp!Positions
  PROVE  /\ \A x \in Mp!Positions : Dist(x, o) \in 0..(BufSize - 1)
         /\ \A x, y \in Mp!Positions : Dist(x, o) = Dist(y, o) => x = y
         /\ Dist(o, o) = 0
         /\ \A x \in Mp!Positions : Mp!After(x) # o => Dist(Mp!After(x), o) = Dist(x, o) + 1
         /\ \A x \in Mp!Positions : 1 <= Dist(x, o) => Dist(x, Mp!After(o)) = Dist(x, o) - 1
         /\ Dist(o, Mp!After(o)) = BufSize - 1
<1>1. BufSize \in Nat /\ BufSize >= 2 BY DEF Mp!QueueConstants
<1>2. \A x \in Mp!Positions : Mp!After(x) = (IF x = BufSize - 1 THEN 0 ELSE x + 1) BY AfterPosition
<1>3. o \in Int /\ 0 <= o /\ o <= BufSize - 1 BY <1>1 DEF Mp!Positions
<1>4. \A x \in Mp!Positions : x \in Int /\ 0 <= x /\ x <= BufSize - 1 BY <1>1 DEF Mp!Positions
<1>5. \A x \in Mp!Positions : Dist(x, o) \in 0..(BufSize - 1) BY <1>1, <1>3, <1>4 DEF Dist
<1>6. \A x, y \in Mp!Positions : Dist(x, o) = Dist(y, o) => x = y BY <1>1, <1>3, <1>4 DEF Dist
<1>7. Dist(o, o) = 0 BY <1>3 DEF Dist
<1>8. \A x \in Mp!Positions : Mp!After(x) # o => Dist(Mp!After(x), o) = Dist(x, o) + 1
  BY <1>1, <1>2, <1>3, <1>4 DEF Dist
<1>9. \A x \in Mp!Positions : 1 <= Dist(x, o) => Dist(x, Mp!After(o)) = Dist(x, o) - 1
  BY <1>1, <1>2, <1>3, <1>4 DEF Dist
<1>10. Dist(o, Mp!After(o)) = BufSize - 1 BY <1>1, <1>2, <1>3 DEF Dist
<1> QED BY <1>5, <1>6, <1>7, <1>8, <1>9, <1>10

\* The invariant holds before the first push.
LEMMA MpInitInv == Mp!QueueConstants /\ Mp!Init => MpInv
<1> SUFFICES ASSUME Mp!QueueConstants, Mp!Init PROVE MpInv OBVIOUS
<1>1. BufSize \in Nat /\ BufSize >= 2 /\ 0 \in Mp!Positions BY DEF Mp!QueueConstants, Mp!Positions
<1>2. MpTypes
  <2>1. <<>> \in Seq(Slotted) BY EmptySeq
  <2> QED BY <1>1, <2>1 DEF Mp!Init, MpTypes, Slotted, Places
<1>3. Dist(0, 0) = 0 BY DEF Dist
<1>4. Len(claims) = 0 /\ Len(popped) = 0 BY DEF Mp!Init
<1>5. OrderInv BY <1>3, <1>4 DEF Mp!Init, OrderInv, Done
<1>6. SeenInv /\ RoomInv /\ WriteInv /\ PublishInv
  BY DEF Mp!Init, SeenInv, RoomInv, WriteInv, PublishInv, Knowing
<1>7. SlotInv
  <2>1. \A x \in Mp!Positions : Dist(x, 0) \in Nat BY <1>1 DEF Dist, Mp!Positions
  <2>2. mpOutPos = 0 /\ Dist(inPosMp, mpOutPos) = 0 BY <1>3 DEF Mp!Init
  <2>3. \A x \in Mp!Positions : ~(Dist(x, mpOutPos) < Dist(inPosMp, mpOutPos))
    <3> SUFFICES ASSUME NEW x \in Mp!Positions PROVE ~(Dist(x, 0) < 0) BY <2>2
    <3>1. Dist(x, 0) \in Nat BY <2>1
    <3> QED BY <3>1
  <2> QED BY <2>3 DEF SlotInv
<1>8. PoppedInv BY <1>4 DEF PoppedInv
<1>9. CountInv
  <2>1. Mp!Inside = {} BY DEF Mp!Init, Mp!Inside
  <2> QED BY <2>1, FS_EmptySet DEF Mp!Init, CountInv
<1> QED BY <1>2, <1>5, <1>6, <1>7, <1>8, <1>9 DEF MpInv

\* A push that goes from one place to another is counted from its first step
\* to its last.
LEMMA Counting ==
  ASSUME CountInv, MpTypes, NEW p \in Producers, NEW there \in Places,
         at' = [at EXCEPT ![p] = there],
         \/ at[p] = "idle" /\ there # "idle" /\ concurrent' = concurrent + 1
         \/ at[p] # "idle" /\ there = "idle" /\ concurrent' = concurrent - 1
         \/ at[p] # "idle" /\ there # "idle" /\ concurrent' = concurrent
  PROVE  CountInv' /\ concurrent' \in Nat
<1>1. at'[p] = there /\ \A q \in Producers : q # p => at'[q] = at[q] BY DEF MpTypes
<1>2. IsFiniteSet(Mp!Inside) /\ concurrent = Cardinality(Mp!Inside) BY DEF CountInv
<1>3. CASE at[p] = "idle" /\ there # "idle" /\ concurrent' = concurrent + 1
  <2>1. Mp!Inside' = Mp!Inside \cup {p} /\ p \notin Mp!Inside BY <1>1, <1>3 DEF Mp!Inside
  <2>2. IsFiniteSet(Mp!Inside') /\ Cardinality(Mp!Inside') = Cardinality(Mp!Inside) + 1
    BY <1>2, <2>1, FS_AddElement
  <2> QED BY <1>2, <1>3, <2>2 DEF CountInv, MpTypes
<1>4. CASE at[p] # "idle" /\ there = "idle" /\ concurrent' = concurrent - 1
  <2>1. Mp!Inside' = Mp!Inside \ {p} /\ p \in Mp!Inside BY <1>1, <1>4 DEF Mp!Inside
  <2>2. IsFiniteSet(Mp!Inside') /\ Cardinality(Mp!Inside') = Cardinality(Mp!Inside) - 1
    BY <1>2, <2>1, FS_RemoveElement
  <2>3. Cardinality(Mp!Inside') \in Nat BY <2>2, FS_CardinalityType
  <2> QED BY <1>2, <1>4, <2>2, <2>3 DEF CountInv
<1>5. CASE at[p] # "idle" /\ there # "idle" /\ concurrent' = concurrent
  <2>1. Mp!Inside' = Mp!Inside BY <1>1, <1>5 DEF Mp!Inside
  <2> QED BY <1>2, <1>5, <2>1 DEF CountInv, MpTypes
<1> QED BY <1>3, <1>4, <1>5

\* When one push is counted, no other is under way.
LEMMA AloneInside ==
  ASSUME CountInv, concurrent = 1, NEW p \in Producers, at[p] # "idle",
         NEW q \in Producers, q # p
  PROVE  at[q] = "idle"
<1>1. IsFiniteSet(Mp!Inside) /\ Cardinality(Mp!Inside) = 1 BY DEF CountInv
<1>2. p \in Mp!Inside BY DEF Mp!Inside
<1>3. IsFiniteSet(Mp!Inside \ {p}) /\ Cardinality(Mp!Inside \ {p}) = 0
  BY <1>1, <1>2, FS_RemoveElement
<1>4. Mp!Inside \ {p} = {} BY <1>3, FS_EmptySet
<1> QED BY <1>4 DEF Mp!Inside

\* A step of a push that moves nothing in the ring.
LEMMA QuietStep ==
  ASSUME Mp!QueueConstants, MpInv, NEW p \in Producers, NEW there \in Places \ {"write"},
         UNCHANGED <<mpBuffer, mpInPos, inPosMp, mpOutPos, claims, popped, holding, mpSent>>,
         at' = [at EXCEPT ![p] = there], at[p] # "write", LockFree,
         seen' \in [Producers -> Mp!Positions], \A q \in Producers : q # p => seen'[q] = seen[q],
         count' \in [Producers -> Nat], concurrent' \in Nat, CountInv',
         there \in Knowing =>
            /\ Dist(mpInPos, mpOutPos) <= Dist(seen'[p], mpOutPos)
            /\ Dist(seen'[p], mpOutPos) <= Dist(inPosMp, mpOutPos)
            /\ \A q \in Producers : q # p /\ at[q] = "publish" =>
                  there # "publish" /\ Dist(seen[q], mpOutPos) <= Dist(seen'[p], mpOutPos),
         there = "claim" /\ seen'[p] = inPosMp => Mp!After(seen'[p]) # mpOutPos,
         there = "publish" => \A q \in Producers : q # p => at[q] \notin Knowing
  PROVE  MpInv'
<1>1. MpTypes /\ OrderInv /\ SeenInv /\ RoomInv /\ WriteInv /\ PublishInv /\ SlotInv /\ PoppedInv
  BY DEF MpInv
<1>2. at'[p] = there /\ \A q \in Producers : q # p => at'[q] = at[q] BY <1>1 DEF MpTypes
<1>3. MpTypes' BY <1>1 DEF MpTypes
<1>4. Done' = Done BY DEF Done
<1>5. OrderInv' BY <1>1, <1>4 DEF OrderInv
<1>6. SeenInv' BY <1>1, <1>2 DEF SeenInv
<1>7. RoomInv' BY <1>1, <1>2 DEF RoomInv
<1>8. \A q \in Producers : at'[q] = "write" => q # p /\ at[q] = "write" /\ seen'[q] = seen[q]
  BY <1>2
<1>9. WriteInv' BY <1>1, <1>4, <1>8 DEF WriteInv
<1>10. PublishInv' BY <1>1, <1>2 DEF PublishInv
<1>11. \A q \in Producers : at[q] = "write" => at'[q] = "write" /\ seen'[q] = seen[q] BY <1>2
<1>12. SlotInv' BY <1>1, <1>4, <1>11 DEF SlotInv
<1>13. PoppedInv' BY <1>1 DEF PoppedInv
<1> QED BY <1>3, <1>5, <1>6, <1>7, <1>9, <1>10, <1>12, <1>13 DEF MpInv

\* What the steps below take from the types and the distances.
LEMMA MpFacts ==
  ASSUME Mp!QueueConstants, MpInv
  PROVE  /\ BufSize \in Nat /\ BufSize >= 2
         /\ Done \in Nat /\ Len(claims) \in Nat /\ Len(popped) \in Nat
         /\ \A x \in Mp!Positions : Dist(x, mpOutPos) \in 0..(BufSize - 1) /\ Mp!After(x) \in Mp!Positions
         /\ \A p \in Producers : seen[p] \in Mp!Positions /\ at[p] \in Places
<1>1. MpTypes /\ OrderInv BY DEF MpInv
<1>2. Len(claims) \in Nat /\ Len(popped) \in Nat BY <1>1, LenProperties DEF MpTypes
<1>3. Done \in Nat BY <1>1, <1>2 DEF MpTypes, OrderInv, Done
<1>4. mpOutPos \in Mp!Positions BY <1>1 DEF MpTypes
<1>5. \A x \in Mp!Positions : Dist(x, mpOutPos) \in 0..(BufSize - 1) BY <1>4, DistFacts
<1>6. \A x \in Mp!Positions : Mp!After(x) \in Mp!Positions BY AfterPosition
<1> QED BY <1>1, <1>2, <1>3, <1>5, <1>6 DEF MpTypes, Mp!QueueConstants

\* The steps of a push on the ESP32 that move nothing in the ring.
LEMMA QuietSteps ==
  ASSUME Mp!QueueConstants, MpInv, NEW p \in Producers,
         \/ Mp!Enter(p) \/ Mp!LoadClaimed(p) \/ Mp!Look(p) \/ Mp!LoadEnd(p) \/ Mp!LoadCount(p) \/ Mp!Leave(p)
         \/ Mp!Claim(p) /\ UNCHANGED inPosMp /\ at'[p] = "load"
  PROVE  MpInv'
<1>1. MpTypes /\ OrderInv /\ SeenInv /\ CountInv BY DEF MpInv
<1>2. at \in [Producers -> Places] /\ seen \in [Producers -> Mp!Positions]
      /\ count \in [Producers -> Nat] /\ concurrent \in Nat
      /\ inPosMp \in Mp!Positions /\ mpInPos \in Mp!Positions /\ mpOutPos \in Mp!Positions
  BY <1>1 DEF MpTypes
<1>3. \A x \in Mp!Positions : Dist(x, mpOutPos) \in Int BY MpFacts
<1>4. Dist(mpInPos, mpOutPos) <= Dist(inPosMp, mpOutPos) BY <1>1 DEF OrderInv
<1>a. \A q \in Producers : at[q] = "publish" => Dist(seen[q], mpOutPos) <= Dist(inPosMp, mpOutPos)
  BY <1>1 DEF SeenInv, Knowing
<1>b. \A q \in Producers : at[q] = "publish" =>
        \A r \in Producers : r # q /\ at[r] \in Knowing => Dist(seen[q], mpOutPos) <= Dist(seen[r], mpOutPos)
  BY DEF MpInv, PublishInv
<1>f. ~LockFree => at[p] \in {"idle", "write", "end"} BY <1>1 DEF MpTypes
<1>5. CASE Mp!Enter(p)
  <2>1. /\ at' = [at EXCEPT ![p] = "load"] /\ at[p] = "idle" /\ concurrent' = concurrent + 1
        /\ UNCHANGED <<mpBuffer, mpInPos, inPosMp, mpOutPos, claims, popped, holding, mpSent, seen, count>>
        /\ LockFree
    BY <1>5 DEF Mp!Enter, Mp!Goto
  <2>2. CountInv' /\ concurrent' \in Nat BY <1>1, <2>1, Counting DEF Places
  <2> QED BY <1>2, <2>1, <2>2, QuietStep DEF Places, Knowing
<1>6. CASE Mp!LoadClaimed(p)
  <2>1. /\ at' = [at EXCEPT ![p] = "look"] /\ at[p] = "load" /\ seen' = [seen EXCEPT ![p] = inPosMp]
        /\ UNCHANGED <<mpBuffer, mpInPos, inPosMp, mpOutPos, claims, popped, holding, mpSent, concurrent, count>>
    BY <1>6 DEF Mp!LoadClaimed, Mp!Goto
  <2>2. CountInv' /\ concurrent' \in Nat BY <1>1, <2>1, Counting DEF Places
  <2>3. LockFree BY <1>f, <2>1
  <2>4. seen'[p] = inPosMp /\ \A q \in Producers : q # p => seen'[q] = seen[q] BY <1>2, <2>1
  <2>5. seen' \in [Producers -> Mp!Positions] BY <1>2, <2>1
  <2>6. /\ Dist(mpInPos, mpOutPos) <= Dist(seen'[p], mpOutPos)
        /\ Dist(seen'[p], mpOutPos) <= Dist(inPosMp, mpOutPos)
    BY <1>2, <1>3, <1>4, <2>4
  <2>7. \A q \in Producers : at[q] = "publish" => Dist(seen[q], mpOutPos) <= Dist(seen'[p], mpOutPos)
    BY <1>a, <2>4
  <2> QED BY <1>2, <2>1, <2>2, <2>3, <2>4, <2>5, <2>6, <2>7, QuietStep DEF Places
<1>7. CASE Mp!Look(p)
  <2>1. PICK there \in {"end", "claim"} :
          /\ at' = [at EXCEPT ![p] = there] /\ at[p] = "look"
          /\ there = "claim" => Mp!After(seen[p]) # mpOutPos
    BY <1>7 DEF Mp!Look, Mp!Goto
  <2>2. UNCHANGED <<mpBuffer, mpInPos, inPosMp, mpOutPos, claims, popped, holding, mpSent, concurrent, seen, count>>
    BY <1>7 DEF Mp!Look
  <2>3. CountInv' /\ concurrent' \in Nat BY <1>1, <2>1, <2>2, Counting DEF Places
  <2>4. LockFree BY <1>f, <2>1
  <2>5. /\ Dist(mpInPos, mpOutPos) <= Dist(seen[p], mpOutPos)
        /\ Dist(seen[p], mpOutPos) <= Dist(inPosMp, mpOutPos)
    BY <1>1, <2>1 DEF SeenInv, Knowing
  <2>6. \A q \in Producers : q # p /\ at[q] = "publish" => Dist(seen[q], mpOutPos) <= Dist(seen[p], mpOutPos)
    BY <1>b, <2>1 DEF Knowing
  <2> QED BY <1>2, <2>1, <2>2, <2>3, <2>4, <2>5, <2>6, QuietStep DEF Places
<1>8. CASE Mp!Claim(p) /\ UNCHANGED inPosMp /\ at'[p] = "load"
  <2>1. /\ at' = [at EXCEPT ![p] = "load"] /\ at[p] = "claim"
        /\ UNCHANGED <<mpBuffer, mpInPos, inPosMp, mpOutPos, claims, popped, holding, mpSent, concurrent, seen, count>>
    BY <1>2, <1>8 DEF Mp!Claim, Mp!Goto
  <2>2. CountInv' /\ concurrent' \in Nat BY <1>1, <2>1, Counting DEF Places
  <2>3. LockFree BY <1>f, <2>1
  <2> QED BY <1>2, <2>1, <2>2, <2>3, QuietStep DEF Places, Knowing
<1>9. CASE Mp!LoadEnd(p)
  <2>1. /\ at' = [at EXCEPT ![p] = "count"] /\ at[p] = "end" /\ seen' = [seen EXCEPT ![p] = inPosMp]
        /\ UNCHANGED <<mpBuffer, mpInPos, inPosMp, mpOutPos, claims, popped, holding, mpSent, concurrent, count>>
        /\ LockFree
    BY <1>9 DEF Mp!LoadEnd, Mp!Goto
  <2>2. CountInv' /\ concurrent' \in Nat BY <1>1, <2>1, Counting DEF Places
  <2>4. seen'[p] = inPosMp /\ \A q \in Producers : q # p => seen'[q] = seen[q] BY <1>2, <2>1
  <2>5. seen' \in [Producers -> Mp!Positions] BY <1>2, <2>1
  <2>6. /\ Dist(mpInPos, mpOutPos) <= Dist(seen'[p], mpOutPos)
        /\ Dist(seen'[p], mpOutPos) <= Dist(inPosMp, mpOutPos)
    BY <1>2, <1>3, <1>4, <2>4
  <2>7. \A q \in Producers : at[q] = "publish" => Dist(seen[q], mpOutPos) <= Dist(seen'[p], mpOutPos)
    BY <1>a, <2>4
  <2> QED BY <1>2, <2>1, <2>2, <2>4, <2>5, <2>6, <2>7, QuietStep DEF Places
<1>10. CASE Mp!LoadCount(p)
  <2>1. PICK there \in {"publish", "leave"} :
          /\ at' = [at EXCEPT ![p] = there] /\ at[p] = "count"
          /\ there = "publish" => concurrent = 1
    BY <1>10 DEF Mp!LoadCount, Mp!Goto
  <2>2. /\ UNCHANGED <<mpBuffer, mpInPos, inPosMp, mpOutPos, claims, popped, holding, mpSent, concurrent, seen>>
        /\ count' \in [Producers -> Nat]
    BY <1>2, <1>10 DEF Mp!LoadCount
  <2>3. CountInv' /\ concurrent' \in Nat BY <1>1, <2>1, <2>2, Counting DEF Places
  <2>4. LockFree BY <1>f, <2>1
  <2>5. /\ Dist(mpInPos, mpOutPos) <= Dist(seen[p], mpOutPos)
        /\ Dist(seen[p], mpOutPos) <= Dist(inPosMp, mpOutPos)
    BY <1>1, <2>1 DEF SeenInv, Knowing
  <2>6. there = "publish" => \A q \in Producers : q # p => at[q] = "idle" BY <1>1, <2>1, AloneInside
  <2>7. \A q \in Producers : q # p /\ at[q] = "publish" => Dist(seen[q], mpOutPos) <= Dist(seen[p], mpOutPos)
    BY <1>b, <2>1 DEF Knowing
  <2>8. there = "publish" => \A q \in Producers : q # p => at[q] \notin Knowing BY <2>6 DEF Knowing
  <2>9. \A q \in Producers : q # p /\ at[q] = "publish" => there # "publish" BY <2>6
  <2> QED BY <1>2, <2>1, <2>2, <2>3, <2>4, <2>5, <2>7, <2>8, <2>9, QuietStep DEF Places
<1>11. CASE Mp!Leave(p)
  <2>1. PICK there \in {"idle", "end"} :
          /\ at' = [at EXCEPT ![p] = there] /\ at[p] = "leave"
          /\ concurrent' = (IF there = "idle" THEN concurrent - 1 ELSE concurrent)
    BY <1>11 DEF Mp!Leave, Mp!Goto
  <2>2. UNCHANGED <<mpBuffer, mpInPos, inPosMp, mpOutPos, claims, popped, holding, mpSent, seen, count>>
    BY <1>11 DEF Mp!Leave
  <2>3. CountInv' /\ concurrent' \in Nat BY <1>1, <2>1, <2>2, Counting DEF Places
  <2>4. LockFree BY <1>f, <2>1
  <2> QED BY <1>2, <2>1, <2>2, <2>3, <2>4, QuietStep DEF Places, Knowing
<1> QED BY <1>5, <1>6, <1>7, <1>8, <1>9, <1>10, <1>11

\* No more is popped than was claimed, and all of it was readable.
LEMMA PoppedLength ==
  ASSUME Mp!QueueConstants, MpInv
  PROVE  Len(popped) <= Len(claims) /\ Len(popped) <= Done + Dist(mpInPos, mpOutPos)
<1>1. Done = Len(popped) - (IF holding THEN 1 ELSE 0) BY DEF Done
<1>2. /\ Done + Dist(inPosMp, mpOutPos) = Len(claims)
      /\ Dist(mpInPos, mpOutPos) <= Dist(inPosMp, mpOutPos)
      /\ holding => 1 <= Dist(mpInPos, mpOutPos)
  BY DEF MpInv, OrderInv
<1>3. mpInPos \in Mp!Positions /\ inPosMp \in Mp!Positions BY DEF MpInv, MpTypes
<1>4. Dist(mpInPos, mpOutPos) \in Nat /\ Dist(inPosMp, mpOutPos) \in Nat /\ Done \in Nat
      /\ Len(popped) \in Nat /\ Len(claims) \in Nat
  BY <1>3, MpFacts
<1> QED BY <1>1, <1>2, <1>4

\* A claim, on either board: the slot that ends what is claimed is taken.
LEMMA Claiming ==
  ASSUME Mp!QueueConstants, MpInv, NEW p \in Producers, Mp!After(inPosMp) # mpOutPos,
         at[p] # "write", at' = [at EXCEPT ![p] = "write"],
         seen' = [seen EXCEPT ![p] = inPosMp], inPosMp' = Mp!After(inPosMp),
         claims' = Append(claims, <<p, mpSent[p]>>), mpSent' = [mpSent EXCEPT ![p] = @ + 1],
         UNCHANGED <<mpBuffer, mpInPos, mpOutPos, count, popped, holding>>,
         CountInv', concurrent' \in Nat
  PROVE  MpInv'
<1>1. MpTypes /\ OrderInv /\ SeenInv /\ RoomInv /\ WriteInv /\ PublishInv /\ SlotInv /\ PoppedInv
  BY DEF MpInv
<1>2. /\ at \in [Producers -> Places] /\ seen \in [Producers -> Mp!Positions]
      /\ mpSent \in [Producers -> Nat] /\ claims \in Seq(Slotted)
      /\ inPosMp \in Mp!Positions /\ mpInPos \in Mp!Positions /\ mpOutPos \in Mp!Positions
  BY <1>1 DEF MpTypes
<1>3. /\ at'[p] = "write" /\ seen'[p] = inPosMp /\ mpSent'[p] = mpSent[p] + 1
      /\ \A q \in Producers : q # p => at'[q] = at[q] /\ seen'[q] = seen[q] /\ mpSent'[q] = mpSent[q]
  BY <1>2
<1>4. Done' = Done /\ Done \in Nat BY MpFacts DEF Done
<1>5. \A x \in Mp!Positions : Dist(x, mpOutPos) \in Nat BY MpFacts
<1>6. Dist(inPosMp', mpOutPos) = Dist(inPosMp, mpOutPos) + 1 BY <1>2, DistFacts
<1>7. <<p, mpSent[p]>> \in Slotted BY <1>2 DEF Slotted
<1>8. /\ claims' \in Seq(Slotted) /\ Len(claims') = Len(claims) + 1 /\ Len(claims) \in Nat
      /\ claims'[Len(claims) + 1] = <<p, mpSent[p]>>
      /\ \A i \in 1..Len(claims) : claims'[i] = claims[i]
  BY <1>2, <1>7, AppendProperties, LenProperties
<1>9. Done + Dist(inPosMp, mpOutPos) = Len(claims) BY <1>1 DEF OrderInv
<1>10. inPosMp' \in Mp!Positions BY <1>2, MpFacts
<1>11. MpTypes' BY <1>1, <1>2, <1>8, <1>10 DEF MpTypes, Places
<1>12. OrderInv'
  BY <1>1, <1>2, <1>4, <1>5, <1>6, <1>8, <1>9 DEF OrderInv
<1>13. \A q \in Producers : q # p /\ at[q] \in Knowing => Dist(seen[q], mpOutPos) <= Dist(inPosMp, mpOutPos)
  BY <1>1 DEF SeenInv
<1>14. SeenInv'
  <2> SUFFICES ASSUME NEW q \in Producers, at'[q] \in Knowing
               PROVE  /\ Dist(mpInPos, mpOutPos) <= Dist(seen'[q], mpOutPos)
                      /\ Dist(seen'[q], mpOutPos) <= Dist(inPosMp', mpOutPos)
    BY DEF SeenInv
  <2>1. CASE q = p BY <1>1, <1>2, <1>3, <1>5, <1>6, <2>1 DEF OrderInv
  <2>2. CASE q # p
    <3>1. /\ Dist(mpInPos, mpOutPos) <= Dist(seen[q], mpOutPos)
          /\ Dist(seen[q], mpOutPos) <= Dist(inPosMp, mpOutPos)
      BY <1>1, <1>3, <2>2 DEF SeenInv
    <3> QED BY <1>2, <1>3, <1>5, <1>6, <2>2, <3>1
  <2> QED BY <2>1, <2>2
<1>15. RoomInv'
  <2> SUFFICES ASSUME NEW q \in Producers, at'[q] = "claim", seen'[q] = inPosMp' PROVE FALSE
    BY DEF RoomInv
  <2>1. q # p /\ at[q] = "claim" /\ seen[q] = inPosMp' BY <1>3
  <2>2. Dist(inPosMp', mpOutPos) <= Dist(inPosMp, mpOutPos) BY <1>13, <2>1 DEF Knowing
  <2> QED BY <1>2, <1>5, <1>6, <2>2
<1>16. WriteInv'
  <2> SUFFICES ASSUME NEW q \in Producers, at'[q] = "write"
               PROVE  /\ Dist(seen'[q], mpOutPos) < Dist(inPosMp', mpOutPos)
                      /\ claims'[Done + Dist(seen'[q], mpOutPos) + 1] = <<q, mpSent'[q] - 1>>
    BY <1>4 DEF WriteInv
  <2>1. CASE q = p
    <3>1. mpSent'[p] - 1 = mpSent[p] BY <1>2, <1>3
    <3> QED BY <1>2, <1>3, <1>5, <1>6, <1>8, <1>9, <2>1, <3>1
  <2>2. CASE q # p
    <3>1. /\ Dist(seen[q], mpOutPos) < Dist(inPosMp, mpOutPos)
          /\ claims[Done + Dist(seen[q], mpOutPos) + 1] = <<q, mpSent[q] - 1>>
      BY <1>1, <1>3, <2>2 DEF WriteInv
    <3>2. Dist(seen[q], mpOutPos) \in Nat /\ Dist(inPosMp, mpOutPos) \in Nat BY <1>2, <1>5
    <3>3. Done + Dist(seen[q], mpOutPos) + 1 \in 1..Len(claims) BY <1>4, <1>9, <3>1, <3>2
    <3> QED BY <1>3, <1>6, <1>8, <2>2, <3>1, <3>2, <3>3
  <2> QED BY <2>1, <2>2
<1>17. PublishInv'
  <2> SUFFICES ASSUME NEW q \in Producers, at'[q] = "publish",
                      NEW r \in Producers, r # q, at'[r] \in Knowing
               PROVE  at'[r] # "publish" /\ Dist(seen'[q], mpOutPos) <= Dist(seen'[r], mpOutPos)
    BY DEF PublishInv
  <2>1. q # p /\ at[q] = "publish" /\ seen'[q] = seen[q] BY <1>3
  <2>2. CASE r = p
    BY <1>3, <1>13, <2>1, <2>2 DEF Knowing
  <2>3. CASE r # p BY <1>1, <1>3, <2>1, <2>3 DEF PublishInv
  <2> QED BY <2>2, <2>3
<1>18. SlotInv'
  <2> SUFFICES ASSUME NEW x \in Mp!Positions, Dist(x, mpOutPos) < Dist(inPosMp', mpOutPos)
               PROVE  \/ mpBuffer[x] = claims'[Done + Dist(x, mpOutPos) + 1]
                      \/ \E q \in Producers : at'[q] = "write" /\ seen'[q] = x
    BY <1>4 DEF SlotInv
  <2>1. CASE Dist(x, mpOutPos) = Dist(inPosMp, mpOutPos)
    <3>1. x = inPosMp BY <1>2, <2>1, DistFacts
    <3> QED BY <1>3, <3>1
  <2>2. CASE Dist(x, mpOutPos) # Dist(inPosMp, mpOutPos)
    <3>1. Dist(x, mpOutPos) \in Nat /\ Dist(inPosMp, mpOutPos) \in Nat BY <1>2, <1>5
    <3>2. Dist(x, mpOutPos) < Dist(inPosMp, mpOutPos) BY <1>6, <2>2, <3>1
    <3>3. Done + Dist(x, mpOutPos) + 1 \in 1..Len(claims) BY <1>4, <1>9, <3>1, <3>2
    <3>4. CASE mpBuffer[x] = claims[Done + Dist(x, mpOutPos) + 1] BY <1>8, <3>3, <3>4
    <3>5. CASE \E q \in Producers : at[q] = "write" /\ seen[q] = x BY <1>3, <3>5
    <3> QED BY <1>1, <3>2, <3>4, <3>5 DEF SlotInv
  <2> QED BY <2>1, <2>2
<1>19. PoppedInv'
  <2>1. Len(popped) \in Nat /\ Len(popped) <= Len(claims) BY MpFacts, PoppedLength
  <2> QED BY <1>1, <1>8, <2>1 DEF PoppedInv
<1> QED BY <1>11, <1>12, <1>14, <1>15, <1>16, <1>17, <1>18, <1>19 DEF MpInv

\* A message is copied to the slot of its claim.
LEMMA WriteStep ==
  ASSUME Mp!QueueConstants, MpInv, NEW p \in Producers, Mp!Write(p)
  PROVE  MpInv'
<1>1. MpTypes /\ OrderInv /\ SeenInv /\ RoomInv /\ WriteInv /\ PublishInv /\ SlotInv /\ PoppedInv /\ CountInv
  BY DEF MpInv
<1>2. /\ at \in [Producers -> Places] /\ seen \in [Producers -> Mp!Positions]
      /\ mpBuffer \in [Mp!Positions -> Slotted] /\ mpSent \in [Producers -> Nat] /\ mpOutPos \in Mp!Positions
  BY <1>1 DEF MpTypes
<1>3. /\ at[p] = "write" /\ at' = [at EXCEPT ![p] = "end"]
      /\ mpBuffer' = [mpBuffer EXCEPT ![seen[p]] = <<p, mpSent[p] - 1>>]
      /\ UNCHANGED <<mpInPos, inPosMp, mpOutPos, concurrent, seen, count, mpSent, claims, popped, holding>>
  BY DEF Mp!Write, Mp!Goto
<1>4. at'[p] = "end" /\ \A q \in Producers : q # p => at'[q] = at[q] BY <1>2, <1>3
<1>5. Done' = Done BY <1>3 DEF Done
<1>6. CountInv' BY <1>1, <1>3, Counting DEF Places
<1>7. /\ Dist(seen[p], mpOutPos) < Dist(inPosMp, mpOutPos)
      /\ claims[Done + Dist(seen[p], mpOutPos) + 1] = <<p, mpSent[p] - 1>>
  BY <1>1, <1>3 DEF WriteInv
<1>8. <<p, mpSent[p] - 1>> \in Slotted
  <2>1. Done + Dist(seen[p], mpOutPos) + 1 \in 1..Len(claims)
    <3>1. /\ Done \in Nat /\ Dist(seen[p], mpOutPos) \in Nat /\ Dist(inPosMp, mpOutPos) \in Nat
          /\ Len(claims) \in Nat /\ Done + Dist(inPosMp, mpOutPos) = Len(claims)
      BY <1>1, <1>2, MpFacts DEF MpTypes, OrderInv
    <3> QED BY <1>7, <3>1
  <2>2. claims \in Seq(Slotted) BY <1>1 DEF MpTypes
  <2> QED BY <1>7, <2>1, <2>2, ElementOfSeq
<1>9. MpTypes' BY <1>1, <1>2, <1>3, <1>8 DEF MpTypes, Places
<1>10. OrderInv' BY <1>1, <1>3, <1>5 DEF OrderInv
<1>11. SeenInv' BY <1>1, <1>3, <1>4 DEF SeenInv, Knowing
<1>12. RoomInv' BY <1>1, <1>3, <1>4 DEF RoomInv
<1>13. WriteInv' BY <1>1, <1>3, <1>4, <1>5 DEF WriteInv
<1>14. PublishInv' BY <1>1, <1>3, <1>4 DEF PublishInv, Knowing
<1>15. SlotInv'
  <2> SUFFICES ASSUME NEW x \in Mp!Positions, Dist(x, mpOutPos) < Dist(inPosMp, mpOutPos)
               PROVE  \/ mpBuffer'[x] = claims[Done + Dist(x, mpOutPos) + 1]
                      \/ \E q \in Producers : at'[q] = "write" /\ seen[q] = x
    BY <1>3, <1>5 DEF SlotInv
  <2>1. CASE x = seen[p] BY <1>2, <1>3, <1>7, <2>1
  <2>2. CASE x # seen[p] BY <1>1, <1>2, <1>3, <1>4, <2>2 DEF SlotInv
  <2> QED BY <2>1, <2>2
<1>16. PoppedInv' BY <1>1, <1>3 DEF PoppedInv
<1> QED BY <1>6, <1>9, <1>10, <1>11, <1>12, <1>13, <1>14, <1>15, <1>16 DEF MpInv

\* The end of a push, on either board: what is readable grows up to the
\* positions the other pushes work with, and not further.
LEMMA Publishing ==
  ASSUME Mp!QueueConstants, MpInv, NEW p \in Producers, NEW there \in {"leave", "idle"},
         at[p] # "write", at' = [at EXCEPT ![p] = there],
         mpInPos' \in Mp!Positions, Dist(mpInPos, mpOutPos) <= Dist(mpInPos', mpOutPos),
         Dist(mpInPos', mpOutPos) <= Dist(inPosMp, mpOutPos),
         \A q \in Producers : q # p /\ at[q] \in Knowing => Dist(mpInPos', mpOutPos) <= Dist(seen[q], mpOutPos),
         UNCHANGED <<mpBuffer, inPosMp, mpOutPos, seen, count, mpSent, claims, popped, holding>>,
         CountInv', concurrent' \in Nat, LockFree \/ there = "idle"
  PROVE  MpInv'
<1>1. MpTypes /\ OrderInv /\ SeenInv /\ RoomInv /\ WriteInv /\ PublishInv /\ SlotInv /\ PoppedInv
  BY DEF MpInv
<1>2. at \in [Producers -> Places] /\ mpInPos \in Mp!Positions BY <1>1 DEF MpTypes
<1>3. at'[p] = there /\ \A q \in Producers : q # p => at'[q] = at[q] BY <1>2
<1>4. Done' = Done BY DEF Done
<1>5. MpTypes' BY <1>1, <1>2 DEF MpTypes, Places
<1>6. Dist(mpInPos', mpOutPos) \in Int /\ Dist(mpInPos, mpOutPos) \in Int BY <1>2, MpFacts
<1>7. OrderInv' BY <1>1, <1>4, <1>6 DEF OrderInv
<1>8. \A q \in Producers : at'[q] \in Knowing => q # p /\ at'[q] = at[q] BY <1>3 DEF Knowing
<1>9. SeenInv' BY <1>1, <1>8 DEF SeenInv
<1>10. RoomInv' BY <1>1, <1>8 DEF RoomInv, Knowing
<1>11. WriteInv' BY <1>1, <1>4, <1>8 DEF WriteInv, Knowing
<1>12. PublishInv'
  <2>1. \A q \in Producers : at'[q] = "publish" => at[q] = "publish" BY <1>8 DEF Knowing
  <2> QED BY <1>1, <1>8, <2>1 DEF PublishInv
<1>13. SlotInv'
  <2>1. \A q \in Producers : at[q] = "write" => at'[q] = "write" BY <1>3
  <2> QED BY <1>1, <1>4, <2>1 DEF SlotInv
<1>14. PoppedInv' BY <1>1 DEF PoppedInv
<1> QED BY <1>5, <1>7, <1>9, <1>10, <1>11, <1>12, <1>13, <1>14 DEF MpInv

\* The position published was loaded before the others loaded theirs.
LEMMA PublishStep ==
  ASSUME Mp!QueueConstants, MpInv, NEW p \in Producers, Mp!Publish(p)
  PROVE  MpInv'
<1>1. MpTypes /\ SeenInv /\ PublishInv /\ CountInv BY DEF MpInv
<1>2. /\ at[p] = "publish" /\ at' = [at EXCEPT ![p] = "leave"] /\ mpInPos' = seen[p]
      /\ UNCHANGED <<mpBuffer, inPosMp, mpOutPos, concurrent, seen, count, mpSent, claims, popped, holding>>
  BY DEF Mp!Publish, Mp!Goto
<1>3. CountInv' /\ concurrent' \in Nat BY <1>1, <1>2, Counting DEF Places
<1>4. mpInPos' \in Mp!Positions BY <1>1, <1>2 DEF MpTypes
<1>5. /\ Dist(mpInPos, mpOutPos) <= Dist(mpInPos', mpOutPos)
      /\ Dist(mpInPos', mpOutPos) <= Dist(inPosMp, mpOutPos)
  BY <1>1, <1>2 DEF SeenInv, Knowing
<1>6. \A q \in Producers : q # p /\ at[q] \in Knowing => Dist(mpInPos', mpOutPos) <= Dist(seen[q], mpOutPos)
  BY <1>1, <1>2 DEF PublishInv
<1>7. LockFree BY <1>1, <1>2 DEF MpTypes
<1> QED BY <1>2, <1>3, <1>4, <1>5, <1>6, <1>7, Publishing

\* On the other boards the last one to leave makes all that is claimed readable.
LEMMA EndLockedStep ==
  ASSUME Mp!QueueConstants, MpInv, NEW p \in Producers, Mp!EndLocked(p)
  PROVE  MpInv'
<1>1. MpTypes /\ OrderInv /\ SeenInv /\ CountInv BY DEF MpInv
<1>2. /\ at[p] = "end" /\ at' = [at EXCEPT ![p] = "idle"]
      /\ mpInPos' = (IF concurrent = 1 THEN inPosMp ELSE mpInPos) /\ concurrent' = concurrent - 1
      /\ UNCHANGED <<mpBuffer, inPosMp, mpOutPos, seen, count, mpSent, claims, popped, holding>>
  BY DEF Mp!EndLocked, Mp!Goto
<1>3. CountInv' /\ concurrent' \in Nat BY <1>1, <1>2, Counting DEF Places
<1>4. mpInPos \in Mp!Positions /\ inPosMp \in Mp!Positions BY <1>1 DEF MpTypes
<1>5. Dist(mpInPos, mpOutPos) \in Int /\ Dist(inPosMp, mpOutPos) \in Int BY <1>4, MpFacts
<1>6. Dist(mpInPos, mpOutPos) <= Dist(inPosMp, mpOutPos) BY <1>1 DEF OrderInv
<1>7. mpInPos' \in Mp!Positions /\ Dist(mpInPos, mpOutPos) <= Dist(mpInPos', mpOutPos)
      /\ Dist(mpInPos', mpOutPos) <= Dist(inPosMp, mpOutPos)
  BY <1>2, <1>4, <1>5, <1>6
<1>8. \A q \in Producers : q # p /\ at[q] \in Knowing => Dist(mpInPos', mpOutPos) <= Dist(seen[q], mpOutPos)
  <2>1. CASE concurrent = 1
    <3>1. \A q \in Producers : q # p => at[q] = "idle" BY <1>1, <1>2, <2>1, AloneInside
    <3> QED BY <3>1 DEF Knowing
  <2>2. CASE concurrent # 1 BY <1>1, <1>2, <2>2 DEF SeenInv
  <2> QED BY <2>1, <2>2
<1> QED BY <1>2, <1>3, <1>7, <1>8, Publishing

\* The oldest readable slot holds the message that is due.
LEMMA PopReadStep ==
  ASSUME Mp!QueueConstants, MpInv, Mp!PopRead
  PROVE  MpInv'
<1>1. MpTypes /\ OrderInv /\ SeenInv /\ RoomInv /\ WriteInv /\ PublishInv /\ SlotInv /\ PoppedInv /\ CountInv
  BY DEF MpInv
<1>2. /\ ~holding /\ mpInPos # mpOutPos /\ popped' = Append(popped, mpBuffer[mpOutPos]) /\ holding' = TRUE
      /\ UNCHANGED <<mpBuffer, mpInPos, inPosMp, mpOutPos, concurrent, at, seen, count, mpSent, claims>>
  BY DEF Mp!PopRead
<1>3. mpBuffer[mpOutPos] \in Slotted /\ popped \in Seq(Slotted) BY <1>1 DEF MpTypes
<1>4. /\ popped' \in Seq(Slotted) /\ Len(popped') = Len(popped) + 1 /\ Len(popped) \in Nat
      /\ popped'[Len(popped) + 1] = mpBuffer[mpOutPos]
      /\ \A i \in 1..Len(popped) : popped'[i] = popped[i]
  BY <1>2, <1>3, AppendProperties, LenProperties
<1>5. Done = Len(popped) /\ Done' = Done BY <1>2, <1>4 DEF Done
<1>6. mpInPos \in Mp!Positions /\ mpOutPos \in Mp!Positions /\ inPosMp \in Mp!Positions BY <1>1 DEF MpTypes
<1>7. Dist(mpOutPos, mpOutPos) = 0 BY <1>6, DistFacts
<1>8. Dist(mpInPos, mpOutPos) # 0 BY <1>2, <1>6, <1>7, DistFacts
<1>9. Dist(mpInPos, mpOutPos) \in Nat /\ Dist(inPosMp, mpOutPos) \in Nat BY <1>6, MpFacts
<1>10. 1 <= Dist(mpInPos, mpOutPos) /\ 1 <= Dist(inPosMp, mpOutPos) BY <1>1, <1>8, <1>9 DEF OrderInv
<1>11. mpBuffer[mpOutPos] = claims[Len(popped) + 1]
  <2>1. \A q \in Producers : at[q] = "write" => seen[q] # mpOutPos
    <3> SUFFICES ASSUME NEW q \in Producers, at[q] = "write", seen[q] = mpOutPos PROVE FALSE
      OBVIOUS
    <3>1. Dist(mpInPos, mpOutPos) <= Dist(seen[q], mpOutPos) BY <1>1 DEF SeenInv, Knowing
    <3> QED BY <1>7, <1>9, <1>10, <3>1
  <2>2. Dist(mpOutPos, mpOutPos) < Dist(inPosMp, mpOutPos) BY <1>7, <1>9, <1>10
  <2>3. mpBuffer[mpOutPos] = claims[Done + Dist(mpOutPos, mpOutPos) + 1] BY <1>1, <1>6, <2>1, <2>2 DEF SlotInv
  <2>4. Done + Dist(mpOutPos, mpOutPos) + 1 = Len(popped) + 1 BY <1>4, <1>5, <1>7
  <2> QED BY <2>3, <2>4
<1>12. PoppedInv' BY <1>1, <1>2, <1>4, <1>11 DEF PoppedInv
<1>13. MpTypes' BY <1>1, <1>2, <1>4 DEF MpTypes
<1>14. OrderInv' BY <1>1, <1>2, <1>5, <1>10 DEF OrderInv
<1>15. SeenInv' /\ RoomInv' /\ PublishInv' BY <1>1, <1>2 DEF SeenInv, RoomInv, PublishInv
<1>16. WriteInv' BY <1>1, <1>2, <1>5 DEF WriteInv
<1>17. SlotInv' BY <1>1, <1>2, <1>5 DEF SlotInv
<1>18. CountInv' BY <1>1, <1>2 DEF CountInv, Mp!Inside
<1> QED BY <1>12, <1>13, <1>14, <1>15, <1>16, <1>17, <1>18 DEF MpInv

\* The consumer goes on by one slot, and every position is one less ahead of it.
LEMMA PopStoreStep ==
  ASSUME Mp!QueueConstants, MpInv, Mp!PopStore
  PROVE  MpInv'
<1>1. MpTypes /\ OrderInv /\ SeenInv /\ RoomInv /\ WriteInv /\ PublishInv /\ SlotInv /\ PoppedInv /\ CountInv
  BY DEF MpInv
<1>2. /\ holding /\ holding' = FALSE /\ mpOutPos' = Mp!After(mpOutPos)
      /\ UNCHANGED <<mpBuffer, mpInPos, inPosMp, concurrent, at, seen, count, mpSent, claims, popped>>
  BY DEF Mp!PopStore
<1>3. /\ mpInPos \in Mp!Positions /\ mpOutPos \in Mp!Positions /\ inPosMp \in Mp!Positions
      /\ seen \in [Producers -> Mp!Positions]
  BY <1>1 DEF MpTypes
<1>4. Done' = Done + 1 /\ Done \in Nat
  <2>1. Done \in Nat /\ Len(popped) \in Nat BY MpFacts
  <2> QED BY <1>2, <2>1 DEF Done
<1>5. \A x \in Mp!Positions : Dist(x, mpOutPos) \in 0..(BufSize - 1) BY MpFacts
<1>6. \A x \in Mp!Positions : 1 <= Dist(x, mpOutPos) => Dist(x, mpOutPos') = Dist(x, mpOutPos) - 1
  BY <1>2, <1>3, DistFacts
<1>7. 1 <= Dist(mpInPos, mpOutPos) /\ Dist(mpInPos, mpOutPos) <= Dist(inPosMp, mpOutPos)
  BY <1>1, <1>2 DEF OrderInv
<1>8. 1 <= Dist(inPosMp, mpOutPos) BY <1>3, <1>5, <1>7
<1>9. /\ Dist(mpInPos, mpOutPos') = Dist(mpInPos, mpOutPos) - 1
      /\ Dist(inPosMp, mpOutPos') = Dist(inPosMp, mpOutPos) - 1
  BY <1>3, <1>6, <1>7, <1>8
<1>10. \A q \in Producers : at[q] \in Knowing =>
          /\ Dist(mpInPos, mpOutPos) <= Dist(seen[q], mpOutPos)
          /\ Dist(seen[q], mpOutPos) <= Dist(inPosMp, mpOutPos)
          /\ 1 <= Dist(seen[q], mpOutPos) /\ seen[q] \in Mp!Positions
          /\ Dist(seen[q], mpOutPos') = Dist(seen[q], mpOutPos) - 1
  <2> SUFFICES ASSUME NEW q \in Producers, at[q] \in Knowing
               PROVE  /\ Dist(mpInPos, mpOutPos) <= Dist(seen[q], mpOutPos)
                      /\ Dist(seen[q], mpOutPos) <= Dist(inPosMp, mpOutPos)
                      /\ 1 <= Dist(seen[q], mpOutPos) /\ seen[q] \in Mp!Positions
                      /\ Dist(seen[q], mpOutPos') = Dist(seen[q], mpOutPos) - 1
    OBVIOUS
  <2>1. /\ Dist(mpInPos, mpOutPos) <= Dist(seen[q], mpOutPos)
        /\ Dist(seen[q], mpOutPos) <= Dist(inPosMp, mpOutPos)
    BY <1>1 DEF SeenInv
  <2>2. seen[q] \in Mp!Positions BY <1>3
  <2>3. 1 <= Dist(seen[q], mpOutPos) BY <1>3, <1>5, <1>7, <2>1, <2>2
  <2> QED BY <1>6, <2>1, <2>2, <2>3
<1>11. mpOutPos' \in Mp!Positions BY <1>2, <1>3, MpFacts
<1>12. MpTypes' BY <1>1, <1>2, <1>11 DEF MpTypes
<1>13. OrderInv' BY <1>1, <1>2, <1>3, <1>4, <1>5, <1>9 DEF OrderInv
<1>14. SeenInv'
  <2> SUFFICES ASSUME NEW q \in Producers, at[q] \in Knowing
               PROVE  /\ Dist(mpInPos, mpOutPos') <= Dist(seen[q], mpOutPos')
                      /\ Dist(seen[q], mpOutPos') <= Dist(inPosMp, mpOutPos')
    BY <1>2 DEF SeenInv
  <2>1. Dist(seen[q], mpOutPos) \in Int /\ Dist(mpInPos, mpOutPos) \in Int /\ Dist(inPosMp, mpOutPos) \in Int
    BY <1>3, <1>5
  <2> QED BY <1>9, <1>10, <2>1
<1>15. RoomInv'
  <2> SUFFICES ASSUME NEW q \in Producers, at[q] = "claim", Mp!After(seen[q]) = Mp!After(mpOutPos) PROVE FALSE
    BY <1>2 DEF RoomInv
  <2>1. 1 <= Dist(seen[q], mpOutPos) /\ seen[q] \in Mp!Positions BY <1>10 DEF Knowing
  <2>2. Dist(mpOutPos, mpOutPos) = 0 BY <1>3, DistFacts
  <2>3. seen[q] # mpOutPos BY <2>1, <2>2
  <2> QED BY <1>3, <2>1, <2>3, AfterApart
<1>16. WriteInv'
  <2> SUFFICES ASSUME NEW q \in Producers, at[q] = "write"
               PROVE  /\ Dist(seen[q], mpOutPos') < Dist(inPosMp, mpOutPos')
                      /\ claims[Done' + Dist(seen[q], mpOutPos') + 1] = <<q, mpSent[q] - 1>>
    BY <1>2 DEF WriteInv
  <2>1. /\ Dist(seen[q], mpOutPos) < Dist(inPosMp, mpOutPos)
        /\ claims[Done + Dist(seen[q], mpOutPos) + 1] = <<q, mpSent[q] - 1>>
    BY <1>1 DEF WriteInv
  <2>2. Dist(seen[q], mpOutPos') = Dist(seen[q], mpOutPos) - 1 BY <1>10 DEF Knowing
  <2>3. Dist(seen[q], mpOutPos) \in Int /\ Dist(inPosMp, mpOutPos) \in Int BY <1>3, <1>5
  <2>4. Done' + Dist(seen[q], mpOutPos') + 1 = Done + Dist(seen[q], mpOutPos) + 1 BY <1>4, <2>2, <2>3
  <2> QED BY <1>9, <2>1, <2>2, <2>3, <2>4
<1>17. PublishInv'
  <2> SUFFICES ASSUME NEW q \in Producers, at[q] = "publish",
                      NEW r \in Producers, r # q, at[r] \in Knowing
               PROVE  at[r] # "publish" /\ Dist(seen[q], mpOutPos') <= Dist(seen[r], mpOutPos')
    BY <1>2 DEF PublishInv
  <2>1. at[r] # "publish" /\ Dist(seen[q], mpOutPos) <= Dist(seen[r], mpOutPos) BY <1>1 DEF PublishInv
  <2>2. /\ Dist(seen[q], mpOutPos') = Dist(seen[q], mpOutPos) - 1
        /\ Dist(seen[r], mpOutPos') = Dist(seen[r], mpOutPos) - 1
    BY <1>10 DEF Knowing
  <2>3. Dist(seen[q], mpOutPos) \in Int /\ Dist(seen[r], mpOutPos) \in Int BY <1>3, <1>5
  <2> QED BY <2>1, <2>2, <2>3
<1>18. SlotInv'
  <2> SUFFICES ASSUME NEW x \in Mp!Positions, Dist(x, mpOutPos') < Dist(inPosMp, mpOutPos')
               PROVE  \/ mpBuffer[x] = claims[Done' + Dist(x, mpOutPos') + 1]
                      \/ \E q \in Producers : at[q] = "write" /\ seen[q] = x
    BY <1>2 DEF SlotInv
  <2>1. Dist(x, mpOutPos) \in 0..(BufSize - 1) /\ Dist(inPosMp, mpOutPos) \in 0..(BufSize - 1)
        /\ BufSize \in Nat
    BY <1>3, <1>5, MpFacts
  <2>2. Dist(mpOutPos, mpOutPos') = BufSize - 1 /\ Dist(mpOutPos, mpOutPos) = 0 BY <1>2, <1>3, DistFacts
  <2>3. x # mpOutPos BY <1>9, <2>1, <2>2
  <2>4. Dist(x, mpOutPos) # 0 BY <1>3, <2>2, <2>3, DistFacts
  <2>5. 1 <= Dist(x, mpOutPos) BY <2>1, <2>4
  <2>6. Dist(x, mpOutPos') = Dist(x, mpOutPos) - 1 BY <1>6, <2>5
  <2>7. Dist(x, mpOutPos) < Dist(inPosMp, mpOutPos) BY <1>9, <2>1, <2>6
  <2>8. Done' + Dist(x, mpOutPos') + 1 = Done + Dist(x, mpOutPos) + 1 BY <1>4, <2>1, <2>6
  <2> QED BY <1>1, <2>7, <2>8 DEF SlotInv
<1>19. PoppedInv' BY <1>1, <1>2 DEF PoppedInv
<1>20. CountInv' BY <1>1, <1>2 DEF CountInv, Mp!Inside
<1> QED BY <1>12, <1>13, <1>14, <1>15, <1>16, <1>17, <1>18, <1>19, <1>20 DEF MpInv

\* Every step keeps the invariant.
LEMMA MpStep ==
  ASSUME Mp!QueueConstants, MpInv, [Mp!Next]_(Mp!vars)
  PROVE  MpInv'
<1>1. MpTypes /\ CountInv /\ RoomInv BY DEF MpInv
<1>2. CASE UNCHANGED Mp!vars
  BY <1>2 DEF Mp!vars, MpInv, MpTypes, OrderInv, SeenInv, RoomInv, WriteInv, PublishInv, SlotInv,
              PoppedInv, CountInv, Mp!Inside, Done
<1>3. ASSUME NEW p \in Producers, Mp!Claim(p) PROVE MpInv'
  <2>1. CASE at'[p] = "load" /\ UNCHANGED inPosMp BY <2>1, <1>3, QuietSteps
  <2>2. CASE ~(at'[p] = "load" /\ UNCHANGED inPosMp)
    <3>1. /\ inPosMp = seen[p] /\ at[p] = "claim" /\ at' = [at EXCEPT ![p] = "write"]
          /\ inPosMp' = Mp!After(seen[p])
          /\ claims' = Append(claims, <<p, mpSent[p]>>)
          /\ mpSent' = [mpSent EXCEPT ![p] = @ + 1]
      <4>1. Mp!Goto(p, "claim", "load") => at'[p] = "load" BY <1>1 DEF Mp!Goto, MpTypes
      <4> QED BY <1>3, <2>2, <4>1 DEF Mp!Claim, Mp!Goto
    <3>2. UNCHANGED <<mpBuffer, mpInPos, mpOutPos, concurrent, seen, count, popped, holding>>
      BY <1>3 DEF Mp!Claim
    <3>3. Mp!After(inPosMp) # mpOutPos BY <1>1, <3>1 DEF RoomInv
    <3>4. seen' = [seen EXCEPT ![p] = inPosMp] BY <1>1, <3>1, <3>2 DEF MpTypes
    <3>5. CountInv' /\ concurrent' \in Nat BY <1>1, <3>1, <3>2, Counting DEF Places
    <3> QED BY <3>1, <3>2, <3>3, <3>4, <3>5, Claiming
  <2> QED BY <2>1, <2>2
<1>4. ASSUME NEW p \in Producers, Mp!ClaimLocked(p) PROVE MpInv'
  <2>1. /\ Mp!After(inPosMp) # mpOutPos /\ at[p] = "idle" /\ at' = [at EXCEPT ![p] = "write"]
        /\ seen' = [seen EXCEPT ![p] = inPosMp] /\ inPosMp' = Mp!After(inPosMp)
        /\ claims' = Append(claims, <<p, mpSent[p]>>) /\ mpSent' = [mpSent EXCEPT ![p] = @ + 1]
        /\ concurrent' = concurrent + 1
        /\ UNCHANGED <<mpBuffer, mpInPos, mpOutPos, count, popped, holding>>
    BY <1>4 DEF Mp!ClaimLocked, Mp!Goto
  <2>2. CountInv' /\ concurrent' \in Nat BY <1>1, <2>1, Counting DEF Places
  <2> QED BY <2>1, <2>2, Claiming
<1>5. CASE \E p \in Producers : Mp!Push(p)
  BY <1>3, <1>4, <1>5, QuietSteps, WriteStep, PublishStep, EndLockedStep DEF Mp!Push
<1>6. CASE Mp!Pop BY <1>6, PopReadStep, PopStoreStep DEF Mp!Pop
<1> QED BY <1>2, <1>5, <1>6 DEF Mp!Next

\* The invariant, on every board and for any number of producers and slots.
THEOREM MpInvariance == Mp!QueueConstants /\ Mp!Spec => []MpInv
<1> SUFFICES ASSUME Mp!QueueConstants PROVE Mp!Spec => []MpInv OBVIOUS
<1>1. Mp!Init => MpInv BY MpInitInv
<1>2. MpInv /\ [Mp!Next]_(Mp!vars) => MpInv' BY MpStep
<1> QED BY <1>1, <1>2, PTL DEF Mp!Spec

\* What is popped are the messages in the order their slots were claimed, each
\* of them once: also where m_inPos_mp has come round to a value that a push
\* still compares it with.
THEOREM PopsAsClaimed == Mp!QueueConstants /\ Mp!Spec => []PoppedAsClaimed
<1> SUFFICES ASSUME Mp!QueueConstants PROVE Mp!Spec => []PoppedAsClaimed OBVIOUS
<1>1. MpInv => PoppedAsClaimed
  <2> SUFFICES ASSUME MpInv PROVE PoppedAsClaimed OBVIOUS
  <2>1. popped \in Seq(Slotted) /\ claims \in Seq(Slotted) BY DEF MpInv, MpTypes
  <2>2. Len(popped) \in Nat /\ Len(claims) \in Nat /\ Len(popped) <= Len(claims)
    BY MpFacts, PoppedLength
  <2>3. \A i \in 1..Len(popped) : popped[i] = claims[i] BY DEF MpInv, PoppedInv
  <2>4. SubSeq(claims, 1, Len(popped)) = [i \in 1..Len(popped) |-> claims[i]]
    BY <2>1, <2>2
  <2>5. popped = [i \in 1..Len(popped) |-> popped[i]] BY <2>1
  <2> QED BY <2>3, <2>4, <2>5 DEF PoppedAsClaimed, Mp!PoppedAsClaimed
<1>2. Mp!Spec => []MpInv BY MpInvariance
<1> QED BY <1>1, <1>2, PTL

\* With interrupts off, the last push to leave is the one that publishes.
THEOREM AcceptedStaysReadable ==
  Mp!QueueConstants /\ ~LockFree /\ Mp!Spec => []AcceptedIsReadable
<1> SUFFICES ASSUME Mp!QueueConstants, ~LockFree PROVE Mp!Spec => []AcceptedIsReadable OBVIOUS
<1>1. Mp!Init => Mp!AcceptedIsReadable BY DEF Mp!Init, Mp!AcceptedIsReadable
<1>2. MpInv /\ Mp!AcceptedIsReadable /\ [Mp!Next]_(Mp!vars) => Mp!AcceptedIsReadable'
  <2> SUFFICES ASSUME MpInv, Mp!AcceptedIsReadable, [Mp!Next]_(Mp!vars)
               PROVE  Mp!AcceptedIsReadable'
    OBVIOUS
  <2>1. /\ CountInv /\ at \in [Producers -> Places]
        /\ \A p \in Producers : at[p] \in {"idle", "write", "end"}
    BY DEF MpInv, MpTypes
  <2>2. CASE UNCHANGED Mp!vars BY <2>2 DEF Mp!vars, Mp!AcceptedIsReadable, Mp!Inside
  <2>3. ASSUME NEW p \in Producers, Mp!Push(p) PROVE Mp!AcceptedIsReadable'
    <3>1. Mp!ClaimLocked(p) \/ Mp!EndLocked(p) \/ Mp!Write(p)
      BY <2>1, <2>3 DEF Mp!Push, Mp!Enter, Mp!LoadClaimed, Mp!Look, Mp!Claim,
              Mp!LoadEnd, Mp!LoadCount, Mp!Publish, Mp!Leave, Mp!Goto
    <3>2. CASE Mp!ClaimLocked(p) \/ Mp!Write(p)
      <4>1. at'[p] \in {"write", "end"} BY <2>1, <3>2 DEF Mp!ClaimLocked, Mp!Write, Mp!Goto
      <4>2. p \in Mp!Inside' BY <4>1 DEF Mp!Inside
      <4> QED BY <4>2 DEF Mp!AcceptedIsReadable
    <3>3. CASE Mp!EndLocked(p)
      <4>1. /\ at[p] = "end" /\ at' = [at EXCEPT ![p] = "idle"] /\ UNCHANGED inPosMp
            /\ mpInPos' = (IF concurrent = 1 THEN inPosMp ELSE mpInPos)
        BY <3>3 DEF Mp!EndLocked, Mp!Goto
      <4>2. SUFFICES ASSUME Mp!Inside' = {} PROVE concurrent = 1
        BY <4>1 DEF Mp!AcceptedIsReadable
      <4>3. Mp!Inside = {p} BY <2>1, <4>1, <4>2 DEF Mp!Inside
      <4> QED BY <2>1, <4>3, FS_Singleton DEF CountInv
    <3> QED BY <3>1, <3>2, <3>3
  <2>4. CASE Mp!Pop BY <2>4 DEF Mp!Pop, Mp!PopRead, Mp!PopStore, Mp!AcceptedIsReadable, Mp!Inside
  <2> QED BY <2>2, <2>3, <2>4 DEF Mp!Next
<1>3. Mp!Spec => []MpInv BY MpInvariance
<1>4. Mp!AcceptedIsReadable => AcceptedIsReadable BY DEF AcceptedIsReadable
<1> QED BY <1>1, <1>2, <1>3, <1>4, PTL DEF Mp!Spec

-----------------------------------------------------------------------------
(***************************************************************************)
(* SerialParity: both queues are moved on by their own calls, and a parity *)
(* bit belongs to its byte by position alone.  The bits from outBit of the *)
(* word at out to inBit of the word at in are as many as the bytes in the  *)
(* queue; from there on the n-th of both is one division of n by the bits  *)
(* of a word.                                                              *)
(***************************************************************************)

\* Every member in its range.
ParityTypes ==
    /\ bytes \in Seq(BOOLEAN)
    /\ words \in [Slots -> [Bits -> BOOLEAN]]
    /\ in \in Slots /\ out \in Slots
    /\ inBit \in Bits /\ outBit \in Bits

\* The bits between the two positions are those of the bytes in the queue.
InStep == outBit + Len(bytes) = Elements * WordBits + inBit /\ Len(bytes) <= BufCapacity

\* The inductive invariant of the parity bits.
ParityInv == ParityTypes /\ InStep /\ EachHasItsOwn

\* Quotient and remainder.
LEMMA Quotient ==
  ASSUME ParityConstants, NEW a \in Nat
  PROVE  /\ a \div WordBits \in Nat /\ a % WordBits \in Bits
         /\ a = (a \div WordBits) * WordBits + (a % WordBits)
BY DEF ParityConstants, Bits

\* Less in the quotient is less.
LEMMA NextWord ==
  ASSUME ParityConstants, NEW q \in Nat, NEW k \in Nat, q < k
  PROVE  q * WordBits + WordBits <= k * WordBits /\ q * WordBits \in Nat /\ k * WordBits \in Nat
<1>1. PICK d \in Nat : k = q + 1 + d
  <2>1. k - q - 1 \in Nat OBVIOUS
  <2>2. k = q + 1 + (k - q - 1) OBVIOUS
  <2> QED BY <2>1, <2>2
<1>2. WordBits \in Nat BY DEF ParityConstants
<1>3. k * WordBits = q * WordBits + WordBits + d * WordBits BY <1>1, <1>2
<1>4. d * WordBits \in Nat /\ q * WordBits \in Nat /\ k * WordBits \in Nat BY <1>1, <1>2
<1> QED BY <1>2, <1>3, <1>4

\* There is one quotient.
LEMMA OneQuotient ==
  ASSUME ParityConstants, NEW q \in Nat, NEW r \in Bits
  PROVE  /\ q * WordBits + r \in Nat
         /\ (q * WordBits + r) \div WordBits = q /\ (q * WordBits + r) % WordBits = r
<1> DEFINE a == q * WordBits + r
<1>1. WordBits \in Nat \ {0} /\ r \in Nat /\ r < WordBits BY DEF ParityConstants, Bits
<1>2. q * WordBits \in Nat /\ a \in Nat BY <1>1
<1> DEFINE k == a \div WordBits
           s == a % WordBits
<1>3. k \in Nat /\ s \in Nat /\ s < WordBits /\ a = k * WordBits + s
  BY <1>1, <1>2, Quotient DEF Bits
<1>4. k * WordBits \in Nat BY <1>1, <1>3
<1> HIDE DEF k, s
<1>5. ~(q < k)
  <2> SUFFICES ASSUME q < k PROVE FALSE OBVIOUS
  <2>1. q * WordBits + WordBits <= k * WordBits BY <1>3, NextWord
  <2> QED BY <1>1, <1>2, <1>3, <1>4, <2>1
<1>6. ~(k < q)
  <2> SUFFICES ASSUME k < q PROVE FALSE OBVIOUS
  <2>1. k * WordBits + WordBits <= q * WordBits BY <1>3, NextWord
  <2> QED BY <1>1, <1>2, <1>3, <1>4, <2>1
<1>7. k = q BY <1>3, <1>5, <1>6
<1>8. s = r BY <1>1, <1>2, <1>3, <1>4, <1>7
<1> QED BY <1>2, <1>7, <1>8 DEF k, s

\* Whole words ahead leave the bit where it is.
LEMMA WordsAhead ==
  ASSUME ParityConstants, NEW k \in Nat, NEW a \in Nat
  PROVE  /\ k * WordBits + a \in Nat
         /\ (k * WordBits + a) \div WordBits = k + (a \div WordBits)
         /\ (k * WordBits + a) % WordBits = a % WordBits
<1> DEFINE q == a \div WordBits
           r == a % WordBits
<1>1. q \in Nat /\ r \in Bits /\ a = q * WordBits + r BY Quotient
<1>2. WordBits \in Nat /\ r \in Nat BY <1>1 DEF ParityConstants, Bits
<1> HIDE DEF q, r
<1>3. (k + q) * WordBits = k * WordBits + q * WordBits BY <1>1, <1>2
<1>4. k * WordBits \in Nat /\ q * WordBits \in Nat BY <1>1, <1>2
<1>5. k * WordBits + a = (k + q) * WordBits + r BY <1>1, <1>2, <1>3, <1>4
<1>6. k + q \in Nat BY <1>1
<1>7. k * WordBits + a \in Nat BY <1>4
<1> QED BY <1>1, <1>5, <1>6, <1>7, OneQuotient DEF q, r

\* The parity queue has room for the words of a full byte queue.
LEMMA RoomForWords ==
  ASSUME ParityConstants
  PROVE  /\ ParitySlots \in Nat /\ ParitySlots >= 2 /\ 0 \in Slots
         /\ \A e \in Nat : e * WordBits < BufCapacity => e < ParitySlots - 1
<1> DEFINE k == (BufCapacity + WordBits - 1) \div WordBits
           r == (BufCapacity + WordBits - 1) % WordBits
<1>1. BufCapacity \in Nat \ {0} /\ WordBits \in Nat \ {0} BY DEF ParityConstants
<1>2. BufCapacity + WordBits - 1 \in Nat BY <1>1
<1>3. k \in Nat /\ r \in Nat /\ r < WordBits /\ BufCapacity + WordBits - 1 = k * WordBits + r
  BY <1>1, <1>2, Quotient DEF Bits
<1>4. ParitySlots = k + 1 BY DEF ParitySlots
<1> HIDE DEF k, r
<1>5. k * WordBits \in Nat BY <1>1, <1>3
<1>6. ASSUME NEW e \in Nat, e * WordBits < BufCapacity PROVE e < k
  <2> SUFFICES ASSUME ~(e < k) PROVE FALSE OBVIOUS
  <2>1. e * WordBits \in Nat BY <1>1
  <2>2. CASE e = k BY <1>1, <1>3, <1>5, <1>6, <2>2
  <2>3. CASE k < e
    <3>1. k * WordBits + WordBits <= e * WordBits BY <1>3, <2>3, NextWord
    <3> QED BY <1>1, <1>3, <1>5, <1>6, <2>1, <3>1
  <2> QED BY <1>3, <2>2, <2>3
<1>7. 0 < k
  <2>1. 0 * WordBits = 0 BY <1>1
  <2> QED BY <1>1, <1>6, <2>1
<1> QED BY <1>3, <1>4, <1>6, <1>7 DEF Slots

\* Slots ahead of another.
LEMMA SlotsAhead ==
  ASSUME ParityConstants, NEW s \in Slots, NEW n \in 0..ParitySlots
  PROVE  /\ Plus(s, n) \in Slots
         /\ Plus(s, n) = (IF s + n < ParitySlots THEN s + n ELSE s + n - ParitySlots)
<1>1. ParitySlots \in Nat /\ ParitySlots >= 2 BY RoomForWords
<1>2. s \in Nat /\ s < ParitySlots /\ n \in Nat /\ n <= ParitySlots BY <1>1 DEF Slots
<1>3. CASE s + n < ParitySlots
  <2>1. (s + n) % ParitySlots = s + n BY <1>1, <1>2, <1>3
  <2> QED BY <1>1, <1>2, <1>3, <2>1 DEF Plus, Slots
<1>4. CASE ~(s + n < ParitySlots)
  <2>1. (s + n) % ParitySlots = s + n - ParitySlots BY <1>1, <1>2, <1>4
  <2> QED BY <1>1, <1>2, <1>4, <2>1 DEF Plus, Slots
<1> QED BY <1>3, <1>4

\* How many elements the parity queue holds.
LEMMA ElementsHeld ==
  ASSUME ParityConstants, in \in Slots, out \in Slots
  PROVE  /\ Elements \in 0..(ParitySlots - 1)
         /\ Elements = (IF in >= out THEN in - out ELSE in - out + ParitySlots)
<1>1. ParitySlots \in Nat /\ ParitySlots >= 2 BY RoomForWords
<1>2. in \in Nat /\ in < ParitySlots /\ out \in Nat /\ out < ParitySlots BY <1>1 DEF Slots
<1>3. CASE in >= out
  <2>1. (in + ParitySlots - out) % ParitySlots = in - out BY <1>1, <1>2, <1>3
  <2> QED BY <1>1, <1>2, <1>3, <2>1 DEF Elements
<1>4. CASE ~(in >= out)
  <2>1. (in + ParitySlots - out) % ParitySlots = in - out + ParitySlots BY <1>1, <1>2, <1>4
  <2> QED BY <1>1, <1>2, <1>4, <2>1 DEF Elements
<1> QED BY <1>3, <1>4

\* What the invariant says of the parity queue: it holds less than it has slots for.
LEMMA ParityFacts ==
  ASSUME ParityConstants, ParityTypes, InStep
  PROVE  /\ WordBits \in Nat /\ ParitySlots \in Nat /\ Len(bytes) \in Nat
         /\ inBit \in Nat /\ inBit < WordBits /\ outBit \in Nat /\ outBit < WordBits
         /\ Elements \in Nat /\ Elements < ParitySlots /\ Elements * WordBits \in Nat
         /\ in = Plus(out, Elements)
         /\ Len(bytes) < BufCapacity /\ inBit = WordBits - 1 => Elements < ParitySlots - 1
<1>1. WordBits \in Nat \ {0} /\ BufCapacity \in Nat BY DEF ParityConstants
<1>2. ParitySlots \in Nat /\ ParitySlots >= 2 BY RoomForWords
<1>3. inBit \in Nat /\ inBit < WordBits /\ outBit \in Nat /\ outBit < WordBits BY <1>1 DEF ParityTypes, Bits
<1>4. in \in Slots /\ out \in Slots BY DEF ParityTypes
<1>5. /\ Elements \in 0..(ParitySlots - 1)
      /\ Elements = (IF in >= out THEN in - out ELSE in - out + ParitySlots)
  BY <1>4, ElementsHeld
<1>6. PICK e \in 0..(ParitySlots - 1) : e = Elements BY <1>5
<1>7. e \in Nat /\ e < ParitySlots /\ e \in 0..ParitySlots BY <1>2
<1>8. e * WordBits \in Nat BY <1>1, <1>7
<1>9. Len(bytes) \in Nat BY DEF ParityTypes
<1>10. in = Plus(out, e)
  <2>1. Plus(out, e) = (IF out + e < ParitySlots THEN out + e ELSE out + e - ParitySlots)
    BY <1>4, <1>7, SlotsAhead
  <2>2. in \in Nat /\ in < ParitySlots /\ out \in Nat /\ out < ParitySlots BY <1>2, <1>4 DEF Slots
  <2> QED BY <1>2, <1>5, <1>6, <1>7, <2>1, <2>2
<1>11. Len(bytes) < BufCapacity /\ inBit = WordBits - 1 => e < ParitySlots - 1
  <2> SUFFICES ASSUME Len(bytes) < BufCapacity, inBit = WordBits - 1 PROVE e < ParitySlots - 1 OBVIOUS
  <2>1. outBit + Len(bytes) = e * WordBits + inBit BY <1>6 DEF InStep
  <2>2. e * WordBits < BufCapacity BY <1>1, <1>3, <1>8, <1>9, <2>1
  <2> QED BY <1>7, <2>2, RoomForWords
<1> QED BY <1>1, <1>2, <1>3, <1>6, <1>7, <1>8, <1>9, <1>10, <1>11

\* Taking k words that there are.
LEMMA WordsTaken ==
  ASSUME ParityConstants, ParityTypes, InStep, NEW k \in Nat, k <= Elements, out' = Plus(out, k), in' = in
  PROVE  /\ out' \in Slots /\ Elements' = Elements - k
         /\ \A q \in Nat : q <= Elements - k => Plus(out, k + q) = Plus(out', q)
<1>1. ParitySlots \in Nat /\ ParitySlots >= 2 BY RoomForWords
<1>2. Elements \in Nat /\ Elements < ParitySlots BY ParityFacts
<1>3. in \in Slots /\ out \in Slots BY DEF ParityTypes
<1>4. in \in Nat /\ in < ParitySlots /\ out \in Nat /\ out < ParitySlots BY <1>1, <1>3 DEF Slots
<1>5. /\ out' \in Slots
      /\ out' = (IF out + k < ParitySlots THEN out + k ELSE out + k - ParitySlots)
  <2>1. k \in 0..ParitySlots BY <1>1, <1>2
  <2> QED BY <1>3, <2>1, SlotsAhead
<1>6. out' \in Nat /\ out' < ParitySlots BY <1>1, <1>5 DEF Slots
<1>7. Elements = (IF in >= out THEN in - out ELSE in - out + ParitySlots) BY <1>3, ElementsHeld
<1>8. Elements' = (IF in' >= out' THEN in' - out' ELSE in' - out' + ParitySlots)
  <2>1. (in \in Slots /\ out \in Slots => Elements = (IF in >= out THEN in - out ELSE in - out + ParitySlots))'
    BY ElementsHeld, PTL
  <2> QED BY <1>3, <1>5, <2>1 DEF Slots, ParitySlots
<1>9. Elements' = Elements - k BY <1>1, <1>2, <1>4, <1>5, <1>6, <1>7, <1>8
<1>10. ASSUME NEW q \in Nat, q <= Elements - k PROVE Plus(out, k + q) = Plus(out', q)
  <2>1. k + q \in 0..ParitySlots /\ q \in 0..ParitySlots BY <1>1, <1>2, <1>10
  <2>2. Plus(out, k + q) = (IF out + (k + q) < ParitySlots THEN out + (k + q) ELSE out + (k + q) - ParitySlots)
    BY <1>3, <2>1, SlotsAhead
  <2>3. \A s \in Slots : Plus(s, q) = (IF s + q < ParitySlots THEN s + q ELSE s + q - ParitySlots)
    BY <2>1, SlotsAhead
  <2>4. Plus(out', q) = (IF out' + q < ParitySlots THEN out' + q ELSE out' + q - ParitySlots)
    BY <1>5, <2>3
  <2> QED BY <1>1, <1>2, <1>4, <1>5, <1>6, <1>10, <2>1, <2>2, <2>4
<1> QED BY <1>5, <1>9, <1>10

\* The bytes have their own parity bits.
OwnBits ==
    \A i \in 1..Len(bytes) :
        words[Plus(out, (outBit + i - 1) \div WordBits)][(outBit + i - 1) % WordBits] = bytes[i]

\* What EachHasItsOwn says besides.
LEMMA OwnAndLast ==
  ASSUME ParityTypes
  PROVE  EachHasItsOwn <=> OwnBits /\ lastParity = lastByte
<1>1. DOMAIN bytes = 1..Len(bytes) BY LenProperties DEF ParityTypes
<1> QED BY <1>1 DEF EachHasItsOwn, OwnBits

\* A bit before another is in an earlier word, or before it in the same.
LEMMA BitBefore ==
  ASSUME ParityConstants, NEW a \in Nat, NEW q \in Nat, NEW r \in Nat, r < WordBits, a < q * WordBits + r
  PROVE  /\ a \div WordBits \in Nat /\ a % WordBits \in Bits
         /\ a \div WordBits <= q
         /\ a \div WordBits = q => a % WordBits < r
<1> DEFINE k == a \div WordBits
           s == a % WordBits
<1>1. WordBits \in Nat \ {0} BY DEF ParityConstants
<1>2. k \in Nat /\ s \in Bits /\ a = k * WordBits + s BY Quotient
<1> HIDE DEF k, s
<1>3. s \in Nat /\ k * WordBits \in Nat /\ q * WordBits \in Nat BY <1>1, <1>2 DEF Bits
<1>4. k <= q
  <2> SUFFICES ASSUME q < k PROVE FALSE BY <1>2
  <2>1. q * WordBits + WordBits <= k * WordBits BY <1>2, NextWord
  <2> QED BY <1>1, <1>2, <1>3, <2>1
<1>5. k = q => s < r BY <1>1, <1>2, <1>3
<1> QED BY <1>2, <1>4, <1>5 DEF k, s

\* What stays in the balance of two positions when the same is taken from both.
LEMMA Balance ==
  ASSUME ParityConstants, NEW b \in Nat, NEW m \in Nat, NEW n \in Nat, NEW e \in Nat, NEW k \in Nat,
         NEW r \in Nat, NEW i \in Nat, b + m = e * WordBits + i, b + n = k * WordBits + r
  PROVE  r + (m - n) = (e - k) * WordBits + i
<1>1. WordBits \in Nat BY DEF ParityConstants
<1>2. PICK x \in Nat : x = e * WordBits BY <1>1
<1>3. PICK y \in Nat : y = k * WordBits BY <1>1
<1>4. (e - k) * WordBits = x - y BY <1>1, <1>2, <1>3
<1>5. b + m = x + i /\ b + n = y + r BY <1>2, <1>3
<1>6. r + (m - n) = x - y + i BY <1>5
<1> QED BY <1>4, <1>6

\* Taking n bytes takes the words they fill.
LEMMA BytesTaken ==
  ASSUME ParityConstants, ParityTypes, InStep, OwnBits, NEW n \in 1..Len(bytes),
         bytes' = SubSeq(bytes, n + 1, Len(bytes)), outBit' = (outBit + n) % WordBits,
         PopWords((outBit + n) \div WordBits), words' = words, in' = in, inBit' = inBit
  PROVE  ParityTypes' /\ InStep' /\ OwnBits'
<1>1. PICK e : e = Elements OBVIOUS
<1>2. PICK m : m = Len(bytes) OBVIOUS
<1>3. PICK k : k = (outBit + n) \div WordBits OBVIOUS
<1>4. PICK r : r = (outBit + n) % WordBits OBVIOUS
<1>5. /\ WordBits \in Nat /\ m \in Nat /\ inBit \in Nat /\ inBit < WordBits /\ outBit \in Nat
      /\ e \in Nat /\ e < ParitySlots /\ e * WordBits \in Nat /\ n \in Nat /\ 1 <= n /\ n <= m
  BY <1>1, <1>2, ParityFacts
<1>6. outBit + m = e * WordBits + inBit /\ m <= BufCapacity BY <1>1, <1>2 DEF InStep
<1>7. k \in Nat /\ r \in Bits /\ outBit + n = k * WordBits + r
  <2>1. outBit + n \in Nat BY <1>5
  <2> QED BY <1>3, <1>4, <2>1, Quotient
<1>8. r \in Nat /\ r < WordBits /\ k * WordBits \in Nat BY <1>5, <1>7 DEF Bits
<1>9. k <= e
  <2> SUFFICES ASSUME e < k PROVE FALSE BY <1>5, <1>7
  <2>1. e * WordBits + WordBits <= k * WordBits BY <1>5, <1>7, NextWord
  <2>2. PICK x \in Nat : x = e * WordBits BY <1>5
  <2>3. PICK y \in Nat : y = k * WordBits BY <1>8
  <2>4. x + WordBits <= y /\ outBit + m = x + inBit /\ outBit + n = y + r BY <1>6, <1>7, <2>1, <2>2, <2>3
  <2> QED BY <1>5, <1>8, <2>2, <2>3, <2>4
<1>10. /\ out' \in Slots /\ Elements' = e - k
       /\ \A q \in Nat : q <= e - k => Plus(out, k + q) = Plus(out', q)
  <2>1. out' = Plus(out, k) BY <1>1, <1>3, <1>9 DEF PopWords
  <2> QED BY <1>1, <1>7, <1>9, <2>1, WordsTaken
<1>11. (e - k) * WordBits = e * WordBits - k * WordBits BY <1>5, <1>7
<1>12. /\ bytes' \in Seq(BOOLEAN) /\ Len(bytes') = m - n
       /\ \A i \in 1..(m - n) : bytes'[i] = bytes[n + i]
  <2>1. bytes \in Seq(BOOLEAN) BY DEF ParityTypes
  <2>2. n + 1 \in 1..(Len(bytes) + 1) /\ Len(bytes) \in (n + 1) - 1 .. Len(bytes) BY <1>2, <1>5
  <2>3. /\ bytes' \in Seq(BOOLEAN) /\ Len(bytes') = Len(bytes) - (n + 1) + 1
        /\ \A i \in 1..(Len(bytes) - (n + 1) + 1) : bytes'[i] = bytes[(n + 1) + i - 1]
    BY <2>1, <2>2, SubSeqProperties
  <2>4. Len(bytes) - (n + 1) + 1 = m - n BY <1>2, <1>5
  <2>5. \A i \in 1..(m - n) : (n + 1) + i - 1 = n + i BY <1>5
  <2> QED BY <2>3, <2>4, <2>5
<1>13. ParityTypes' BY <1>4, <1>7, <1>10, <1>12 DEF ParityTypes, Slots, Bits, ParitySlots
<1>14. InStep'
  <2>4. r + (m - n) = (e - k) * WordBits + inBit BY <1>5, <1>6, <1>7, <1>8, Balance
  <2>5. outBit' = r /\ Len(bytes') = m - n /\ Elements' = e - k BY <1>4, <1>10, <1>12
  <2>6. outBit' + Len(bytes') = Elements' * WordBits + inBit' BY <2>4, <2>5
  <2>9. Len(bytes') <= BufCapacity
    <3>1. BufCapacity \in Nat BY DEF ParityConstants
    <3> QED BY <1>5, <1>6, <2>5, <3>1
  <2> QED BY <2>6, <2>9 DEF InStep
<1>15. OwnBits'
  <2> SUFFICES ASSUME NEW i \in 1..(m - n)
               PROVE  words'[Plus(out', (outBit' + i - 1) \div WordBits)][(outBit' + i - 1) % WordBits] = bytes'[i]
    BY <1>12 DEF OwnBits, Plus, ParitySlots
  <2>1. PICK a : a = r + i - 1 OBVIOUS
  <2>2. a \in Nat /\ outBit + (n + i) - 1 = k * WordBits + a /\ n + i \in 1..m BY <1>5, <1>7, <1>8, <2>1
  <2>3. words[Plus(out, (k * WordBits + a) \div WordBits)][(k * WordBits + a) % WordBits] = bytes[n + i]
    BY <1>2, <2>2 DEF OwnBits
  <2>4. (k * WordBits + a) \div WordBits = k + (a \div WordBits) /\ (k * WordBits + a) % WordBits = a % WordBits
    BY <1>7, <2>2, WordsAhead
  <2>5. a < (e - k) * WordBits + inBit /\ e - k \in Nat BY <1>5, <1>6, <1>7, <1>8, <1>9, <1>11, <2>1
  <2>6. a \div WordBits \in Nat /\ a \div WordBits <= e - k BY <1>5, <2>2, <2>5, BitBefore
  <2>7. Plus(out, k + (a \div WordBits)) = Plus(out', a \div WordBits) BY <1>10, <2>6
  <2>8. outBit' + i - 1 = a BY <1>4, <2>1
  <2> QED BY <1>12, <2>3, <2>4, <2>7, <2>8
<1> QED BY <1>13, <1>14, <1>15

\* Two slots less than the ring apart are two.
LEMMA ApartAhead ==
  ASSUME NEW o \in Nat, NEW near \in Nat, NEW far \in Nat, NEW size \in Nat,
         o < size, near < far, far < size
  PROVE  (IF o + near < size THEN o + near ELSE o + near - size)
            # (IF o + far < size THEN o + far ELSE o + far - size)
OBVIOUS

\* Where the parity queue is written to: at the bit after those of all bytes.
LEMMA WordWritten ==
  ASSUME ParityConstants, ParityTypes, InStep, OwnBits, NEW parity \in BOOLEAN,
         words' = [words EXCEPT ![in][inBit] = parity], bytes' = Append(bytes, parity),
         out' = out, outBit' = outBit
  PROVE  /\ words' \in [Slots -> [Bits -> BOOLEAN]] /\ bytes' \in Seq(BOOLEAN)
         /\ Len(bytes') = Len(bytes) + 1 /\ OwnBits'
<1>1. PICK e : e = Elements OBVIOUS
<1>2. PICK m : m = Len(bytes) OBVIOUS
<1>3. /\ WordBits \in Nat /\ m \in Nat /\ inBit \in Nat /\ inBit < WordBits /\ outBit \in Nat
      /\ ParitySlots \in Nat /\ e \in Nat /\ e < ParitySlots /\ in = Plus(out, e)
  BY <1>1, <1>2, ParityFacts
<1>4. outBit + m = e * WordBits + inBit BY <1>1, <1>2 DEF InStep
<1>5. /\ bytes \in Seq(BOOLEAN) /\ words \in [Slots -> [Bits -> BOOLEAN]]
      /\ in \in Slots /\ out \in Slots /\ inBit \in Bits
  BY DEF ParityTypes
<1>6. /\ bytes' \in Seq(BOOLEAN) /\ Len(bytes') = m + 1 /\ bytes'[m + 1] = parity
      /\ \A i \in 1..m : bytes'[i] = bytes[i]
  BY <1>2, <1>5, AppendProperties
<1>7. /\ words' \in [Slots -> [Bits -> BOOLEAN]]
      /\ words'[in][inBit] = parity
      /\ \A t \in Slots, b \in Bits : t # in \/ b # inBit => words'[t][b] = words[t][b]
  BY <1>5
<1>8. OwnBits'
  <2> SUFFICES ASSUME NEW i \in 1..(m + 1)
               PROVE  words'[Plus(out, (outBit + i - 1) \div WordBits)][(outBit + i - 1) % WordBits] = bytes'[i]
    BY <1>6 DEF OwnBits, Plus, ParitySlots
  <2>1. CASE i = m + 1
    <3>1. outBit + i - 1 = e * WordBits + inBit BY <1>3, <1>4, <2>1
    <3>2. (e * WordBits + inBit) \div WordBits = e /\ (e * WordBits + inBit) % WordBits = inBit
      BY <1>3, <1>5, OneQuotient
    <3> QED BY <1>3, <1>6, <1>7, <2>1, <3>1, <3>2
  <2>2. CASE i \in 1..m
    <3>1. PICK a : a = outBit + i - 1 OBVIOUS
    <3>2. a \in Nat /\ a < e * WordBits + inBit BY <1>3, <1>4, <2>2, <3>1
    <3>3. PICK q : q = a \div WordBits OBVIOUS
    <3>4. PICK b : b = a % WordBits OBVIOUS
    <3>5. q \in Nat /\ b \in Bits /\ q <= e /\ (q = e => b < inBit) BY <1>3, <3>2, <3>3, <3>4, BitBefore
    <3>6. /\ Plus(out, q) \in Slots
          /\ Plus(out, q) = (IF out + q < ParitySlots THEN out + q ELSE out + q - ParitySlots)
          /\ Plus(out, e) = (IF out + e < ParitySlots THEN out + e ELSE out + e - ParitySlots)
      <4>1. q \in 0..ParitySlots /\ e \in 0..ParitySlots BY <1>3, <3>5
      <4> QED BY <1>5, <4>1, SlotsAhead
    <3>7. out \in Nat /\ out < ParitySlots BY <1>3, <1>5 DEF Slots
    <3>8. Plus(out, q) # in \/ b # inBit
      <4> SUFFICES ASSUME q # e PROVE Plus(out, q) # Plus(out, e) BY <1>3, <3>5
      <4>1. q < e /\ e < ParitySlots BY <1>3, <3>5
      <4> QED BY <1>3, <3>5, <3>6, <3>7, <4>1, ApartAhead
    <3>9. words'[Plus(out, q)][b] = words[Plus(out, q)][b] BY <1>7, <3>5, <3>6, <3>8
    <3>10. words[Plus(out, q)][b] = bytes[i] BY <1>2, <2>2, <3>1, <3>3, <3>4 DEF OwnBits
    <3> QED BY <1>6, <2>2, <3>1, <3>3, <3>4, <3>9, <3>10
  <2>3. i = m + 1 \/ i \in 1..m BY <1>3
  <2> QED BY <2>1, <2>2, <2>3
<1> QED BY <1>2, <1>6, <1>7, <1>8

\* Storing a byte.
LEMMA ByteStored ==
  ASSUME ParityConstants, ParityTypes, InStep, OwnBits, NEW parity \in BOOLEAN, Store(parity)
  PROVE  ParityTypes' /\ InStep' /\ OwnBits'
<1>1. PICK e : e = Elements OBVIOUS
<1>2. PICK m : m = Len(bytes) OBVIOUS
<1>3. /\ WordBits \in Nat /\ m \in Nat /\ inBit \in Nat /\ inBit < WordBits /\ outBit \in Nat
      /\ ParitySlots \in Nat /\ e \in Nat /\ e < ParitySlots /\ e * WordBits \in Nat
      /\ m < BufCapacity /\ inBit = WordBits - 1 => e < ParitySlots - 1
  BY <1>1, <1>2, ParityFacts
<1>4. outBit + m = e * WordBits + inBit BY <1>1, <1>2 DEF InStep
<1>5. in \in Slots /\ out \in Slots /\ outBit \in Bits BY DEF ParityTypes
<1>6. /\ m < BufCapacity /\ UNCHANGED <<out, outBit>>
      /\ words' = [words EXCEPT ![in][inBit] = parity] /\ bytes' = Append(bytes, parity)
      /\ inBit' = (inBit + 1) % WordBits
      /\ in' = (IF inBit = WordBits - 1 /\ Plus(in, 1) # out THEN Plus(in, 1) ELSE in)
  BY <1>2 DEF Store
<1>7. /\ words' \in [Slots -> [Bits -> BOOLEAN]] /\ bytes' \in Seq(BOOLEAN)
      /\ Len(bytes') = m + 1 /\ OwnBits'
  BY <1>2, <1>6, WordWritten
<1>8. /\ ParitySlots >= 2 /\ in \in Nat /\ in < ParitySlots /\ out \in Nat /\ out < ParitySlots
      /\ e = (IF in >= out THEN in - out ELSE in - out + ParitySlots)
  BY <1>1, <1>3, <1>5, RoomForWords, ElementsHeld DEF Slots
<1>9. in' \in Slots => Elements' = (IF in' >= out THEN in' - out ELSE in' - out + ParitySlots)
  <2>1. (in \in Slots /\ out \in Slots => Elements = (IF in >= out THEN in - out ELSE in - out + ParitySlots))'
    BY ElementsHeld, PTL
  <2> QED BY <1>5, <1>6, <2>1 DEF Slots, ParitySlots
<1>10. BufCapacity \in Nat BY DEF ParityConstants
<1>11. CASE inBit < WordBits - 1
  <2>1. inBit' = inBit + 1 /\ in' = in
    <3>1. WordBits \in Nat /\ inBit \in Nat /\ inBit + 1 < WordBits BY <1>3, <1>11
    <3>2. (inBit + 1) % WordBits = inBit + 1 BY <3>1
    <3> QED BY <1>6, <1>11, <3>1, <3>2
  <2>2. inBit' \in Bits BY <1>3, <1>11, <2>1 DEF Bits
  <2>3. Elements' = e BY <1>5, <1>8, <1>9, <2>1
  <2>4. outBit + (m + 1) = e * WordBits + (inBit + 1) BY <1>3, <1>4
  <2>5. InStep'
    <3>1. outBit' + Len(bytes') = Elements' * WordBits + inBit' BY <1>6, <1>7, <2>1, <2>3, <2>4, Zenon
    <3>2. Len(bytes') <= BufCapacity BY <1>3, <1>6, <1>7, <1>10
    <3> QED BY <3>1, <3>2 DEF InStep
  <2> QED BY <1>5, <1>6, <1>7, <2>1, <2>2, <2>5 DEF ParityTypes, Slots, Bits, ParitySlots
<1>12. CASE inBit = WordBits - 1
  <2>1. inBit + 1 = WordBits BY <1>3, <1>12
  <2>2. inBit' = 0 BY <1>3, <1>6, <2>1
  <2>3. inBit' \in Bits BY <1>3, <2>2 DEF Bits
  <2>4. Plus(in, 1) \in Slots /\ Plus(in, 1) = (IF in + 1 < ParitySlots THEN in + 1 ELSE in + 1 - ParitySlots)
    <3>1. 1 \in 0..ParitySlots BY <1>8, <1>3
    <3> QED BY <1>5, <3>1, SlotsAhead
  <2>5. e < ParitySlots - 1 BY <1>3, <1>6, <1>12
  <2>6. Plus(in, 1) # out BY <1>3, <1>8, <2>4, <2>5
  <2>7. in' = Plus(in, 1) BY <1>6, <1>12, <2>6
  <2>8. Elements' = e + 1 BY <1>3, <1>8, <1>9, <2>4, <2>5, <2>7
  <2>9. outBit + (m + 1) = (e + 1) * WordBits + 0
    <3>1. (e + 1) * WordBits = e * WordBits + WordBits BY <1>3
    <3>2. outBit + (m + 1) = e * WordBits + WordBits BY <1>3, <1>4, <2>1
    <3> QED BY <1>3, <3>1, <3>2
  <2>10. InStep'
    <3>1. outBit' + Len(bytes') = Elements' * WordBits + inBit' BY <1>6, <1>7, <2>2, <2>8, <2>9, Zenon
    <3>2. Len(bytes') <= BufCapacity BY <1>3, <1>6, <1>7, <1>10
    <3> QED BY <3>1, <3>2 DEF InStep
  <2> QED BY <1>5, <1>6, <1>7, <2>3, <2>4, <2>7, <2>10 DEF ParityTypes, Slots, Bits, ParitySlots
<1> QED BY <1>3, <1>7, <1>11, <1>12

\* Throwing away, looking, and the beginning.
LEMMA ParityInitInv == ParityConstants /\ ParityInit => ParityInv
<1> SUFFICES ASSUME ParityConstants, ParityInit PROVE ParityInv OBVIOUS
<1>1. /\ bytes = <<>> /\ words \in [Slots -> [Bits -> BOOLEAN]]
      /\ in = 0 /\ out = 0 /\ inBit = 0 /\ outBit = 0 /\ lastParity = lastByte
  BY DEF ParityInit
<1>2. 0 \in Slots BY RoomForWords
<1>3. WordBits \in Nat \ {0} /\ BufCapacity \in Nat BY DEF ParityConstants
<1>4. 0 \in Bits /\ Len(bytes) = 0 /\ bytes \in Seq(BOOLEAN) BY <1>1, <1>3 DEF Bits
<1>5. ParityTypes BY <1>1, <1>2, <1>4 DEF ParityTypes
<1>6. Elements = 0 BY <1>1, <1>2, ElementsHeld
<1>7. InStep BY <1>1, <1>3, <1>4, <1>6 DEF InStep
<1>8. OwnBits BY <1>4 DEF OwnBits
<1> QED BY <1>1, <1>5, <1>7, <1>8, OwnAndLast DEF ParityInv

\* The parity bit of the oldest byte.
LEMMA OldestBit ==
  ASSUME ParityConstants, ParityTypes, InStep, OwnBits, bytes # <<>>
  PROVE  words[out][outBit] = bytes[1] /\ Head(bytes) = bytes[1] /\ Len(bytes) >= 1
<1>1. Len(bytes) \in Nat /\ outBit \in Nat /\ WordBits \in Nat /\ ParitySlots \in Nat BY ParityFacts
<1>2. outBit \in Bits /\ out \in Slots /\ bytes \in Seq(BOOLEAN) BY DEF ParityTypes
<1>3. Len(bytes) >= 1 BY <1>1, <1>2, EmptySeq
<1>4. Plus(out, 0) = out
  <2>1. 0 \in 0..ParitySlots BY <1>1
  <2>2. out \in Nat /\ out < ParitySlots BY <1>1, <1>2 DEF Slots
  <2> QED BY <1>1, <1>2, <2>1, <2>2, SlotsAhead
<1>5. outBit \div WordBits = 0 /\ outBit % WordBits = outBit
  <2>1. 0 * WordBits + outBit = outBit BY <1>1
  <2> QED BY <1>2, <2>1, OneQuotient
<1>6. 1 \in 1..Len(bytes) BY <1>1, <1>3
<1>7. words[Plus(out, (outBit + 1 - 1) \div WordBits)][(outBit + 1 - 1) % WordBits] = bytes[1]
  BY <1>6 DEF OwnBits
<1>8. outBit + 1 - 1 = outBit BY <1>1
<1>9. words[out][outBit] = bytes[1] BY <1>4, <1>5, <1>7, <1>8
<1>10. Head(bytes) = bytes[1] OBVIOUS
<1> QED BY <1>3, <1>9, <1>10

\* Every call keeps the two queues in step.
LEMMA ParityStep ==
  ASSUME ParityConstants, ParityInv, [ParityNext]_parityVars
  PROVE  ParityInv'
<1>1. ParityTypes /\ InStep /\ OwnBits /\ lastParity = lastByte BY OwnAndLast DEF ParityInv
<1>2. (ParityTypes => (EachHasItsOwn <=> OwnBits /\ lastParity = lastByte))' BY OwnAndLast, PTL
<1>3. SUFFICES ParityTypes' /\ InStep' /\ OwnBits' /\ lastParity' = lastByte' BY <1>2 DEF ParityInv
<1>4. ASSUME NEW parity \in BOOLEAN, Store(parity)
      PROVE  ParityTypes' /\ InStep' /\ OwnBits' /\ lastParity' = lastByte'
  <2>1. ParityTypes' /\ InStep' /\ OwnBits' BY <1>1, <1>4, ByteStored
  <2>2. lastParity' = lastParity /\ lastByte' = lastByte BY <1>4 DEF Store
  <2> QED BY <1>1, <2>1, <2>2
<1>5. CASE Peek
  <2>1. words[out][outBit] = Head(bytes) BY <1>1, <1>5, OldestBit DEF Peek
  <2>2. lastParity' = lastByte' BY <1>5, <2>1 DEF Peek
  <2>3. UNCHANGED <<bytes, words, in, out, inBit, outBit>> BY <1>5 DEF Peek
  <2>4. ParityTypes' /\ InStep' /\ OwnBits'
    BY <1>1, <2>3 DEF ParityTypes, InStep, OwnBits, Elements, Plus, Slots, Bits, ParitySlots
  <2> QED BY <2>2, <2>4
<1>6. CASE Read
  <2>1. words[out][outBit] = Head(bytes) /\ Len(bytes) >= 1 BY <1>1, <1>6, OldestBit DEF Read
  <2>2. lastParity' = lastByte' BY <1>6, <2>1 DEF Read
  <2>3. Len(bytes) \in Nat /\ WordBits \in Nat /\ outBit \in Nat /\ outBit < WordBits /\ outBit \in Bits
    BY <1>1, ParityFacts DEF ParityTypes
  <2>4. 1 \in 1..Len(bytes) BY <2>1, <2>3
  <2>5. bytes' = SubSeq(bytes, 1 + 1, Len(bytes))
    <3>1. bytes' = Tail(bytes) /\ bytes \in Seq(BOOLEAN) BY <1>1, <1>6 DEF Read, ParityTypes
    <3> QED BY <3>1
  <2>6. (outBit + 1) \div WordBits = (IF outBit = WordBits - 1 THEN 1 ELSE 0)
    <3>1. CASE outBit = WordBits - 1
      <4>1. 0 \in Bits /\ 1 * WordBits + 0 = outBit + 1 BY <2>3, <3>1 DEF Bits
      <4> QED BY <3>1, <4>1, OneQuotient
    <3>2. CASE outBit # WordBits - 1
      <4>1. outBit + 1 \in Bits /\ 0 * WordBits + (outBit + 1) = outBit + 1 BY <2>3, <3>2 DEF Bits
      <4>2. (0 * WordBits + (outBit + 1)) \div WordBits = 0 BY <4>1, OneQuotient
      <4> QED BY <3>2, <4>1, <4>2
    <3> QED BY <3>1, <3>2
  <2>7. PopWords((outBit + 1) \div WordBits) BY <1>6, <2>6 DEF Read
  <2>8. outBit' = (outBit + 1) % WordBits /\ UNCHANGED <<words, in, inBit>> BY <1>6 DEF Read
  <2>9. ParityTypes' /\ InStep' /\ OwnBits' BY <1>1, <2>4, <2>5, <2>7, <2>8, BytesTaken
  <2> QED BY <2>2, <2>9
<1>7. ASSUME NEW n \in 1..Len(bytes), ReadMany(n)
      PROVE  ParityTypes' /\ InStep' /\ OwnBits' /\ lastParity' = lastByte'
  <2>1. /\ bytes' = SubSeq(bytes, n + 1, Len(bytes)) /\ outBit' = (outBit + n) % WordBits
        /\ PopWords((outBit + n) \div WordBits)
        /\ UNCHANGED <<words, in, inBit, lastParity, lastByte>>
    BY <1>7 DEF ReadMany
  <2>2. ParityTypes' /\ InStep' /\ OwnBits' BY <1>1, <2>1, BytesTaken
  <2> QED BY <1>1, <2>1, <2>2
<1>8. CASE Flush
  <2>1. /\ bytes' = <<>> /\ inBit' = 0 /\ outBit' = 0 /\ out' = in
        /\ UNCHANGED <<words, in, lastParity, lastByte>>
    BY <1>8 DEF Flush
  <2>2. WordBits \in Nat \ {0} /\ BufCapacity \in Nat BY DEF ParityConstants
  <2>3. 0 \in Bits /\ Len(bytes') = 0 /\ bytes' \in Seq(BOOLEAN) BY <2>1, <2>2 DEF Bits
  <2>4. ParityTypes' BY <1>1, <2>1, <2>3 DEF ParityTypes, Slots, Bits, ParitySlots
  <2>5. Elements' = 0
    <3>1. (in \in Slots /\ out \in Slots => Elements = (IF in >= out THEN in - out ELSE in - out + ParitySlots))'
      BY ElementsHeld, PTL
    <3>2. in \in Slots BY <1>1 DEF ParityTypes
    <3>3. in \in Nat BY <3>2, RoomForWords DEF Slots
    <3> QED BY <2>1, <3>1, <3>2, <3>3 DEF Slots, ParitySlots
  <2>6. InStep' BY <2>1, <2>2, <2>3, <2>5 DEF InStep
  <2>7. OwnBits' BY <2>3 DEF OwnBits
  <2> QED BY <1>1, <2>1, <2>4, <2>6, <2>7
<1>9. CASE UNCHANGED parityVars
  <2>1. UNCHANGED <<bytes, words, in, out, inBit, outBit, lastParity, lastByte>> BY <1>9 DEF parityVars
  <2>2. ParityTypes' /\ InStep' /\ OwnBits'
    BY <1>1, <2>1 DEF ParityTypes, InStep, OwnBits, Elements, Plus, Slots, Bits, ParitySlots
  <2> QED BY <1>1, <2>1, <2>2
<1> QED BY <1>4, <1>5, <1>6, <1>7, <1>8, <1>9 DEF ParityNext

\* EachHasItsOwn: for any capacity and any number of bits to an element, each
\* byte in the queue has its own parity bit in the other queue, and
\* readParity() answers for the byte returned last.
THEOREM ParityStaysWithItsByte == ParityConstants /\ ParitySpec => []EachHasItsOwn
<1> SUFFICES ASSUME ParityConstants PROVE ParitySpec => []EachHasItsOwn OBVIOUS
<1>1. ParityInit => ParityInv BY ParityInitInv
<1>2. ParityInv /\ [ParityNext]_parityVars => ParityInv' BY ParityStep
<1>3. ParityInv => EachHasItsOwn BY DEF ParityInv
<1> QED BY <1>1, <1>2, <1>3, PTL DEF ParitySpec

(***************************************************************************)
(* The receiver (SerialReceive): the words made are the words sent.  The   *)
(* invariant puts the words on the line, at times of their own, and says   *)
(* that the edges at hand are all the changes of the line since the last   *)
(* edge rxBits() saw, and that it has what the line showed until then.     *)
(***************************************************************************)

\* A queue was full, and overflow() says so, has said so, or will once it is asked.
Flagged == isrOverflow \/ overflow \/ reported

\* The level of the line at each time, when the words ws begin at start: high
\* unless some word says otherwise.
Wave(start, ws) ==
    [t \in Nat |-> \A k \in 1..Len(ws) :
        t \in start[k]..(start[k] + Rx!PduBits) => Rx!Levels(ws[k])[t - start[k] + 1]]

\* The words do not overlap.
Apart(start, ws) == \A k, l \in 1..Len(ws) : k < l => start[k] + Rx!PduBits < start[l]

\* The words are on the line one after the other, and rest is what the line has
\* yet to show of the last one.
OnLine(start, wave) ==
    /\ \A k \in 1..Len(sent) :
        /\ start[k] <= now
        /\ start[k] + Rx!PduBits <= now + Len(rest)
    /\ Apart(start, sent)
    /\ line = wave[now]
    /\ \A i \in 1..Len(rest) : rest[i] = wave[now + i]

\* The edges rxBits() has to go by: the last one it saw, and the ones in the queue.
EdgeAt(i) == IF i = 0 THEN lastTick ELSE isrBuffer[i]

\* They are all the edges there were since.
Recorded(wave) ==
    /\ \A i \in 0..Len(isrBuffer) : EdgeAt(i).tick <= now
    /\ \A i \in 1..Len(isrBuffer) :
        /\ EdgeAt(i - 1).tick <= EdgeAt(i).tick
        /\ 1 <= EdgeAt(i).tick /\ wave[EdgeAt(i).tick - 1] # wave[EdgeAt(i).tick]
        /\ \A t \in EdgeAt(i - 1).tick..(EdgeAt(i).tick - 1) : wave[t] = EdgeAt(i - 1).level
    /\ \A t \in EdgeAt(Len(isrBuffer)).tick..now : wave[t] = EdgeAt(Len(isrBuffer)).level

\* rxBits() is between two words, after word j ...
Idle(start, j) ==
    /\ rx = [last |-> Rx!PduBits - 1, bits |-> <<>>, parity |-> FALSE]
    /\ j > 0 => start[j] + Rx!PduBits < lastTick.tick
    /\ j < Len(sent) => lastTick.tick <= start[j + 1]

\* How much of a word it has when it holds the bits up to last, before the stop bits.
Holds(r, f) ==
    /\ r.last \in -1..(Rx!PduBits - 1 - StopBits)
    /\ Len(r.bits) = (IF r.last + 1 < DataBits THEN r.last + 1 ELSE DataBits)
    /\ \A i \in 1..Len(r.bits) : r.bits[i] = f.bits[i]
    /\ r.parity = (r.last = DataBits /\ f.parity)

\* ... or within word j + 1, at the bit that the last edge began.
Mid(start, j) ==
    /\ j < Len(sent)
    /\ Holds(rx, sent[j + 1])
    /\ lastTick.tick = start[j + 1] + rx.last + 2

\* The words made so far.
Made == received \o rxBuffer

\* They are the first ones sent, and rxBits() is at the right place in the rest.
Decoded(start) ==
    /\ Len(Made) <= Len(sent)
    /\ \A k \in 1..Len(Made) : Made[k] = sent[k]
    /\ Idle(start, Len(Made)) \/ Mid(start, Len(Made))

\* rxBits() goes only by edges there are, and while it is between its two looks
\* only the edges of that time are new.
Looking ==
    /\ rxAt = "each" => left <= Len(isrBuffer)
    /\ rxAt # "clock" => stall = 0
    /\ rxAt = "clock" =>
        /\ rx.last < Rx!PduBits - 1
        /\ stall <= MaxStall
        /\ \A i \in 1..Len(isrBuffer) : isrBuffer[i].tick > now - stall

\* What rxBits() may have of a word.
Words == [last : Int, bits : Seq(BOOLEAN), parity : BOOLEAN]

\* The types of what rxBits() works on.
Working ==
    /\ sent \in Seq(Frames) /\ received \in Seq(Frames)
    /\ rxBuffer \in Seq(Frames) /\ Len(rxBuffer) <= RxCapacity
    /\ rx \in Words /\ lastTick \in [tick : Nat, level : BOOLEAN]

\* The types of all that is not flagged.
RxTypes ==
    /\ Working
    /\ now \in 0..MaxTime /\ line \in BOOLEAN /\ rest \in Seq(BOOLEAN)
    /\ isrBuffer \in Seq([tick : Nat, level : BOOLEAN])
    /\ left \in Nat /\ stall \in Nat

\* The words are on the line from start on, and rxBits() is in step with them.
InTime(start) ==
    /\ OnLine(start, Wave(start, sent))
    /\ Recorded(Wave(start, sent))
    /\ Decoded(start)

\* The inductive invariant of the receiver.
RxInv ==
    \/ Flagged
    \/ /\ RxTypes /\ Looking
       /\ \E start \in [1..Len(sent) -> 1..MaxTime] : InTime(start)

\* The sizes of a word.
LEMMA RxSizes ==
  ASSUME Rx!SerialConstants
  PROVE  /\ DataBits \in Nat /\ DataBits >= 1 /\ StopBits \in Nat /\ StopBits >= 1
         /\ Rx!PduBits \in Nat /\ Parity \in BOOLEAN
         /\ Parity => Rx!PduBits = DataBits + 1 + StopBits
         /\ ~Parity => Rx!PduBits = DataBits + StopBits
BY DEF Rx!SerialConstants, Rx!PduBits

\* What a word is, as a record and as a sequence of bits.
LEMMA FrameIs ==
  ASSUME Rx!SerialConstants, NEW f \in Frames
  PROVE  /\ f.bits \in [1..DataBits -> BOOLEAN] /\ f.parity \in BOOLEAN /\ (~Parity => f.parity = FALSE)
         /\ f = [bits |-> f.bits, parity |-> f.parity]
         /\ f.bits \in Seq(BOOLEAN) /\ Len(f.bits) = DataBits
<1>1. f \in [bits : [1..DataBits -> BOOLEAN], parity : IF Parity THEN BOOLEAN ELSE {FALSE}]
  BY DEF Rx!SerialConstants
<1>2. DataBits \in Nat BY RxSizes
<1>3. /\ f.bits \in [1..DataBits -> BOOLEAN]
      /\ f.parity \in (IF Parity THEN BOOLEAN ELSE {FALSE})
      /\ f = [bits |-> f.bits, parity |-> f.parity]
  BY <1>1
<1>4. f.bits \in Seq(BOOLEAN) /\ Len(f.bits) = DataBits BY <1>2, <1>3
<1>5. f.parity \in BOOLEAN /\ (~Parity => f.parity = FALSE) BY <1>3
<1> QED BY <1>3, <1>4, <1>5

\* The second of two sequences, after the first.
LEMMA ConcatRight ==
  ASSUME NEW S, NEW s1 \in Seq(S), NEW s2 \in Seq(S), NEW i \in 1..Len(s2)
  PROVE  (s1 \o s2)[Len(s1) + i] = s2[i]
<1> PICK n \in Nat : n = Len(s1) OBVIOUS
<1> PICK m \in 1..(n + Len(s2)) : m = n + i OBVIOUS
<1>1. m - n = i /\ ~(m <= n) OBVIOUS
<1>2. (s1 \o s2)[m] = s2[m - n] BY <1>1, ConcatProperties
<1> QED BY <1>1, <1>2

\* What the line shows of a word.
LEMMA LevelsAre ==
  ASSUME Rx!SerialConstants, NEW f \in Frames
  PROVE  /\ Rx!Levels(f) \in Seq(BOOLEAN) /\ Len(Rx!Levels(f)) = Rx!PduBits + 1
         /\ Rx!Levels(f)[1] = FALSE
         /\ \A i \in 1..DataBits : Rx!Levels(f)[i + 1] = f.bits[i]
         /\ Parity => Rx!Levels(f)[DataBits + 2] = f.parity
         /\ \A i \in (Rx!PduBits - StopBits + 2)..(Rx!PduBits + 1) : Rx!Levels(f)[i] = TRUE
<1> DEFINE P == IF Parity THEN <<f.parity>> ELSE <<>>
           H == Rx!High(StopBits)
           a == <<FALSE>> \o f.bits
           b == a \o P
<1>0. DataBits \in Nat /\ DataBits >= 1 /\ StopBits \in Nat /\ StopBits >= 1 BY RxSizes
<1>1. f.bits \in Seq(BOOLEAN) /\ Len(f.bits) = DataBits /\ f.parity \in BOOLEAN BY FrameIs
<1>2. P \in Seq(BOOLEAN) /\ (Parity => Len(P) = 1 /\ P[1] = f.parity) /\ (~Parity => Len(P) = 0)
  <2>1. CASE Parity BY <1>1, <2>1
  <2>2. CASE ~Parity BY <2>2
  <2> QED BY <2>1, <2>2
<1>3. H \in Seq(BOOLEAN) /\ Len(H) = StopBits /\ \A i \in 1..StopBits : H[i] = TRUE
  BY <1>0 DEF Rx!High
<1>4. <<FALSE>> \in Seq(BOOLEAN) /\ Len(<<FALSE>>) = 1 /\ <<FALSE>>[1] = FALSE OBVIOUS
<1> HIDE DEF P, H
<1>5. /\ a \in Seq(BOOLEAN) /\ Len(a) = DataBits + 1
      /\ \A i \in 1..(DataBits + 1) : a[i] = IF i <= 1 THEN <<FALSE>>[i] ELSE f.bits[i - 1]
  BY <1>0, <1>1, <1>4, ConcatProperties
<1>6. /\ a[1] = FALSE
      /\ \A i \in 1..DataBits : a[i + 1] = f.bits[i]
  <2>1. a[1] = FALSE BY <1>0, <1>4, <1>5
  <2>2. ASSUME NEW i \in 1..DataBits PROVE a[i + 1] = f.bits[i]
    <3>1. i + 1 \in 1..(DataBits + 1) /\ ~(i + 1 <= 1) /\ (i + 1) - 1 = i BY <1>0
    <3> QED BY <1>5, <3>1
  <2> QED BY <2>1, <2>2
<1> HIDE DEF a
<1>7. /\ b \in Seq(BOOLEAN) /\ Len(b) = Len(a) + Len(P)
      /\ \A i \in 1..(Len(a) + Len(P)) : b[i] = IF i <= Len(a) THEN a[i] ELSE P[i - Len(a)]
  BY <1>2, <1>5, ConcatProperties
<1>8. Len(P) = (IF Parity THEN 1 ELSE 0) /\ Len(P) \in Nat /\ Len(a) = DataBits + 1 BY <1>2, <1>5
<1> HIDE DEF b
<1>9. /\ \A i \in 1..(DataBits + 1) : b[i] = a[i]
      /\ Parity => b[DataBits + 2] = f.parity
  <2>1. \A i \in 1..(DataBits + 1) : b[i] = a[i] BY <1>0, <1>7, <1>8
  <2>2. Parity => b[DataBits + 2] = f.parity
    <3> SUFFICES ASSUME Parity PROVE b[DataBits + 2] = f.parity OBVIOUS
    <3>1. 1 \in 1..Len(P) BY <1>8
    <3>2. b[Len(a) + 1] = P[1] BY <1>2, <1>5, <3>1, ConcatRight DEF b
    <3> QED BY <1>0, <1>2, <1>8, <3>2
  <2> QED BY <2>1, <2>2
<1> DEFINE L == b \o H
<1>10. /\ L \in Seq(BOOLEAN) /\ Len(L) = Len(b) + StopBits
       /\ \A i \in 1..(Len(b) + StopBits) : L[i] = IF i <= Len(b) THEN b[i] ELSE H[i - Len(b)]
  BY <1>3, <1>7, ConcatProperties
<1>11. Rx!Levels(f) = L BY DEF Rx!Levels, L, b, a, P, H
<1>12. Len(b) = Rx!PduBits - StopBits + 1 /\ Len(b) \in Nat /\ Len(b) >= DataBits + 1
  BY <1>0, <1>7, <1>8, RxSizes
<1> HIDE DEF L
<1>13. Rx!PduBits \in Nat BY RxSizes
<1>14. Len(L) = Rx!PduBits + 1 BY <1>0, <1>10, <1>12, <1>13
<1>15. \A i \in 1..(DataBits + 1) : L[i] = a[i] BY <1>0, <1>9, <1>10, <1>12
<1>16. L[1] = FALSE BY <1>0, <1>6, <1>15
<1>17. ASSUME NEW i \in 1..DataBits PROVE L[i + 1] = f.bits[i]
  <2>1. i + 1 \in 1..(DataBits + 1) BY <1>0
  <2> QED BY <1>6, <1>15, <2>1
<1>18. Parity => L[DataBits + 2] = f.parity
  <2> SUFFICES ASSUME Parity PROVE L[DataBits + 2] = f.parity OBVIOUS
  <2>1. DataBits + 2 <= Len(b) BY <1>0, <1>7, <1>8
  <2> QED BY <1>0, <1>9, <1>10, <1>12, <2>1
<1>19. ASSUME NEW i \in (Rx!PduBits - StopBits + 2)..(Rx!PduBits + 1) PROVE L[i] = TRUE
  <2>1. i \in 1..(Len(b) + StopBits) /\ ~(i <= Len(b)) /\ i - Len(b) \in 1..StopBits
    BY <1>0, <1>12, <1>13
  <2> QED BY <1>3, <1>10, <2>1
<1> QED BY <1>10, <1>11, <1>14, <1>16, <1>17, <1>18, <1>19

\* A word that begins at s.
WordAt(wave, s, f) ==
    /\ wave[s] = FALSE
    /\ \A i \in 1..DataBits : wave[s + i] = f.bits[i]
    /\ Parity => wave[s + DataBits + 1] = f.parity
    /\ \A t \in (s + Rx!PduBits - StopBits + 1)..(s + Rx!PduBits) : wave[t] = TRUE

\* The line shows the words, and is high otherwise.
Drawn(start, wave, ws) ==
    /\ wave \in [Nat -> BOOLEAN]
    /\ \A k \in 1..Len(ws) : WordAt(wave, start[k], ws[k])
    /\ \A t \in Nat : (\A k \in 1..Len(ws) : ~(t \in start[k]..(start[k] + Rx!PduBits))) => wave[t] = TRUE

\* A time is in one word only.
LEMMA OneWord ==
  ASSUME Rx!SerialConstants, MaxTime \in Nat, NEW ws \in Seq(Frames), NEW start \in [1..Len(ws) -> 1..MaxTime],
         Apart(start, ws), NEW k \in 1..Len(ws), NEW l \in 1..Len(ws), NEW t \in Nat,
         t \in start[k]..(start[k] + Rx!PduBits), t \in start[l]..(start[l] + Rx!PduBits)
  PROVE  k = l
<1>1. Rx!PduBits \in Nat BY RxSizes
<1>2. PICK a \in Nat : a = start[k] OBVIOUS
<1>3. PICK b \in Nat : b = start[l] OBVIOUS
<1>4. (k < l => a + Rx!PduBits < b) /\ (l < k => b + Rx!PduBits < a)
  BY <1>2, <1>3 DEF Apart
<1> QED BY <1>1, <1>2, <1>3, <1>4

\* What Wave shows of a word.
LEMMA WaveIs ==
  ASSUME Rx!SerialConstants, MaxTime \in Nat, NEW ws \in Seq(Frames), NEW start \in [1..Len(ws) -> 1..MaxTime],
         Apart(start, ws), NEW k \in 1..Len(ws), NEW i \in 0..Rx!PduBits
  PROVE  Wave(start, ws)[start[k] + i] = Rx!Levels(ws[k])[i + 1]
<1>1. Rx!PduBits \in Nat BY RxSizes
<1>2. PICK s \in Nat : s = start[k] OBVIOUS
<1>3. PICK t \in Nat : t = s + i BY <1>1
<1>4. t \in start[k]..(start[k] + Rx!PduBits) BY <1>1, <1>2, <1>3
<1>5. \A l \in 1..Len(ws) : t \in start[l]..(start[l] + Rx!PduBits) => l = k
  BY <1>4, OneWord
<1>6. Wave(start, ws)[t] = \A l \in 1..Len(ws) :
        t \in start[l]..(start[l] + Rx!PduBits) => Rx!Levels(ws[l])[t - start[l] + 1]
  BY DEF Wave
<1>7. Wave(start, ws)[t] = Rx!Levels(ws[k])[t - start[k] + 1]
  <2>1. Rx!Levels(ws[k])[t - start[k] + 1] \in BOOLEAN
    <3>1. ws[k] \in Frames OBVIOUS
    <3>2. t - start[k] + 1 \in 1..(Rx!PduBits + 1) BY <1>1, <1>2, <1>3
    <3>3. Rx!Levels(ws[k]) \in Seq(BOOLEAN) /\ Len(Rx!Levels(ws[k])) = Rx!PduBits + 1
      BY <3>1, LevelsAre
    <3> QED BY <3>2, <3>3, ElementOfSeq
  <2> QED BY <1>4, <1>5, <1>6, <2>1
<1>8. t - start[k] + 1 = i + 1 BY <1>2, <1>3
<1> QED BY <1>2, <1>3, <1>7, <1>8

\* The levels of the words make such a line.
LEMMA WaveDrawn ==
  ASSUME Rx!SerialConstants, MaxTime \in Nat, NEW ws \in Seq(Frames), NEW start \in [1..Len(ws) -> 1..MaxTime],
         Apart(start, ws)
  PROVE  Drawn(start, Wave(start, ws), ws)
<1>1. Rx!PduBits \in Nat /\ DataBits \in Nat /\ StopBits \in Nat /\ DataBits >= 1 /\ StopBits >= 1
      /\ Rx!PduBits >= DataBits + StopBits /\ (Parity => Rx!PduBits = DataBits + StopBits + 1)
  BY RxSizes
<1>2. Wave(start, ws) \in [Nat -> BOOLEAN] BY DEF Wave
<1>3. ASSUME NEW k \in 1..Len(ws) PROVE WordAt(Wave(start, ws), start[k], ws[k])
  <2>1. ws[k] \in Frames OBVIOUS
  <2>2. PICK s \in Nat : s = start[k] OBVIOUS
  <2>3. \A i \in 0..Rx!PduBits : Wave(start, ws)[s + i] = Rx!Levels(ws[k])[i + 1] BY <2>2, WaveIs
  <2> DEFINE L == Rx!Levels(ws[k])
             w == Wave(start, ws)
  <2>4. L[1] = FALSE /\ (\A i \in 1..DataBits : L[i + 1] = ws[k].bits[i])
        /\ (Parity => L[DataBits + 2] = ws[k].parity)
        /\ (\A i \in (Rx!PduBits - StopBits + 2)..(Rx!PduBits + 1) : L[i] = TRUE)
    BY <2>1, LevelsAre
  <2> HIDE DEF L, w
  <2>5. \A i \in 0..Rx!PduBits : w[s + i] = L[i + 1] BY <2>3 DEF L, w
  <2>6. w[s] = FALSE
    <3>1. PICK i \in 0..Rx!PduBits : i = 0 BY <1>1
    <3>2. s + i = s /\ i + 1 = 1 BY <3>1
    <3> QED BY <2>4, <2>5, <3>2
  <2>7. ASSUME NEW i \in 1..DataBits PROVE w[s + i] = ws[k].bits[i]
    <3>1. i \in 0..Rx!PduBits BY <1>1
    <3> QED BY <2>4, <2>5, <3>1
  <2>8. ASSUME Parity PROVE w[s + DataBits + 1] = ws[k].parity
    <3>1. DataBits + 1 \in 0..Rx!PduBits /\ s + (DataBits + 1) = s + DataBits + 1 /\ (DataBits + 1) + 1 = DataBits + 2
      BY <1>1, <2>8
    <3>2. w[s + (DataBits + 1)] = L[(DataBits + 1) + 1] BY <2>5, <3>1
    <3> QED BY <2>4, <2>8, <3>1, <3>2
  <2>9. ASSUME NEW t \in (s + Rx!PduBits - StopBits + 1)..(s + Rx!PduBits) PROVE w[t] = TRUE
    <3>1. PICK i \in 0..Rx!PduBits : t = s + i
      <4>1. t - s \in 0..Rx!PduBits /\ t = s + (t - s) BY <1>1
      <4> QED BY <4>1
    <3>2. i + 1 \in (Rx!PduBits - StopBits + 2)..(Rx!PduBits + 1) BY <1>1, <3>1
    <3> QED BY <2>4, <2>5, <3>1, <3>2
  <2> QED BY <2>2, <2>6, <2>7, <2>8, <2>9 DEF WordAt, w
<1>4. ASSUME NEW t \in Nat, \A k \in 1..Len(ws) : ~(t \in start[k]..(start[k] + Rx!PduBits))
      PROVE  Wave(start, ws)[t] = TRUE
  BY <1>4 DEF Wave
<1> QED BY <1>2, <1>3, <1>4 DEF Drawn

\* The level has been the same for n bits, from bit r.last + 1 of a word on.
Level(wave, s, r, n, level) ==
    \A t \in (s + r.last + 2)..(s + r.last + 1 + n) : wave[t] = level

\* The data bits that one level makes.
LEMMA DataTaken ==
  ASSUME Rx!SerialConstants, NEW f \in Frames, NEW wave, NEW s \in Nat, WordAt(wave, s, f),
         NEW r \in Words, Holds(r, f), NEW n \in Nat, NEW level \in BOOLEAN, Level(wave, s, r, n, level),
         NEW d, d = Rx!DataBitsOf(r, n, level)
  PROVE  /\ d[1] \in Words /\ Holds(d[1], f)
         /\ d[2] \in Nat /\ d[1].last + d[2] = r.last + n
         /\ d[2] > 0 => d[1].last >= DataBits - 1
         /\ r.last <= d[1].last
<1>1. DataBits \in Nat /\ DataBits >= 1 /\ StopBits \in Nat /\ Rx!PduBits \in Nat
      /\ Rx!PduBits >= DataBits + StopBits
  BY RxSizes
<1>2. r.last \in Int /\ r.bits \in Seq(BOOLEAN) /\ r.parity \in BOOLEAN BY DEF Words
<1>3. PICK last \in Int : last = r.last BY <1>2
<1>4. CASE n > 0 /\ last < DataBits - 1
  <2> DEFINE k == IF n < DataBits - 1 - last THEN n ELSE DataBits - 1 - last
             more == [i \in 1..k |-> level]
             q == [r EXCEPT !.last = last + k, !.bits = r.bits \o more]
  <2>1. d = <<q, n - k>> BY <1>3, <1>4 DEF Rx!DataBitsOf
  <2>2. k \in Nat /\ k <= n /\ last + k <= DataBits - 1 /\ (k < n => last + k = DataBits - 1)
    BY <1>1, <1>3, <1>4
  <2> HIDE DEF k
  <2>3. more \in Seq(BOOLEAN) /\ Len(more) = k BY <2>2
  <2>12. \A i \in 1..k : more[i] = level OBVIOUS
  <2> HIDE DEF more
  <2>4. q.last = last + k /\ q.bits = r.bits \o more /\ q.parity = r.parity BY <1>2, <2>3 DEF Words
  <2>5. q \in Words
    <3>1. r.bits \o more \in Seq(BOOLEAN) BY <1>2, <2>3, ConcatProperties
    <3>2. last + k \in Int BY <2>2
    <3> QED BY <3>1, <3>2 DEF Words
  <2> HIDE DEF q
  <2>6. last \in -1..(Rx!PduBits - 1 - StopBits) /\ Len(r.bits) = last + 1 /\ r.parity = FALSE
    <3>1. /\ last \in -1..(Rx!PduBits - 1 - StopBits)
          /\ Len(r.bits) = (IF last + 1 < DataBits THEN last + 1 ELSE DataBits)
          /\ r.parity = (last = DataBits /\ f.parity)
      BY <1>3 DEF Holds
    <3>2. last # DataBits /\ last + 1 < DataBits BY <1>1, <1>4
    <3> QED BY <3>1, <3>2
  <2>13. \A i \in 1..Len(r.bits) : r.bits[i] = f.bits[i] BY DEF Holds
  <2>7. /\ Len(q.bits) = last + 1 + k
        /\ \A i \in 1..(last + 1 + k) : q.bits[i] = IF i <= last + 1 THEN r.bits[i] ELSE more[i - (last + 1)]
    <3>1. /\ Len(q.bits) = Len(r.bits) + Len(more)
          /\ \A i \in 1..(Len(r.bits) + Len(more)) :
                q.bits[i] = IF i <= Len(r.bits) THEN r.bits[i] ELSE more[i - Len(r.bits)]
      <4>1. /\ Len(r.bits \o more) = Len(r.bits) + Len(more)
            /\ \A i \in 1..(Len(r.bits) + Len(more)) :
                (r.bits \o more)[i] = IF i <= Len(r.bits) THEN r.bits[i] ELSE more[i - Len(r.bits)]
        BY <1>2, <2>3, ConcatProperties
      <4> QED BY <2>4, <4>1
    <3> QED BY <2>3, <2>6, <3>1
  <2>8. ASSUME NEW i \in 1..Len(q.bits) PROVE q.bits[i] = f.bits[i]
    <3>1. i \in 1..(last + 1 + k) BY <2>7
    <3>2. CASE i <= last + 1
      <4>1. i \in 1..Len(r.bits) BY <2>6, <3>1, <3>2
      <4> QED BY <2>7, <2>13, <3>1, <3>2, <4>1
    <3>3. CASE ~(i <= last + 1)
      <4>1. i - (last + 1) \in 1..k /\ i \in 1..DataBits BY <1>1, <2>2, <2>6, <3>1, <3>3
      <4>2. q.bits[i] = level BY <2>7, <2>12, <3>1, <3>3, <4>1
      <4>3. s + i \in (s + last + 2)..(s + last + 1 + n) BY <2>2, <3>1, <3>3
      <4>4. wave[s + i] = level BY <1>3, <4>3 DEF Level
      <4> QED BY <4>1, <4>2, <4>4 DEF WordAt
    <3> QED BY <3>2, <3>3
  <2>9. Holds(q, f)
    <3>1. q.last \in -1..(Rx!PduBits - 1 - StopBits) BY <1>1, <2>2, <2>4, <2>6
    <3>2. Len(q.bits) = (IF q.last + 1 < DataBits THEN q.last + 1 ELSE DataBits) BY <1>1, <2>2, <2>4, <2>6, <2>7
    <3>3. q.parity = (q.last = DataBits /\ f.parity)
      <4>1. q.last # DataBits BY <1>1, <2>2, <2>4, <2>6
      <4> QED BY <2>4, <2>6, <4>1
    <3> QED BY <2>8, <3>1, <3>2, <3>3 DEF Holds
  <2>10. d[1] = q /\ d[2] = n - k BY <2>1
  <2>11. n - k \in Nat /\ q.last + (n - k) = last + n /\ (n - k > 0 => q.last >= DataBits - 1)
    BY <1>1, <2>2, <2>4
  <2>14. last <= q.last BY <2>2, <2>4
  <2> QED BY <1>3, <2>5, <2>9, <2>10, <2>11, <2>14
<1>5. CASE ~(n > 0 /\ last < DataBits - 1)
  <2>1. d = <<r, n>> BY <1>3, <1>5 DEF Rx!DataBitsOf
  <2>2. d[1] = r /\ d[2] = n BY <2>1
  <2>3. n > 0 => last >= DataBits - 1 BY <1>1, <1>3, <1>5
  <2> QED BY <1>3, <2>2, <2>3
<1> QED BY <1>4, <1>5

\* The parity bit.
LEMMA ParityTaken ==
  ASSUME Rx!SerialConstants, NEW f \in Frames, NEW wave, NEW s \in Nat, WordAt(wave, s, f),
         NEW r \in Words, Holds(r, f), NEW n \in Nat, NEW level \in BOOLEAN, Level(wave, s, r, n, level),
         n > 0 => r.last >= DataBits - 1,
         NEW d, d = Rx!ParityBit(r, n, level)
  PROVE  /\ d[1] \in Words /\ Holds(d[1], f)
         /\ d[2] \in Nat /\ d[1].last + d[2] = r.last + n
         /\ d[2] > 0 => d[1].last = Rx!PduBits - 1 - StopBits
<1>1. DataBits \in Nat /\ DataBits >= 1 /\ StopBits \in Nat /\ Rx!PduBits \in Nat /\ Parity \in BOOLEAN
      /\ (Parity = TRUE => Rx!PduBits = DataBits + 1 + StopBits)
      /\ (Parity = FALSE => Rx!PduBits = DataBits + StopBits)
  BY RxSizes
<1>2. r.last \in Int /\ r.bits \in Seq(BOOLEAN) /\ r.parity \in BOOLEAN BY DEF Words
<1>3. PICK last \in Int : last = r.last BY <1>2
<1>4. last \in -1..(Rx!PduBits - 1 - StopBits)
      /\ Len(r.bits) = (IF last + 1 < DataBits THEN last + 1 ELSE DataBits)
      /\ (\A i \in 1..Len(r.bits) : r.bits[i] = f.bits[i])
  BY <1>3 DEF Holds
<1>5. CASE n > 0 /\ Parity = TRUE /\ last = DataBits - 1
  <2> DEFINE q == [r EXCEPT !.last = last + 1, !.parity = level]
  <2>1. d = <<q, n - 1>> BY <1>3, <1>5 DEF Rx!ParityBit
  <2>2. q.last = last + 1 /\ q.bits = r.bits /\ q.parity = level BY <1>2 DEF Words
  <2>3. q \in Words
    <3>1. last + 1 \in Int OBVIOUS
    <3> QED BY <3>1 DEF Words
  <2> HIDE DEF q
  <2>4. level = f.parity
    <3>1. s + DataBits + 1 \in (s + r.last + 2)..(s + r.last + 1 + n) BY <1>1, <1>3, <1>5
    <3>2. wave[s + DataBits + 1] = level BY <3>1 DEF Level
    <3>3. wave[s + DataBits + 1] = f.parity BY <1>5 DEF WordAt
    <3> QED BY <3>2, <3>3
  <2>5. q.parity = (q.last = DataBits /\ f.parity)
    <3>1. q.last = DataBits BY <1>1, <1>5, <2>2
    <3> QED BY <2>2, <2>4, <3>1, FrameIs
  <2>6. q.last \in -1..(Rx!PduBits - 1 - StopBits) /\ Len(q.bits) = (IF q.last + 1 < DataBits THEN q.last + 1 ELSE DataBits)
        /\ q.last = Rx!PduBits - 1 - StopBits
    BY <1>1, <1>4, <1>5, <2>2
  <2>7. Holds(q, f) BY <1>4, <2>2, <2>5, <2>6 DEF Holds
  <2>8. d[1] = q /\ d[2] = n - 1 BY <2>1
  <2>9. n - 1 \in Nat /\ q.last + (n - 1) = last + n BY <1>5, <2>2
  <2> QED BY <1>3, <2>3, <2>6, <2>7, <2>8, <2>9
<1>6. CASE ~(n > 0 /\ Parity = TRUE /\ last = DataBits - 1)
  <2>1. d = <<r, n>> BY <1>1, <1>3, <1>6 DEF Rx!ParityBit
  <2>2. d[1] = r /\ d[2] = n BY <2>1
  <2>3. n > 0 => last >= DataBits - 1 BY <1>3
  <2>4. n > 0 => last = Rx!PduBits - 1 - StopBits BY <1>1, <1>4, <1>6, <2>3
  <2> QED BY <1>3, <2>2, <2>4
<1> QED BY <1>5, <1>6

\* A word goes on, up to its stop bits.
LEMMA WordTaken ==
  ASSUME Rx!SerialConstants, NEW f \in Frames, NEW wave, NEW s \in Nat, WordAt(wave, s, f),
         NEW r \in Words, Holds(r, f), NEW n \in Nat, NEW level \in BOOLEAN, Level(wave, s, r, n, level),
         NEW d, d = Rx!DataBitsOf(r, n, level), NEW w, w = Rx!ParityBit(d[1], d[2], level)
  PROVE  /\ w[1] \in Words /\ Holds(w[1], f)
         /\ w[2] \in Nat /\ w[1].last + w[2] = r.last + n
         /\ w[2] > 0 => w[1].last = Rx!PduBits - 1 - StopBits
<1>1. /\ d[1] \in Words /\ Holds(d[1], f)
      /\ d[2] \in Nat /\ d[1].last + d[2] = r.last + n
      /\ d[2] > 0 => d[1].last >= DataBits - 1
  BY DataTaken
<1>2. PICK a \in Int : a = r.last BY DEF Words
<1>3. PICK b \in Int : b = d[1].last BY <1>1 DEF Words
<1>4. PICK m \in Nat : m = d[2] BY <1>1
<1>5. b + m = a + n /\ b >= a
  <2>1. b + m = a + n BY <1>1, <1>2, <1>3, <1>4
  <2>2. b >= a BY <1>2, <1>3, DataTaken
  <2> QED BY <2>1, <2>2
<1>6. Level(wave, s, d[1], d[2], level)
  <2> SUFFICES ASSUME NEW t \in (s + b + 2)..(s + b + 1 + m) PROVE wave[t] = level
    BY <1>3, <1>4 DEF Level
  <2>1. t \in (s + a + 2)..(s + a + 1 + n) BY <1>5
  <2> QED BY <1>2, <2>1 DEF Level
<1>7. /\ w[1] \in Words /\ Holds(w[1], f)
      /\ w[2] \in Nat /\ w[1].last + w[2] = d[1].last + d[2]
      /\ w[2] > 0 => w[1].last = Rx!PduBits - 1 - StopBits
  BY <1>1, <1>6, ParityTaken
<1> QED BY <1>1, <1>7

\* An edge is where rxBits() can use it: no later than the next change of the
\* line, and not between two stop bits.
Usable(start, wave, edge) ==
    /\ edge \in [tick : Nat, level : BOOLEAN] /\ lastTick.tick <= edge.tick /\ edge.tick <= MaxTime
    /\ \A t \in lastTick.tick..(edge.tick - 1) : wave[t] = lastTick.level
    /\ \A k \in 1..Len(sent) :
          ~(edge.tick \in (start[k] + Rx!PduBits - StopBits + 2)..(start[k] + Rx!PduBits))

\* What there is of a word without its stop bits is the word.
LEMMA WholeWord ==
  ASSUME Rx!SerialConstants, NEW f \in Frames, NEW r \in Words, Holds(r, f),
         r.last = Rx!PduBits - 1 - StopBits
  PROVE  [bits |-> r.bits, parity |-> r.parity] = f
<1>1. DataBits \in Nat /\ DataBits >= 1 /\ StopBits \in Nat /\ Rx!PduBits \in Nat /\ Parity \in BOOLEAN
      /\ (Parity = TRUE => Rx!PduBits = DataBits + 1 + StopBits)
      /\ (Parity = FALSE => Rx!PduBits = DataBits + StopBits)
  BY RxSizes
<1>2. f.bits \in Seq(BOOLEAN) /\ Len(f.bits) = DataBits /\ f.parity \in BOOLEAN /\ (Parity = FALSE => f.parity = FALSE)
      /\ f = [bits |-> f.bits, parity |-> f.parity]
  BY FrameIs
<1>3. r.last >= DataBits - 1 /\ r.last \in Int /\ (Parity = TRUE => r.last = DataBits) /\ (Parity = FALSE => r.last # DataBits)
  BY <1>1
<1>4. r.bits = f.bits
  <2>1. Len(r.bits) = DataBits BY <1>1, <1>3 DEF Holds
  <2>2. r.bits \in Seq(BOOLEAN) BY DEF Words
  <2>3. \A i \in 1..Len(r.bits) : r.bits[i] = f.bits[i] BY DEF Holds
  <2> QED BY <1>2, <2>1, <2>2, <2>3, SeqEqual
<1>5. r.parity = f.parity
  <2>1. r.parity = (r.last = DataBits /\ f.parity) BY DEF Holds
  <2> QED BY <1>1, <1>2, <1>3, <2>1
<1> QED BY <1>2, <1>4, <1>5

\* rxBits() has r of the word after those made, and m more bits to the edge.
Within(start, edge, r, m) ==
    /\ Len(Made) < Len(sent) /\ \A k \in 1..Len(Made) : Made[k] = sent[k]
    /\ Holds(r, sent[Len(Made) + 1])
    /\ start[Len(Made) + 1] + r.last + 2 + m = edge.tick
    /\ lastTick.tick <= start[Len(Made) + 1] + r.last + 2

\* What RxBitsOf does with the word w[1] and the w[2] bits that are left of n.
Finish(edge, w) ==
    LET complete == w[2] > 0 /\ Rx!StopBit(w[1], w[2], lastTick.level)
    IN  /\ lastTick' = edge
        /\ rx' = (IF w[2] > 0 THEN [last |-> Rx!PduBits - 1, bits |-> <<>>, parity |-> FALSE] ELSE w[1])
        /\ rxBuffer' = (IF complete /\ Len(rxBuffer) < RxCapacity
                        THEN Append(rxBuffer, [bits |-> w[1].bits, parity |-> w[1].parity]) ELSE rxBuffer)
        /\ ~(complete /\ Len(rxBuffer) = RxCapacity)
        /\ received' = received /\ sent' = sent

\* Within a word, up to an edge: the word goes on, or it is complete.
LEMMA InWord ==
  ASSUME Rx!SerialConstants, Working, NEW start \in [1..Len(sent) -> 1..MaxTime], Apart(start, sent),
         NEW wave, Drawn(start, wave, sent), NEW edge, Usable(start, wave, edge),
         NEW r \in Words, NEW m \in Nat, Within(start, edge, r, m),
         NEW d, d = Rx!DataBitsOf(r, m, lastTick.level), NEW w, w = Rx!ParityBit(d[1], d[2], lastTick.level),
         Finish(edge, w)
  PROVE  Decoded(start)' /\ Working'
<1>j. PICK j \in Nat : j = Len(Made) BY ConcatProperties DEF Working, Made
<1>c. PICK c \in Nat : c = Len(sent) BY DEF Working
<1>1. j + 1 \in 1..c BY <1>j, <1>c DEF Within
<1>f. PICK f \in Frames : f = sent[j + 1] BY <1>1, <1>c DEF Working
<1>s. PICK s \in Nat : s = start[j + 1] BY <1>1, <1>c
<1>a. PICK a \in Int : a = r.last BY DEF Words
<1>x. PICK x \in Nat : x = edge.tick BY DEF Usable
<1>l. PICK l \in Nat : l = lastTick.tick BY DEF Working
<1>2. WordAt(wave, s, f) BY <1>1, <1>c, <1>f, <1>s DEF Drawn
<1>3. x = s + a + 2 + m /\ l <= s + a + 2 BY <1>j, <1>s, <1>a, <1>x, <1>l DEF Within
<1>4. Level(wave, s, r, m, lastTick.level)
  <2> SUFFICES ASSUME NEW t \in (s + a + 2)..(s + a + 1 + m) PROVE wave[t] = lastTick.level
    BY <1>a DEF Level
  <2>1. t \in l..(x - 1) BY <1>3
  <2> QED BY <2>1, <1>l, <1>x DEF Usable
<1>5. lastTick.level \in BOOLEAN BY DEF Working
<1>6. /\ w[1] \in Words /\ Holds(w[1], f)
      /\ w[2] \in Nat /\ w[1].last + w[2] = a + m
      /\ w[2] > 0 => w[1].last = Rx!PduBits - 1 - StopBits
  <2>1. Holds(r, f) BY <1>j, <1>f DEF Within
  <2> QED BY <1>a, <1>2, <1>4, <1>5, <2>1, WordTaken
<1>b. PICK b \in Int : b = w[1].last BY <1>6 DEF Words
<1>n. PICK n \in Nat : n = w[2] BY <1>6
<1>10. b + n = a + m /\ (n > 0 => b = Rx!PduBits - 1 - StopBits) BY <1>6, <1>b, <1>n
<1>7. DataBits \in Nat /\ DataBits >= 1 /\ StopBits \in Nat /\ StopBits >= 1 /\ Rx!PduBits \in Nat
      /\ Rx!PduBits >= DataBits + StopBits /\ Len(rxBuffer) \in Nat /\ RxCapacity \in Nat /\ MaxTime \in Nat
  <2>1. RxCapacity \in Nat /\ MaxTime \in Nat BY DEF Rx!SerialConstants
  <2>2. Len(rxBuffer) \in Nat BY DEF Working
  <2>3. Rx!PduBits >= DataBits + StopBits BY RxSizes
  <2> QED BY <2>1, <2>2, <2>3, RxSizes
<1>8. CASE n = 0
  <2>1. rx' = w[1] /\ rxBuffer' = rxBuffer /\ lastTick' = edge /\ received' = received /\ sent' = sent
    BY <1>8, <1>n DEF Finish
  <2>2. Made' = Made BY <2>1 DEF Made
  <2>3. x = s + b + 2 BY <1>3, <1>10, <1>8
  <2>4. Mid(start, j)'
    <3>1. Holds(rx, sent[j + 1])' BY <1>6, <1>f, <2>1 DEF Holds
    <3>2. (j < Len(sent))' BY <1>1, <1>c, <2>1
    <3>3. (lastTick.tick = start[j + 1] + rx.last + 2)' BY <1>s, <1>x, <1>b, <2>1, <2>3
    <3> QED BY <3>1, <3>2, <3>3 DEF Mid
  <2>5. Decoded(start)'
    <3>1. (\A k \in 1..Len(Made) : Made[k] = sent[k])' BY <2>1, <2>2 DEF Within
    <3>2. (Len(Made) <= Len(sent))' BY <1>1, <1>j, <1>c, <2>1, <2>2
    <3> QED BY <1>j, <2>2, <2>4, <3>1, <3>2 DEF Decoded
  <2>6. Working' BY <1>6, <2>1 DEF Working, Usable
  <2> QED BY <2>5, <2>6
<1>9. CASE n > 0
  <2>1. b = Rx!PduBits - 1 - StopBits /\ x = s + b + 2 + n BY <1>3, <1>10, <1>9
  <2>2. x > s + Rx!PduBits
    <3>1. ~(x \in (s + Rx!PduBits - StopBits + 2)..(s + Rx!PduBits)) BY <1>1, <1>c, <1>s, <1>x DEF Usable
    <3> QED BY <1>7, <1>9, <2>1, <3>1
  <2>3. a <= b /\ b + 1 <= a + m
    <3>1. a \in -1..(Rx!PduBits - 1 - StopBits) BY <1>a DEF Holds, Within
    <3> QED BY <1>7, <1>10, <1>9, <2>1, <3>1
  <2>4. lastTick.level = TRUE
    <3>1. s + b + 2 \in (s + a + 2)..(s + a + 1 + m) BY <2>3
    <3>2. wave[s + b + 2] = lastTick.level BY <1>a, <1>4, <3>1 DEF Level
    <3>3. s + b + 2 \in (s + Rx!PduBits - StopBits + 1)..(s + Rx!PduBits) BY <1>7, <2>1
    <3>4. wave[s + b + 2] = TRUE BY <1>2, <3>3 DEF WordAt
    <3> QED BY <3>2, <3>4
  <2>5. Rx!StopBit(w[1], w[2], lastTick.level)
    <3>1. n >= Rx!PduBits - 1 - b BY <1>7, <2>1, <2>2
    <3> QED BY <1>b, <1>n, <2>4, <3>1 DEF Rx!StopBit
  <2>6. [bits |-> w[1].bits, parity |-> w[1].parity] = f BY <1>6, <1>b, <2>1, WholeWord
  <2>7. Len(rxBuffer) < RxCapacity
    <3>1. Len(rxBuffer) # RxCapacity BY <1>9, <1>n, <2>5 DEF Finish
    <3>2. Len(rxBuffer) <= RxCapacity BY DEF Working
    <3> QED BY <1>7, <3>1, <3>2
  <2>8. /\ rxBuffer' = Append(rxBuffer, f) /\ rx' = [last |-> Rx!PduBits - 1, bits |-> <<>>, parity |-> FALSE]
        /\ lastTick' = edge /\ received' = received /\ sent' = sent
    BY <1>9, <1>n, <2>5, <2>6, <2>7 DEF Finish
  <2>9. rxBuffer \in Seq(Frames) /\ received \in Seq(Frames) BY DEF Working
  <2>10. /\ rxBuffer' \in Seq(Frames) /\ Len(rxBuffer') = Len(rxBuffer) + 1
         /\ Made' \in Seq(Frames) /\ Len(Made') = j + 1
         /\ \A k \in 1..j : Made'[k] = Made[k]
         /\ Made'[j + 1] = f
    <3>1. rxBuffer' = rxBuffer \o <<f>> BY ONLY f \in Frames, <2>8, <2>9, AppendIsConcat
    <3>5. <<f>> \in Seq(Frames) OBVIOUS
    <3>2. Made' = Made \o <<f>> BY <2>8, <2>9, <3>1, <3>5, ConcatAssociative DEF Made
    <3>3. Made \in Seq(Frames) BY <2>9, ConcatProperties DEF Made
    <3>4. Made' = Append(Made, f) BY <3>2, <3>3, AppendIsConcat
    <3>6. /\ Made' \in Seq(Frames) /\ Len(Made') = j + 1
          /\ \A k \in 1..j : Made'[k] = Made[k]
          /\ Made'[j + 1] = f
      BY <1>j, <3>3, <3>4, AppendProperties
    <3>7. rxBuffer' \in Seq(Frames) /\ Len(rxBuffer') = Len(rxBuffer) + 1 BY <2>8, <2>9, AppendProperties
    <3> QED BY <3>6, <3>7
  <2>11. \A k \in 1..(j + 1) : Made'[k] = sent'[k]
    <3> SUFFICES ASSUME NEW k \in 1..(j + 1) PROVE Made'[k] = sent[k] BY <2>8
    <3>1. k \in 1..j \/ k = j + 1 OBVIOUS
    <3>2. \A i \in 1..j : Made[i] = sent[i] BY <1>j DEF Within
    <3> QED BY <1>f, <2>10, <3>1, <3>2
  <2>12. Idle(start, j + 1)'
    <3>1. ASSUME j + 1 < c PROVE x <= start[j + 2]
      <4>1. j + 2 \in 1..c BY <3>1
      <4>e. PICK e \in Nat : e = start[j + 2] BY <1>c, <4>1
      <4>2. wave[e] = FALSE BY <1>c, <4>1, <4>e DEF Drawn, WordAt
      <4>3. s + Rx!PduBits < e
        <5>1. j + 1 < j + 2 OBVIOUS
        <5> QED BY <1>1, <1>c, <1>s, <4>1, <4>e, <5>1 DEF Apart
      <4>4. ~(e \in l..(x - 1)) BY <1>l, <1>x, <2>4, <4>2 DEF Usable
      <4>5. l <= e BY <1>3, <1>7, <2>1, <2>3, <4>3
      <4>6. x <= e BY <4>4, <4>5
      <4> QED BY <4>e, <4>6
    <3>2. s + Rx!PduBits < x BY <2>2
    <3>3. (j + 1) + 1 = j + 2 OBVIOUS
    <3> QED BY <1>c, <1>s, <1>x, <2>8, <3>1, <3>2, <3>3 DEF Idle
  <2>13. Decoded(start)'
    <3>1. (Len(Made) <= Len(sent))' BY <1>1, <1>c, <2>8, <2>10
    <3> QED BY <2>10, <2>11, <2>12, <3>1 DEF Decoded
  <2>14. rx' \in Words
    <3>1. Rx!PduBits - 1 \in Int /\ <<>> \in Seq(BOOLEAN) BY <1>7
    <3> QED BY <2>8, <3>1 DEF Words
  <2>15. Working'
    <3>1. Len(rxBuffer') <= RxCapacity BY <1>7, <2>7, <2>10
    <3>2. edge \in [tick : Nat, level : BOOLEAN] BY DEF Usable
    <3> QED BY <2>8, <2>10, <2>14, <3>1, <3>2 DEF Working
  <2> QED BY <2>13, <2>15
<1>11. n = 0 \/ n > 0 OBVIOUS
<1> QED BY <1>8, <1>9, <1>11

\* Ticks are not so many that a difference of two wraps around.
LEMMA NoWrap ==
  ASSUME NEW a \in Nat, NEW m \in Nat, a < m PROVE a % m = a
OBVIOUS

\* An edge that rxBits() can use brings it to where the edge is.
LEMMA EdgeTaken ==
  ASSUME Rx!SerialConstants, Working, NEW start \in [1..Len(sent) -> 1..MaxTime], Apart(start, sent),
         NEW wave, Drawn(start, wave, sent), Decoded(start), NEW edge, Usable(start, wave, edge),
         Rx!RxBitsOf(edge), ~overflow', received' = received, sent' = sent
  PROVE  Decoded(start)' /\ Working'
<1>j. PICK j \in Nat : j = Len(Made) BY ConcatProperties DEF Working, Made
<1>c. PICK c \in Nat : c = Len(sent) BY DEF Working
<1>x. PICK x \in Nat : x = edge.tick BY DEF Usable
<1>l. PICK l \in Nat : l = lastTick.tick BY DEF Working
<1>v. PICK v \in BOOLEAN : v = lastTick.level BY DEF Working
<1>1. l <= x /\ x <= MaxTime BY <1>x, <1>l DEF Usable
<1>n. PICK n \in Nat : n = x - l BY <1>1
<1>2. (edge.tick - lastTick.tick) % TickMod = n
  <2>1. MaxTime \in Nat /\ TickMod \in Nat /\ TickMod > MaxTime BY RxSizes DEF Rx!SerialConstants
  <2>2. n < TickMod BY <1>1, <1>n, <2>1
  <2>3. edge.tick - lastTick.tick = n BY <1>x, <1>l, <1>n
  <2> QED BY <2>1, <2>2, <2>3, NoWrap
<1> DEFINE s1 == Rx!StartBit(rx, n, v)
           d == Rx!DataBitsOf(s1[1], s1[2], v)
           w == Rx!ParityBit(d[1], d[2], v)
<1>3. Rx!Word(n, v) = w BY DEF Rx!Word
<1>4. Finish(edge, w)
  <2>1. Rx!Word((edge.tick - lastTick.tick) % TickMod, lastTick.level) = w BY <1>2, <1>3, <1>v
  <2> HIDE DEF w
  <2> QED BY <2>1 DEF Finish, Rx!RxBitsOf
<1>5. DataBits \in Nat /\ DataBits >= 1 /\ StopBits \in Nat /\ StopBits >= 1 /\ Rx!PduBits \in Nat
      /\ Rx!PduBits >= DataBits + StopBits
  <2>1. Rx!PduBits >= DataBits + StopBits BY RxSizes
  <2> QED BY <2>1, RxSizes
<1>6. j <= c /\ (\A k \in 1..j : Made[k] = sent[k]) /\ (Idle(start, j) \/ Mid(start, j)) BY <1>j, <1>c DEF Decoded
<1>7. rx \in Words /\ edge \in [tick : Nat, level : BOOLEAN] BY DEF Working, Usable
<1>12. ASSUME Idle(start, j) /\ n > 0 /\ v = FALSE PROVE s1 = <<[rx EXCEPT !.last = -1], n - 1>>
  <2>1. rx.last = Rx!PduBits - 1 BY <1>12 DEF Idle
  <2> QED BY <1>5, <1>12, <2>1 DEF Rx!StartBit
<1>8. CASE Idle(start, j) /\ s1 = <<rx, 0>>
  <2>1. /\ rx = [last |-> Rx!PduBits - 1, bits |-> <<>>, parity |-> FALSE]
        /\ j > 0 => start[j] + Rx!PduBits < l
        /\ j < c => l <= start[j + 1]
    BY <1>8, <1>c, <1>l DEF Idle
  <2>2. d = <<rx, 0>> BY <1>8 DEF Rx!DataBitsOf
  <2>3. w = <<rx, 0>> BY <2>2 DEF Rx!ParityBit
  <2> HIDE DEF w
  <2>4. rx' = rx /\ rxBuffer' = rxBuffer /\ lastTick' = edge BY <1>4, <2>3 DEF Finish
  <2>5. Made' = Made BY <2>4 DEF Made
  <2>6. ASSUME j < c PROVE x <= start[j + 1]
    <3>1. j + 1 \in 1..c BY <2>6
    <3>e. PICK e \in Nat : e = start[j + 1] BY <1>c, <3>1
    <3>2. wave[e] = FALSE BY <1>c, <3>1, <3>e DEF Drawn, WordAt
    <3>3. n = 0 \/ v = TRUE
      <4>0. SUFFICES ASSUME n # 0, v # TRUE PROVE FALSE OBVIOUS
      <4>6. n > 0 BY <1>n, <4>0
      <4>7. ~v BY <1>v, <4>0
      <4>1. rx.last = Rx!PduBits - 1 BY <2>1
      <4>2. s1 = <<[rx EXCEPT !.last = -1], n - 1>> BY <1>8, <1>12, <4>6, <4>7
      <4>3. [rx EXCEPT !.last = -1].last = -1 BY <1>7 DEF Words
      <4>4. s1[1] = rx BY <1>8
      <4>5. s1[1] = [rx EXCEPT !.last = -1] BY <4>2
      <4> HIDE DEF s1
      <4> QED BY <1>5, <4>1, <4>3, <4>4, <4>5
    <3>4. l <= e BY <2>1, <2>6, <3>e
    <3>5. CASE n = 0 BY <1>1, <1>n, <3>4, <3>5, <3>e
    <3>6. CASE v = TRUE
      <4>1. ~(e \in l..(x - 1)) BY <1>l, <1>x, <1>v, <3>2, <3>6 DEF Usable
      <4> QED BY <3>4, <3>e, <4>1
    <3> QED BY <3>3, <3>5, <3>6
  <2>7. ASSUME j > 0 PROVE start[j] + Rx!PduBits < x
    <3>1. j \in 1..c BY <1>6, <2>7
    <3>e. PICK e \in Nat : e = start[j] BY <1>c, <3>1
    <3> QED BY <1>1, <1>5, <2>1, <2>7, <3>e
  <2>8. Idle(start, j)' BY <1>c, <1>x, <2>1, <2>4, <2>6, <2>7 DEF Idle
  <2>9. Decoded(start)' BY <1>6, <1>j, <1>c, <2>5, <2>8 DEF Decoded
  <2>10. Working' BY <1>7, <2>4 DEF Working
  <2> QED BY <2>9, <2>10
<1>9. CASE Idle(start, j) /\ n > 0 /\ v = FALSE
  <2>1. /\ rx = [last |-> Rx!PduBits - 1, bits |-> <<>>, parity |-> FALSE]
        /\ j > 0 => start[j] + Rx!PduBits < l
        /\ j < c => l <= start[j + 1]
    BY <1>9, <1>c, <1>l DEF Idle
  <2>2. s1 = <<[rx EXCEPT !.last = -1], n - 1>> BY <1>9, <1>12
  <2>3. wave[l] = FALSE
    <3>1. l \in l..(x - 1) BY <1>1, <1>n, <1>9
    <3> QED BY <1>l, <1>x, <1>v, <1>9, <3>1 DEF Usable
  <2>4. PICK k \in 1..c : l \in start[k]..(start[k] + Rx!PduBits) BY <1>c, <2>3 DEF Drawn
  <2>e. PICK e \in Nat : e = start[k] BY <1>c
  <2>5. j < k
    <3> SUFFICES ASSUME ~(j < k) PROVE FALSE OBVIOUS
    <3>1. j > 0 /\ j \in 1..c BY <1>6
    <3>g. PICK g \in Nat : g = start[j] BY <1>c, <3>1
    <3>2. g + Rx!PduBits < l BY <2>1, <3>1, <3>g
    <3>3. k < j => e + Rx!PduBits < g BY <1>c, <2>e, <3>1, <3>g DEF Apart
    <3>4. k = j => e = g BY <2>e, <3>g
    <3> QED BY <1>5, <2>4, <2>e, <3>2, <3>3, <3>4
  <2>6. j + 1 \in 1..c /\ j < c BY <2>5
  <2>g. PICK g \in Nat : g = start[j + 1] BY <1>c, <2>6
  <2>7. l = g
    <3>1. l <= g BY <2>1, <2>6, <2>g
    <3>2. j + 1 < k => g + Rx!PduBits < e BY <1>c, <2>6, <2>e, <2>g DEF Apart
    <3>3. j + 1 = k => g = e BY <2>e, <2>g
    <3> QED BY <1>5, <2>4, <2>5, <2>e, <3>1, <3>2, <3>3
  <2> DEFINE r == [rx EXCEPT !.last = -1]
  <2>8. rx.bits = <<>> /\ rx.parity = FALSE BY <2>1
  <2>9. r \in Words
    <3>1. -1 \in Int OBVIOUS
    <3> QED BY <1>7, <3>1 DEF Words
  <2>10. r.last = -1 /\ r.bits = <<>> /\ r.parity = FALSE BY <1>7, <2>8 DEF Words
  <2> HIDE DEF r
  <2>11. Holds(r, sent[j + 1])
    <3>1. Len(r.bits) = 0 BY <2>10
    <3>2. r.last \in -1..(Rx!PduBits - 1 - StopBits) /\ r.last # DataBits
          /\ 0 = (IF r.last + 1 < DataBits THEN r.last + 1 ELSE DataBits)
      BY <1>5, <2>10
    <3>3. \A i \in 1..Len(r.bits) : r.bits[i] = sent[j + 1].bits[i] BY <3>1
    <3>4. r.parity = (r.last = DataBits /\ sent[j + 1].parity) BY <2>10, <3>2
    <3> QED BY <3>1, <3>2, <3>3, <3>4 DEF Holds
  <2>12. n - 1 \in Nat /\ g + (-1) + 2 + (n - 1) = x /\ l <= g + (-1) + 2 BY <1>1, <1>n, <1>9, <2>7
  <2>13. Within(start, edge, r, n - 1)
    <3>1. start[j + 1] + r.last + 2 + (n - 1) = edge.tick BY <1>x, <2>10, <2>12, <2>g
    <3>2. lastTick.tick <= start[j + 1] + r.last + 2 BY <1>l, <2>10, <2>12, <2>g
    <3> QED BY <1>6, <1>j, <1>c, <2>6, <2>11, <3>1, <3>2 DEF Within
  <2>14. s1[1] = r /\ s1[2] = n - 1 BY <2>2 DEF r
  <2>15. d = Rx!DataBitsOf(r, n - 1, lastTick.level) /\ w = Rx!ParityBit(d[1], d[2], lastTick.level)
    BY <1>v, <2>14
  <2> HIDE DEF d, w
  <2> QED BY <1>4, <2>9, <2>12, <2>13, <2>15, InWord
<1>10. CASE Mid(start, j)
  <2>1. j < c /\ Holds(rx, sent[j + 1]) /\ l = start[j + 1] + rx.last + 2 BY <1>10, <1>c, <1>l DEF Mid
  <2>2. j + 1 \in 1..c BY <2>1
  <2>g. PICK g \in Nat : g = start[j + 1] BY <1>c, <2>2
  <2>a. PICK a \in Int : a = rx.last BY <1>7 DEF Words
  <2>3. a <= Rx!PduBits - 1 - StopBits BY <1>5, <2>1, <2>a DEF Holds
  <2>4. s1 = <<rx, n>>
    <3>1. ~(a >= Rx!PduBits - 1) BY <1>5, <2>3
    <3> QED BY <2>a, <3>1 DEF Rx!StartBit
  <2>5. s1[1] = rx /\ s1[2] = n BY <2>4
  <2>6. d = Rx!DataBitsOf(rx, n, lastTick.level) /\ w = Rx!ParityBit(d[1], d[2], lastTick.level)
    BY <1>v, <2>5
  <2>7. Within(start, edge, rx, n)
    <3>1. l = g + a + 2 /\ g + a + 2 + n = x BY <1>1, <1>n, <2>1, <2>a, <2>g
    <3>2. start[j + 1] + rx.last + 2 + n = edge.tick BY <1>x, <2>a, <2>g, <3>1
    <3>3. lastTick.tick <= start[j + 1] + rx.last + 2 BY <1>l, <2>a, <2>g, <3>1
    <3> QED BY <1>6, <1>j, <1>c, <2>1, <3>2, <3>3 DEF Within
  <2> HIDE DEF d, w
  <2> QED BY <1>4, <1>7, <2>6, <2>7, InWord
<1>11. Idle(start, j) => s1 = <<rx, 0>> \/ (n > 0 /\ v = FALSE)
  <2>1. Idle(start, j) => rx.last = Rx!PduBits - 1 BY DEF Idle
  <2> QED BY <1>5, <2>1 DEF Rx!StartBit
<1> QED BY <1>6, <1>8, <1>9, <1>10, <1>11

\* Where the receiver is.
Good(start) == RxTypes /\ Looking /\ InTime(start)

\* What depends only on the line, the edges and the words.
LEMMA Unmoved ==
  ASSUME NEW start, InTime(start),
         UNCHANGED <<now, line, rest, sent, isrBuffer, lastTick, rx>>, Made' = Made
  PROVE  InTime(start)'
<1>1. OnLine(start, Wave(start, sent))' BY DEF InTime, OnLine, Apart, Wave
<1>2. Recorded(Wave(start, sent))'
  <2>1. Wave(start, sent)' = Wave(start, sent) BY DEF Wave
  <2> PICK w : w = Wave(start, sent) OBVIOUS
  <2>2. Recorded(w)' BY DEF InTime, Recorded, EdgeAt
  <2> QED BY <2>1, <2>2
<1>3. Decoded(start)' BY DEF InTime, Decoded, Idle, Mid, Holds
<1> QED BY <1>1, <1>2, <1>3 DEF InTime

\* The facts about the line that the steps need.
LEMMA LineIs ==
  ASSUME Rx!SerialConstants, NEW start \in [1..Len(sent) -> 1..MaxTime], Good(start)
  PROVE  /\ MaxTime \in Nat /\ now \in Nat /\ now <= MaxTime
         /\ Apart(start, sent) /\ Drawn(start, Wave(start, sent), sent)
         /\ Wave(start, sent) \in [Nat -> BOOLEAN]
<1>1. MaxTime \in Nat BY DEF Rx!SerialConstants
<1>2. now \in 0..MaxTime /\ sent \in Seq(Frames) BY DEF Good, RxTypes, Working
<1>3. Apart(start, sent) BY DEF Good, InTime, OnLine
<1>4. Drawn(start, Wave(start, sent), sent) BY <1>1, <1>2, <1>3, WaveDrawn
<1>5. Wave(start, sent) \in [Nat -> BOOLEAN] BY <1>4 DEF Drawn
<1> QED BY <1>1, <1>2, <1>3, <1>4, <1>5

\* rxBits() is called.
LEMMA LookStep ==
  ASSUME Rx!SerialConstants, NEW start \in [1..Len(sent) -> 1..MaxTime], Good(start), Rx!CallRxBits
  PROVE  Good(start)'
<1>1. UNCHANGED <<now, line, rest, sent, isrBuffer, lastTick, rx, rxBuffer, received, left, stall>> /\ rxAt = "away" /\ rxAt' = "load"
  BY DEF Rx!CallRxBits, Rx!sender, Rx!program
<1>2. InTime(start)' BY <1>1, Unmoved DEF Good, Made
<1>3. RxTypes' BY <1>1 DEF Good, RxTypes, Working
<1>4. Looking' BY <1>1 DEF Good, Looking
<1> QED BY <1>2, <1>3, <1>4 DEF Good

\* for_each() counts the edges there are.
LEMMA LoadStep ==
  ASSUME Rx!SerialConstants, NEW start \in [1..Len(sent) -> 1..MaxTime], Good(start), Rx!LoadEdges
  PROVE  Good(start)'
<1>1. UNCHANGED <<now, line, rest, sent, isrBuffer, lastTick, rx, rxBuffer, received, stall>> /\ rxAt = "load" /\ rxAt' = "each"
      /\ left' = Len(isrBuffer)
  BY DEF Rx!LoadEdges, Rx!sender, Rx!program
<1>2. InTime(start)' BY <1>1, Unmoved DEF Good, Made
<1>5. Len(isrBuffer) \in Nat BY DEF Good, RxTypes
<1>3. RxTypes' BY <1>1, <1>5 DEF Good, RxTypes, Working
<1>4. Looking' BY <1>1, <1>5 DEF Good, Looking
<1> QED BY <1>2, <1>3, <1>4 DEF Good

\* rxBits() ends, or has seen no new edge and is about to look at the clock.
LEMMA CheckStep ==
  ASSUME Rx!SerialConstants, NEW start \in [1..Len(sent) -> 1..MaxTime], Good(start), Rx!CheckEdges
  PROVE  Good(start)'
<1>1. UNCHANGED <<now, line, rest, sent, isrBuffer, lastTick, rx, rxBuffer, received, stall, left>> /\ rxAt = "each"
      /\ (rxAt' = "away" \/ (rxAt' = "clock" /\ rx.last < Rx!PduBits - 1 /\ isrBuffer = <<>>))
  BY DEF Rx!CheckEdges, Rx!sender, Rx!program
<1>2. InTime(start)' BY <1>1, Unmoved DEF Good, Made
<1>3. RxTypes' BY <1>1 DEF Good, RxTypes, Working
<1>4. Looking'
  <2>1. stall = 0 BY <1>1 DEF Good, Looking
  <2>2. CASE rxAt' = "away" BY <1>1, <2>1, <2>2 DEF Looking
  <2>3. CASE rxAt' = "clock" /\ rx.last < Rx!PduBits - 1 /\ isrBuffer = <<>>
    <3>1. MaxStall \in Nat BY DEF Rx!SerialConstants
    <3>2. stall' <= MaxStall BY <1>1, <2>1, <3>1
    <3>3. Len(isrBuffer') = 0 BY <1>1, <2>3
    <3>4. \A i \in 1..Len(isrBuffer') : isrBuffer'[i].tick > now' - stall' BY <3>3
    <3> QED BY <1>1, <2>3, <3>2, <3>4 DEF Looking
  <2> QED BY <1>1, <2>2, <2>3
<1> QED BY <1>2, <1>3, <1>4 DEF Good

\* read() moves a word from the queue to its caller.
LEMMA ReadWordStep ==
  ASSUME Rx!SerialConstants, NEW start \in [1..Len(sent) -> 1..MaxTime], Good(start), Rx!Read
  PROVE  Good(start)'
<1>1. UNCHANGED <<now, line, rest, sent, isrBuffer, lastTick, rx, stall, left, rxAt>> /\ rxBuffer # <<>>
      /\ received' = Append(received, Head(rxBuffer)) /\ rxBuffer' = Tail(rxBuffer)
  BY DEF Rx!Read, Rx!sender
<1>2. rxBuffer \in Seq(Frames) /\ received \in Seq(Frames) /\ Len(rxBuffer) <= RxCapacity BY DEF Good, RxTypes, Working
<1>3. /\ Head(rxBuffer) \in Frames /\ Tail(rxBuffer) \in Seq(Frames) /\ Len(Tail(rxBuffer)) = Len(rxBuffer) - 1
      /\ rxBuffer = <<Head(rxBuffer)>> \o Tail(rxBuffer)
  <2>1. /\ Head(rxBuffer) \in Frames /\ Tail(rxBuffer) \in Seq(Frames) /\ Len(Tail(rxBuffer)) = Len(rxBuffer) - 1
        /\ \A i \in 1..Len(Tail(rxBuffer)) : Tail(rxBuffer)[i] = rxBuffer[i + 1]
    BY <1>1, <1>2, HeadTailProperties
  <2> DEFINE h == <<Head(rxBuffer)>>
             t == Tail(rxBuffer)
  <2>2. h \in Seq(Frames) /\ Len(h) = 1 /\ h[1] = rxBuffer[1] BY <1>1, <1>2, <2>1
  <2> HIDE DEF h, t
  <2>3. t \in Seq(Frames) /\ Len(rxBuffer) = 1 + Len(t) /\ \A i \in 1..Len(t) : t[i] = rxBuffer[i + 1]
    <3>1. Len(rxBuffer) \in Nat BY <1>2
    <3> QED BY <2>1, <3>1 DEF t
  <2>7. /\ h \o t \in Seq(Frames) /\ Len(h \o t) = Len(h) + Len(t)
        /\ \A i \in 1..(Len(h) + Len(t)) : (h \o t)[i] = IF i <= Len(h) THEN h[i] ELSE t[i - Len(h)]
    BY <2>2, <2>3, ConcatProperties
  <2>4. /\ h \o t \in Seq(Frames) /\ Len(h \o t) = 1 + Len(t)
        /\ \A i \in 1..(1 + Len(t)) : (h \o t)[i] = IF i <= 1 THEN h[i] ELSE t[i - 1]
    BY <2>2, <2>7
  <2>5. ASSUME NEW i \in 1..Len(rxBuffer) PROVE rxBuffer[i] = (h \o t)[i]
    <3>1. Len(t) \in Nat BY <2>3
    <3>2. CASE i = 1 BY <2>2, <2>3, <2>4, <3>1, <3>2
    <3>3. CASE i # 1
      <4>1. i - 1 \in 1..Len(t) /\ (i - 1) + 1 = i /\ i \in 1..(1 + Len(t)) /\ ~(i <= 1) BY <2>3, <3>1, <3>3
      <4>2. (h \o t)[i] = t[i - 1] BY <2>4, <4>1
      <4>3. t[i - 1] = rxBuffer[(i - 1) + 1] BY <2>3, <4>1
      <4> QED BY <4>1, <4>2, <4>3
    <3> QED BY <3>2, <3>3
  <2>6. rxBuffer = h \o t BY <1>2, <2>3, <2>4, <2>5, SeqEqual
  <2> QED BY <2>1, <2>6 DEF h, t
<1>4. received' = received \o <<Head(rxBuffer)>> /\ received' \in Seq(Frames) BY <1>1, <1>2, <1>3, AppendIsConcat, AppendProperties
<1>5. Made' = Made
  <2>1. <<Head(rxBuffer)>> \in Seq(Frames) BY <1>3
  <2>2. (received \o <<Head(rxBuffer)>>) \o Tail(rxBuffer) = received \o (<<Head(rxBuffer)>> \o Tail(rxBuffer))
    BY <1>2, <1>3, <2>1, ConcatAssociative
  <2> QED BY <1>1, <1>3, <1>4, <2>2 DEF Made
<1>6. InTime(start)' BY <1>1, <1>5, Unmoved DEF Good
<1>7. RxTypes'
  <2>1. Len(rxBuffer') <= RxCapacity
    <3>1. Len(rxBuffer) \in Nat /\ RxCapacity \in Nat BY <1>2 DEF Rx!SerialConstants
    <3> QED BY <1>1, <1>2, <1>3, <3>1
  <2> QED BY <1>1, <1>3, <1>4, <2>1 DEF Good, RxTypes, Working
<1>8. Looking' BY <1>1 DEF Good, Looking
<1> QED BY <1>6, <1>7, <1>8 DEF Good

\* Stop bits are high.
LEMMA StopBitsHigh ==
  ASSUME Rx!SerialConstants, NEW start \in [1..Len(sent) -> 1..MaxTime], NEW wave, Drawn(start, wave, sent),
         NEW k \in 1..Len(sent), NEW t \in (start[k] + Rx!PduBits - StopBits + 1)..(start[k] + Rx!PduBits)
  PROVE  wave[t] = TRUE
BY DEF Drawn, WordAt

\* The next edge in the queue is one rxBits() can use.
LEMMA NextUsable ==
  ASSUME Rx!SerialConstants, NEW start \in [1..Len(sent) -> 1..MaxTime], Good(start), Len(isrBuffer) > 0
  PROVE  Usable(start, Wave(start, sent), isrBuffer[1])
<1> PICK w : w = Wave(start, sent) OBVIOUS
<1>n. PICK n \in Nat : n = Len(isrBuffer) BY DEF Good, RxTypes
<1>1. 1 \in 1..n /\ 1 \in 0..n /\ 1 - 1 = 0 BY <1>n
<1>2. EdgeAt(1) = isrBuffer[1] /\ EdgeAt(0) = lastTick BY DEF EdgeAt
<1>e. PICK e \in [tick : Nat, level : BOOLEAN] : e = isrBuffer[1]
  <2>1. isrBuffer \in Seq([tick : Nat, level : BOOLEAN]) BY DEF Good, RxTypes
  <2>2. isrBuffer[1] \in [tick : Nat, level : BOOLEAN] BY <1>1, <1>n, <2>1, ElementOfSeq
  <2> QED BY <2>2
<1>x. PICK x \in Nat : x = e.tick OBVIOUS
<1>3. Recorded(w) BY DEF Good, InTime
<1>4. lastTick.tick <= x /\ w[x - 1] # w[x] /\ (\A t \in lastTick.tick..(x - 1) : w[t] = lastTick.level)
  BY <1>1, <1>2, <1>e, <1>x, <1>n, <1>3 DEF Recorded
<1>5. x <= now BY <1>1, <1>2, <1>e, <1>x, <1>n, <1>3 DEF Recorded
<1>6. x <= MaxTime BY <1>5, LineIs
<1>7. ASSUME NEW k \in 1..Len(sent)
      PROVE  ~(x \in (start[k] + Rx!PduBits - StopBits + 2)..(start[k] + Rx!PduBits))
  <2>1. SUFFICES ASSUME x \in (start[k] + Rx!PduBits - StopBits + 2)..(start[k] + Rx!PduBits) PROVE FALSE OBVIOUS
  <2>s. PICK s \in Nat : s = start[k] OBVIOUS
  <2>2. /\ x \in (s + Rx!PduBits - StopBits + 1)..(s + Rx!PduBits)
        /\ x - 1 \in (s + Rx!PduBits - StopBits + 1)..(s + Rx!PduBits)
    <3>1. x \in (s + Rx!PduBits - StopBits + 2)..(s + Rx!PduBits) BY <2>1, <2>s
    <3>2. Rx!PduBits \in Nat /\ StopBits \in Nat BY RxSizes
    <3> QED BY <1>x, <3>1, <3>2
  <2>3. Drawn(start, w, sent) BY LineIs
  <2>4. w[x] = TRUE /\ w[x - 1] = TRUE BY <2>2, <2>3, <2>s, StopBitsHigh
  <2> QED BY <1>4, <2>4
<1> QED BY <1>e, <1>x, <1>4, <1>6, <1>7 DEF Usable

\* for_each() hands over an edge.
LEMMA EachStep ==
  ASSUME Rx!SerialConstants, NEW start \in [1..Len(sent) -> 1..MaxTime], Good(start), Rx!Each, ~Flagged'
  PROVE  Good(start)'
<1> PICK w : w = Wave(start, sent) OBVIOUS
<1>n. PICK n \in Nat : n = Len(isrBuffer) BY DEF Good, RxTypes
<1>1. /\ rxAt = "each" /\ left > 0 /\ left' = left - 1 /\ rxAt' = rxAt /\ stall' = stall
      /\ Rx!RxBitsOf(Head(isrBuffer)) /\ isrBuffer' = Tail(isrBuffer)
      /\ UNCHANGED <<now, line, rest, sent, received>>
  BY DEF Rx!Each, Rx!sender, Rx!program
<1>2. left <= n /\ left \in Nat /\ stall = 0 BY <1>1, <1>n DEF Good, Looking, RxTypes
<1>3. isrBuffer \in Seq([tick : Nat, level : BOOLEAN]) /\ n > 0 BY <1>1, <1>2 DEF Good, RxTypes
<1>4. /\ isrBuffer # <<>> /\ Head(isrBuffer) = isrBuffer[1] BY <1>3, <1>n
<1>5. /\ isrBuffer' \in Seq([tick : Nat, level : BOOLEAN]) /\ Len(isrBuffer') = n - 1
      /\ \A i \in 1..Len(isrBuffer') : isrBuffer'[i] = isrBuffer[i + 1]
  BY <1>1, <1>3, <1>4, <1>n, HeadTailProperties
<1>6. Usable(start, w, isrBuffer[1]) BY <1>3, <1>n, NextUsable
<1>7. Apart(start, sent) /\ Drawn(start, w, sent) BY LineIs
<1>8. Working /\ Decoded(start) BY DEF Good, RxTypes, InTime
<1>9. ~overflow' BY DEF Flagged
<1>10. Decoded(start)' /\ Working' BY <1>1, <1>4, <1>6, <1>7, <1>8, <1>9, EdgeTaken
<1>11. lastTick' = isrBuffer[1] BY <1>1, <1>4 DEF Rx!RxBitsOf
<1>12. \A i \in 0..(n - 1) : EdgeAt(i)' = EdgeAt(i + 1)
  <2> SUFFICES ASSUME NEW i \in 0..(n - 1) PROVE EdgeAt(i)' = EdgeAt(i + 1) OBVIOUS
  <2>1. CASE i = 0 BY <1>11, <2>1 DEF EdgeAt
  <2>2. CASE i # 0
    <3>1. i \in 1..(n - 1) /\ i + 1 # 0 BY <2>2
    <3> QED BY <1>5, <2>2, <3>1 DEF EdgeAt
  <2> QED BY <2>1, <2>2
<1>13. Recorded(w)'
  <2>1. Recorded(w) BY DEF Good, InTime
  <2>2. \A i \in 0..(n - 1) : (EdgeAt(i).tick <= now)'
    <3> SUFFICES ASSUME NEW i \in 0..(n - 1) PROVE (EdgeAt(i).tick <= now)' OBVIOUS
    <3>1. i + 1 \in 0..n OBVIOUS
    <3>2. EdgeAt(i + 1).tick <= now BY <1>n, <2>1, <3>1 DEF Recorded
    <3> QED BY <1>1, <1>12, <3>2
  <2>3. ASSUME NEW i \in 1..(n - 1)
        PROVE  /\ EdgeAt(i - 1)'.tick <= EdgeAt(i)'.tick
               /\ 1 <= EdgeAt(i)'.tick /\ w[EdgeAt(i)'.tick - 1] # w[EdgeAt(i)'.tick]
               /\ \A t \in EdgeAt(i - 1)'.tick..(EdgeAt(i)'.tick - 1) : w[t] = EdgeAt(i - 1)'.level
    <3>1. i + 1 \in 1..n /\ i - 1 \in 0..(n - 1) /\ i \in 0..(n - 1) /\ (i - 1) + 1 = i /\ (i + 1) - 1 = i OBVIOUS
    <3>2. EdgeAt(i - 1)' = EdgeAt(i) /\ EdgeAt(i)' = EdgeAt(i + 1) BY <1>12, <3>1
    <3>3. /\ EdgeAt(i).tick <= EdgeAt(i + 1).tick
          /\ 1 <= EdgeAt(i + 1).tick /\ w[EdgeAt(i + 1).tick - 1] # w[EdgeAt(i + 1).tick]
          /\ \A t \in EdgeAt(i).tick..(EdgeAt(i + 1).tick - 1) : w[t] = EdgeAt(i).level
      BY <1>n, <2>1, <3>1 DEF Recorded
    <3> QED BY <3>2, <3>3
  <2>4. \A t \in EdgeAt(n - 1)'.tick..now' : w[t] = EdgeAt(n - 1)'.level
    <3>1. n - 1 \in 0..(n - 1) /\ (n - 1) + 1 = n BY <1>3
    <3>2. EdgeAt(n - 1)' = EdgeAt(n) BY <1>12, <3>1
    <3> QED BY <1>1, <1>n, <2>1, <3>2 DEF Recorded
  <2> QED BY <1>5, <2>2, <2>3, <2>4 DEF Recorded
<1>14. Wave(start, sent)' = w BY <1>1 DEF Wave
<1>15. OnLine(start, w)' BY <1>1 DEF Good, InTime, OnLine, Apart
<1>16. InTime(start)' BY <1>10, <1>13, <1>14, <1>15 DEF InTime
<1>17. RxTypes'
  <2>1. left' \in Nat BY <1>1, <1>2
  <2> QED BY <1>1, <1>5, <1>10, <2>1 DEF Good, RxTypes
<1>18. Looking'
  <2>1. left' <= Len(isrBuffer') BY <1>1, <1>2, <1>5
  <2> QED BY <1>1, <1>2, <2>1 DEF Looking
<1> QED BY <1>16, <1>17, <1>18 DEF Good

\* If the time of a word is over, then its stop bits are, up to an edge that
\* was not there when rxBits() looked: the edge it makes up is one it can use.
LEMMA MadeUpUsable ==
  ASSUME Rx!SerialConstants, MaxStall <= StopBits,
         NEW start \in [1..Len(sent) -> 1..MaxTime], Good(start), rxAt = "clock",
         NEW b, b = lastTick.tick + (Rx!PduBits - 1 - rx.last), b <= now
  PROVE  /\ b \in Nat /\ Usable(start, Wave(start, sent), [tick |-> b, level |-> TRUE])
         /\ lastTick.tick < b /\ lastTick.level = TRUE
         /\ Len(isrBuffer) > 0 => b <= isrBuffer[1].tick
<1> PICK w : w = Wave(start, sent) OBVIOUS
<1>0. Drawn(start, w, sent) /\ Apart(start, sent) BY LineIs
<1>n. PICK n \in Nat : n = Len(isrBuffer) BY DEF Good, RxTypes
<1>j. PICK j \in Nat : j = Len(Made) BY ConcatProperties DEF Working, Made, Good, RxTypes
<1>c. PICK c \in Nat : c = Len(sent) BY DEF Working, Good, RxTypes
<1>l. PICK l \in Nat : l = lastTick.tick BY DEF Working, Good, RxTypes
<1>a. PICK a \in Int : a = rx.last BY DEF Working, Words, Good, RxTypes
<1>1. DataBits \in Nat /\ DataBits >= 1 /\ StopBits \in Nat /\ StopBits >= 1 /\ Rx!PduBits \in Nat
      /\ Rx!PduBits >= DataBits + StopBits
  <2>1. Rx!PduBits >= DataBits + StopBits BY RxSizes
  <2> QED BY <2>1, RxSizes
<1>2. a < Rx!PduBits - 1 BY <1>a DEF Good, Looking
<1>3. Mid(start, j)
  <2>1. Idle(start, j) \/ Mid(start, j) BY <1>j DEF Good, InTime, Decoded
  <2>2. Idle(start, j) => a = Rx!PduBits - 1 BY <1>a DEF Idle
  <2> QED BY <1>1, <1>2, <2>1, <2>2
<1>4. j + 1 \in 1..c BY <1>3, <1>j, <1>c DEF Mid
<1>s. PICK s \in Nat : s = start[j + 1] BY <1>4, <1>c
<1>5. l = s + a + 2 /\ -1 <= a /\ a <= Rx!PduBits - 1 - StopBits
  <2>1. a \in -1..(Rx!PduBits - 1 - StopBits) BY <1>3, <1>a DEF Mid, Holds
  <2> QED BY <1>1, <1>3, <1>a, <1>l, <1>s, <2>1 DEF Mid
<1>6. b = s + Rx!PduBits + 1 /\ b \in Nat
  <2>1. b = l + (Rx!PduBits - 1 - a) BY <1>l, <1>a
  <2> QED BY <1>1, <1>5, <2>1
<1>7. now \in Nat /\ now <= MaxTime /\ b <= now /\ MaxTime \in Nat BY LineIs
<1>8. Recorded(w) BY DEF Good, InTime
<1>9. EdgeAt(0) = lastTick /\ EdgeAt(1) = isrBuffer[1] BY DEF EdgeAt
<1>10. /\ n = 0 => \A t \in l..now : w[t] = lastTick.level
       /\ n > 0 => b <= isrBuffer[1].tick /\ \A t \in l..(isrBuffer[1].tick - 1) : w[t] = lastTick.level
  <2>1. CASE n = 0 BY <1>8, <1>9, <1>l, <1>n, <2>1 DEF Recorded
  <2>2. CASE n > 0
    <3>1. 1 \in 1..n /\ 1 - 1 = 0 BY <2>2
    <3>2. /\ \A t \in l..(isrBuffer[1].tick - 1) : w[t] = lastTick.level
      BY <1>8, <1>9, <1>l, <1>n, <3>1 DEF Recorded
    <3>3. Usable(start, w, isrBuffer[1]) BY <1>n, <2>2, NextUsable
    <3>y. PICK y \in Nat : y = isrBuffer[1].tick BY <3>3 DEF Usable
    <3>4. stall <= MaxStall /\ stall \in Nat /\ MaxStall \in Nat BY DEF Good, Looking, RxTypes, Rx!SerialConstants
    <3>5. y > now - stall BY <1>n, <3>1, <3>y DEF Good, Looking
    <3>6. y >= s + Rx!PduBits - StopBits + 2 BY <1>1, <1>6, <1>7, <3>4, <3>5
    <3>7. ~(y \in (s + Rx!PduBits - StopBits + 2)..(s + Rx!PduBits)) BY <1>4, <1>c, <1>s, <3>3, <3>y DEF Usable
    <3>8. b <= y BY <1>1, <1>6, <3>6, <3>7
    <3> QED BY <2>2, <3>2, <3>8, <3>y
  <2> QED BY <1>n, <2>1, <2>2
<1>11. \A t \in l..(b - 1) : w[t] = lastTick.level
  <2> SUFFICES ASSUME NEW t \in l..(b - 1) PROVE w[t] = lastTick.level OBVIOUS
  <2>1. CASE n = 0
    <3>1. t \in l..now BY <1>6, <1>7
    <3> QED BY <1>10, <2>1, <3>1
  <2>2. CASE n > 0
    <3>y. PICK y \in Nat : y = isrBuffer[1].tick BY <1>n, <2>2, NextUsable DEF Usable
    <3>1. t \in l..(y - 1) BY <1>6, <1>10, <2>2, <3>y
    <3> QED BY <1>10, <2>2, <3>1, <3>y
  <2> QED BY <1>n, <2>1, <2>2
<1>12. lastTick.level = TRUE
  <2>1. b - 1 \in l..(b - 1) /\ b - 1 \in (s + Rx!PduBits - StopBits + 1)..(s + Rx!PduBits) BY <1>1, <1>5, <1>6
  <2>2. w[b - 1] = TRUE BY <1>0, <1>4, <1>c, <1>s, <2>1, StopBitsHigh
  <2> QED BY <1>11, <2>1, <2>2
<1>13. ASSUME NEW k \in 1..c
       PROVE  ~(b \in (start[k] + Rx!PduBits - StopBits + 2)..(start[k] + Rx!PduBits))
  <2>k. PICK g \in Nat : g = start[k] BY <1>c
  <2>1. CASE k < j + 1
    <3>1. g + Rx!PduBits < s BY <1>0, <1>4, <1>c, <1>s, <2>k, <2>1 DEF Apart
    <3> QED BY <1>1, <1>6, <2>k, <3>1
  <2>2. CASE k = j + 1 BY <1>1, <1>6, <1>s, <2>k, <2>2
  <2>3. CASE j + 1 < k
    <3>1. s + Rx!PduBits < g BY <1>0, <1>4, <1>c, <1>s, <2>k, <2>3 DEF Apart
    <3> QED BY <1>1, <1>6, <2>k, <3>1
  <2> QED BY <2>1, <2>2, <2>3
<1>14. l < b BY <1>1, <1>5, <1>6
<1>15. Usable(start, w, [tick |-> b, level |-> TRUE])
  <2> DEFINE e == [tick |-> b, level |-> TRUE]
  <2>1. e \in [tick : Nat, level : BOOLEAN] /\ e.tick = b BY <1>6
  <2> HIDE DEF e
  <2>2. lastTick.tick <= b /\ b <= MaxTime BY <1>l, <1>6, <1>7, <1>14
  <2>3. Usable(start, w, e) BY <1>11, <1>13, <1>c, <1>l, <2>1, <2>2 DEF Usable
  <2> QED BY <2>3 DEF e
<1>16. Len(isrBuffer) > 0 => b <= isrBuffer[1].tick BY <1>10, <1>n
<1> QED BY <1>6, <1>12, <1>14, <1>15, <1>16, <1>l

\* micros() is the second look.
LEMMA ClockStep ==
  ASSUME Rx!SerialConstants, MaxStall <= StopBits,
         NEW start \in [1..Len(sent) -> 1..MaxTime], Good(start), Rx!ReadClock, ~Flagged'
  PROVE  Good(start)'
<1> PICK w : w = Wave(start, sent) OBVIOUS
<1>b. PICK b : b = lastTick.tick + (Rx!PduBits - 1 - rx.last) OBVIOUS
<1>n. PICK n \in Nat : n = Len(isrBuffer) BY DEF Good, RxTypes
<1>1. /\ rxAt = "clock" /\ rxAt' = "away" /\ stall' = 0 /\ left' = left
      /\ UNCHANGED <<now, line, rest, sent, received, isrBuffer>>
  BY DEF Rx!ReadClock, Rx!sender, Rx!program
<1>2. \/ UNCHANGED <<lastTick, rx, rxBuffer>>
      \/ b <= now /\ Rx!RxBitsOf([tick |-> b, level |-> TRUE])
  <2>1. \E late \in {0, 1} :
           IF now - lastTick.tick + late > Rx!PduBits - 1 - rx.last
           THEN Rx!RxBitsOf([tick |-> lastTick.tick + (Rx!PduBits - 1 - rx.last), level |-> TRUE])
           ELSE UNCHANGED <<lastTick, rx, rxBuffer, overflow>>
    BY DEF Rx!ReadClock
  <2>2. PICK late \in {0, 1} :
           IF now - lastTick.tick + late > Rx!PduBits - 1 - rx.last
           THEN Rx!RxBitsOf([tick |-> b, level |-> TRUE])
           ELSE UNCHANGED <<lastTick, rx, rxBuffer, overflow>>
    BY <1>b, <2>1
  <2>3. CASE now - lastTick.tick + late > Rx!PduBits - 1 - rx.last
    <3>l. PICK l \in Nat : l = lastTick.tick BY DEF Working, Good, RxTypes
    <3>a. PICK a \in Int : a = rx.last BY DEF Working, Words, Good, RxTypes
    <3>1. now \in Nat /\ Rx!PduBits \in Nat BY LineIs, RxSizes
    <3>2. now - l + late > Rx!PduBits - 1 - a /\ b = l + (Rx!PduBits - 1 - a) BY <1>b, <2>3, <3>l, <3>a
    <3>3. b <= now BY <3>1, <3>2
    <3> QED BY <2>2, <2>3, <3>3
  <2>4. CASE ~(now - lastTick.tick + late > Rx!PduBits - 1 - rx.last) BY <2>2, <2>4
  <2> QED BY <2>3, <2>4
<1>3. Looking' BY <1>1 DEF Looking
<1>4. CASE UNCHANGED <<lastTick, rx, rxBuffer>>
  <2>1. InTime(start)' BY <1>1, <1>4, Unmoved DEF Good, Made
  <2>2. RxTypes' BY <1>1, <1>4 DEF Good, RxTypes, Working
  <2> QED BY <1>3, <2>1, <2>2 DEF Good
<1>5. CASE b <= now /\ Rx!RxBitsOf([tick |-> b, level |-> TRUE])
  <2> DEFINE e == [tick |-> b, level |-> TRUE]
  <2>1. /\ b \in Nat /\ Usable(start, w, e)
        /\ lastTick.tick < b /\ lastTick.level = TRUE
        /\ n > 0 => b <= isrBuffer[1].tick
    BY <1>1, <1>5, <1>b, <1>n, MadeUpUsable
  <2>2. Apart(start, sent) /\ Drawn(start, w, sent) BY LineIs
  <2>3. Working /\ Decoded(start) BY DEF Good, RxTypes, InTime
  <2>4. ~overflow' BY DEF Flagged
  <2>5. Decoded(start)' /\ Working' BY <1>1, <1>5, <2>1, <2>2, <2>3, <2>4, EdgeTaken
  <2>6. lastTick' = e BY <1>5 DEF Rx!RxBitsOf
  <2>7. e.tick = b /\ e.level = TRUE OBVIOUS
  <2> HIDE DEF e
  <2>8. EdgeAt(0)' = e /\ \A i \in 1..n : EdgeAt(i)' = EdgeAt(i)
    <3>1. EdgeAt(0)' = e BY <2>6 DEF EdgeAt
    <3>2. ASSUME NEW i \in 1..n PROVE EdgeAt(i)' = EdgeAt(i)
      <4>1. i # 0 OBVIOUS
      <4> QED BY <1>1, <4>1 DEF EdgeAt
    <3> QED BY <3>1, <3>2
  <2>9. EdgeAt(0) = lastTick /\ EdgeAt(1) = isrBuffer[1] BY DEF EdgeAt
  <2>10. Recorded(w)'
    <3>l. PICK l \in Nat : l = lastTick.tick BY DEF Working, Good, RxTypes
    <3>0. Recorded(w) BY DEF Good, InTime
    <3>1. ASSUME NEW i \in 0..n PROVE EdgeAt(i)'.tick <= now'
      <4>1. CASE i = 0 BY <1>1, <1>5, <2>7, <2>8, <4>1
      <4>2. CASE i # 0
        <5>1. i \in 1..n /\ i \in 0..n BY <4>2
        <5> QED BY <1>1, <1>n, <2>8, <3>0, <5>1 DEF Recorded
      <4> QED BY <4>1, <4>2
    <3>2. ASSUME NEW i \in 1..n
          PROVE  /\ EdgeAt(i - 1)'.tick <= EdgeAt(i)'.tick
                 /\ 1 <= EdgeAt(i)'.tick /\ w[EdgeAt(i)'.tick - 1] # w[EdgeAt(i)'.tick]
                 /\ \A t \in EdgeAt(i - 1)'.tick..(EdgeAt(i)'.tick - 1) : w[t] = EdgeAt(i - 1)'.level
      <4>0. /\ EdgeAt(i - 1).tick <= EdgeAt(i).tick
            /\ 1 <= EdgeAt(i).tick /\ w[EdgeAt(i).tick - 1] # w[EdgeAt(i).tick]
            /\ \A t \in EdgeAt(i - 1).tick..(EdgeAt(i).tick - 1) : w[t] = EdgeAt(i - 1).level
        BY <1>n, <3>0 DEF Recorded
      <4>1. CASE i = 1
        <5>1. i - 1 = 0 /\ n > 0 BY <4>1
        <5>y. PICK y \in Nat : y = isrBuffer[1].tick BY <1>n, <5>1, NextUsable DEF Usable
        <5>2. EdgeAt(i) = isrBuffer[1] /\ EdgeAt(i - 1) = lastTick BY <2>9, <4>1, <5>1
        <5>3. EdgeAt(i)' = isrBuffer[1] /\ EdgeAt(i - 1)' = e BY <2>8, <5>1, <5>2
        <5>4. b <= y BY <2>1, <5>1, <5>y
        <5>5. ASSUME NEW t \in b..(y - 1) PROVE w[t] = TRUE
          <6>1. t \in l..(y - 1) BY <2>1, <3>l
          <6> QED BY <2>1, <3>l, <4>0, <5>2, <5>y, <6>1
        <5> QED BY <2>7, <4>0, <5>2, <5>3, <5>4, <5>5, <5>y
      <4>2. CASE i # 1
        <5>1. i - 1 \in 1..n BY <4>2
        <5> QED BY <2>8, <4>0, <5>1
      <4> QED BY <4>1, <4>2
    <3>3. \A t \in EdgeAt(n)'.tick..now' : w[t] = EdgeAt(n)'.level
      <4>0. \A t \in EdgeAt(n).tick..now : w[t] = EdgeAt(n).level BY <1>n, <3>0 DEF Recorded
      <4>1. CASE n = 0
        <5>1. ASSUME NEW t \in b..now PROVE w[t] = TRUE
          <6>1. t \in l..now BY <2>1, <3>l
          <6> QED BY <2>1, <2>9, <3>l, <4>0, <4>1, <6>1
        <5> QED BY <1>1, <2>7, <2>8, <4>1, <5>1
      <4>2. CASE n # 0
        <5>1. n \in 1..n BY <4>2
        <5> QED BY <1>1, <2>8, <4>0, <5>1
      <4> QED BY <4>1, <4>2
    <3> QED BY <1>1, <1>n, <3>1, <3>2, <3>3 DEF Recorded
  <2>11. Wave(start, sent)' = w BY <1>1 DEF Wave
  <2>12. OnLine(start, w)' BY <1>1 DEF Good, InTime, OnLine, Apart
  <2>13. InTime(start)' BY <2>5, <2>10, <2>11, <2>12 DEF InTime
  <2>14. RxTypes' BY <1>1, <2>5 DEF Good, RxTypes
  <2> QED BY <1>3, <2>13, <2>14 DEF Good
<1> QED BY <1>2, <1>4, <1>5

\* The interrupt adds the edge there is, and nothing where there is none.
LEMMA EdgeRecorded ==
  ASSUME RxTypes, NEW w, NEW v, Recorded(w), \A t \in 0..now : v[t] = w[t], line = w[now],
         NEW level, level = v[now + 1], level \in BOOLEAN, Rx!Show(level), ~isrOverflow',
         now' = now + 1, lastTick' = lastTick
  PROVE  /\ Recorded(v)' /\ line' = level
         /\ isrBuffer' \in Seq([tick : Nat, level : BOOLEAN]) /\ Len(isrBuffer) <= Len(isrBuffer')
         /\ \A i \in 1..Len(isrBuffer') :
               (i \in 1..Len(isrBuffer) /\ isrBuffer'[i] = isrBuffer[i]) \/ isrBuffer'[i].tick = now + 1
<1>n. PICK n \in Nat : n = Len(isrBuffer) BY DEF RxTypes
<1>0. now \in Nat /\ isrBuffer \in Seq([tick : Nat, level : BOOLEAN]) BY DEF RxTypes
<1>1. line' = level BY DEF Rx!Show
<1>2. \A i \in 0..n : EdgeAt(i).tick \in Nat
  <2> SUFFICES ASSUME NEW i \in 0..n PROVE EdgeAt(i).tick \in Nat OBVIOUS
  <2>1. CASE i = 0 BY <2>1 DEF EdgeAt, RxTypes, Working
  <2>2. CASE i # 0
    <3>0. i \in 1..Len(isrBuffer) BY <1>n, <2>2
    <3>1. isrBuffer[i] \in [tick : Nat, level : BOOLEAN] BY <1>0, <3>0, ElementOfSeq
    <3> QED BY <2>2, <3>1 DEF EdgeAt
  <2> QED BY <2>1, <2>2
<1>3. ASSUME NEW i \in 0..n PROVE EdgeAt(i).tick <= now BY <1>n DEF Recorded
<1>4. ASSUME NEW i \in 1..n
      PROVE  /\ EdgeAt(i - 1).tick <= EdgeAt(i).tick
             /\ 1 <= EdgeAt(i).tick /\ v[EdgeAt(i).tick - 1] # v[EdgeAt(i).tick]
             /\ \A t \in EdgeAt(i - 1).tick..(EdgeAt(i).tick - 1) : v[t] = EdgeAt(i - 1).level
  <2>0. /\ EdgeAt(i - 1).tick <= EdgeAt(i).tick
        /\ 1 <= EdgeAt(i).tick /\ w[EdgeAt(i).tick - 1] # w[EdgeAt(i).tick]
        /\ \A t \in EdgeAt(i - 1).tick..(EdgeAt(i).tick - 1) : w[t] = EdgeAt(i - 1).level
    BY <1>n DEF Recorded
  <2>1. i \in 0..n /\ i - 1 \in 0..n OBVIOUS
  <2>x. PICK x \in Nat : x = EdgeAt(i).tick BY <1>2, <2>1
  <2>y. PICK y \in Nat : y = EdgeAt(i - 1).tick BY <1>2, <2>1
  <2>2. x <= now /\ 1 <= x BY <1>3, <2>0, <2>1, <2>x
  <2>3. x \in 0..now /\ x - 1 \in 0..now BY <1>0, <2>2
  <2>4. v[x] = w[x] /\ v[x - 1] = w[x - 1] BY <2>3
  <2>5. ASSUME NEW t \in y..(x - 1) PROVE v[t] = w[t]
    <3>1. t \in 0..now BY <1>0, <2>2
    <3> QED BY <3>1
  <2> QED BY <2>0, <2>4, <2>5, <2>x, <2>y
<1>5. \A t \in EdgeAt(n).tick..now : v[t] = EdgeAt(n).level
  <2>1. \A t \in EdgeAt(n).tick..now : w[t] = EdgeAt(n).level BY <1>n DEF Recorded
  <2>y. PICK y \in Nat : y = EdgeAt(n).tick BY <1>2
  <2>2. ASSUME NEW t \in y..now PROVE v[t] = w[t]
    <3>1. t \in 0..now BY <1>0
    <3> QED BY <3>1
  <2> QED BY <2>1, <2>2, <2>y
<1>6. v[now] = line
  <2>1. now \in 0..now BY <1>0
  <2> QED BY <2>1
<1>7. line = EdgeAt(n).level
  <2>1. now \in EdgeAt(n).tick..now BY <1>0, <1>2, <1>3
  <2> QED BY <1>5, <1>6, <2>1
<1>8. CASE level = line
  <2>1. isrBuffer' = isrBuffer BY <1>8 DEF Rx!Show
  <2>2. \A i \in 0..n : EdgeAt(i)' = EdgeAt(i) BY <2>1 DEF EdgeAt
  <2>3. ASSUME NEW i \in 0..n PROVE EdgeAt(i)'.tick <= now'
    <3>x. PICK x \in Nat : x = EdgeAt(i).tick BY <1>2
    <3>1. x <= now BY <1>3, <3>x
    <3>2. x <= now + 1 BY <1>0, <3>1
    <3> QED BY <2>2, <3>2, <3>x
  <2>4. ASSUME NEW i \in 1..n
        PROVE  /\ EdgeAt(i - 1)'.tick <= EdgeAt(i)'.tick
               /\ 1 <= EdgeAt(i)'.tick /\ v[EdgeAt(i)'.tick - 1] # v[EdgeAt(i)'.tick]
               /\ \A t \in EdgeAt(i - 1)'.tick..(EdgeAt(i)'.tick - 1) : v[t] = EdgeAt(i - 1)'.level
    <3>1. i \in 0..n /\ i - 1 \in 0..n OBVIOUS
    <3>2. EdgeAt(i)' = EdgeAt(i) /\ EdgeAt(i - 1)' = EdgeAt(i - 1) BY <2>2, <3>1
    <3> QED BY <1>4, <3>2
  <2>5. ASSUME NEW t \in EdgeAt(n)'.tick..now' PROVE v[t] = EdgeAt(n)'.level
    <3>1. EdgeAt(n)' = EdgeAt(n) BY <2>2
    <3>2. t \in EdgeAt(n).tick..now \/ t = now + 1
      <4>x. PICK x \in Nat : x = EdgeAt(n).tick BY <1>2
      <4>1. t \in x..(now + 1) BY <3>1, <4>x
      <4> QED BY <1>0, <4>1, <4>x
    <3> QED BY <1>5, <1>7, <1>8, <3>1, <3>2
  <2>6. Len(isrBuffer') = n BY <1>n, <2>1
  <2>7. Recorded(v)' BY <2>3, <2>4, <2>5, <2>6 DEF Recorded
  <2> QED BY <1>0, <1>1, <1>n, <2>1, <2>7
<1>9. CASE level # line
  <2> DEFINE e == [tick |-> now + 1, level |-> level]
  <2>1. isrBuffer' = Append(isrBuffer, e) BY <1>9 DEF Rx!Show, Rx!RxBitISR
  <2>2. e \in [tick : Nat, level : BOOLEAN] /\ e.tick = now + 1 /\ e.level = level BY <1>0
  <2> HIDE DEF e
  <2>3. /\ isrBuffer' \in Seq([tick : Nat, level : BOOLEAN]) /\ Len(isrBuffer') = n + 1
        /\ \A i \in 1..n : isrBuffer'[i] = isrBuffer[i]
        /\ isrBuffer'[n + 1] = e
    BY <1>0, <1>n, <2>1, <2>2, AppendProperties
  <2>4. \A i \in 0..n : EdgeAt(i)' = EdgeAt(i)
    <3> SUFFICES ASSUME NEW i \in 0..n PROVE EdgeAt(i)' = EdgeAt(i) OBVIOUS
    <3>1. CASE i = 0 BY <3>1 DEF EdgeAt
    <3>2. CASE i # 0
      <4>1. i \in 1..n BY <3>2
      <4> QED BY <2>3, <3>2, <4>1 DEF EdgeAt
    <3> QED BY <3>1, <3>2
  <2>5. EdgeAt(n + 1)' = e
    <3>1. n + 1 # 0 BY <1>n
    <3> QED BY <2>3, <3>1 DEF EdgeAt
  <2>6. ASSUME NEW i \in 0..(n + 1) PROVE EdgeAt(i)'.tick <= now'
    <3>1. CASE i = n + 1 BY <1>0, <2>2, <2>5, <3>1
    <3>2. CASE i # n + 1
      <4>1. i \in 0..n BY <1>n, <3>2
      <4>x. PICK x \in Nat : x = EdgeAt(i).tick BY <1>2, <4>1
      <4>2. x <= now BY <1>3, <4>1, <4>x
      <4>3. x <= now + 1 BY <1>0, <4>2
      <4> QED BY <2>4, <4>1, <4>3, <4>x
    <3> QED BY <3>1, <3>2
  <2>7. ASSUME NEW i \in 1..(n + 1)
        PROVE  /\ EdgeAt(i - 1)'.tick <= EdgeAt(i)'.tick
               /\ 1 <= EdgeAt(i)'.tick /\ v[EdgeAt(i)'.tick - 1] # v[EdgeAt(i)'.tick]
               /\ \A t \in EdgeAt(i - 1)'.tick..(EdgeAt(i)'.tick - 1) : v[t] = EdgeAt(i - 1)'.level
    <3>1. CASE i = n + 1
      <4>1. i - 1 = n /\ n \in 0..n BY <1>n, <3>1
      <4>2. EdgeAt(i)' = e /\ EdgeAt(i - 1)' = EdgeAt(n) BY <2>4, <2>5, <3>1, <4>1
      <4>x. PICK x \in Nat : x = EdgeAt(n).tick BY <1>2, <4>1
      <4>3. x <= now + 1 /\ 1 <= now + 1 /\ (now + 1) - 1 = now BY <1>0, <1>3, <4>1, <4>x
      <4>4. v[now] # v[now + 1] BY <1>6, <1>9
      <4>5. \A t \in x..now : v[t] = EdgeAt(n).level BY <1>5, <4>x
      <4> QED BY <2>2, <4>2, <4>3, <4>4, <4>5, <4>x
    <3>2. CASE i # n + 1
      <4>1. i \in 1..n /\ i \in 0..n /\ i - 1 \in 0..n BY <1>n, <3>2
      <4>2. EdgeAt(i)' = EdgeAt(i) /\ EdgeAt(i - 1)' = EdgeAt(i - 1) BY <2>4, <4>1
      <4> QED BY <1>4, <4>1, <4>2
    <3> QED BY <3>1, <3>2
  <2>8. ASSUME NEW t \in EdgeAt(n + 1)'.tick..now' PROVE v[t] = EdgeAt(n + 1)'.level
    <3>1. t \in (now + 1)..(now + 1) BY <2>2, <2>5
    <3>2. t = now + 1 BY <1>0, <3>1
    <3> QED BY <2>2, <2>5, <3>2
  <2>9. Recorded(v)' BY <2>3, <2>6, <2>7, <2>8 DEF Recorded
  <2>10. ASSUME NEW i \in 1..(n + 1)
         PROVE  (i \in 1..n /\ isrBuffer'[i] = isrBuffer[i]) \/ isrBuffer'[i].tick = now + 1
    <3>1. i \in 1..n \/ i = n + 1 BY <1>n
    <3> QED BY <2>2, <2>3, <3>1
  <2> QED BY <1>1, <1>n, <2>3, <2>9, <2>10
<1> QED BY <1>8, <1>9

\* Time goes on for rxBits() as well.
LEMMA StillLooking ==
  ASSUME RxTypes, Looking, MaxStall \in Nat, Len(isrBuffer) <= Len(isrBuffer'),
         isrBuffer' \in Seq([tick : Nat, level : BOOLEAN]),
         \A i \in 1..Len(isrBuffer') :
            (i \in 1..Len(isrBuffer) /\ isrBuffer'[i] = isrBuffer[i]) \/ isrBuffer'[i].tick = now + 1,
         now' = now + 1, UNCHANGED <<rx, rxAt, left>>,
         IF rxAt = "clock" THEN stall < MaxStall /\ stall' = stall + 1 ELSE stall' = stall
  PROVE  Looking' /\ stall' \in Nat
<1>1. now \in Nat /\ stall \in Nat /\ left \in Nat /\ isrBuffer \in Seq([tick : Nat, level : BOOLEAN]) BY DEF RxTypes
<1>2. Len(isrBuffer) \in Nat /\ Len(isrBuffer') \in Nat BY <1>1
<1>3. stall' \in Nat BY <1>1
<1>4. (rxAt = "each" => left <= Len(isrBuffer))' BY <1>1, <1>2 DEF Looking
<1>5. (rxAt # "clock" => stall = 0)' BY DEF Looking
<1>6. ASSUME rxAt = "clock"
      PROVE  (rx.last < Rx!PduBits - 1 /\ stall <= MaxStall /\ \A i \in 1..Len(isrBuffer) : isrBuffer[i].tick > now - stall)'
  <2>1. (rx.last < Rx!PduBits - 1)' BY <1>6 DEF Looking
  <2>2. stall' = stall + 1 /\ stall' <= MaxStall BY <1>1, <1>6
  <2>3. ASSUME NEW i \in 1..Len(isrBuffer') PROVE isrBuffer'[i].tick > now' - stall'
    <3>1. now' - stall' = now - stall BY <1>1, <2>2
    <3>2. CASE isrBuffer'[i].tick = now + 1 BY <1>1, <3>1, <3>2
    <3>3. CASE i \in 1..Len(isrBuffer) /\ isrBuffer'[i] = isrBuffer[i]
      <4>1. isrBuffer[i].tick > now - stall BY <1>6, <3>3 DEF Looking
      <4> QED BY <3>1, <3>3, <4>1
    <3> QED BY <3>2, <3>3
  <2> QED BY <2>1, <2>2, <2>3
<1> QED BY <1>3, <1>4, <1>5, <1>6 DEF Looking

\* The word on the line goes on, or the line idles.
LEMMA SameWords ==
  ASSUME Rx!SerialConstants, NEW start \in [1..Len(sent) -> 1..MaxTime], Good(start),
         now' = now + 1, sent' = sent, ~isrOverflow', UNCHANGED <<lastTick, rx, rxBuffer, received>>,
         \/ rest # <<>> /\ Rx!Show(Head(rest)) /\ rest' = Tail(rest)
         \/ rest = <<>> /\ Rx!Show(TRUE) /\ rest' = rest
  PROVE  /\ InTime(start)' /\ line' \in BOOLEAN /\ rest' \in Seq(BOOLEAN)
         /\ isrBuffer' \in Seq([tick : Nat, level : BOOLEAN]) /\ Len(isrBuffer) <= Len(isrBuffer')
         /\ \A i \in 1..Len(isrBuffer') :
               (i \in 1..Len(isrBuffer) /\ isrBuffer'[i] = isrBuffer[i]) \/ isrBuffer'[i].tick = now + 1
<1> PICK w : w = Wave(start, sent) OBVIOUS
<1>0. Drawn(start, w, sent) /\ w \in [Nat -> BOOLEAN] /\ now \in Nat BY LineIs
<1>1. RxTypes /\ OnLine(start, w) /\ Recorded(w) /\ line = w[now] BY DEF Good, InTime, OnLine
<1>2. rest \in Seq(BOOLEAN) /\ Len(rest) \in Nat BY <1>1 DEF RxTypes
<1>3. Rx!PduBits \in Nat BY RxSizes
<1>4. PICK level \in BOOLEAN :
        /\ Rx!Show(level) /\ level = w[now + 1]
        /\ rest' \in Seq(BOOLEAN)
        /\ \A i \in 1..Len(rest') : rest'[i] = w[now + 1 + i]
        /\ \A k \in 1..Len(sent) : start[k] + Rx!PduBits <= now + 1 + Len(rest')
  <2>1. CASE rest # <<>> /\ Rx!Show(Head(rest)) /\ rest' = Tail(rest)
    <3>1. /\ Head(rest) \in BOOLEAN /\ rest' \in Seq(BOOLEAN) /\ Len(rest') = Len(rest) - 1
          /\ \A i \in 1..Len(rest') : rest'[i] = rest[i + 1]
      BY <1>2, <2>1, HeadTailProperties
    <3>2. Len(rest) > 0 /\ Head(rest) = rest[1] BY <1>2, <2>1
    <3>3. \A i \in 1..Len(rest) : rest[i] = w[now + i] BY <1>1 DEF OnLine
    <3>4. Head(rest) = w[now + 1]
      <4>1. 1 \in 1..Len(rest) BY <1>2, <3>2
      <4> QED BY <3>2, <3>3, <4>1
    <3>5. ASSUME NEW i \in 1..Len(rest') PROVE rest'[i] = w[now + 1 + i]
      <4>1. i + 1 \in 1..Len(rest) BY <1>2, <3>1
      <4>2. now + (i + 1) = now + 1 + i BY <1>0
      <4>3. rest[i + 1] = w[now + (i + 1)] BY <3>3, <4>1
      <4> QED BY <3>1, <4>2, <4>3
    <3>6. ASSUME NEW k \in 1..Len(sent) PROVE start[k] + Rx!PduBits <= now + 1 + Len(rest')
      <4>1. start[k] + Rx!PduBits <= now + Len(rest) BY <1>1 DEF OnLine
      <4>2. now + Len(rest) = now + 1 + Len(rest') BY <1>0, <1>2, <3>1
      <4> QED BY <4>1, <4>2
    <3> QED BY <2>1, <3>1, <3>4, <3>5, <3>6
  <2>2. CASE rest = <<>> /\ Rx!Show(TRUE) /\ rest' = rest
    <3>1. Len(rest) = 0 /\ Len(rest') = 0 BY <2>2
    <3>2. ASSUME NEW k \in 1..Len(sent) PROVE start[k] + Rx!PduBits <= now
      <4>1. start[k] + Rx!PduBits <= now + Len(rest) BY <1>1 DEF OnLine
      <4>2. now + Len(rest) = now BY <1>0, <3>1
      <4> QED BY <4>1, <4>2
    <3>3. ASSUME NEW k \in 1..Len(sent)
          PROVE  ~(now + 1 \in start[k]..(start[k] + Rx!PduBits)) /\ start[k] + Rx!PduBits <= now + 1 + Len(rest')
      <4>s. PICK s \in Nat : s = start[k] OBVIOUS
      <4>1. s + Rx!PduBits <= now BY <3>2, <4>s
      <4>2. ~(now + 1 \in s..(s + Rx!PduBits)) /\ s + Rx!PduBits <= now + 1 + 0 BY <1>0, <1>3, <4>1
      <4> QED BY <3>1, <4>2, <4>s
    <3>4. now + 1 \in Nat BY <1>0
    <3>5. w[now + 1] = TRUE BY <1>0, <3>3, <3>4 DEF Drawn
    <3>6. \A i \in 1..Len(rest') : rest'[i] = w[now + 1 + i] BY <3>1
    <3> QED BY <1>2, <2>2, <3>3, <3>5, <3>6
  <2> QED BY <2>1, <2>2
<1>5. \A t \in 0..now : w[t] = w[t] OBVIOUS
<1>6. /\ Recorded(w)' /\ line' = level
      /\ isrBuffer' \in Seq([tick : Nat, level : BOOLEAN]) /\ Len(isrBuffer) <= Len(isrBuffer')
      /\ \A i \in 1..Len(isrBuffer') :
               (i \in 1..Len(isrBuffer) /\ isrBuffer'[i] = isrBuffer[i]) \/ isrBuffer'[i].tick = now + 1
  BY <1>1, <1>4, <1>5, EdgeRecorded
<1>7. Wave(start, sent)' = w BY DEF Wave
<1>8. OnLine(start, w)'
  <2>1. ASSUME NEW k \in 1..Len(sent) PROVE start[k] <= now + 1
    <3>s. PICK s \in Nat : s = start[k] OBVIOUS
    <3>1. s <= now BY <1>1, <3>s DEF OnLine
    <3> QED BY <1>0, <3>1, <3>s
  <2>2. Apart(start, sent)' BY <1>1 DEF OnLine, Apart
  <2> QED BY <1>4, <1>6, <2>1, <2>2 DEF OnLine
<1>9. Decoded(start)' BY DEF Good, InTime, Decoded, Idle, Mid, Holds, Made
<1> QED BY <1>4, <1>6, <1>7, <1>8, <1>9 DEF InTime

\* A word begins.
LEMMA NewWord ==
  ASSUME Rx!SerialConstants, NEW start \in [1..Len(sent) -> 1..MaxTime], Good(start),
         now' = now + 1, now < MaxTime, ~isrOverflow', UNCHANGED <<lastTick, rx, rxBuffer, received>>,
         rest = <<>>, NEW f \in Frames, sent' = Append(sent, f), Rx!Show(FALSE), rest' = Tail(Rx!Levels(f))
  PROVE  /\ \E begin \in [1..Len(sent') -> 1..MaxTime] : InTime(begin)'
         /\ sent' \in Seq(Frames) /\ line' \in BOOLEAN /\ rest' \in Seq(BOOLEAN)
         /\ isrBuffer' \in Seq([tick : Nat, level : BOOLEAN]) /\ Len(isrBuffer) <= Len(isrBuffer')
         /\ \A i \in 1..Len(isrBuffer') :
               (i \in 1..Len(isrBuffer) /\ isrBuffer'[i] = isrBuffer[i]) \/ isrBuffer'[i].tick = now + 1
<1> PICK w : w = Wave(start, sent) OBVIOUS
<1>c. PICK c \in Nat : c = Len(sent) BY DEF Good, RxTypes, Working
<1>0. Drawn(start, w, sent) /\ w \in [Nat -> BOOLEAN] /\ now \in Nat /\ MaxTime \in Nat /\ Apart(start, sent) BY LineIs
<1>1. RxTypes /\ OnLine(start, w) /\ Recorded(w) /\ line = w[now] BY DEF Good, InTime, OnLine
<1>2. sent \in Seq(Frames) BY <1>1 DEF RxTypes, Working
<1>3. Rx!PduBits \in Nat BY RxSizes
<1>4. /\ sent' \in Seq(Frames) /\ Len(sent') = c + 1
      /\ \A k \in 1..c : sent'[k] = sent[k]
      /\ sent'[c + 1] = f
  BY <1>2, <1>c, AppendProperties
<1>g. PICK begin : begin = [k \in 1..(c + 1) |-> IF k <= c THEN start[k] ELSE now + 1] OBVIOUS
<1>5. begin \in [1..Len(sent') -> 1..MaxTime]
  <2>1. now + 1 \in 1..MaxTime BY <1>0
  <2>2. \A k \in 1..(c + 1) : k <= c => start[k] \in 1..MaxTime BY <1>c
  <2> QED BY <1>4, <1>g, <2>1, <2>2
<1>6. (\A k \in 1..c : begin[k] = start[k]) /\ begin[c + 1] = now + 1
  <2>1. c + 1 \in 1..(c + 1) /\ ~(c + 1 <= c) BY <1>c
  <2> QED BY <1>c, <1>g, <2>1
<1>7. \A k \in 1..c : start[k] \in Nat /\ start[k] + Rx!PduBits <= now
  <2> SUFFICES ASSUME NEW k \in 1..c PROVE start[k] \in Nat /\ start[k] + Rx!PduBits <= now OBVIOUS
  <2>1. start[k] \in Nat BY <1>c
  <2>2. start[k] + Rx!PduBits <= now + Len(rest) BY <1>1, <1>c DEF OnLine
  <2>3. now + Len(rest) = now BY <1>0
  <2> QED BY <2>1, <2>2, <2>3
<1>8. Apart(begin, sent')
  <2> SUFFICES ASSUME NEW k \in 1..(c + 1), NEW l \in 1..(c + 1), k < l PROVE begin[k] + Rx!PduBits < begin[l]
    BY <1>4 DEF Apart
  <2>1. k \in 1..c BY <1>c
  <2>2. CASE l \in 1..c BY <1>0, <1>c, <1>6, <2>1, <2>2 DEF Apart
  <2>3. CASE l = c + 1
    <3>s. PICK s \in Nat : s = start[k] BY <1>7, <2>1
    <3>1. s + Rx!PduBits < now + 1 BY <1>0, <1>3, <1>7, <2>1, <3>s
    <3> QED BY <1>6, <2>1, <2>3, <3>1, <3>s
  <2> QED BY <1>c, <2>2, <2>3
<1>v. PICK v : v = Wave(begin, sent') OBVIOUS
<1>9. Drawn(begin, v, sent') BY <1>0, <1>4, <1>5, <1>8, <1>v, WaveDrawn
<1>10. \A i \in 0..Rx!PduBits : v[now + 1 + i] = Rx!Levels(f)[i + 1]
  <2> SUFFICES ASSUME NEW i \in 0..Rx!PduBits PROVE v[now + 1 + i] = Rx!Levels(f)[i + 1] OBVIOUS
  <2>1. c + 1 \in 1..Len(sent') BY <1>4, <1>c
  <2>2. Wave(begin, sent')[begin[c + 1] + i] = Rx!Levels(sent'[c + 1])[i + 1]
    BY <1>0, <1>4, <1>5, <1>8, <2>1, WaveIs
  <2> QED BY <1>4, <1>6, <1>v, <2>2
<1>11. \A t \in 0..now : v[t] = w[t]
  <2> SUFFICES ASSUME NEW t \in 0..now PROVE v[t] = w[t] OBVIOUS
  <2>1. v[t] = \A k \in 1..(c + 1) :
                 t \in begin[k]..(begin[k] + Rx!PduBits) => Rx!Levels(sent'[k])[t - begin[k] + 1]
    <3>1. t \in Nat /\ Len(sent') = c + 1 BY <1>0, <1>4
    <3>2. Wave(begin, sent')[t] = \A k \in 1..Len(sent') :
                 t \in begin[k]..(begin[k] + Rx!PduBits) => Rx!Levels(sent'[k])[t - begin[k] + 1]
      BY <3>1 DEF Wave
    <3> QED BY <1>v, <3>1, <3>2
  <2>2. w[t] = \A k \in 1..c :
                 t \in start[k]..(start[k] + Rx!PduBits) => Rx!Levels(sent[k])[t - start[k] + 1]
    <3>1. t \in Nat /\ Len(sent) = c BY <1>0, <1>c
    <3>2. Wave(start, sent)[t] = \A k \in 1..Len(sent) :
                 t \in start[k]..(start[k] + Rx!PduBits) => Rx!Levels(sent[k])[t - start[k] + 1]
      BY <3>1 DEF Wave
    <3> QED BY <3>1, <3>2
  <2>3. ~(t \in begin[c + 1]..(begin[c + 1] + Rx!PduBits)) BY <1>0, <1>6
  <2>4. \A k \in 1..(c + 1) : k \in 1..c \/ k = c + 1 BY <1>c
  <2>5. \A k \in 1..c : k \in 1..(c + 1) BY <1>c
  <2>6. \A k \in 1..c : (t \in begin[k]..(begin[k] + Rx!PduBits) => Rx!Levels(sent'[k])[t - begin[k] + 1])
                     <=> (t \in start[k]..(start[k] + Rx!PduBits) => Rx!Levels(sent[k])[t - start[k] + 1])
    BY <1>4, <1>6
  <2> QED BY <2>1, <2>2, <2>3, <2>4, <2>5, <2>6
<1>12. /\ Rx!Levels(f) \in Seq(BOOLEAN) /\ Len(Rx!Levels(f)) = Rx!PduBits + 1 /\ Rx!Levels(f)[1] = FALSE
  BY LevelsAre
<1>13. Rx!Levels(f) # <<>> BY <1>3, <1>12
<1>14. /\ rest' \in Seq(BOOLEAN) /\ Len(rest') = Rx!PduBits
       /\ \A i \in 1..Rx!PduBits : rest'[i] = Rx!Levels(f)[i + 1]
  <2>1. /\ rest' \in Seq(BOOLEAN) /\ Len(rest') = Len(Rx!Levels(f)) - 1
        /\ \A i \in 1..Len(rest') : rest'[i] = Rx!Levels(f)[i + 1]
    BY <1>12, <1>13, HeadTailProperties
  <2>2. Len(rest') = Rx!PduBits BY <1>3, <1>12, <2>1
  <2> QED BY <2>1, <2>2
<1>15. v[now + 1] = FALSE
  <2>1. PICK i \in 0..Rx!PduBits : i = 0 BY <1>3
  <2>2. now + 1 + i = now + 1 /\ i + 1 = 1 BY <1>0, <2>1
  <2> QED BY <1>10, <1>12, <2>2
<1>16. /\ Recorded(v)' /\ line' = FALSE
       /\ isrBuffer' \in Seq([tick : Nat, level : BOOLEAN]) /\ Len(isrBuffer) <= Len(isrBuffer')
       /\ \A i \in 1..Len(isrBuffer') :
               (i \in 1..Len(isrBuffer) /\ isrBuffer'[i] = isrBuffer[i]) \/ isrBuffer'[i].tick = now + 1
  BY <1>1, <1>11, <1>15, EdgeRecorded
<1>17. OnLine(begin, v)'
  <2>1. ASSUME NEW k \in 1..(c + 1) PROVE begin[k] <= now + 1 /\ begin[k] + Rx!PduBits <= now + 1 + Rx!PduBits
    <3>1. CASE k \in 1..c
      <4>s. PICK s \in Nat : s = start[k] BY <1>7, <3>1
      <4>1. s + Rx!PduBits <= now BY <1>7, <3>1, <4>s
      <4>2. s <= now + 1 /\ s + Rx!PduBits <= now + 1 + Rx!PduBits BY <1>0, <1>3, <4>1
      <4> QED BY <1>6, <3>1, <4>2, <4>s
    <3>2. CASE k = c + 1 BY <1>0, <1>3, <1>6, <3>2
    <3> QED BY <1>c, <3>1, <3>2
  <2>2. ASSUME NEW i \in 1..Rx!PduBits PROVE rest'[i] = v[now + 1 + i]
    <3>1. i \in 0..Rx!PduBits BY <1>3
    <3> QED BY <1>10, <1>14, <3>1
  <2>3. line' = v[now'] BY <1>15, <1>16
  <2> QED BY <1>4, <1>8, <1>14, <2>1, <2>2, <2>3 DEF OnLine, Apart
<1>18. Decoded(begin)'
  <2>j. PICK j \in Nat : j = Len(Made) BY <1>1, ConcatProperties DEF Made, RxTypes, Working
  <2>1. Made' = Made BY DEF Made
  <2>2. j <= c /\ (\A k \in 1..j : Made[k] = sent[k]) /\ (Idle(start, j) \/ Mid(start, j))
    BY <2>j, <1>c DEF Good, InTime, Decoded
  <2>3. (Len(Made) <= Len(sent))' BY <1>c, <1>4, <2>1, <2>2, <2>j
  <2>4. ASSUME NEW k \in 1..j PROVE Made'[k] = sent'[k]
    <3>1. k \in 1..c BY <1>c, <2>2
    <3> QED BY <1>4, <2>1, <2>2, <3>1
  <2>5. CASE Idle(start, j)
    <3>l. PICK l \in Nat : l = lastTick.tick BY <1>1 DEF RxTypes, Working
    <3>0. l <= now
      <4>1. Len(isrBuffer) \in Nat BY <1>1 DEF RxTypes
      <4>2. 0 \in 0..Len(isrBuffer) BY <4>1
      <4> QED BY <1>1, <3>l, <4>2 DEF Recorded, EdgeAt
    <3>1. ASSUME j > 0 PROVE begin[j] + Rx!PduBits < l
      <4>1. j \in 1..c BY <2>2, <3>1
      <4> QED BY <1>6, <2>5, <3>1, <3>l, <4>1 DEF Idle
    <3>2. ASSUME j < c + 1 PROVE l <= begin[j + 1]
      <4>1. CASE j < c
        <5>1. j + 1 \in 1..c BY <4>1
        <5> QED BY <1>6, <1>c, <2>5, <3>l, <4>1, <5>1 DEF Idle
      <4>2. CASE j = c BY <1>0, <1>6, <3>0, <4>2
      <4> QED BY <2>2, <4>1, <4>2
    <3>3. Idle(begin, j)' BY <1>4, <2>5, <3>1, <3>2, <3>l DEF Idle
    <3> QED BY <2>1, <2>3, <2>4, <2>j, <3>3 DEF Decoded
  <2>6. CASE Mid(start, j)
    <3>1. j < c BY <1>c, <2>6 DEF Mid
    <3>2. j + 1 \in 1..c /\ j < c + 1 BY <3>1
    <3>3. sent'[j + 1] = sent[j + 1] /\ begin[j + 1] = start[j + 1] BY <1>4, <1>6, <3>2
    <3>4. Mid(begin, j)' BY <1>4, <2>6, <3>2, <3>3 DEF Mid, Holds
    <3> QED BY <2>1, <2>3, <2>4, <2>j, <3>4 DEF Decoded
  <2> QED BY <2>2, <2>5, <2>6
<1>19. InTime(begin)' BY <1>16, <1>17, <1>18, <1>v DEF InTime
<1> QED BY <1>4, <1>5, <1>14, <1>16, <1>19

\* The next bit of time.
LEMMA BitStep ==
  ASSUME Rx!SerialConstants, NEW start \in [1..Len(sent) -> 1..MaxTime], Good(start), Rx!NextBit, ~Flagged'
  PROVE  RxTypes' /\ Looking' /\ \E begin \in [1..Len(sent') -> 1..MaxTime] : InTime(begin)'
<1>1. /\ now < MaxTime /\ now' = now + 1 /\ UNCHANGED <<lastTick, rx, rxBuffer, rxAt, left, received>>
      /\ IF rxAt = "clock" THEN stall < MaxStall /\ stall' = stall + 1 ELSE stall' = stall
  BY DEF Rx!NextBit
<1>2. ~isrOverflow' BY DEF Flagged
<1>3. RxTypes /\ Looking /\ MaxStall \in Nat /\ now \in Nat /\ MaxTime \in Nat
  BY LineIs DEF Good, Rx!SerialConstants
<1>4. /\ \E begin \in [1..Len(sent') -> 1..MaxTime] : InTime(begin)'
      /\ sent' \in Seq(Frames) /\ line' \in BOOLEAN /\ rest' \in Seq(BOOLEAN)
      /\ isrBuffer' \in Seq([tick : Nat, level : BOOLEAN]) /\ Len(isrBuffer) <= Len(isrBuffer')
      /\ \A i \in 1..Len(isrBuffer') :
            (i \in 1..Len(isrBuffer) /\ isrBuffer'[i] = isrBuffer[i]) \/ isrBuffer'[i].tick = now + 1
  <2>1. CASE /\ sent' = sent
             /\ \/ rest # <<>> /\ Rx!Show(Head(rest)) /\ rest' = Tail(rest)
                \/ rest = <<>> /\ Rx!Show(TRUE) /\ rest' = rest
    <3>1. /\ InTime(start)' /\ line' \in BOOLEAN /\ rest' \in Seq(BOOLEAN)
          /\ isrBuffer' \in Seq([tick : Nat, level : BOOLEAN]) /\ Len(isrBuffer) <= Len(isrBuffer')
          /\ \A i \in 1..Len(isrBuffer') :
                (i \in 1..Len(isrBuffer) /\ isrBuffer'[i] = isrBuffer[i]) \/ isrBuffer'[i].tick = now + 1
      BY <1>1, <1>2, <2>1, SameWords
    <3>2. sent' \in Seq(Frames) BY <1>3, <2>1 DEF RxTypes, Working
    <3>3. start \in [1..Len(sent') -> 1..MaxTime] BY <2>1
    <3>4. \E begin \in [1..Len(sent') -> 1..MaxTime] : InTime(begin)' BY <3>1, <3>3
    <3> QED BY <3>1, <3>2, <3>4
  <2>2. CASE rest = <<>> /\ \E f \in Frames : sent' = Append(sent, f) /\ Rx!Show(FALSE) /\ rest' = Tail(Rx!Levels(f))
    <3> PICK f \in Frames : sent' = Append(sent, f) /\ Rx!Show(FALSE) /\ rest' = Tail(Rx!Levels(f)) BY <2>2
    <3> QED BY <1>1, <1>2, <2>2, NewWord
  <2> QED BY <2>1, <2>2 DEF Rx!NextBit
<1>5. Looking' /\ stall' \in Nat BY <1>1, <1>3, <1>4, StillLooking
<1>6. RxTypes'
  <2>1. now' \in 0..MaxTime BY <1>1, <1>3
  <2> QED BY <1>1, <1>3, <1>4, <1>5, <2>1 DEF RxTypes, Working
<1> QED BY <1>4, <1>5, <1>6

\* A queue that was full stays on record.
LEMMA FlagStays == Flagged /\ [Rx!Next]_(Rx!vars) => Flagged'
<1> SUFFICES ASSUME Flagged, [Rx!Next]_(Rx!vars) PROVE Flagged' OBVIOUS
<1>1. CASE Rx!NextBit BY <1>1 DEF Rx!NextBit, Rx!Show, Rx!RxBitISR, Flagged
<1>2. CASE Rx!CallRxBits BY <1>2 DEF Rx!CallRxBits, Rx!program, Flagged
<1>3. CASE Rx!LoadEdges BY <1>3 DEF Rx!LoadEdges, Rx!program, Flagged
<1>4. CASE Rx!Each BY <1>4 DEF Rx!Each, Rx!RxBitsOf, Rx!program, Flagged
<1>5. CASE Rx!CheckEdges BY <1>5 DEF Rx!CheckEdges, Rx!program, Flagged
<1>6. CASE Rx!ReadClock BY <1>6 DEF Rx!ReadClock, Rx!RxBitsOf, Rx!program, Flagged
<1>7. CASE Rx!Read BY <1>7 DEF Rx!Read, Flagged
<1>8. CASE Rx!AskOverflow BY <1>8 DEF Rx!AskOverflow, Flagged
<1>9. CASE UNCHANGED Rx!vars BY <1>9 DEF Rx!vars, Flagged
<1> QED BY <1>1, <1>2, <1>3, <1>4, <1>5, <1>6, <1>7, <1>8, <1>9 DEF Rx!Next, Rx!RxBits

\* Every step keeps rxBits() in step with the line.
LEMMA RxStep ==
  ASSUME Rx!SerialConstants, MaxStall <= StopBits
  PROVE  RxInv /\ [Rx!Next]_(Rx!vars) => RxInv'
<1> SUFFICES ASSUME RxInv, [Rx!Next]_(Rx!vars), ~Flagged' PROVE RxInv' BY DEF RxInv
<1>0. ~Flagged BY FlagStays
<1>1. RxTypes /\ Looking /\ \E start \in [1..Len(sent) -> 1..MaxTime] : InTime(start) BY <1>0 DEF RxInv
<1> PICK start \in [1..Len(sent) -> 1..MaxTime] : InTime(start) BY <1>1
<1>2. Good(start) BY <1>1 DEF Good
<1>3. CASE Rx!NextBit
  <2>1. RxTypes' /\ Looking' /\ \E begin \in [1..Len(sent') -> 1..MaxTime] : InTime(begin)' BY <1>2, <1>3, BitStep
  <2> QED BY <2>1 DEF RxInv
<1>4. ASSUME Good(start)', sent' = sent PROVE RxInv' BY <1>4 DEF RxInv, Good
<1>5. CASE Rx!CallRxBits
  <2>1. sent' = sent BY <1>5 DEF Rx!CallRxBits, Rx!sender
  <2> QED BY <1>2, <1>4, <1>5, <2>1, LookStep
<1>6. CASE Rx!LoadEdges
  <2>1. sent' = sent BY <1>6 DEF Rx!LoadEdges, Rx!sender
  <2> QED BY <1>2, <1>4, <1>6, <2>1, LoadStep
<1>7. CASE Rx!Each
  <2>1. sent' = sent BY <1>7 DEF Rx!Each, Rx!sender
  <2> QED BY <1>2, <1>4, <1>7, <2>1, EachStep
<1>8. CASE Rx!CheckEdges
  <2>1. sent' = sent BY <1>8 DEF Rx!CheckEdges, Rx!sender
  <2> QED BY <1>2, <1>4, <1>8, <2>1, CheckStep
<1>9. CASE Rx!ReadClock
  <2>1. sent' = sent BY <1>9 DEF Rx!ReadClock, Rx!sender
  <2> QED BY <1>2, <1>4, <1>9, <2>1, ClockStep
<1>10. CASE Rx!Read
  <2>1. sent' = sent BY <1>10 DEF Rx!Read, Rx!sender
  <2> QED BY <1>2, <1>4, <1>10, <2>1, ReadWordStep
<1>11. CASE Rx!AskOverflow BY <1>11 DEF Rx!AskOverflow, Flagged
<1>12. CASE UNCHANGED Rx!vars
  <2>1. UNCHANGED <<now, line, rest, sent, isrBuffer, lastTick, rx, rxBuffer, received, rxAt, left, stall>> BY <1>12 DEF Rx!vars
  <2>2. InTime(start)' BY <1>2, <2>1, Unmoved DEF Good, Made
  <2>3. RxTypes' /\ Looking' BY <1>1, <2>1 DEF RxTypes, Working, Looking
  <2> QED BY <1>4, <2>1, <2>2, <2>3 DEF Good
<1> QED BY <1>3, <1>5, <1>6, <1>7, <1>8, <1>9, <1>10, <1>11, <1>12 DEF Rx!Next, Rx!RxBits

\* At first the line is idle and nothing has come.
LEMMA RxInitInv == ASSUME Rx!SerialConstants, Rx!Init PROVE RxInv
<1>1. /\ now = 0 /\ line = TRUE /\ rest = <<>> /\ sent = <<>> /\ isrBuffer = <<>>
      /\ lastTick = [tick |-> 0, level |-> TRUE]
      /\ rx = [last |-> Rx!PduBits - 1, bits |-> <<>>, parity |-> FALSE]
      /\ rxBuffer = <<>> /\ rxAt = "away" /\ left = 0 /\ stall = 0 /\ received = <<>>
  BY DEF Rx!Init
<1>2. Rx!PduBits \in Nat /\ MaxTime \in Nat /\ RxCapacity \in Nat BY RxSizes DEF Rx!SerialConstants
<1>3. Len(sent) = 0 /\ Len(isrBuffer) = 0 /\ Len(rest) = 0 /\ Len(rxBuffer) = 0 BY <1>1
<1>4. RxTypes
  <2>1. rx \in Words
    <3>1. Rx!PduBits - 1 \in Int /\ <<>> \in Seq(BOOLEAN) BY <1>2
    <3> QED BY <1>1, <3>1 DEF Words
  <2>2. lastTick \in [tick : Nat, level : BOOLEAN] BY <1>1
  <2> QED BY <1>1, <1>2, <1>3, <2>1, <2>2 DEF RxTypes, Working
<1>5. Looking BY <1>1 DEF Looking
<1> PICK start : start = [k \in 1..0 |-> 1] OBVIOUS
<1>6. start \in [1..Len(sent) -> 1..MaxTime] BY <1>3
<1> PICK w : w = Wave(start, sent) OBVIOUS
<1>7. \A t \in Nat : w[t] = TRUE BY <1>3 DEF Wave
<1>8. OnLine(start, w)
  <2>1. Apart(start, sent) BY <1>3 DEF Apart
  <2>2. line = w[now] BY <1>1, <1>7
  <2> QED BY <1>3, <2>1, <2>2 DEF OnLine
<1>9. Recorded(w)
  <2>1. EdgeAt(0).tick = 0 /\ EdgeAt(0).level = TRUE BY <1>1 DEF EdgeAt
  <2>2. \A i \in 0..0 : i = 0 OBVIOUS
  <2>3. \A t \in 0..0 : w[t] = TRUE BY <1>7
  <2>4. \A i \in 0..Len(isrBuffer) : EdgeAt(i).tick <= now
    <3> SUFFICES ASSUME NEW i \in 0..Len(isrBuffer) PROVE EdgeAt(i).tick <= now OBVIOUS
    <3>1. i = 0 BY <1>3
    <3> QED BY <1>1, <2>1, <3>1
  <2>5. \A t \in EdgeAt(Len(isrBuffer)).tick..now : w[t] = EdgeAt(Len(isrBuffer)).level
    BY <1>1, <1>3, <2>1, <2>3
  <2>6. 1..Len(isrBuffer) = {} BY <1>3
  <2> QED BY <2>4, <2>5, <2>6 DEF Recorded
<1>10. Decoded(start)
  <2>1. Made = <<>> BY <1>1 DEF Made
  <2>2. Len(Made) = 0 BY <2>1
  <2>3. Idle(start, 0) BY <1>1, <1>3 DEF Idle
  <2> QED BY <1>3, <2>2, <2>3 DEF Decoded
<1> QED BY <1>4, <1>5, <1>6, <1>8, <1>9, <1>10 DEF RxInv, InTime

\* The invariant has the words made as the first ones sent.
LEMMA RxInvReceived == RxInv => ReceivedUnlessOverflow
<1> SUFFICES ASSUME RxTypes, NEW start, Decoded(start) PROVE SubSeq(sent, 1, Len(Made)) = Made
  BY DEF RxInv, InTime, Flagged, ReceivedUnlessOverflow, Rx!ReceivedUnlessOverflow, Made
<1>1. sent \in Seq(Frames) /\ Made \in Seq(Frames) BY ConcatProperties DEF RxTypes, Working, Made
<1>2. Len(Made) <= Len(sent) /\ \A k \in 1..Len(Made) : Made[k] = sent[k] BY DEF Decoded
<1>n. PICK n \in Nat : n = Len(Made) BY <1>1
<1>3. \A i \in 1..n : sent[i] \in Frames
  <2> SUFFICES ASSUME NEW i \in 1..n PROVE sent[i] \in Frames OBVIOUS
  <2>1. i \in 1..Len(sent) BY <1>1, <1>2, <1>n
  <2> QED BY <1>1, <2>1, ElementOfSeq
<1> DEFINE t == SubSeq(sent, 1, n)
<1>4. /\ t \in Seq(Frames) /\ Len(t) = (IF 1 <= n THEN n - 1 + 1 ELSE 0)
      /\ \A i \in 1..(n - 1 + 1) : t[i] = sent[1 + i - 1]
  BY <1>3, SubSeqProperties
<1> HIDE DEF t
<1>5. Len(t) = n BY <1>4
<1>6. ASSUME NEW i \in 1..n PROVE t[i] = Made[i]
  <2>1. i \in 1..(n - 1 + 1) /\ 1 + i - 1 = i OBVIOUS
  <2>2. t[i] = sent[1 + i - 1] BY <1>4, <2>1
  <2> QED BY <1>2, <1>n, <2>1, <2>2
<1>7. t = Made BY <1>1, <1>4, <1>5, <1>6, <1>n, SeqEqual
<1> QED BY <1>7, <1>n DEF t

\* ReceivedUnlessOverflow, for every word format, every size of the queues and
\* every choice of words, when the program is held up between the two looks of
\* rxBits() (available() and micros()) for no more bits than there are stop bits.
\* Held up for one bit more, it makes up an edge within the next word.
THEOREM WordsAreReceived ==
  Rx!SerialConstants /\ MaxStall <= StopBits /\ Rx!Spec => []ReceivedUnlessOverflow
<1> SUFFICES ASSUME Rx!SerialConstants, MaxStall <= StopBits PROVE Rx!Spec => []ReceivedUnlessOverflow OBVIOUS
<1>1. Rx!Init => RxInv BY RxInitInv
<1>2. RxInv /\ [Rx!Next]_(Rx!vars) => RxInv' BY RxStep
<1>3. RxInv => ReceivedUnlessOverflow BY RxInvReceived
<1> QED BY <1>1, <1>2, <1>3, PTL DEF Rx!Spec
=============================================================================
