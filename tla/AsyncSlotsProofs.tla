-------------------------- MODULE AsyncSlotsProofs --------------------------
(***************************************************************************)
(* For any number of slots and connections: _closed_slots[] and the        *)
(* clients' _closed_slot agree, although both threads free slots; a call   *)
(* with the members of a client that lwIP has ended is refused, slots being *)
(* allocated by age; and the slots suffice for the pcbs.                   *)
(***************************************************************************)
EXTENDS AsyncSlots, FiniteSetTheorems, TLAPS

\* A connection not yet accepted has no slot.
NoneHasNoSlot == \A c \in Clients : conn[c] = "none" => slot[c] = Invalid

IInv == TypeOK /\ SlotsAgree /\ NoneHasNoSlot

\* What freeing a client's slot keeps.
FreeKeeps ==
    /\ closedSlots' \in [Slots -> 0..MaxIndex] /\ closedIndex' \in 1..MaxIndex + 1
    /\ slot' \in [Clients -> Slots \cup {Invalid}]
    /\ first' \in Clients \cup {Nobody} /\ waiting' \in Nat /\ taken' \in Nat
    /\ SlotsAgree'
    /\ \A d \in Clients : slot'[d] # Invalid => slot'[d] = slot[d]

\* Freeing a slot leaves every other slot as it was.
LEMMA FreeLemma ==
    ASSUME IInv, NEW c \in Clients, Free(c)
    PROVE  FreeKeeps
<1> USE SlotsAssumption
<1>1. CASE slot[c] = Invalid
  BY <1>1 DEF Free, FreeKeeps, IInv, TypeOK, SlotsAgree
<1>2. CASE slot[c] # Invalid
  <2> DEFINE s == slot[c]
  <2>1. s \in Slots /\ s # Invalid
    BY <1>2 DEF IInv, TypeOK
  <2>2. FreeSlot(c)
    BY <1>2 DEF Free
  <2>3. /\ closedSlots' = [closedSlots EXCEPT ![s] = closedIndex]
        /\ slot' = [slot EXCEPT ![c] = Invalid]
        /\ closedIndex' = closedIndex + 1 /\ closedIndex \in 1..MaxIndex
    BY <2>2 DEF FreeSlot, IInv, TypeOK
  <2>4. /\ closedSlots' \in [Slots -> 0..MaxIndex] /\ closedIndex' \in 1..MaxIndex + 1
        /\ slot' \in [Clients -> Slots \cup {Invalid}]
        /\ first' \in Clients \cup {Nobody}
    <3>1. closedIndex \in 0..MaxIndex /\ closedIndex + 1 \in 1..MaxIndex + 1
      BY <2>3
    <3>2. closedSlots' \in [Slots -> 0..MaxIndex]
      BY <3>1, <2>1, <2>3 DEF IInv, TypeOK
    <3>3. slot' \in [Clients -> Slots \cup {Invalid}]
      BY <2>3 DEF IInv, TypeOK
    <3>4. first' = IF first = Nobody THEN c ELSE first
      BY <2>2 DEF FreeSlot
    <3>5. first' \in Clients \cup {Nobody}
      BY <3>4 DEF IInv, TypeOK
    <3> QED  BY <3>1, <3>2, <3>3, <3>5, <2>3
  <2>5. waiting' \in Nat /\ taken' \in Nat
    <3>1. Cardinality(FreeSlots) \in Nat
      BY FS_Subset, FS_CardinalityType DEF FreeSlots
    <3> QED  BY <2>2, <3>1 DEF FreeSlot, IInv, TypeOK
  <2>6. \A d \in Clients : slot'[d] = IF d = c THEN Invalid ELSE slot[d]
    BY <2>3 DEF IInv, TypeOK
  <2>7. \A t \in Slots : closedSlots'[t] = IF t = s THEN closedIndex ELSE closedSlots[t]
    BY <2>3 DEF IInv, TypeOK
  <2>8. SlotsAgree'
    <3> HIDE DEF s
    <3>1. ASSUME NEW t \in Slots
          PROVE  /\ closedSlots'[t] = 0 <=> \E d \in Clients : slot'[d] = t
                 /\ \A d, e \in Clients : slot'[d] = t /\ slot'[e] = t => d = e
      <4>1. t # Invalid
        BY DEF Invalid
      <4>2. /\ closedSlots[t] = 0 <=> \E d \in Clients : slot[d] = t
            /\ \A d, e \in Clients : slot[d] = t /\ slot[e] = t => d = e
        BY DEF IInv, SlotsAgree
      <4>3. CASE t = s
        <5>1. closedSlots'[t] # 0
          BY <4>3, <2>7, <2>3
        <5>2. \A d \in Clients : slot'[d] # t
          BY <4>1, <4>2, <4>3, <2>6 DEF s
        <5> QED  BY <5>1, <5>2
      <4>4. CASE t # s
        BY <4>1, <4>2, <4>4, <2>6, <2>7 DEF s
      <4> QED  BY <4>3, <4>4
    <3> QED  BY <3>1 DEF SlotsAgree
  <2> QED  BY <2>4, <2>5, <2>6, <2>8 DEF FreeKeeps
<1> QED  BY <1>1, <1>2

\* The members of a freed slot's invariant that the other members frame.
LEMMA FreeStep ==
    ASSUME IInv, NEW c \in Clients, Free(c),
           pcb' \in [Clients -> BOOLEAN], conn' \in [Clients -> {"none", "up", "shut"} \cup Gone],
           \A d \in Clients : conn'[d] = "none" => conn[d] = "none",
           fin' \in Clients \cup {Nobody}, call' \in Calls \cup {NoCall}, stuck' \in BOOLEAN
    PROVE  IInv'
<1>1. FreeKeeps
  BY FreeLemma
<1>2. NoneHasNoSlot'
  BY <1>1 DEF FreeKeeps, IInv, NoneHasNoSlot
<1> QED  BY <1>1, <1>2 DEF FreeKeeps, IInv, TypeOK

\* A new connection's slot was nobody's.
LEMMA AcceptStep ==
    ASSUME IInv, NEW c \in Clients, Accept(c)
    PROVE  IInv'
<1> USE SlotsAssumption
<1>1. conn[c] = "none" /\ slot[c] = Invalid
  BY DEF Accept, IInv, NoneHasNoSlot
<1>2. /\ conn' = [conn EXCEPT ![c] = "up"] /\ pcb' = [pcb EXCEPT ![c] = TRUE]
      /\ UNCHANGED <<closedIndex, fin, call, first, waiting>>
  BY DEF Accept
<1>3. conn' \in [Clients -> {"none", "up", "shut"} \cup Gone] /\ pcb' \in [Clients -> BOOLEAN]
  BY <1>2 DEF IInv, TypeOK
<1>4. CASE stuck' = TRUE /\ UNCHANGED <<slot, closedSlots, taken>>
  BY <1>1, <1>2, <1>3, <1>4 DEF IInv, TypeOK, SlotsAgree, NoneHasNoSlot
<1>5. ASSUME NEW s \in Slots, Allocate(s),
             slot' = [slot EXCEPT ![c] = s] /\ closedSlots' = [closedSlots EXCEPT ![s] = 0],
             taken' = IF \E d \in Clients : Called(d) /\ conn[d] = "closed" THEN taken + 1 ELSE taken,
             UNCHANGED stuck
      PROVE  IInv'
  <2>1. closedSlots[s] # 0 /\ s # Invalid
    BY <1>5 DEF Allocate, FreeSlots, Invalid
  <2>2. slot' \in [Clients -> Slots \cup {Invalid}] /\ closedSlots' \in [Slots -> 0..MaxIndex]
    BY <1>5 DEF IInv, TypeOK
  <2>3. taken' \in Nat
    BY <1>5 DEF IInv, TypeOK
  <2>4. \A d \in Clients : slot'[d] = IF d = c THEN s ELSE slot[d]
    BY <1>5 DEF IInv, TypeOK
  <2>5. \A t \in Slots : closedSlots'[t] = IF t = s THEN 0 ELSE closedSlots[t]
    BY <1>5 DEF IInv, TypeOK
  <2>6. SlotsAgree'
    <3>1. \A d \in Clients : slot[d] # s
      BY <2>1 DEF IInv, SlotsAgree
    <3>2. ASSUME NEW t \in Slots
          PROVE  /\ closedSlots'[t] = 0 <=> \E d \in Clients : slot'[d] = t
                 /\ \A d, e \in Clients : slot'[d] = t /\ slot'[e] = t => d = e
      <4>1. /\ closedSlots[t] = 0 <=> \E d \in Clients : slot[d] = t
            /\ \A d, e \in Clients : slot[d] = t /\ slot[e] = t => d = e
        BY DEF IInv, SlotsAgree
      <4>2. CASE t = s
        BY <4>2, <3>1, <2>4, <2>5
      <4>3. CASE t # s
        <5>1. slot[c] # t
          BY <1>1 DEF Invalid
        <5> QED  BY <4>1, <4>3, <5>1, <2>4, <2>5
      <4> QED  BY <4>2, <4>3
    <3> QED  BY <3>2 DEF SlotsAgree
  <2>7. NoneHasNoSlot'
    BY <1>2, <2>4 DEF IInv, TypeOK, NoneHasNoSlot
  <2> QED  BY <1>2, <1>3, <1>5, <2>2, <2>3, <2>6, <2>7 DEF IInv, TypeOK
<1> QED  BY <1>4, <1>5 DEF Accept

\* Every step keeps the invariant.
LEMMA NextStep ==
    ASSUME IInv, [Next]_vars
    PROVE  IInv'
<1> USE SlotsAssumption
<1>1. ASSUME NEW c \in Clients, Fin(c) PROVE IInv'
  BY <1>1, FreeStep DEF Fin, Gone, IInv, TypeOK
<1>2. ASSUME FinEnd PROVE IInv'
  BY <1>2 DEF FinEnd, IInv, TypeOK, SlotsAgree, NoneHasNoSlot
<1>3. ASSUME NEW c \in Clients, Fail(c) PROVE IInv'
  BY <1>3 DEF Fail, Gone, IInv, TypeOK, SlotsAgree, NoneHasNoSlot
<1>4. ASSUME Perform PROVE IInv'
  <2>1. call \in Calls /\ call' \in Calls
    BY <1>4 DEF Perform, Calls, IInv, TypeOK
  <2>2. conn' \in [Clients -> {"none", "up", "shut"} \cup Gone]
    BY <1>4 DEF Perform, Gone, IInv, TypeOK
  <2>3. \A d \in Clients : conn'[d] = "none" => conn[d] = "none"
    BY <1>4 DEF Perform, IInv, TypeOK
  <2> QED  BY <1>4, <2>1, <2>2, <2>3 DEF Perform, IInv, TypeOK, SlotsAgree, NoneHasNoSlot
<1>5. ASSUME NEW c \in Clients, NEW kind \in {"use", "close"}, Call(c, kind) PROVE IInv'
  <2>1. call' \in Calls
    BY <1>5 DEF Call, Calls
  <2>2. /\ conn' \in [Clients -> {"none", "up", "shut"} \cup Gone]
        /\ \A d \in Clients : conn'[d] = "none" => conn[d] = "none"
    BY <1>5 DEF Call, IInv, TypeOK
  <2> QED  BY <1>5, <2>1, <2>2 DEF Call, IInv, TypeOK, SlotsAgree, NoneHasNoSlot
<1>6. ASSUME NEW c \in Clients, HandleError(c) PROVE IInv'
  BY <1>6, FreeStep DEF HandleError, IInv, TypeOK
<1>7. ASSUME ReadPcb PROVE IInv'
  <2>1. call \in Calls /\ call' \in Calls
    BY <1>7 DEF ReadPcb, Calls, IInv, TypeOK
  <2> QED  BY <1>7, <2>1 DEF ReadPcb, IInv, TypeOK, SlotsAgree, NoneHasNoSlot
<1>8. ASSUME ReadSlot PROVE IInv'
  <2>1. call \in Calls
    BY <1>8 DEF ReadSlot, IInv, TypeOK
  <2>2. slot[call.client] \in Slots \cup {Invalid}
    BY <2>1 DEF Calls, IInv, TypeOK
  <2>3. call' \in Calls
    BY <1>8, <2>1, <2>2 DEF ReadSlot, Calls
  <2> QED  BY <1>8, <2>3 DEF ReadSlot, IInv, TypeOK, SlotsAgree, NoneHasNoSlot
<1>9. ASSUME Return PROVE IInv'
  <2>1. call.client \in Clients
    BY <1>9 DEF Return, Calls, IInv, TypeOK
  <2>2. CASE call.kind = "close"
    <3>1. Free(call.client) /\ pcb' = [pcb EXCEPT ![call.client] = FALSE]
      BY <1>9, <2>2 DEF Return
    <3>2. pcb' \in [Clients -> BOOLEAN]
      BY <3>1 DEF IInv, TypeOK
    <3>3. FreeKeeps
      BY <3>1, <2>1, FreeLemma
    <3>4. NoneHasNoSlot'
      BY <1>9, <3>3 DEF Return, FreeKeeps, IInv, NoneHasNoSlot
    <3> QED  BY <1>9, <3>2, <3>3, <3>4 DEF Return, FreeKeeps, IInv, TypeOK
  <2>3. CASE call.kind # "close"
    BY <1>9, <2>3 DEF Return, IInv, TypeOK, SlotsAgree, NoneHasNoSlot
  <2> QED  BY <2>2, <2>3
<1>10. ASSUME UNCHANGED vars PROVE IInv'
  BY <1>10 DEF vars, IInv, TypeOK, SlotsAgree, NoneHasNoSlot, Called
<1> QED
  BY <1>1, <1>2, <1>3, <1>4, <1>5, <1>6, <1>7, <1>8, <1>9, <1>10, AcceptStep
     DEF Next, Lwip, ServiceTask

\* All slots are free at first.
LEMMA InitStep == Init => IInv
<1> SUFFICES ASSUME Init PROVE IInv
  OBVIOUS
<1>1. SlotsAgree
  BY SlotsAssumption DEF Init, SlotsAgree, Invalid
<1>2. closedSlots \in [Slots -> 0..MaxIndex] /\ closedIndex \in 1..MaxIndex + 1
  BY SlotsAssumption DEF Init
<1> QED  BY <1>1, <1>2 DEF Init, IInv, TypeOK, NoneHasNoSlot

\* The invariant holds, for any number of slots and connections.
THEOREM Invariance == Spec => []IInv
BY InitStep, NextStep, PTL DEF Spec

\* The members and the call are what the code declares them to be; among it that
\* no slot is ever marked free with the index 0, which would lose it.
THEOREM TypeCorrect == Spec => []TypeOK
<1>1. IInv => TypeOK
  BY DEF IInv
<1> QED  BY <1>1, Invariance, PTL

\* Whichever thread frees a slot, in whatever order, a slot is in use exactly
\* when one client has it: no slot is lost and none is shared.
THEOREM SlotsAlwaysAgree == Spec => []SlotsAgree
<1>1. IInv => SlotsAgree
  BY DEF IInv
<1> QED  BY <1>1, Invariance, PTL

-----------------------------------------------------------------------------
(* The age of a freed slot.                                                *)

\* lwIP's pcbs.
Live == {d \in Clients : conn[d] \in {"up", "shut"}}

\* An index marks one slot only, but for that of the slots never used, which
\* the first closing takes too; and no slot is younger than _closed_index.
Indices ==
    /\ \A s \in Slots : closedSlots[s] < closedIndex \/ closedSlots[s] = 1
    /\ \A s, t \in Slots : s # t /\ closedSlots[s] = closedSlots[t] => closedSlots[s] \in {0, 1}
    /\ first # Nobody => closedIndex >= 2

\* A client whose connection is closed has no slot, unless lwIP has closed it
\* in the close() that is about to return.
ClosedHasNoSlot ==
    \A c \in Clients : conn[c] = "closed" /\ slot[c] # Invalid =>
        Called(c) /\ call.kind = "close" /\ call.pcb = "null"

\* The slot a call was made with is still its client's, as long as it is up.
ReadSlotIsCurrent ==
    call # NoCall /\ call.slot \in Slots /\ conn[call.client] = "up" =>
        slot[call.client] = call.slot

\* The slots that will be allocated before s.
Older(s) == {t \in FreeSlots : closedSlots[t] < closedSlots[s]}

\* What was free when the call's slot was freed has been allocated since, or is
\* still to be allocated before it.
StaleSlotAges ==
    /\ call # NoCall /\ call.slot \in Slots /\ call.pcb # "null"
    /\ conn[call.client] = "closed" /\ first # call.client
    => \/ taken > waiting
       \/ /\ closedSlots[call.slot] >= 2
          /\ taken + Cardinality(Older(call.slot)) = waiting

\* A call is made for a client that has had a connection.
CalledIsKnown == \A c \in Clients : conn[c] = "none" => ~pcb[c] /\ ~Called(c)

AgeInv ==
    /\ IsFiniteSet(Live) /\ Indices /\ ClosedHasNoSlot /\ CalledIsKnown
    /\ ReadSlotIsCurrent /\ StaleSlotAges

\* Freeing a client's slot makes it the youngest, and touches no other client's.
LEMMA FreeAges ==
    ASSUME IInv, Indices, NEW c \in Clients, Free(c)
    PROVE  /\ Indices' /\ slot'[c] = Invalid
           /\ \A d \in Clients : d # c => slot'[d] = slot[d]
           /\ \A s \in Slots : closedSlots[s] # 0 => closedSlots'[s] = closedSlots[s]
           /\ \A s \in Slots : closedSlots[s] = 0 /\ closedSlots'[s] # 0 =>
                closedSlots'[s] = closedIndex /\ slot[c] = s
           /\ ~Called(c) => UNCHANGED <<waiting, taken>>
<1> USE SlotsAssumption
<1>1. CASE slot[c] = Invalid
  BY <1>1 DEF Free, IInv, TypeOK, Indices
<1>2. CASE slot[c] # Invalid
  <2>1. slot[c] \in Slots /\ FreeSlot(c)
    BY <1>2 DEF Free, IInv, TypeOK
  <2>2. closedSlots[slot[c]] = 0
    BY <2>1 DEF IInv, SlotsAgree
  <2>3. /\ \A d \in Clients : slot'[d] = IF d = c THEN Invalid ELSE slot[d]
        /\ \A s \in Slots : closedSlots'[s] = IF s = slot[c] THEN closedIndex ELSE closedSlots[s]
        /\ closedIndex' = closedIndex + 1 /\ closedIndex \in 1..MaxIndex
        /\ first' # Nobody => closedIndex' >= 2
    BY <2>1 DEF FreeSlot, IInv, TypeOK
  <2>4. \A s \in Slots : closedSlots[s] \in Nat
    BY DEF IInv, TypeOK
  <2>5. \A s \in Slots : closedSlots'[s] < closedIndex' \/ closedSlots'[s] = 1
    BY <2>3, <2>4 DEF Indices
  <2>6. \A s, t \in Slots : s # t /\ closedSlots'[s] = closedSlots'[t] => closedSlots'[s] \in {0, 1}
    BY <2>3, <2>4 DEF Indices
  <2>7. ~Called(c) => UNCHANGED <<waiting, taken>>
    BY <2>1 DEF FreeSlot
  <2> QED  BY <2>1, <2>2, <2>3, <2>5, <2>6, <2>7 DEF Indices
<1> QED  BY <1>1, <1>2

\* The number of live connections is finite whatever one of them does.
LEMMA LiveStep ==
    ASSUME IInv, IsFiniteSet(Live), [Next]_vars
    PROVE  IsFiniteSet(Live')
<1>1. ASSUME NEW c \in Clients, conn' = [conn EXCEPT ![c] = "up"] PROVE IsFiniteSet(Live')
  <2>1. Live' \subseteq Live \cup {c}
    BY <1>1 DEF Live, IInv, TypeOK
  <2>2. IsFiniteSet(Live \cup {c})
    BY FS_AddElement
  <2> QED  BY <2>1, <2>2, FS_Subset
<1>2. ASSUME \A c \in Clients : conn'[c] \in {"up", "shut"} => conn[c] \in {"up", "shut"}
      PROVE  IsFiniteSet(Live')
  <2>1. Live' \subseteq Live
    BY <1>2 DEF Live
  <2> QED  BY <2>1, FS_Subset
<1>3. ASSUME NEW c \in Clients, Accept(c) PROVE IsFiniteSet(Live')
  BY <1>1, <1>3 DEF Accept
<1>4. ASSUME NEW c \in Clients, Fin(c) \/ Fail(c) PROVE IsFiniteSet(Live')
  BY <1>2, <1>4 DEF Fin, Fail, IInv, TypeOK
<1>5. ASSUME Perform PROVE IsFiniteSet(Live')
  BY <1>2, <1>5 DEF Perform, IInv, TypeOK
<1>6. ASSUME NEW c \in Clients, NEW kind \in {"use", "close"}, Call(c, kind) PROVE IsFiniteSet(Live')
  BY <1>2, <1>6 DEF Call, IInv, TypeOK
<1>7. CASE UNCHANGED conn
  BY <1>2, <1>7
<1> QED
  BY <1>3, <1>4, <1>5, <1>6, <1>7
     DEF Next, Lwip, ServiceTask, FinEnd, HandleError, ReadPcb, ReadSlot, Return, vars

\* The service task's call is for a client, with the slot it read.
LEMMA CallTyped == ASSUME IInv, call # NoCall
                   PROVE  /\ call.client \in Clients /\ call.kind \in {"use", "close"}
                          /\ call.pcb \in {"set", "null", "unread"}
                          /\ call.slot \in Slots \cup {Invalid, Unread}
                          /\ Invalid \notin Slots /\ Unread \notin Slots
BY SlotsAssumption DEF IInv, TypeOK, Calls, Invalid, Unread

\* The slots and the calls, but for the slot's age, after a step.
Frame == Indices /\ ClosedHasNoSlot /\ CalledIsKnown /\ ReadSlotIsCurrent

\* lwIP's steps.
LEMMA LwipFrame ==
    ASSUME IInv, Frame, Lwip
    PROVE  Frame'
<1> USE CallTyped DEF Frame
<1>1. ASSUME NEW c \in Clients, Accept(c) PROVE Frame'
  <2>1. /\ conn[c] = "none" /\ ~Called(c) /\ slot[c] = Invalid
        /\ conn' = [conn EXCEPT ![c] = "up"] /\ pcb' = [pcb EXCEPT ![c] = TRUE]
        /\ UNCHANGED <<closedIndex, call, first>>
    BY <1>1 DEF Accept, CalledIsKnown, IInv, NoneHasNoSlot
  <2>2. /\ \A d \in Clients : d # c => slot'[d] = slot[d]
        /\ \A s \in Slots : closedSlots'[s] \in {0, closedSlots[s]}
    BY <1>1 DEF Accept, IInv, TypeOK
  <2>3. Indices'
    <3>1. closedIndex \in Nat \ {0} /\ \A s \in Slots : closedSlots[s] \in Nat
      BY SlotsAssumption DEF IInv, TypeOK
    <3>2. \A s \in Slots : closedSlots'[s] < closedIndex' \/ closedSlots'[s] = 1
      BY <2>1, <2>2, <3>1 DEF Indices
    <3>3. \A s, t \in Slots : s # t /\ closedSlots'[s] = closedSlots'[t] => closedSlots'[s] \in {0, 1}
      BY <2>2 DEF Indices
    <3> QED  BY <2>1, <3>2, <3>3 DEF Indices
  <2>4. ClosedHasNoSlot' /\ CalledIsKnown'
    BY <2>1, <2>2 DEF ClosedHasNoSlot, CalledIsKnown, Called, IInv, TypeOK
  <2>5. ReadSlotIsCurrent'
    BY <2>1, <2>2 DEF ReadSlotIsCurrent, Called, IInv, TypeOK
  <2> QED  BY <2>3, <2>4, <2>5
<1>2. ASSUME NEW c \in Clients, Fin(c) PROVE Frame'
  <2>1. /\ Free(c) /\ conn[c] = "up" /\ conn' = [conn EXCEPT ![c] = "closed"]
        /\ UNCHANGED <<pcb, call>>
    BY <1>2 DEF Fin
  <2>2. /\ Indices' /\ slot'[c] = Invalid
        /\ \A d \in Clients : d # c => slot'[d] = slot[d]
    BY <2>1, FreeAges
  <2> QED  BY <2>1, <2>2 DEF ClosedHasNoSlot, CalledIsKnown, ReadSlotIsCurrent, Called, IInv, TypeOK
<1>3. ASSUME NEW c \in Clients, Fail(c) PROVE Frame'
  BY <1>3 DEF Fail, Indices, ClosedHasNoSlot, CalledIsKnown, ReadSlotIsCurrent, Called, IInv, TypeOK
<1>4. ASSUME FinEnd PROVE Frame'
  BY <1>4 DEF FinEnd, Indices, ClosedHasNoSlot, CalledIsKnown, ReadSlotIsCurrent, Called, IInv, TypeOK
<1>5. ASSUME Perform PROVE Frame'
  <2>1. /\ call # NoCall /\ call' = [call EXCEPT !.pcb = "null"] /\ call' # NoCall
        /\ UNCHANGED <<closedSlots, closedIndex, slot, pcb, first>>
    BY <1>5 DEF Perform, NoCall, Calls, IInv, TypeOK
  <2>2. call'.client = call.client /\ call'.kind = call.kind /\ call'.slot = call.slot /\ call'.pcb = "null"
    BY <2>1 DEF Calls, IInv, TypeOK
  <2>3. /\ \A d \in Clients : d # call.client \/ call.kind # "close" => conn'[d] = conn[d]
        /\ \A d \in Clients : conn'[d] \in {"up", "none"} => conn[d] = conn'[d]
    BY <1>5 DEF Perform, IInv, TypeOK
  <2>4. Indices'
    BY <2>1 DEF Indices
  <2>5. ClosedHasNoSlot'
    BY <1>5, <2>1, <2>2, <2>3 DEF Perform, ClosedHasNoSlot, Called
  <2>6. CalledIsKnown' /\ ReadSlotIsCurrent'
    BY <2>1, <2>2, <2>3 DEF CalledIsKnown, ReadSlotIsCurrent, Called
  <2> QED  BY <2>4, <2>5, <2>6
<1> QED  BY <1>1, <1>2, <1>3, <1>4, <1>5 DEF Lwip

\* The service task's steps.
LEMMA ServiceFrame ==
    ASSUME IInv, Frame, ServiceTask
    PROVE  Frame'
<1> USE CallTyped DEF Frame
<1>1. ASSUME NEW c \in Clients, NEW kind \in {"use", "close"}, Call(c, kind) PROVE Frame'
  <2>1. /\ call = NoCall /\ pcb[c] /\ call'.client = c /\ call'.slot = Unread /\ call' # NoCall
        /\ UNCHANGED <<closedSlots, closedIndex, slot, pcb, first>>
    BY <1>1 DEF Call, NoCall
  <2>2. \A d \in Clients : conn'[d] = conn[d] \/ (conn[d] = "up" /\ conn'[d] = "shut")
    BY <1>1 DEF Call, IInv, TypeOK
  <2>3. Unread \notin Slots
    BY SlotsAssumption DEF Unread
  <2>4. Indices' /\ ClosedHasNoSlot' /\ ReadSlotIsCurrent'
    BY <2>1, <2>2, <2>3 DEF Indices, ClosedHasNoSlot, ReadSlotIsCurrent, Called
  <2>5. CalledIsKnown'
    BY <2>1, <2>2 DEF CalledIsKnown, Called
  <2> QED  BY <2>4, <2>5
<1>2. ASSUME NEW c \in Clients, HandleError(c) PROVE Frame'
  <2>1. /\ call = NoCall /\ Free(c) /\ pcb[c] /\ pcb' = [pcb EXCEPT ![c] = FALSE]
        /\ UNCHANGED <<conn, call>>
    BY <1>2 DEF HandleError
  <2>2. /\ Indices' /\ slot'[c] = Invalid
        /\ \A d \in Clients : d # c => slot'[d] = slot[d]
    BY <2>1, FreeAges
  <2> QED  BY <2>1, <2>2 DEF ClosedHasNoSlot, CalledIsKnown, ReadSlotIsCurrent, Called, IInv, TypeOK
<1>3. ASSUME ReadPcb PROVE Frame'
  <2>1. /\ call # NoCall /\ call.pcb = "unread" /\ call' # NoCall
        /\ call'.client = call.client /\ call'.slot = call.slot
        /\ UNCHANGED <<closedSlots, closedIndex, slot, pcb, conn, first>>
    BY <1>3 DEF ReadPcb, NoCall, Calls, IInv, TypeOK
  <2> QED  BY <2>1 DEF Indices, ClosedHasNoSlot, CalledIsKnown, ReadSlotIsCurrent, Called
<1>4. ASSUME ReadSlot PROVE Frame'
  <2>1. /\ call # NoCall /\ call' # NoCall /\ call'.kind = call.kind /\ call'.pcb = call.pcb
        /\ call'.client = call.client /\ call'.slot = slot[call.client]
        /\ UNCHANGED <<closedSlots, closedIndex, slot, pcb, conn, first>>
    BY <1>4 DEF ReadSlot, NoCall, Calls, IInv, TypeOK
  <2> QED  BY <2>1 DEF Indices, ClosedHasNoSlot, CalledIsKnown, ReadSlotIsCurrent, Called
<1>5. ASSUME Return PROVE Frame'
  <2>1. call # NoCall /\ call' = NoCall /\ UNCHANGED conn
    BY <1>5 DEF Return
  <2>2. CASE call.kind = "close"
    <3>1. Free(call.client) /\ pcb' = [pcb EXCEPT ![call.client] = FALSE]
      BY <1>5, <2>2 DEF Return
    <3>2. /\ Indices' /\ slot'[call.client] = Invalid
          /\ \A d \in Clients : d # call.client => slot'[d] = slot[d]
      BY <2>1, <3>1, FreeAges
    <3>3. ClosedHasNoSlot' /\ CalledIsKnown' /\ ReadSlotIsCurrent'
      BY <2>1, <3>1, <3>2 DEF ClosedHasNoSlot, CalledIsKnown, ReadSlotIsCurrent, Called, IInv, TypeOK
    <3> QED  BY <3>2, <3>3
  <2>3. CASE call.kind # "close"
    BY <1>5, <2>1, <2>3
       DEF Return, Indices, ClosedHasNoSlot, CalledIsKnown, ReadSlotIsCurrent, Called
  <2> QED  BY <2>2, <2>3
<1> QED  BY <1>1, <1>2, <1>3, <1>4, <1>5 DEF ServiceTask

\* What StaleSlotAges is about: the call's slot, freed since, still to be used.
Aged ==
    \/ taken > waiting
    \/ /\ closedSlots[call.slot] >= 2
       /\ taken + Cardinality(Older(call.slot)) = waiting

\* A slot is freed: the one of the call begins to age, every other is younger.
LEMMA FinAges ==
    ASSUME IInv, Frame, StaleSlotAges, NEW c \in Clients, Fin(c)
    PROVE  StaleSlotAges'
<1> USE SlotsAssumption
<1>1. /\ conn[c] = "up" /\ conn' = [conn EXCEPT ![c] = "closed"] /\ Free(c)
      /\ UNCHANGED <<pcb, call, stuck>>
  BY DEF Fin
<1>2. /\ Indices /\ closedIndex \in Nat \ {0}
      /\ \A s \in Slots : closedSlots[s] \in Nat
  BY DEF Frame, IInv, TypeOK
<1> SUFFICES ASSUME call # NoCall, call.slot \in Slots, call.pcb # "null",
                    conn'[call.client] = "closed", first' # call.client
             PROVE  Aged'
  BY <1>1 DEF StaleSlotAges, Aged
<1>0. PICK s \in Slots : s = call.slot
  OBVIOUS
<1>3. call.client \in Clients /\ call.slot = s /\ call'.slot = s
  BY <1>0, <1>1, CallTyped
<1>4. CASE call.client = c
  <2>1. slot[c] = s /\ s # Invalid /\ Called(c)
    BY <1>1, <1>3, <1>4 DEF Frame, ReadSlotIsCurrent, Called, Invalid
  <2>2. FreeSlot(c)
    BY <1>1, <2>1 DEF Free
  <2>3. /\ closedSlots' = [closedSlots EXCEPT ![s] = closedIndex]
        /\ first # Nobody /\ waiting' = Cardinality(FreeSlots) /\ taken' = 0
    BY <2>1, <2>2, <1>4 DEF FreeSlot
  <2>4. closedSlots[s] = 0 /\ closedIndex >= 2
    BY <2>1, <2>3, <1>2 DEF Indices, IInv, SlotsAgree
  <2>5. \A t \in Slots : closedSlots'[t] = IF t = s THEN closedIndex ELSE closedSlots[t]
    BY <2>3 DEF IInv, TypeOK
  <2>6. Older(s)' = FreeSlots
    <3>1. Older(s)' = {t \in Slots : closedSlots'[t] # 0 /\ closedSlots'[t] < closedSlots'[s]}
      BY DEF Older, FreeSlots
    <3>2. \A t \in Slots : t # s /\ closedSlots[t] # 0 => closedSlots[t] < closedIndex
      BY <1>2, <2>4 DEF Indices
    <3>3. closedSlots'[s] = closedIndex
      BY <2>5
    <3>4. ASSUME NEW t \in Slots
          PROVE  closedSlots'[t] # 0 /\ closedSlots'[t] < closedSlots'[s] <=> closedSlots[t] # 0
      BY <1>2, <2>4, <2>5, <3>2, <3>3
    <3> QED  BY <3>1, <3>4 DEF FreeSlots
  <2>7. Cardinality(FreeSlots) \in Nat
    BY FS_Subset, FS_CardinalityType DEF FreeSlots
  <2>8. closedSlots'[s] >= 2
    BY <1>3, <2>4, <2>5
  <2>10. taken' + Cardinality(Older(s)') = waiting'
    BY <2>3, <2>6, <2>7
  <2> QED  BY <1>3, <2>8, <2>10 DEF Aged, Older
<1>5. CASE call.client # c
  <2>1. conn[call.client] = "closed" /\ ~Called(c)
    BY <1>1, <1>3, <1>5 DEF Called, IInv, TypeOK
  <2>2. UNCHANGED <<waiting, taken>> /\ first # call.client
    <3>1. UNCHANGED <<waiting, taken>>
      BY <1>1, <2>1, FreeAges DEF Frame
    <3>2. first' = first \/ first = Nobody
      BY <1>1 DEF Free, FreeSlot
    <3> QED  BY <1>3, <3>1, <3>2
  <2>3. Aged
    BY <1>1, <2>1, <2>2 DEF StaleSlotAges, Aged
  <2>4. CASE taken > waiting
    BY <2>2, <2>4 DEF Aged
  <2>5. CASE closedSlots[s] >= 2 /\ taken + Cardinality(Older(s)) = waiting
    <3>1. /\ \A t \in Slots : closedSlots[t] # 0 => closedSlots'[t] = closedSlots[t]
          /\ \A t \in Slots : closedSlots[t] = 0 /\ closedSlots'[t] # 0 => closedSlots'[t] = closedIndex
      BY <1>1, FreeAges DEF Frame
    <3>2. closedSlots'[s] = closedSlots[s] /\ closedSlots[s] < closedIndex
      BY <1>2, <1>3, <2>5, <3>1 DEF Indices
    <3>a. Older(s)' = {t \in Slots : closedSlots'[t] # 0 /\ closedSlots'[t] < closedSlots'[s]}
      BY DEF Older, FreeSlots
    <3>3. ASSUME NEW t \in Slots
          PROVE  (closedSlots'[t] # 0 /\ closedSlots'[t] < closedSlots'[s])
                   <=> (closedSlots[t] # 0 /\ closedSlots[t] < closedSlots[s])
      <4>1. CASE closedSlots[t] # 0
        BY <1>2, <3>1, <3>2, <4>1
      <4>2. CASE closedSlots[t] = 0 /\ closedSlots'[t] # 0
        BY <1>2, <3>1, <3>2, <4>2
      <4> QED  BY <4>1, <4>2
    <3>4. Older(s)' = Older(s)
      BY <3>a, <3>3 DEF Older, FreeSlots
    <3>5. taken' + Cardinality(Older(s)') = waiting'
      BY <2>2, <2>5, <3>4
    <3> QED  BY <1>3, <2>5, <3>2, <3>5 DEF Aged, Older
  <2> QED  BY <1>3, <2>3, <2>4, <2>5 DEF Aged
<1> QED  BY <1>4, <1>5

\* A slot is allocated: one that has been free longer, or that of the call when
\* no other has.
LEMMA AcceptAges ==
    ASSUME IInv, Frame, StaleSlotAges, NEW c \in Clients, Accept(c)
    PROVE  StaleSlotAges'
<1> USE SlotsAssumption
<1>1. /\ conn[c] = "none" /\ conn' = [conn EXCEPT ![c] = "up"]
      /\ UNCHANGED <<closedIndex, fin, call, first, waiting>>
  BY DEF Accept
<1> SUFFICES ASSUME call # NoCall, call.slot \in Slots, call.pcb # "null",
                    conn'[call.client] = "closed", first' # call.client
             PROVE  Aged'
  BY <1>1 DEF StaleSlotAges, Aged
<1>0. PICK s \in Slots : s = call.slot
  OBVIOUS
<1>2. /\ call.client \in Clients /\ call.slot = s /\ call'.slot = s
      /\ conn[call.client] = "closed" /\ Called(call.client)
  BY <1>0, <1>1, CallTyped DEF IInv, TypeOK, Called
<1>3. Aged
  BY <1>1, <1>2 DEF StaleSlotAges, Aged
<1>4. /\ waiting \in Nat /\ taken \in Nat /\ waiting' = waiting
      /\ \A t \in Slots : closedSlots[t] \in Nat
  BY <1>1 DEF IInv, TypeOK
<1>5. CASE UNCHANGED <<slot, closedSlots, taken>>
  <2>1. Older(s)' = Older(s)
    BY <1>5 DEF Older, FreeSlots
  <2> QED  BY <1>2, <1>3, <1>4, <1>5, <2>1 DEF Aged, Older
<1>6. ASSUME NEW t \in Slots, Allocate(t), closedSlots' = [closedSlots EXCEPT ![t] = 0],
             taken' = IF \E d \in Clients : Called(d) /\ conn[d] = "closed" THEN taken + 1 ELSE taken
      PROVE  Aged'
  <2>1. taken' = taken + 1
    BY <1>2, <1>6
  <2>2. CASE taken > waiting
    BY <1>4, <2>1, <2>2 DEF Aged
  <2>3. CASE closedSlots[s] >= 2 /\ taken + Cardinality(Older(s)) = waiting
    <3>1. IsFiniteSet(Older(s)) /\ Cardinality(Older(s)) \in Nat
      BY FS_Subset, FS_CardinalityType DEF Older, FreeSlots
    <3>2. CASE t = s
      <4>1. Older(s) = {}
        <5>1. ASSUME NEW u \in Older(s) PROVE FALSE
          BY <1>2, <1>4, <1>6, <3>2, <5>1 DEF Allocate, Older, FreeSlots
        <5> QED  BY <5>1
      <4>2. taken' > waiting'
        BY <1>4, <2>1, <2>3, <4>1, FS_EmptySet
      <4> QED  BY <4>2 DEF Aged
    <3>3. CASE t # s
      <4>1. \A u \in Slots : closedSlots'[u] = IF u = t THEN 0 ELSE closedSlots[u]
        BY <1>6 DEF IInv, TypeOK
      <4>2. t \in Older(s)
        <5>1. t \in FreeSlots /\ s \in FreeSlots
          BY <1>2, <1>6, <2>3 DEF Allocate, FreeSlots
        <5>2. closedSlots[t] < closedSlots[s] \/ closedSlots[t] = closedSlots[s]
          BY <1>6, <5>1 DEF Allocate
        <5>3. closedSlots[t] # closedSlots[s]
          BY <1>2, <2>3, <3>3 DEF Frame, Indices
        <5> QED  BY <5>1, <5>2, <5>3 DEF Older
      <4>3. closedSlots'[s] = closedSlots[s]
        BY <1>2, <3>3, <4>1
      <4>a. /\ Older(s)' = {u \in Slots : closedSlots'[u] # 0 /\ closedSlots'[u] < closedSlots'[s]}
            /\ Older(s) = {u \in Slots : closedSlots[u] # 0 /\ closedSlots[u] < closedSlots[s]}
        BY DEF Older, FreeSlots
      <4>4. ASSUME NEW u \in Slots
            PROVE  (closedSlots'[u] # 0 /\ closedSlots'[u] < closedSlots'[s])
                     <=> (closedSlots[u] # 0 /\ closedSlots[u] < closedSlots[s] /\ u # t)
        BY <4>1, <4>3
      <4>5. Older(s)' = Older(s) \ {t}
        BY <4>a, <4>4
      <4>6. Cardinality(Older(s)') = Cardinality(Older(s)) - 1
        <5>1. Cardinality(Older(s) \ {t}) = Cardinality(Older(s)) - 1
          BY <3>1, <4>2, FS_RemoveElement
        <5> QED  BY <4>5, <5>1
      <4>7. taken' + Cardinality(Older(s)') = waiting'
        <5>1. taken + Cardinality(Older(s)) = waiting /\ taken \in Nat /\ waiting' = waiting
          BY <1>4, <2>3
        <5>2. taken' = taken + 1 /\ Cardinality(Older(s)') = Cardinality(Older(s)) - 1
          BY <2>1, <4>6
        <5> QED  BY <3>1, <5>1, <5>2
      <4> QED  BY <1>2, <2>3, <4>3, <4>7 DEF Aged, Older
    <3> QED  BY <3>2, <3>3
  <2> QED  BY <1>2, <1>3, <2>2, <2>3 DEF Aged
<1> QED  BY <1>5, <1>6 DEF Accept

\* Every step keeps the age of the slot of a call that is under way.
LEMMA AgesStep ==
    ASSUME IInv, Frame, StaleSlotAges, [Next]_vars
    PROVE  StaleSlotAges'
<1> USE CallTyped
<1>1. ASSUME NEW c \in Clients, Fail(c) PROVE StaleSlotAges'
  <2>1. /\ conn' = [conn EXCEPT ![c] = "failed"]
        /\ UNCHANGED <<closedSlots, call, first, waiting, taken>>
    BY <1>1 DEF Fail
  <2>2. \A d \in Clients : conn'[d] = "closed" => conn[d] = "closed"
    BY <2>1 DEF IInv, TypeOK
  <2> QED  BY <2>1, <2>2 DEF StaleSlotAges, Older, FreeSlots
<1>2. ASSUME FinEnd PROVE StaleSlotAges'
  BY <1>2 DEF FinEnd, StaleSlotAges, Older, FreeSlots
<1>3. ASSUME Perform PROVE StaleSlotAges'
  <2>1. call'.pcb = "null"
    BY <1>3 DEF Perform, Calls, IInv, TypeOK
  <2> QED  BY <2>1 DEF StaleSlotAges
<1>4. ASSUME NEW c \in Clients, NEW kind \in {"use", "close"}, Call(c, kind) PROVE StaleSlotAges'
  <2>1. call'.slot = Unread /\ Unread \notin Slots
    BY <1>4, SlotsAssumption DEF Call, Unread
  <2> QED  BY <2>1 DEF StaleSlotAges
<1>5. ASSUME NEW c \in Clients, HandleError(c) PROVE StaleSlotAges'
  BY <1>5 DEF HandleError, StaleSlotAges
<1>6. ASSUME ReadPcb PROVE StaleSlotAges'
  <2>1. /\ call # NoCall /\ call.pcb = "unread"
        /\ call'.client = call.client /\ call'.slot = call.slot
        /\ UNCHANGED <<closedSlots, conn, first, waiting, taken>>
    BY <1>6 DEF ReadPcb, Calls, IInv, TypeOK
  <2> QED  BY <2>1 DEF StaleSlotAges, Older, FreeSlots
<1>7. ASSUME ReadSlot PROVE StaleSlotAges'
  <2>1. /\ call # NoCall /\ call'.pcb = call.pcb
        /\ call'.client = call.client /\ call'.slot = slot[call.client] /\ UNCHANGED conn
    BY <1>7 DEF ReadSlot, Calls, IInv, TypeOK
  <2>2. call'.slot \in Slots => call'.slot # Invalid
    BY SlotsAssumption DEF Invalid
  <2> QED  BY <2>1, <2>2 DEF StaleSlotAges, Frame, ClosedHasNoSlot
<1>8. ASSUME Return PROVE StaleSlotAges'
  BY <1>8 DEF Return, StaleSlotAges
<1>9. ASSUME UNCHANGED vars PROVE StaleSlotAges'
  BY <1>9 DEF vars, StaleSlotAges, Older, FreeSlots
<1> QED
  BY <1>1, <1>2, <1>3, <1>4, <1>5, <1>6, <1>7, <1>8, <1>9, FinAges, AcceptAges
     DEF Next, Lwip, ServiceTask

\* The ages hold at first: there is neither a connection nor a call.
LEMMA InitAges == Init => AgeInv
<1> SUFFICES ASSUME Init PROVE AgeInv
  OBVIOUS
<1>1. Live = {}
  BY DEF Init, Live
<1>2. Indices
  BY DEF Init, Indices
<1>3. ClosedHasNoSlot /\ CalledIsKnown /\ ReadSlotIsCurrent /\ StaleSlotAges
  BY DEF Init, ClosedHasNoSlot, CalledIsKnown, Called, ReadSlotIsCurrent, StaleSlotAges
<1> QED  BY <1>1, <1>2, <1>3, FS_EmptySet DEF AgeInv

\* The ages are kept.
LEMMA AgeStep ==
    ASSUME IInv, AgeInv, [Next]_vars
    PROVE  AgeInv'
<1>1. IsFiniteSet(Live)' /\ StaleSlotAges'
  BY LiveStep, AgesStep DEF AgeInv, Frame
<1>2. ASSUME UNCHANGED vars PROVE Frame'
  BY <1>2 DEF vars, AgeInv, Frame, Indices, ClosedHasNoSlot, CalledIsKnown, Called, ReadSlotIsCurrent
<1>3. Frame'
  BY <1>2, LwipFrame, ServiceFrame DEF Next, AgeInv, Frame
<1> QED  BY <1>1, <1>3 DEF AgeInv, Frame

\* The invariant about the age of a freed slot holds.
THEOREM AgesInvariance == Spec => [](IInv /\ AgeInv)
BY InitStep, NextStep, InitAges, AgeStep, PTL DEF Spec

\* A call of the service task with the members of a client that lwIP has ended
\* is refused, but for the four kinds that StaleCallsAreRefused names: the slot
\* the call was made with goes to a new connection only after all that were free
\* before it.
THEOREM StaleCallsStayRefused == Spec => []StaleCallsAreRefused
<1>1. ASSUME IInv, AgeInv PROVE StaleCallsAreRefused
  <2> SUFFICES ASSUME call # NoCall, call.pcb = "set", call.slot # Unread,
                      conn[call.client] \in Gone, Passes
               PROVE  \/ call.slot = Invalid \/ conn[call.client] = "failed"
                      \/ first = call.client \/ taken > waiting
    BY DEF StaleCallsAreRefused
  <2>1. call.slot \in Slots \/ call.slot = Invalid
    BY <1>1, CallTyped
  <2>2. call.slot # Invalid => closedSlots[call.slot] = 0
    BY DEF Passes
  <2>3. StaleSlotAges
    BY <1>1 DEF AgeInv
  <2> QED  BY <2>1, <2>2, <2>3 DEF StaleSlotAges, Gone
<1> QED  BY <1>1, AgesInvariance, PTL

\* When every slot is in use and no client of a pcb that is gone keeps one, there
\* are as many live connections as slots: lwIP has no pcb for another.
THEOREM SlotsAreEnough == Spec => []SlotsSuffice
<1>1. ASSUME IInv, AgeInv PROVE SlotsSuffice
  <2> SUFFICES ASSUME PcbFree, FreeSlots = {}, \A c \in Clients : conn[c] \in Gone => slot[c] = Invalid
               PROVE  FALSE
    BY DEF SlotsSuffice
  <2> DEFINE f == [s \in Slots |-> CHOOSE c \in Clients : slot[c] = s]
  <2>1. ASSUME NEW s \in Slots PROVE f[s] \in Live /\ slot[f[s]] = s
    <3>1. \E c \in Clients : slot[c] = s
      BY <1>1 DEF FreeSlots, IInv, SlotsAgree
    <3>2. f[s] \in Clients /\ slot[f[s]] = s
      BY <3>1
    <3>3. s # Invalid
      BY SlotsAssumption DEF Invalid
    <3>4. conn[f[s]] \in {"up", "shut"}
      BY <1>1, <3>2, <3>3 DEF IInv, TypeOK, NoneHasNoSlot
    <3> QED  BY <3>2, <3>4 DEF Live
  <2> HIDE DEF f
  <2>2. f \in [Slots -> Live]
    BY <2>1 DEF f
  <2>3. f \in Injection(Slots, Live)
    BY <2>1, <2>2 DEF Injection, IsInjective
  <2>4. IsFiniteSet(Live)
    BY <1>1 DEF AgeInv
  <2>5. Cardinality(Slots) <= Cardinality(Live)
    BY <2>3, <2>4, FS_Injection
  <2>6. Cardinality(Live) < Cardinality(Slots)
    BY DEF PcbFree, Live
  <2>7. Cardinality(Live) \in Nat /\ Cardinality(Slots) \in Nat
    BY <2>4, SlotsAssumption, FS_CardinalityType
  <2> QED  BY <2>5, <2>6, <2>7
<1> QED  BY <1>1, AgesInvariance, PTL
=============================================================================
