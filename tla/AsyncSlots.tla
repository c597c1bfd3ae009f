----------------------------- MODULE AsyncSlots -----------------------------
(***************************************************************************)
(* The closed slots of AsyncTCP.cpp.  A call into lwIP carries the pcb and *)
(* the slot of its client; the lwIP thread performs it only if the slot is *)
(* still in use, because it may have closed the pcb while the call was on  *)
(* its way.  The service task reads the two members without a lock.        *)
(***************************************************************************)
EXTENDS Integers, FiniteSets

CONSTANTS
    Clients,    \* connections; each gets a client of its own
    Slots,      \* CONFIG_LWIP_MAX_ACTIVE_TCP slots, and as many active pcbs
    MaxIndex    \* closings before _closed_index would wrap (2^32 - 1 in the code)

Nobody == "nobody"

ASSUME SlotsAssumption ==
    /\ Slots \in SUBSET Nat /\ IsFiniteSet(Slots) /\ MaxIndex \in Nat \ {0}
    /\ Nobody \notin Clients

VARIABLES
    closedSlots,  \* _closed_slots[]: 0 in use, else the index it was freed at
    closedIndex,  \* _closed_index
    slot,         \* per client: _closed_slot
    pcb,          \* per client: whether _pcb is set
    conn,         \* per client: "none", "up", "shut" (callbacks taken off), "failed"
                  \* (freed by lwIP, the ERROR not handled) or "closed"
    fin,          \* the client lwIP is in _lwip_fin() of, or Nobody
    call,         \* the service task's call into lwIP, or NoCall
    stuck,        \* lwIP waits for itself, in _close() of a client without a slot
    first,        \* history: whose slot was freed first
    waiting,      \* history: how many slots were free when that of the call's client was
    taken         \* history: how many slots were allocated since

vars == <<closedSlots, closedIndex, slot, pcb, conn, fin, call, stuck, first, waiting, taken>>

Invalid == -1     \* INVALID_CLOSED_SLOT
Unread == -2
NoCall == [kind |-> "none"]
Gone == {"failed", "closed"}

\* Mutant of Init: the index starts at the value that marks a slot in use.
InitMutant ==
    /\ closedSlots = [s \in Slots |-> 1] /\ closedIndex = 0
    /\ slot = [c \in Clients |-> Invalid] /\ pcb = [c \in Clients |-> FALSE]
    /\ conn = [c \in Clients |-> "none"]
    /\ fin = Nobody /\ call = NoCall /\ stuck = FALSE /\ first = Nobody
    /\ waiting = 0 /\ taken = 0

Init ==
    /\ closedSlots = [s \in Slots |-> 1] /\ closedIndex = 1
    /\ slot = [c \in Clients |-> Invalid] /\ pcb = [c \in Clients |-> FALSE]
    /\ conn = [c \in Clients |-> "none"]
    /\ fin = Nobody /\ call = NoCall /\ stuck = FALSE /\ first = Nobody
    /\ waiting = 0 /\ taken = 0

FreeSlots == {s \in Slots : closedSlots[s] # 0}

\* Mutant of Allocate: the slot freed last is taken first.
AllocateMutant(s) ==
    /\ s \in FreeSlots
    /\ \A t \in FreeSlots : closedSlots[t] < closedSlots[s] \/ (closedSlots[t] = closedSlots[s] /\ t <= s)

\* _allocate_closed_slot(): the least index, and of equal ones the last slot.
Allocate(s) ==
    /\ s \in FreeSlots
    /\ \A t \in FreeSlots : closedSlots[s] < closedSlots[t] \/ (closedSlots[s] = closedSlots[t] /\ t <= s)

\* A call of the service task is under way with this client's members.
Called(c) == call # NoCall /\ call.client = c

\* Mutant of FreeSlot: the client forgets the slot, which is not marked free.
FreeSlotMutant(c) ==
    /\ closedIndex <= MaxIndex
    /\ slot' = [slot EXCEPT ![c] = Invalid]
    /\ closedIndex' = closedIndex + 1
    /\ first' = IF first = Nobody THEN c ELSE first
    /\ IF Called(c) THEN waiting' = Cardinality(FreeSlots) /\ taken' = 0 ELSE UNCHANGED <<waiting, taken>>
    /\ UNCHANGED closedSlots

\* _free_closed_slot()
FreeSlot(c) ==
    /\ closedIndex <= MaxIndex
    /\ closedSlots' = [closedSlots EXCEPT ![slot[c]] = closedIndex]
    /\ slot' = [slot EXCEPT ![c] = Invalid]
    /\ closedIndex' = closedIndex + 1
    /\ first' = IF first = Nobody THEN c ELSE first
    /\ IF Called(c) THEN waiting' = Cardinality(FreeSlots) /\ taken' = 0 ELSE UNCHANGED <<waiting, taken>>

Free(c) == IF slot[c] = Invalid THEN UNCHANGED <<slot, closedSlots, closedIndex, first, waiting, taken>>
           ELSE FreeSlot(c)

(***************************************************************************)
(* The lwIP thread.                                                        *)
(***************************************************************************)
LwipFree == fin = Nobody /\ ~stuck

\* lwIP has a pcb for another connection.
PcbFree == Cardinality({d \in Clients : conn[d] \in {"up", "shut"}}) < Cardinality(Slots)

\* AsyncServer::_accept(): there is a pcb, but there may be no slot.
Accept(c) ==
    /\ LwipFree /\ conn[c] = "none"
    /\ PcbFree
    /\ conn' = [conn EXCEPT ![c] = "up"] /\ pcb' = [pcb EXCEPT ![c] = TRUE]
    /\ \/ FreeSlots = {} /\ stuck' = TRUE /\ UNCHANGED <<slot, closedSlots, taken>>
       \/ \E s \in Slots :
            /\ Allocate(s)
            /\ slot' = [slot EXCEPT ![c] = s] /\ closedSlots' = [closedSlots EXCEPT ![s] = 0]
            /\ taken' = IF \E d \in Clients : Called(d) /\ conn[d] = "closed" THEN taken + 1 ELSE taken
            /\ UNCHANGED stuck
    /\ UNCHANGED <<closedIndex, fin, call, first, waiting>>

\* _lwip_fin() closes the pcb and frees the slot, and then clears _pcb.
Fin(c) ==
    /\ LwipFree /\ conn[c] = "up"
    /\ conn' = [conn EXCEPT ![c] = "closed"] /\ fin' = c
    /\ Free(c)
    /\ UNCHANGED <<pcb, call, stuck>>

FinEnd ==
    /\ fin # Nobody
    /\ pcb' = [pcb EXCEPT ![fin] = FALSE] /\ fin' = Nobody
    /\ UNCHANGED <<closedSlots, closedIndex, slot, conn, call, stuck, first, waiting, taken>>

\* lwIP frees the pcb and then calls _tcp_error(), which only posts an event.
Fail(c) ==
    /\ LwipFree /\ conn[c] = "up"
    /\ conn' = [conn EXCEPT ![c] = "failed"]
    /\ UNCHANGED <<closedSlots, closedIndex, slot, pcb, fin, call, stuck, first, waiting, taken>>

\* What lwIP asks of a call: the slot is in use, or there is none.
Passes == call.slot = Invalid \/ closedSlots[call.slot] = 0

\* _tcp_recved_api() and the like; close() has lwIP close the pcb.
Perform ==
    /\ LwipFree /\ call # NoCall /\ call.pcb = "set" /\ call.slot # Unread
    /\ conn' = IF call.kind = "close" /\ Passes /\ conn[call.client] = "shut"
               THEN [conn EXCEPT ![call.client] = "closed"] ELSE conn
    /\ call' = [call EXCEPT !.pcb = "null"]
    /\ UNCHANGED <<closedSlots, closedIndex, slot, pcb, fin, stuck, first, waiting, taken>>

(***************************************************************************)
(* The service task.                                                       *)
(***************************************************************************)
\* if (_pcb) _tcp_recved(_pcb, _closed_slot, ...), or _close(), which first takes
\* the callbacks off the pcb.
Call(c, kind) ==
    /\ call = NoCall /\ pcb[c]
    /\ conn' = IF kind = "close" /\ conn[c] = "up" THEN [conn EXCEPT ![c] = "shut"] ELSE conn
    /\ call' = [kind |-> kind, client |-> c, pcb |-> "unread", slot |-> Unread]
    /\ waiting' = 0 /\ taken' = 0
    /\ UNCHANGED <<closedSlots, closedIndex, slot, pcb, fin, stuck, first>>

\* The arguments are evaluated in either order, and lwIP may change them between.
ReadPcb ==
    /\ call # NoCall /\ call.pcb = "unread"
    /\ call' = [call EXCEPT !.pcb = IF pcb[call.client] THEN "set" ELSE "null"]
    /\ UNCHANGED <<closedSlots, closedIndex, slot, pcb, conn, fin, stuck, first, waiting, taken>>

ReadSlot ==
    /\ call # NoCall /\ call.slot = Unread
    /\ call' = [call EXCEPT !.slot = slot[call.client]]
    /\ UNCHANGED <<closedSlots, closedIndex, slot, pcb, conn, fin, stuck, first, waiting, taken>>

\* The call is over, or was not made for a pcb of NULL.  _close() goes on to free
\* the slot and clear _pcb.
Return ==
    /\ call # NoCall /\ call.pcb = "null" /\ call.slot # Unread
    /\ call' = NoCall
    /\ IF call.kind = "close"
       THEN Free(call.client) /\ pcb' = [pcb EXCEPT ![call.client] = FALSE]
       ELSE UNCHANGED <<closedSlots, closedIndex, slot, pcb, first, waiting, taken>>
    /\ UNCHANGED <<conn, fin, stuck>>

\* AsyncClient::_error()
HandleError(c) ==
    /\ call = NoCall /\ conn[c] = "failed" /\ pcb[c]
    /\ Free(c) /\ pcb' = [pcb EXCEPT ![c] = FALSE]
    /\ UNCHANGED <<conn, fin, call, stuck>>

Lwip == \/ \E c \in Clients : Accept(c) \/ Fin(c) \/ Fail(c)
        \/ FinEnd \/ Perform
ServiceTask == \/ \E c \in Clients : \/ \E kind \in {"use", "close"} : Call(c, kind)
                                     \/ HandleError(c)
               \/ ReadPcb \/ ReadSlot \/ Return
Next == Lwip \/ ServiceTask
Spec == Init /\ [][Next]_vars
-----------------------------------------------------------------------------
Calls == [kind : {"use", "close"}, client : Clients, pcb : {"set", "null", "unread"},
          slot : Slots \cup {Invalid, Unread}]

TypeOK ==
    /\ closedSlots \in [Slots -> 0..MaxIndex] /\ closedIndex \in 1..MaxIndex + 1
    /\ slot \in [Clients -> Slots \cup {Invalid}] /\ pcb \in [Clients -> BOOLEAN]
    /\ conn \in [Clients -> {"none", "up", "shut"} \cup Gone]
    /\ fin \in Clients \cup {Nobody} /\ first \in Clients \cup {Nobody}
    /\ call \in Calls \cup {NoCall} /\ stuck \in BOOLEAN
    /\ waiting \in Nat /\ taken \in Nat

\* _closed_slots[] and the clients agree: a slot is in use exactly when a client
\* has it, and no two clients have the same, whichever thread freed it.
SlotsAgree ==
    \A s \in Slots :
        /\ closedSlots[s] = 0 <=> \E c \in Clients : slot[c] = s
        /\ \A c, d \in Clients : slot[c] = s /\ slot[d] = s => c = d

\* A call that lwIP would perform on a pcb it has freed is one of four kinds:
\* the pair was torn, so that it has no slot; the failure of the connection is
\* still to be handled; the slot was the first ever freed, whose index equals
\* that of the slots never used; or since it was freed every slot free then has
\* been allocated before it, the longest free first.
StaleCallsAreRefused ==
    call # NoCall /\ call.pcb = "set" /\ call.slot # Unread /\ conn[call.client] \in Gone /\ Passes =>
        \/ call.slot = Invalid
        \/ conn[call.client] = "failed"
        \/ first = call.client
        \/ taken > waiting

\* There are as many slots as active pcbs, but a new connection finds none, and
\* lwIP waits for itself, while a client still has the slot of a pcb that is gone.
SlotsSuffice ==
    PcbFree /\ FreeSlots = {} => \E c \in Clients : conn[c] \in Gone /\ slot[c] # Invalid
=============================================================================
