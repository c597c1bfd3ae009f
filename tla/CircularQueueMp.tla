-------------------------- MODULE CircularQueueMp --------------------------
(***************************************************************************)
(* circular_queue_mp.h of EspSoftwareSerial: a ring with several producers *)
(* and one consumer, as built for the ESP32 (LockFree: every access to an  *)
(* atomic is a step) and for other boards (interrupts are off around the   *)
(* claim of a slot and around the end of a push).                          *)
(*                                                                         *)
(* Each producer pushes its Messages one after the other, and tries again  *)
(* when the queue is full, as mp_queue_test.cpp does.  push_n() is not     *)
(* modelled: no program calls it, and its ESP32 build claims up to a       *)
(* position that it has not set.                                           *)
(***************************************************************************)
EXTENDS Integers, Sequences, FiniteSets

CONSTANTS BufSize, Producers, Messages, LockFree

\* What the constants must be.
QueueConstants ==
    BufSize \in Nat \ {0, 1} /\ Messages \in Nat /\ LockFree \in BOOLEAN

VARIABLES
    buffer,      \* m_buffer
    inPos,       \* m_inPos: what the consumer may read up to
    inPosMp,     \* m_inPos_mp: what producers have claimed up to
    outPos,      \* m_outPos
    concurrent,  \* m_concurrent_mp: the pushes under way
    at,          \* per producer: where its push is
    seen,        \* per producer: its inPos_mp
    count,       \* per producer: its concurrent_mp
    sent,        \* per producer: how many of its messages it has claimed slots for
    claims,      \* the messages in the order their slots were claimed
    popped,      \* the messages the consumer got
    holding      \* it has yet to store m_outPos for the last of them

vars == <<buffer, inPos, inPosMp, outPos, concurrent, at, seen, count, sent, claims, popped, holding>>

Positions == 0..(BufSize - 1)

Init ==
    /\ buffer = [p \in Positions |-> <<>>]
    /\ inPos = 0 /\ inPosMp = 0 /\ outPos = 0 /\ concurrent = 0
    /\ at = [p \in Producers |-> "idle"]
    /\ seen = [p \in Producers |-> 0] /\ count = [p \in Producers |-> 0]
    /\ sent = [p \in Producers |-> 0]
    /\ claims = <<>> /\ popped = <<>> /\ holding = FALSE

After(pos) == (pos + 1) % BufSize

Goto(p, here, there) == at[p] = here /\ at' = [at EXCEPT ![p] = there]

(***************************************************************************)
(* push() on the ESP32                                                     *)
(***************************************************************************)

Enter(p) ==
    /\ LockFree /\ sent[p] < Messages
    /\ Goto(p, "idle", "load")
    /\ concurrent' = concurrent + 1
    /\ UNCHANGED <<buffer, inPos, inPosMp, outPos, seen, count, sent, claims, popped, holding>>

LoadClaimed(p) ==
    /\ Goto(p, "load", "look")
    /\ seen' = [seen EXCEPT ![p] = inPosMp]
    /\ UNCHANGED <<buffer, inPos, inPosMp, outPos, concurrent, count, sent, claims, popped, holding>>

\* Is the queue full?
Look(p) ==
    /\ \/ After(seen[p]) = outPos /\ Goto(p, "look", "end")
       \/ After(seen[p]) # outPos /\ Goto(p, "look", "claim")
    /\ UNCHANGED <<buffer, inPos, inPosMp, outPos, concurrent, seen, count, sent, claims, popped, holding>>

\* Mutant of Claim: the position is stored without a comparison.
ClaimMutant(p) ==
    /\ Goto(p, "claim", "write")
    /\ inPosMp' = After(seen[p])
    /\ claims' = Append(claims, <<p, sent[p]>>)
    /\ sent' = [sent EXCEPT ![p] = @ + 1]
    /\ UNCHANGED <<buffer, inPos, outPos, concurrent, seen, count, popped, holding>>

\* The compare_exchange_weak() of m_inPos_mp, which may fail for no reason.
Claim(p) ==
    /\ \/ /\ inPosMp = seen[p] /\ Goto(p, "claim", "write")
          /\ inPosMp' = After(seen[p])
          /\ claims' = Append(claims, <<p, sent[p]>>)
          /\ sent' = [sent EXCEPT ![p] = @ + 1]
       \/ Goto(p, "claim", "load") /\ UNCHANGED <<inPosMp, claims, sent>>
    /\ UNCHANGED <<buffer, inPos, outPos, concurrent, seen, count, popped, holding>>

Write(p) ==
    /\ Goto(p, "write", "end")
    /\ buffer' = [buffer EXCEPT ![seen[p]] = <<p, sent[p] - 1>>]
    /\ UNCHANGED <<inPos, inPosMp, outPos, concurrent, seen, count, sent, claims, popped, holding>>

\* The end of a push: what is claimed is made readable by the last one to leave.
LoadEnd(p) ==
    /\ LockFree /\ Goto(p, "end", "count")
    /\ seen' = [seen EXCEPT ![p] = inPosMp]
    /\ UNCHANGED <<buffer, inPos, inPosMp, outPos, concurrent, count, sent, claims, popped, holding>>

LoadCount(p) ==
    /\ Goto(p, "count", IF concurrent = 1 THEN "publish" ELSE "leave")
    /\ count' = [count EXCEPT ![p] = concurrent]
    /\ UNCHANGED <<buffer, inPos, inPosMp, outPos, concurrent, seen, sent, claims, popped, holding>>

Publish(p) ==
    /\ Goto(p, "publish", "leave")
    /\ inPos' = seen[p]
    /\ UNCHANGED <<buffer, inPosMp, outPos, concurrent, seen, count, sent, claims, popped, holding>>

\* The compare_exchange_weak() of m_concurrent_mp.
Leave(p) ==
    /\ \/ /\ concurrent = count[p] /\ Goto(p, "leave", "idle")
          /\ concurrent' = concurrent - 1
       \/ Goto(p, "leave", "end") /\ UNCHANGED concurrent
    /\ UNCHANGED <<buffer, inPos, inPosMp, outPos, seen, count, sent, claims, popped, holding>>

(***************************************************************************)
(* push() on other boards                                                  *)
(***************************************************************************)
\* With interrupts off.  A full queue refuses, and nothing changes.
ClaimLocked(p) ==
    /\ ~LockFree /\ sent[p] < Messages
    /\ After(inPosMp) # outPos
    /\ Goto(p, "idle", "write")
    /\ seen' = [seen EXCEPT ![p] = inPosMp]
    /\ inPosMp' = After(inPosMp)
    /\ claims' = Append(claims, <<p, sent[p]>>)
    /\ sent' = [sent EXCEPT ![p] = @ + 1]
    /\ concurrent' = concurrent + 1
    /\ UNCHANGED <<buffer, inPos, outPos, count, popped, holding>>

\* Another mutant of EndLocked: the push is uncounted first.
EndUncountedMutant(p) ==
    /\ ~LockFree /\ Goto(p, "end", "idle")
    /\ concurrent' = concurrent - 1
    /\ inPos' = (IF concurrent' = 1 THEN inPosMp ELSE inPos)
    /\ UNCHANGED <<buffer, inPosMp, outPos, seen, count, sent, claims, popped, holding>>

EndLocked(p) ==
    /\ ~LockFree /\ Goto(p, "end", "idle")
    /\ inPos' = (IF concurrent = 1 THEN inPosMp ELSE inPos)
    /\ concurrent' = concurrent - 1
    /\ UNCHANGED <<buffer, inPosMp, outPos, seen, count, sent, claims, popped, holding>>

(***************************************************************************)
(* pop()                                                                   *)
(***************************************************************************)
PopRead ==
    /\ ~holding /\ inPos # outPos
    /\ popped' = Append(popped, buffer[outPos])
    /\ holding' = TRUE
    /\ UNCHANGED <<buffer, inPos, inPosMp, outPos, concurrent, at, seen, count, sent, claims>>

PopStore ==
    /\ holding /\ holding' = FALSE
    /\ outPos' = After(outPos)
    /\ UNCHANGED <<buffer, inPos, inPosMp, concurrent, at, seen, count, sent, claims, popped>>

Push(p) ==
    \/ Enter(p) \/ LoadClaimed(p) \/ Look(p) \/ Claim(p) \/ LoadEnd(p)
    \/ LoadCount(p) \/ Publish(p) \/ Leave(p)
    \/ ClaimLocked(p) \/ EndLocked(p)
    \/ Write(p)
Pop == PopRead \/ PopStore

Next == (\E p \in Producers : Push(p)) \/ Pop

Spec == Init /\ [][Next]_vars

(***************************************************************************)
(* Properties                                                              *)
(***************************************************************************)
Inside == {p \in Producers : at[p] # "idle"}

\* Every message claimed a slot of its own, and the consumer gets the messages
\* in the order of the claims: none is lost, doubled or read before it is written.
PoppedAsClaimed == popped = SubSeq(claims, 1, Len(popped))

\* push() returns true when "the queue accepted the value": with no push under
\* way, everything accepted can be popped.
AcceptedIsReadable == Inside = {} => inPos = inPosMp
=============================================================================
