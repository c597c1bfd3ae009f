---------------------------- MODULE BoundedFifo ----------------------------
(***************************************************************************)
(* What circular_queue.h promises one producer and one consumer: "lock-    *)
(* free circular queue / ring buffer (FIFO)" of a fixed capacity.  Items   *)
(* are numbered in the order they are offered.                             *)
(***************************************************************************)
EXTENDS Naturals, Sequences, SequencesExt

CONSTANT Capacity

VARIABLES
    items,     \* what the queue holds, oldest first
    accepted,  \* how many items the push under way will add (0: no push is under way)
    next,      \* the number of the next item
    given      \* what the consumer's last call was handed

vars == <<items, accepted, next, given>>

Init == items = <<>> /\ accepted = 0 /\ next = 1 /\ given = <<>>

\* A push of some items is accepted up to the room there is, and not more.
Offer(size) ==
    /\ accepted = 0 /\ size > 0
    /\ accepted' = (IF size <= Capacity - Len(items) THEN size ELSE Capacity - Len(items))
    /\ UNCHANGED <<items, next, given>>

Add ==
    /\ accepted > 0
    /\ items' = items \o [i \in 1..accepted |-> next + i - 1]
    /\ next' = next + accepted /\ accepted' = 0
    /\ UNCHANGED given

\* The oldest n go to the consumer, or are dropped unseen.
Take(n) ==
    /\ items' = SubSeq(items, n + 1, Len(items))
    /\ given' \in {SubSeq(items, 1, n), <<>>}
    /\ UNCHANGED <<accepted, next>>

\* The consumer looks at the oldest n from the newest of them on, and those it
\* picks stay, in their order.
Sift(n, pick) ==
    /\ \A i, j \in DOMAIN pick : i < j => pick[i] < pick[j]
    /\ items' = [i \in DOMAIN pick |-> items[pick[i]]] \o SubSeq(items, n + 1, Len(items))
    /\ given' = Reverse(SubSeq(items, 1, n))
    /\ UNCHANGED <<accepted, next>>

Next ==
    \/ \E size \in 1..Capacity : Offer(size)
    \/ Add
    \/ \E n \in 0..Len(items) :
         Take(n) \/ \E m \in 0..n : \E pick \in [1..m -> 1..n] : Sift(n, pick)

Spec == Init /\ [][Next]_vars
=============================================================================
