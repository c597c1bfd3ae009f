------------------------ MODULE AsyncTcpQueueProofs ------------------------
(***************************************************************************)
(* Theorems about AsyncTcpQueue, for any number of connections and any     *)
(* size of the queue: that its types and the bound on what a coalescing    *)
(* costs always hold, and that, until lwIP posts inside a removal or a     *)
(* coalescing, the events of every connection are handled in order.        *)
(***************************************************************************)
EXTENDS AsyncTcpQueue, SequenceTheorems, TLAPS

\* While it deals with an event the service task has one.
HasEvent ==
    /\ pc # "get" => cur \in Events
    /\ pc \in {"keep", "requeue"} => hand \in Events

\* Only the service task takes events off, so what it has seen at the front can
\* only be displaced by what lwIP prepends.
FrontSeen ==
    /\ pc = "scanTake" => queue # <<>>
    /\ pc = "take" => queue # <<>> /\ Head(queue).type \in {"POLL", "ACCEPT"}

\* lwIP prepends nothing but ACCEPT.
FrontPosts == lwip # Idle /\ lwip.at = "front" => lwip.event.type = "ACCEPT"

IInv == TypeOK /\ HasEvent /\ FrontSeen /\ FrontPosts /\ CoalescingSparesData

\* An event of the model is a member of its type.
LEMMA EventTyped ==
    ASSUME NEW type \in Types, NEW c \in Clients, NEW n \in 0..MaxData
    PROVE  Event(type, c, n) \in Events
    BY DEF Event, Events

\* What a queue holds after an event is put at either end, or the first taken.
LEMMA QueueAppend ==
    ASSUME NEW q \in Seq(Events), NEW e \in Events
    PROVE  /\ Append(q, e) \in Seq(Events) /\ Len(Append(q, e)) = Len(q) + 1
           /\ Append(q, e) # <<>>
           /\ q # <<>> => Head(Append(q, e)) = Head(q)
<1>1. Append(q, e) \in Seq(Events) /\ Len(Append(q, e)) = Len(q) + 1
  BY AppendProperties
<1>2. Append(q, e) # <<>>
  BY <1>1, EmptySeq
<1>3. ASSUME q # <<>> PROVE Head(Append(q, e)) = Head(q)
  <2>1. Len(q) \in Nat /\ Len(q) # 0
    BY <1>3, EmptySeq
  <2>2. Append(q, e)[1] = q[1]
    BY <2>1, AppendProperties
  <2> QED  BY <2>2, <1>1, <1>2, <1>3, HeadTailProperties
<1> QED  BY <1>1, <1>2, <1>3

\* The same at the front.
LEMMA QueuePrepend ==
    ASSUME NEW q \in Seq(Events), NEW e \in Events
    PROVE  /\ <<e>> \o q \in Seq(Events) /\ Len(<<e>> \o q) = Len(q) + 1
           /\ <<e>> \o q # <<>> /\ Head(<<e>> \o q) = e
<1>1. <<e>> \in Seq(Events) /\ Len(<<e>>) = 1 /\ <<e>>[1] = e
  OBVIOUS
<1>2. /\ <<e>> \o q \in Seq(Events) /\ Len(<<e>> \o q) = Len(q) + 1
      /\ (<<e>> \o q)[1] = e
  BY <1>1, ConcatProperties, LenProperties
<1>3. <<e>> \o q # <<>>
  BY <1>2, EmptySeq, LenProperties
<1> QED  BY <1>2, <1>3, HeadTailProperties

\* What is left after the first is taken.
LEMMA QueueTake ==
    ASSUME NEW q \in Seq(Events), q # <<>>
    PROVE  Head(q) \in Events /\ Tail(q) \in Seq(Events) /\ Len(Tail(q)) = Len(q) - 1
    BY HeadTailProperties

\* The invariant holds of an empty queue.
LEMMA InitInv == Init => IInv
<1> SUFFICES ASSUME Init PROVE IInv
  OBVIOUS
<1>1. queue \in Seq(Events) /\ Len(queue) <= QueueSize
  BY QueueAssumption, EmptySeq DEF Init
<1>2. /\ conn \in [Clients -> {"none", "open", "failed", "ended", "closed", "gone"}]
      /\ posted \in [Clients -> 0..MaxData] /\ handled \in [Clients -> 0..MaxData]
  BY QueueAssumption DEF Init
<1> QED  BY <1>1, <1>2
       DEF Init, Places, IInv, TypeOK, HasEvent, FrontSeen, FrontPosts, CoalescingSparesData

\* lwIP's callbacks post events of connections that stand, and keep the invariant.
LEMMA LwipKeepsInv ==
    ASSUME IInv, LwipThread
    PROVE  IInv'
<1> USE QueueAssumption
<1>1. ASSUME NEW c \in Clients, Accept(c) PROVE IInv'
  <2>1. Event("ACCEPT", c, 0) \in Events /\ Event("ACCEPT", c, 0).type = "ACCEPT"
    BY DEF Event, Events, Types
  <2> QED  BY <1>1, <2>1
         DEF Accept, Post, Idle, IInv, TypeOK, HasEvent, FrontSeen, FrontPosts,
             CoalescingSparesData
<1>2. ASSUME NEW c \in Clients, Receive(c) PROVE IInv'
  <2>1. posted[c] + 1 \in 0..MaxData
    BY <1>2 DEF Receive, IInv, TypeOK
  <2>2. Event("RECV", c, posted[c] + 1) \in Events
    BY <2>1 DEF Event, Events, Types
  <2> QED  BY <1>2, <2>1, <2>2
         DEF Receive, Post, Idle, IInv, TypeOK, HasEvent, FrontSeen, FrontPosts,
             CoalescingSparesData
<1>3. ASSUME NEW c \in Clients, End(c) PROVE IInv'
  <2>1. PICK e \in Events : lwip' = Post("back", e)
    <3>1. Event("FIN", c, 0) \in Events /\ Event("ERROR", c, 0) \in Events
      BY DEF Event, Events, Types
    <3> QED  BY <1>3, <3>1 DEF End
  <2>2. lwip' \in [at : {"front", "back"}, event : Events] /\ lwip'.at = "back"
    BY <2>1 DEF Post
  <2>3. conn' \in [Clients -> {"none", "open", "failed", "ended", "closed", "gone"}]
    BY <1>3 DEF End, IInv, TypeOK
  <2> QED  BY <1>3, <2>2, <2>3
         DEF End, IInv, TypeOK, HasEvent, FrontSeen, FrontPosts, CoalescingSparesData
<1>4. ASSUME NEW c \in Clients, Poll(c) PROVE IInv'
  <2>1. Event("POLL", c, 0) \in Events
    BY DEF Event, Events, Types
  <2>2. queue \in Seq(Events) /\ Len(queue) \in Nat
    BY DEF IInv, TypeOK
  <2>3. Len(queue) < QueueSize /\ queue' = Append(queue, Event("POLL", c, 0))
    BY <1>4 DEF Poll
  <2>4. /\ queue' \in Seq(Events) /\ Len(queue') <= QueueSize
        /\ queue' # <<>> /\ (queue # <<>> => Head(queue') = Head(queue))
    BY <2>1, <2>2, <2>3, QueueAppend
  <2>5. raced' \in BOOLEAN
    BY <1>4 DEF Poll
  <2> QED  BY <1>4, <2>4, <2>5
         DEF Poll, IInv, TypeOK, HasEvent, FrontSeen, FrontPosts, CoalescingSparesData
<1>5. ASSUME Enqueue PROVE IInv'
  <2>1. lwip.event \in Events /\ (lwip.at = "front" => lwip.event.type = "ACCEPT")
    BY <1>5 DEF Enqueue, Idle, IInv, TypeOK, FrontPosts
  <2>2. queue \in Seq(Events) /\ Len(queue) \in Nat /\ Len(queue) < QueueSize
    BY <1>5 DEF Enqueue, IInv, TypeOK
  <2>3. CASE lwip.at = "front"
    <3>1. /\ queue' \in Seq(Events) /\ Len(queue') <= QueueSize
          /\ queue' # <<>> /\ Head(queue').type = "ACCEPT"
      BY <1>5, <2>1, <2>2, <2>3, QueuePrepend DEF Enqueue
    <3> QED  BY <1>5, <3>1
           DEF Enqueue, IInv, TypeOK, HasEvent, FrontSeen, FrontPosts, CoalescingSparesData
  <2>4. CASE lwip.at # "front"
    <3>1. /\ queue' \in Seq(Events) /\ Len(queue') <= QueueSize
          /\ queue' # <<>> /\ (queue # <<>> => Head(queue') = Head(queue))
      BY <1>5, <2>1, <2>2, <2>4, QueueAppend DEF Enqueue
    <3> QED  BY <1>5, <3>1
           DEF Enqueue, IInv, TypeOK, HasEvent, FrontSeen, FrontPosts, CoalescingSparesData
  <2> QED  BY <2>3, <2>4
<1> QED  BY <1>1, <1>2, <1>3, <1>4, <1>5 DEF LwipThread

\* The service task: deleting a client keeps what is said of the clients.
DeletedTyped ==
    /\ conn' \in [Clients -> {"none", "open", "failed", "ended", "closed", "gone"}]
    /\ posted' \in [Clients -> 0..MaxData] /\ handled' \in [Clients -> 0..MaxData]
    /\ accepted' \subseteq Clients

\* Events taken off and put back are events.
LEMMA DeleteKeepsTypes ==
    ASSUME TypeOK, NEW c \in Clients, Delete(c)
    PROVE  DeletedTyped
<1>1. /\ conn' = [conn EXCEPT ![c] = IF c \in accepted THEN "gone" ELSE "ended"]
      /\ conn \in [Clients -> {"none", "open", "failed", "ended", "closed", "gone"}]
  BY DEF Delete, TypeOK
<1>2. conn' \in [Clients -> {"none", "open", "failed", "ended", "closed", "gone"}]
  BY <1>1
<1>3. 0 \in 0..MaxData
  BY QueueAssumption
<1> QED  BY <1>2, <1>3 DEF Delete, DeletedTyped, TypeOK

\* The service task's steps that only take an event off, or none, and go on to
\* another place.
LEMMA GettingKeepsInv ==
    ASSUME IInv, Get \/ Peek \/ Take \/ Decide
    PROVE  IInv'
<1> USE QueueAssumption
<1>1. queue \in Seq(Events) /\ Len(queue) \in Nat /\ Len(queue) <= QueueSize
  BY DEF IInv, TypeOK
<1>2. queue # <<>> => /\ Head(queue) \in Events /\ Tail(queue) \in Seq(Events)
                      /\ Len(Tail(queue)) <= QueueSize
  BY <1>1, QueueTake
<1>3. {"get", "peek", "take", "decide", "handle"} \subseteq Places
  BY DEF Places
<1>4. ASSUME Get PROVE IInv'
  BY <1>4, <1>1, <1>2, <1>3
     DEF Get, Rest, IInv, TypeOK, HasEvent, FrontSeen, FrontPosts, CoalescingSparesData
<1>5. ASSUME Peek PROVE IInv'
  BY <1>5, <1>1, <1>2, <1>3
     DEF Peek, Rest, IInv, TypeOK, HasEvent, FrontSeen, FrontPosts, CoalescingSparesData
<1>6. ASSUME Take PROVE IInv'
  <2>1. queue # <<>> /\ Head(queue).type \in {"POLL", "ACCEPT"} /\ cur \in Events
    BY <1>6 DEF Take, IInv, TypeOK, HasEvent, FrontSeen, FrontPosts, CoalescingSparesData
  <2>2. /\ faults' \subseteq faults \cup {<<"coalesced", "ACCEPT">>}
        /\ <<"coalesced", "ACCEPT">> \in Faults
    BY <1>6, <2>1 DEF Take, Types, Faults
  <2>3. faults' \subseteq Faults /\ CoalescingSparesData'
    <3>1. faults' \subseteq Faults
      BY <2>2 DEF IInv, TypeOK
    <3>2. ASSUME NEW f \in faults', f[1] = "coalesced" PROVE f[2] = "ACCEPT"
      <4>1. CASE f \in faults
        BY <4>1, <3>2 DEF IInv, CoalescingSparesData
      <4>2. CASE f = <<"coalesced", "ACCEPT">>
        BY <4>2
      <4> QED  BY <2>2, <4>1, <4>2
    <3> QED  BY <3>1, <3>2 DEF CoalescingSparesData
  <2>4. queue' \in Seq(Events) /\ Len(queue') <= QueueSize /\ pc' = "peek"
    BY <1>6, <2>1, <1>2 DEF Take
  <2> QED  BY <1>6, <1>3, <2>1, <2>3, <2>4
         DEF Take, Rest, IInv, TypeOK, HasEvent, FrontSeen, FrontPosts, CoalescingSparesData
<1>7. ASSUME Decide PROVE IInv'
  BY <1>7, <1>1, <1>3
     DEF Decide, Done, Rest, IInv, TypeOK, HasEvent, FrontSeen, FrontPosts,
         CoalescingSparesData
<1> QED  BY <1>4, <1>5, <1>6, <1>7

\* The faults other than those of the coalescing.
Spared == {"late", "early", "disorder", "gap", "dropped"} \X Types

\* Faults of another kind do not make the coalescing free data.
LEMMA SparedKeepsInv ==
    ASSUME faults \subseteq Faults, CoalescingSparesData,
           NEW new \in SUBSET Spared, faults' \subseteq faults \cup new
    PROVE  faults' \subseteq Faults /\ CoalescingSparesData'
<1>1. Spared \subseteq Faults /\ \A f \in Spared : f[1] # "coalesced"
  BY DEF Spared, Faults
<1> QED  BY <1>1 DEF CoalescingSparesData

\* Handling an event, up to the CLEAR it may prepend.
LEMMA HandlingKeepsInv ==
    ASSUME IInv, Handle
    PROVE  IInv'
<1> USE QueueAssumption
<1>1. pc = "handle" /\ cur \in Events
  BY DEF Handle, HandleAccept, HandleRecv, HandlePoll, HandleFin, HandleError, HandleClear, IInv, HasEvent
<1>2. cur.client \in Clients /\ cur.n \in 0..MaxData /\ cur.type \in Types
  BY <1>1 DEF Events
<1>3. {"get", "handle", "recved", "closing", "shut", "seek", "post"} \subseteq Places
  BY DEF Places, Removing
<1>4. Misplaced \subseteq {"late", "early"} \X Types
  BY <1>2 DEF Misplaced
<1>5. ASSUME HandleAccept PROVE IInv'
  BY <1>5, <1>2, <1>3
     DEF HandleAccept, Done, IInv, TypeOK, HasEvent, FrontSeen, FrontPosts,
         CoalescingSparesData
<1>6. ASSUME HandleRecv PROVE IInv'
  <2>1. handled' \in [Clients -> 0..MaxData]
    BY <1>6, <1>2
       DEF HandleRecv, IInv, TypeOK, HasEvent, FrontSeen, FrontPosts, CoalescingSparesData
  <2>2. /\ faults' \subseteq Faults
        /\ CoalescingSparesData'
    <3>1. faults' \subseteq faults \cup Misplaced \cup ({"disorder", "gap"} \X Types)
      BY <1>6 DEF HandleRecv, Types
    <3>2. Misplaced \cup ({"disorder", "gap"} \X Types) \subseteq Spared
      BY <1>4 DEF Spared
    <3> QED  BY <3>1, <3>2, SparedKeepsInv DEF IInv, TypeOK
  <2> QED  BY <1>6, <1>1, <1>3, <2>1, <2>2
         DEF HandleRecv, Done, IInv, TypeOK, HasEvent, FrontSeen, FrontPosts,
             CoalescingSparesData
<1>a. ASSUME faults' = faults \cup Misplaced
      PROVE  /\ faults' \subseteq Faults
             /\ CoalescingSparesData'
  <2>1. Misplaced \subseteq Spared
    BY <1>4 DEF Spared
  <2> QED  BY <1>a, <2>1, SparedKeepsInv DEF IInv, TypeOK
<1>7. ASSUME HandlePoll PROVE IInv'
  <2>1. conn' \in [Clients -> {"none", "open", "failed", "ended", "closed", "gone"}]
    BY <1>7 DEF HandlePoll, IInv, TypeOK, HasEvent, FrontSeen, FrontPosts, CoalescingSparesData
  <2>2. /\ faults' \subseteq Faults
        /\ CoalescingSparesData'
    BY <1>7, <1>a DEF HandlePoll
  <2> QED  BY <1>7, <1>1, <1>3, <2>1, <2>2
         DEF HandlePoll, Done, IInv, TypeOK, HasEvent, FrontSeen, FrontPosts,
             CoalescingSparesData
<1>8. ASSUME HandleFin PROVE IInv'
  <2>1. /\ faults' \subseteq Faults
        /\ CoalescingSparesData'
    BY <1>8, <1>a DEF HandleFin
  <2> QED  BY <1>8, <1>1, <1>3, <2>1
         DEF HandleFin, IInv, TypeOK, HasEvent, FrontSeen, FrontPosts, CoalescingSparesData
<1>9. ASSUME HandleError PROVE IInv'
  <2>1. /\ faults' \subseteq Faults
        /\ CoalescingSparesData'
    BY <1>9, <1>a DEF HandleError
  <2>2. Delete(cur.client)
    BY <1>9 DEF HandleError
  <2>3. DeletedTyped
    BY <2>2, <1>2, DeleteKeepsTypes DEF IInv
  <2> QED  BY <1>9, <1>1, <1>3, <2>1, <2>3
         DEF HandleError, Done, DeletedTyped, IInv, TypeOK, HasEvent, FrontSeen, FrontPosts,
             CoalescingSparesData
<1>10. ASSUME HandleClear PROVE IInv'
  BY <1>10, <1>1, <1>3
     DEF HandleClear, Rest, IInv, TypeOK, HasEvent, FrontSeen, FrontPosts,
         CoalescingSparesData
<1> QED  BY <1>5, <1>6, <1>7, <1>8, <1>9, <1>10 DEF Handle

\* Ending a connection, and going round the queue for what is left of it.
LEMMA EndingKeepsInv ==
    ASSUME IInv, Recved \/ Shut \/ PostClear \/ Close \/ Seek \/ Scan \/ ScanTake \/ PutBack
    PROVE  IInv'
<1> USE QueueAssumption
<1>1. queue \in Seq(Events) /\ Len(queue) \in Nat /\ Len(queue) <= QueueSize
  BY DEF IInv, TypeOK
<1>2. queue # <<>> => /\ Head(queue) \in Events /\ Tail(queue) \in Seq(Events)
                      /\ Len(Tail(queue)) <= QueueSize
  BY <1>1, QueueTake
<1>3. {"get", "shut", "post", "close", "seek", "keep", "scan", "scanTake", "requeue"} \subseteq Places
  BY DEF Places, Removing
<1>4. /\ Unmarked \in Seq(Events) /\ Len(Unmarked) = Len(queue)
      /\ queue # <<>> => Unmarked # <<>>
  <2>1. ASSUME NEW i \in 1..Len(queue)
        PROVE  [queue[i] EXCEPT !.first = FALSE] \in Events
    <3>1. queue[i] \in Events
      BY <1>1, ElementOfSeq
    <3> QED  BY <3>1 DEF Events
  <2>2. Unmarked \in [1..Len(queue) -> Events]
    <3>1. DOMAIN queue = 1..Len(queue)
      BY <1>1, LenProperties
    <3> QED  BY <3>1, <2>1 DEF Unmarked
  <2>3. Unmarked \in Seq(Events) /\ Len(Unmarked) = Len(queue)
    BY <1>1, <2>2, LenProperties
  <2> QED  BY <1>1, <2>3, EmptySeq
<1>5. pc # "get" => cur.client \in Clients
  BY DEF Events, IInv, HasEvent
<1>6. ASSUME Recved PROVE IInv'
  BY <1>6, <1>3
     DEF Recved, Done, IInv, TypeOK, HasEvent, FrontSeen, FrontPosts, CoalescingSparesData
<1>13. ASSUME Shut PROVE IInv'
  <2>1. conn' \in [Clients -> {"none", "open", "failed", "ended", "closed", "gone"}]
    BY <1>13, <1>5 DEF Shut, IInv, TypeOK
  <2> QED  BY <1>13, <1>3, <2>1
         DEF Shut, Done, IInv, TypeOK, HasEvent, FrontSeen, FrontPosts, CoalescingSparesData
<1>7. ASSUME PostClear PROVE IInv'
  <2>1. pc = "post" /\ cur \in Events /\ Event("CLEAR", cur.client, 0) \in Events
    BY <1>7, <1>5 DEF PostClear, Event, Events, Types, IInv, HasEvent
  <2>2. queue' \in Seq(Events) /\ Len(queue') <= QueueSize
    BY <1>7, <2>1, <1>1, QueuePrepend DEF PostClear
  <2>3. CASE cur.type = "FIN"
    <3>1. Delete(cur.client) /\ Done /\ UNCHANGED <<lwip, hand, faults, raced>>
      BY <1>7, <2>3 DEF PostClear
    <3>2. DeletedTyped
      BY <3>1, <2>1, <1>5, DeleteKeepsTypes DEF IInv
    <3> QED  BY <3>1, <3>2, <2>2, <1>3
           DEF DeletedTyped, Done, IInv, TypeOK, HasEvent, FrontSeen, FrontPosts,
               CoalescingSparesData
  <2>4. CASE cur.type # "FIN"
    BY <1>7, <2>4, <2>1, <2>2, <1>3
       DEF PostClear, IInv, TypeOK, HasEvent, FrontSeen, FrontPosts, CoalescingSparesData
  <2> QED  BY <2>3, <2>4
<1>8. ASSUME Close PROVE IInv'
  <2>1. Delete(cur.client) /\ Done /\ UNCHANGED <<queue, lwip, hand, faults, raced>>
    BY <1>8 DEF Close
  <2>2. DeletedTyped
    BY <1>8, <2>1, <1>5, DeleteKeepsTypes DEF Close, IInv
  <2> QED  BY <2>1, <2>2, <1>3
         DEF DeletedTyped, Done, IInv, TypeOK, HasEvent, FrontSeen, FrontPosts,
             CoalescingSparesData
<1>9. ASSUME Seek PROVE IInv'
  <2>1. CASE queue = <<>>
    BY <1>9, <2>1, <1>3
       DEF Seek, Done, Rest, IInv, TypeOK, HasEvent, FrontSeen, FrontPosts,
           CoalescingSparesData
  <2>2. CASE queue # <<>>
    <3>1. [Head(queue) EXCEPT !.first = TRUE] \in Events
      BY <1>2, <2>2 DEF Events
    <3> QED  BY <1>9, <2>2, <1>2, <1>3, <3>1
           DEF Seek, Rest, IInv, TypeOK, HasEvent, FrontSeen, FrontPosts,
               CoalescingSparesData
  <2> QED  BY <2>1, <2>2
<1>10. ASSUME Scan PROVE IInv'
  BY <1>10, <1>3, <1>4
     DEF Scan, Done, Rest, IInv, TypeOK, HasEvent, FrontSeen, FrontPosts,
         CoalescingSparesData
<1>11. ASSUME ScanTake PROVE IInv'
  <2>1. queue # <<>>
    BY <1>11 DEF ScanTake, IInv, FrontSeen
  <2> QED  BY <1>11, <2>1, <1>2, <1>3
         DEF ScanTake, Rest, IInv, TypeOK, HasEvent, FrontSeen, FrontPosts,
             CoalescingSparesData
<1>12. ASSUME PutBack PROVE IInv'
  <2>1. hand \in Events /\ hand.type \in Types
    BY <1>12 DEF PutBack, IInv, HasEvent, Events
  <2>2. CASE Len(queue) < QueueSize
    <3>1. queue' \in Seq(Events) /\ Len(queue') <= QueueSize
      BY <1>12, <1>1, <2>1, <2>2, QueueAppend DEF PutBack
    <3> QED  BY <1>12, <2>2, <3>1, <1>3
           DEF PutBack, Rest, IInv, TypeOK, HasEvent, FrontSeen, FrontPosts,
               CoalescingSparesData
  <2>3. CASE ~(Len(queue) < QueueSize)
    <3>1. faults' = faults \cup {<<"dropped", hand.type>>} /\ queue' = Unmarked /\ Done
      BY <1>12, <2>3 DEF PutBack
    <3>2. {<<"dropped", hand.type>>} \subseteq Spared
      BY <2>1 DEF Spared
    <3>3. faults' \subseteq Faults /\ CoalescingSparesData'
      BY <3>1, <3>2, SparedKeepsInv DEF IInv, TypeOK
    <3> QED  BY <1>12, <3>1, <3>3, <1>3, <1>4
           DEF PutBack, Rest, Done, IInv, TypeOK, HasEvent, FrontSeen, FrontPosts,
               CoalescingSparesData
  <2> QED  BY <2>2, <2>3
<1> QED  BY <1>6, <1>7, <1>8, <1>9, <1>10, <1>11, <1>12, <1>13

\* Whatever the two threads do in between each other, the invariant holds.
THEOREM Invariance == Spec => []IInv
<1>1. ASSUME IInv, UNCHANGED vars PROVE IInv'
  BY <1>1 DEF vars, IInv, TypeOK, HasEvent, FrontSeen, FrontPosts, CoalescingSparesData
<1>2. IInv /\ [Next]_vars => IInv'
  BY <1>1, LwipKeepsInv, GettingKeepsInv, HandlingKeepsInv, EndingKeepsInv DEF Next, ServiceTask
<1> QED  BY <1>2, InitInv, PTL DEF Spec

\* The queue never holds more than it has room for, events are well formed, and
\* the service task is at a place of its code, for every size and every number
\* of connections.
THEOREM TypeCorrect == Spec => []TypeOK
<1>1. IInv => TypeOK
  BY DEF IInv
<1> QED  BY <1>1, Invariance, PTL

\* Whatever lwIP does between xQueuePeek() and xQueueReceive(), the coalescing
\* frees polls or an ACCEPT, never data nor the end of a connection.
THEOREM CoalescingIsBounded == Spec => []CoalescingSparesData
<1>1. IInv => CoalescingSparesData
  BY DEF IInv
<1> QED  BY <1>1, Invariance, PTL

-----------------------------------------------------------------------------
(* The order of the events, while nothing has raced.                       *)

\* The events under way, in the order in which they are due: the one that is
\* handled, those in the queue, and the one lwIP waits to put at the back.  The
\* place of an event is a number, of which only the order counts; inside a
\* removal the events that were put back, from the mark on, come before those not
\* yet looked at.
Wide == QueueSize + 1
Turning == pc \in {"scan", "scanTake", "requeue"}
Due == pc \in {"peek", "take", "decide", "handle"} \cup Removing
Mark == CHOOSE m \in 1..Len(queue) : queue[m].first
Cut == IF Turning THEN Mark ELSE 1
Back == lwip # Idle /\ lwip.at = "back"
Ranks ==
    {r \in -1..3 * Wide :
        \/ r = -1 /\ Due
        \/ r = 0 /\ pc = "keep"
        \/ r \in Cut..Len(queue)
        \/ r = Wide /\ pc = "requeue"
        \/ r - Wide \in 1..Cut - 1
        \/ r = 3 * Wide /\ Back}
EventAt(r) ==
    IF r = -1 THEN cur
    ELSE IF r = 3 * Wide THEN lwip.event
    ELSE IF r \in {0, Wide} THEN hand
    ELSE IF r < Wide THEN queue[r] ELSE queue[r - Wide]
Stream == [r \in Ranks |-> EventAt(r)]

\* The client lwIP waits to announce at the front of the queue.
Announcing == IF lwip # Idle /\ lwip.at = "front" THEN {lwip.event.client} ELSE {}

\* A CLEAR of the client is under way.
Clears(S, c) == \E r \in DOMAIN S : S[r].type = "CLEAR" /\ S[r].client = c

\* An event is of a client that stands, or is to be removed by a CLEAR.
Attended(S, con) ==
    \A r \in DOMAIN S :
        \/ con[S[r].client] \notin {"none", "gone"}
        \/ con[S[r].client] = "gone" /\ S[r].type # "ACCEPT" /\ Clears(S, S[r].client)

\* Only ACCEPTs come before a CLEAR, and there is one CLEAR at most.
ClearsFirst(S) ==
    \A r, q \in DOMAIN S :
        S[r].type = "CLEAR" => /\ q < r => S[q].type = "ACCEPT"
                               /\ r < q => S[q].type # "CLEAR"

\* An ACCEPT comes before the other events of its client.
AcceptsFirst(S, acc) ==
    \A r \in DOMAIN S :
        S[r].type = "ACCEPT" =>
            /\ S[r].client \notin acc
            /\ \A q \in DOMAIN S : q # r /\ S[q].client = S[r].client => r < q /\ S[q].type # "ACCEPT"

\* A client that stands has been accepted, or is about to be.
Announced(S, con, acc, fr) ==
    /\ \A c \in acc : con[c] \notin {"none", "gone"}
    /\ \A c \in Clients : con[c] \notin {"none", "gone"} /\ c \notin acc =>
            \/ c \in fr
            \/ \E r \in DOMAIN S : S[r].type = "ACCEPT" /\ S[r].client = c
    /\ \A c \in fr : /\ con[c] \notin {"none", "gone"} /\ c \notin acc
                     /\ \A r \in DOMAIN S : S[r].client # c

\* The end of a connection comes after its other events.
EndsLast(S, con) ==
    \A r \in DOMAIN S :
        S[r].type \in {"FIN", "ERROR"} /\ con[S[r].client] # "gone" =>
            /\ con[S[r].client] \in IF S[r].type = "FIN" THEN {"ended"} ELSE {"failed", "closed"}
            /\ \A q \in DOMAIN S : r < q => S[q].client # S[r].client

\* The data of a client that is under way: from low on up to high, in order.
DataOf(S, c, low, high) ==
    /\ low <= high
    /\ \A r \in DOMAIN S : S[r].type = "RECV" /\ S[r].client = c => S[r].n \in low + 1..high
    /\ \A k \in low + 1..high :
            \E r \in DOMAIN S : S[r].type = "RECV" /\ S[r].client = c /\ S[r].n = k
    /\ \A r, q \in DOMAIN S :
            /\ S[r].type = "RECV" /\ S[r].client = c
            /\ S[q].type = "RECV" /\ S[q].client = c /\ r < q
            => S[r].n < S[q].n

\* All that was posted for a client that stands, and is not handled, is under way.
Numbered(S, con, han, pos) ==
    \A c \in Clients : IF con[c] \in {"none", "gone"} THEN pos[c] = 0
                       ELSE DataOf(S, c, han[c], pos[c])

Orderly(S, con, acc, han, pos, fr) ==
    /\ Attended(S, con) /\ ClearsFirst(S) /\ AcceptsFirst(S, acc)
    /\ Announced(S, con, acc, fr) /\ EndsLast(S, con) /\ Numbered(S, con, han, pos)

\* The place of the service task and the event it handles.
CurFits ==
    /\ pc \in {"peek", "take", "decide"} => cur.type = "POLL"
    /\ pc \in Removing => cur.type = "CLEAR"
    /\ pc \in {"recved", "closing", "shut", "post", "close"} =>
         /\ cur.client \in accepted
         /\ cur.type \in {"RECV", "POLL", "FIN"} /\ (cur.type = "FIN" => pc = "post")
    /\ pc = "post" => IF cur.type = "FIN"
                      THEN conn[cur.client] = "ended" /\ \A r \in Ranks : Stream[r].client # cur.client
                      ELSE conn[cur.client] = "closed"
    /\ pc = "close" => conn[cur.client] = "closed" /\ Clears(Stream, cur.client)

\* Where the service task is while a CLEAR is under way.
ClearFits ==
    \A r \in Ranks : Stream[r].type = "CLEAR" =>
        \/ conn[Stream[r].client] = "gone" /\ pc \in {"get", "handle"} \cup Removing
        \/ Stream[r].client = cur.client /\ pc = "close"

\* What lwIP waits to put at the back is of a connection that stands.
BackStands == Back => /\ lwip.event.type \in {"RECV", "FIN", "ERROR"}
                      /\ conn[lwip.event.client] \notin {"none", "gone"}

\* What the service task has seen at the front, and the room it has made, stay.
FrontStays ==
    /\ pc = "take" => Head(queue).type = "POLL"
    /\ pc \in {"keep", "requeue"} => Len(queue) < QueueSize
    /\ pc = "scanTake" => Mark # 1

\* The mark is on one event, inside a removal.
MarkFits ==
    /\ IF Turning
       THEN \E m \in 1..Len(queue) : \A i \in 1..Len(queue) : queue[i].first <=> i = m
       ELSE \A i \in 1..Len(queue) : ~queue[i].first
    /\ lwip # Idle => ~lwip.event.first
    /\ pc \in {"keep", "requeue"} => (hand.first <=> pc = "keep")

\* The events that were put back are not of the client that is removed.
Cleared ==
    /\ pc = "keep" => hand.client # cur.client
    /\ Turning => \A r \in Ranks : r \in 1..Wide => Stream[r].client # cur.client

OrderInv ==
    /\ faults = {}
    /\ Orderly(Stream, conn, accepted, handled, posted, Announcing)
    /\ CurFits /\ ClearFits /\ BackStands /\ FrontStays /\ MarkFits /\ Cleared

SoundInv == raced \/ OrderInv

\* Two records of the same event; only the mark of a removal may differ.
Same(e, f) == e.type = f.type /\ e.client = f.client /\ e.n = f.n

\* T is S without the events at X: g takes the places in T to those in S.
Thinned(T, S, X, g) ==
    /\ DOMAIN T \subseteq Int /\ DOMAIN S \subseteq Int
    /\ \A r \in DOMAIN T : g[r] \in DOMAIN S \ X /\ Same(T[r], S[g[r]])
    /\ \A r, q \in DOMAIN T : r < q <=> g[r] < g[q]
    /\ \A q \in DOMAIN S \ X : \E r \in DOMAIN T : g[r] = q

\* Taking events away leaves the others of a CLEAR's client behind the CLEAR, if
\* a CLEAR that goes leaves none.
LEMMA ThinAttended ==
    ASSUME NEW S, NEW T, NEW X, NEW g, NEW con, Thinned(T, S, X, g), Attended(S, con),
           \A x \in X : x \in DOMAIN S /\ S[x].type = "CLEAR" =>
               \A r \in DOMAIN S \ X : S[r].client # S[x].client
    PROVE  Attended(T, con)
<1> SUFFICES ASSUME NEW r \in DOMAIN T, con[T[r].client] \in {"none", "gone"}
             PROVE  con[T[r].client] = "gone" /\ T[r].type # "ACCEPT" /\ Clears(T, T[r].client)
  BY DEF Attended
<1>1. g[r] \in DOMAIN S \ X /\ T[r].client = S[g[r]].client /\ T[r].type = S[g[r]].type
  BY DEF Thinned, Same
<1>2. con[T[r].client] = "gone" /\ T[r].type # "ACCEPT" /\ Clears(S, T[r].client)
  BY <1>1 DEF Attended
<1>3. PICK q \in DOMAIN S : S[q].type = "CLEAR" /\ S[q].client = T[r].client
  BY <1>2 DEF Clears
<1>4. q \notin X
  BY <1>1, <1>3
<1>5. PICK p \in DOMAIN T : g[p] = q
  BY <1>4 DEF Thinned
<1>6. T[p].type = "CLEAR" /\ T[p].client = T[r].client
  BY <1>3, <1>5 DEF Thinned, Same
<1> QED  BY <1>2, <1>6 DEF Clears

\* Nor does it put anything before a CLEAR, or before an ACCEPT, or behind an end.
LEMMA ThinOrder ==
    ASSUME NEW S, NEW T, NEW X, NEW g, NEW con, NEW acc, Thinned(T, S, X, g)
    PROVE  /\ ClearsFirst(S) => ClearsFirst(T)
           /\ AcceptsFirst(S, acc) => AcceptsFirst(T, acc)
           /\ EndsLast(S, con) => EndsLast(T, con)
<1>1. \A r \in DOMAIN T : /\ g[r] \in DOMAIN S
                          /\ T[r].client = S[g[r]].client /\ T[r].type = S[g[r]].type
  BY DEF Thinned, Same
<1>2. \A r, q \in DOMAIN T : (r < q <=> g[r] < g[q]) /\ (r # q => g[r] # g[q])
  BY DEF Thinned
<1>3. ClearsFirst(S) => ClearsFirst(T)
  BY <1>1, <1>2 DEF ClearsFirst
<1>4. AcceptsFirst(S, acc) => AcceptsFirst(T, acc)
  BY <1>1, <1>2 DEF AcceptsFirst
<1>5. EndsLast(S, con) => EndsLast(T, con)
  BY <1>1, <1>2 DEF EndsLast
<1> QED  BY <1>3, <1>4, <1>5

\* As long as no ACCEPT goes, the clients stay announced.
LEMMA ThinAnnounced ==
    ASSUME NEW S, NEW T, NEW X, NEW g, NEW con, NEW acc, NEW fr,
           Thinned(T, S, X, g), Announced(S, con, acc, fr),
           \A x \in X : S[x].type # "ACCEPT"
    PROVE  Announced(T, con, acc, fr)
<1>1. \A r \in DOMAIN T : g[r] \in DOMAIN S /\ T[r].client = S[g[r]].client
  BY DEF Thinned, Same
<1>2. ASSUME NEW c, NEW r \in DOMAIN S, S[r].type = "ACCEPT", S[r].client = c
      PROVE  \E p \in DOMAIN T : T[p].type = "ACCEPT" /\ T[p].client = c
  <2>1. PICK p \in DOMAIN T : g[p] = r
    BY <1>2 DEF Thinned
  <2> QED  BY <1>2, <2>1 DEF Thinned, Same
<1> QED  BY <1>1, <1>2 DEF Announced

\* Data that stays is still numbered.
LEMMA ThinNumbered ==
    ASSUME NEW S, NEW T, NEW X, NEW g, NEW con, NEW han, NEW pos,
           Thinned(T, S, X, g), Numbered(S, con, han, pos),
           \A x \in X : S[x].type = "RECV" => con[S[x].client] \in {"none", "gone"}
    PROVE  Numbered(T, con, han, pos)
<1> SUFFICES ASSUME NEW c \in Clients, con[c] \notin {"none", "gone"}
             PROVE  DataOf(T, c, han[c], pos[c])
  BY DEF Numbered
<1>1. \A r \in DOMAIN T : /\ g[r] \in DOMAIN S /\ T[r].client = S[g[r]].client
                          /\ T[r].type = S[g[r]].type /\ T[r].n = S[g[r]].n
  BY DEF Thinned, Same
<1>2. DataOf(S, c, han[c], pos[c])
  BY DEF Numbered
<1>3. \A r \in DOMAIN T : T[r].type = "RECV" /\ T[r].client = c => T[r].n \in han[c] + 1..pos[c]
  BY <1>1, <1>2 DEF DataOf
<1>4. ASSUME NEW k \in han[c] + 1..pos[c]
      PROVE  \E r \in DOMAIN T : T[r].type = "RECV" /\ T[r].client = c /\ T[r].n = k
  <2>1. PICK q \in DOMAIN S : S[q].type = "RECV" /\ S[q].client = c /\ S[q].n = k
    BY <1>2 DEF DataOf
  <2>2. q \notin X
    BY <2>1
  <2>3. PICK r \in DOMAIN T : g[r] = q
    BY <2>2 DEF Thinned
  <2> QED  BY <2>1, <2>3, <1>1
<1>5. \A r, q \in DOMAIN T : r < q => g[r] < g[q]
  BY DEF Thinned
<1> QED  BY <1>1, <1>2, <1>3, <1>4, <1>5 DEF DataOf

\* Taking away data and polls of clients that are gone, a poll, or the end of a
\* connection, or nothing.
LEMMA Thin ==
    ASSUME NEW S, NEW T, NEW X, NEW g, NEW con, NEW acc, NEW han, NEW pos, NEW fr,
           Thinned(T, S, X, g), Orderly(S, con, acc, han, pos, fr), X \subseteq DOMAIN S,
           \A x \in X : /\ S[x].type # "ACCEPT"
                        /\ S[x].type = "RECV" => con[S[x].client] \in {"none", "gone"}
                        /\ S[x].type = "CLEAR" => \A r \in DOMAIN S \ X : S[r].client # S[x].client
    PROVE  Orderly(T, con, acc, han, pos, fr)
<1>1. Attended(T, con)
  BY ThinAttended DEF Orderly
<1>2. ClearsFirst(T) /\ AcceptsFirst(T, acc) /\ EndsLast(T, con)
  BY ThinOrder DEF Orderly
<1>3. Announced(T, con, acc, fr)
  BY ThinAnnounced DEF Orderly
<1>4. Numbered(T, con, han, pos)
  BY ThinNumbered DEF Orderly
<1> QED  BY <1>1, <1>2, <1>3, <1>4 DEF Orderly

\* T is S with one event more, at z.
Added(T, S, z) ==
    /\ DOMAIN S \subseteq Int /\ z \in Int \ DOMAIN S
    /\ DOMAIN T = DOMAIN S \cup {z}
    /\ \A r \in DOMAIN S : T[r] = S[r]

\* A CLEAR that was under way still is.
LEMMA AddedClears ==
    ASSUME NEW S, NEW T, NEW z, NEW c, Added(T, S, z), Clears(S, c)
    PROVE  Clears(T, c)
BY DEF Added, Clears

\* An event that is not data of a client leaves its data as it was.
LEMMA AddedData ==
    ASSUME NEW S, NEW T, NEW z, NEW c, NEW low, NEW high, Added(T, S, z),
           T[z].type # "RECV" \/ T[z].client # c, DataOf(S, c, low, high)
    PROVE  DataOf(T, c, low, high)
<1>1. \A r \in DOMAIN S : r \in DOMAIN T /\ T[r] = S[r]
  BY DEF Added
<1>2. \A r \in DOMAIN T : T[r].type = "RECV" /\ T[r].client = c => r \in DOMAIN S
  BY DEF Added
<1> QED  BY <1>1, <1>2 DEF DataOf

\* A new event of a connection that stands comes last.
LEMMA AddLast ==
    ASSUME NEW S, NEW T, NEW z, NEW con, NEW acc, NEW han, NEW pos, NEW fr,
           NEW con2, NEW pos2, NEW c \in Clients,
           Orderly(S, con, acc, han, pos, fr), Added(T, S, z),
           \A r \in DOMAIN S : r < z,
           pos \in [Clients -> Int], han \in [Clients -> Int],
           T[z].client = c, c \notin fr, con[c] = "open",
           \A r \in DOMAIN S : S[r].client \in Clients,
           \A d \in Clients : d # c => con2[d] = con[d],
           \/ T[z].type \in {"RECV", "POLL"} /\ con2[c] = "open"
           \/ T[z].type = "FIN" /\ con2[c] = "ended"
           \/ T[z].type = "ERROR" /\ con2[c] = "failed",
           IF T[z].type = "RECV" THEN T[z].n = pos[c] + 1 /\ pos2 = [pos EXCEPT ![c] = pos[c] + 1]
                                 ELSE pos2 = pos,
           acc \subseteq Clients, fr \subseteq Clients
    PROVE  Orderly(T, con2, acc, han, pos2, fr)
<1>1. /\ \A r \in DOMAIN S : r \in DOMAIN T /\ T[r] = S[r]
      /\ \A r \in DOMAIN T : r \in DOMAIN S \/ r = z
      /\ \A r, q \in DOMAIN T : r < q => r \in DOMAIN S
      /\ z \in DOMAIN T /\ z \notin DOMAIN S /\ z \in Int /\ DOMAIN S \subseteq Int
  BY DEF Added
<1>2. /\ T[z].type \notin {"ACCEPT", "CLEAR"}
      /\ con2[c] \notin {"none", "gone"}
      /\ \A d \in Clients : con2[d] \in {"none", "gone"} <=> con[d] \in {"none", "gone"}
      /\ \A d \in Clients : con2[d] = "gone" <=> con[d] = "gone"
  OBVIOUS
<1>3. Attended(T, con2)
  <2>1. ASSUME NEW r \in DOMAIN S PROVE \/ con2[T[r].client] \notin {"none", "gone"}
                                        \/ con2[T[r].client] = "gone" /\ T[r].type # "ACCEPT" /\ Clears(T, T[r].client)
    <3>1. T[r] = S[r] /\ S[r].client \in Clients
      BY <1>1
    <3> QED  BY <3>1, <1>2, AddedClears DEF Orderly, Attended
  <2> QED  BY <1>1, <1>2, <2>1 DEF Attended
<1>4. ClearsFirst(T)
  BY <1>1, <1>2 DEF Orderly, ClearsFirst
<1>5. AcceptsFirst(T, acc)
  BY <1>1, <1>2 DEF Orderly, AcceptsFirst
<1>6. Announced(T, con2, acc, fr)
  <2>1. Announced(S, con, acc, fr)
    BY DEF Orderly
  <2> QED  BY <1>1, <1>2, <2>1 DEF Announced
<1>7. EndsLast(T, con2)
  <2>1. \A r \in DOMAIN S : S[r].type \in {"FIN", "ERROR"} => S[r].client # c
    BY DEF Orderly, EndsLast
  <2>2. \A r \in DOMAIN S : T[r].client # c => con2[T[r].client] = con[S[r].client]
    BY <1>1
  <2>3. ASSUME NEW r \in DOMAIN T, T[r].type \in {"FIN", "ERROR"}, con2[T[r].client] # "gone"
        PROVE  /\ con2[T[r].client] \in IF T[r].type = "FIN" THEN {"ended"} ELSE {"failed", "closed"}
               /\ \A q \in DOMAIN T : r < q => T[q].client # T[r].client
    <3>1. CASE r = z
      BY <3>1, <1>1, <2>3
    <3>2. CASE r \in DOMAIN S
      <4>1. T[r] = S[r] /\ T[r].client # c /\ con2[T[r].client] = con[S[r].client]
        BY <1>1, <2>1, <2>2, <2>3, <3>2
      <4>2. /\ con[S[r].client] \in IF S[r].type = "FIN" THEN {"ended"} ELSE {"failed", "closed"}
            /\ \A q \in DOMAIN S : r < q => S[q].client # S[r].client
        BY <2>3, <3>2, <4>1 DEF Orderly, EndsLast
      <4> QED  BY <1>1, <4>1, <4>2
    <3> QED  BY <1>1, <3>1, <3>2
  <2> QED  BY <2>3 DEF EndsLast
<1>8. Numbered(T, con2, han, pos2)
  <2> SUFFICES ASSUME NEW d \in Clients
               PROVE  IF con2[d] \in {"none", "gone"} THEN pos2[d] = 0
                      ELSE DataOf(T, d, han[d], pos2[d])
    BY DEF Numbered
  <2>1. IF con[d] \in {"none", "gone"} THEN pos[d] = 0 ELSE DataOf(S, d, han[d], pos[d])
    BY DEF Orderly, Numbered
  <2>2. CASE d # c \/ T[z].type # "RECV"
    <3>1. pos2[d] = pos[d]
      BY <2>2
    <3> QED  BY <1>2, <2>1, <2>2, <3>1, AddedData
  <2>3. CASE d = c /\ T[z].type = "RECV"
    <3>1. pos2[d] = pos[d] + 1 /\ T[z].n = pos[d] + 1 /\ pos[d] \in Int /\ han[d] \in Int
      BY <2>3
    <3>2. DataOf(S, d, han[d], pos[d])
      BY <2>1, <2>3
    <3>3. \A r \in DOMAIN T : T[r].type = "RECV" /\ T[r].client = d => T[r].n \in han[d] + 1..pos2[d]
      <4>1. \A r \in DOMAIN S : S[r].type = "RECV" /\ S[r].client = d => S[r].n \in han[d] + 1..pos[d]
        BY <3>2 DEF DataOf
      <4>2. han[d] <= pos[d]
        BY <3>2 DEF DataOf
      <4> QED  BY <1>1, <3>1, <4>1, <4>2
    <3>4. ASSUME NEW k \in han[d] + 1..pos2[d]
          PROVE  \E r \in DOMAIN T : T[r].type = "RECV" /\ T[r].client = d /\ T[r].n = k
      <4>1. CASE k = pos[d] + 1
        BY <1>1, <2>3, <3>1, <4>1
      <4>2. CASE k # pos[d] + 1
        <5>1. k \in han[d] + 1..pos[d]
          BY <3>1, <4>2
        <5> QED  BY <1>1, <3>2, <5>1 DEF DataOf
      <4> QED  BY <4>1, <4>2
    <3>5. ASSUME NEW r \in DOMAIN T, NEW q \in DOMAIN T, T[r].type = "RECV", T[r].client = d,
                 T[q].type = "RECV", T[q].client = d, r < q
          PROVE  T[r].n < T[q].n
      <4>1. r \in DOMAIN S /\ T[r].n \in han[d] + 1..pos[d]
        BY <1>1, <3>2, <3>5 DEF DataOf
      <4>2. CASE q = z
        BY <3>1, <4>1, <4>2
      <4>3. CASE q \in DOMAIN S
        BY <1>1, <3>2, <3>5, <4>1, <4>3 DEF DataOf
      <4> QED  BY <1>1, <4>2, <4>3
    <3>6. han[d] <= pos2[d]
      BY <3>1, <3>2 DEF DataOf
    <3> QED  BY <3>3, <3>4, <3>5, <3>6, <1>2, <2>3 DEF DataOf
  <2> QED  BY <2>2, <2>3
<1> QED  BY <1>3, <1>4, <1>5, <1>6, <1>7, <1>8 DEF Orderly

\* lwIP puts the ACCEPT it has waited with at the front.
LEMMA AddAccept ==
    ASSUME NEW S, NEW T, NEW z, NEW con, NEW acc, NEW han, NEW pos, NEW c \in Clients,
           Orderly(S, con, acc, han, pos, {c}), Added(T, S, z),
           T[z].type = "ACCEPT", T[z].client = c
    PROVE  Orderly(T, con, acc, han, pos, {})
<1>1. /\ \A r \in DOMAIN S : r \in DOMAIN T /\ T[r] = S[r]
      /\ \A r \in DOMAIN T : r \in DOMAIN S \/ r = z
      /\ z \in DOMAIN T /\ z \notin DOMAIN S /\ z \in Int /\ DOMAIN S \subseteq Int
  BY DEF Added
<1>2. /\ con[c] \notin {"none", "gone"} /\ c \notin acc
      /\ \A r \in DOMAIN S : S[r].client # c
  BY DEF Orderly, Announced
<1>3. Attended(T, con)
  BY <1>1, <1>2, AddedClears DEF Orderly, Attended
<1>4. ClearsFirst(T)
  BY <1>1 DEF Orderly, ClearsFirst
<1>5. AcceptsFirst(T, acc)
  <2>1. ASSUME NEW r \in DOMAIN T, T[r].type = "ACCEPT"
        PROVE  /\ T[r].client \notin acc
               /\ \A q \in DOMAIN T : q # r /\ T[q].client = T[r].client => r < q /\ T[q].type # "ACCEPT"
    BY <1>1, <1>2, <2>1 DEF Orderly, AcceptsFirst
  <2> QED  BY <2>1 DEF AcceptsFirst
<1>6. Announced(T, con, acc, {})
  BY <1>1, <1>2 DEF Orderly, Announced
<1>7. EndsLast(T, con)
  BY <1>1, <1>2 DEF Orderly, EndsLast
<1>8. Numbered(T, con, han, pos)
  BY AddedData DEF Orderly, Numbered
<1> QED  BY <1>3, <1>4, <1>5, <1>6, <1>7, <1>8 DEF Orderly

\* The service task puts a CLEAR before all other events.
LEMMA AddClear ==
    ASSUME NEW S, NEW T, NEW z, NEW con, NEW acc, NEW han, NEW pos, NEW fr, NEW c \in Clients,
           Orderly(S, con, acc, han, pos, fr), Added(T, S, z),
           \A r \in DOMAIN S : z < r /\ S[r].type # "CLEAR",
           c \in acc, T[z].type = "CLEAR", T[z].client = c
    PROVE  Orderly(T, con, acc, han, pos, fr) /\ Clears(T, c)
<1>1. /\ \A r \in DOMAIN S : r \in DOMAIN T /\ T[r] = S[r]
      /\ \A r \in DOMAIN T : r \in DOMAIN S \/ r = z
      /\ z \in DOMAIN T /\ z \notin DOMAIN S /\ z \in Int /\ DOMAIN S \subseteq Int
  BY DEF Added
<1>2. /\ con[c] \notin {"none", "gone"} /\ c \notin fr
      /\ \A r \in DOMAIN S : S[r].type = "ACCEPT" => S[r].client # c
  BY DEF Orderly, Announced, AcceptsFirst
<1>3. Attended(T, con)
  BY <1>1, <1>2, AddedClears DEF Orderly, Attended
<1>4. ClearsFirst(T)
  BY <1>1 DEF ClearsFirst
<1>5. AcceptsFirst(T, acc)
  <2>1. ASSUME NEW r \in DOMAIN T, T[r].type = "ACCEPT"
        PROVE  /\ T[r].client \notin acc
               /\ \A q \in DOMAIN T : q # r /\ T[q].client = T[r].client => r < q /\ T[q].type # "ACCEPT"
    BY <1>1, <1>2, <2>1 DEF Orderly, AcceptsFirst
  <2> QED  BY <2>1 DEF AcceptsFirst
<1>6. Announced(T, con, acc, fr)
  BY <1>1, <1>2 DEF Orderly, Announced
<1>7. EndsLast(T, con)
  BY <1>1, <1>2 DEF Orderly, EndsLast
<1>8. Numbered(T, con, han, pos)
  BY AddedData DEF Orderly, Numbered
<1>9. Clears(T, c)
  BY <1>1 DEF Clears
<1> QED  BY <1>3, <1>4, <1>5, <1>6, <1>7, <1>8, <1>9 DEF Orderly

\* A client is deleted that has no event left, or only those a CLEAR removes.
LEMMA Deletes ==
    ASSUME NEW S, NEW con, NEW acc, NEW han, NEW pos, NEW fr, NEW c \in acc,
           Orderly(S, con, acc, han, pos, fr), acc \subseteq Clients,
           con \in [Clients -> {"none", "open", "failed", "ended", "closed", "gone"}],
           han \in [Clients -> Int], pos \in [Clients -> Int],
           \A r \in DOMAIN S : S[r].client \in Clients, fr \subseteq Clients,
           Clears(S, c) \/ \A r \in DOMAIN S : S[r].client # c
    PROVE  Orderly(S, [con EXCEPT ![c] = "gone"], acc \ {c},
                   [han EXCEPT ![c] = 0], [pos EXCEPT ![c] = 0], fr)
<1> DEFINE con2 == [con EXCEPT ![c] = "gone"]
           han2 == [han EXCEPT ![c] = 0]
           pos2 == [pos EXCEPT ![c] = 0]
<1>1. /\ \A d \in Clients : con2[d] = IF d = c THEN "gone" ELSE con[d]
      /\ \A d \in Clients : han2[d] = IF d = c THEN 0 ELSE han[d]
      /\ \A d \in Clients : pos2[d] = IF d = c THEN 0 ELSE pos[d]
  OBVIOUS
<1> HIDE DEF con2, han2, pos2
<1>2. \A r \in DOMAIN S : S[r].type = "ACCEPT" => S[r].client # c
  BY DEF Orderly, AcceptsFirst
<1>3. Attended(S, con2)
  BY <1>1, <1>2 DEF Orderly, Attended
<1>4. AcceptsFirst(S, acc \ {c})
  BY DEF Orderly, AcceptsFirst
<1>5. Announced(S, con2, acc \ {c}, fr)
  <2>1. Announced(S, con, acc, fr) /\ c \notin fr
    BY DEF Orderly, Announced
  <2>2. \A d \in acc \ {c} : con2[d] \notin {"none", "gone"}
    BY <1>1, <2>1 DEF Announced
  <2>3. ASSUME NEW d \in Clients, con2[d] \notin {"none", "gone"}, d \notin acc \ {c}
        PROVE  d \in fr \/ \E r \in DOMAIN S : S[r].type = "ACCEPT" /\ S[r].client = d
    BY <1>1, <2>1, <2>3 DEF Announced
  <2>5. \A d \in fr : con2[d] \notin {"none", "gone"}
    BY <1>1, <2>1 DEF Announced
  <2> QED  BY <2>1, <2>2, <2>3, <2>5 DEF Announced
<1>6. EndsLast(S, con2)
  BY <1>1 DEF Orderly, EndsLast
<1>7. Numbered(S, con2, han2, pos2)
  BY <1>1 DEF Orderly, Numbered
<1> QED  BY <1>3, <1>4, <1>5, <1>6, <1>7 DEF Orderly, con2, han2, pos2

\* The ACCEPT that is due is handled.
LEMMA Accepts ==
    ASSUME NEW S, NEW T, NEW x, NEW g, NEW con, NEW acc, NEW han, NEW pos, NEW fr,
           Thinned(T, S, {x}, g), Orderly(S, con, acc, han, pos, fr),
           x \in DOMAIN S, S[x].type = "ACCEPT"
    PROVE  Orderly(T, con, acc \cup {S[x].client}, han, pos, fr)
<1>1. Attended(T, con)
  BY ThinAttended DEF Orderly
<1>2. ClearsFirst(T) /\ EndsLast(T, con) /\ AcceptsFirst(T, acc)
  BY ThinOrder DEF Orderly
<1>3. Numbered(T, con, han, pos)
  BY ThinNumbered DEF Orderly
<1>4. \A r \in DOMAIN T : /\ g[r] \in DOMAIN S /\ g[r] # x
                          /\ T[r].client = S[g[r]].client /\ T[r].type = S[g[r]].type
  BY DEF Thinned, Same
<1>5. \A r \in DOMAIN T : T[r].type = "ACCEPT" => T[r].client # S[x].client
  BY <1>4 DEF Orderly, AcceptsFirst
<1>6. AcceptsFirst(T, acc \cup {S[x].client})
  BY <1>2, <1>5 DEF AcceptsFirst
<1>7. Announced(T, con, acc \cup {S[x].client}, fr)
  <2>1. Announced(S, con, acc, fr) /\ con[S[x].client] \notin {"none", "gone"}
    BY DEF Orderly, Attended
  <2>2. ASSUME NEW d, d # S[x].client, NEW r \in DOMAIN S, S[r].type = "ACCEPT", S[r].client = d
        PROVE  \E p \in DOMAIN T : T[p].type = "ACCEPT" /\ T[p].client = d
    <3>1. PICK p \in DOMAIN T : g[p] = r
      BY <2>2 DEF Thinned
    <3> QED  BY <2>2, <3>1, <1>4
  <2>3. \A d \in fr : d # S[x].client
    BY <2>1 DEF Announced
  <2> QED  BY <1>4, <2>1, <2>2, <2>3 DEF Announced
<1> QED  BY <1>1, <1>2, <1>3, <1>6, <1>7 DEF Orderly

\* What is due is of a client that was announced and stands, unless it is the
\* announcement, or a CLEAR.
LEMMA FirstIsDue ==
    ASSUME NEW S, NEW x \in DOMAIN S, NEW con, NEW acc, NEW han, NEW pos, NEW fr,
           Orderly(S, con, acc, han, pos, fr), DOMAIN S \subseteq Int,
           \A r \in DOMAIN S : r # x => x < r, S[x].client \in Clients,
           S[x].type \notin {"ACCEPT", "CLEAR"}
    PROVE  /\ con[S[x].client] \notin {"none", "gone"} /\ S[x].client \in acc
           /\ \A r \in DOMAIN S : S[r].type # "CLEAR"
<1>1. \A r \in DOMAIN S : S[r].type # "CLEAR"
  BY DEF Orderly, ClearsFirst
<1>2. con[S[x].client] \notin {"none", "gone"}
  BY <1>1 DEF Orderly, Attended, Clears
<1>3. S[x].client \in acc
  BY <1>2 DEF Orderly, Announced, AcceptsFirst
<1> QED  BY <1>1, <1>2, <1>3

\* The data that is due is the next of its client.
LEMMA Handles ==
    ASSUME NEW S, NEW T, NEW x, NEW g, NEW con, NEW acc, NEW han, NEW pos, NEW fr,
           Thinned(T, S, {x}, g), Orderly(S, con, acc, han, pos, fr),
           x \in DOMAIN S, \A r \in DOMAIN S : r # x => x < r,
           \A r \in DOMAIN S : S[r].client \in Clients /\ S[r].n \in Int, S[x].type = "RECV",
           han \in [Clients -> Int], pos \in [Clients -> Int]
    PROVE  /\ S[x].n = han[S[x].client] + 1
           /\ Orderly(T, con, acc, [han EXCEPT ![S[x].client] = S[x].n], pos, fr)
<1> DEFINE c == S[x].client
           han2 == [han EXCEPT ![c] = S[x].n]
<1>0. DOMAIN S \subseteq Int /\ c \in Clients
  BY DEF Thinned
<1>1. con[c] \notin {"none", "gone"}
  BY <1>0, FirstIsDue
<1>2. DataOf(S, c, han[c], pos[c])
  BY <1>0, <1>1 DEF Orderly, Numbered
<1> HIDE DEF c
<1>3. S[x].n = han[c] + 1
  <2>1. S[x].n \in han[c] + 1..pos[c] /\ han[c] \in Int /\ pos[c] \in Int
    BY <1>0, <1>2 DEF c, DataOf
  <2>2. PICK r \in DOMAIN S : S[r].type = "RECV" /\ S[r].client = c /\ S[r].n = han[c] + 1
    BY <1>2, <2>1 DEF DataOf
  <2>3. r # x => S[x].n < S[r].n
    BY <1>2, <2>2 DEF c, DataOf
  <2> QED  BY <2>1, <2>2, <2>3
<1>4. Attended(T, con)
  BY ThinAttended DEF Orderly
<1>5. ClearsFirst(T) /\ EndsLast(T, con) /\ AcceptsFirst(T, acc)
  BY ThinOrder DEF Orderly
<1>6. Announced(T, con, acc, fr)
  BY ThinAnnounced DEF Orderly
<1>7. \A r \in DOMAIN T : /\ g[r] \in DOMAIN S /\ g[r] # x /\ T[r].client = S[g[r]].client
                          /\ T[r].type = S[g[r]].type /\ T[r].n = S[g[r]].n
  BY DEF Thinned, Same
<1>8. /\ \A r, q \in DOMAIN T : r < q => g[r] < g[q]
      /\ \A q \in DOMAIN S : q # x => \E r \in DOMAIN T : g[r] = q
  BY DEF Thinned
<1>9. Numbered(T, con, han2, pos)
  <2>1. ASSUME NEW d \in Clients
        PROVE  IF con[d] \in {"none", "gone"} THEN pos[d] = 0 ELSE DataOf(T, d, han2[d], pos[d])
    <3>1. CASE d # c
      <4>1. han2[d] = han[d] /\ S[x].client # d
        BY <3>1 DEF c
      <4>2. IF con[d] \in {"none", "gone"} THEN pos[d] = 0 ELSE DataOf(S, d, han[d], pos[d])
        BY DEF Orderly, Numbered
      <4>3. ASSUME DataOf(S, d, han[d], pos[d]) PROVE DataOf(T, d, han[d], pos[d])
        BY <1>7, <1>8, <4>1, <4>3 DEF DataOf
      <4> QED  BY <4>1, <4>2, <4>3
    <3>2. CASE d = c
      <4>1. han2[d] = han[c] + 1 /\ han[c] \in Int /\ pos[c] \in Int
        BY <1>0, <1>3, <3>2
      <4> HIDE DEF han2
      <4>2. ASSUME NEW r \in DOMAIN T, T[r].type = "RECV", T[r].client = d
            PROVE  T[r].n \in han2[d] + 1..pos[d]
        <5>1. x < g[r] /\ S[g[r]].type = "RECV" /\ S[g[r]].client = c
          BY <1>7, <3>2, <4>2
        <5>2. S[x].n < S[g[r]].n
          BY <1>2, <1>7, <5>1 DEF c, DataOf
        <5>3. S[g[r]].n \in han[c] + 1..pos[c]
          BY <1>2, <1>7, <5>1 DEF DataOf
        <5> QED  BY <1>3, <1>7, <4>1, <5>2, <5>3, <3>2
      <4>3. ASSUME NEW k \in han2[d] + 1..pos[d]
            PROVE  \E r \in DOMAIN T : T[r].type = "RECV" /\ T[r].client = d /\ T[r].n = k
        <5>1. k \in han[c] + 1..pos[c] /\ k # han[c] + 1
          BY <3>2, <4>1
        <5>2. PICK q \in DOMAIN S : S[q].type = "RECV" /\ S[q].client = c /\ S[q].n = k
          BY <1>2, <5>1 DEF DataOf
        <5>3. q # x
          BY <1>3, <5>1, <5>2
        <5>4. PICK r \in DOMAIN T : g[r] = q
          BY <1>8, <5>3
        <5> QED  BY <1>7, <5>2, <5>4, <3>2
      <4>4. ASSUME NEW r \in DOMAIN T, NEW q \in DOMAIN T, T[r].type = "RECV", T[r].client = d,
                   T[q].type = "RECV", T[q].client = d, r < q
            PROVE  T[r].n < T[q].n
        BY <1>2, <1>7, <1>8, <3>2, <4>4 DEF DataOf
      <4>5. han2[d] <= pos[d]
        <5>1. S[x].n \in han[c] + 1..pos[c]
          BY <1>2 DEF c, DataOf
        <5> QED  BY <1>3, <4>1, <5>1, <3>2
      <4> QED  BY <1>1, <3>2, <4>2, <4>3, <4>4, <4>5 DEF DataOf
    <3> QED  BY <3>1, <3>2
  <2> QED  BY <2>1 DEF Numbered
<1> QED  BY <1>3, <1>4, <1>5, <1>6, <1>9 DEF Orderly, c

\* lwIP accepts a connection whose client has no event left.
LEMMA Accepting ==
    ASSUME NEW S, NEW con, NEW acc, NEW han, NEW pos, NEW c \in Clients,
           Orderly(S, con, acc, han, pos, {}), ~Clears(S, c),
           con \in [Clients -> {"none", "open", "failed", "ended", "closed", "gone"}],
           han \in [Clients -> Int], pos \in [Clients -> Int], acc \subseteq Clients,
           \A r \in DOMAIN S : S[r].client \in Clients,
           con[c] \in {"none", "gone"}
    PROVE  Orderly(S, [con EXCEPT ![c] = "open"], acc, [han EXCEPT ![c] = 0], pos, {c})
<1> DEFINE con2 == [con EXCEPT ![c] = "open"]
           han2 == [han EXCEPT ![c] = 0]
<1>1. /\ \A d \in Clients : con2[d] = IF d = c THEN "open" ELSE con[d]
      /\ \A d \in Clients : han2[d] = IF d = c THEN 0 ELSE han[d]
  OBVIOUS
<1> HIDE DEF con2, han2
<1>2. \A r \in DOMAIN S : S[r].client # c
  BY DEF Orderly, Attended
<1>3. Attended(S, con2)
  BY <1>1, <1>2 DEF Orderly, Attended
<1>4. Announced(S, con2, acc, {c})
  <2>1. Announced(S, con, acc, {})
    BY DEF Orderly
  <2> QED  BY <1>1, <1>2, <2>1 DEF Announced
<1>5. EndsLast(S, con2)
  BY <1>1, <1>2 DEF Orderly, EndsLast
<1>6. Numbered(S, con2, han2, pos)
  <2>1. pos[c] = 0
    BY DEF Orderly, Numbered
  <2>2. DataOf(S, c, 0, 0)
    BY <1>2 DEF DataOf
  <2> QED  BY <1>1, <2>1, <2>2 DEF Orderly, Numbered
<1> QED  BY <1>3, <1>4, <1>5, <1>6 DEF Orderly, con2, han2

\* We close a connection that lwIP has not ended.
LEMMA Closes ==
    ASSUME NEW S, NEW con, NEW acc, NEW han, NEW pos, NEW fr, NEW c \in Clients,
           Orderly(S, con, acc, han, pos, fr),
           con \in [Clients -> {"none", "open", "failed", "ended", "closed", "gone"}],
           \A r \in DOMAIN S : S[r].client \in Clients, fr \subseteq Clients, acc \subseteq Clients,
           con[c] \in {"open", "failed"}
    PROVE  Orderly(S, [con EXCEPT ![c] = "closed"], acc, han, pos, fr)
<1> DEFINE con2 == [con EXCEPT ![c] = "closed"]
<1>1. \A d \in Clients : con2[d] = IF d = c THEN "closed" ELSE con[d]
  OBVIOUS
<1> HIDE DEF con2
<1>2. \A d \in Clients : con2[d] \in {"none", "gone"} <=> con[d] \in {"none", "gone"}
  BY <1>1
<1>3. Attended(S, con2)
  BY <1>1, <1>2 DEF Orderly, Attended
<1>4. Announced(S, con2, acc, fr)
  BY <1>2 DEF Orderly, Announced
<1>5. EndsLast(S, con2)
  BY <1>1 DEF Orderly, EndsLast
<1>6. Numbered(S, con2, han, pos)
  BY <1>1, <1>2 DEF Orderly, Numbered
<1> QED  BY <1>3, <1>4, <1>5, <1>6 DEF Orderly, con2

\* Where the events under way are.
Laid ==
    /\ Len(queue) \in Nat /\ Len(queue) < Wide /\ Wide \in Nat
    /\ Cut \in Nat /\ 1 <= Cut /\ Cut <= Len(queue) + 1
    /\ DOMAIN Stream = Ranks /\ Ranks \subseteq Int
    /\ \A r \in Int : r \in Ranks <=>
            \/ r = -1 /\ Due
            \/ r = 0 /\ pc = "keep"
            \/ Cut <= r /\ r <= Len(queue)
            \/ r = Wide /\ pc = "requeue"
            \/ Wide < r /\ r < Wide + Cut
            \/ r = 3 * Wide /\ Back
    /\ Due => Stream[-1] = cur
    /\ pc = "keep" => Stream[0] = hand
    /\ \A i \in Int : Cut <= i /\ i <= Len(queue) => Stream[i] = queue[i]
    /\ pc = "requeue" => Stream[Wide] = hand
    /\ \A i \in Int : 1 <= i /\ i < Cut => Stream[Wide + i] = queue[i]
    /\ Back => Stream[3 * Wide] = lwip.event
    /\ \A i \in Int : 1 <= i /\ i <= Len(queue) => queue[i] \in Events
    /\ \A r \in Ranks : Stream[r] \in Events

\* The mark is where it is.
LEMMA MarkIs ==
    ASSUME NEW m \in 1..Len(queue), \A i \in 1..Len(queue) : queue[i].first <=> i = m
    PROVE  Mark = m
BY DEF Mark

\* The events under way lie where Ranks says.
LEMMA LaidOut == IInv /\ MarkFits => Laid
<1> SUFFICES ASSUME IInv, MarkFits PROVE Laid
  OBVIOUS
<1> USE QueueAssumption DEF Wide
<1>1. queue \in Seq(Events) /\ Len(queue) \in Nat /\ Len(queue) <= QueueSize
  BY DEF IInv, TypeOK
<1>2. Cut \in Nat /\ 1 <= Cut /\ Cut <= Len(queue) + 1
  <2>1. CASE Turning
    <3>1. PICK m \in 1..Len(queue) : \A i \in 1..Len(queue) : queue[i].first <=> i = m
      BY <2>1 DEF MarkFits
    <3>2. Cut = m
      BY <2>1, <3>1, MarkIs DEF Cut
    <3> QED  BY <1>1, <3>2
  <2>2. CASE ~Turning
    BY <1>1, <2>2 DEF Cut
  <2> QED  BY <2>1, <2>2
<1>3. DOMAIN Stream = Ranks /\ Ranks \subseteq Int
  BY DEF Stream, Ranks
<1>4. ASSUME NEW r \in Int
      PROVE  r \in Ranks <=>
            \/ r = -1 /\ Due
            \/ r = 0 /\ pc = "keep"
            \/ Cut <= r /\ r <= Len(queue)
            \/ r = Wide /\ pc = "requeue"
            \/ Wide < r /\ r < Wide + Cut
            \/ r = 3 * Wide /\ Back
  BY <1>1, <1>2 DEF Ranks
<1>5. \A r \in Ranks : Stream[r] = EventAt(r)
  BY DEF Stream
<1>6. \A i \in Int : 1 <= i /\ i <= Len(queue) => queue[i] \in Events
  BY <1>1
<1>7. /\ Due => Stream[-1] = cur
      /\ pc = "keep" => Stream[0] = hand
      /\ \A i \in Int : Cut <= i /\ i <= Len(queue) => Stream[i] = queue[i]
      /\ pc = "requeue" => Stream[Wide] = hand
      /\ \A i \in Int : 1 <= i /\ i < Cut => Stream[Wide + i] = queue[i]
      /\ Back => Stream[3 * Wide] = lwip.event
  BY <1>1, <1>2, <1>4, <1>5 DEF EventAt
<1>8. /\ Due => cur \in Events
      /\ pc \in {"keep", "requeue"} => hand \in Events
      /\ Back => lwip.event \in Events
  BY DEF IInv, TypeOK, HasEvent, Due, Removing, Back
<1>9. ASSUME NEW r \in Ranks PROVE Stream[r] \in Events
  <2>1. Wide < r /\ r < Wide + Cut => Stream[r] = queue[r - Wide] /\ queue[r - Wide] \in Events
    BY <1>1, <1>2, <1>3, <1>5, <1>6 DEF EventAt
  <2> QED  BY <1>1, <1>2, <1>3, <1>4, <1>6, <1>7, <1>8, <2>1
<1> QED  BY <1>1, <1>2, <1>3, <1>4, <1>6, <1>7, <1>9 DEF Laid

\* So they do after a step.
LEMMA LaidNext == (IInv /\ MarkFits => Laid)'
BY LaidOut, PTL

\* The one place in each lemma below that goes, and how the others move up.
Stays == [r \in Int |-> r]
MovesUp == [r \in Int |-> IF r \in {-1, 3 * Wide} THEN r ELSE r + 1]
TakesFirst == [r \in Int |-> IF r = -1 THEN 1 ELSE IF r = 3 * Wide THEN r ELSE r + 1]

\* What the service task has dealt with is no longer under way.
LEMMA CurGoes ==
    ASSUME Laid, Laid', Due, ~Due', Cut = 1, Cut' = 1, UNCHANGED lwip,
           pc \notin {"keep", "requeue"}, pc' \notin {"keep", "requeue"},
           Len(queue') = Len(queue),
           \A i \in 1..Len(queue) : Same(queue'[i], queue[i])
    PROVE  Thinned(Stream', Stream, {-1}, Stays)
<1> USE DEF Wide
<1>1. \A r \in Int : r \in Ranks' <=> r \in Ranks /\ r # -1
  BY DEF Laid, Back
<1>2. \A r \in Ranks' : Same(Stream'[r], Stream[r])
  BY DEF Laid, Back, Same
<1>3. /\ DOMAIN Stream' = Ranks' /\ Ranks' \subseteq Int
      /\ DOMAIN Stream = Ranks /\ Ranks \subseteq Int
  BY DEF Laid
<1> QED  BY <1>1, <1>2, <1>3 DEF Thinned, Stays

\* The event at the front is taken off and becomes the one that is handled.
LEMMA FirstTaken ==
    ASSUME Laid, Laid', ~Due, Due', Cut = 1, Cut' = 1, UNCHANGED lwip,
           pc \notin {"keep", "requeue"}, pc' \notin {"keep", "requeue"},
           queue \in Seq(Events), queue # <<>>, queue' = Tail(queue), cur' = Head(queue)
    PROVE  Thinned(Stream', Stream, {}, TakesFirst)
<1>1. /\ Len(queue') = Len(queue) - 1 /\ cur' = queue[1]
      /\ \A i \in 1..Len(queue) - 1 : queue'[i] = queue[i + 1]
  BY HeadTailProperties
<1>2. /\ \A r \in Int : r \in Ranks <=> (1 <= r /\ r <= Len(queue)) \/ (r = 3 * Wide /\ Back)
      /\ \A r \in Int : r \in Ranks' <=> \/ r = -1 \/ (1 <= r /\ r < Len(queue))
                                         \/ (r = 3 * Wide /\ Back)
      /\ Len(queue) \in Nat /\ 1 <= Len(queue) /\ Len(queue) < Wide /\ Wide \in Nat
  BY <1>1 DEF Laid, Back, Wide
<1>3. /\ Stream'[-1] = queue[1]
      /\ Back => Stream'[3 * Wide] = Stream[3 * Wide]
      /\ \A i \in Int : 1 <= i /\ i <= Len(queue) => Stream[i] = queue[i]
      /\ \A i \in Int : 1 <= i /\ i < Len(queue) => Stream'[i] = queue[i + 1]
  BY <1>1 DEF Laid, Back, Wide
<1>4. /\ \A r \in Int : TakesFirst[r] \in Int
      /\ TakesFirst[-1] = 1
      /\ \A r \in Int : r = 3 * Wide /\ r # -1 => TakesFirst[r] = r
      /\ \A r \in Int : r # -1 /\ r # 3 * Wide => TakesFirst[r] = r + 1
  BY DEF TakesFirst, Wide
<1>5. /\ DOMAIN Stream' = Ranks' /\ Ranks' \subseteq Int
      /\ DOMAIN Stream = Ranks /\ Ranks \subseteq Int
  BY DEF Laid
<1>6. ASSUME NEW r \in Int, r \in Ranks'
      PROVE  TakesFirst[r] \in Ranks /\ Stream'[r] = Stream[TakesFirst[r]]
  <2>1. CASE r = -1
    <3>1. TakesFirst[r] = 1
      BY <1>4, <2>1
    <3>2. 1 \in Ranks /\ Stream'[r] = Stream[1]
      BY <1>2, <1>3, <2>1
    <3> QED  BY <3>1, <3>2
  <2>2. CASE r = 3 * Wide /\ r # -1
    <3>1. TakesFirst[r] = r
      BY <1>4, <2>2
    <3>2. r \in Ranks /\ Stream'[r] = Stream[r]
      BY <1>2, <1>3, <1>6, <2>2
    <3> QED  BY <3>1, <3>2
  <2>3. CASE r # -1 /\ r # 3 * Wide
    <3>1. TakesFirst[r] = r + 1
      BY <1>4, <2>3
    <3>2. r + 1 \in Ranks /\ Stream'[r] = Stream[r + 1]
      BY <1>2, <1>3, <1>6, <2>3
    <3> QED  BY <3>1, <3>2
  <2> QED  BY <2>1, <2>2, <2>3
<1>8. ASSUME NEW r \in Int, r \in Ranks PROVE \E q \in Ranks' : TakesFirst[q] = r
  <2>1. CASE r = 1
    <3>1. -1 \in Int /\ -1 \in Ranks' /\ TakesFirst[-1] = 1
      BY <1>2, <1>4
    <3> QED  BY <2>1, <3>1
  <2>2. CASE r = 3 * Wide /\ r # 1
    <3>1. r # -1 /\ r \in Ranks'
      BY <1>2, <1>8, <2>2
    <3> QED  BY <1>4, <2>2, <3>1
  <2>3. CASE r # 1 /\ r # 3 * Wide
    <3>1. r - 1 \in Int /\ r - 1 \in Ranks' /\ r - 1 # -1 /\ r - 1 # 3 * Wide
      BY <1>2, <1>8, <2>3
    <3>2. TakesFirst[r - 1] = (r - 1) + 1
      BY <1>4, <3>1
    <3> QED  BY <3>1, <3>2
  <2> QED  BY <2>1, <2>2, <2>3
<1>9. ASSUME NEW r \in Int, NEW q \in Int, r \in Ranks', q \in Ranks'
      PROVE  r < q <=> TakesFirst[r] < TakesFirst[q]
  <2>1. /\ r = -1 \/ r = 3 * Wide \/ (1 <= r /\ r + 1 < 3 * Wide)
        /\ q = -1 \/ q = 3 * Wide \/ (1 <= q /\ q + 1 < 3 * Wide)
    BY <1>2, <1>9
  <2>2. Wide \in Nat /\ 1 < 3 * Wide
    BY <1>2
  <2> QED  BY <1>4, <2>1, <2>2, SMTT(30)
<1> QED  BY <1>5, <1>6, <1>8, <1>9 DEF Thinned, Same

\* The event at the front is taken off, and freed or kept in hand: what is not
\* yet looked at moves up.
LEMMA FrontTaken ==
    ASSUME Laid, Laid', Due, Due', UNCHANGED <<lwip, cur>>, NEW X,
           queue \in Seq(Events), queue # <<>>, queue' = Tail(queue),
           Cut = 1, Cut' = 1, pc \notin {"keep", "requeue"}, pc' # "requeue",
           IF pc' = "keep" THEN X = {} /\ Same(hand', queue[1]) ELSE X = {1}
    PROVE  Thinned(Stream', Stream, X, MovesUp)
<1>1. /\ Len(queue') = Len(queue) - 1
      /\ \A i \in 1..Len(queue) - 1 : queue'[i] = queue[i + 1]
  BY HeadTailProperties
<1>2. /\ \A r \in Int : r \in Ranks <=> r = -1 \/ (1 <= r /\ r <= Len(queue)) \/ (r = 3 * Wide /\ Back)
      /\ \A r \in Int : r \in Ranks' <=> \/ r = -1 \/ (r = 0 /\ pc' = "keep") \/ (1 <= r /\ r < Len(queue))
                                         \/ (r = 3 * Wide /\ Back)
      /\ Len(queue) \in Nat /\ Len(queue) < Wide /\ Wide \in Nat
  BY <1>1, SMTT(30) DEF Laid, Back, Wide
<1>3. /\ Stream[-1] = cur /\ Stream'[-1] = cur
      /\ Back => Stream'[3 * Wide] = Stream[3 * Wide]
      /\ \A i \in Int : 1 <= i /\ i <= Len(queue) => Stream[i] = queue[i]
      /\ \A i \in Int : 1 <= i /\ i < Len(queue) => Stream'[i] = queue[i + 1]
      /\ pc' = "keep" => Stream'[0] = hand'
  BY <1>1 DEF Laid, Back, Wide
<1>4. /\ \A r \in Int : MovesUp[r] \in Int
      /\ \A r \in Int : r = -1 \/ r = 3 * Wide => MovesUp[r] = r
      /\ \A r \in Int : r # -1 /\ r # 3 * Wide => MovesUp[r] = r + 1
  BY DEF MovesUp, Wide
<1>5. /\ DOMAIN Stream' = Ranks' /\ Ranks' \subseteq Int
      /\ DOMAIN Stream = Ranks /\ Ranks \subseteq Int
  BY DEF Laid
<1>6. ASSUME NEW r \in Int, r \in Ranks' PROVE MovesUp[r] \in Ranks \ X
  <2>1. CASE r = -1 \/ r = 3 * Wide
    BY <1>2, <1>4, <1>6, <2>1
  <2>2. CASE r # -1 /\ r # 3 * Wide
    <3>1. r + 1 \in Int /\ r + 1 \in Ranks /\ r + 1 \notin X
      BY <1>2, <1>6, <2>2
    <3> QED  BY <1>4, <2>2, <3>1
  <2> QED  BY <2>1, <2>2
<1>7. ASSUME NEW r \in Int, r \in Ranks' PROVE Same(Stream'[r], Stream[MovesUp[r]])
  <2>1. CASE r = -1 \/ r = 3 * Wide
    <3>1. MovesUp[r] = r
      BY <1>4, <2>1
    <3>2. Stream'[r] = Stream[r]
      BY <1>2, <1>3, <1>7, <2>1
    <3> QED  BY <3>1, <3>2 DEF Same
  <2>2. CASE r = 0 /\ pc' = "keep"
    <3>1. MovesUp[r] = r + 1
      BY <1>2, <1>4, <2>2
    <3>2. Same(Stream'[r], Stream[r + 1])
      BY <1>1, <1>2, <1>3, <2>2 DEF Same
    <3> QED  BY <3>1, <3>2
  <2>3. CASE 1 <= r /\ r < Len(queue)
    <3>1. MovesUp[r] = r + 1
      BY <1>2, <1>4, <2>3
    <3>2. Stream'[r] = Stream[r + 1]
      BY <1>2, <1>3, <2>3 DEF Same
    <3> QED  BY <3>1, <3>2 DEF Same
  <2> QED  BY <1>2, <1>7, <2>1, <2>2, <2>3
<1>8. ASSUME NEW r \in Int, r \in Ranks, r \notin X PROVE \E q \in Ranks' : MovesUp[q] = r
  <2>1. CASE r = -1 \/ r = 3 * Wide
    BY <1>2, <1>4, <1>8, <2>1
  <2>2. CASE r # -1 /\ r # 3 * Wide
    <3>1. r - 1 \in Ranks' /\ MovesUp[r - 1] = r
      <4>1. r - 1 \in Int /\ r - 1 \in Ranks' /\ r - 1 # -1 /\ r - 1 # 3 * Wide
        BY <1>2, <1>8, <2>2
      <4>2. MovesUp[r - 1] = (r - 1) + 1
        BY <1>4, <4>1
      <4> QED  BY <4>1, <4>2
    <3> QED  BY <3>1
  <2> QED  BY <2>1, <2>2
<1>9. ASSUME NEW r \in Int, NEW q \in Int, r \in Ranks', q \in Ranks'
      PROVE  r < q <=> MovesUp[r] < MovesUp[q]
  <2>1. /\ r = -1 \/ r = 3 * Wide \/ (0 <= r /\ r + 1 < 3 * Wide)
        /\ q = -1 \/ q = 3 * Wide \/ (0 <= q /\ q + 1 < 3 * Wide)
    BY <1>2, <1>9
  <2>2. Wide \in Nat
    BY <1>2
  <2> QED  BY <1>4, <2>1, <2>2
<1> QED  BY <1>5, <1>6, <1>7, <1>8, <1>9 DEF Thinned

\* The same inside a removal, behind which the events that were put back wait.
LEMMA NextTaken ==
    ASSUME Laid, Laid', Due, Due', UNCHANGED <<lwip, cur>>, NEW X,
           queue \in Seq(Events), queue # <<>>, queue' = Tail(queue),
           Cut # 1, Cut' = Cut - 1, pc = "scanTake", pc' \in {"scan", "requeue"},
           IF pc' = "requeue" THEN X = {} /\ hand' = queue[1] ELSE X = {Wide + 1}
    PROVE  Thinned(Stream', Stream, X, MovesUp)
<1>1. /\ Len(queue') = Len(queue) - 1
      /\ \A i \in 1..Len(queue) - 1 : queue'[i] = queue[i + 1]
  BY HeadTailProperties
<1>2. /\ \A r \in Int : r \in Ranks <=> \/ r = -1 \/ (Cut <= r /\ r <= Len(queue))
                                        \/ (Wide < r /\ r < Wide + Cut) \/ (r = 3 * Wide /\ Back)
      /\ \A r \in Int : r \in Ranks' <=> \/ r = -1 \/ (Cut - 1 <= r /\ r < Len(queue))
                                         \/ (r = Wide /\ pc' = "requeue")
                                         \/ (Wide < r /\ r < Wide + Cut - 1) \/ (r = 3 * Wide /\ Back)
      /\ Len(queue) \in Nat /\ Len(queue) < Wide /\ Wide \in Nat
      /\ Cut \in Nat /\ 2 <= Cut /\ Cut <= Len(queue) + 1
  BY <1>1 DEF Laid, Back, Wide
<1>3. /\ Stream[-1] = cur /\ Stream'[-1] = cur
      /\ Back => Stream'[3 * Wide] = Stream[3 * Wide]
      /\ \A i \in Int : Cut <= i /\ i <= Len(queue) => Stream[i] = queue[i]
      /\ \A i \in Int : 1 <= i /\ i < Cut => Stream[Wide + i] = queue[i]
      /\ \A i \in Int : Cut - 1 <= i /\ i < Len(queue) => Stream'[i] = queue[i + 1]
      /\ \A i \in Int : 1 <= i /\ i < Cut - 1 => Stream'[Wide + i] = queue[i + 1]
      /\ pc' = "requeue" => Stream'[Wide] = hand'
  <2>1. \A i \in Int : Cut - 1 <= i /\ i < Len(queue) => Stream'[i] = queue[i + 1]
    BY <1>1, <1>2 DEF Laid, Wide
  <2>2. \A i \in Int : 1 <= i /\ i < Cut - 1 => Stream'[Wide + i] = queue[i + 1]
    BY <1>1, <1>2 DEF Laid, Wide
  <2> QED  BY <1>1, <1>2, <2>1, <2>2 DEF Laid, Back, Wide
<1>4. /\ \A r \in Int : MovesUp[r] \in Int
      /\ \A r \in Int : r = -1 \/ r = 3 * Wide => MovesUp[r] = r
      /\ \A r \in Int : r # -1 /\ r # 3 * Wide => MovesUp[r] = r + 1
  BY DEF MovesUp, Wide
<1>5. /\ DOMAIN Stream' = Ranks' /\ Ranks' \subseteq Int
      /\ DOMAIN Stream = Ranks /\ Ranks \subseteq Int
  BY DEF Laid
<1>6. ASSUME NEW r \in Int, r \in Ranks' PROVE MovesUp[r] \in Ranks \ X
  <2>1. CASE r = -1 \/ r = 3 * Wide
    BY <1>2, <1>4, <1>6, <2>1, SMTT(30)
  <2>2. CASE r # -1 /\ r # 3 * Wide
    <3>1. r + 1 \in Int /\ r + 1 \in Ranks /\ r + 1 \notin X
      BY <1>2, <1>6, <2>2
    <3> QED  BY <1>4, <2>2, <3>1
  <2> QED  BY <2>1, <2>2
<1>7. ASSUME NEW r \in Int, r \in Ranks' PROVE Same(Stream'[r], Stream[MovesUp[r]])
  <2>1. CASE r = -1 \/ r = 3 * Wide
    <3>1. MovesUp[r] = r
      BY <1>4, <2>1
    <3>2. Stream'[r] = Stream[r]
      BY <1>2, <1>3, <1>7, <2>1, SMTT(30)
    <3> QED  BY <3>1, <3>2 DEF Same
  <2>2. CASE r = Wide /\ pc' = "requeue"
    <3>1. MovesUp[r] = r + 1
      BY <1>2, <1>4, <2>2
    <3>2. Stream'[r] = Stream[r + 1]
      BY <1>2, <1>3, <2>2 DEF Same
    <3> QED  BY <3>1, <3>2 DEF Same
  <2>3. CASE Cut - 1 <= r /\ r < Len(queue)
    <3>1. MovesUp[r] = r + 1
      BY <1>2, <1>4, <2>3
    <3>2. Stream'[r] = Stream[r + 1]
      BY <1>2, <1>3, <2>3, SMTT(30) DEF Same
    <3> QED  BY <3>1, <3>2 DEF Same
  <2>4. CASE Wide < r /\ r < Wide + Cut - 1
    <3>1. MovesUp[r] = r + 1
      BY <1>2, <1>4, <2>4
    <3>2. PICK i \in Int : r = Wide + i
      <4>1. r - Wide \in Int /\ r = Wide + (r - Wide)
        BY <1>2
      <4> QED  BY <4>1
    <3>3. 1 <= i /\ i < Cut - 1 /\ r + 1 = Wide + (i + 1)
      BY <1>2, <2>4, <3>2
    <3>4. Stream'[r] = queue[i + 1] /\ Stream[r + 1] = queue[i + 1]
      BY <1>2, <1>3, <3>2, <3>3
    <3> QED  BY <3>1, <3>4 DEF Same
  <2> QED  BY <1>2, <1>7, <2>1, <2>2, <2>3, <2>4
<1>8. ASSUME NEW r \in Int, r \in Ranks, r \notin X PROVE \E q \in Ranks' : MovesUp[q] = r
  <2>1. CASE r = -1 \/ r = 3 * Wide
    BY <1>2, <1>4, <1>8, <2>1
  <2>2. CASE r # -1 /\ r # 3 * Wide
    <3>1. r - 1 \in Ranks' /\ MovesUp[r - 1] = r
      <4>1. r - 1 \in Int /\ r - 1 \in Ranks' /\ r - 1 # -1 /\ r - 1 # 3 * Wide
        BY <1>2, <1>8, <2>2
      <4>2. MovesUp[r - 1] = (r - 1) + 1
        BY <1>4, <4>1
      <4> QED  BY <4>1, <4>2
    <3> QED  BY <3>1
  <2> QED  BY <2>1, <2>2
<1>9. ASSUME NEW r \in Int, NEW q \in Int, r \in Ranks', q \in Ranks'
      PROVE  r < q <=> MovesUp[r] < MovesUp[q]
  <2>1. /\ r = -1 \/ r = 3 * Wide \/ (0 <= r /\ r + 1 < 3 * Wide)
        /\ q = -1 \/ q = 3 * Wide \/ (0 <= q /\ q + 1 < 3 * Wide)
    BY <1>2, <1>9
  <2>2. Wide \in Nat
    BY <1>2
  <2> QED  BY <1>4, <2>1, <2>2
<1> QED  BY <1>5, <1>6, <1>7, <1>8, <1>9 DEF Thinned

\* The last event of the queue is at w until it is put there.
FromLast(n, w) == [r \in Int |-> IF r = n + 1 THEN w ELSE r]

\* lwIP's event, or the one in hand inside a removal, is put at the back.
LEMMA PutAtBack ==
    ASSUME Laid, Laid', Due <=> Due', UNCHANGED cur, Cut' = Cut, NEW w \in Int, NEW e \in Events,
           queue \in Seq(Events), queue' = Append(queue, e),
           pc # "keep", pc' # "keep", pc' # "requeue",
           \/ pc # "requeue" /\ Cut = 1 /\ w = 3 * Wide /\ Back /\ e = lwip.event /\ ~Back'
           \/ pc = "requeue" /\ w = Wide /\ e = hand /\ UNCHANGED lwip
    PROVE  Thinned(Stream', Stream, {}, FromLast(Len(queue), w))
<1> DEFINE N == Len(queue)
           G == FromLast(N, w)
<1>1. /\ Len(queue') = N + 1 /\ queue'[N + 1] = e
      /\ \A i \in 1..N : queue'[i] = queue[i]
  BY AppendProperties
<1>2. UNCHANGED lwip => (Back' <=> Back)
  BY DEF Back
<1>3. /\ \A r \in Int : r \in Ranks <=> \/ (r = -1 /\ Due) \/ (Cut <= r /\ r <= N)
                                        \/ (Wide < r /\ r < Wide + Cut)
                                        \/ (r = 3 * Wide /\ (Back' \/ w = 3 * Wide))
                                        \/ (r = Wide /\ w = Wide)
      /\ \A r \in Int : r \in Ranks' <=> \/ (r = -1 /\ Due) \/ (Cut <= r /\ r <= N + 1)
                                         \/ (Wide < r /\ r < Wide + Cut) \/ (r = 3 * Wide /\ Back')
      /\ N \in Nat /\ N + 1 < Wide /\ Wide \in Nat /\ Cut \in Nat /\ Cut <= N + 1 /\ 1 <= Cut
      /\ \/ w = Wide
         \/ w = 3 * Wide /\ Cut = 1 /\ ~Back'
  BY <1>1, <1>2 DEF Laid, Wide
<1>4. /\ Due => Stream[-1] = cur /\ Stream'[-1] = cur
      /\ Back' => Stream'[3 * Wide] = Stream[3 * Wide]
      /\ Stream[w] = e /\ Stream'[N + 1] = e
      /\ \A i \in Int : Cut <= i /\ i <= N => Stream'[i] = Stream[i]
      /\ \A i \in Int : 1 <= i /\ i < Cut => Stream'[Wide + i] = Stream[Wide + i]
  <2>1. \A i \in Int : Cut <= i /\ i <= N => Stream'[i] = Stream[i]
    BY <1>1, <1>3 DEF Laid, Wide
  <2>2. \A i \in Int : 1 <= i /\ i < Cut => Stream'[Wide + i] = Stream[Wide + i]
    BY <1>1, <1>3 DEF Laid, Wide
  <2>3. Stream[w] = e /\ Stream'[N + 1] = e
    BY <1>1, <1>3 DEF Laid, Wide
  <2>4. Back' => Stream'[3 * Wide] = Stream[3 * Wide]
    BY <1>2 DEF Laid, Wide
  <2> QED  BY <2>1, <2>2, <2>3, <2>4 DEF Laid
<1>5. /\ DOMAIN Stream' = Ranks' /\ Ranks' \subseteq Int
      /\ DOMAIN Stream = Ranks /\ Ranks \subseteq Int
  BY DEF Laid
<1>6. /\ \A r \in Int : G[r] \in Int
      /\ G[N + 1] = w
      /\ \A r \in Int : r # N + 1 => G[r] = r
  BY <1>3 DEF FromLast
<1> HIDE DEF N, G
<1>7. ASSUME NEW r \in Int, r \in Ranks' PROVE G[r] \in Ranks /\ Stream'[r] = Stream[G[r]]
  <2>1. CASE r = N + 1
    <3>1. w \in Ranks
      BY <1>3
    <3> QED  BY <1>4, <1>6, <2>1, <3>1
  <2>2. CASE r # N + 1
    <3>1. G[r] = r
      BY <1>6, <2>2
    <3>2. r \in Ranks
      BY <1>3, <1>7, <2>2
    <3>3. Stream'[r] = Stream[r]
      <4>1. CASE Wide < r /\ r < Wide + Cut
        <5>1. PICK i \in Int : r = Wide + i
          <6>1. r - Wide \in Int /\ r = Wide + (r - Wide)
            BY <1>3
          <6> QED  BY <6>1
        <5>2. 1 <= i /\ i < Cut
          BY <1>3, <4>1, <5>1
        <5> QED  BY <1>4, <5>1, <5>2
      <4>2. CASE ~(Wide < r /\ r < Wide + Cut)
        BY <1>3, <1>4, <1>7, <2>2, <4>2
      <4> QED  BY <4>1, <4>2
    <3> QED  BY <3>1, <3>2, <3>3
  <2> QED  BY <2>1, <2>2
<1>8. ASSUME NEW r \in Int, r \in Ranks PROVE \E q \in Ranks' : G[q] = r
  <2>1. CASE r = w
    <3>1. N + 1 \in Ranks'
      BY <1>3
    <3> QED  BY <1>6, <2>1, <3>1
  <2>2. CASE r # w
    <3>1. r \in Ranks' /\ r # N + 1
      BY <1>3, <1>8, <2>2
    <3> QED  BY <1>6, <3>1
  <2> QED  BY <2>1, <2>2
<1>9. ASSUME NEW r \in Int, NEW q \in Int, r \in Ranks', q \in Ranks'
      PROVE  r < q <=> G[r] < G[q]
  <2>1. N + 1 < w
    BY <1>3
  <2>3. /\ r <= N + 1 \/ w < r
        /\ q <= N + 1 \/ w < q
    BY <1>3, <1>9
  <2>2. N \in Nat
    BY <1>3
  <2> QED  BY <1>6, <2>1, <2>2, <2>3
<1>10. \A r \in DOMAIN Stream' : G[r] \in DOMAIN Stream \ {} /\ Same(Stream'[r], Stream[G[r]])
  BY <1>5, <1>7 DEF Same
<1> QED  BY <1>5, <1>8, <1>9, <1>10 DEF Thinned, G, N

\* The first event that stays was before the queue until it is put at the back.
FromFront(n) == [r \in Int |-> IF r = n + 1 THEN 0 ELSE IF r \in {-1, 3 * Wide} THEN r ELSE r - Wide]

\* The first event that stays is put at the back, as the mark.
LEMMA MarkPut ==
    ASSUME Laid, Laid', Due, Due', UNCHANGED <<cur, lwip>>,
           queue \in Seq(Events), queue' = Append(queue, hand), hand \in Events,
           pc = "keep", pc' = "scan", Cut = 1, Cut' = Len(queue) + 1
    PROVE  Thinned(Stream', Stream, {}, FromFront(Len(queue)))
<1> DEFINE N == Len(queue)
           G == FromFront(N)
<1>1. /\ Len(queue') = N + 1 /\ queue'[N + 1] = hand
      /\ \A i \in 1..N : queue'[i] = queue[i]
  BY AppendProperties
<1>3. /\ \A r \in Int : r \in Ranks <=> \/ r = -1 \/ (0 <= r /\ r <= N) \/ (r = 3 * Wide /\ Back)
      /\ \A r \in Int : r \in Ranks' <=> \/ r = -1 \/ r = N + 1
                                         \/ (Wide < r /\ r <= Wide + N) \/ (r = 3 * Wide /\ Back)
      /\ N \in Nat /\ N + 1 < Wide /\ Wide \in Nat
  BY <1>1 DEF Laid, Wide, Back
<1>4. /\ Stream[-1] = cur /\ Stream'[-1] = cur
      /\ Back => Stream'[3 * Wide] = Stream[3 * Wide]
      /\ Stream[0] = hand /\ Stream'[N + 1] = hand
      /\ \A i \in Int : 1 <= i /\ i <= N => Stream'[Wide + i] = Stream[i]
  <2>2. \A i \in Int : 1 <= i /\ i <= N => Stream'[Wide + i] = Stream[i]
    BY <1>1, <1>3 DEF Laid, Wide
  <2>3. Stream[0] = hand /\ Stream'[N + 1] = hand
    BY <1>1, <1>3 DEF Laid, Wide
  <2>4. Back => Stream'[3 * Wide] = Stream[3 * Wide]
    BY DEF Laid, Wide, Back
  <2> QED  BY <2>2, <2>3, <2>4 DEF Laid
<1>5. /\ DOMAIN Stream' = Ranks' /\ Ranks' \subseteq Int
      /\ DOMAIN Stream = Ranks /\ Ranks \subseteq Int
  BY DEF Laid
<1>6. /\ \A r \in Int : G[r] \in Int
      /\ G[N + 1] = 0
      /\ \A r \in Int : r # N + 1 /\ (r = -1 \/ r = 3 * Wide) => G[r] = r
      /\ \A r \in Int : r # N + 1 /\ r # -1 /\ r # 3 * Wide => G[r] = r - Wide
  BY <1>3 DEF FromFront
<1> HIDE DEF N, G
<1>7. ASSUME NEW r \in Int, r \in Ranks' PROVE G[r] \in Ranks /\ Stream'[r] = Stream[G[r]]
  <2>1. CASE r = N + 1
    <3>1. 0 \in Ranks
      BY <1>3
    <3> QED  BY <1>4, <1>6, <2>1, <3>1
  <2>2. CASE r # N + 1 /\ (r = -1 \/ r = 3 * Wide)
    <3>1. G[r] = r
      BY <1>6, <2>2
    <3>2. r \in Ranks
      BY <1>3, <1>7, <2>2
    <3>3. Stream'[r] = Stream[r]
      BY <1>3, <1>4, <1>7, <2>2
    <3> QED  BY <3>1, <3>2, <3>3
  <2>3. CASE r # N + 1 /\ r # -1 /\ r # 3 * Wide
    <3>1. PICK i \in Int : r = Wide + i
      <4>1. r - Wide \in Int /\ r = Wide + (r - Wide)
        BY <1>3
      <4> QED  BY <4>1
    <3>2. 1 <= i /\ i <= N
      BY <1>3, <1>7, <2>3, <3>1
    <3>3. G[r] = i
      <4>1. G[r] = r - Wide
        BY <1>6, <2>3
      <4> QED  BY <1>3, <3>1, <4>1
    <3>4. i \in Ranks /\ Stream'[r] = Stream[i]
      BY <1>3, <1>4, <3>1, <3>2
    <3> QED  BY <3>3, <3>4
  <2> QED  BY <2>1, <2>2, <2>3
<1>8. ASSUME NEW r \in Int, r \in Ranks PROVE \E q \in Ranks' : G[q] = r
  <2>1. CASE r = 0
    <3>1. N + 1 \in Ranks'
      BY <1>3
    <3> QED  BY <1>6, <2>1, <3>1
  <2>2. CASE r = -1 \/ r = 3 * Wide
    <3>1. r \in Ranks' /\ r # N + 1
      BY <1>3, <1>8, <2>2
    <3> QED  BY <1>6, <2>2, <3>1
  <2>3. CASE 1 <= r /\ r <= N
    <3>1. r + Wide \in Int /\ r + Wide \in Ranks' /\ r + Wide # N + 1 /\ r + Wide # -1 /\ r + Wide # 3 * Wide
      BY <1>3, <2>3
    <3>2. G[r + Wide] = (r + Wide) - Wide
      BY <1>6, <3>1
    <3>3. (r + Wide) - Wide = r
      BY <1>3
    <3> QED  BY <3>1, <3>2, <3>3
  <2> QED  BY <1>3, <1>8, <2>1, <2>2, <2>3
<1>9. ASSUME NEW r \in Int, NEW q \in Int, r \in Ranks', q \in Ranks'
      PROVE  r < q <=> G[r] < G[q]
  <2>1. N \in Nat /\ N + 1 < Wide /\ Wide \in Nat
    BY <1>3
  <2>2. ASSUME NEW p \in Int, p \in Ranks'
        PROVE  \/ p = N + 1 /\ G[p] = 0
               \/ p = -1 /\ G[p] = -1
               \/ p = 3 * Wide /\ G[p] = 3 * Wide
               \/ Wide < p /\ p <= Wide + N /\ G[p] = p - Wide
    <3>1. p = -1 \/ p = N + 1 \/ p = 3 * Wide \/ (Wide < p /\ p <= Wide + N)
      BY <1>3, <2>2
    <3> QED  BY <1>6, <2>1, <3>1
  <2>3. /\ \/ r = N + 1 /\ G[r] = 0
           \/ r = -1 /\ G[r] = -1
           \/ r = 3 * Wide /\ G[r] = 3 * Wide
           \/ Wide < r /\ r <= Wide + N /\ G[r] = r - Wide
        /\ \/ q = N + 1 /\ G[q] = 0
           \/ q = -1 /\ G[q] = -1
           \/ q = 3 * Wide /\ G[q] = 3 * Wide
           \/ Wide < q /\ q <= Wide + N /\ G[q] = q - Wide
    BY <1>9, <2>2
  <2> QED  BY <2>1, <2>3
<1>10. \A r \in DOMAIN Stream' : G[r] \in DOMAIN Stream \ {} /\ Same(Stream'[r], Stream[G[r]])
  BY <1>5, <1>7 DEF Same
<1> QED  BY <1>5, <1>8, <1>9, <1>10 DEF Thinned, G, N

\* The stream but for one event.
Without(z) == [r \in Ranks \ {z} |-> Stream[r]]
MovesDown == [r \in Int |-> IF r \in {-1, 3 * Wide} THEN r ELSE r - 1]

\* An event is put at the front.
LEMMA PutAtFront ==
    ASSUME Laid, Laid', Due <=> Due', Due => UNCHANGED cur, NEW e \in Events,
           queue \in Seq(Events), queue' = <<e>> \o queue,
           Cut = 1, Cut' = 1, pc \notin {"keep", "requeue"}, pc' \notin {"keep", "requeue"},
           Back <=> Back', Back => UNCHANGED lwip
    PROVE  /\ Thinned(Without(1)', Stream, {}, MovesDown)
           /\ Added(Stream', Without(1)', 1) /\ Stream'[1] = e
<1> DEFINE N == Len(queue)
           G == MovesDown
           S0 == Without(1)'
<1>1. /\ Len(queue') = N + 1 /\ queue'[1] = e
      /\ \A i \in 1..N : queue'[i + 1] = queue[i]
  OBVIOUS
<1>3. /\ \A r \in Int : r \in Ranks <=> \/ (r = -1 /\ Due) \/ (1 <= r /\ r <= N) \/ (r = 3 * Wide /\ Back)
      /\ \A r \in Int : r \in Ranks' <=> \/ (r = -1 /\ Due) \/ (1 <= r /\ r <= N + 1) \/ (r = 3 * Wide /\ Back)
      /\ N \in Nat /\ N + 1 < Wide /\ Wide \in Nat
  BY <1>1 DEF Laid, Wide
<1>4. /\ Due => Stream[-1] = cur /\ Stream'[-1] = cur
      /\ Back => Stream'[3 * Wide] = Stream[3 * Wide]
      /\ Stream'[1] = e
      /\ \A i \in Int : 2 <= i /\ i <= N + 1 => Stream'[i] = Stream[i - 1]
  <2>1. \A i \in Int : 2 <= i /\ i <= N + 1 => Stream'[i] = Stream[i - 1]
    <3>1. ASSUME NEW i \in Int, 2 <= i, i <= N + 1 PROVE Stream'[i] = Stream[i - 1]
      <4>1. i - 1 \in 1..N /\ queue'[(i - 1) + 1] = queue[i - 1] /\ (i - 1) + 1 = i
        BY <1>1, <1>3, <3>1
      <4>2. Stream'[i] = queue'[i]
        BY <1>1, <1>3, <3>1 DEF Laid
      <4>3. Stream[i - 1] = queue[i - 1]
        BY <1>3, <4>1 DEF Laid
      <4> QED  BY <4>1, <4>2, <4>3
    <3> QED  BY <3>1
  <2>2. Back => Stream'[3 * Wide] = Stream[3 * Wide]
    BY DEF Laid, Wide
  <2>3. Stream'[1] = e
    BY <1>1, <1>3 DEF Laid
  <2> QED  BY <2>1, <2>2, <2>3 DEF Laid
<1>5. /\ DOMAIN Stream' = Ranks' /\ Ranks' \subseteq Int
      /\ DOMAIN Stream = Ranks /\ Ranks \subseteq Int
      /\ DOMAIN S0 = Ranks' \ {1}
      /\ \A r \in Ranks' \ {1} : S0[r] = Stream'[r]
  BY DEF Laid, Without
<1>6. /\ \A r \in Int : G[r] \in Int
      /\ \A r \in Int : r = -1 \/ r = 3 * Wide => G[r] = r
      /\ \A r \in Int : r # -1 /\ r # 3 * Wide => G[r] = r - 1
  BY <1>3 DEF MovesDown
<1> HIDE DEF N, G, S0
<1>7. ASSUME NEW r \in Int, r \in Ranks', r # 1 PROVE G[r] \in Ranks /\ Stream'[r] = Stream[G[r]]
  <2>1. CASE r = -1 \/ r = 3 * Wide
    <3>1. G[r] = r
      BY <1>6, <2>1
    <3>2. r \in Ranks
      BY <1>3, <1>7, <2>1
    <3>3. Stream'[r] = Stream[r]
      BY <1>3, <1>4, <1>7, <2>1
    <3> QED  BY <3>1, <3>2, <3>3
  <2>2. CASE r # -1 /\ r # 3 * Wide
    <3>1. G[r] = r - 1
      BY <1>6, <2>2
    <3>2. 2 <= r /\ r <= N + 1 /\ N \in Nat
      BY <1>3, <1>7, <2>2
    <3>3. r - 1 \in Ranks
      BY <1>3, <3>2
    <3>4. Stream'[r] = Stream[r - 1]
      BY <1>4, <3>2
    <3> QED  BY <3>1, <3>3, <3>4
  <2> QED  BY <2>1, <2>2
<1>8. ASSUME NEW r \in Int, r \in Ranks PROVE \E q \in Ranks' \ {1} : G[q] = r
  <2>1. CASE r = -1 \/ r = 3 * Wide
    <3>1. r \in Ranks' /\ r # 1
      BY <1>3, <1>8, <2>1
    <3> QED  BY <1>6, <2>1, <3>1
  <2>2. CASE r # -1 /\ r # 3 * Wide
    <3>1. r + 1 \in Int /\ r + 1 \in Ranks' /\ r + 1 # 1 /\ r + 1 # -1 /\ r + 1 # 3 * Wide
      BY <1>3, <1>8, <2>2
    <3>2. G[r + 1] = (r + 1) - 1
      BY <1>6, <3>1
    <3> QED  BY <3>1, <3>2
  <2> QED  BY <2>1, <2>2
<1>9. ASSUME NEW r \in Int, NEW q \in Int, r \in Ranks', q \in Ranks', r # 1, q # 1
      PROVE  r < q <=> G[r] < G[q]
  <2>1. /\ r = -1 \/ r = 3 * Wide \/ (2 <= r /\ r <= N + 1)
        /\ q = -1 \/ q = 3 * Wide \/ (2 <= q /\ q <= N + 1)
    BY <1>3, <1>9
  <2>2. N \in Nat /\ N + 1 < Wide /\ Wide \in Nat
    BY <1>3
  <2> QED  BY <1>6, <2>1, <2>2
<1>10. \A r \in DOMAIN S0 : G[r] \in DOMAIN Stream \ {} /\ Same(S0[r], Stream[G[r]])
  BY <1>5, <1>7 DEF Same
<1>11. Thinned(S0, Stream, {}, G)
  BY <1>5, <1>8, <1>9, <1>10 DEF Thinned
<1>12. 1 \in Ranks'
  BY <1>3
<1>13. Added(Stream', S0, 1)
  BY <1>5, <1>12 DEF Added
<1> QED  BY <1>4, <1>11, <1>13 DEF S0, G

\* What every step below starts from.
LEMMA Known ==
    ASSUME IInv, OrderInv
    PROVE  /\ Laid /\ DOMAIN Stream = Ranks /\ Ranks \subseteq Int
           /\ \A r \in DOMAIN Stream : Stream[r].client \in Clients /\ Stream[r].n \in Int
           /\ conn \in [Clients -> {"none", "open", "failed", "ended", "closed", "gone"}]
           /\ posted \in [Clients -> Int] /\ handled \in [Clients -> Int]
           /\ accepted \subseteq Clients /\ Announcing \subseteq Clients
           /\ queue \in Seq(Events) /\ Len(queue) \in Nat /\ Len(queue) <= QueueSize
           /\ QueueSize \in Nat /\ raced \in BOOLEAN
<1>1. Laid
  BY LaidOut DEF OrderInv
<1>2. \A e \in Events : e.client \in Clients /\ e.n \in Int
  BY QueueAssumption DEF Events
<1>3. \A r \in DOMAIN Stream : Stream[r].client \in Clients /\ Stream[r].n \in Int
  BY <1>1, <1>2 DEF Laid
<1>4. Announcing \subseteq Clients
  BY <1>2 DEF IInv, TypeOK, Announcing
<1>5. posted \in [Clients -> Int] /\ handled \in [Clients -> Int]
  BY QueueAssumption DEF IInv, TypeOK
<1> QED  BY <1>1, <1>3, <1>4, <1>5, QueueAssumption DEF Laid, IInv, TypeOK

\* Nothing that is under way moves.
LEMMA Unmoved ==
    ASSUME Laid, UNCHANGED <<queue, hand>>, Due <=> Due', Due => UNCHANGED cur,
           Back <=> Back', Back => UNCHANGED lwip, Cut' = Cut,
           pc = "keep" <=> pc' = "keep", pc = "requeue" <=> pc' = "requeue"
    PROVE  Ranks' = Ranks /\ Stream' = Stream
<1>1. Ranks' = Ranks
  BY DEF Ranks
<1>2. ASSUME NEW r \in Ranks PROVE EventAt(r)' = EventAt(r)
  <2>1. /\ Wide \in Nat /\ Len(queue) < Wide /\ Cut \in Nat /\ Len(queue) \in Nat
        /\ r = -1 => Due
        /\ r = 3 * Wide => Back
    BY DEF Laid, Ranks
  <2> QED  BY <2>1 DEF EventAt, Wide
<1> QED  BY <1>1, <1>2 DEF Stream

\* A step of lwIP that leaves the queue alone leaves the mark where it is.
LEMMA MarkLeft ==
    ASSUME OrderInv, UNCHANGED <<queue, hand, pc>>, lwip' # Idle => ~lwip'.event.first
    PROVE  MarkFits' /\ Cut' = Cut
<1>1. MarkFits'
  BY DEF OrderInv, MarkFits, Turning
<1>2. Cut' = Cut
  BY DEF Cut, Mark, Turning
<1> QED  BY <1>1, <1>2

\* An event lwIP is about to post.
LEMMA Posted ==
    ASSUME NEW at, NEW e
    PROVE  Post(at, e) # Idle /\ Post(at, e).at = at /\ Post(at, e).event = e
<1>1. Post(at, e).at = at /\ Post(at, e).event = e
  BY DEF Post
<1>2. DOMAIN Post(at, e) = {"at", "event"} /\ DOMAIN Idle = {"at"}
  BY DEF Post, Idle
<1> QED  BY <1>1, <1>2

\* lwIP accepts a connection.
LEMMA AcceptKeepsOrder ==
    ASSUME IInv, IInv', OrderInv, ~raced', NEW c \in Clients, Accept(c)
    PROVE  OrderInv'
<1> DEFINE e == Event("ACCEPT", c, 0)
<1>1. /\ lwip = Idle /\ conn[c] \in {"none", "gone"} /\ lwip' = Post("front", e)
      /\ conn' = [conn EXCEPT ![c] = "open"] /\ handled' = [handled EXCEPT ![c] = 0]
      /\ UNCHANGED <<queue, pc, cur, hand, posted, accepted, faults>>
      /\ ~raced /\ ~Clearing(c)
  BY DEF Accept
<1>2. lwip' # Idle /\ lwip'.at = "front" /\ lwip'.event = e /\ e.client = c /\ ~e.first
  <2>1. e.client = c /\ ~e.first
    BY DEF Event
  <2>2. Post("front", e) # Idle /\ Post("front", e).at = "front" /\ Post("front", e).event = e
    BY Posted
  <2> QED  BY <1>1, <2>1, <2>2
<1> HIDE DEF e
<1>3. MarkFits' /\ Cut' = Cut
  BY <1>1, <1>2, MarkLeft
<1>4. ~Back /\ ~Back' /\ Announcing = {} /\ Announcing' = {c}
  BY <1>1, <1>2 DEF Back, Announcing
<1>5. Laid /\ DOMAIN Stream = Ranks /\ Ranks \subseteq Int
  BY Known
<1>6. Ranks' = Ranks /\ Stream' = Stream
  BY <1>1, <1>3, <1>4, <1>5, Unmoved DEF Due
<1>7. ~Clears(Stream, c)
  <2> SUFFICES ASSUME NEW r \in Ranks, Stream[r].type = "CLEAR", Stream[r].client = c
               PROVE  FALSE
    BY <1>5 DEF Clears
  <2>1. \A i \in DOMAIN queue : ~(queue[i].type = "CLEAR" /\ queue[i].client = c)
    BY <1>1 DEF Clearing
  <2>2. /\ r \in Int /\ Cut \in Nat /\ 1 <= Cut /\ Cut <= Len(queue) + 1 /\ Len(queue) \in Nat
        /\ Wide \in Nat /\ DOMAIN queue = 1..Len(queue)
    BY <1>5, Known DEF Laid
  <2>3. ~(Cut <= r /\ r <= Len(queue))
    BY <1>5, <2>1, <2>2 DEF Laid
  <2>4. ~(Wide < r /\ r < Wide + Cut)
    <3>1. SUFFICES ASSUME Wide < r, r < Wide + Cut PROVE FALSE
      OBVIOUS
    <3>2. r - Wide \in DOMAIN queue /\ Stream[Wide + (r - Wide)] = queue[r - Wide] /\ Wide + (r - Wide) = r
      BY <1>5, <2>2, <3>1 DEF Laid
    <3> QED  BY <2>1, <3>2
  <2>5. \/ r = -1 /\ Due
        \/ r = 0 /\ pc = "keep"
        \/ r = Wide /\ pc = "requeue"
    BY <1>4, <1>5, <2>2, <2>3, <2>4 DEF Laid
  <2>6. r # -1
    <3>1. SUFFICES ASSUME r = -1 PROVE FALSE
      OBVIOUS
    <3>2. Due
      BY <1>5, <2>2, <3>1 DEF Laid
    <3>3. Stream[-1] = cur /\ cur.type = "CLEAR" /\ cur.client = c
      BY <1>5, <3>1, <3>2 DEF Laid
    <3>4. cur \in Events
      BY <3>2 DEF IInv, HasEvent, Due, Removing
    <3>5. cur # Nothing
      BY <3>3 DEF Nothing
    <3>6. pc \in {"peek", "take", "decide"}
      BY <1>1, <3>2, <3>3, <3>5 DEF Clearing, Due
    <3> QED  BY <3>3, <3>6 DEF OrderInv, CurFits
  <2>7. hand.type = "CLEAR" /\ pc \in Removing
    BY <1>5, <2>5, <2>6 DEF Laid, Removing
  <2>8. -1 \in DOMAIN Stream /\ Stream[-1] = cur /\ cur.type = "CLEAR" /\ r # -1 /\ -1 < r
    BY <1>5, <2>2, <2>5, <2>6, <2>7 DEF Laid, Due, Removing, OrderInv, CurFits
  <2> QED  BY <1>5, <2>8 DEF OrderInv, Orderly, ClearsFirst
<1>8. Orderly(Stream', conn', accepted', handled', posted', Announcing')
  <2>1. Orderly(Stream, [conn EXCEPT ![c] = "open"], accepted, [handled EXCEPT ![c] = 0], posted, {c})
    BY <1>1, <1>4, <1>7, Accepting, Known DEF OrderInv
  <2> QED  BY <1>1, <1>4, <1>6, <2>1
<1>9. \A r \in Ranks : Stream[r].client # c \/ Stream[r].type # "CLEAR"
  BY <1>5, <1>7 DEF Clears
<1>10. \A d \in Clients : d # c => conn'[d] = conn[d]
  BY <1>1, Known
<1>11. CurFits'
  <2>1. pc \in {"recved", "closing", "shut", "post", "close"} => cur.client # c
    BY <1>1 DEF OrderInv, CurFits, Orderly, Announced
  <2> QED  BY <1>1, <1>6, <1>10, <2>1 DEF OrderInv, CurFits, Clears, IInv, TypeOK
<1>12. ClearFits'
  BY <1>1, <1>6, <1>5, <1>9, <1>10, Known DEF OrderInv, ClearFits
<1>13. BackStands' /\ FrontStays' /\ Cleared' /\ faults' = {}
  BY <1>1, <1>3, <1>4, <1>6 DEF OrderInv, BackStands, FrontStays, Cleared, Mark, Turning
<1> QED  BY <1>3, <1>8, <1>11, <1>12, <1>13 DEF OrderInv

\* lwIP has an event to put at the back.
LEMMA PostsLast ==
    ASSUME Laid, Laid', lwip = Idle, NEW e, lwip' = Post("back", e),
           UNCHANGED <<queue, pc, cur, hand>>, Cut' = Cut
    PROVE  /\ Added(Stream', Stream, 3 * Wide) /\ \A r \in DOMAIN Stream : r < 3 * Wide
           /\ Stream'[3 * Wide] = e /\ Ranks' = Ranks \cup {3 * Wide}
           /\ Back' /\ Announcing = {} /\ Announcing' = {}
<1> USE DEF Wide
<1>1. lwip' # Idle /\ lwip'.at = "back" /\ lwip'.event = e
  BY Posted
<1>2. ~Back /\ Back' /\ Announcing = {} /\ Announcing' = {}
  BY <1>1 DEF Back, Announcing
<1>3. /\ \A r \in Int : r \in Ranks' <=> r \in Ranks \/ r = 3 * Wide
      /\ Len(queue) \in Nat /\ Len(queue) < Wide /\ Wide \in Nat
      /\ Cut \in Nat /\ Cut <= Len(queue) + 1
  BY <1>2 DEF Laid, Due
<1>4. \A r \in Int : r \in Ranks => r < 3 * Wide
  BY <1>2, <1>3 DEF Laid
<1>5. /\ DOMAIN Stream' = Ranks' /\ Ranks' \subseteq Int
      /\ DOMAIN Stream = Ranks /\ Ranks \subseteq Int
  BY DEF Laid
<1>6. ASSUME NEW r \in Ranks PROVE Stream'[r] = Stream[r]
  <2>1. r \in Ranks' /\ r # 3 * Wide /\ r \in Int
    BY <1>3, <1>4, <1>5
  <2>2. EventAt(r)' = EventAt(r)
    BY <1>3, <2>1 DEF EventAt
  <2> QED  BY <2>1, <2>2 DEF Stream
<1>7. Stream'[3 * Wide] = e
  BY <1>1, <1>2 DEF Laid
<1>8. Ranks' = Ranks \cup {3 * Wide} /\ 3 * Wide \in Int /\ 3 * Wide \notin Ranks
  <2>1. PICK w \in Int : w = 3 * Wide
    BY <1>3
  <2>2. \A r \in Int : r \in Ranks' <=> r \in Ranks \/ r = w
    BY <1>3, <2>1
  <2>3. w \notin Ranks
    BY <1>4, <2>1
  <2>4. Ranks' = Ranks \cup {w}
    BY <1>5, <2>2
  <2> QED  BY <2>1, <2>3, <2>4
<1> QED  BY <1>2, <1>4, <1>5, <1>6, <1>7, <1>8 DEF Added

\* What stays of the rest of the invariant when an event of a connection that
\* stands comes last.
LEMMA LastFits ==
    ASSUME IInv, OrderInv, UNCHANGED <<pc, cur, accepted>>, NEW z, NEW c \in Clients,
           Added(Stream', Stream, z), Ranks' = Ranks \cup {z},
           Stream'[z].client = c, Stream'[z].type # "CLEAR", conn[c] = "open",
           \A d \in Clients : d # c => conn'[d] = conn[d]
    PROVE  CurFits' /\ ClearFits'
<1>1. /\ DOMAIN Stream = Ranks /\ Ranks \subseteq Int
      /\ \A r \in Ranks : Stream'[r] = Stream[r]
      /\ \A r \in Ranks : Stream[r].client \in Clients
  BY Known DEF Added
<1>2. /\ pc \in {"recved", "closing", "shut", "post", "close"} => cur.client \in Clients
      /\ pc \in {"post", "close"} => cur.client # c
  BY Known DEF OrderInv, CurFits
<1>3. pc = "close" => Clears(Stream', cur.client)
  BY <1>1 DEF OrderInv, CurFits, Clears, Added
<1>4. CurFits'
  BY <1>1, <1>2, <1>3 DEF OrderInv, CurFits, Removing
<1>5. ClearFits'
  <2>1. \A r \in Ranks : Stream[r].type = "CLEAR" => Stream[r].client # c
    BY <1>2 DEF OrderInv, ClearFits
  <2> QED  BY <1>1, <2>1 DEF OrderInv, ClearFits
<1> QED  BY <1>4, <1>5

\* What is put back in a removal is not disturbed by what comes last.
LEMMA LastCleared ==
    ASSUME OrderInv, Laid, Laid', UNCHANGED <<pc, cur, hand, queue>>,
           Added(Stream', Stream, 3 * Wide), Ranks' = Ranks \cup {3 * Wide}
    PROVE  Cleared' /\ FrontStays'
<1> USE DEF Wide
<1>1. \A r \in Ranks : Stream'[r] = Stream[r]
  BY DEF Added, Laid
<1>2. Cleared'
  <2>1. \A r \in Ranks' : r \in 1..Wide => r \in Ranks
    BY DEF Laid
  <2> QED  BY <1>1, <2>1 DEF OrderInv, Cleared, Turning
<1>3. FrontStays'
  BY DEF OrderInv, FrontStays, Mark
<1> QED  BY <1>2, <1>3

\* Data arrives.
LEMMA ReceiveKeepsOrder ==
    ASSUME IInv, IInv', OrderInv, ~raced', NEW c \in Clients, Receive(c)
    PROVE  OrderInv'
<1> DEFINE e == Event("RECV", c, posted[c] + 1)
<1>1. /\ lwip = Idle /\ conn[c] = "open" /\ lwip' = Post("back", e)
      /\ posted' = [posted EXCEPT ![c] = posted[c] + 1]
      /\ UNCHANGED <<queue, pc, cur, hand, conn, handled, accepted, faults>>
  BY DEF Receive
<1>2. e.type = "RECV" /\ e.client = c /\ e.n = posted[c] + 1 /\ ~e.first
  BY DEF Event
<1> HIDE DEF e
<1>3. lwip' # Idle /\ lwip'.at = "back" /\ lwip'.event = e
  BY <1>1, Posted
<1>4. MarkFits' /\ Cut' = Cut
  BY <1>1, <1>2, <1>3, MarkLeft
<1>5. Laid /\ Laid'
  BY <1>4, Known, LaidNext
<1>6. /\ Added(Stream', Stream, 3 * Wide) /\ \A r \in DOMAIN Stream : r < 3 * Wide
      /\ Stream'[3 * Wide] = e /\ Ranks' = Ranks \cup {3 * Wide}
      /\ Back' /\ Announcing = {} /\ Announcing' = {}
  BY <1>1, <1>4, <1>5, PostsLast
<1>7. Orderly(Stream', conn', accepted', handled', posted', Announcing')
  <2>1. Orderly(Stream, conn, accepted, handled, posted, {})
    BY <1>6 DEF OrderInv
  <2>2. Orderly(Stream', conn, accepted, handled, posted', {})
    BY <1>1, <1>2, <1>6, <2>1, Known, AddLast
  <2> QED  BY <1>1, <1>6, <2>2
<1>8. CurFits' /\ ClearFits'
  BY <1>1, <1>2, <1>6, LastFits
<1>9. Cleared' /\ FrontStays'
  BY <1>1, <1>5, <1>6, LastCleared
<1>10. BackStands' /\ faults' = {}
  BY <1>1, <1>2, <1>3 DEF BackStands, OrderInv
<1> QED  BY <1>4, <1>7, <1>8, <1>9, <1>10 DEF OrderInv

\* A connection ends.
LEMMA EndKeepsOrder ==
    ASSUME IInv, IInv', OrderInv, ~raced', NEW c \in Clients, End(c)
    PROVE  OrderInv'
<1>1. PICK e \in {Event("FIN", c, 0), Event("ERROR", c, 0)} :
        /\ lwip' = Post("back", e)
        /\ conn' = [conn EXCEPT ![c] = IF e.type = "FIN" THEN "ended" ELSE "failed"]
  <2>1. Event("FIN", c, 0).type = "FIN" /\ Event("ERROR", c, 0).type = "ERROR"
    BY DEF Event
  <2> QED  BY <2>1 DEF End
<1>2. /\ lwip = Idle /\ conn[c] = "open"
      /\ UNCHANGED <<queue, pc, cur, hand, posted, handled, accepted, faults>>
  BY DEF End
<1>3. e.type \in {"FIN", "ERROR"} /\ e.client = c /\ ~e.first
  BY <1>1 DEF Event
<1>4. lwip' # Idle /\ lwip'.at = "back" /\ lwip'.event = e
  BY <1>1, Posted
<1>5. MarkFits' /\ Cut' = Cut
  BY <1>2, <1>3, <1>4, MarkLeft
<1>6. Laid /\ Laid'
  BY <1>5, Known, LaidNext
<1>7. /\ Added(Stream', Stream, 3 * Wide) /\ \A r \in DOMAIN Stream : r < 3 * Wide
      /\ Stream'[3 * Wide] = e /\ Ranks' = Ranks \cup {3 * Wide}
      /\ Back' /\ Announcing = {} /\ Announcing' = {}
  BY <1>1, <1>2, <1>5, <1>6, PostsLast
<1>8. /\ \A d \in Clients : d # c => conn'[d] = conn[d]
      /\ conn'[c] = IF e.type = "FIN" THEN "ended" ELSE "failed"
  BY <1>1, Known
<1>9. Orderly(Stream', conn', accepted', handled', posted', Announcing')
  <2>1. Orderly(Stream, conn, accepted, handled, posted, {})
    BY <1>7 DEF OrderInv
  <2>2. Orderly(Stream', conn', accepted, handled, posted, {})
    <3>1. PICK z : z = 3 * Wide
      OBVIOUS
    <3>2. \/ Stream'[z].type = "FIN" /\ conn'[c] = "ended"
          \/ Stream'[z].type = "ERROR" /\ conn'[c] = "failed"
      BY <1>3, <1>7, <1>8, <3>1
    <3>3. /\ Stream'[z].client = c /\ Stream'[z].type # "RECV"
          /\ Added(Stream', Stream, z) /\ \A r \in DOMAIN Stream : r < z
      BY <1>3, <1>7, <3>1
    <3>4. /\ posted \in [Clients -> Int] /\ handled \in [Clients -> Int] /\ accepted \subseteq Clients
          /\ \A r \in DOMAIN Stream : Stream[r].client \in Clients
          /\ {} \subseteq Clients /\ c \notin {} /\ conn[c] = "open"
          /\ IF Stream'[z].type = "RECV" THEN Stream'[z].n = posted[c] + 1 /\ posted = [posted EXCEPT ![c] = posted[c] + 1]
             ELSE posted = posted
          /\ \A d \in Clients : d # c => conn'[d] = conn[d]
      BY <1>2, <1>8, <3>3, Known
    <3> QED  BY <2>1, <3>2, <3>3, <3>4, AddLast, SMTT(30)
  <2> QED  BY <1>2, <1>7, <2>2
<1>10. CurFits' /\ ClearFits'
  BY <1>2, <1>3, <1>7, <1>8, LastFits
<1>11. Cleared' /\ FrontStays'
  BY <1>2, <1>6, <1>7, LastCleared
<1>12. BackStands' /\ faults' = {}
  BY <1>2, <1>3, <1>4, <1>8 DEF BackStands, OrderInv
<1> QED  BY <1>5, <1>9, <1>10, <1>11, <1>12 DEF OrderInv

\* The rest of the invariant when the events stay, but for one more at most.
LEMMA MoreFits ==
    ASSUME OrderInv, UNCHANGED <<pc, cur, conn, accepted>>, NEW z,
           DOMAIN Stream = Ranks, DOMAIN Stream' = Ranks',
           \A r \in Ranks' : r = z \/ \E q \in Ranks : Same(Stream'[r], Stream[q]),
           \A q \in Ranks : \E r \in Ranks' : Same(Stream'[r], Stream[q]),
           z \in Ranks' => /\ Stream'[z].type # "CLEAR"
                           /\ pc = "post" => Stream'[z].client # cur.client
    PROVE  CurFits' /\ ClearFits'
<1>1. CurFits'
  <2>1. pc = "post" /\ cur.type = "FIN" => \A r \in Ranks' : Stream'[r].client # cur.client
    BY DEF OrderInv, CurFits, Same
  <2>2. pc = "close" => Clears(Stream', cur.client)
    BY DEF OrderInv, CurFits, Clears, Same
  <2> QED  BY <2>1, <2>2 DEF OrderInv, CurFits, Removing
<1>2. ClearFits'
  BY DEF OrderInv, ClearFits, Same
<1> QED  BY <1>1, <1>2

\* A poll is put at the back.
LEMMA PollKeepsOrder ==
    ASSUME IInv, IInv', OrderInv, ~raced', NEW c \in Clients, Poll(c)
    PROVE  OrderInv'
<1> USE DEF Wide
<1> DEFINE e == Event("POLL", c, 0)
           N == Len(queue)
<1>1. /\ lwip = Idle /\ conn[c] = "open" /\ queue' = Append(queue, e)
      /\ UNCHANGED <<lwip, pc, cur, hand, conn, posted, handled, accepted, faults>>
      /\ pc \notin Removing \cup {"take"}
  BY DEF Poll
<1>2. e.type = "POLL" /\ e.client = c /\ ~e.first
  BY DEF Event
<1> HIDE DEF e
<1>3. /\ Len(queue') = N + 1 /\ queue'[N + 1] = e
      /\ \A i \in 1..N : queue'[i] = queue[i]
  <2>1. e \in Events
    BY QueueAssumption, EventTyped DEF e, Types
  <2> QED  BY <1>1, <2>1, Known, AppendProperties
<1>4. ~Turning /\ ~Turning' /\ Cut = 1 /\ Cut' = 1 /\ pc \notin {"keep", "requeue"}
  BY <1>1 DEF Turning, Removing, Cut
<1>5. MarkFits'
  <2>1. ASSUME NEW i \in 1..N + 1 PROVE ~queue'[i].first
    <3>1. \A j \in 1..N : ~queue[j].first
      BY <1>4 DEF OrderInv, MarkFits
    <3>2. N \in Nat
      BY Known
    <3>3. i = N + 1 \/ i \in 1..N
      BY <3>2
    <3> QED  BY <1>2, <1>3, <3>1, <3>3
  <2> QED  BY <1>1, <1>3, <1>4, <2>1 DEF MarkFits
<1>6. Laid /\ Laid'
  BY <1>5, Known, LaidNext
<1>7. ~Back /\ ~Back' /\ Announcing = {} /\ Announcing' = {}
  BY <1>1 DEF Back, Announcing
<1>8. /\ \A r \in Int : r \in Ranks <=> (r = -1 /\ Due) \/ (1 <= r /\ r <= N)
      /\ \A r \in Int : r \in Ranks' <=> (r = -1 /\ Due) \/ (1 <= r /\ r <= N + 1)
      /\ N \in Nat /\ N + 1 < Wide /\ Wide \in Nat
  BY <1>1, <1>3, <1>4, <1>6, <1>7 DEF Laid, Due
<1>9. /\ Due => Stream'[-1] = Stream[-1]
      /\ \A i \in Int : 1 <= i /\ i <= N => Stream'[i] = Stream[i]
      /\ Stream'[N + 1] = e
  BY <1>1, <1>3, <1>4, <1>6, <1>8 DEF Laid, Due
<1>10. /\ DOMAIN Stream' = Ranks' /\ Ranks' \subseteq Int
       /\ DOMAIN Stream = Ranks /\ Ranks \subseteq Int
  BY <1>6 DEF Laid
<1>11. PICK z \in Int : z = N + 1
  BY <1>8
<1>12. Added(Stream', Stream, z) /\ Stream'[z] = e /\ \A r \in Ranks : r < z
  <2>1. \A r \in Int : r \in Ranks' <=> r \in Ranks \/ r = z
    BY <1>8, <1>11
  <2>2. z \notin Ranks /\ \A r \in Int : r \in Ranks => r < z
    BY <1>8, <1>11
  <2>3. Ranks' = Ranks \cup {z}
    BY <1>10, <2>1
  <2>4. \A r \in Int : r \in Ranks => Stream'[r] = Stream[r]
    BY <1>8, <1>9
  <2> QED  BY <1>9, <1>10, <1>11, <2>2, <2>3, <2>4 DEF Added
<1>13. Orderly(Stream', conn', accepted', handled', posted', Announcing')
  <2>1. Orderly(Stream, conn, accepted, handled, posted, {})
    BY <1>7 DEF OrderInv
  <2>2. Orderly(Stream', conn, accepted, handled, posted, {})
    BY <1>1, <1>2, <1>10, <1>12, <2>1, Known, AddLast
  <2> QED  BY <1>1, <1>7, <2>2
<1>14. CurFits' /\ ClearFits'
  <2>1. \A r \in Ranks' : r = z \/ \E q \in Ranks : Same(Stream'[r], Stream[q])
    BY <1>10, <1>12 DEF Added, Same
  <2>2. \A q \in Ranks : \E r \in Ranks' : Same(Stream'[r], Stream[q])
    BY <1>10, <1>12 DEF Added, Same
  <2>3. pc = "post" => cur.client # c
    BY <1>1 DEF OrderInv, CurFits
  <2> QED  BY <1>1, <1>2, <1>10, <1>12, <2>1, <2>2, <2>3, MoreFits
<1>15. BackStands' /\ FrontStays' /\ Cleared' /\ faults' = {}
  BY <1>1, <1>4, <1>7 DEF OrderInv, BackStands, FrontStays, Cleared, Removing
<1> QED  BY <1>5, <1>13, <1>14, <1>15 DEF OrderInv

\* lwIP's event is put in the queue.
LEMMA EnqueueKeepsOrder ==
    ASSUME IInv, IInv', OrderInv, ~raced', Enqueue
    PROVE  OrderInv'
<1> DEFINE e == lwip.event
           N == Len(queue)
<1>1. /\ lwip # Idle /\ lwip' = Idle
      /\ queue' = IF lwip.at = "front" THEN <<e>> \o queue ELSE Append(queue, e)
      /\ UNCHANGED <<pc, cur, hand, conn, posted, handled, accepted, faults>>
      /\ pc \notin Removing \cup {"take"}
  BY DEF Enqueue
<1>2. e \in Events /\ lwip.at \in {"front", "back"} /\ ~e.first
  BY <1>1 DEF IInv, TypeOK, OrderInv, MarkFits, Idle
<1>3. ~Turning /\ ~Turning' /\ Cut = 1 /\ Cut' = 1 /\ pc \notin {"keep", "requeue"}
  BY <1>1 DEF Turning, Removing, Cut
<1>4. /\ queue \in Seq(Events) /\ N \in Nat /\ \A j \in 1..N : ~queue[j].first
      /\ Len(queue') = N + 1
      /\ \A i \in 1..N + 1 : queue'[i] = e \/ \E j \in 1..N : queue'[i] = queue[j]
  <2>1. queue \in Seq(Events) /\ N \in Nat /\ \A j \in 1..N : ~queue[j].first
    BY <1>3, Known DEF OrderInv, MarkFits
  <2>2. CASE lwip.at = "front"
    <3>1. Len(queue') = N + 1 /\ queue'[1] = e /\ \A i \in 2..N + 1 : queue'[i] = queue[i - 1]
      BY <1>1, <1>2, <2>1, <2>2
    <3>2. \A i \in 1..N + 1 : i = 1 \/ (i \in 2..N + 1 /\ i - 1 \in 1..N)
      BY <2>1
    <3> QED  BY <2>1, <3>1, <3>2
  <2>3. CASE lwip.at = "back"
    <3>1. Len(queue') = N + 1 /\ queue'[N + 1] = e /\ \A i \in 1..N : queue'[i] = queue[i]
      BY <1>1, <1>2, <2>1, <2>3, AppendProperties
    <3>2. \A i \in 1..N + 1 : i = N + 1 \/ i \in 1..N
      BY <2>1
    <3> QED  BY <2>1, <3>1, <3>2
  <2> QED  BY <1>2, <2>1, <2>2, <2>3
<1>5. MarkFits'
  BY <1>1, <1>2, <1>3, <1>4 DEF MarkFits
<1>6. Laid /\ Laid'
  BY <1>5, Known, LaidNext
<1>7. Due <=> Due'
  BY <1>1 DEF Due
<1>8. ~Back' /\ Announcing' = {} /\ (Back <=> lwip.at = "back")
  BY <1>1 DEF Back, Announcing
<1>9. /\ DOMAIN Stream' = Ranks' /\ Ranks' \subseteq Int
      /\ DOMAIN Stream = Ranks /\ Ranks \subseteq Int
  BY <1>6 DEF Laid
<1>10. BackStands' /\ FrontStays' /\ Cleared' /\ faults' = {}
  BY <1>1, <1>3, <1>8 DEF OrderInv, BackStands, FrontStays, Cleared, Removing
<1>11. CASE lwip.at = "back"
  <2>1. Back /\ Announcing = {} /\ queue' = Append(queue, e)
    BY <1>1, <1>8, <1>11 DEF Announcing
  <2>2. 3 * Wide \in Int
    BY <1>6 DEF Laid
  <2>3. Thinned(Stream', Stream, {}, FromLast(N, 3 * Wide))
    BY <1>1, <1>2, <1>3, <1>4, <1>6, <1>7, <1>8, <2>1, <2>2, PutAtBack
  <2>4. Orderly(Stream', conn', accepted', handled', posted', Announcing')
    <3>1. Orderly(Stream, conn, accepted, handled, posted, {})
      BY <2>1 DEF OrderInv
    <3>2. Orderly(Stream', conn, accepted, handled, posted, {})
      BY <2>3, <3>1, Thin
    <3> QED  BY <1>1, <1>8, <3>2
  <2>5. CurFits' /\ ClearFits'
    <3>1. \A r \in Ranks' : \E q \in Ranks : Same(Stream'[r], Stream[q])
      BY <1>9, <2>3 DEF Thinned
    <3>2. \A q \in Ranks : \E r \in Ranks' : Same(Stream'[r], Stream[q])
      BY <1>9, <2>3 DEF Thinned
    <3>3. -2 \notin Ranks'
      BY DEF Ranks
    <3> QED  BY <1>1, <1>9, <3>1, <3>2, <3>3, MoreFits
  <2> QED  BY <1>5, <1>10, <2>4, <2>5 DEF OrderInv
<1>12. CASE lwip.at = "front"
  <2>1. ~Back /\ Announcing = {e.client} /\ queue' = <<e>> \o queue /\ e.type = "ACCEPT"
    BY <1>1, <1>8, <1>12 DEF Announcing, IInv, FrontPosts
  <2>2. /\ Thinned(Without(1)', Stream, {}, MovesDown)
        /\ Added(Stream', Without(1)', 1) /\ Stream'[1] = e
    BY <1>1, <1>2, <1>3, <1>4, <1>6, <1>7, <1>8, <2>1, PutAtFront
  <2>3. e.client \in Clients
    BY <1>2 DEF Events
  <2>4. Orderly(Stream', conn', accepted', handled', posted', Announcing')
    <3>1. Orderly(Stream, conn, accepted, handled, posted, {e.client})
      BY <2>1 DEF OrderInv
    <3>2. Orderly(Without(1)', conn, accepted, handled, posted, {e.client})
      BY <2>2, <3>1, Thin
    <3>3. Orderly(Stream', conn, accepted, handled, posted, {})
      BY <2>1, <2>2, <2>3, <3>2, AddAccept
    <3> QED  BY <1>1, <1>8, <3>3
  <2>5. CurFits' /\ ClearFits'
    <3>1. DOMAIN Without(1)' = Ranks' \ {1} /\ \A r \in Ranks' \ {1} : Without(1)'[r] = Stream'[r]
      BY DEF Without
    <3>2. \A r \in Ranks' : r = 1 \/ \E q \in Ranks : Same(Stream'[r], Stream[q])
      BY <1>9, <2>2, <3>1 DEF Thinned
    <3>3. \A q \in Ranks : \E r \in Ranks' : Same(Stream'[r], Stream[q])
      BY <1>9, <2>2, <3>1 DEF Thinned
    <3>4. pc = "post" => e.client # cur.client
      BY <2>1 DEF OrderInv, CurFits, Orderly, Announced
    <3> QED  BY <1>1, <1>9, <2>1, <2>2, <3>2, <3>3, <3>4, MoreFits
  <2> QED  BY <1>5, <1>10, <2>4, <2>5 DEF OrderInv
<1> QED  BY <1>2, <1>11, <1>12

\* Outside a removal there is no mark, and none comes when events go or stay.
LEMMA NoMark ==
    ASSUME IInv, OrderInv, ~Turning, ~Turning', pc' \notin {"keep", "requeue"},
           UNCHANGED lwip, UNCHANGED queue \/ (queue # <<>> /\ queue' = Tail(queue))
    PROVE  MarkFits' /\ Cut = 1 /\ Cut' = 1
<1>1. \A i \in 1..Len(queue) : ~queue[i].first
  BY DEF OrderInv, MarkFits
<1>2. \A i \in 1..Len(queue') : ~queue'[i].first
  <2>1. CASE queue # <<>> /\ queue' = Tail(queue)
    <3>1. /\ queue \in Seq(Events) /\ Len(queue) \in Nat /\ Len(queue') = Len(queue) - 1
          /\ \A i \in 1..Len(queue) - 1 : queue'[i] = queue[i + 1]
      BY <2>1, Known, HeadTailProperties
    <3>2. \A i \in 1..Len(queue) - 1 : i + 1 \in 1..Len(queue)
      BY <3>1
    <3> QED  BY <1>1, <3>1, <3>2
  <2> QED  BY <1>1, <2>1
<1> QED  BY <1>2 DEF OrderInv, MarkFits, Cut

\* A CLEAR that stays under way finds the service task where it may be.
LEMMA ClearsFit ==
    ASSUME OrderInv, UNCHANGED conn, NEW X, NEW g, Thinned(Stream', Stream, X, g),
           DOMAIN Stream = Ranks, DOMAIN Stream' = Ranks',
           \/ pc # "close" /\ pc' \in {"get", "handle"} \cup Removing
           \/ \A r \in Ranks : Stream[r].type # "CLEAR"
    PROVE  ClearFits'
BY DEF OrderInv, ClearFits, Thinned, Same

\* While the service task has a poll there is no CLEAR.
LEMMA NoClear ==
    ASSUME OrderInv, pc \notin {"get", "handle", "close"} \cup Removing
    PROVE  \A r \in Ranks : Stream[r].type # "CLEAR"
BY DEF OrderInv, ClearFits

\* The first event is taken off.
LEMMA GetKeepsOrder ==
    ASSUME IInv, IInv', OrderInv, ~raced', Get
    PROVE  OrderInv'
<1>1. /\ pc = "get" /\ pc' = IF Head(queue).type = "POLL" THEN "peek" ELSE "handle"
      /\ queue # <<>> /\ queue' = Tail(queue) /\ cur' = Head(queue) /\ faults' = {}
      /\ UNCHANGED <<hand, lwip, conn, posted, handled, accepted, raced>>
  BY DEF Get, Rest
<1>2. /\ ~Turning /\ ~Turning' /\ pc' \in {"peek", "handle"} /\ ~Due /\ Due'
  BY <1>1 DEF Turning, Due, Removing
<1>3. MarkFits' /\ Cut = 1 /\ Cut' = 1
  BY <1>1, <1>2, NoMark
<1>4. Laid /\ Laid'
  BY <1>3, Known, LaidNext
<1>5. Thinned(Stream', Stream, {}, TakesFirst)
  BY <1>1, <1>2, <1>3, <1>4, Known, FirstTaken
<1>6. Announcing' = Announcing
  BY <1>1 DEF Announcing
<1>7. Orderly(Stream', conn', accepted', handled', posted', Announcing')
  <2>1. Orderly(Stream', conn, accepted, handled, posted, Announcing)
    BY <1>5, Thin DEF OrderInv
  <2> QED  BY <1>1, <1>6, <2>1
<1>8. /\ DOMAIN Stream' = Ranks' /\ DOMAIN Stream = Ranks /\ Ranks' \subseteq Int
      /\ Stream'[-1] = cur' /\ -1 \in Ranks' /\ \A r \in Ranks' : r = -1 \/ -1 < r
  <2>1. \A r \in Int : r \in Ranks' => r = -1 \/ -1 < r
    BY <1>3, <1>4 DEF Laid
  <2>2. -1 \in Ranks' /\ Stream'[-1] = cur'
    BY <1>2, <1>4 DEF Laid
  <2> QED  BY <1>4, <2>1, <2>2 DEF Laid
<1>9. ClearFits'
  <2>1. CASE pc' = "handle"
    BY <1>1, <1>5, <1>8, <2>1, ClearsFit
  <2>2. CASE pc' = "peek"
    <3>1. cur'.type = "POLL"
      BY <1>1, <2>2
    <3>2. \A r \in Ranks' : Stream'[r].type # "CLEAR"
      BY <1>7, <1>8, <3>1 DEF Orderly, ClearsFirst
    <3> QED  BY <3>2 DEF ClearFits
  <2> QED  BY <1>2, <2>1, <2>2
<1>10. CurFits' /\ BackStands' /\ FrontStays' /\ Cleared'
  BY <1>1, <1>2 DEF OrderInv, CurFits, BackStands, FrontStays, Cleared, Removing, Back
<1> QED  BY <1>1, <1>3, <1>7, <1>9, <1>10 DEF OrderInv

\* The next event is looked at.
LEMMA PeekKeepsOrder ==
    ASSUME IInv, IInv', OrderInv, ~raced', Peek
    PROVE  OrderInv'
<1>1. /\ pc = "peek" /\ pc' \in {"take", "decide"} /\ (pc' = "take" => Head(queue).type = "POLL")
      /\ UNCHANGED <<queue, cur, hand, faults, lwip, conn, posted, handled, accepted, raced>>
  BY DEF Peek, Rest
<1>2. ~Turning /\ ~Turning' /\ Due /\ Due' /\ Announcing' = Announcing
  BY <1>1 DEF Turning, Due, Announcing
<1>3. MarkFits' /\ Cut = 1 /\ Cut' = 1
  BY <1>1, <1>2, NoMark
<1>4. Ranks' = Ranks /\ Stream' = Stream
  BY <1>1, <1>2, <1>3, Known, Unmoved DEF Back
<1>5. \A r \in Ranks : Stream[r].type # "CLEAR"
  BY <1>1, NoClear DEF Removing
<1>6. CurFits' /\ BackStands' /\ FrontStays' /\ Cleared'
  BY <1>1, <1>2 DEF OrderInv, CurFits, BackStands, FrontStays, Cleared, Removing, Back
<1> QED  BY <1>1, <1>2, <1>3, <1>4, <1>5, <1>6 DEF OrderInv, ClearFits

\* A poll is coalesced with the one before.
LEMMA TakeKeepsOrder ==
    ASSUME IInv, IInv', OrderInv, ~raced', Take
    PROVE  OrderInv'
<1>1. /\ pc = "take" /\ pc' = "peek" /\ queue' = Tail(queue) /\ queue # <<>>
      /\ Head(queue).type = "POLL" /\ faults' = {}
      /\ UNCHANGED <<cur, hand, lwip, conn, posted, handled, accepted, raced>>
  BY DEF Take, Rest, OrderInv, FrontStays, IInv, FrontSeen
<1>2. ~Turning /\ ~Turning' /\ Due /\ Due' /\ Announcing' = Announcing
  BY <1>1 DEF Turning, Due, Announcing
<1>3. MarkFits' /\ Cut = 1 /\ Cut' = 1
  BY <1>1, <1>2, NoMark
<1>4. Laid /\ Laid'
  BY <1>3, Known, LaidNext
<1>5. Thinned(Stream', Stream, {1}, MovesUp)
  BY <1>1, <1>2, <1>3, <1>4, Known, FrontTaken
<1>6. 1 \in DOMAIN Stream /\ Stream[1].type = "POLL"
  <2>1. Len(queue) \in Nat /\ Len(queue) >= 1 /\ Head(queue) = queue[1]
    BY <1>1, Known, EmptySeq
  <2> QED  BY <1>1, <1>3, <1>4, <2>1 DEF Laid
<1>7. Orderly(Stream', conn', accepted', handled', posted', Announcing')
  <2>1. Orderly(Stream', conn, accepted, handled, posted, Announcing)
    BY <1>5, <1>6, Thin DEF OrderInv
  <2> QED  BY <1>1, <1>2, <2>1
<1>8. DOMAIN Stream' = Ranks' /\ DOMAIN Stream = Ranks
  BY <1>4 DEF Laid
<1>9. ClearFits'
  <2>1. \A r \in Ranks : Stream[r].type # "CLEAR"
    BY <1>1, NoClear DEF Removing
  <2> QED  BY <1>1, <1>5, <1>8, <2>1, ClearsFit
<1>10. CurFits' /\ BackStands' /\ FrontStays' /\ Cleared'
  BY <1>1, <1>2 DEF OrderInv, CurFits, BackStands, FrontStays, Cleared, Removing, Back
<1> QED  BY <1>1, <1>3, <1>7, <1>9, <1>10 DEF OrderInv

\* The service task is through with the event, or knows what is left to do for it.
LEMMA CurDone ==
    ASSUME IInv, IInv', OrderInv, pc \in {"decide", "handle"},
           pc' \in {"get", "recved", "closing", "shut", "post"}, UNCHANGED <<queue, lwip>>
    PROVE  /\ MarkFits' /\ FrontStays' /\ Cleared'
           /\ DOMAIN Stream' = Ranks' /\ DOMAIN Stream = Ranks
           /\ Thinned(Stream', Stream, {-1}, Stays) /\ Announcing' = Announcing
           /\ -1 \in Ranks /\ Stream[-1] = cur /\ cur.client \in Clients
           /\ \A r \in Ranks : r # -1 => -1 < r
           /\ \A r \in Ranks' : r \in Ranks /\ Same(Stream'[r], Stream[r])
           /\ -1 \notin Ranks'
<1>1. ~Turning /\ ~Turning' /\ Due /\ ~Due' /\ Announcing' = Announcing
  BY DEF Turning, Due, Announcing, Removing
<1>2. MarkFits' /\ Cut = 1 /\ Cut' = 1
  BY <1>1, NoMark
<1>3. Laid /\ Laid'
  BY <1>2, Known, LaidNext
<1>4. FrontStays' /\ Cleared'
  BY <1>1 DEF FrontStays, Cleared
<1>5. Thinned(Stream', Stream, {-1}, Stays)
  BY <1>1, <1>2, <1>3, CurGoes DEF Same
<1>6. DOMAIN Stream' = Ranks' /\ DOMAIN Stream = Ranks /\ Ranks \subseteq Int /\ Ranks' \subseteq Int
  BY <1>3 DEF Laid
<1>7. -1 \in Ranks /\ Stream[-1] = cur /\ cur.client \in Clients
  <2>1. -1 \in Ranks /\ Stream[-1] = cur
    BY <1>1, <1>3 DEF Laid
  <2> QED  BY <1>6, <2>1, Known
<1>8. \A r \in Int : r \in Ranks /\ r # -1 => -1 < r
  BY <1>2, <1>3 DEF Laid
<1>9. \A r \in Ranks' : r \in Ranks \ {-1} /\ Same(Stream'[r], Stream[r])
  BY <1>5, <1>6 DEF Thinned, Stays
<1> QED  BY <1>1, <1>2, <1>4, <1>5, <1>6, <1>7, <1>8, <1>9

\* An event that is due, other than an announcement or a CLEAR, is not misplaced.
LEMMA CurIsDue ==
    ASSUME IInv, IInv', OrderInv, pc \in {"decide", "handle"},
           pc' \in {"get", "recved", "closing", "shut", "post"}, UNCHANGED <<queue, lwip>>,
           cur.type \notin {"ACCEPT", "CLEAR"}
    PROVE  /\ conn[cur.client] \notin {"none", "gone"} /\ cur.client \in accepted
           /\ \A r \in Ranks : Stream[r].type # "CLEAR"
           /\ Misplaced = {}
<1>1. /\ DOMAIN Stream = Ranks /\ -1 \in Ranks /\ Stream[-1] = cur /\ cur.client \in Clients
      /\ \A r \in Ranks : r # -1 => -1 < r
  BY CurDone
<1>2. /\ conn[cur.client] \notin {"none", "gone"} /\ cur.client \in accepted
      /\ \A r \in Ranks : Stream[r].type # "CLEAR"
  <2>1. PICK x : x = -1
    OBVIOUS
  <2>2. /\ DOMAIN Stream = Ranks /\ x \in Ranks /\ Stream[x] = cur /\ cur.client \in Clients
        /\ \A r \in Ranks : r # x => x < r
    BY <1>1, <2>1
  <2> QED  BY <2>2, FirstIsDue, Known DEF OrderInv
<1> QED  BY <1>2 DEF Misplaced

\* A poll is dropped, or handled.
LEMMA DecideKeepsOrder ==
    ASSUME IInv, IInv', OrderInv, ~raced', Decide
    PROVE  OrderInv'
<1>1. /\ pc = "decide" /\ cur.type = "POLL"
      /\ UNCHANGED <<queue, hand, faults, lwip, conn, posted, handled, accepted, raced>>
      /\ pc' = "get" \/ (pc' = "handle" /\ cur' = cur)
  BY DEF Decide, Done, Rest, OrderInv, CurFits
<1>2. \A r \in Ranks : Stream[r].type # "CLEAR"
  BY <1>1, NoClear DEF Removing
<1>3. CurFits' /\ BackStands' /\ faults' = {}
  BY <1>1 DEF OrderInv, CurFits, BackStands, Back, Removing
<1>4. CASE pc' = "get"
  <2>1. /\ MarkFits' /\ FrontStays' /\ Cleared' /\ DOMAIN Stream' = Ranks' /\ DOMAIN Stream = Ranks
        /\ Thinned(Stream', Stream, {-1}, Stays) /\ Announcing' = Announcing
        /\ -1 \in Ranks /\ Stream[-1] = cur
    BY <1>1, <1>4, CurDone
  <2>2. Orderly(Stream', conn', accepted', handled', posted', Announcing')
    <3>1. Orderly(Stream', conn, accepted, handled, posted, Announcing)
      BY <1>1, <2>1, Thin DEF OrderInv
    <3> QED  BY <1>1, <2>1, <3>1
  <2>3. ClearFits'
    BY <1>1, <1>2, <2>1, ClearsFit
  <2> QED  BY <1>3, <2>1, <2>2, <2>3 DEF OrderInv
<1>5. CASE pc' = "handle"
  <2>1. ~Turning /\ ~Turning' /\ Due /\ Due' /\ Announcing' = Announcing
    BY <1>1, <1>5 DEF Turning, Due, Announcing
  <2>2. MarkFits' /\ Cut = 1 /\ Cut' = 1
    BY <1>1, <1>5, <2>1, NoMark
  <2>3. Ranks' = Ranks /\ Stream' = Stream
    BY <1>1, <1>5, <2>1, <2>2, Known, Unmoved DEF Back
  <2>4. ClearFits' /\ FrontStays' /\ Cleared'
    BY <1>2, <1>5, <2>1, <2>3 DEF ClearFits, FrontStays, Cleared
  <2> QED  BY <1>1, <1>3, <2>1, <2>2, <2>3, <2>4 DEF OrderInv
<1> QED  BY <1>1, <1>4, <1>5

\* A client is announced.
LEMMA HandleAcceptKeepsOrder ==
    ASSUME IInv, IInv', OrderInv, ~raced', HandleAccept
    PROVE  OrderInv'
<1>1. /\ pc = "handle" /\ pc' = "get" /\ cur.type = "ACCEPT"
      /\ accepted' = accepted \cup {cur.client}
      /\ UNCHANGED <<queue, lwip, hand, conn, posted, handled, faults, raced>>
  BY DEF HandleAccept, Done
<1>2. /\ MarkFits' /\ FrontStays' /\ Cleared' /\ DOMAIN Stream' = Ranks' /\ DOMAIN Stream = Ranks
      /\ Thinned(Stream', Stream, {-1}, Stays) /\ Announcing' = Announcing
      /\ -1 \in Ranks /\ Stream[-1] = cur
  BY <1>1, CurDone
<1>3. Orderly(Stream', conn', accepted', handled', posted', Announcing')
  <2>1. Orderly(Stream', conn, accepted \cup {Stream[-1].client}, handled, posted, Announcing)
    BY <1>1, <1>2, Accepts DEF OrderInv
  <2> QED  BY <1>1, <1>2, <2>1
<1>4. ClearFits'
  BY <1>1, <1>2, ClearsFit
<1>5. CurFits' /\ BackStands' /\ faults' = {}
  BY <1>1 DEF OrderInv, CurFits, BackStands, Back, Removing
<1> QED  BY <1>2, <1>3, <1>4, <1>5 DEF OrderInv

\* Data is handled.
LEMMA HandleRecvKeepsOrder ==
    ASSUME IInv, IInv', OrderInv, ~raced', HandleRecv
    PROVE  OrderInv'
<1>1. /\ pc = "handle" /\ cur.type = "RECV"
      /\ handled' = [handled EXCEPT ![cur.client] = cur.n]
      /\ (pc' \in {"recved", "closing"} /\ cur' = cur) \/ pc' = "get"
      /\ UNCHANGED <<queue, lwip, hand, conn, posted, accepted, raced>>
  BY DEF HandleRecv, Done
<1>2. /\ MarkFits' /\ FrontStays' /\ Cleared' /\ DOMAIN Stream' = Ranks' /\ DOMAIN Stream = Ranks
      /\ Thinned(Stream', Stream, {-1}, Stays) /\ Announcing' = Announcing
      /\ -1 \in Ranks /\ Stream[-1] = cur /\ cur.client \in Clients
      /\ \A r \in Ranks : r # -1 => -1 < r
  BY <1>1, CurDone
<1>3. /\ cur.client \in accepted /\ Misplaced = {}
      /\ \A r \in Ranks : Stream[r].type # "CLEAR"
  BY <1>1, CurIsDue
<1>4. /\ cur.n = handled[cur.client] + 1
      /\ Orderly(Stream', conn, accepted, [handled EXCEPT ![cur.client] = cur.n], posted, Announcing)
  <2>1. PICK x : x = -1
    OBVIOUS
  <2>2. /\ DOMAIN Stream = Ranks /\ x \in Ranks /\ Stream[x] = cur
        /\ \A r \in Ranks : r # x => x < r
        /\ Thinned(Stream', Stream, {x}, Stays)
    BY <1>2, <2>1
  <2>3. Orderly(Stream, conn, accepted, handled, posted, Announcing)
    BY DEF OrderInv
  <2>4. /\ Stream[x].n = handled[Stream[x].client] + 1
        /\ Orderly(Stream', conn, accepted, [handled EXCEPT ![Stream[x].client] = Stream[x].n], posted, Announcing)
    BY <1>1, <2>2, <2>3, Handles, Known
  <2> QED  BY <2>2, <2>4
<1>5. Orderly(Stream', conn', accepted', handled', posted', Announcing')
  BY <1>1, <1>2, <1>4
<1>6. faults' = {}
  <2>1. handled[cur.client] \in Int
    BY <1>2, Known
  <2>2. ~(cur.n <= handled[cur.client]) /\ ~(cur.n > handled[cur.client] + 1)
    BY <1>4, <2>1
  <2>3. /\ {t \in {"RECV"} : cur.n <= handled[cur.client]} = {}
        /\ {t \in {"RECV"} : cur.n > handled[cur.client] + 1} = {}
    BY <2>2
  <2>4. faults = {}
    BY DEF OrderInv
  <2> QED  BY <1>3, <2>3, <2>4 DEF HandleRecv
<1>7. ClearFits'
  BY <1>1, <1>2, <1>3, ClearsFit
<1>8. CurFits' /\ BackStands'
  BY <1>1, <1>3 DEF OrderInv, CurFits, BackStands, Back, Removing
<1> QED  BY <1>2, <1>5, <1>6, <1>7, <1>8 DEF OrderInv

\* A poll is handled.
LEMMA HandlePollKeepsOrder ==
    ASSUME IInv, IInv', OrderInv, ~raced', HandlePoll
    PROVE  OrderInv'
<1>1. /\ pc = "handle" /\ cur.type = "POLL" /\ faults' = faults \cup Misplaced
      /\ (pc' = "shut" /\ cur' = cur) \/ pc' = "get"
      /\ UNCHANGED <<queue, lwip, hand, conn, posted, handled, accepted, raced>>
  BY DEF HandlePoll, Done
<1>2. /\ MarkFits' /\ FrontStays' /\ Cleared' /\ DOMAIN Stream' = Ranks' /\ DOMAIN Stream = Ranks
      /\ Thinned(Stream', Stream, {-1}, Stays) /\ Announcing' = Announcing
      /\ -1 \in Ranks /\ Stream[-1] = cur
  BY <1>1, CurDone
<1>3. /\ cur.client \in accepted /\ Misplaced = {}
      /\ \A r \in Ranks : Stream[r].type # "CLEAR"
  BY <1>1, CurIsDue
<1>4. Orderly(Stream', conn', accepted', handled', posted', Announcing')
  <2>1. Orderly(Stream', conn, accepted, handled, posted, Announcing)
    BY <1>1, <1>2, Thin DEF OrderInv
  <2> QED  BY <1>1, <1>2, <2>1
<1>5. ClearFits'
  BY <1>1, <1>2, <1>3, ClearsFit
<1>6. CurFits' /\ BackStands' /\ faults' = {}
  BY <1>1, <1>3 DEF OrderInv, CurFits, BackStands, Back, Removing
<1> QED  BY <1>2, <1>4, <1>5, <1>6 DEF OrderInv

\* The peer has closed.
LEMMA HandleFinKeepsOrder ==
    ASSUME IInv, IInv', OrderInv, ~raced', HandleFin
    PROVE  OrderInv'
<1>1. /\ pc = "handle" /\ cur.type = "FIN" /\ faults' = faults \cup Misplaced
      /\ pc' = "post" /\ cur' = cur
      /\ UNCHANGED <<queue, lwip, hand, conn, posted, handled, accepted, raced>>
  BY DEF HandleFin
<1>2. /\ MarkFits' /\ FrontStays' /\ Cleared' /\ DOMAIN Stream' = Ranks' /\ DOMAIN Stream = Ranks
      /\ Thinned(Stream', Stream, {-1}, Stays) /\ Announcing' = Announcing
      /\ -1 \in Ranks /\ Stream[-1] = cur /\ -1 \notin Ranks'
      /\ \A r \in Ranks : r # -1 => -1 < r
      /\ \A r \in Ranks' : r \in Ranks /\ Same(Stream'[r], Stream[r])
  BY <1>1, CurDone
<1>3. /\ cur.client \in accepted /\ Misplaced = {} /\ conn[cur.client] # "gone"
      /\ \A r \in Ranks : Stream[r].type # "CLEAR"
  BY <1>1, CurIsDue
<1>4. Orderly(Stream', conn', accepted', handled', posted', Announcing')
  <2>1. Orderly(Stream', conn, accepted, handled, posted, Announcing)
    BY <1>1, <1>2, Thin DEF OrderInv
  <2> QED  BY <1>1, <1>2, <2>1
<1>5. ClearFits'
  BY <1>1, <1>2, <1>3, ClearsFit
<1>6. conn[cur.client] = "ended" /\ \A r \in Ranks' : Stream'[r].client # cur.client
  BY <1>1, <1>2, <1>3 DEF OrderInv, Orderly, EndsLast, Same
<1>7. CurFits' /\ BackStands' /\ faults' = {}
  BY <1>1, <1>3, <1>6 DEF OrderInv, CurFits, BackStands, Back, Removing
<1> QED  BY <1>2, <1>4, <1>5, <1>7 DEF OrderInv

\* The connection has failed, and its client is deleted.
LEMMA HandleErrorKeepsOrder ==
    ASSUME IInv, IInv', OrderInv, ~raced', HandleError
    PROVE  OrderInv'
<1>1. /\ pc = "handle" /\ cur.type = "ERROR" /\ faults' = faults \cup Misplaced
      /\ pc' = "get" /\ Delete(cur.client) /\ UNCHANGED <<queue, lwip, hand, raced>>
  BY DEF HandleError, Done
<1>2. /\ MarkFits' /\ FrontStays' /\ Cleared' /\ DOMAIN Stream' = Ranks' /\ DOMAIN Stream = Ranks
      /\ Thinned(Stream', Stream, {-1}, Stays) /\ Announcing' = Announcing
      /\ -1 \in Ranks /\ Stream[-1] = cur /\ cur.client \in Clients
      /\ \A r \in Ranks : r # -1 => -1 < r
      /\ \A r \in Ranks' : r \in Ranks /\ Same(Stream'[r], Stream[r])
      /\ -1 \notin Ranks'
  BY <1>1, CurDone
<1>3. /\ cur.client \in accepted /\ Misplaced = {} /\ conn[cur.client] # "gone"
      /\ \A r \in Ranks : Stream[r].type # "CLEAR"
  BY <1>1, CurIsDue
<1>4. \A r \in Ranks : r # -1 => Stream[r].client # cur.client
  BY <1>1, <1>2, <1>3 DEF OrderInv, Orderly, EndsLast
<1>5. \A r \in Ranks' : Stream'[r].client = Stream[r].client /\ Stream'[r].type = Stream[r].type
  BY <1>2 DEF Same
<1>6. /\ conn' = [conn EXCEPT ![cur.client] = "gone"] /\ accepted' = accepted \ {cur.client}
      /\ handled' = [handled EXCEPT ![cur.client] = 0]
      /\ posted' = [posted EXCEPT ![cur.client] = 0]
  BY <1>1, <1>3 DEF Delete
<1>7. Orderly(Stream', conn', accepted', handled', posted', Announcing')
  <2>1. Orderly(Stream', conn, accepted, handled, posted, Announcing)
    BY <1>1, <1>2, Thin DEF OrderInv
  <2>2. \A r \in DOMAIN Stream' : Stream'[r].client \in Clients /\ Stream'[r].client # cur.client
    BY <1>2, <1>4, <1>5, Known
  <2> QED  BY <1>2, <1>3, <1>6, <2>1, <2>2, Deletes, Known
<1>8. ClearFits'
  BY <1>2, <1>3, <1>5 DEF ClearFits
<1>9. BackStands'
  <2>1. Back => 3 * Wide \in Ranks /\ 3 * Wide # -1 /\ Stream[3 * Wide] = lwip.event
    BY Known DEF Laid, Wide
  <2>2. Back => lwip.event.client \in Clients /\ lwip.event.client # cur.client
    BY <1>2, <1>4, <2>1, Known
  <2> QED  BY <1>1, <1>2, <1>6, <2>2, Known DEF OrderInv, BackStands, Back
<1>10. CurFits' /\ faults' = {}
  BY <1>1, <1>3 DEF OrderInv, CurFits, Removing
<1> QED  BY <1>2, <1>7, <1>8, <1>9, <1>10 DEF OrderInv

\* Away from the queue, nothing that is under way moves.
LEMMA Apart ==
    ASSUME IInv, OrderInv, UNCHANGED <<queue, lwip, hand>>,
           pc \in {"recved", "closing", "shut", "close"}, pc' \in {"get", "shut", "post"}
    PROVE  /\ MarkFits' /\ FrontStays' /\ Cleared' /\ Announcing' = Announcing
           /\ Ranks' = Ranks /\ Stream' = Stream
<1>1. ~Turning /\ ~Turning' /\ ~Due /\ ~Due' /\ Announcing' = Announcing /\ (Back <=> Back')
  BY DEF Turning, Due, Announcing, Removing, Back
<1>2. MarkFits' /\ Cut = 1 /\ Cut' = 1
  BY <1>1, NoMark
<1>3. Ranks' = Ranks /\ Stream' = Stream
  BY <1>1, <1>2, Known, Unmoved
<1> QED  BY <1>1, <1>2, <1>3 DEF FrontStays, Cleared

\* lwIP is told how much was read.
LEMMA RecvedKeepsOrder ==
    ASSUME IInv, IInv', OrderInv, ~raced', Recved
    PROVE  OrderInv'
<1>1. /\ pc \in {"recved", "closing"} /\ ((pc' = "shut" /\ cur' = cur) \/ pc' = "get")
      /\ UNCHANGED <<queue, lwip, hand, conn, posted, handled, accepted, faults, raced>>
  BY DEF Recved, Done
<1>2. /\ MarkFits' /\ FrontStays' /\ Cleared' /\ Announcing' = Announcing
      /\ Ranks' = Ranks /\ Stream' = Stream
  BY <1>1, Apart
<1>3. \A r \in Ranks : Stream[r].type # "CLEAR"
  BY <1>1, NoClear DEF Removing
<1> QED  BY <1>1, <1>2, <1>3 DEF OrderInv, CurFits, ClearFits, BackStands, Back, Removing

\* We close a connection, unless lwIP has ended it.
LEMMA ShutKeepsOrder ==
    ASSUME IInv, IInv', OrderInv, ~raced', Shut
    PROVE  OrderInv'
<1>1. /\ pc = "shut"
      /\ \/ /\ conn[cur.client] \in {"open", "failed"} /\ pc' = "post" /\ cur' = cur
            /\ conn' = [conn EXCEPT ![cur.client] = "closed"]
         \/ pc' = "get" /\ conn' = conn
      /\ UNCHANGED <<queue, lwip, hand, posted, handled, accepted, faults, raced>>
  BY DEF Shut, Done, HasPcb
<1>2. /\ MarkFits' /\ FrontStays' /\ Cleared' /\ Announcing' = Announcing
      /\ Ranks' = Ranks /\ Stream' = Stream
  BY <1>1, Apart
<1>3. /\ cur.client \in accepted /\ cur.client \in Clients /\ cur.type \in {"RECV", "POLL"}
      /\ \A r \in Ranks : Stream[r].type # "CLEAR"
  BY <1>1, NoClear, Known DEF Removing, OrderInv, CurFits
<1>4. CASE pc' = "get" /\ conn' = conn
  BY <1>1, <1>2, <1>3, <1>4 DEF OrderInv, CurFits, ClearFits, BackStands, Back, Removing
<1>5. CASE /\ conn[cur.client] \in {"open", "failed"} /\ pc' = "post" /\ cur' = cur
           /\ conn' = [conn EXCEPT ![cur.client] = "closed"]
  <2>1. Orderly(Stream', conn', accepted', handled', posted', Announcing')
    <3>1. Orderly(Stream, [conn EXCEPT ![cur.client] = "closed"], accepted, handled, posted, Announcing)
      BY <1>3, <1>5, Closes, Known DEF OrderInv
    <3> QED  BY <1>1, <1>2, <1>5, <3>1
  <2>2. conn'[cur.client] = "closed" /\ \A d \in Clients : d # cur.client => conn'[d] = conn[d]
    BY <1>3, <1>5, Known
  <2>3. CurFits'
    BY <1>1, <1>3, <1>5, <2>2 DEF CurFits, Removing
  <2>4. BackStands'
    BY <1>1, <1>5, <2>2, Known DEF OrderInv, BackStands, Back, IInv, TypeOK, Idle, Events
  <2> QED  BY <1>1, <1>2, <1>3, <2>1, <2>3, <2>4 DEF OrderInv, ClearFits
<1> QED  BY <1>1, <1>4, <1>5

\* The pcb is closed, and the client deleted.
LEMMA CloseKeepsOrder ==
    ASSUME IInv, IInv', OrderInv, ~raced', Close
    PROVE  OrderInv'
<1>1. /\ pc = "close" /\ pc' = "get" /\ lwip = Idle /\ Delete(cur.client)
      /\ UNCHANGED <<queue, lwip, hand, faults, raced>>
  BY DEF Close, Done
<1>2. /\ MarkFits' /\ FrontStays' /\ Cleared' /\ Announcing' = Announcing
      /\ Ranks' = Ranks /\ Stream' = Stream
  BY <1>1, Apart
<1>3. /\ cur.client \in accepted /\ cur.client \in Clients /\ Clears(Stream, cur.client)
      /\ DOMAIN Stream = Ranks /\ ~Back'
  BY <1>1, Known DEF OrderInv, CurFits, Back
<1>4. /\ conn' = [conn EXCEPT ![cur.client] = "gone"] /\ accepted' = accepted \ {cur.client}
      /\ handled' = [handled EXCEPT ![cur.client] = 0]
      /\ posted' = [posted EXCEPT ![cur.client] = 0]
  BY <1>1, <1>3 DEF Delete
<1>5. Orderly(Stream', conn', accepted', handled', posted', Announcing')
  <2>1. Orderly(Stream, conn, accepted, handled, posted, Announcing)
    BY DEF OrderInv
  <2> QED  BY <1>2, <1>3, <1>4, <2>1, Deletes, Known
<1>6. ClearFits'
  <2>1. ASSUME NEW r \in Ranks, Stream[r].type = "CLEAR" PROVE conn'[Stream[r].client] = "gone"
    <3>1. Stream[r].client \in Clients
      BY <1>3, Known
    <3>2. Stream[r].client = cur.client \/ conn[Stream[r].client] = "gone"
      BY <2>1 DEF OrderInv, ClearFits
    <3> QED  BY <1>4, <3>1, <3>2, Known
  <2> QED  BY <1>1, <1>2, <2>1 DEF ClearFits
<1>7. CurFits' /\ BackStands' /\ faults' = {}
  BY <1>1, <1>3 DEF OrderInv, CurFits, BackStands, Removing
<1> QED  BY <1>2, <1>5, <1>6, <1>7 DEF OrderInv

\* A CLEAR is put at the front; after a FIN the client is deleted with it.
LEMMA PostClearKeepsOrder ==
    ASSUME IInv, IInv', OrderInv, ~raced', PostClear
    PROVE  OrderInv'
<1> DEFINE e == Event("CLEAR", cur.client, 0)
           N == Len(queue)
<1>1. /\ pc = "post" /\ queue' = <<e>> \o queue /\ UNCHANGED <<lwip, hand, faults, raced>>
      /\ \/ cur.type = "FIN" /\ Delete(cur.client) /\ pc' = "get"
         \/ cur.type # "FIN" /\ pc' = "close" /\ UNCHANGED <<cur, conn, posted, handled, accepted>>
  BY DEF PostClear, Done
<1>2. /\ cur.client \in accepted /\ cur.client \in Clients /\ cur.type \in {"RECV", "POLL", "FIN"}
      /\ IF cur.type = "FIN"
         THEN conn[cur.client] = "ended" /\ \A r \in Ranks : Stream[r].client # cur.client
         ELSE conn[cur.client] = "closed"
      /\ \A r \in Ranks : Stream[r].type # "CLEAR"
  BY <1>1, Known, NoClear DEF OrderInv, CurFits, Removing
<1>3. e.type = "CLEAR" /\ e.client = cur.client /\ ~e.first /\ e \in Events
  BY <1>2, QueueAssumption, EventTyped DEF Event, Types
<1> HIDE DEF e
<1>4. /\ ~Turning /\ ~Turning' /\ Cut = 1 /\ Cut' = 1 /\ ~Due /\ ~Due' /\ pc' \notin {"keep", "requeue"}
      /\ Announcing' = Announcing /\ (Back <=> Back')
  BY <1>1 DEF Turning, Removing, Cut, Due, Announcing, Back
<1>5. /\ queue \in Seq(Events) /\ N \in Nat /\ \A j \in 1..N : ~queue[j].first
      /\ Len(queue') = N + 1 /\ queue'[1] = e /\ \A i \in 2..N + 1 : queue'[i] = queue[i - 1]
  BY <1>1, <1>3, <1>4, Known DEF OrderInv, MarkFits
<1>6. MarkFits'
  <2>1. \A i \in 1..N + 1 : i = 1 \/ (i \in 2..N + 1 /\ i - 1 \in 1..N)
    BY <1>5
  <2>2. \A i \in 1..N + 1 : ~queue'[i].first
    BY <1>3, <1>5, <2>1
  <2> QED  BY <1>1, <1>4, <1>5, <2>2 DEF OrderInv, MarkFits
<1>7. Laid /\ Laid'
  BY <1>6, Known, LaidNext
<1>8. /\ DOMAIN Stream' = Ranks' /\ Ranks' \subseteq Int
      /\ DOMAIN Stream = Ranks /\ Ranks \subseteq Int
  BY <1>7 DEF Laid
<1>9. /\ Thinned(Without(1)', Stream, {}, MovesDown)
      /\ Added(Stream', Without(1)', 1) /\ Stream'[1] = e
  BY <1>1, <1>3, <1>4, <1>5, <1>7, PutAtFront
<1>10. /\ DOMAIN Without(1)' = Ranks' \ {1}
       /\ \A r \in Ranks' \ {1} : Without(1)'[r] = Stream'[r] /\ \E q \in Ranks : Same(Stream'[r], Stream[q])
  <2>1. DOMAIN Without(1)' = Ranks' \ {1} /\ \A r \in Ranks' \ {1} : Without(1)'[r] = Stream'[r]
    BY DEF Without
  <2> QED  BY <1>8, <1>9, <2>1 DEF Thinned
<1>11. /\ Orderly(Stream', conn, accepted, handled, posted, Announcing)
       /\ Clears(Stream', cur.client)
  <2>1. Orderly(Without(1)', conn, accepted, handled, posted, Announcing)
    BY <1>9, Thin DEF OrderInv
  <2>2. \A r \in DOMAIN Without(1)' : 1 < r /\ Without(1)'[r].type # "CLEAR"
    <3>1. \A r \in Int : r \in Ranks' /\ r # 1 => 1 < r
      BY <1>4, <1>7 DEF Laid
    <3>2. \A r \in Ranks' \ {1} : Stream'[r].type # "CLEAR"
      BY <1>2, <1>10 DEF Same
    <3>3. \A r \in Ranks' \ {1} : r \in Int /\ 1 < r
      BY <1>8, <3>1
    <3> QED  BY <1>10, <3>2, <3>3
  <2> QED  BY <1>2, <1>3, <1>9, <2>1, <2>2, AddClear
<1>12. \A r \in Ranks' : Stream'[r].type = "CLEAR" => Stream'[r].client = cur.client
  BY <1>2, <1>3, <1>9, <1>10 DEF Same
<1>13. FrontStays' /\ Cleared' /\ faults' = {}
  BY <1>1, <1>4 DEF FrontStays, Cleared, OrderInv
<1>14. CASE cur.type # "FIN"
  <2>1. pc' = "close" /\ UNCHANGED <<cur, conn, posted, handled, accepted>>
    BY <1>1, <1>14
  <2>2. Orderly(Stream', conn', accepted', handled', posted', Announcing')
    BY <1>4, <1>11, <2>1
  <2>3. CurFits' /\ ClearFits' /\ BackStands'
    BY <1>1, <1>2, <1>4, <1>11, <1>12, <1>14, <2>1 DEF OrderInv, CurFits, ClearFits, BackStands, Removing
  <2> QED  BY <1>6, <1>13, <2>2, <2>3 DEF OrderInv
<1>15. CASE cur.type = "FIN"
  <2>1. pc' = "get" /\ Delete(cur.client)
    BY <1>1, <1>15
  <2>2. /\ conn' = [conn EXCEPT ![cur.client] = "gone"] /\ accepted' = accepted \ {cur.client}
        /\ handled' = [handled EXCEPT ![cur.client] = 0]
        /\ posted' = [posted EXCEPT ![cur.client] = 0]
    BY <1>2, <2>1 DEF Delete
  <2>3. \A r \in DOMAIN Stream' : Stream'[r].client \in Clients
    BY <1>2, <1>3, <1>8, <1>9, <1>10, Known DEF Same
  <2>4. Orderly(Stream', conn', accepted', handled', posted', Announcing')
    BY <1>2, <1>4, <1>11, <2>2, <2>3, Deletes, Known
  <2>5. conn'[cur.client] = "gone" /\ \A d \in Clients : d # cur.client => conn'[d] = conn[d]
    BY <1>2, <2>2, Known
  <2>6. BackStands'
    <3>1. Back => 3 * Wide \in Ranks /\ Stream[3 * Wide] = lwip.event
      BY <1>7 DEF Laid, Wide
    <3>2. Back => lwip.event.client \in Clients /\ lwip.event.client # cur.client
      BY <1>2, <1>8, <1>15, <3>1, Known
    <3> QED  BY <1>1, <1>4, <2>5, <3>2 DEF OrderInv, BackStands
  <2>7. CurFits' /\ ClearFits'
    BY <1>12, <2>1, <2>5 DEF CurFits, ClearFits, Removing
  <2> QED  BY <1>6, <1>13, <2>4, <2>6, <2>7 DEF OrderInv
<1> QED  BY <1>14, <1>15

\* The mark is found where it was put.
LEMMA MarkNext == (\A m \in 1..Len(queue) : (\A i \in 1..Len(queue) : queue[i].first <=> i = m) => Mark = m)'
<1>1. \A m \in 1..Len(queue) : (\A i \in 1..Len(queue) : queue[i].first <=> i = m) => Mark = m
  BY MarkIs
<1> QED  BY <1>1, PTL

\* The removal of a client that was discarded begins.
LEMMA HandleClearKeepsOrder ==
    ASSUME IInv, IInv', OrderInv, ~raced', HandleClear
    PROVE  OrderInv'
<1>1. /\ pc = "handle" /\ pc' = "seek" /\ cur.type = "CLEAR"
      /\ UNCHANGED <<queue, cur, hand, faults, lwip, conn, posted, handled, accepted, raced>>
  BY DEF HandleClear, Rest
<1>2. ~Turning /\ ~Turning' /\ Due /\ Due' /\ Announcing' = Announcing
  BY <1>1 DEF Turning, Due, Announcing, Removing
<1>3. MarkFits' /\ Cut = 1 /\ Cut' = 1
  BY <1>1, <1>2, NoMark
<1>4. Ranks' = Ranks /\ Stream' = Stream
  BY <1>1, <1>2, <1>3, Known, Unmoved DEF Back
<1>5. CurFits' /\ ClearFits' /\ BackStands' /\ FrontStays' /\ Cleared'
  BY <1>1, <1>2, <1>4 DEF OrderInv, CurFits, ClearFits, BackStands, FrontStays, Cleared, Removing, Back
<1> QED  BY <1>1, <1>2, <1>3, <1>4, <1>5 DEF OrderInv

\* Inside a removal: the CLEAR comes first, its client is gone, and nothing that
\* is under way for it is an ACCEPT, a second CLEAR, or what lwIP waits to put.
LEMMA Inside ==
    ASSUME IInv, OrderInv, pc \in Removing
    PROVE  /\ Due /\ -1 \in Ranks /\ Stream[-1] = cur /\ cur.type = "CLEAR" /\ cur.client \in Clients
           /\ conn[cur.client] = "gone"
           /\ \A r \in Ranks : r # -1 => Stream[r].type # "CLEAR"
           /\ \A r \in Ranks : Stream[r].client = cur.client => Stream[r].type # "ACCEPT"
           /\ Back => lwip.event.client # cur.client
<1>1. Due /\ -1 \in Ranks /\ Stream[-1] = cur /\ cur.type = "CLEAR"
  BY Known DEF Laid, Due, OrderInv, CurFits
<1>2. cur.client \in Clients
  BY <1>1, Known
<1>3. conn[cur.client] = "gone"
  BY <1>1 DEF OrderInv, ClearFits, Removing
<1>4. \A r \in Int : r \in Ranks /\ r # -1 => -1 < r
  <2>1. Laid
    BY Known
  <2> QED  BY <2>1 DEF Laid
<1>5. \A r \in Ranks : r # -1 => Stream[r].type # "CLEAR"
  BY <1>1, <1>4, Known DEF OrderInv, Orderly, ClearsFirst
<1>6. \A r \in Ranks : Stream[r].client = cur.client => Stream[r].type # "ACCEPT"
  BY <1>3, Known DEF OrderInv, Orderly, Attended
<1>7. Back => lwip.event.client # cur.client
  BY <1>3 DEF OrderInv, BackStands
<1> QED  BY <1>1, <1>2, <1>3, <1>5, <1>6, <1>7

\* The removal ends when no event of the client is left.
LEMMA RemovalEnds ==
    ASSUME IInv, IInv', OrderInv, pc \in {"seek", "scan"}, pc' = "get", Cut = 1,
           UNCHANGED <<lwip, hand, faults, conn, posted, handled, accepted, raced>>,
           Len(queue') = Len(queue),
           \A i \in 1..Len(queue) : Same(queue'[i], queue[i]) /\ ~queue'[i].first,
           \A i \in 1..Len(queue) : queue[i].client # cur.client
    PROVE  OrderInv'
<1>1. Due /\ ~Due' /\ ~Turning' /\ Cut' = 1 /\ Announcing' = Announcing
  BY DEF Due, Removing, Turning, Cut, Announcing
<1>2. MarkFits'
  BY <1>1 DEF OrderInv, MarkFits
<1>3. Laid /\ Laid'
  BY <1>2, Known, LaidNext
<1>4. Thinned(Stream', Stream, {-1}, Stays)
  BY <1>1, <1>3, CurGoes
<1>5. /\ -1 \in Ranks /\ Stream[-1] = cur /\ cur.type = "CLEAR"
      /\ Back => lwip.event.client # cur.client
  BY Inside DEF Removing
<1>6. /\ DOMAIN Stream' = Ranks' /\ DOMAIN Stream = Ranks /\ Ranks \subseteq Int
  BY <1>3 DEF Laid
<1>7. ASSUME NEW r \in Int, r \in Ranks, r # -1 PROVE Stream[r].client # cur.client
  <2>1. \/ 1 <= r /\ r <= Len(queue)
        \/ r = 3 * Wide /\ Back
    BY <1>3, <1>7 DEF Laid
  <2>2. Len(queue) \in Nat
    BY Known
  <2>3. CASE 1 <= r /\ r <= Len(queue)
    <3>1. Stream[r] = queue[r]
      BY <1>3, <2>3 DEF Laid
    <3> QED  BY <2>2, <2>3, <3>1
  <2>4. CASE r = 3 * Wide /\ Back
    BY <1>3, <1>5, <2>4 DEF Laid
  <2> QED  BY <2>1, <2>3, <2>4
<1>8. Orderly(Stream', conn', accepted', handled', posted', Announcing')
  <2>1. \A r \in DOMAIN Stream \ {-1} : Stream[r].client # cur.client
    BY <1>6, <1>7
  <2>2. Orderly(Stream', conn, accepted, handled, posted, Announcing)
    BY <1>4, <1>5, <1>6, <2>1, Thin DEF OrderInv
  <2> QED  BY <1>1, <2>2
<1>9. ClearFits'
  BY <1>4, <1>6, ClearsFit DEF Removing
<1>10. CurFits' /\ BackStands' /\ FrontStays' /\ Cleared' /\ faults' = {}
  BY <1>1 DEF OrderInv, CurFits, BackStands, FrontStays, Cleared, Removing, Back
<1> QED  BY <1>2, <1>8, <1>9, <1>10 DEF OrderInv

\* The events of the client at the front go, up to the first that stays.
LEMMA SeekKeepsOrder ==
    ASSUME IInv, IInv', OrderInv, ~raced', Seek
    PROVE  OrderInv'
<1>1. /\ pc = "seek" /\ UNCHANGED <<faults, lwip, conn, posted, handled, accepted, raced>>
      /\ \/ queue = <<>> /\ pc' = "get" /\ UNCHANGED <<queue, hand>>
         \/ /\ queue # <<>> /\ queue' = Tail(queue) /\ cur' = cur
            /\ IF SameArg(Head(queue), cur) THEN UNCHANGED <<pc, hand>>
               ELSE pc' = "keep" /\ hand' = [Head(queue) EXCEPT !.first = TRUE]
  BY DEF Seek, Rest, Done
<1>2. ~Turning /\ Cut = 1 /\ Due
  BY <1>1 DEF Turning, Cut, Due, Removing
<1>3. CASE queue = <<>> /\ pc' = "get" /\ UNCHANGED <<queue, hand>>
  <2>1. Len(queue) = 0
    BY <1>3
  <2>2. \A i \in 1..Len(queue) : FALSE
    BY <2>1
  <2> QED  BY <1>1, <1>2, <1>3, <2>2, RemovalEnds
<1>4. CASE /\ queue # <<>> /\ queue' = Tail(queue) /\ cur' = cur
           /\ IF SameArg(Head(queue), cur) THEN UNCHANGED <<pc, hand>>
              ELSE pc' = "keep" /\ hand' = [Head(queue) EXCEPT !.first = TRUE]
  <2>1. /\ Len(queue) \in Nat /\ Len(queue) >= 1 /\ Head(queue) = queue[1] /\ queue[1] \in Events
        /\ Len(queue') = Len(queue) - 1 /\ \A i \in 1..Len(queue) - 1 : queue'[i] = queue[i + 1]
    BY <1>4, Known, EmptySeq, HeadTailProperties
  <2>2. ~Turning' /\ Cut' = 1 /\ Due' /\ Announcing' = Announcing /\ pc' \in {"seek", "keep"}
    BY <1>1, <1>4 DEF Turning, Cut, Due, Removing, Announcing
  <2>3. MarkFits'
    <3>1. \A i \in 1..Len(queue) - 1 : i + 1 \in 1..Len(queue)
      BY <2>1
    <3>2. \A i \in 1..Len(queue') : ~queue'[i].first
      BY <1>2, <2>1, <3>1 DEF OrderInv, MarkFits
    <3>3. pc' = "keep" => hand'.first
      BY <1>1, <1>4, <2>1 DEF Events
    <3> QED  BY <1>1, <2>2, <3>2, <3>3 DEF OrderInv, MarkFits
  <2>4. Laid /\ Laid'
    BY <2>3, Known, LaidNext
  <2>5. 1 \in Ranks /\ Stream[1] = queue[1] /\ DOMAIN Stream' = Ranks' /\ DOMAIN Stream = Ranks
    BY <1>2, <2>1, <2>4 DEF Laid
  <2>6. Stream[1].type # "CLEAR" /\ cur.type = "CLEAR" /\ conn[cur.client] = "gone"
        /\ (Stream[1].client = cur.client => Stream[1].type # "ACCEPT")
    BY <1>1, <2>5, Inside DEF Removing
  <2>7. CurFits' /\ BackStands' /\ faults' = {}
    BY <1>1, <1>4, <2>2, <2>6 DEF OrderInv, CurFits, BackStands, Removing, Back
  <2>8. CASE SameArg(Head(queue), cur)
    <3>1. pc' = "seek" /\ Stream[1].client = cur.client /\ Stream[1].type # "ACCEPT"
      BY <1>1, <1>4, <2>1, <2>5, <2>8 DEF SameArg
    <3>2. Thinned(Stream', Stream, {1}, MovesUp)
      BY <1>1, <1>2, <1>4, <2>2, <2>4, <3>1, Known, FrontTaken
    <3>3. Orderly(Stream', conn', accepted', handled', posted', Announcing')
      <4>1. Orderly(Stream', conn, accepted, handled, posted, Announcing)
        BY <2>5, <2>6, <3>1, <3>2, Thin DEF OrderInv
      <4> QED  BY <1>1, <2>2, <4>1
    <3>4. ClearFits' /\ FrontStays' /\ Cleared'
      BY <1>1, <2>2, <2>5, <3>1, <3>2, ClearsFit DEF FrontStays, Cleared, Removing
    <3> QED  BY <2>3, <2>7, <3>3, <3>4 DEF OrderInv
  <2>9. CASE ~SameArg(Head(queue), cur)
    <3>1. pc' = "keep" /\ hand' = [queue[1] EXCEPT !.first = TRUE]
      BY <1>4, <2>1, <2>9
    <3>2. Same(hand', queue[1]) /\ hand'.client = queue[1].client
      BY <2>1, <3>1 DEF Same, Events
    <3>3. Thinned(Stream', Stream, {}, MovesUp)
      BY <1>1, <1>2, <1>4, <2>2, <2>4, <3>1, <3>2, Known, FrontTaken
    <3>4. Orderly(Stream', conn', accepted', handled', posted', Announcing')
      <4>1. Orderly(Stream', conn, accepted, handled, posted, Announcing)
        BY <3>3, Thin DEF OrderInv
      <4> QED  BY <1>1, <2>2, <4>1
    <3>5. ClearFits'
      BY <1>1, <2>2, <2>5, <3>1, <3>3, ClearsFit DEF Removing
    <3>6. hand'.client # cur.client
      BY <2>1, <2>5, <2>6, <2>9, <3>2 DEF SameArg
    <3>7. Len(queue') < QueueSize
      BY <2>1, Known
    <3>8. FrontStays' /\ Cleared'
      BY <1>1, <1>4, <2>2, <3>1, <3>6, <3>7 DEF FrontStays, Cleared
    <3> QED  BY <2>3, <2>7, <3>4, <3>5, <3>8 DEF OrderInv
  <2> QED  BY <2>8, <2>9
<1> QED  BY <1>1, <1>3, <1>4

\* The round through the queue is at its end, or goes on.
LEMMA ScanKeepsOrder ==
    ASSUME IInv, IInv', OrderInv, ~raced', Scan
    PROVE  OrderInv'
<1>1. /\ pc = "scan" /\ UNCHANGED <<hand, faults, lwip, conn, posted, handled, accepted, raced>>
      /\ IF queue = <<>> \/ Head(queue).first THEN pc' = "get" /\ queue' = Unmarked
         ELSE pc' = "scanTake" /\ UNCHANGED <<queue, cur>>
  BY DEF Scan, Rest, Done
<1>2. Turning /\ Due
  BY <1>1 DEF Turning, Due, Removing
<1>3. PICK m \in 1..Len(queue) : \A i \in 1..Len(queue) : queue[i].first <=> i = m
  BY <1>2 DEF OrderInv, MarkFits
<1>4. Mark = m /\ Cut = m
  BY <1>2, <1>3, MarkIs DEF Cut
<1>5. Laid /\ Len(queue) \in Nat /\ Len(queue) >= 1 /\ Head(queue) = queue[1] /\ queue # <<>>
      /\ queue \in Seq(Events)
  BY <1>3, Known, EmptySeq
<1>6. (Head(queue).first <=> m = 1) /\ m \in Int
  BY <1>3, <1>5
<1>7. CASE m = 1
  <2>1. pc' = "get" /\ queue' = Unmarked
    BY <1>1, <1>5, <1>6, <1>7
  <2>2. /\ DOMAIN queue = 1..Len(queue) /\ \A i \in 1..Len(queue) : queue[i] \in Events
    BY <1>5
  <2>3. Len(queue') = Len(queue)
    <3>1. DOMAIN queue' = 1..Len(queue') /\ Len(queue') \in Nat
      BY DEF IInv, TypeOK
    <3>2. 1..Len(queue') = 1..Len(queue)
      BY <2>1, <2>2, <3>1 DEF Unmarked
    <3>3. Len(queue) <= Len(queue')
      BY <1>5, <3>2
    <3>4. Len(queue') <= Len(queue)
      BY <1>5, <3>1, <3>2, <3>3
    <3> QED  BY <1>5, <3>1, <3>3, <3>4
  <2>4. \A i \in 1..Len(queue) : Same(queue'[i], queue[i]) /\ ~queue'[i].first
    BY <2>1, <2>2 DEF Unmarked, Same, Events
  <2>5. ASSUME NEW i \in 1..Len(queue) PROVE queue[i].client # cur.client
    <3>1. i \in Ranks /\ Stream[i] = queue[i] /\ i \in 1..Wide
      BY <1>4, <1>5, <1>7 DEF Laid
    <3> QED  BY <1>2, <3>1 DEF OrderInv, Cleared
  <2> QED  BY <1>1, <1>4, <1>7, <2>1, <2>3, <2>4, <2>5, RemovalEnds
<1>8. CASE m # 1
  <2>1. pc' = "scanTake" /\ UNCHANGED <<queue, cur>>
    BY <1>1, <1>5, <1>6, <1>8
  <2>2. Turning' /\ Due' /\ Announcing' = Announcing /\ Cut' = Cut /\ Mark' = Mark
    BY <1>2, <2>1, <1>1 DEF Turning, Due, Removing, Announcing, Cut, Mark
  <2>3. MarkFits'
    BY <1>1, <1>2, <2>1, <2>2 DEF OrderInv, MarkFits
  <2>4. Ranks' = Ranks /\ Stream' = Stream
    BY <1>1, <1>2, <1>5, <2>1, <2>2, Unmoved DEF Back
  <2>5. FrontStays'
    BY <1>4, <1>8, <2>1, <2>2 DEF FrontStays
  <2>6. CurFits' /\ ClearFits' /\ BackStands' /\ Cleared'
    BY <1>1, <1>2, <2>1, <2>2, <2>4 DEF OrderInv, CurFits, ClearFits, BackStands, Cleared, Removing, Back
  <2> QED  BY <1>1, <2>1, <2>2, <2>3, <2>4, <2>5, <2>6 DEF OrderInv
<1> QED  BY <1>7, <1>8

\* The next event is taken off, and kept in hand or freed.
LEMMA ScanTakeKeepsOrder ==
    ASSUME IInv, IInv', OrderInv, ~raced', ScanTake
    PROVE  OrderInv'
<1>1. /\ pc = "scanTake" /\ queue' = Tail(queue)
      /\ UNCHANGED <<cur, faults, lwip, conn, posted, handled, accepted, raced>>
      /\ IF SameArg(Head(queue), cur) THEN pc' = "scan" /\ UNCHANGED hand
         ELSE pc' = "requeue" /\ hand' = Head(queue)
  BY DEF ScanTake, Rest
<1>2. Turning /\ Due /\ Turning' /\ Due' /\ Announcing' = Announcing /\ pc' \in {"scan", "requeue"}
  BY <1>1 DEF Turning, Due, Removing, Announcing
<1>3. PICK m \in 1..Len(queue) : \A i \in 1..Len(queue) : queue[i].first <=> i = m
  BY <1>2 DEF OrderInv, MarkFits
<1>4. Mark = m /\ Cut = m /\ m # 1
  BY <1>1, <1>2, <1>3, MarkIs DEF Cut, OrderInv, FrontStays
<1>5. /\ Laid /\ queue \in Seq(Events) /\ queue # <<>> /\ Head(queue) = queue[1]
      /\ Len(queue) \in Nat /\ Len(queue) >= 2 /\ m \in 2..Len(queue) /\ Len(queue) <= QueueSize
      /\ QueueSize \in Nat
  BY <1>3, <1>4, Known, EmptySeq
<1>6. /\ Len(queue') = Len(queue) - 1 /\ queue[1] \in Events /\ ~queue[1].first
      /\ \A i \in 1..Len(queue) - 1 : queue'[i] = queue[i + 1]
  BY <1>1, <1>3, <1>5, HeadTailProperties
<1>7. m - 1 \in 1..Len(queue') /\ \A i \in 1..Len(queue') : queue'[i].first <=> i = m - 1
  <2>1. \A i \in 1..Len(queue) - 1 : i + 1 \in 1..Len(queue) /\ (i + 1 = m <=> i = m - 1)
    BY <1>5
  <2>2. \A i \in 1..Len(queue) - 1 : queue'[i].first <=> i = m - 1
    BY <1>3, <1>6, <2>1
  <2> QED  BY <1>5, <1>6, <2>2
<1>8. MarkFits'
  <2>1. pc' = "requeue" => ~hand'.first
    BY <1>1, <1>5, <1>6
  <2> QED  BY <1>1, <1>2, <1>7, <2>1 DEF OrderInv, MarkFits
<1>9. Cut' = Cut - 1
  <2>1. Mark' = m - 1
    BY <1>7, MarkNext
  <2> QED  BY <1>2, <1>4, <2>1 DEF Cut
<1>10. Laid'
  BY <1>8, LaidNext
<1>11. /\ Wide + 1 \in Ranks /\ Stream[Wide + 1] = queue[1]
       /\ DOMAIN Stream' = Ranks' /\ DOMAIN Stream = Ranks /\ Wide \in Nat
  <2>1. Wide + 1 \in Int /\ Wide < Wide + 1 /\ Wide + 1 < Wide + Cut /\ Wide \in Nat
    BY <1>4, <1>5 DEF Laid
  <2> QED  BY <1>4, <1>5, <1>10, <2>1 DEF Laid
<1>12. /\ queue[1].type # "CLEAR" /\ cur.type = "CLEAR" /\ conn[cur.client] = "gone"
       /\ (queue[1].client = cur.client => queue[1].type # "ACCEPT")
  <2>1. Wide + 1 # -1
    BY <1>11
  <2> QED  BY <1>1, <1>11, <2>1, Inside DEF Removing
<1>13. CurFits' /\ BackStands' /\ faults' = {}
  BY <1>1, <1>2, <1>12 DEF OrderInv, CurFits, BackStands, Removing, Back
<1>14. FrontStays'
  BY <1>1, <1>2, <1>5, <1>6 DEF FrontStays
<1>15. Cleared'
  <2>1. ASSUME NEW r \in Int, r \in Ranks', r \in 1..Wide PROVE Stream'[r].client # cur.client
    <3>1. CASE r = Wide /\ pc' = "requeue"
      <4>1. Stream'[Wide] = queue[1]
        BY <1>1, <1>5, <1>10, <3>1 DEF Laid
      <4>2. ~SameArg(queue[1], cur)
        BY <1>1, <1>5, <3>1
      <4> QED  BY <1>12, <3>1, <4>1, <4>2 DEF SameArg
    <3>2. CASE ~(r = Wide /\ pc' = "requeue")
      <4>1. Cut' <= r /\ r <= Len(queue')
        <5>1. r # 3 * Wide /\ r # -1 /\ r # 0 /\ r <= Wide
          BY <1>11, <2>1
        <5> QED  BY <1>1, <1>2, <1>10, <1>11, <2>1, <3>2, <5>1 DEF Laid
      <4>2. Cut <= r + 1 /\ r + 1 <= Len(queue) /\ r \in 1..Len(queue) - 1
        BY <1>4, <1>5, <1>6, <1>9, <4>1
      <4>3. Stream'[r] = queue'[r] /\ queue'[r] = queue[r + 1]
        BY <1>6, <1>10, <4>1, <4>2 DEF Laid
      <4>4. r + 1 \in Ranks /\ Stream[r + 1] = queue[r + 1] /\ r + 1 \in 1..Wide
        BY <1>5, <4>2 DEF Laid
      <4> QED  BY <1>2, <4>3, <4>4 DEF OrderInv, Cleared
    <3> QED  BY <3>1, <3>2
  <2>2. Ranks' \subseteq Int
    BY <1>10 DEF Laid
  <2> QED  BY <1>1, <1>2, <2>1, <2>2 DEF Cleared
<1>16. CASE pc' = "scan"
  <2>1. queue[1].client = cur.client /\ queue[1].type # "ACCEPT"
    BY <1>1, <1>5, <1>16 DEF SameArg
  <2>2. PICK x : x = Wide + 1
    OBVIOUS
  <2>3. Thinned(Stream', Stream, {x}, MovesUp)
    BY <1>1, <1>2, <1>4, <1>5, <1>9, <1>10, <1>16, <2>2, NextTaken
  <2>4. x \in DOMAIN Stream /\ Stream[x] = queue[1]
    BY <1>11, <2>2
  <2>5. Orderly(Stream', conn, accepted, handled, posted, Announcing)
    BY <1>12, <2>1, <2>3, <2>4, Thin DEF OrderInv
  <2>6. ClearFits'
    BY <1>1, <1>2, <1>11, <1>16, <2>3, ClearsFit DEF Removing
  <2> QED  BY <1>1, <1>2, <1>8, <1>13, <1>14, <1>15, <2>5, <2>6 DEF OrderInv
<1>17. CASE pc' = "requeue"
  <2>1. hand' = queue[1]
    BY <1>1, <1>5, <1>17
  <2>2. Thinned(Stream', Stream, {}, MovesUp)
    BY <1>1, <1>2, <1>4, <1>5, <1>9, <1>10, <1>17, <2>1, NextTaken
  <2>3. Orderly(Stream', conn, accepted, handled, posted, Announcing)
    BY <2>2, Thin DEF OrderInv
  <2>4. ClearFits'
    BY <1>1, <1>2, <1>11, <1>17, <2>2, ClearsFit DEF Removing
  <2> QED  BY <1>1, <1>2, <1>8, <1>13, <1>14, <1>15, <2>3, <2>4 DEF OrderInv
<1> QED  BY <1>2, <1>16, <1>17

\* The event in hand is put at the back; the first of them is the mark.
LEMMA PutBackKeepsOrder ==
    ASSUME IInv, IInv', OrderInv, ~raced', PutBack
    PROVE  OrderInv'
<1> DEFINE N == Len(queue)
<1>1. /\ pc \in {"keep", "requeue"} /\ Len(queue) < QueueSize
      /\ queue' = Append(queue, hand) /\ pc' = "scan" /\ hand \in Events
      /\ UNCHANGED <<cur, faults, lwip, conn, posted, handled, accepted, raced>>
  BY DEF PutBack, Rest, OrderInv, FrontStays, IInv, HasEvent
<1>2. Due /\ Turning' /\ Due' /\ Announcing' = Announcing
  BY <1>1 DEF Turning, Due, Removing, Announcing
<1>3. /\ Laid /\ queue \in Seq(Events) /\ N \in Nat /\ Len(queue') = N + 1 /\ queue'[N + 1] = hand
      /\ \A i \in 1..N : queue'[i] = queue[i]
  BY <1>1, Known, AppendProperties
<1>4. \A i \in 1..N + 1 : i = N + 1 \/ (i \in 1..N /\ i # N + 1)
  BY <1>3
<1>5. CurFits' /\ BackStands' /\ FrontStays' /\ faults' = {}
  BY <1>1, <1>2 DEF OrderInv, CurFits, BackStands, FrontStays, Removing, Back
<1>6. CASE pc = "keep"
  <2>1. ~Turning /\ Cut = 1
    BY <1>6 DEF Turning, Cut
  <2>2. N + 1 \in 1..Len(queue') /\ \A i \in 1..Len(queue') : queue'[i].first <=> i = N + 1
    BY <1>3, <1>4, <1>6, <2>1 DEF OrderInv, MarkFits
  <2>3. MarkFits'
    BY <1>1, <1>2, <2>2 DEF OrderInv, MarkFits
  <2>4. Cut' = N + 1
    BY <1>2, <2>2, MarkNext DEF Cut
  <2>5. Laid'
    BY <2>3, LaidNext
  <2>6. Thinned(Stream', Stream, {}, FromFront(N))
    BY <1>1, <1>2, <1>3, <1>6, <2>1, <2>4, <2>5, MarkPut
  <2>7. Orderly(Stream', conn, accepted, handled, posted, Announcing)
    BY <2>6, Thin DEF OrderInv
  <2>8. DOMAIN Stream' = Ranks' /\ DOMAIN Stream = Ranks /\ Ranks' \subseteq Int
    BY <1>3, <2>5 DEF Laid
  <2>9. ClearFits'
    BY <1>1, <1>6, <2>6, <2>8, ClearsFit DEF Removing
  <2>10. Cleared'
    <3>1. ASSUME NEW r \in Int, r \in Ranks', r \in 1..Wide PROVE r = N + 1
      BY <1>1, <1>3, <2>4, <2>5, <3>1 DEF Laid
    <3>2. Stream'[N + 1] = hand
      BY <1>3, <2>4, <2>5 DEF Laid
    <3>3. hand.client # cur.client
      BY <1>6 DEF OrderInv, Cleared
    <3> QED  BY <1>1, <2>8, <3>1, <3>2, <3>3 DEF Cleared
  <2> QED  BY <1>1, <1>2, <1>5, <2>3, <2>7, <2>9, <2>10 DEF OrderInv
<1>7. CASE pc = "requeue"
  <2>1. Turning
    BY <1>7 DEF Turning
  <2>2. PICK m \in 1..N : \A i \in 1..N : queue[i].first <=> i = m
    BY <2>1 DEF OrderInv, MarkFits
  <2>3. Cut = m
    BY <2>1, <2>2, MarkIs DEF Cut
  <2>4. m \in 1..Len(queue') /\ \A i \in 1..Len(queue') : queue'[i].first <=> i = m
    BY <1>3, <1>4, <1>7, <2>2 DEF OrderInv, MarkFits
  <2>5. MarkFits'
    BY <1>1, <1>2, <2>4 DEF OrderInv, MarkFits
  <2>6. Cut' = m
    BY <1>2, <2>4, MarkNext DEF Cut
  <2>7. Laid' /\ Wide \in Int
    BY <1>3, <2>5, LaidNext DEF Laid
  <2>8. Thinned(Stream', Stream, {}, FromLast(N, Wide))
    BY <1>1, <1>2, <1>3, <1>7, <2>3, <2>6, <2>7, PutAtBack
  <2>9. Orderly(Stream', conn, accepted, handled, posted, Announcing)
    BY <2>8, Thin DEF OrderInv
  <2>10. DOMAIN Stream' = Ranks' /\ DOMAIN Stream = Ranks /\ Ranks' \subseteq Int
    BY <1>3, <2>7 DEF Laid
  <2>11. ClearFits'
    BY <1>1, <1>7, <2>8, <2>10, ClearsFit DEF Removing
  <2>12. Cleared'
    <3>1. ASSUME NEW r \in Int, r \in Ranks', r \in 1..Wide PROVE Stream'[r].client # cur.client
      <4>1. Cut' <= r /\ r <= N + 1 /\ Stream'[r] = queue'[r]
        BY <1>1, <1>3, <2>7, <3>1 DEF Laid
      <4>2. CASE r = N + 1
        <5>1. Wide \in Ranks /\ Stream[Wide] = hand /\ Wide \in 1..Wide
          BY <1>3, <1>7, <2>7, <3>1 DEF Laid
        <5> QED  BY <1>3, <2>1, <4>1, <4>2, <5>1 DEF OrderInv, Cleared
      <4>3. CASE r # N + 1
        <5>1. Cut <= r /\ r <= N /\ r \in 1..N
          BY <1>3, <2>3, <2>6, <4>1, <4>3
        <5>2. r \in Ranks /\ Stream[r] = queue[r]
          BY <1>3, <5>1 DEF Laid
        <5> QED  BY <1>3, <2>1, <3>1, <4>1, <5>1, <5>2 DEF OrderInv, Cleared
      <4> QED  BY <4>2, <4>3
    <3> QED  BY <1>1, <2>10, <3>1 DEF Cleared
  <2> QED  BY <1>1, <1>2, <1>5, <2>5, <2>9, <2>11, <2>12 DEF OrderInv
<1> QED  BY <1>1, <1>6, <1>7

\* With nothing under way the events are in order.
LEMMA InitOrder == Init => SoundInv
<1> SUFFICES ASSUME Init PROVE OrderInv
  BY DEF SoundInv
<1>1. /\ queue = <<>> /\ lwip = Idle /\ pc = "get" /\ accepted = {} /\ faults = {}
      /\ \A c \in Clients : conn[c] = "none" /\ posted[c] = 0
  BY DEF Init
<1>2. ~Turning /\ ~Due /\ ~Back /\ Announcing = {}
  BY <1>1 DEF Turning, Due, Removing, Back, Announcing
<1>3. Len(queue) = 0 /\ 1..Len(queue) = {}
  BY <1>1
<1>4. MarkFits
  BY <1>1, <1>2, <1>3 DEF MarkFits
<1>5. Laid
  BY <1>4, InitInv, LaidOut
<1>6. DOMAIN Stream = Ranks /\ \A r \in Ranks : FALSE
  BY <1>1, <1>2, <1>3, <1>5 DEF Laid, Cut
<1>7. Orderly(Stream, conn, accepted, handled, posted, Announcing)
  BY <1>1, <1>2, <1>6 DEF Orderly, Attended, ClearsFirst, AcceptsFirst, Announced, EndsLast, Numbered
<1> QED  BY <1>1, <1>2, <1>4, <1>6, <1>7
       DEF OrderInv, CurFits, ClearFits, BackStands, FrontStays, Cleared, Removing

\* Every step keeps the order, or is one of those that race.
LEMMA StepKeepsOrder ==
    ASSUME IInv, IInv', SoundInv, [Next]_vars
    PROVE  SoundInv'
<1> SUFFICES ASSUME ~raced' PROVE OrderInv'
  BY DEF SoundInv
<1>1. CASE UNCHANGED vars
  <2>1. OrderInv
    BY <1>1 DEF SoundInv, vars
  <2>2. Turning' = Turning /\ Due' = Due /\ Mark' = Mark /\ Back' = Back /\ Announcing' = Announcing
    BY <1>1 DEF vars, Turning, Due, Mark, Back, Announcing
  <2>3. Ranks' = Ranks /\ Stream' = Stream
    BY <1>1, <2>1, <2>2, Known, Unmoved DEF vars, Cut
  <2> QED  BY <1>1, <2>1, <2>2, <2>3
         DEF vars, OrderInv, CurFits, ClearFits, BackStands, FrontStays, MarkFits, Cleared
<1>2. CASE LwipThread
  <2>1. ~raced
    BY <1>2 DEF LwipThread, Accept, Receive, End, Poll, Enqueue
  <2>2. OrderInv
    BY <2>1 DEF SoundInv
  <2> QED  BY <1>2, <2>2, AcceptKeepsOrder, ReceiveKeepsOrder, EndKeepsOrder, PollKeepsOrder,
              EnqueueKeepsOrder DEF LwipThread
<1>3. CASE ServiceTask
  <2>1. ~raced
    BY <1>3 DEF ServiceTask, Get, Peek, Take, Decide, Handle, HandleAccept, HandleRecv, HandlePoll,
         HandleFin, HandleError, HandleClear, Recved, Shut, PostClear, Close, Seek, Scan,
         ScanTake, PutBack, Rest
  <2>2. OrderInv
    BY <2>1 DEF SoundInv
  <2>3. CASE Get \/ Peek \/ Take \/ Decide
    BY <2>2, <2>3, GetKeepsOrder, PeekKeepsOrder, TakeKeepsOrder, DecideKeepsOrder
  <2>4. CASE Handle
    BY <2>2, <2>4, HandleAcceptKeepsOrder, HandleRecvKeepsOrder, HandlePollKeepsOrder,
       HandleFinKeepsOrder, HandleErrorKeepsOrder, HandleClearKeepsOrder DEF Handle
  <2>5. CASE Recved \/ Shut \/ PostClear \/ Close
    BY <2>2, <2>5, RecvedKeepsOrder, ShutKeepsOrder, PostClearKeepsOrder, CloseKeepsOrder
  <2>6. CASE Seek \/ Scan \/ ScanTake \/ PutBack
    BY <2>2, <2>6, SeekKeepsOrder, ScanKeepsOrder, ScanTakeKeepsOrder, PutBackKeepsOrder
  <2> QED  BY <1>3, <2>3, <2>4, <2>5, <2>6 DEF ServiceTask
<1> QED  BY <1>1, <1>2, <1>3 DEF Next

\* The events under way stay in order until lwIP posts inside a removal or a
\* coalescing: the inductive invariant of the theorem below.
THEOREM OrderInvariance == Spec => []SoundInv
<1>1. Init => SoundInv
  BY InitOrder
<1>2. IInv /\ IInv' /\ SoundInv /\ [Next]_vars => SoundInv'
  BY StepKeepsOrder
<1>3. Spec => []IInv
  BY Invariance
<1> QED  BY <1>1, <1>2, <1>3, PTL DEF Spec

\* Until then every connection's events are handled in the order posted, from its
\* ACCEPT on, and none is skipped, dropped, or handled after its client was
\* discarded, whatever the number of connections and the size of the queue.
THEOREM EventsStaySound == Spec => []SoundUnlessRaced
<1>1. SoundInv => SoundUnlessRaced
  BY DEF SoundInv, OrderInv, SoundUnlessRaced
<1> QED  BY <1>1, OrderInvariance, PTL
=============================================================================
