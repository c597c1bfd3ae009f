--------------------------- MODULE AsyncTcpQueue ---------------------------
(***************************************************************************)
(* The event queue of AsyncTCP.cpp.  The lwIP thread posts what happens to *)
(* the connections; the service task takes the events off, coalesces       *)
(* polls, calls the handlers, and, when a connection ends, goes round the  *)
(* whole queue to remove what is left of it.  The queue's own operations   *)
(* (FreeRTOS) are atomic; nothing holds the queue from one to the next, so *)
(* each is an action here and the other thread may act in between.         *)
(***************************************************************************)
EXTENDS Integers, Sequences

CONSTANTS
    Clients,     \* AsyncClient objects a server accepts, by their address
    Reused,      \* those whose address a later client may be allocated at
    QueueSize,   \* CONFIG_ASYNC_TCP_QUEUE_SIZE
    MaxData,     \* RECV events posted for one connection (a bound of the model)
    MaxPolls     \* POLL events in the queue at once (a bound of the model)

ASSUME QueueAssumption ==
    /\ Reused \subseteq Clients
    /\ QueueSize \in Nat \ {0} /\ MaxData \in Nat /\ MaxPolls \in Nat

VARIABLES
    queue,      \* _async_queue
    lwip,       \* the event the lwIP thread is about to post, with its end, or Idle
    pc,         \* where the service task is
    cur,        \* the event the service task handles
    hand,       \* the event _remove_events_with_arg() has taken off
    conn,       \* per client: "none", "open", "failed" or "ended" (the pcb is gone, and
                \* _pcb still set or not), "closed" (by us) or "gone" (deleted)
    posted,     \* per client: RECV events lwIP has posted
    handled,    \* history: per client, the last RECV handled
    accepted,   \* history: clients whose ACCEPT was handled
    faults,     \* history: what went wrong with the event taken last
    raced       \* history: an event was posted inside a removal or a coalescing,
                \* or an address was taken again before its CLEAR was handled

vars == <<queue, lwip, pc, cur, hand, conn, posted, handled, accepted, faults, raced>>

Types == {"RECV", "FIN", "ERROR", "POLL", "ACCEPT", "CLEAR"}
Event(type, c, n) == [type |-> type, client |-> c, n |-> n, first |-> FALSE]
Events == [type : Types, client : Clients, n : 0..MaxData, first : BOOLEAN]
Idle == [at |-> "nowhere"]
Post(at, e) == [at |-> at, event |-> e]
Nothing == [type |-> "none"]

\* e->arg: the server for an accepted client, the client for all others.
SameArg(e, f) == e.type # "ACCEPT" /\ f.type # "ACCEPT" /\ e.client = f.client

Faults == {"coalesced", "late", "early", "disorder", "gap", "dropped"} \X Types

Removing == {"seek", "keep", "scan", "scanTake", "requeue"}
Places == {"get", "peek", "take", "decide", "handle", "post", "recved", "closing", "shut", "close"} \cup Removing
Clearing(c) == \/ cur # Nothing /\ cur.type = "CLEAR" /\ cur.client = c /\ pc \in Removing \cup {"handle"}
               \/ \E i \in DOMAIN queue : queue[i].type = "CLEAR" /\ queue[i].client = c

\* The bounds rand() puts on the queue length: polls are not posted above the
\* one, and are dropped unhandled above the other.
Throttle == {r \div 2 + QueueSize \div 4 : r \in 0..QueueSize - 1}
Congested == {r \div 4 + (QueueSize * 3) \div 4 : r \in 0..QueueSize - 1}

Init ==
    /\ queue = <<>> /\ lwip = Idle
    /\ pc = "get" /\ cur = Nothing /\ hand = Nothing
    /\ conn = [c \in Clients |-> "none"]
    /\ posted = [c \in Clients |-> 0] /\ handled = [c \in Clients |-> 0]
    /\ accepted = {} /\ faults = {} /\ raced = FALSE

(***************************************************************************)
(* The lwIP thread.  It is in one callback at a time, and waits in it for  *)
(* room in the queue.                                                      *)
(***************************************************************************)
\* A connection is accepted; the new client may have a deleted one's address.
Accept(c) ==
    /\ lwip = Idle
    /\ \/ conn[c] = "none"
       \/ conn[c] = "gone" /\ c \in Reused
    /\ conn' = [conn EXCEPT ![c] = "open"]
    /\ handled' = [handled EXCEPT ![c] = 0]
    /\ raced' = (raced \/ Clearing(c))
    /\ lwip' = Post("front", Event("ACCEPT", c, 0))
    /\ UNCHANGED <<queue, pc, cur, hand, posted, accepted, faults>>

Receive(c) ==
    /\ lwip = Idle /\ conn[c] = "open" /\ posted[c] < MaxData
    /\ posted' = [posted EXCEPT ![c] = @ + 1]
    /\ lwip' = Post("back", Event("RECV", c, posted[c] + 1))
    /\ UNCHANGED <<queue, pc, cur, hand, conn, handled, accepted, faults, raced>>

\* The peer closes, and _s_lwip_fin() closes the pcb here; or the connection
\* fails, of which the client learns when the event is handled.
End(c) ==
    /\ lwip = Idle /\ conn[c] = "open"
    /\ \/ conn' = [conn EXCEPT ![c] = "ended"] /\ lwip' = Post("back", Event("FIN", c, 0))
       \/ conn' = [conn EXCEPT ![c] = "failed"] /\ lwip' = Post("back", Event("ERROR", c, 0))
    /\ UNCHANGED <<queue, pc, cur, hand, posted, handled, accepted, faults, raced>>

\* Polls do not wait: they are not posted to a queue that is full or filling.
Poll(c) ==
    /\ lwip = Idle /\ conn[c] = "open"
    /\ \E most \in Throttle : Len(queue) <= most
    /\ Len(queue) < QueueSize
    /\ Len(SelectSeq(queue, LAMBDA e : e.type = "POLL")) < MaxPolls
    /\ queue' = Append(queue, Event("POLL", c, 0))
    /\ raced' = (raced \/ pc \in Removing \cup {"take"})
    /\ UNCHANGED <<lwip, pc, cur, hand, conn, posted, handled, accepted, faults>>

\* xQueueSend() or xQueueSendToFront() finds room.
Enqueue ==
    /\ lwip # Idle /\ Len(queue) < QueueSize
    /\ queue' = IF lwip.at = "front" THEN <<lwip.event>> \o queue ELSE Append(queue, lwip.event)
    /\ lwip' = Idle
    /\ raced' = (raced \/ pc \in Removing \cup {"take"})
    /\ UNCHANGED <<pc, cur, hand, conn, posted, handled, accepted, faults>>

(***************************************************************************)
(* The service task: _get_async_event().                                   *)
(***************************************************************************)
\* What the service task's steps inside the queue leave alone.
Rest == UNCHANGED <<lwip, conn, posted, handled, accepted, raced>>

\* The event has been dealt with, and is freed.
Done == pc' = "get" /\ cur' = Nothing

Get ==
    /\ pc = "get" /\ queue # <<>>
    /\ cur' = Head(queue) /\ queue' = Tail(queue) /\ faults' = {}
    /\ pc' = IF Head(queue).type = "POLL" THEN "peek" ELSE "handle"
    /\ UNCHANGED hand /\ Rest

\* Mutant of Peek: any poll is taken for one of the same connection, and data too.
PeekMutant ==
    /\ pc = "peek"
    /\ pc' = IF queue # <<>> /\ SameArg(Head(queue), cur) THEN "take" ELSE "decide"
    /\ UNCHANGED <<queue, cur, hand, faults>> /\ Rest

Peek ==
    /\ pc = "peek"
    /\ pc' = IF queue # <<>> /\ Head(queue).type = "POLL" /\ SameArg(Head(queue), cur)
             THEN "take" ELSE "decide"
    /\ UNCHANGED <<queue, cur, hand, faults>> /\ Rest

\* The event at the front is freed, whichever it is by now.
Take ==
    /\ pc = "take"
    /\ queue' = Tail(queue)
    /\ faults' = IF Head(queue).type = "POLL" THEN faults
                 ELSE faults \cup {<<"coalesced", Head(queue).type>>}
    /\ pc' = "peek"
    /\ UNCHANGED <<cur, hand>> /\ Rest

Decide ==
    /\ pc = "decide"
    /\ \/ (\E most \in Congested : Len(queue) > most) /\ Done
       \/ (\E most \in Congested : Len(queue) <= most) /\ pc' = "handle" /\ UNCHANGED cur
    /\ UNCHANGED <<queue, hand, faults>> /\ Rest

(***************************************************************************)
(* The service task: _handle_async_event().                                *)
(***************************************************************************)
\* An event for a client that has been deleted, or not yet been announced.
Misplaced ==
    {<<"late", t>> : t \in {t \in {cur.type} : conn[cur.client] = "gone"}} \cup
    {<<"early", t>> : t \in {t \in {cur.type} : cur.client \notin accepted}}

\* The discard callback, which handling ACCEPT has set, deletes the client; a
\* client that was never announced stays for good.
Delete(c) ==
    /\ conn' = [conn EXCEPT ![c] = IF c \in accepted THEN "gone" ELSE "ended"]
    /\ accepted' = accepted \ {c}
    /\ posted' = [posted EXCEPT ![c] = 0] /\ handled' = [handled EXCEPT ![c] = 0]

\* if (_pcb)
HasPcb(c) == conn[c] \in {"open", "failed"}

HandleAccept ==
    /\ pc = "handle" /\ cur.type = "ACCEPT"
    /\ accepted' = accepted \cup {cur.client}
    /\ Done
    /\ UNCHANGED <<queue, lwip, hand, conn, posted, handled, faults, raced>>

\* The data callback, which may call close(); either way _tcp_recved() follows.
HandleRecv ==
    /\ pc = "handle" /\ cur.type = "RECV"
    /\ handled' = [handled EXCEPT ![cur.client] = cur.n]
    /\ faults' = faults \cup Misplaced \cup
         {<<"disorder", t>> : t \in {t \in {"RECV"} : cur.n <= handled[cur.client]}} \cup
         {<<"gap", t>> : t \in {t \in {"RECV"} : cur.n > handled[cur.client] + 1}}
    /\ IF HasPcb(cur.client) THEN pc' \in {"recved", "closing"} /\ UNCHANGED cur ELSE Done
    /\ UNCHANGED <<queue, lwip, hand, conn, posted, accepted, raced>>

\* The poll callback, or the rx timeout, which closes the connection.
HandlePoll ==
    /\ pc = "handle" /\ cur.type = "POLL"
    /\ faults' = faults \cup Misplaced
    /\ \/ Done
       \/ HasPcb(cur.client) /\ pc' = "shut" /\ UNCHANGED cur
    /\ UNCHANGED <<queue, lwip, hand, conn, posted, handled, accepted, raced>>

HandleFin ==
    /\ pc = "handle" /\ cur.type = "FIN"
    /\ faults' = faults \cup Misplaced
    /\ pc' = "post"
    /\ UNCHANGED <<queue, lwip, cur, hand, conn, posted, handled, accepted, raced>>

HandleError ==
    /\ pc = "handle" /\ cur.type = "ERROR"
    /\ faults' = faults \cup Misplaced
    /\ Delete(cur.client) /\ Done
    /\ UNCHANGED <<queue, lwip, hand, raced>>

\* A call into lwIP (tcpip_api_call) is answered by the lwIP thread.
Recved ==
    /\ pc \in {"recved", "closing"} /\ lwip = Idle
    /\ IF pc = "closing" THEN pc' = "shut" /\ UNCHANGED cur ELSE Done
    /\ UNCHANGED <<queue, lwip, hand, conn, posted, handled, accepted, faults, raced>>

\* _close() takes the callbacks off the pcb, if lwIP has not ended it meanwhile.
Shut ==
    /\ pc = "shut"
    /\ IF HasPcb(cur.client)
       THEN conn' = [conn EXCEPT ![cur.client] = "closed"] /\ pc' = "post" /\ UNCHANGED cur
       ELSE Done /\ UNCHANGED conn
    /\ UNCHANGED <<queue, lwip, hand, posted, handled, accepted, faults, raced>>

\* Mutant of PostClear: the CLEAR waits its turn behind the other events.
PostClearMutant ==
    /\ pc = "post" /\ Len(queue) < QueueSize
    /\ queue' = Append(queue, Event("CLEAR", cur.client, 0))
    /\ IF cur.type = "FIN" THEN Delete(cur.client) /\ Done
       ELSE pc' = "close" /\ UNCHANGED <<cur, conn, posted, handled, accepted>>
    /\ UNCHANGED <<lwip, hand, faults, raced>>

\* _tcp_clear_events(): waits for room.  Then _fin() discards the client, and
\* _close() closes the pcb in the lwIP thread first.
PostClear ==
    /\ pc = "post" /\ Len(queue) < QueueSize
    /\ queue' = <<Event("CLEAR", cur.client, 0)>> \o queue
    /\ IF cur.type = "FIN" THEN Delete(cur.client) /\ Done
       ELSE pc' = "close" /\ UNCHANGED <<cur, conn, posted, handled, accepted>>
    /\ UNCHANGED <<lwip, hand, faults, raced>>

Close ==
    /\ pc = "close" /\ lwip = Idle
    /\ Delete(cur.client) /\ Done
    /\ UNCHANGED <<queue, lwip, hand, faults, raced>>

(***************************************************************************)
(* The service task: _remove_events_with_arg().  The first event that      *)
(* stays is the mark (here a field, in the code its address) at which the  *)
(* round through the queue ends.                                           *)
(***************************************************************************)
Unmarked == [i \in DOMAIN queue |-> [queue[i] EXCEPT !.first = FALSE]]

HandleClear ==
    /\ pc = "handle" /\ cur.type = "CLEAR"
    /\ pc' = "seek"
    /\ UNCHANGED <<queue, cur, hand, faults>> /\ Rest

Seek ==
    /\ pc = "seek"
    /\ \/ queue = <<>> /\ Done /\ UNCHANGED <<queue, hand>>
       \/ /\ queue # <<>> /\ queue' = Tail(queue)
          /\ IF SameArg(Head(queue), cur) THEN UNCHANGED <<pc, hand>>
             ELSE pc' = "keep" /\ hand' = [Head(queue) EXCEPT !.first = TRUE]
          /\ UNCHANGED cur
    /\ UNCHANGED faults /\ Rest

Scan ==
    /\ pc = "scan"
    /\ IF queue = <<>> \/ Head(queue).first
       THEN Done /\ queue' = Unmarked
       ELSE pc' = "scanTake" /\ UNCHANGED <<queue, cur>>
    /\ UNCHANGED <<hand, faults>> /\ Rest

ScanTake ==
    /\ pc = "scanTake"
    /\ queue' = Tail(queue)
    /\ IF SameArg(Head(queue), cur) THEN pc' = "scan" /\ UNCHANGED hand
       ELSE pc' = "requeue" /\ hand' = Head(queue)
    /\ UNCHANGED <<cur, faults>> /\ Rest

\* Mutant of PutBack: the room in the queue is not looked at.
PutBackMutant ==
    /\ pc \in {"keep", "requeue"}
    /\ queue' = Append(queue, hand) /\ pc' = "scan" /\ UNCHANGED <<cur, faults>>
    /\ hand' = Nothing
    /\ Rest

\* The event goes to the back, or, when the queue has filled, is dropped.
PutBack ==
    /\ pc \in {"keep", "requeue"}
    /\ IF Len(queue) < QueueSize
       THEN queue' = Append(queue, hand) /\ pc' = "scan" /\ UNCHANGED <<cur, faults>>
       ELSE queue' = Unmarked /\ Done /\ faults' = faults \cup {<<"dropped", hand.type>>}
    /\ hand' = Nothing
    /\ Rest

LwipThread == \/ \E c \in Clients : Accept(c) \/ Receive(c) \/ End(c) \/ Poll(c)
              \/ Enqueue

Handle == HandleAccept \/ HandleRecv \/ HandlePoll \/ HandleFin \/ HandleError \/ HandleClear
ServiceTask == \/ Get \/ Peek \/ Take \/ Decide \/ Handle
               \/ Recved \/ Shut \/ PostClear \/ Close \/ Seek \/ Scan \/ ScanTake \/ PutBack

Next == LwipThread \/ ServiceTask
Spec == Init /\ [][Next]_vars

-----------------------------------------------------------------------------
TypeOK ==
    /\ queue \in Seq(Events) /\ Len(queue) <= QueueSize
    /\ lwip \in {Idle} \cup [at : {"front", "back"}, event : Events]
    /\ pc \in Places
    /\ cur \in {Nothing} \cup Events /\ hand \in {Nothing} \cup Events
    /\ conn \in [Clients -> {"none", "open", "failed", "ended", "closed", "gone"}]
    /\ posted \in [Clients -> 0..MaxData] /\ handled \in [Clients -> 0..MaxData]
    /\ accepted \subseteq Clients
    /\ faults \subseteq Faults
    /\ raced \in BOOLEAN

\* As long as lwIP posts nothing while the service task is between two steps of
\* a removal or of a coalescing, every connection's events are handled in the
\* order posted, from its ACCEPT on, none is skipped, and none comes after the
\* client was discarded: what _prepend_async_event() and LWIP_TCP_CLEAR are for.
SoundUnlessRaced == raced \/ faults = {}

\* What a race can cost in _get_async_event() is bounded: an event freed there
\* as if it were a poll is an ACCEPT, never data nor the end of a connection.
CoalescingSparesData == \A f \in faults : f[1] = "coalesced" => f[2] = "ACCEPT"

\* AsyncTCP.cpp:225: "figure out which is the first non-matching packet so we
\* can keep the order".
KeepsOrder == <<"disorder", "RECV">> \notin faults
=============================================================================
