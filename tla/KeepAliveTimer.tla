--------------------------- MODULE KeepAliveTimer ---------------------------
(***************************************************************************)
(* How PubSubClient decides that a session is alive: the two ages loop()   *)
(* compares with keepAlive, the flag of the outstanding ping, and where    *)
(* that ping is.  Packets are reduced to what they do to these: what is    *)
(* read besides the answer to the ping is anything, at any time.           *)
(*                                                                         *)
(* This is the abstract specification of the session's timing.             *)
(* PubSubClient implements it; KeepAliveClock adds the clocks with which   *)
(* its promises are stated.                                                *)
(***************************************************************************)
EXTENDS Integers

CONSTANTS
    Interval,       \* keepAlive
    ConnectWait,    \* socketTimeout: how old lastOutActivity may be at CONNACK
    LoopGap,        \* the caller calls loop() at least this often
    Backlog         \* unread packets the answer to a ping may queue behind

ASSUME TimerAssumption ==
    /\ Interval \in Nat /\ ConnectWait \in Nat
    /\ LoopGap \in Nat \ {0} /\ Backlog \in Nat

VARIABLES
    session,            \* "up": connected, over a transport that works
    pingOutstanding,
    sinceIn, sinceOut,  \* ages of lastInActivity and lastOutActivity
    sinceLoop,          \* age of the last loop()'s t
    ping,               \* "none", "flying" (asked, not received), "inbox"
    ahead,              \* unread packets before the answer in the inbox
    busy                \* loop() is in the callback of a "qos0" or "qos1" message

ages == <<sinceIn, sinceOut, sinceLoop>>
vars == <<session, pingOutstanding, ages, ping, ahead, busy>>

Init ==
    /\ session = "down" /\ pingOutstanding = FALSE
    /\ sinceIn = 0 /\ sinceOut = 0 /\ sinceLoop = 0
    /\ ping = "none" /\ ahead = 0 /\ busy = "no"

\* Mutant of Connect: the flag of an earlier session's ping is not cleared.
ConnectMutant ==
    /\ session = "down" /\ busy = "no"
    /\ session' = "up" /\ sinceOut' \in 0 .. ConnectWait
    /\ sinceIn' = 0 /\ sinceLoop' = 0
    /\ UNCHANGED <<pingOutstanding, ping, ahead, busy>>

\* connect() accepts a CONNACK, possibly the last thing the transport had.
\* lastOutActivity is that of the CONNECT written before the wait.
Connect ==
    /\ session = "down" /\ busy = "no"
    /\ pingOutstanding' = FALSE
    /\ \/ session' = "up" /\ sinceOut' \in 0 .. ConnectWait
       \/ UNCHANGED <<session, sinceOut>>
    /\ sinceIn' = 0 /\ sinceLoop' = 0
    /\ UNCHANGED <<ping, ahead, busy>>

\* The session ends: closed by the caller, broken, or killed by readPacket().
Down ==
    /\ session' = "down" /\ busy' = "no"
    /\ sinceIn' = 0 /\ sinceOut' = 0 /\ sinceLoop' = 0
    /\ ping' = "none" /\ ahead' = 0

\* Mutant of Overdue: only what was written is looked at.
OverdueMutant == sinceOut > Interval

Overdue == sinceIn > Interval \/ sinceOut > Interval

\* What the test at the top of loop() does when it gives up.
GivesUp == session = "up" /\ busy = "no" /\ Overdue /\ pingOutstanding

TimesOut == GivesUp /\ Down /\ UNCHANGED pingOutstanding

\* The transport or the caller ends it.  loop() may have written a ping before
\* the packet it read killed the session.
Ends ==
    /\ session = "up" /\ ~GivesUp
    /\ Down
    /\ pingOutstanding' \in {pingOutstanding, pingOutstanding \/ Overdue}

\* loop(): the ping, if one is due, then one packet: kept says whether it
\* counts as activity, callback whether one runs.
Loop(kept, callback) ==
    /\ session = "up" /\ busy = "no" /\ ~GivesUp
    /\ sinceIn' = IF Overdue \/ kept THEN 0 ELSE sinceIn
    /\ sinceOut' = IF Overdue THEN 0 ELSE sinceOut
    /\ sinceLoop' = 0
    /\ busy' = callback

\* The packet read, if any, is not the answer.
LoopReadsOther ==
    /\ \E kept \in BOOLEAN, callback \in {"no", "qos0", "qos1"} :
          Loop(kept, callback) /\ (callback # "no" => kept)
    /\ pingOutstanding' = (pingOutstanding \/ Overdue)
    /\ ping' = IF Overdue THEN "flying" ELSE ping
    /\ ping = "inbox" => ahead > 0
    /\ ahead' = IF ping = "inbox" THEN ahead - 1 ELSE ahead
    /\ UNCHANGED session

\* The answer to the ping is the packet read.
LoopReadsAnswer ==
    /\ ping = "inbox" /\ ahead = 0
    /\ Loop(TRUE, "no")
    /\ pingOutstanding' = FALSE
    /\ ping' = "none"
    /\ UNCHANGED <<session, ahead>>

\* The callback returns; PUBACK dates lastOutActivity back to loop()'s t.
CallbackReturns ==
    /\ session = "up" /\ busy # "no"
    /\ sinceOut' = IF busy = "qos1" THEN sinceLoop ELSE sinceOut
    /\ busy' = "no"
    /\ UNCHANGED <<session, pingOutstanding, sinceIn, sinceLoop, ping, ahead>>

\* Any call that writes.
Writes ==
    /\ session = "up"
    /\ sinceOut' = 0
    /\ UNCHANGED <<session, pingOutstanding, sinceIn, sinceLoop, ping, ahead, busy>>

\* The broker's answer reaches the inbox.
Answered ==
    /\ ping = "flying"
    /\ ping' = "inbox" /\ ahead' \in 0 .. Backlog
    /\ UNCHANGED <<session, pingOutstanding, ages, busy>>

Tick ==
    /\ session = "up" /\ sinceLoop < LoopGap
    /\ sinceIn' = sinceIn + 1 /\ sinceOut' = sinceOut + 1
    /\ sinceLoop' = sinceLoop + 1
    /\ UNCHANGED <<session, pingOutstanding, ping, ahead, busy>>

Next ==
    \/ Connect \/ TimesOut \/ Ends
    \/ LoopReadsOther \/ LoopReadsAnswer \/ CallbackReturns
    \/ Writes \/ Answered \/ Tick

Spec == Init /\ [][Next]_vars
=============================================================================
