--------------------------- MODULE KeepAliveClock ---------------------------
(***************************************************************************)
(* KeepAliveTimer with the two clocks its promises are about: how long     *)
(* nothing was received, and how long ago the outstanding ping was sent.   *)
(*                                                                         *)
(* Spec says nothing of the network.  TimelySpec is the network of a       *)
(* broker that answers each ping within AnswerDelay.                       *)
(***************************************************************************)
EXTENDS KeepAliveTimer

CONSTANT AnswerDelay    \* from a ping being written to its answer being readable

ASSUME DelayAssumption == AnswerDelay \in Nat

VARIABLES
    silence,    \* age of the last packet that was read and kept
    sincePing   \* age of the outstanding ping, counted to Interval + 1

clockVars == <<vars, silence, sincePing>>

ClockInit == Init /\ silence = 0 /\ sincePing = 0

Quiet == UNCHANGED <<silence, sincePing>>

ClockConnect == Connect /\ silence' = 0 /\ sincePing' = 0

ClockDown == (TimesOut \/ Ends) /\ silence' = 0 /\ sincePing' = 0

ClockLoopReadsOther ==
    /\ LoopReadsOther
    \* Something was kept just when lastInActivity is renewed without a ping;
    \* with a ping, either may have happened.
    /\ IF Overdue THEN silence' \in {0, silence}
       ELSE silence' = IF sinceIn' = 0 THEN 0 ELSE silence
    /\ sincePing' = IF Overdue THEN 0 ELSE sincePing

ClockLoopReadsAnswer == LoopReadsAnswer /\ silence' = 0 /\ sincePing' = 0

ClockTick ==
    /\ Tick
    /\ silence' = silence + 1
    /\ sincePing' = IF ping = "none" THEN 0
                    ELSE IF sincePing > Interval THEN sincePing ELSE sincePing + 1

\* What happens at an instant.
Instant ==
    \/ ClockConnect \/ ClockDown
    \/ ClockLoopReadsOther \/ ClockLoopReadsAnswer
    \/ (CallbackReturns \/ Writes \/ Answered) /\ Quiet

ClockNext == Instant \/ ClockTick

ClockSpec == ClockInit /\ [][ClockNext]_clockVars

\* Time does not pass the moment at which the broker must have answered.
TimelyTick == ClockTick /\ (ping = "flying" => sincePing < AnswerDelay)

TimelyNext == Instant \/ TimelyTick

TimelySpec == ClockInit /\ [][TimelyNext]_clockVars

-----------------------------------------------------------------------------

TypeOK ==
    /\ session \in {"up", "down"}
    /\ pingOutstanding \in BOOLEAN
    /\ sinceIn \in Nat /\ sinceOut \in Nat /\ sinceLoop \in 0 .. LoopGap
    /\ ping \in {"none", "flying", "inbox"}
    /\ ahead \in 0 .. Backlog
    /\ busy \in {"no", "qos0", "qos1"}
    /\ silence \in Nat /\ sincePing \in Nat

\* A connection on which nothing arrives any more is given up: a session that
\* stands has received something in the last two keep-alive intervals, give
\* or take the caller's gaps between loop()s, however much it sends.
SilenceIsBounded == session = "up" => silence <= 2 * (Interval + LoopGap)

\* A live connection is not given up: loop() never finds its ping unanswered,
\* provided the answer is received soon enough that the calls of loop() it
\* takes to reach it (one packet each) fit in what is left of the interval.
Timely == AnswerDelay + (Backlog + 1) * LoopGap <= Interval
NoFalseTimeout == Timely => ~GivesUp
=============================================================================
