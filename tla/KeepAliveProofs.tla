-------------------------- MODULE KeepAliveProofs --------------------------
(***************************************************************************)
(* The two promises of PubSubClient's keep-alive, for every interval, gap  *)
(* between loop()s, answer delay and backlog.                              *)
(***************************************************************************)
EXTENDS KeepAliveClock, TLAPS

-----------------------------------------------------------------------------
(* Nothing received: the session is given up in time.                      *)

AgesOK ==
    /\ sinceIn \in Nat /\ sinceOut \in Nat /\ sinceLoop \in 0 .. LoopGap
    /\ silence \in Nat

\* lastInActivity is renewed by loop() itself when it is overdue.
InIsRecent == session = "up" => sinceIn <= Interval + sinceLoop

\* Without a ping under way it dates the last packet; with one, the ping,
\* which was written at most one interval and one gap after that packet.
SilenceIsDated ==
    session = "up" =>
        /\ ~pingOutstanding => silence <= sinceIn
        /\ silence <= Interval + LoopGap + sinceIn

SilenceInv == AgesOK /\ InIsRecent /\ SilenceIsDated

\* No session, no silence.
LEMMA SilenceInit == ClockInit => SilenceInv
BY TimerAssumption
DEF ClockInit, Init, SilenceInv, AgesOK, InIsRecent, SilenceIsDated

\* Every step keeps silence within what the state of the ping allows.
LEMMA SilenceStep == SilenceInv /\ [ClockNext]_clockVars => SilenceInv'
<1> SUFFICES ASSUME SilenceInv, [ClockNext]_clockVars PROVE SilenceInv'
  OBVIOUS
<1> USE TimerAssumption
    DEF SilenceInv, AgesOK, InIsRecent, SilenceIsDated
<1>1. CASE ClockConnect
  BY <1>1 DEF ClockConnect, Connect
<1>2. CASE ClockDown
  BY <1>2 DEF ClockDown, TimesOut, Ends, Down
<1>3. CASE ClockLoopReadsOther
  <2>1. PICK kept \in BOOLEAN, callback \in {"no", "qos0", "qos1"} :
          Loop(kept, callback)
    BY <1>3 DEF ClockLoopReadsOther, LoopReadsOther
  <2>2. session' = "up" /\ session = "up"
    BY <1>3, <2>1 DEF ClockLoopReadsOther, LoopReadsOther, Loop
  <2>5. pingOutstanding' <=> (pingOutstanding \/ Overdue)
    BY <1>3 DEF ClockLoopReadsOther, LoopReadsOther
  <2>3. CASE Overdue
    <3>1. pingOutstanding' /\ silence' \in {0, silence} /\ ~pingOutstanding
      BY <1>3, <2>1, <2>5, <2>3 DEF ClockLoopReadsOther, Loop, GivesUp
    <3>2. sinceIn' = 0 /\ sinceOut' = 0 /\ sinceLoop' = 0
      BY <2>1, <2>3 DEF Loop
    <3>3. silence' \in Nat /\ silence' <= Interval + LoopGap
      BY <3>1, <2>2
    <3>4. InIsRecent'
      BY <3>2
    <3>5. SilenceIsDated'
      BY <3>1, <3>2, <3>3
    <3> QED  BY <3>2, <3>3, <3>4, <3>5
  <2>4. CASE ~Overdue
    <3>1. silence' = IF sinceIn' = 0 THEN 0 ELSE silence
      BY <1>3, <2>4 DEF ClockLoopReadsOther
    <3>2. sinceIn <= Interval /\ sinceOut' = sinceOut
      BY <2>1, <2>4 DEF Overdue, Loop
    <3>3. sinceIn' \in {0, sinceIn} /\ sinceLoop' = 0
      BY <2>1, <2>4 DEF Loop
    <3>4. pingOutstanding' <=> pingOutstanding
      BY <2>5, <2>4
    <3>5. silence' \in Nat /\ sinceIn' \in Nat /\ sinceIn' <= Interval
      BY <3>1, <3>2, <3>3
    <3>6. SilenceIsDated'
      <4>1. CASE sinceIn' = 0
        BY <3>1, <4>1
      <4>2. CASE sinceIn' # 0
        <5>1. sinceIn' = sinceIn /\ silence' = silence
          BY <3>1, <3>3, <4>2
        <5> QED  BY <2>2, <3>4, <5>1
      <4> QED  BY <4>1, <4>2
    <3>7. InIsRecent' /\ AgesOK'
      BY <3>2, <3>3, <3>5
    <3> QED  BY <3>6, <3>7
  <2> QED  BY <2>3, <2>4
<1>4. CASE ClockLoopReadsAnswer
  BY <1>4 DEF ClockLoopReadsAnswer, LoopReadsAnswer, Loop
<1>5. CASE CallbackReturns /\ Quiet
  BY <1>5 DEF CallbackReturns, Quiet
<1>6. CASE Writes /\ Quiet
  BY <1>6 DEF Writes, Quiet
<1>7. CASE Answered /\ Quiet
  BY <1>7 DEF Answered, Quiet, ages
<1>8. CASE ClockTick
  BY <1>8 DEF ClockTick, Tick
<1>9. CASE UNCHANGED clockVars
  BY <1>9 DEF clockVars, vars, ages
<1> QED
  BY <1>1, <1>2, <1>3, <1>4, <1>5, <1>6, <1>7, <1>8, <1>9
  DEF ClockNext, Instant

\* Whatever the network and the broker do, a session on which nothing is
\* received is given up within two intervals and two gaps.
THEOREM HungSessionEnds == ClockSpec => []SilenceIsBounded
<1>1. SilenceInv => SilenceIsBounded
  BY TimerAssumption
  DEF SilenceInv, AgesOK, InIsRecent, SilenceIsDated, SilenceIsBounded
<1> QED  BY <1>1, SilenceInit, SilenceStep, PTL DEF ClockSpec

-----------------------------------------------------------------------------
(* The answer comes in time: the session is not given up.                  *)

\* The age a ping may have reached when its answer is read from behind "left"
\* packets fewer than Backlog: one gap for each loop() that was needed.
ReadBy(left) == AnswerDelay + (Backlog - left) * LoopGap

\* What a loop() reads brings the answer nearer, or is the answer.
LEMMA ReadByStep ==
    ASSUME NEW left \in 0 .. Backlog
    PROVE  /\ ReadBy(left) \in Nat /\ ReadBy(left) >= AnswerDelay
           /\ left > 0 => ReadBy(left - 1) = ReadBy(left) + LoopGap
           /\ Timely => ReadBy(left) + LoopGap <= Interval
<1> DEFINE k == Backlog - left
<1>1. k \in Nat /\ k <= Backlog
  BY TimerAssumption
<1>2. k * LoopGap \in Nat /\ k * LoopGap <= Backlog * LoopGap
  BY <1>1, TimerAssumption, SMT
<1>3. (k + 1) * LoopGap = k * LoopGap + LoopGap
  BY <1>1, TimerAssumption, SMT
<1>4. (Backlog + 1) * LoopGap = Backlog * LoopGap + LoopGap
  BY TimerAssumption, SMT
<1>5. left > 0 => Backlog - (left - 1) = k + 1
  BY TimerAssumption
<1>6. ReadBy(left) \in Nat /\ ReadBy(left) >= AnswerDelay
  BY <1>2, DelayAssumption DEF ReadBy
<1>7. left > 0 => ReadBy(left - 1) = ReadBy(left) + LoopGap
  BY <1>2, <1>3, <1>5, DelayAssumption, TimerAssumption DEF ReadBy
<1>8. Timely => ReadBy(left) + LoopGap <= Interval
  <2> SUFFICES ASSUME Timely PROVE ReadBy(left) + LoopGap <= Interval
    OBVIOUS
  <2>1. AnswerDelay + (Backlog * LoopGap + LoopGap) <= Interval
    BY <1>4 DEF Timely
  <2>2. Backlog * LoopGap \in Nat
    BY TimerAssumption, SMT
  <2> QED
    BY <2>1, <2>2, <1>2, DelayAssumption, TimerAssumption DEF ReadBy
<1> QED  BY <1>6, <1>7, <1>8

PingTypes ==
    /\ AgesOK /\ sincePing \in Nat
    /\ ping \in {"none", "flying", "inbox"} /\ ahead \in 0 .. Backlog
    /\ session # "up" => ping = "none"

\* While its ping is unanswered, a session's ages are those since the ping.
AgesSincePing ==
    session = "up" /\ pingOutstanding =>
        /\ ping # "none"
        /\ sinceIn <= sincePing /\ sinceOut <= sincePing
        /\ sinceLoop <= sincePing

\* How old the ping may be, by where it is.
PingIsYoung ==
    /\ ping = "flying" => sincePing <= AnswerDelay
    /\ ping = "inbox"  => sincePing <= ReadBy(ahead) + sinceLoop

PingInv == PingTypes /\ AgesSincePing /\ PingIsYoung

\* No ping at first.
LEMMA PingInit == ClockInit => PingInv
BY TimerAssumption
DEF ClockInit, Init, PingInv, PingTypes, AgesOK, AgesSincePing, PingIsYoung

\* A ping never grows older than the interval.
LEMMA PingWithinInterval ==
    ASSUME Timely, PingInv PROVE ping # "none" => sincePing <= Interval
<1>1. /\ ReadBy(ahead) + LoopGap <= Interval
      /\ ReadBy(ahead) \in Nat /\ AnswerDelay <= ReadBy(ahead)
  BY ReadByStep DEF PingInv, PingTypes
<1> QED
  BY <1>1, TimerAssumption, DelayAssumption
  DEF PingInv, PingTypes, AgesOK, PingIsYoung

\* Every step keeps the ping within its delay and the loops its answer waits.
LEMMA PingStep ==
    ASSUME Timely PROVE PingInv /\ [TimelyNext]_clockVars => PingInv'
<1> SUFFICES ASSUME PingInv, [TimelyNext]_clockVars PROVE PingInv'
  OBVIOUS
<1> USE TimerAssumption, DelayAssumption
    DEF PingInv, PingTypes, AgesOK, AgesSincePing, PingIsYoung
<1>0. ahead \in 0 .. Backlog /\ ReadBy(ahead) \in Nat
  BY ReadByStep
<1>1. CASE ClockConnect
  BY <1>1 DEF ClockConnect, Connect
<1>2. CASE ClockDown
  BY <1>2 DEF ClockDown, TimesOut, Ends, Down
<1>3. CASE ClockLoopReadsOther
  <2>1. PICK kept \in BOOLEAN, callback \in {"no", "qos0", "qos1"} :
          Loop(kept, callback)
    BY <1>3 DEF ClockLoopReadsOther, LoopReadsOther
  <2>2. /\ session' = "up" /\ session = "up" /\ sinceLoop' = 0
        /\ ping = "inbox" => ahead > 0
        /\ ahead' = IF ping = "inbox" THEN ahead - 1 ELSE ahead
        /\ ping' = IF Overdue THEN "flying" ELSE ping
        /\ sincePing' = IF Overdue THEN 0 ELSE sincePing
        /\ silence' \in {0, silence}
    BY <1>3, <2>1 DEF ClockLoopReadsOther, LoopReadsOther, Loop
  <2>3. pingOutstanding' <=> (pingOutstanding \/ Overdue)
    BY <1>3 DEF ClockLoopReadsOther, LoopReadsOther
  <2>4. /\ sinceIn' \in {0, sinceIn} /\ sinceOut' \in {0, sinceOut}
        /\ Overdue => sinceIn' = 0 /\ sinceOut' = 0
    BY <2>1 DEF Loop
  <2>5. PingTypes'
    BY <2>2, <2>4
  <2>6. AgesSincePing'
    <3>1. CASE Overdue
      BY <3>1, <2>2, <2>4
    <3>2. CASE ~Overdue
      BY <3>2, <2>2, <2>3, <2>4
    <3> QED  BY <3>1, <3>2
  <2>7. PingIsYoung'
    <3>1. CASE Overdue
      BY <3>1, <2>2
    <3>2. CASE ~Overdue /\ ping = "inbox"
      <4>1. ReadBy(ahead') = ReadBy(ahead) + LoopGap
        BY <3>2, <2>2, <1>0, ReadByStep
      <4> QED  BY <3>2, <4>1, <2>2, <1>0
    <3>3. CASE ~Overdue /\ ping # "inbox"
      BY <3>3, <2>2
    <3> QED  BY <3>1, <3>2, <3>3
  <2> QED  BY <2>5, <2>6, <2>7
<1>4. CASE ClockLoopReadsAnswer
  BY <1>4 DEF ClockLoopReadsAnswer, LoopReadsAnswer, Loop
<1>5. CASE CallbackReturns /\ Quiet
  BY <1>5 DEF CallbackReturns, Quiet
<1>6. CASE Writes /\ Quiet
  BY <1>6 DEF Writes, Quiet
<1>7. CASE Answered /\ Quiet
  BY <1>7, ReadByStep DEF Answered, Quiet, ages
<1>8. CASE TimelyTick
  <2>1. /\ sinceIn' = sinceIn + 1 /\ sinceOut' = sinceOut + 1
        /\ sinceLoop' = sinceLoop + 1 /\ sinceLoop < LoopGap
        /\ silence' = silence + 1
        /\ session' = session /\ ping' = ping /\ ahead' = ahead
        /\ pingOutstanding' <=> pingOutstanding
    BY <1>8 DEF TimelyTick, ClockTick, Tick
  <2>2. sincePing' = IF ping = "none" THEN 0 ELSE sincePing + 1
    BY <1>8, PingWithinInterval DEF TimelyTick, ClockTick
  <2>3. ping = "flying" => sincePing < AnswerDelay
    BY <1>8 DEF TimelyTick
  <2>4. PingTypes'
    BY <2>1, <2>2
  <2>5. AgesSincePing'
    BY <2>1, <2>2
  <2>6. PingIsYoung'
    <3>1. CASE ping = "flying"
      BY <3>1, <2>1, <2>2, <2>3
    <3>2. CASE ping = "inbox"
      BY <3>2, <2>1, <2>2, <1>0
    <3>3. CASE ping = "none"
      BY <3>3, <2>1
    <3> QED  BY <3>1, <3>2, <3>3
  <2> QED  BY <2>4, <2>5, <2>6
<1>9. CASE UNCHANGED clockVars
  BY <1>9 DEF clockVars, vars, ages
<1> QED
  BY <1>1, <1>2, <1>3, <1>4, <1>5, <1>6, <1>7, <1>8, <1>9
  DEF TimelyNext, Instant

\* With an answer within AnswerDelay, and loop()s often enough to reach it in
\* what is left of the interval, loop() never gives a session up: the ping
\* it waits for is never older than the interval, and the ages it compares are
\* never older than the ping.
THEOREM LiveSessionStays == TimelySpec => []NoFalseTimeout
<1>1. ASSUME Timely PROVE TimelySpec => []~GivesUp
  <2>1. PingInv => ~GivesUp
    <3> SUFFICES ASSUME PingInv, GivesUp PROVE FALSE
      OBVIOUS
    <3>1. /\ session = "up" /\ pingOutstanding
          /\ sinceIn > Interval \/ sinceOut > Interval
      BY DEF GivesUp, Overdue
    <3>2. sincePing <= Interval
      BY <1>1, <3>1, PingWithinInterval DEF PingInv, AgesSincePing
    <3> QED
      BY <3>1, <3>2, TimerAssumption
      DEF PingInv, AgesSincePing, PingTypes, AgesOK
  <2>2. PingInv /\ [TimelyNext]_clockVars => PingInv'
    BY <1>1, PingStep
  <2> QED  BY <2>1, <2>2, PingInit, PTL DEF TimelySpec
<1>2. CASE Timely
  <2>1. ~GivesUp => NoFalseTimeout
    BY DEF NoFalseTimeout
  <2> QED  BY <1>1, <1>2, <2>1, PTL
<1>3. CASE ~Timely
  <2>1. NoFalseTimeout
    BY <1>3 DEF NoFalseTimeout
  <2> QED  BY <2>1, PTL
<1> QED  BY <1>2, <1>3
=============================================================================
