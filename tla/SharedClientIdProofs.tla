------------------------ MODULE SharedClientIdProofs ------------------------
(***************************************************************************)
(* Proofs about SharedClientId, for any number of boards and of failures.  *)
(*                                                                         *)
(* A board is past connectAWS() without the broker's session only if its   *)
(* connection was cut, and only the broker cuts, when it gives the session *)
(* to another.  For that the session must never be with a board that has   *)
(* put its connection away: SessionIsOpen.                                 *)
(***************************************************************************)
EXTENDS SharedClientId, TLAPS

Places == {"connect", "connack", "subscribe", "check", "loop"}
Links == {"none", "open", "cut", "closed"}

\* The board with the session has its connection, and nothing has been heard
\* of an end of it.
SessionIsOpen == \A b \in Boards : session = b => link[b] = "open"

Ranges ==
    /\ at \in [Boards -> Places] /\ link \in [Boards -> Links]
    /\ session \in Boards \cup {Nobody} /\ subscribed \in BOOLEAN /\ failures \in 0..MaxFailures

SubscriptionNeedsSession == session = Nobody => ~subscribed
LinkIffCalled == \A b \in Boards : at[b] = "connect" <=> link[b] = "none"

IInv ==
    /\ Ranges
    /\ SubscriptionNeedsSession
    /\ LinkIffCalled
    /\ SessionIsOpen
    /\ ServedUnlessTaken

\* No board has the session at first.
LEMMA InitIInv == Init => IInv
<1> SUFFICES ASSUME Init PROVE IInv
  OBVIOUS
<1>1. Ranges
  <2>1. subscribed \in BOOLEAN
    BY Zenon DEF Init
  <2>2. at \in [Boards -> Places] /\ link \in [Boards -> Links] /\ session \in Boards \cup {Nobody}
    BY DEF Init, Places, Links
  <2>3. failures \in 0..MaxFailures
    BY BoardsAssumption DEF BoardsAssumption, Init
  <2> QED
    BY <2>1, <2>2, <2>3 DEF Ranges
<1>2. SubscriptionNeedsSession
  BY Zenon DEF Init, SubscriptionNeedsSession
<1>3. LinkIffCalled /\ ServedUnlessTaken
  BY DEF Init, LinkIffCalled, ServedUnlessTaken
<1>4. SessionIsOpen
  BY BoardsAssumption DEF BoardsAssumption, Init, SessionIsOpen
<1> QED
  BY <1>1, <1>2, <1>3, <1>4 DEF IInv

\* No call of a sketch leaves a board in its loop with an open connection and
\* without the session, or leaves the session with a board that has none.
LEMMA SketchIInv ==
  ASSUME IInv, NEW b \in Boards, Sketch(b)
  PROVE  IInv'
<1> USE BoardsAssumption
<1> USE DEF IInv, Ranges, SubscriptionNeedsSession, LinkIffCalled, SessionIsOpen,
            ServedUnlessTaken, Places, Links, Goto, Set, Connected
<1>1. CASE CallConnect(b)
  BY <1>1 DEF CallConnect
<1>2. CASE ConnectReturnsTrue(b)
  <2> PICK there \in {"subscribe", "check", "loop"} : Goto(b, "connack", there)
    BY <1>2 DEF ConnectReturnsTrue
  <2> QED
    BY <1>2 DEF ConnectReturnsTrue
<1>3. CASE ConnectReturnsFalse(b)
  <2>1. subscribed' \in BOOLEAN
    BY <1>3 DEF ConnectReturnsFalse
  <2>2. session' = Nobody => ~subscribed'
    <3>1. CASE session = b
      BY <1>3, <3>1, Zenon DEF ConnectReturnsFalse
    <3>2. CASE session # b
      <4>1. session' = session
        BY <1>3, <3>2 DEF ConnectReturnsFalse
      <4>2. ~subscribed => ~subscribed'
        BY <1>3, Zenon DEF ConnectReturnsFalse
      <4> QED
        BY <4>1, <4>2
    <3> QED
      BY <3>1, <3>2
  <2>3. /\ at[b] = "connack" /\ at' = [at EXCEPT ![b] = "connect"]
        /\ link' = [link EXCEPT ![b] = "none"]
        /\ failures' \in 0..MaxFailures
        /\ session' = IF session = b THEN Nobody ELSE session
    BY <1>3 DEF ConnectReturnsFalse
  <2> QED
    BY <2>1, <2>2, <2>3
<1>4. CASE CallSubscribe(b)
  BY <1>4 DEF CallSubscribe, Nobody
<1>5. CASE Check(b)
  BY <1>5 DEF Check
<1>6. CASE LoopAndPublish(b)
  BY <1>6 DEF LoopAndPublish
<1> QED
  BY <1>1, <1>2, <1>3, <1>4, <1>5, <1>6 DEF Sketch

\* What the broker takes from one board it gives to the other, and it cuts the
\* connection of the board it takes from.
LEMMA BrokerIInv ==
  ASSUME IInv, NEW b \in Boards, Broker(b)
  PROVE  IInv'
<1> USE BoardsAssumption
<1> USE DEF IInv, Ranges, SubscriptionNeedsSession, LinkIffCalled, SessionIsOpen,
            ServedUnlessTaken, Places, Links, Set
<1>1. CASE BrokerAccepts(b)
  BY <1>1 DEF BrokerAccepts
<1>2. CASE EndArrives(b)
  BY <1>2 DEF EndArrives
<1> QED
  BY <1>1, <1>2 DEF Broker

\* A step that changes nothing keeps the invariant.
LEMMA StutterIInv ==
  ASSUME IInv, UNCHANGED vars
  PROVE  IInv'
  BY DEF vars, IInv, Ranges, SubscriptionNeedsSession, LinkIffCalled, SessionIsOpen, ServedUnlessTaken

\* The invariant holds however many boards share the id.
THEOREM Invariance == Spec => []IInv
<1>1. Init => IInv
  BY InitIInv
<1>2. IInv /\ [Next]_vars => IInv'
  BY SketchIInv, BrokerIInv, StutterIInv DEF Next
<1> QED
  BY <1>1, <1>2, PTL DEF Spec

\* A board has a connection exactly when its place says so, and there is no
\* subscription without a session.
THEOREM TypeCorrect == Spec => []TypeOK
<1>1. IInv => TypeOK
  BY DEF IInv, Ranges, SubscriptionNeedsSession, LinkIffCalled, TypeOK
<1> QED
  BY <1>1, Invariance, PTL

\* A board past connectAWS() has the broker's session or lost it to another:
\* nothing else comes between a sketch and the broker.
THEOREM AlwaysServedUnlessTaken == Spec => []ServedUnlessTaken
<1>1. IInv => ServedUnlessTaken
  BY DEF IInv
<1> QED
  BY <1>1, Invariance, PTL
=============================================================================
