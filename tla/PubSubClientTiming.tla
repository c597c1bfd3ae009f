------------------------- MODULE PubSubClientTiming -------------------------
(***************************************************************************)
(* PubSubClient implements KeepAliveTimer: what is proved of the timer's   *)
(* clocks holds of the session.  The mapping reads off the wire where the  *)
(* ping is, and forgets the rest of the session.                           *)
(***************************************************************************)
EXTENDS PubSubClient

AnswerAt(i) == inbox[i] = Plain("PINGRESP")

AnswerReceived == \E i \in DOMAIN inbox : AnswerAt(i)

\* Packets loop() has still to read before it reaches the answer.
BeforeAnswer == (CHOOSE i \in DOMAIN inbox : AnswerAt(i)) - 1

WhileUp(age) == IF IsConnected THEN age ELSE 0

Timer == INSTANCE KeepAliveTimer WITH
    Interval    <- KeepAlive,
    ConnectWait <- SocketTimeout,
    Backlog     <- MaxIn - 1,
    session     <- IF IsConnected THEN "up" ELSE "down",
    sinceIn     <- WhileUp(sinceIn),
    sinceOut    <- WhileUp(sinceOut),
    sinceLoop   <- WhileUp(sinceLoop),
    ping        <- IF ~IsConnected \/ ~pingOutstanding THEN "none"
                   ELSE IF AnswerReceived THEN "inbox" ELSE "flying",
    ahead       <- IF IsConnected /\ pingOutstanding /\ AnswerReceived
                   THEN BeforeAnswer ELSE 0,
    busy        <- IF ~IsConnected THEN "no"
                   ELSE CASE handling.type = "PUBLISH0" -> "qos0"
                          [] handling.type = "PUBLISH1" -> "qos1"
                          [] OTHER                      -> "no"

\* Every step of a session is a step of the timer, or none of its business.
ImplementsTimer == Timer!Spec
=============================================================================
