--------------------------- MODULE SharedClientId ---------------------------
(***************************************************************************)
(* The bridge sketch (AWS_IoT_2Way_Communication.ino) and the publisher    *)
(* sketch (aws gps.txt) at one broker.  Both connect as "BharatPiClient",  *)
(* and a broker closes the session of an id that connects again.           *)
(*                                                                         *)
(* A call of the library is one step here, except connect(), which another *)
(* board's may overtake; AwsBridge has them in detail, with the network's  *)
(* failures.  Here nothing fails but connect(), MaxFailures times.         *)
(***************************************************************************)
EXTENDS Integers

CONSTANTS Bridges, Publishers, MaxFailures

Boards == Bridges \cup Publishers
Nobody == "nobody"

ASSUME BoardsAssumption ==
    Bridges \cap Publishers = {} /\ Nobody \notin Boards /\ MaxFailures \in Nat

VARIABLES
    at,          \* per board: where its sketch is
    link,        \* per board: "none", "open", "cut" (the broker closed it and the board has
                 \* not heard) or "closed" (it has)
    session,     \* the board whose session the broker has, or Nobody
    subscribed,  \* the session has a subscription
    failures     \* failed connects so far

vars == <<at, link, session, subscribed, failures>>

Init ==
    /\ at = [b \in Boards |-> "connect"] /\ link = [b \in Boards |-> "none"]
    /\ session = Nobody /\ subscribed = FALSE
    /\ failures = 0

Goto(b, here, there) == at[b] = here /\ at' = [at EXCEPT ![b] = there]
Set(b, l) == link' = [link EXCEPT ![b] = l]

\* What connected() returns.
Connected(b) == link[b] \in {"open", "cut"}

(***************************************************************************)
(* connectAWS()                                                            *)
(***************************************************************************)
\* client.connect("BharatPiClient"): CONNECT is under way.
CallConnect(b) ==
    /\ Goto(b, "connect", "connack")
    /\ Set(b, "open")
    /\ UNCHANGED <<session, subscribed, failures>>

\* Mutant of ConnectReturnsTrue: CONNACK is not waited for.
ConnectReturnsTrueMutant(b) ==
    /\ Goto(b, "connack", IF b \in Bridges THEN "subscribe" ELSE "loop")
    /\ UNCHANGED <<link, session, subscribed, failures>>

\* CONNACK comes ahead of the end of the connection.  A bridge subscribes next;
\* a publisher is in setup(), or in loop() behind its check.
ConnectReturnsTrue(b) ==
    /\ session = b \/ link[b] \in {"cut", "closed"}
    /\ \E there \in IF b \in Bridges THEN {"subscribe"} ELSE {"check", "loop"} : Goto(b, "connack", there)
    /\ UNCHANGED <<link, session, subscribed, failures>>

\* connect() returns false, and is called again after delay(1000) or delay(5000).
ConnectReturnsFalse(b) ==
    /\ Goto(b, "connack", "connect")
    /\ failures < MaxFailures /\ failures' = failures + 1
    /\ session' = (IF session = b THEN Nobody ELSE session)
    /\ subscribed' = (subscribed /\ session # b)
    /\ Set(b, "none")

CallSubscribe(b) ==
    /\ b \in Bridges
    /\ Goto(b, "subscribe", "check")
    /\ subscribed' = (subscribed \/ session = b)
    /\ UNCHANGED <<link, session, failures>>

(***************************************************************************)
(* loop()                                                                  *)
(***************************************************************************)
\* Mutant of Check: the session of setup() is the only one.
CheckMutant(b) ==
    /\ Goto(b, "check", "loop")
    /\ UNCHANGED <<link, session, subscribed, failures>>

\* Another mutant of Check: connect() finds the old connection in place.
CheckOldMutant(b) ==
    /\ Goto(b, "check", IF Connected(b) THEN "loop" ELSE "connect")
    /\ UNCHANGED <<link, session, subscribed, failures>>

\* if (!client.connected()) connectAWS();
Check(b) ==
    /\ \/ Connected(b) /\ Goto(b, "check", "loop") /\ UNCHANGED link
       \/ ~Connected(b) /\ Goto(b, "check", "connect") /\ Set(b, "none")
    /\ UNCHANGED <<session, subscribed, failures>>

\* client.loop(), and a publication of a position or a typed line, or none.
\* The broker gets it if it has the session; publish() returns true even if not.
LoopAndPublish(b) ==
    /\ Goto(b, "loop", "check")
    /\ UNCHANGED <<link, session, subscribed, failures>>

(***************************************************************************)
(* The broker                                                              *)
(***************************************************************************)
\* The broker reads CONNECT, and closes the session the id had.
BrokerAccepts(b) ==
    /\ at[b] = "connack" /\ link[b] = "open" /\ session # b
    /\ link' = [c \in Boards |-> IF c = session THEN "cut" ELSE link[c]]
    /\ session' = b /\ subscribed' = FALSE
    /\ UNCHANGED <<at, failures>>

\* The end of the connection reaches the board.
EndArrives(b) ==
    /\ link[b] = "cut" /\ Set(b, "closed")
    /\ UNCHANGED <<at, session, subscribed, failures>>

Sketch(b) ==
    \/ CallConnect(b) \/ ConnectReturnsTrue(b) \/ ConnectReturnsFalse(b)
    \/ CallSubscribe(b) \/ Check(b) \/ LoopAndPublish(b)
Broker(b) == BrokerAccepts(b) \/ EndArrives(b)

Next == \E b \in Boards : Sketch(b) \/ Broker(b)

Spec == Init /\ [][Next]_vars
FairSpec == Spec /\ \A b \in Boards : WF_vars(Sketch(b)) /\ WF_vars(Broker(b))

(***************************************************************************)
(* Properties                                                              *)
(***************************************************************************)
\* Each board has a connection exactly when its place says so, and the broker
\* one session.
TypeOK ==
    /\ session \in Boards \cup {Nobody} /\ subscribed \in BOOLEAN /\ failures \in 0..MaxFailures
    /\ session = Nobody => ~subscribed
    /\ \A b \in Boards : at[b] = "connect" <=> link[b] = "none"

\* A board past connectAWS() has the broker's session, or another board took
\* it: the common id is all that comes between a sketch and the broker.
ServedUnlessTaken ==
    \A b \in Boards : at[b] \in {"loop", "check", "subscribe"} =>
        session = b \/ link[b] \in {"cut", "closed"}

\* Every board comes back to the session, however often it is taken away:
\* connectAWS() is called again whenever connected() is false.
EachReturns == \A b \in Boards : []<>(session = b)
=============================================================================
