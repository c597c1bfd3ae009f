----------------------------- MODULE AwsBridge -----------------------------
(***************************************************************************)
(* The sketch AWS_IoT_2Way_Communication.ino over PubSubClient: it joins   *)
(* the Wi-Fi, connects and subscribes, serves the session, publishes what  *)
(* is typed on the serial monitor, and connects again when it must.        *)
(*                                                                         *)
(* "at" is where the sketch is; its calls of the library are the actions   *)
(* of PubSubClient, every one of which begins with connected().  What is   *)
(* typed is not kept: a line is there, or none is.                         *)
(***************************************************************************)
EXTENDS PubSubClient

CONSTANTS
    MaxFaults,      \* bound on what goes wrong in a behaviour
    MaxSent         \* bound on unread packets when the broker sends one more

\* The answers to a SUBSCRIBE and a PINGREQ find room behind what it sends.
ASSUME BridgeAssumption ==
    /\ MaxFaults \in Nat
    /\ MaxSent \in Nat /\ MaxSent + 3 <= MaxIn
    /\ MaxUp >= 3

VARIABLES
    at,             \* the sketch's program counter
    subscribed,     \* the broker has read SUBSCRIBE on this connection
    faults          \* faults so far

bridgeVars == <<vars, at, subscribed, faults>>

Places == {"wifi", "while", "connect", "connecting", "delay", "subscribe",
           "check", "loop", "callback", "serial"}

BridgeInit == Init /\ at = "wifi" /\ subscribed = FALSE /\ faults = 0

Goto(here, there) == at = here /\ at' = there

\* What the broker knows of a connection does not outlive it.
Kept == subscribed' = (subscribed /\ link' = "open")

Faultless == UNCHANGED faults
Fault == faults < MaxFaults /\ faults' = faults + 1

\* connected(), on its own: what it returns and what it leaves behind.
Connected == IsConnected /\ UNCHANGED vars
NotConnected == NoticeLoss

-----------------------------------------------------------------------------
(* setup() and connectAWS().                                               *)

\* WiFi.status() turns WL_CONNECTED.
JoinWiFi == Goto("wifi", "while") /\ UNCHANGED <<vars, subscribed, faults>>

\* while (!client.connected())
WhileConnected == Goto("while", "check") /\ Connected /\ Kept /\ Faultless
WhileNotConnected == Goto("while", "connect") /\ NotConnected /\ Kept /\ Faultless

\* client.connect("BharatPiClient"); the id fits the buffer.
CallConnect ==
    \/ Goto("connect", "delay") /\ ConnectFails /\ Fault /\ Kept
    \/ Goto("connect", "connecting") /\ ConnectStart /\ Faultless /\ Kept

\* Mutant of ConnectReturnsTrue: nothing is subscribed.
ConnectReturnsTrueMutant ==
    Goto("connecting", "while") /\ ConnackAccepted /\ Kept /\ Faultless

ConnectReturnsTrue ==
    Goto("connecting", "subscribe") /\ ConnackAccepted /\ Kept /\ Faultless
ConnectReturnsFalse ==
    /\ Goto("connecting", "delay")
    /\ ConnackTimeout \/ ConnackRefused
    /\ Kept /\ Faultless

\* delay(5000)
DelayPasses == Goto("delay", "while") /\ UNCHANGED <<vars, subscribed, faults>>

\* client.subscribe(): its result is not looked at.
CallSubscribe ==
    /\ Goto("subscribe", "while")
    /\ Request("SUBSCRIBE") \/ NotConnected
    /\ Kept /\ Faultless

-----------------------------------------------------------------------------
(* loop().                                                                 *)

\* Mutant of Check: the session of setup() is the only one.
CheckMutant == Goto("check", "loop") /\ (Connected \/ NotConnected) /\ Kept /\ Faultless

\* if (!client.connected()) connectAWS();
Check ==
    /\ \/ Goto("check", "loop") /\ Connected
       \/ Goto("check", "while") /\ NotConnected
    /\ Kept /\ Faultless

\* client.loop(), up to its return or the callback.
CallLoop ==
    /\ at = "loop"
    /\ Loop \/ NotConnected
    /\ at' = IF pc' = "callback" THEN "callback" ELSE "serial"
    /\ Kept /\ Faultless

\* The callback prints the message and calls nothing of the library.
Callback == Goto("callback", "serial") /\ CallbackReturns /\ Kept /\ Faultless

\* No line has been typed.
SerialIdle == Goto("serial", "check") /\ UNCHANGED <<vars, subscribed, faults>>

\* client.publish() of a line: its result is not looked at.
SerialPublish ==
    /\ Goto("serial", "check")
    /\ Publish \/ NotConnected
    /\ Kept /\ Faultless

-----------------------------------------------------------------------------
(* The broker, the network and time.                                       *)

\* A CONNECT that is not accepted is a fault.
BrokerAnswers ==
    /\ BrokerReads
    /\ IF Head(up).type = "CONNECT" /\ ~broker'.accepted THEN Fault ELSE Faultless
    /\ subscribed' = (subscribed \/ Head(up).type = "SUBSCRIBE")
    /\ UNCHANGED at

\* So is a malformed packet.
BrokerPublishes ==
    /\ BrokerSends
    /\ Len(inbox) <= MaxSent
    /\ IF inbox'[Len(inbox')].type = "MALFORMED" THEN Fault ELSE Faultless
    /\ UNCHANGED <<at, subscribed>>

NetworkFails ==
    /\ Hang \/ Break
    /\ Fault /\ Kept
    /\ UNCHANGED at

TimePasses == Tick /\ UNCHANGED <<at, subscribed, faults>>

Sketch ==
    \/ JoinWiFi
    \/ WhileConnected \/ WhileNotConnected \/ CallConnect
    \/ ConnectReturnsTrue \/ ConnectReturnsFalse
    \/ DelayPasses \/ CallSubscribe
    \/ Check \/ CallLoop \/ Callback
    \/ SerialIdle \/ SerialPublish

BridgeNext ==
    \/ Sketch
    \/ BrokerAnswers \/ BrokerPublishes \/ NetworkFails
    \/ TimePasses

BridgeSpec == BridgeInit /\ [][BridgeNext]_bridgeVars

-----------------------------------------------------------------------------
(* Recovery is promised only of a broker that answers CONNECT in time: no  *)
(* time passes while a CONNECT waits for a broker that can read it.        *)

PunctualTime ==
    /\ TimePasses
    /\ pc = "connack" => up = <<>>

PunctualNext ==
    \/ Sketch
    \/ BrokerAnswers \/ BrokerPublishes \/ NetworkFails
    \/ PunctualTime

\* The sketch runs, the broker reads what reaches it, and time passes.
PunctualSpec ==
    /\ BridgeInit /\ [][PunctualNext]_bridgeVars
    /\ WF_bridgeVars(Sketch) /\ WF_bridgeVars(BrokerAnswers)
    /\ WF_bridgeVars(PunctualTime)

-----------------------------------------------------------------------------

BridgeTypeOK ==
    /\ TypeOK
    /\ at \in Places /\ subscribed \in BOOLEAN /\ faults \in 0 .. MaxFaults
    /\ pc = "connack" <=> at = "connecting"
    /\ pc = "callback" => at = "callback"

Subscribing == \E i \in DOMAIN up : up[i].type = "SUBSCRIBE"

\* The session the sketch serves in loop() is one it subscribed on: whenever
\* it is past connectAWS() and connected, this connection's SUBSCRIBE was read
\* by the broker or is under way, however often the connection was replaced
\* in between and whatever result of subscribe() went unread.
ServesSubscribed ==
    /\ at \in {"check", "loop", "callback", "serial"}
    /\ IsConnected /\ ~broker.hung
    => subscribed \/ Subscribing

\* After any (finite) number of refusals, losses, silences and malformed
\* packets, the sketch comes back to a connection the broker has a
\* subscription on.
Recovers == []<>(IsConnected /\ ~broker.hung /\ subscribed)
=============================================================================
