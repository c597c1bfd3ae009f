---------------------------- MODULE InboundQos0 ----------------------------
(***************************************************************************)
(* The schedule of keepalive_spec.cpp, "keeps a connection alive that only *)
(* receives qos0": the client does nothing but call loop(), once a second; *)
(* every second one QoS 0 message arrives; and the broker answers whatever *)
(* the client writes at once.  The test ends after 50 seconds, this does   *)
(* not.                                                                    *)
(***************************************************************************)
EXTENDS PubSubClient

VARIABLE arrived        \* this second's message has arrived

InitSchedule == Init /\ arrived = FALSE

\* The broker has answered everything, so somebody else may act.
AllAnswered == up = <<>>

Connecting == ConnectStart \/ ConnackAccepted

BrokerAnswers == BrokerReads /\ (pc = "connack" => broker'.accepted)

\* A second passes, its message arrives, and loop() is called.
SecondPasses == AllAnswered /\ sinceLoop = 0 /\ Tick /\ arrived' = FALSE

MessageArrives ==
    /\ AllAnswered /\ sinceLoop = 1 /\ ~arrived
    /\ BrokerSends /\ inbox' = Append(inbox, Plain("PUBLISH0"))
    /\ arrived' = TRUE

LoopIsCalled == AllAnswered /\ sinceLoop = 1 /\ arrived /\ Loop

NextSchedule ==
    \/ SecondPasses \/ MessageArrives
    \/ (Connecting \/ BrokerAnswers \/ LoopIsCalled \/ CallbackReturns)
       /\ UNCHANGED arrived

SpecSchedule == InitSchedule /\ [][NextSchedule]_<<vars, arrived>>

\* keepalive_spec.cpp:84: "keeps a connection alive that only receives qos0".
KeepsAlive == state # "CONNECTION_TIMEOUT"
=============================================================================
