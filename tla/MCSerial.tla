------------------------------ MODULE MCSerial ------------------------------
(***************************************************************************)
(* The parts of EspSoftwareSerial, checked side by side: a behaviour is    *)
(* one of a single part, and the others rest in their initial states.      *)
(*                                                                         *)
(*   ring       CircularQueue, a ring that its items go round twice        *)
(*   pushes     CircularQueueMp as built for the ESP32                     *)
(*   guarded    CircularQueueMp as built for other boards                  *)
(*   words      SerialReceive: words of three bits that differ in where    *)
(*              their edges are, room for one word and the edges of one    *)
(*   parity     SerialParity, whose slots are not initialised              *)
(***************************************************************************)
EXTENDS SerialRings

allVars == <<part, vars, mpVars, rxVars, parityVars>>

\* Mp is the build for other boards, and this the one for the ESP32.
LockFreeMp ==
    INSTANCE CircularQueueMp
        WITH LockFree <- TRUE,
             buffer <- mpBuffer, inPos <- mpInPos, outPos <- mpOutPos, sent <- mpSent

F == FALSE
T == TRUE
MCFrames == {[bits |-> <<F, F, F>>, parity |-> F], [bits |-> <<T, T, T>>, parity |-> T],
             [bits |-> <<F, T, F>>, parity |-> F]}

ASSUME ~LockFree /\ Mp!QueueConstants /\ LockFreeMp!QueueConstants
ASSUME ParityConstants /\ Rx!SerialConstants

MCInit ==
    /\ part \in {"ring", "pushes", "guarded", "words", "parity"}
    /\ Init /\ Mp!Init /\ Rx!Init /\ ParityInit
    /\ part # "parity" => \A s \in DOMAIN words, b \in DOMAIN words[0] : ~words[s][b]

Receives(Step) ==
    part = "words" /\ Step /\ UNCHANGED <<part, vars, mpVars, parityVars>>

MCNext ==
    \/ part = "ring" /\ Next /\ UNCHANGED <<part, mpVars, rxVars, parityVars>>
    \/ part = "pushes" /\ LockFreeMp!Next /\ UNCHANGED <<part, vars, rxVars, parityVars>>
    \/ part = "guarded" /\ Mp!Next /\ UNCHANGED <<part, vars, rxVars, parityVars>>
    \/ Receives(Rx!Next)
    \/ part = "parity" /\ ParityNext /\ UNCHANGED <<part, vars, mpVars, rxVars>>

\* The fairness of SerialReceive; the other parts need none.
MCSpec ==
    /\ MCInit /\ [][MCNext]_allVars
    /\ WF_allVars(Receives(Rx!NextBit)) /\ WF_allVars(Receives(Rx!RxBits))
    /\ SF_allVars(Receives(Rx!Read))
=============================================================================
