----------------------------- MODULE MCFraming -----------------------------
(***************************************************************************)
(* Both directions of a transport, checked side by side: a behaviour looks *)
(* at the packets the client sends or at those it reads, which share no    *)
(* state but the encoding of a length.                                     *)
(*                                                                         *)
(* Out: lengths that reach one, two and three digits of a radix-3 length   *)
(* field and that pass the width of its type, which is 27 here.            *)
(* In: lengths of one, two and three digits, one of which makes a packet   *)
(* as large as the buffer and one a packet a byte larger; a PUBLISH of     *)
(* length 0 is too short for its topic's length.  A byte of a body would,  *)
(* read as a header, be a PUBLISH or a digit that continues.               *)
(***************************************************************************)
EXTENDS PublishStream, PacketReader

MCTopicLengths == {0, 3}
MCPayloadLengths == {0, 1, 6, 7, 15, 18, 19, 24, 25, 28, 33}
MCLengths == {0, 3, 4, 9}
MCContents == {5}

VARIABLE direction

ASSUME ReaderConstants

MCInit == direction \in {"out", "in"} /\ Init /\ ReaderInit

MCNext ==
    \/ direction = "out" /\ Next /\ UNCHANGED <<direction, readerVars>>
    \/ direction = "in" /\ ReaderNext /\ UNCHANGED <<direction, vars>>

MCSpec == MCInit /\ [][MCNext]_<<direction, vars, readerVars>>
=============================================================================
