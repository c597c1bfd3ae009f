------------------------------ MODULE MCTiming ------------------------------
(***************************************************************************)
(* The session for TLC: one message id, and an inbox long enough for the   *)
(* answer to a ping to queue behind another packet.                        *)
(***************************************************************************)
EXTENDS PubSubClientTiming

MCMsgIds == {7}
=============================================================================
