---------------------------- MODULE MCAwsBridge ----------------------------
(***************************************************************************)
(* AwsBridge with one message id and two faults.                           *)
(***************************************************************************)
EXTENDS AwsBridge

MCMsgIds == {7}
=============================================================================
