-------------------------- MODULE MCSharedClientId --------------------------
(***************************************************************************)
(* SharedClientId for TLC: the boards are model values of the cfg.         *)
(***************************************************************************)
EXTENDS SharedClientId
=============================================================================
