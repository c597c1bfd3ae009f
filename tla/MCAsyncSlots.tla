---------------------------- MODULE MCAsyncSlots ----------------------------
(***************************************************************************)
(* AsyncSlots for TLC: three slots, and connections that come one after    *)
(* another, which are interchangeable.                                     *)
(***************************************************************************)
EXTENDS AsyncSlots, TLC

MCSymmetry == Permutations(Clients)
=============================================================================
