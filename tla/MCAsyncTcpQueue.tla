-------------------------- MODULE MCAsyncTcpQueue --------------------------
(***************************************************************************)
(* AsyncTcpQueue for TLC: two connections, which are interchangeable.      *)
(***************************************************************************)
EXTENDS AsyncTcpQueue, TLC

MCSymmetry == Permutations(Clients)

=============================================================================
