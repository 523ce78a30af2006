----------------------------- MODULE MCStaRings -----------------------------
(* TLC instances of StaRings.  Peers' addresses are only compared, so they   *)
(* may be permuted when no liveness is checked.                              *)
EXTENDS StaRings, TLC

Symmetry == Permutations(Addr)
=============================================================================
