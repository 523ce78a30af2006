----------------------------- MODULE MCTxQueue -----------------------------
(* TLC instances of TxQueue: two rings, the thresholds of the code in their  *)
(* order, stations that come and go between the steps of everyone else.      *)
EXTENDS TxQueue

CONSTANTS s1, s2

TwoStations == {s1, s2}
AllDest == {s1, s2, ALL, EAPOL}
=============================================================================
