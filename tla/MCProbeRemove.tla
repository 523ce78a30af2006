--------------------------- MODULE MCProbeRemove ---------------------------
(* TLC instances of ProbeRemove.  Three MSIs are asked for, so that 3, 1 or  *)
(* none may be granted.                                                      *)
EXTENDS ProbeRemove

\* Whatever may be refused.
AllFails == ToSet(ProbeOrder) \ {"master", "msi", "debugfs"}
=============================================================================
