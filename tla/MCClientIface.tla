--------------------------- MODULE MCClientIface ---------------------------
(* TLC instance of ClientIface.                                             *)
EXTENDS ClientIface
=============================================================================
