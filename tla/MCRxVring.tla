----------------------------- MODULE MCRxVring -----------------------------
(* TLC instance of RxVring.                                                 *)
EXTENDS RxVring
=============================================================================
