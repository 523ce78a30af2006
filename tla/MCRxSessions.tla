---------------------------- MODULE MCRxSessions ----------------------------
(* TLC instances of RxSessions: any frames, two requests under way, one      *)
(* reset, and a peer that asks for more than the driver agrees to.           *)
EXTENDS RxSessions

MCFrames == 0..(SeqModulo - 1)
=============================================================================
