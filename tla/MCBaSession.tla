---------------------------- MODULE MCBaSession ----------------------------
(* TLC instance of BaSession.  MaxFrame bounds the peer's numbering: it lets *)
(* the sequence numbers wrap once.                                           *)
EXTENDS BaSession

CONSTANT MaxFrame

MCFrames == 0..MaxFrame
=============================================================================
