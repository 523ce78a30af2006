---------------------------- MODULE MCRxReorder ----------------------------
(* TLC instances of RxReorder: any sequence of frames, of any sequence       *)
(* numbers, into sessions of any window size.                                *)
EXTENDS RxReorder

MCFrames == 0..(SeqModulo - 1)
=============================================================================
