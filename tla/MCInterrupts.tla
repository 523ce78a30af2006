---------------------------- MODULE MCInterrupts ----------------------------
(* TLC instance of Interrupts: up to two frames received, or transmitted,   *)
(* with an event of the firmware, or one of each.                           *)
EXTENDS Interrupts

MCLoads == {[rx |-> 2, tx |-> 0, misc |-> 1], [rx |-> 0, tx |-> 2, misc |-> 1],
            [rx |-> 1, tx |-> 1, misc |-> 0]}
=============================================================================
