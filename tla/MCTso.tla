------------------------------- MODULE MCTso -------------------------------
(* TLC instances of Tso: packets of one to three octets, so that fragments   *)
(* end before, at and after the end of a packet.                             *)
EXTENDS Tso

\* One to three fragments of one to four octets.
SmallFrags == UNION {[1..n -> 1..4] : n \in 1..3}
=============================================================================
