----------------------------- MODULE MCTxVring -----------------------------
(* TLC instances of TxVring, small rings with the thresholds of the code in  *)
(* their order: the queue stops before it is full and wakes well after.      *)
EXTENDS TxVring

Skb(tso, frags, lin, chunks, copy) ==
  [tso |-> tso, frags |-> frags, lin |-> lin, chunks |-> chunks, copy |-> copy]

\* Plain frames without and with a fragment.
Plain == {Skb(FALSE, n, FALSE, 0, FALSE) : n \in {0, 1}}

\* Copies of broadcast frames.
Copies == {Skb(FALSE, 0, FALSE, 0, TRUE)}

\* GSO frames: linear only, or one fragment in up to three chunks.
Gso == {Skb(TRUE, 0, TRUE, 0, FALSE)} \cup
       {Skb(TRUE, 1, lin, n, FALSE) : lin \in BOOLEAN, n \in 1..3}
=============================================================================
