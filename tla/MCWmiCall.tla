----------------------------- MODULE MCWmiCall -----------------------------
(* TLC instance of WmiCall: a call with a buffer, one without, and one that *)
(* sends only.                                                              *)
EXTENDS WmiCall

MCKinds == {[id |-> "temp", buf |-> TRUE], [id |-> "echo", buf |-> FALSE],
            [id |-> NULL, buf |-> FALSE]}
TwoKinds == {k \in MCKinds : k.id # NULL}
OneKind == {[id |-> "temp", buf |-> TRUE]}
=============================================================================
