-------------------------- MODULE InOrderDelivery --------------------------
(***************************************************************************)
(* What a Block Ack session promises the network stack: the frames of a    *)
(* TID go up in the order the peer numbered them, each at most once, and a *)
(* missing one is waited for until a frame a window ahead of it arrives.   *)
(*                                                                         *)
(* Numbers here are absolute: no modulus, no slots, no counters.           *)
(***************************************************************************)
EXTENDS Integers, FiniteSets, SortedSets

CONSTANTS Frames

VARIABLES
  window, (* the window the session was agreed with                        *)
  next,   (* the first frame that has neither gone up nor been given up on *)
  held,   (* frames that arrived ahead of next                             *)
  out     (* the frames the last arrival sent up                           *)

vars == <<window, next, held, out>>

Init == window \in Nat /\ next \in Nat /\ held = {} /\ out = <<>>

\* A frame below next is late, one in held is a repetition.
Discard(f) ==
  /\ f < next \/ f \in held
  /\ out' = <<>>
  /\ UNCHANGED <<window, next, held>>

\* Frame f opens the window up to itself; what is below the first gap of the
\* window goes up.
Arrive(f) ==
  LET base == IF f < next + window THEN next ELSE f - window + 1
      all  == held \cup {f}
      gap  == CHOOSE n \in base..(base + window) :
                n \notin all /\ \A m \in base..(n - 1) : m \in all
      up   == {m \in all : m < gap}
  IN  /\ f >= next /\ f \notin held
      /\ next' = gap
      /\ held' = all \ up
      /\ out' = Ascending(up)
      /\ UNCHANGED window

Next == \E f \in Frames : Arrive(f) \/ Discard(f)

Spec == Init /\ [][Next]_vars
=============================================================================
