----------------------------- MODULE AtMostOnce -----------------------------
(***************************************************************************)
(* What one direction of a transport session promises to the interface     *)
(* behind it: a frame comes out only after it went in, and comes out at    *)
(* most once.  Frames may be lost and may come out in any order.           *)
(***************************************************************************)
EXTENDS Integers

CONSTANT Frames          \* everything the sending side may ever offer

VARIABLES offered,       \* the frames the sending side has sealed
          copies         \* how many times each frame reached the interface

vars == <<offered, copies>>

Init ==
  /\ offered = {}
  /\ copies = [f \in Frames |-> 0]

Offer(f) ==
  /\ f \notin offered
  /\ offered' = offered \cup {f}
  /\ UNCHANGED copies

Deliver(f) ==
  /\ f \in offered
  /\ copies[f] = 0
  /\ copies' = [copies EXCEPT ![f] = 1]
  /\ UNCHANGED offered

Next == \E f \in Frames : Offer(f) \/ Deliver(f)

Spec == Init /\ [][Next]_vars
=============================================================================
