-------------------------- MODULE MCFixPageCounts ---------------------------
(* Bounds for checking FixPageCounts with TLC.                             *)
EXTENDS FixPageCounts

CONSTANTS r1, b1, b2, s1

Bound(requests, faults, withdrawals, stops) ==
  [request |-> requests, fault |-> faults, loss |-> 0,
   withdrawal |-> withdrawals, stop |-> stops]

WithFault == Bound(2, 1, 1, 0)
Quiet     == Bound(2, 0, 0, 0)

TwoPages == [e \in Ebooks |-> 2]
=============================================================================
