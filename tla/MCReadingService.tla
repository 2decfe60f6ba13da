-------------------------- MODULE MCReadingService --------------------------
(* Bounds and symmetry for checking ReadingService with TLC.               *)
EXTENDS ReadingService, TLC

CONSTANTS r1, r2, b1, b2, s1, s2

Bound(requests, faults, losses, withdrawals, stops) ==
  [request |-> requests, fault |-> faults, loss |-> losses,
   withdrawal |-> withdrawals, stop |-> stops]

Faulty    == Bound(3, 1, 1, 1, 1)
Steady    == Bound(2, 1, 0, 1, 1)
NoFault   == Bound(4, 0, 0, 0, 0)

SlotSymmetry == Permutations(Slots)
=============================================================================
