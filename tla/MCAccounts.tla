----------------------------- MODULE MCAccounts -----------------------------
(* A table of two admins for checking Accounts with TLC.                   *)
EXTENDS Accounts, TLC

CONSTANTS u1, u2, u3, e1, e2, e3, p1, p2, s1, s2

Account(email, role, linked) ==
  [email |-> email, role |-> role, password |-> p1, linked |-> linked]

TwoAdmins == [u \in Ids |->
  CASE u = u1 -> Account(e1, "admin", FALSE)
    [] u = u2 -> Account(e2, "admin", FALSE)
    [] OTHER -> NoUser]

SlotSymmetry == Permutations(Slots)
=============================================================================
