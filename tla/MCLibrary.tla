------------------------------ MODULE MCLibrary ------------------------------
(* Two uploaders and an admin, for checking Library with TLC.              *)
EXTENDS Library, TLC

CONSTANTS ann, bob, root, b1, b2, s1, s2

Symmetry == Permutations(Slots) \cup Permutations(Books)
=============================================================================
