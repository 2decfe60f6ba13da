----------------------------- MODULE MCActivity -----------------------------
(* Symmetry for checking Activity with TLC.                                *)
EXTENDS Activity, TLC

CONSTANTS j1, j2

Symmetry == Permutations(Jobs)
=============================================================================
