----------------------------- MODULE MCSession -----------------------------
(* Two tabs of one browser and two accounts, for checking Session.        *)
EXTENDS Session

=============================================================================
