----------------------------- MODULE Bookshelf ------------------------------
(***************************************************************************)
(* What reading progress promises: each reader has one position in each    *)
(* book, and only their own page turns move it.                            *)
(***************************************************************************)
EXTENDS Integers

CONSTANTS Ebooks, MaxPage

VARIABLES
  length,    \* pages of each ebook, 0 when unknown
  position,  \* of each reader in each ebook, while both exist
  wanted     \* the page a turn under way asks for, 0 without one

vars == <<length, position, wanted>>
Books == DOMAIN position

(* The page a reader ends up on when asking for page n of p's ebook. *)
Within(p, n) == IF length[p[2]] > 0 /\ n > length[p[2]] THEN length[p[2]] ELSE n

Ask(p, n) ==
  /\ wanted[p] = 0
  /\ wanted' = [wanted EXCEPT ![p] = n]
  /\ UNCHANGED <<length, position>>

(* The page asked for may be clamped before the turn is carried out. *)
Check(p) ==
  /\ wanted[p] # 0
  /\ wanted' = [wanted EXCEPT ![p] = Within(p, @)]
  /\ UNCHANGED <<length, position>>

Turn(p) ==
  /\ wanted[p] # 0
  /\ position' = [position EXCEPT ![p] = Within(p, wanted[p])]
  /\ wanted' = [wanted EXCEPT ![p] = 0]
  /\ UNCHANGED length

(* The reader or the server gives up on turns: all of them when it stops.  *)
Drop(some) ==
  /\ wanted' = [p \in Books |-> IF p \in some THEN 0 ELSE wanted[p]]
  /\ UNCHANGED <<length, position>>

(* Readers or ebooks are deleted. *)
Remove(gone) ==
  /\ position' = [p \in Books \ gone |-> position[p]]
  /\ wanted' = [p \in Books \ gone |-> wanted[p]]
  /\ UNCHANGED length

Init ==
  /\ length \in [Ebooks -> Nat]
  /\ position = [p \in Books |-> 1]
  /\ wanted = [p \in Books |-> 0]

Next ==
  \/ \E p \in Books : Check(p) \/ Turn(p) \/ \E n \in 1..MaxPage : Ask(p, n)
  \/ \E some \in SUBSET Books : Drop(some) \/ Remove(some)

Spec == Init /\ [][Next]_vars
=============================================================================
