---------------------------- MODULE MCReaderPage ----------------------------
(* Small visits for checking ReaderPage with TLC. *)
EXTENDS ReaderPage

(* The reader turns pages and clicks the completion button, or clicks      *)
(* bookmarks: the two share no state but the page.                         *)
Habits == {{"turn", "toggle"}, {"bookmark"}}

=============================================================================
