----------------------------- MODULE MCListPage -----------------------------
(* Small catalogues, histories and filters for checking ListPage with TLC. *)
EXTENDS ListPage, TLC

CONSTANTS me, other

Book(i, owner, private, author, words, title, created) ==
  [id |-> i, owner |-> owner, private |-> private, author |-> author,
   words |-> words, title |-> title, created |-> created]
Read(i, status, opened) == [id |-> i, status |-> status, opened |-> opened]

MCTrim == [name \in {"", "a", "b", " b"} |-> IF name = " b" THEN "b" ELSE name]

(* Two books share a title and a time; one may turn private under another  *)
(* author, one is mine, and the author of one was typed with a blank.      *)
MCForms ==
  [ebooks |-> [i \in Ids |->
     CASE i = 1 -> {Book(1, other, FALSE, "a", {"x"}, 1, 1), Book(1, other, TRUE, "b", {"x"}, 1, 1)}
       [] i = 2 -> {Book(2, me, TRUE, "a", {}, 1, 1)}
       [] i = 3 -> {Book(3, other, FALSE, " b", {"x"}, 2, 1)}],
   history |-> [i \in Ids |->
     CASE i = 1 -> {Read(1, s, 1) : s \in {"reading", "completed"}}
       [] i = 2 -> {Read(2, "reading", 1)}
       [] i = 3 -> {Read(3, "completed", n) : n \in {0, 2}}]]

MCStarts ==
  [ebooks |-> {<<Book(1, other, FALSE, "a", {"x"}, 1, 1), Book(2, me, TRUE, "a", {}, 1, 1),
                 Book(3, other, FALSE, " b", {"x"}, 2, 1)>>},
   history |-> {<<Read(1, "reading", 1), Read(2, "reading", 1), Read(3, "completed", 2)>>}]

Filter(q, author, visibility, sort) ==
  [q |-> q, author |-> author, visibility |-> visibility, sort |-> sort]
MCFilters ==
  [ebooks |-> {Filter(q, "", "all", "title") : q \in {"", "x"}}
              \cup {Filter(q, "a", "private", "latest") : q \in {"", "x"}},
   history |-> {[status |-> s] : s \in {"reading", "completed"}}]

MCLinks ==
  LET all(n) == [filter |-> Filter("", "", "all", "title"), page |-> n]
      mine(n) == [filter |-> Filter("x", "a", "private", "latest"), page |-> n]
      tab(n) == [filter |-> [status |-> "reading"], page |-> n] IN
  [ebooks |-> {<<all(1), mine(2)>>},
   history |-> {<<tab(2), tab(1)>>}]

Few == [move |-> 2, event |-> 1]
=============================================================================
