----------------------------- MODULE Catalogue ------------------------------
(***************************************************************************)
(* What the two listings answer: GET /ebooks for one user and filter, and  *)
(* GET /history for one reader and status.  An answer is a page of rows    *)
(* and the number of rows on all pages, each from a statement of its own.  *)
(***************************************************************************)
EXTENDS Integers, FiniteSets

CONSTANTS
  Me,        \* who asks
  IsAdmin,   \* with the role the token gives them
  PerPage,   \* rows the client asks for (EBOOKS_PER_PAGE, HISTORY_PER_PAGE)
  Trim       \* Trim[name]: an author's name without the blanks around it

ASSUME PerPageAssumption == PerPage \in 1..50 /\ IsAdmin \in BOOLEAN
ASSUME TrimAssumption ==
  /\ "" \in DOMAIN Trim /\ Trim[""] = ""
  /\ \A name \in DOMAIN Trim : Trim[Trim[name]] = Trim[name]

(* A row of ebooks: [id, owner, private, author, words, title, created].   *)
(* title and created are places in the order of LOWER(title) and           *)
(* created_at; words are the keywords its title contains.  The author is   *)
(* stored as it was typed, blanks included.                                *)
(* A row of reading_progress with its ebook: [id, status, opened], opened  *)
(* being the last history row's place in time, 0 without one.              *)

-----------------------------------------------------------------------------
(* Who may see a book: the service's rule for opening one. *)
CanView(b) == IsAdmin \/ ~b.private \/ b.owner = Me
CanManage(b) == IsAdmin \/ b.owner = Me

Normal(f) == [f EXCEPT
  !.author = Trim[@],
  !.visibility = IF @ \in {"public", "private"} THEN @ ELSE "all",
  !.sort = IF @ = "latest" THEN @ ELSE "title"]

(* Mutant of Listed: only the narrowing is applied. *)
ListedUnguarded(f, b) == Normal(f).visibility = "private" => b.private

(* The WHERE clause, which narrows within what the user may see anyway.    *)
Listed(f, b) ==
  LET n == Normal(f) IN
  /\ ~IsAdmin => ~b.private \/ b.owner = Me
  /\ n.visibility = "public" => ~b.private
  /\ n.visibility = "private" => b.private /\ (IsAdmin \/ b.owner = Me)
  /\ n.q # "" => n.q \in b.words
  /\ n.author # "" => b.author = n.author

(* Mutant of Before: no tie-breaker. *)
BeforeTied(f, a, b) ==
  IF Normal(f).sort = "latest" THEN a.created > b.created ELSE a.title < b.title

(* The ORDER BY clause, with the id as its tie-breaker.                    *)
Before(f, a, b) ==
  IF Normal(f).sort = "latest"
  THEN a.created > b.created \/ (a.created = b.created /\ a.id > b.id)
  ELSE a.title < b.title \/ (a.title = b.title /\ a.id < b.id)

Matching(f, books) == {b \in books : Listed(f, b)}

(* The authors offered to filter by.                                       *)
Everything == [q |-> "", author |-> "", visibility |-> "all", sort |-> "title"]
(* Mutant of Authors: those of every book. *)
AuthorsUnguarded(books) == {b.author : b \in books} \ {""}
Authors(books) == {b.author : b \in Matching(Everything, books)} \ {""}

-----------------------------------------------------------------------------
(* The history of the reader: one row per book of reading_progress.        *)
InTab(f, b) == b.status = f.status

(* last_opened DESC NULLS LAST: two rows without a history row, or opened  *)
(* at the same instant, come in any order, and in another one next time.   *)
OpenedBefore(a, b) == a.opened > b.opened

-----------------------------------------------------------------------------
MaxPerPage == 50
DefaultPerPage == 8
NormalPage(page) == IF page < 1 THEN 1 ELSE page
NormalPerPage(n) == IF n < 1 \/ n > MaxPerPage THEN DefaultPerPage ELSE n

(* LIMIT and OFFSET: the rows whose place in the order is on the page.     *)
Slice(place, page) ==
  LET n == NormalPerPage(PerPage)
      offset == (NormalPage(page) - 1) * n IN
  {b \in DOMAIN place : place[b] \in offset .. (offset + n - 1)}

EbookRows(f, page, books) ==
  LET rows == Matching(f, books) IN
  Slice([b \in rows |-> Cardinality({a \in rows : Before(f, a, b)})], page)
EbookTotal(f, books) == Cardinality(Matching(f, books))

(* The pages that the order leaves open: one for each way to break ties.   *)
HistoryPages(f, page, books) ==
  LET rows == {b \in books : InTab(f, b)}
      places == {p \in [rows -> 0 .. (Cardinality(rows) - 1)] :
                   \A a, b \in rows : a # b =>
                     p[a] # p[b] /\ (OpenedBefore(a, b) => p[a] < p[b])} IN
  {Slice(p, page) : p \in places}
HistoryTotal(f, books) == Cardinality({b \in books : InTab(f, b)})

(* The number of pages the client derives from a total. *)
Pages(total) == IF total = 0 THEN 1 ELSE (total + PerPage - 1) \div PerPage
=============================================================================
