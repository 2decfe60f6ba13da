------------------------------ MODULE ListPage ------------------------------
(***************************************************************************)
(* The two list pages, each beside its listing: the URL says what is asked *)
(* for, a request is sent whenever it changes, and answers come back in    *)
(* any order while other users change the rows.  A listing is two SQL      *)
(* statements, and rows may change between them.                           *)
(*                                                                         *)
(* One visit of a page, from mounting it to leaving it.  A step of the     *)
(* page is an event with everything React does before the next one: the    *)
(* render and the effects, which see the state of that render.             *)
(***************************************************************************)
EXTENDS Catalogue, Sequences

CONSTANTS
  Kinds,      \* of pages: ebooks (EbookListPage), history (HistoryPage)
  Ids,        \* rows there may be
  Forms,      \* Forms[kind][id]: what the row may read
  Starts,     \* Starts[kind]: the rows there may be when the page opens
  Filters,    \* Filters[kind]: the filters of the URL, the page aside
  Links,      \* Links[kind]: the session histories it may be opened with; more
              \* than one entry after Back and a reload
  Limit       \* how often each event of Bounded may happen

Bounded == {"move", "event"}
ASSUME LimitAssumption == Limit \in [Bounded -> Nat]
ASSUME KindAssumption == Kinds \subseteq {"ebooks", "history"}
(* A row keeps its id, and ids, titles and times are in an order each.     *)
ASSUME RowAssumption ==
  /\ IsFiniteSet(Ids) /\ Ids \subseteq Nat
  /\ \A k \in Kinds : \A i \in Ids : \A b \in Forms[k][i] : b.id = i
  /\ "ebooks" \in Kinds =>
       \A i \in Ids : \A b \in Forms["ebooks"][i] : b.title \in Nat /\ b.created \in Nat
  /\ "history" \in Kinds => \A i \in Ids : \A b \in Forms["history"][i] : b.opened \in Nat
ASSUME StartAssumption ==
  \A k \in Kinds : \A s \in Starts[k] :
    DOMAIN s = Ids /\ \A i \in Ids : s[i] \in Forms[k][i] \cup {[id |-> 0]}
ASSUME LinkAssumption ==
  \A k \in Kinds : \A link \in Links[k] :
    link \in Seq([filter : Filters[k], page : Nat \ {0}]) /\ link # <<>>
(* Any query may be typed beside any other filter; "none" is no query.     *)
ASSUME FilterAssumption ==
  "ebooks" \in Kinds =>
    /\ Filters["ebooks"] \subseteq
         [q : STRING, author : DOMAIN Trim, visibility : STRING, sort : STRING]
    /\ \A f, g \in Filters["ebooks"] :
         LET h == [f EXCEPT !.q = g.q] IN
         h \in Filters["ebooks"] /\ h.q = g.q /\ g.q # "none"

VARIABLES
  kind,      \* the page that is open
  store,     \* the rows, Gone where there is none
  stack, top,\* this page's entries of the browser's session history
  requests,  \* listings under way
  seq,       \* requestRef: the number of the newest request
  loading, failed,
  shown,     \* rows and total on screen, and the question they answer
  box,       \* the search box
  pending,   \* what the debounced search is about to commit
  managing,  \* the view in which an upload, edit or delete was started
  spent,
  outdated   \* history variable: the newest request was sent by a handler
             \* of an earlier view

vars == <<kind, store, stack, top, requests, seq, loading, failed, shown,
          box, pending, managing, spent, outdated>>

Gone == [id |-> 0]
None == "none"
Here == stack[top]
Existing == {store[i] : i \in Ids} \ {Gone}
Questions == [filter : Filters[kind], page : Nat \ {0}]
Asking(n, question) ==
  [seq |-> n, of |-> question, at |-> "first", rows |-> {}, total |-> 0, torn |-> FALSE]
Spend(what) == /\ spent[what] < Limit[what]
               /\ spent' = [spent EXCEPT ![what] = @ + 1]

-----------------------------------------------------------------------------
(* loadEbooks, loadHistory: one request per question, the others go on.    *)
Load(others, questions, view) ==
  LET n == Len(questions) IN
  /\ requests' = others \cup {Asking(seq + k, questions[k]) : k \in 1..n}
  /\ seq' = seq + n
  /\ outdated' = (IF n = 0 THEN outdated ELSE questions[n] # view)

(* Mutant of LastPage: pages counted from zero. *)
LastPageFromZero(question, total) == [question EXCEPT !.page = Pages(total) - 1]
PastEnd(question, total) == question.page > Pages(total)
LastPage(question, total) == [question EXCEPT !.page = Pages(total)]

(* Mutant of BoxAfter: the box keeps what was typed. *)
BoxAfterTyping(question) == box
(* The box follows the URL whenever its query changes. *)
BoxAfter(question) ==
  IF kind = "ebooks" /\ question.filter.q # Here.filter.q
  THEN question.filter.q ELSE box

(* The URL becomes entry i of s.  The effect that loads runs first; the    *)
(* one that steps back from a page past the end still sees loading and the *)
(* total of the view before, and replaces the new URL if it applies.       *)
GoTo(s, i) ==
  LET asked == s[i]
      past == ~loading /\ asked.page # Here.page /\ PastEnd(asked, shown.total)
      landed == IF past THEN LastPage(asked, shown.total) ELSE asked IN
  /\ stack' = [s EXCEPT ![i] = landed] /\ top' = i
  /\ Load(requests, IF asked = Here THEN <<>> ELSE IF past THEN <<asked, landed>> ELSE <<asked>>, landed)
  /\ loading' = (loading \/ asked # Here)
  /\ box' = BoxAfter(landed)

Push(question) == GoTo(Append(SubSeq(stack, 1, top), question), top + 1)

(* A select, Reset or a tab: a filter change returns to the first page.    *)
SetFilter ==
  /\ Spend("move")
  /\ \E f \in Filters[kind] :
       /\ kind = "ebooks" => f # Here.filter /\ f.q \in {Here.filter.q, ""}
       /\ Push([filter |-> f, page |-> 1])
  /\ UNCHANGED <<kind, store, failed, shown, pending, managing>>

(* The pagination, when there is more than one page: each of them, and the *)
(* one before, which a page past the end has too.  The history page keeps  *)
(* it on screen while it loads, even with no rows.                         *)
TurnTo ==
  /\ IF kind = "ebooks" THEN shown.rows # {} /\ ~loading ELSE shown.rows # {} \/ loading
  /\ Pages(shown.total) > 1 /\ Spend("move")
  /\ \E n \in (1..Pages(shown.total) \cup {Here.page - 1}) \ {0, Here.page} :
       Push([Here EXCEPT !.page = n])
  /\ UNCHANGED <<kind, store, failed, shown, pending, managing>>

(* The browser's Back and Forward buttons. *)
Back == /\ top > 1 /\ Spend("move") /\ GoTo(stack, top - 1)
        /\ UNCHANGED <<kind, store, failed, shown, pending, managing>>
Forward == /\ top < Len(stack) /\ Spend("move") /\ GoTo(stack, top + 1)
           /\ UNCHANGED <<kind, store, failed, shown, pending, managing>>

Type ==
  /\ kind = "ebooks" /\ Spend("move")
  /\ \E q \in {f.q : f \in Filters[kind]} \ {box} : box' = q /\ pending' = q
  /\ UNCHANGED <<kind, store, stack, top, requests, seq, loading, failed, shown,
                 managing, outdated>>

(* 300 ms after the last key: the query replaces the one of the URL as it  *)
(* is by then.                                                             *)
CommitSearch ==
  /\ pending # None
  /\ GoTo([stack EXCEPT ![top] =
             [filter |-> [Here.filter EXCEPT !.q = pending], page |-> 1]], top)
  /\ pending' = None
  /\ UNCHANGED <<kind, store, failed, shown, managing, spent>>

-----------------------------------------------------------------------------
(* The server.  ListVisible counts, then selects; ListUserHistory selects, *)
(* then counts.                                                            *)
Becomes(r, next) == requests' = (requests \ {r}) \cup {next}
Rows(r) ==
  IF kind = "ebooks" THEN {EbookRows(r.of.filter, r.of.page, Existing)}
  ELSE HistoryPages(r.of.filter, r.of.page, Existing)
Total(r) ==
  IF kind = "ebooks" THEN EbookTotal(r.of.filter, Existing)
  ELSE HistoryTotal(r.of.filter, Existing)

SelectRows(r, next) ==
  \E rows \in Rows(r) : Becomes(r, [r EXCEPT !.at = next, !.rows = {b.id : b \in rows}])
CountRows(r, next) == Becomes(r, [r EXCEPT !.at = next, !.total = Total(r)])

Serve(r) ==
  /\ \/ /\ r.at = "first"
        /\ IF kind = "ebooks" THEN CountRows(r, "second") ELSE SelectRows(r, "second")
     \/ /\ r.at = "second"
        /\ IF kind = "ebooks" THEN SelectRows(r, "answered") ELSE CountRows(r, "answered")
  /\ UNCHANGED <<kind, store, stack, top, seq, loading, failed, shown, box,
                 pending, managing, spent, outdated>>

(* What may happen to the rows: one is inserted, changed or deleted.       *)
Rewrites ==
  UNION {{<<i, new>> : new \in (Forms[kind][i] \cup {Gone}) \ {store[i]}} : i \in Ids}
Mine(b) == b = Gone \/ CanManage(b)
MyRewrites == {w \in Rewrites : Mine(store[w[1]]) /\ Mine(w[2])}
Write(rewrites) == \E w \in rewrites : store' = [store EXCEPT ![w[1]] = w[2]]

(* Others write. *)
Change ==
  /\ Spend("event")
  /\ Write(Rewrites)
  /\ requests' = {[r EXCEPT !.torn = @ \/ r.at = "second"] : r \in requests}
  /\ UNCHANGED <<kind, stack, top, seq, loading, failed, shown, box, pending,
                 managing, outdated>>

-----------------------------------------------------------------------------
(* Answers.                                                                *)

(* Mutant of Newest: every answer is taken. *)
NewestOrNot(r) == TRUE
(* Only the newest request may write to the ebook page's state; the        *)
(* history page takes every answer.                                        *)
Newest(r) == kind = "history" \/ r.seq = seq

(* Mutant of Settle: no step back. *)
SettleHere(others, total) ==
  /\ UNCHANGED stack /\ loading' = FALSE /\ Load(others, <<>>, Here)
(* Loading has ended with this total; a page past the end steps back to    *)
(* the last one, and asks for it.                                          *)
Settle(others, total) ==
  LET last == LastPage(Here, total) IN
  IF PastEnd(Here, total)
  THEN /\ stack' = [stack EXCEPT ![top] = last]
       /\ loading' = TRUE /\ Load(others, <<last>>, last)
  ELSE UNCHANGED stack /\ loading' = FALSE /\ Load(others, <<>>, Here)

Deliver(r) ==
  /\ r.at = "answered"
  /\ IF Newest(r)
     THEN /\ shown' = [rows |-> r.rows, total |-> r.total, of |-> r.of, torn |-> r.torn]
          /\ failed' = FALSE
          /\ Settle(requests \ {r}, r.total)
     ELSE /\ requests' = requests \ {r}
          /\ UNCHANGED <<stack, seq, loading, failed, shown, outdated>>
  /\ UNCHANGED <<kind, store, top, box, pending, managing, spent>>

(* Mutant of Fail: loading ends only with an answer. *)
FailLoading(r) ==
  /\ Spend("event")
  /\ requests' = requests \ {r} /\ failed' = TRUE
  /\ UNCHANGED <<kind, store, stack, top, seq, loading, shown, box, pending,
                 managing, outdated>>

(* The request fails, at any point.  The ebook page keeps the rows on      *)
(* screen, the history page clears them.                                   *)
Fail(r) ==
  /\ Spend("event")
  /\ IF Newest(r)
     THEN LET total == IF kind = "history" THEN 0 ELSE shown.total IN
          /\ shown' = IF kind = "history"
                      THEN [shown EXCEPT !.rows = {}, !.total = 0] ELSE shown
          /\ failed' = TRUE
          /\ Settle(requests \ {r}, total)
     ELSE /\ requests' = requests \ {r}
          /\ UNCHANGED <<stack, seq, loading, failed, shown, outdated>>
  /\ UNCHANGED <<kind, store, top, box, pending, managing>>

(* The user uploads, edits or deletes a book of theirs, and is free to go  *)
(* to another view before it is done.                                      *)
Manage ==
  /\ kind = "ebooks" /\ managing = <<>> /\ Spend("event")
  /\ managing' = <<Here>>
  /\ UNCHANGED <<kind, store, stack, top, requests, seq, loading, failed, shown,
                 box, pending, outdated>>

(* It is done, and refresh() runs: the handler's own loadEbooks, which     *)
(* asks the question of the view it was started in.                        *)
Managed ==
  /\ managing # <<>> /\ managing' = <<>>
  /\ Write(MyRewrites)
  /\ UNCHANGED <<stack, top>>
  /\ Load({[r EXCEPT !.torn = @ \/ r.at = "second"] : r \in requests}, managing, Here)
  /\ loading' = TRUE
  /\ UNCHANGED <<kind, failed, shown, box, pending, spent>>

(* It failed: nothing is loaded. *)
ManageFails ==
  /\ managing # <<>> /\ managing' = <<>>
  /\ UNCHANGED <<kind, store, stack, top, requests, seq, loading, failed, shown,
                 box, pending, spent, outdated>>

-----------------------------------------------------------------------------
Init ==
  /\ kind \in Kinds
  /\ store \in Starts[kind]
  /\ stack \in Links[kind] /\ top = 1
  /\ seq = 1 /\ requests = {Asking(1, Here)}
  /\ loading = TRUE /\ failed = FALSE
  /\ shown = [rows |-> {}, total |-> 0, of |-> Here, torn |-> FALSE]
  /\ box = IF kind = "ebooks" THEN Here.filter.q ELSE ""
  /\ pending = None /\ managing = <<>>
  /\ spent = [b \in Bounded |-> 0]
  /\ outdated = FALSE

Answer(r) == Serve(r) \/ Deliver(r)
Next ==
  \/ SetFilter \/ TurnTo \/ Back \/ Forward \/ Type \/ CommitSearch
  \/ \E r \in requests : Answer(r) \/ Fail(r)
  \/ Change
  \/ Manage \/ Managed \/ ManageFails

Spec == Init /\ [][Next]_vars

(* The server works on the newest request, its answer arrives, and timers  *)
(* fire.  Users, failures and the older requests are free.                 *)
Fairness ==
  /\ WF_vars(\E r \in requests : r.seq = seq /\ Answer(r))
  /\ WF_vars(CommitSearch)
FairSpec == Spec /\ Fairness

-----------------------------------------------------------------------------
(* Properties. *)

TypeOK ==
  /\ kind \in Kinds
  /\ \A i \in Ids : store[i] \in Forms[kind][i] \cup {Gone}
  /\ top \in 1..Len(stack)
  /\ \A i \in 1..Len(stack) : stack[i] \in Questions
  /\ \A r \in requests :
       /\ r.seq \in 1..seq /\ r.of \in Questions
       /\ r.at \in {"first", "second", "answered"}
       /\ r.rows \subseteq Ids /\ r.total \in Nat
  /\ loading \in BOOLEAN /\ failed \in BOOLEAN /\ outdated \in BOOLEAN
  /\ shown.rows \subseteq Ids /\ shown.total \in Nat
  /\ Len(managing) <= 1

(* Whatever order answers arrive in, the ebook page that is not loading    *)
(* shows the answer to the question in its URL, unless the newest request  *)
(* was the refresh of a handler started in an earlier view.                *)
ShownIsAsked ==
  kind = "ebooks" /\ ~loading /\ ~failed /\ ~outdated => shown.of = Here

(* An empty page is shown only of an empty list, unless rows changed       *)
(* between the two statements of its answer.                               *)
EmptyMeansNone ==
  ~loading /\ ~failed /\ shown.rows = {} /\ ~shown.torn /\ shown.of = Here
    => shown.total = 0

(* With nothing left to commit, the search box shows the query in force.   *)
BoxTellsQuery ==
  kind = "ebooks" /\ pending = None => box = Here.filter.q

(* The pages of a listing hold each of its rows once, and all but the last *)
(* are full.                                                               *)
Partition(pages, rows) ==
  LET n == Pages(Cardinality(rows)) IN
  /\ \A k \in 1..(n - 1) : Cardinality(pages[k]) = PerPage
  /\ \A j, k \in 1..n : j # k => pages[j] \cap pages[k] = {}
  /\ UNION {pages[k] : k \in 1..n} = rows

(* The pages of any filter hold each matching book once, the one that may  *)
(* be opened and no other.  So do the pages of a tab of the history, and   *)
(* they can be told, while no two of its books were opened last at one     *)
(* instant, or never: no id breaks their tie.                              *)
PagesPartition ==
  \A f \in Filters[kind] :
    IF kind = "ebooks"
    THEN LET n == Pages(EbookTotal(f, Existing))
             openable == {b \in Existing : CanView(b)} IN
         /\ Partition([k \in 1..n |-> EbookRows(f, k, Existing)], Matching(f, Existing))
         /\ Matching(f, Existing) \subseteq openable
         /\ f.q = "" /\ f.author = "" /\ f.visibility = "all" =>
              Matching(f, Existing) = openable
    ELSE LET n == Pages(HistoryTotal(f, Existing))
             rows == {b \in Existing : InTab(f, b)}
             answers(k) == HistoryPages(f, k, Existing) IN
         (\A a, b \in rows : a # b => a.opened # b.opened) =>
           /\ \A k \in 1..n : Cardinality(answers(k)) = 1
           /\ Partition([k \in 1..n |-> UNION answers(k)], rows)

(* Every author offered lists a book when chosen, and the author of every  *)
(* listed book is offered.  A name stored with blanks around it is left    *)
(* out: the filter trims it and finds nothing.                             *)
AuthorsListed ==
  kind = "ebooks" =>
    /\ \A a \in Authors(Existing) :
         a = Trim[a] => Matching([Everything EXCEPT !.author = a], Existing) # {}
    /\ \A f \in Filters[kind] : \A b \in Matching(f, Existing) :
         b.author \in Authors(Existing) \cup {""}

(* A page that is loading always comes to rest, at a page the list has.    *)
Settles == []<>(~loading /\ Here.page <= Pages(shown.total))
=============================================================================
