----------------------------- MODULE ReaderPage -----------------------------
(***************************************************************************)
(* The reader page in the browser, for one user and one book: the page on  *)
(* screen, the save that waits three seconds for the next page turn, the   *)
(* completion button and the bookmarks, over calls that are served and     *)
(* answered in any order, or lost.                                         *)
(*                                                                         *)
(* The server's part is ReadingService for this user and book: its         *)
(* handlers run beside each other and beside the flusher, a step for each  *)
(* call to Redis and Postgres that reads or writes the place or the        *)
(* status; calls fail, and the key can vanish.  The book stays, and its    *)
(* page count is the file's, so that no page sent is clamped.              *)
(*                                                                         *)
(* The page is left in two ways.  Inside the application (Back) React      *)
(* unmounts it, which sends a waiting save.  When the tab is closed or     *)
(* reloaded nothing is unmounted; a beforeunload handler saves instead,    *)
(* and calls under way may be aborted.                                     *)
(***************************************************************************)
EXTENDS Integers

CONSTANTS
  Length,    \* pages of the book
  Controls,  \* the sets of controls a reader may use, besides opening the
             \* page and leaving it
  Limit      \* how often, in all, the reader does something, a flush begins
             \* or something fails

ASSUME LengthAssumption == Length \in Nat \ {0}
ASSUME ControlsAssumption ==
  Controls \subseteq SUBSET {"turn", "toggle", "bookmark"}
ASSUME LimitAssumption == Limit \in Nat

VARIABLES
  row,              \* the server: the row of reading_progress, or NoRow
  key,              \* the server: the Redis key, or None
  flush,            \* the server: flushToDB with its locals
  marks,            \* the server: bookmarks, <<page, id>>
  view,             \* of the tab: away from the page, loading it, reading
  visit,            \* number of the page's mountings
  page, waiting,    \* currentPage, and the page the debounced save waits with
  completed,        \* isCompleted
  listed,           \* bookmarks as the button last loaded them
  calls,            \* calls under way, with their handlers' locals
  sent,             \* number of the newest call
  spent, uses,      \* the bounds: of what Limit counts, and of the controls
  \* History variables, read by properties only.
  turned,           \* the page the reader last turned to
  lastSave, applied,\* the newest save sent, and the one applied last
  early,            \* the newest save was sent by a tab closed too early
  behind,           \* the page opened at is not known to be the last one
  moved,            \* since the save applied last the server moved the place
                    \* by itself, or holds an older page that could show
  doubt,            \* the button may be wrong, see ButtonTellsStatus
  undone,           \* since the last status stored somebody who had read the
                    \* row before has written it back, or is about to
  lastList, shownBy,\* the newest list call, and the one on screen
  unseen            \* a bookmark changed and nobody reloads the list

server == <<row, key, flush, marks>>
tab == <<view, visit, page, waiting, completed, listed>>
tabGhosts == <<turned, lastSave, early, behind, doubt, lastList, shownBy>>
serverGhosts == <<applied, moved, undone>>
ghosts == <<tabGhosts, serverGhosts, unseen>>
bounds == <<spent, uses>>
vars == <<server, tab, calls, sent, bounds, ghosts>>

Pages == 1..Length
None == 0
Nobody == 0      \* the visit of a call whose tab is gone
Nothing == <<>>
NoRow == [there |-> FALSE, page |-> 1, finished |-> FALSE]
Row(n, done) == [there |-> TRUE, page |-> n, finished |-> done]
Resting == [at |-> "done", page |-> 1, finished |-> FALSE]

Spend == spent < Limit /\ spent' = spent + 1 /\ UNCHANGED uses
DEED == Spend
FAULT == Spend
Fine == UNCHANGED bounds

Call(op, arg) == [n |-> sent + 1, visit |-> visit, op |-> op, arg |-> arg,
                  at |-> "sent", page |-> 1, answer |-> Nothing]
Send(others, op, arg) == calls' = others \cup {Call(op, arg)} /\ sent' = sent + 1
Serving(c) == c.at \notin {"answered", "refused"}
Saving(others, n, tooEarly) ==
  Send(others, "save", n) /\ lastSave' = sent + 1 /\ early' = tooEarly

-----------------------------------------------------------------------------
(* What the reader does.                                                   *)

(* The page is mounted and asks for the book, its place and its file.      *)
Open ==
  /\ view = "away" /\ DEED
  /\ view' = "loading" /\ visit' = visit + 1
  /\ calls' = calls \cup {[Call("open", Nothing) EXCEPT !.visit = visit + 1]}
  /\ sent' = sent + 1
  /\ UNCHANGED <<server, page, waiting, completed, listed, ghosts>>

(* Mutant of TurnTo: only the first of several turns is remembered. *)
TurnToFirst(n) ==
  /\ page' = n /\ waiting' = (IF waiting = None THEN n ELSE waiting)
  /\ turned' = n /\ behind' = FALSE
(* handlePageChange: shown at once, saved when no turn follows for 3 s.    *)
TurnTo(n) == page' = n /\ waiting' = n /\ turned' = n /\ behind' = FALSE

(* The arrows, the page box and a bookmark in the list. *)
Turn ==
  /\ "turn" \in uses /\ view = "reading" /\ DEED
  /\ \E n \in Pages \ {page} : TurnTo(n)
  /\ UNCHANGED <<server, view, visit, completed, listed, calls, sent, lastSave,
                 early, doubt, lastList, shownBy, serverGhosts, unseen>>

TimerFires ==
  /\ waiting # None
  /\ Saving(calls, waiting, FALSE) /\ waiting' = None
  /\ UNCHANGED <<server, view, visit, page, completed, listed, bounds, turned,
                 behind, doubt, lastList, shownBy, serverGhosts, unseen>>

(* handleToggleCompleted: offered where the last page is in sight, which   *)
(* on a spread is one page before it.                                      *)
Toggle ==
  /\ "toggle" \in uses /\ view = "reading" /\ page >= Length - 1 /\ DEED
  /\ completed' = ~completed
  /\ Send(calls, "status", ~completed)
  /\ doubt' = (doubt \/ \E c \in calls : c.op = "status")
  /\ UNCHANGED <<server, view, visit, page, waiting, listed, turned, lastSave,
                 early, behind, lastList, shownBy, serverGhosts, unseen>>

(* toggleBookmark, by the list as it was last loaded. *)
Mark ==
  /\ "bookmark" \in uses /\ view = "reading" /\ DEED
  /\ LET here == {m \in listed : m[1] = page} IN
     IF here = {} THEN Send(calls, "mark", page)
     ELSE \E m \in here : Send(calls, "unmark", m)
  /\ UNCHANGED <<server, tab, ghosts>>

(* The page is unmounted: a waiting save is sent at once.                  *)
Flush(others) ==
  IF waiting # None THEN Saving(others, waiting, FALSE)
  ELSE calls' = others /\ UNCHANGED <<sent, lastSave, early>>
Blank == page' = 1 /\ waiting' = None /\ completed' = FALSE /\ listed' = {}
Leave(others) ==
  /\ view' = "away" /\ Blank /\ Flush(others)
  /\ UNCHANGED <<server, visit, turned, behind, doubt, lastList, shownBy,
                 serverGhosts, unseen>>

Back == view # "away" /\ DEED /\ Leave(calls)

(* Mutant of UnloadSave: left to the debounced save. *)
UnloadSaveNot(others) == calls' = others /\ UNCHANGED <<sent, lastSave, early>>
(* beforeunload, which saves the page on screen: page 1 while the book is  *)
(* still loading.                                                          *)
UnloadSave(others) ==
  IF view # "away"
  THEN /\ calls' = others \cup {[Call("save", page) EXCEPT !.visit = Nobody]}
       /\ sent' = sent + 1 /\ lastSave' = sent + 1
       /\ early' = (view = "loading" \/ behind)
  ELSE calls' = others /\ UNCHANGED <<sent, lastSave, early>>

(* The tab is closed or reloaded, here or elsewhere in the application.    *)
(* Calls the server is at work on may be aborted; nobody hears of the rest.*)
Unload ==
  /\ view # "away" \/ calls # {}
  /\ DEED
  /\ \E kept \in SUBSET {c \in calls : Serving(c)} :
       UnloadSave({[c EXCEPT !.visit = Nobody] : c \in kept})
  /\ view' = "away" /\ Blank
  /\ UNCHANGED <<server, visit, turned, behind, doubt, lastList, shownBy,
                 serverGhosts, unseen>>

-----------------------------------------------------------------------------
(* The server.                                                             *)

(* Where the reader is, as the server tells it: the cached page, else the  *)
(* stored one, else page 1.                                                *)
Position == IF key # None THEN key ELSE row.page
Finished == row.finished

(* Pages that steps under way have read and have yet to write.             *)
Copies ==
  {flush.page : x \in {flush.at} \ {"done"}} \cup
  {c.page : c \in {d \in calls : d.at \in {"create", "cache", "fill", "write"}}}

(* Who has read the row, or found none, and is about to write its status.  *)
Carrying == flush.at = "write" \/ \E c \in calls : c.at = "create"

(* A handler reads page 1 and "reading" where the row could not be read.   *)
Misread(c) ==
  /\ moved' = (moved \/ (key = None /\ row.page # 1))
  /\ undone' = (undone \/ (c.op = "open" /\ Finished))
  /\ UNCHANGED applied

(* An answer matters to the page that waits for it, and nobody waits for   *)
(* the answer to a save.  Only the end of an open outlives its page.       *)
Ours(c) == c.visit = visit /\ view # "away"
Awaited(c) == c.op # "save" /\ (Ours(c) \/ (c.op = "open" /\ c.visit # Nobody))
Answered(c, at, n, answer) ==
  calls' = (calls \ {c}) \cup
    (IF Awaited(c) THEN {[c EXCEPT !.at = at, !.page = n, !.answer = answer]} ELSE {})
Goes(c, at, n) == calls' = (calls \ {c}) \cup {[c EXCEPT !.at = at, !.page = n]}

(* OpenBook.  A row that is missing and one that cannot be read are alike. *)
OpenReadRow(c) ==
  /\ c.op = "open" /\ c.at = "sent"
  /\ LET Told(at, seen) == calls' = (calls \ {c}) \cup
           {[c EXCEPT !.at = at, !.page = seen.page, !.answer =
              [completed |-> seen.finished, behind |-> FALSE,
               doubt |-> \E d \in calls : d.op = "status" /\ Serving(d)]]} IN
     \/ row.there /\ Fine /\ Told("cache", row) /\ UNCHANGED serverGhosts
     \/ ~row.there /\ Fine /\ Told("create", NoRow) /\ UNCHANGED serverGhosts
     \/ row.there /\ FAULT /\ Told("create", NoRow) /\ Misread(c)
  /\ UNCHANGED <<server, unseen>>

OpenCreate(c) ==
  /\ c.at = "create"
  /\ \/ Fine /\ row' = Row(1, FALSE)
     \/ FAULT /\ UNCHANGED row
  /\ Goes(c, "cache", c.page)
  /\ UNCHANGED <<key, flush, marks, serverGhosts, unseen>>

Opened(c, n) ==
  Answered(c, "answered", n, [c.answer EXCEPT !.behind =
    n # Position \/ moved \/ applied # lastSave \/ early])

(* A miss and an error are alike. *)
OpenReadKey(c) ==
  /\ c.at = "cache"
  /\ \/ key # None /\ Fine /\ Opened(c, key)
     \/ key = None /\ Fine /\ Goes(c, "fill", c.page)
     \/ key # None /\ FAULT /\ Goes(c, "fill", c.page)
  /\ UNCHANGED <<server, serverGhosts, unseen>>

(* rdb.Set of the page read before: over a newer key it moves the place.   *)
Fill(c) ==
  \/ /\ Fine /\ key' = c.page
     /\ moved' = (moved \/ key \notin {None, c.page})
  \/ FAULT /\ UNCHANGED <<key, moved>>

OpenFill(c) ==
  /\ c.op = "open" /\ c.at = "fill"
  /\ Fill(c) /\ Opened(c, c.page)
  /\ UNCHANGED <<row, flush, marks, applied, undone, unseen>>

(* UpdateProgress, which ignores the error of rdb.Set. *)
ServeSave(c) ==
  /\ c.op = "save"
  /\ \/ Fine /\ key' = c.arg /\ applied' = c.n /\ moved' = FALSE
     \/ FAULT /\ UNCHANGED <<key, applied, moved>>
  /\ Answered(c, "answered", 1, Nothing)
  /\ UNCHANGED <<row, flush, marks, undone, unseen>>

(* SetStatus: GetProgress, whose errors are all alike, then Upsert. *)
StatusReadKey(c) ==
  /\ c.op = "status" /\ c.at = "sent"
  /\ \/ key # None /\ Fine /\ Goes(c, "write", key)
     \/ key = None /\ Fine /\ Goes(c, "row", 1)
     \/ key # None /\ FAULT /\ Goes(c, "row", 1)
  /\ UNCHANGED <<server, serverGhosts, unseen>>

StatusReadRow(c) ==
  /\ c.at = "row"
  /\ \/ row.there /\ Fine /\ Goes(c, "fill", row.page) /\ UNCHANGED serverGhosts
     \/ ~row.there /\ Fine /\ Goes(c, "write", 1) /\ UNCHANGED serverGhosts
     \/ row.there /\ FAULT /\ Goes(c, "write", 1) /\ Misread(c)
  /\ UNCHANGED <<server, unseen>>

StatusFill(c) ==
  /\ c.op = "status" /\ c.at = "fill"
  /\ Fill(c) /\ Goes(c, "write", c.page)
  /\ UNCHANGED <<row, flush, marks, applied, undone, unseen>>

StatusWrite(c) ==
  /\ c.at = "write"
  /\ \/ /\ Fine /\ row' = Row(c.page, c.arg) /\ undone' = Carrying
        /\ Answered(c, "answered", 1, Nothing)
     \/ FAULT /\ Answered(c, "refused", 1, Nothing) /\ UNCHANGED <<row, undone>>
  /\ UNCHANGED <<key, flush, marks, applied, moved, unseen>>

ServeList(c) ==
  /\ c.op = "list" /\ Fine
  /\ Answered(c, "answered", 1, marks)
  /\ UNCHANGED <<server, serverGhosts, unseen>>

(* One bookmark per page: a second INSERT is refused. *)
ServeMark(c) ==
  /\ c.op = "mark" /\ Fine
  /\ IF \E m \in marks : m[1] = c.arg
     THEN Answered(c, "refused", 1, Nothing) /\ UNCHANGED <<marks, unseen>>
     ELSE /\ marks' = marks \cup {<<c.arg, c.n>>}
          /\ Answered(c, "answered", 1, Nothing)
          /\ unseen' = (unseen \/ ~Ours(c))
  /\ UNCHANGED <<row, key, flush, serverGhosts>>

(* A bookmark that is gone cannot be deleted again. *)
ServeUnmark(c) ==
  /\ c.op = "unmark" /\ Fine
  /\ Answered(c, IF c.arg \in marks THEN "answered" ELSE "refused", 1, Nothing)
  /\ marks' = marks \ {c.arg}
  /\ unseen' = (unseen \/ ~Ours(c))
  /\ UNCHANGED <<row, key, flush, serverGhosts>>

Serve(c) ==
  /\ Serving(c)
  /\ \/ OpenReadRow(c) \/ OpenCreate(c) \/ OpenReadKey(c) \/ OpenFill(c)
     \/ ServeSave(c)
     \/ StatusReadKey(c) \/ StatusReadRow(c) \/ StatusFill(c) \/ StatusWrite(c)
     \/ ServeList(c) \/ ServeMark(c) \/ ServeUnmark(c)
  /\ UNCHANGED <<tab, sent, tabGhosts>>

(* flushToDB, for this key.  A FAULT also stands for the process that dies *)
(* in between.                                                             *)
FlushGet ==
  /\ flush.at = "done" /\ key # None /\ DEED
  /\ flush' = [at |-> "read", page |-> key, finished |-> FALSE]
  /\ UNCHANGED <<row, key, marks, serverGhosts>>

(* Mutant of FlushReadRow: the stored status is not carried forward. *)
FlushReadRowNot ==
  /\ flush.at = "read" /\ Fine
  /\ flush' = [flush EXCEPT !.at = "write"]
  /\ UNCHANGED <<row, key, marks, serverGhosts>>
FlushReadRow ==
  /\ flush.at = "read"
  /\ \/ Fine /\ flush' = [flush EXCEPT !.at = "write", !.finished = row.finished]
        /\ UNCHANGED undone
     \/ FAULT /\ flush' = [flush EXCEPT !.at = "write"]
        /\ undone' = (undone \/ Finished)
  /\ UNCHANGED <<row, key, marks, applied, moved>>

FlushWrite ==
  /\ flush.at = "write"
  /\ \/ Fine /\ row' = Row(flush.page, flush.finished)
     \/ FAULT /\ UNCHANGED row
  /\ flush' = Resting
  /\ UNCHANGED <<key, marks, serverGhosts>>

(* Redis restarts, or the key's 24 hours end. *)
DropKey ==
  /\ key # None /\ FAULT
  /\ key' = None
  /\ moved' = (moved \/ row.page # key \/ ~(Copies \subseteq {key}))
  /\ UNCHANGED <<row, flush, marks, applied, undone>>

Background ==
  /\ FlushGet \/ FlushReadRow \/ FlushWrite \/ DropKey
  /\ UNCHANGED <<tab, calls, sent, tabGhosts, unseen>>

-----------------------------------------------------------------------------
(* Answers.  One that finds its page unmounted changes nothing.            *)

(* Mutant of Reload: done for a new bookmark only. *)
ReloadAfterMark(c) ==
  IF c.op \in {"open", "mark"}
  THEN Send(calls \ {c}, "list", Nothing) /\ lastList' = sent + 1 /\ unseen' = FALSE
  ELSE calls' = calls \ {c} /\ UNCHANGED <<sent, lastList, unseen>>
(* loadBookmarks: on mounting the button, and after each change. *)
Reload(c) ==
  /\ Send(calls \ {c}, "list", Nothing)
  /\ lastList' = sent + 1 /\ unseen' = FALSE

Deliver(c) ==
  /\ c.at = "answered"
  /\ IF ~Ours(c) \/ c.op = "status"
     THEN calls' = calls \ {c}
          /\ UNCHANGED <<tab, sent, behind, doubt, lastList, shownBy, unseen>>
     ELSE \/ /\ c.op = "open"
             /\ view' = "reading" /\ page' = c.page
             /\ completed' = c.answer.completed
             /\ behind' = c.answer.behind /\ doubt' = c.answer.doubt
             /\ Reload(c)
             /\ UNCHANGED <<visit, waiting, listed, shownBy>>
          \/ /\ c.op = "list"
             /\ listed' = c.answer /\ shownBy' = c.n
             /\ calls' = calls \ {c}
             /\ UNCHANGED <<view, visit, page, waiting, completed, sent, behind,
                            doubt, lastList, unseen>>
          \/ /\ c.op \in {"mark", "unmark"}
             /\ Reload(c)
             /\ UNCHANGED <<tab, behind, doubt, shownBy>>
  /\ UNCHANGED <<server, bounds, turned, lastSave, early, serverGhosts>>

RollBack(c) == completed' = IF Ours(c) THEN ~c.arg ELSE completed

(* Mutant of OpenFails: the error is swallowed and loading goes on. *)
OpenFailsStill(others) ==
  calls' = others /\ UNCHANGED <<server, tab, sent, ghosts>>
(* navigate('/'), whatever page is open by then: the failed open of an     *)
(* earlier visit ends the present one as well.                             *)
OpenFails(others) == Leave(others)

(* A call that fails for the page is over at the server, or goes on there  *)
(* unheard.                                                                *)
Without(c) ==
  {calls \ {c}} \cup
  {(calls \ {c}) \cup {[d EXCEPT !.visit = Nobody]} : d \in {e \in {c} : Serving(e)}}

(* The call or its answer is lost, the server stops, or the call is        *)
(* refused.                                                                *)
Fail(c) ==
  /\ IF c.at = "refused" THEN Fine ELSE FAULT
  /\ \E others \in Without(c) :
       IF c.op = "open" /\ c.visit # Nobody THEN OpenFails(others)
       ELSE /\ calls' = others
            /\ IF c.op = "status"
               THEN /\ RollBack(c)
                    /\ doubt' = (doubt \/ (Ours(c) /\ (c.at = "answered" \/ others # calls \ {c})))
               ELSE UNCHANGED <<completed, doubt>>
            /\ unseen' = (unseen \/ (c.op \in {"mark", "unmark"} /\ c.at = "answered"))
            /\ UNCHANGED <<server, view, visit, page, waiting, listed, sent, turned,
                           lastSave, early, behind, lastList, shownBy, serverGhosts>>

-----------------------------------------------------------------------------
Init ==
  /\ row \in {NoRow} \cup {Row(n, done) : n \in Pages, done \in BOOLEAN}
  /\ key = None /\ flush = Resting /\ marks = {}
  /\ view = "away" /\ visit = 0
  /\ page = 1 /\ waiting = None /\ completed = FALSE /\ listed = {}
  /\ calls = {} /\ sent = 0
  /\ spent = 0 /\ uses \in Controls
  /\ turned = Position
  /\ lastSave = 0 /\ applied = 0 /\ early = FALSE /\ behind = FALSE
  /\ moved = FALSE /\ undone = FALSE
  /\ doubt = FALSE /\ lastList = 0 /\ shownBy = 0 /\ unseen = FALSE

Answer(c) == Serve(c) \/ Deliver(c) \/ (c.at = "refused" /\ Fail(c))
Next ==
  \/ Open \/ Turn \/ TimerFires \/ Toggle \/ Mark \/ Back \/ Unload
  \/ Background
  \/ \E c \in calls : Serve(c) \/ Deliver(c) \/ Fail(c)

Spec == Init /\ [][Next]_vars

(* The timer fires, and calls are served and answered one after the other; *)
(* the reader is free, and so are failures.                                *)
Fairness ==
  /\ WF_vars(TimerFires)
  /\ WF_vars(\E c \in calls : Answer(c))
FairSpec == Spec /\ Fairness

-----------------------------------------------------------------------------
(* Properties. *)

TypeOK ==
  /\ row \in {NoRow} \cup {Row(n, done) : n \in Pages, done \in BOOLEAN}
  /\ key \in Pages \cup {None}
  /\ flush \in [at : {"done", "read", "write"}, page : Pages, finished : BOOLEAN]
  /\ marks \subseteq Pages \X (1..sent) /\ listed \subseteq Pages \X (1..sent)
  /\ view \in {"away", "loading", "reading"}
  /\ page \in Pages /\ waiting \in Pages \cup {None} /\ completed \in BOOLEAN
  /\ \A c \in calls :
       /\ c.n \in 1..sent /\ c.visit \in 0..visit
       /\ c.op \in {"open", "save", "status", "list", "mark", "unmark"}
       /\ c.at \in {"sent", "create", "cache", "fill", "row", "write",
                   "answered", "refused"}
       /\ c.page \in Pages
  /\ waiting # None => view = "reading" /\ waiting = page

AtRest == calls = {} /\ waiting = None

(* Once nothing is under way, the server's place is the page the reader    *)
(* last turned to, through however many visits, unmountings, unloads,      *)
(* flushes and fills, if the newest save is the one it applied last: it    *)
(* was neither lost nor overtaken.  The exceptions: a tab closed while the *)
(* book was loading saves page 1, and one opened before the last save had  *)
(* landed saves the page it opened at (early); and the server moves the    *)
(* place by itself where an open or a status call fills the key over a     *)
(* newer one, the key vanishes before its page is stored or while an older *)
(* copy is on its way, or the row cannot be read and no key hides it.      *)
PlaceKept ==
  AtRest /\ applied = lastSave /\ ~early /\ ~moved => Position = turned

(* With no status call under way the button tells the stored status, even  *)
(* after a refusal, unless two clicks overlapped, one that failed may have *)
(* been carried out, or the book was opened before an earlier click had    *)
(* landed (doubt); or the server undid the status: it was stored while a   *)
(* flush or an open stood between reading and writing the row, or one of   *)
(* them could not read it.                                                 *)
ButtonTellsStatus ==
  view = "reading" /\ (\A c \in calls : c.op # "status") /\ ~doubt /\ ~undone
    => completed = Finished

(* With no bookmark call under way the button knows the stored bookmarks,  *)
(* whatever was clicked in between, if the newest list is the one it shows *)
(* and no change went unnoticed (its answer lost, or sent in an earlier    *)
(* visit).                                                                 *)
BookmarksKnown ==
  view = "reading" /\ shownBy = lastList /\ ~unseen
  /\ (\A c \in calls : c.op \notin {"list", "mark", "unmark"})
    => listed = marks

(* The page never loads forever, and no page turn waits forever to be      *)
(* saved.                                                                  *)
ComesToRest == []<>(AtRest /\ view # "loading")
=============================================================================
