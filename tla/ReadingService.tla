--------------------------- MODULE ReadingService ---------------------------
(***************************************************************************)
(* Reading progress: where a reader is in a book, and whether they have    *)
(* said they finished it.  The page lives twice: in Redis, which every     *)
(* page turn writes, and in the reading_progress row, which the flusher    *)
(* writes every 30 seconds and once more on shutdown.  The status lives    *)
(* only in the row.                                                        *)
(*                                                                         *)
(* Requests run concurrently with each other and with the flusher.  Each   *)
(* Redis or Postgres call is one step; nothing holds a lock or a           *)
(* transaction from one call to the next.  A call may fail: by a transient *)
(* error (FAULT), or because the client went away and the request's        *)
(* context is cancelled (Abandon).                                         *)
(***************************************************************************)
EXTENDS Integers

CONSTANTS
  Readers,   \* users the database starts with
  Ebooks,    \* ebooks the database starts with
  MaxPage,   \* largest page number a client sends
  Lengths,   \* page counts an ebook may have; 0 is "unknown"
  Slots,     \* requests the server handles at a time
  Overlap,   \* may two requests about the same reader and ebook overlap?
  Limit      \* how often each event of Bounded may happen

(* The counters that only keep the state space finite. *)
Bounded == {"request", "fault", "loss", "withdrawal", "stop"}

ASSUME PagesAssumption == MaxPage \in Nat \ {0} /\ Lengths \subseteq Nat
ASSUME OverlapAssumption == Overlap \in BOOLEAN
ASSUME LimitAssumption == Limit \in [Bounded -> Nat]

VARIABLES
  users, ebooks,  \* ids with a row in users and in ebooks
  totalPages,     \* ebooks.total_pages
  progress,       \* reading_progress, NoRow where a pair has none
  history,        \* pairs with a row in history
  cache,          \* the Redis keys user:R:book:E:last_page
  request,        \* what each slot is doing, with its handler's locals
  flusher,        \* the ticker's flushToDB and the one of FlushAll
  phase,          \* of the server process, see Phases
  spent,          \* how often each event of Bounded has happened
  \* History variables, read by properties only.
  lastAsked,      \* the last status a reader's SetStatus stored
  raced,          \* pairs whose last SetStatus landed inside another's
                  \* read-then-write of the row
  late            \* pairs the cancelled ticker still wrote during shutdown

store == <<users, ebooks, totalPages, progress, history, cache>>
vars == <<users, ebooks, totalPages, progress, history, cache, request,
          flusher, phase, spent, lastAsked, raced, late>>

-----------------------------------------------------------------------------
(* Values. *)

StatusReading == "reading"
StatusCompleted == "completed"
Unread == ""   \* the Status of the zero ReadingProgress a failed read returns
Statuses == {StatusReading, StatusCompleted}

Pairs == Readers \X Ebooks
NoPair == <<>>
NoKey == 0
NoRow == [last_page |-> 0, status |-> "none"]
Rows == [last_page : 1..MaxPage, status : Statuses \cup {Unread}]

Operations == {"OpenBook", "SetStatus", "GetProgress", "UpdateProgress"}
Idle == [op |-> "none", at |-> "done", pair |-> NoPair,
         page |-> 0, status |-> StatusReading]
Resting == [at |-> "done", keys |-> {}, pair |-> NoPair,
            page |-> 0, status |-> StatusReading]
Flushers == {"ticker", "final"}

(* up: serving.  draining: the signal came, srv.Shutdown waits for running *)
(* handlers.  flushing: FlushAll runs.  exited: it ran to its end.         *)
(* cutShort: the shutdown deadline passed first.  down: the process died.  *)
Phases == {"up", "draining", "flushing", "exited", "cutShort", "down"}
Running == {"up", "draining", "flushing"}

Spend(what) == /\ spent[what] < Limit[what]
               /\ spent' = [spent EXCEPT ![what] = @ + 1]
FAULT == Spend("fault")
Fine == UNCHANGED spent

(* Both foreign keys of reading_progress and history hold. *)
Live(p) == p[1] \in users /\ p[2] \in ebooks

-----------------------------------------------------------------------------
(* ProgressRepository.Upsert: the foreign keys fail it for a deleted user  *)
(* or ebook, which changes nothing.                                        *)
Upsert(p, page, status) ==
  progress' = IF Live(p)
              THEN [progress EXCEPT ![p] = [last_page |-> page, status |-> status]]
              ELSE progress

(* Mutant of Clamp: no upper bound. *)
ClampLowOnly(page, total) == IF page < 1 THEN 1 ELSE page

(* Keep progress within the document. *)
Clamp(page, total) ==
  IF page < 1 THEN 1 ELSE IF total > 0 /\ page > total THEN total ELSE page

At(s, label) == request[s].at = label
Pair(s) == request[s].pair
Goto(s, label) == request' = [request EXCEPT ![s].at = label]
GotoWith(s, label, page) ==
  request' = [request EXCEPT ![s].at = label, ![s].page = page]
Reply(s) == request' = [request EXCEPT ![s] = Idle]

(* Every operation but GetProgress first looks the ebook up. *)
Request(s) ==
  /\ phase = "up" /\ At(s, "done")
  /\ Spend("request")
  /\ \E op \in Operations, p \in Pairs, page \in 1..MaxPage, status \in Statuses :
       /\ Overlap \/ \A t \in Slots : Pair(t) # p
       /\ op # "UpdateProgress" => page = 1
       /\ op # "SetStatus" => status = StatusReading
       /\ request' = [request EXCEPT ![s] =
            [op |-> op, pair |-> p, page |-> page, status |-> status,
             at |-> IF op = "GetProgress" THEN "readCache" ELSE "findEbook"]]
  /\ UNCHANGED <<store, flusher, phase, lastAsked, raced, late>>

AfterFind == [OpenBook |-> "logOpen", SetStatus |-> "readCache",
              UpdateProgress |-> "storePage"]

(* EbookRepository.GetByID; UpdateProgress clamps with the total it saw.   *)
FindEbook(s) ==
  /\ At(s, "findEbook")
  /\ \/ /\ Pair(s)[2] \in ebooks /\ Fine
        /\ LET r == request[s] IN
           IF r.op = "UpdateProgress"
           THEN GotoWith(s, "storePage", Clamp(r.page, totalPages[r.pair[2]]))
           ELSE Goto(s, AfterFind[r.op])
     \/ Pair(s)[2] \notin ebooks /\ Fine /\ Reply(s)
     \/ FAULT /\ Reply(s)
  /\ UNCHANGED <<store, flusher, phase, lastAsked, raced, late>>

LogOpen(s) ==
  /\ At(s, "logOpen")
  /\ \/ Fine /\ history' = history \cup {p \in {Pair(s)} : Live(p)}
     \/ FAULT /\ UNCHANGED history
  /\ Goto(s, "readRow")
  /\ UNCHANGED <<users, ebooks, totalPages, progress, cache,
                 flusher, phase, lastAsked, raced, late>>

(* OpenBook takes a missing row and a failed read alike.                   *)
OpenReadRow(s) ==
  /\ At(s, "readRow") /\ request[s].op = "OpenBook"
  /\ LET row == progress[Pair(s)] IN
     \/ row # NoRow /\ Fine /\ GotoWith(s, "readCache", row.last_page)
     \/ row = NoRow /\ Fine /\ GotoWith(s, "createRow", 1)
     \/ FAULT /\ GotoWith(s, "createRow", 1)
  /\ UNCHANGED <<store, flusher, phase, lastAsked, raced, late>>

CreateRow(s) ==
  /\ At(s, "createRow")
  /\ \/ Fine /\ Upsert(Pair(s), 1, StatusReading)
     \/ FAULT /\ UNCHANGED progress
  /\ Goto(s, "readCache")
  /\ UNCHANGED <<users, ebooks, totalPages, history, cache,
                 flusher, phase, lastAsked, raced, late>>

(* Mutant of ReadCache: OpenBook fills the cache on a hit as well. *)
ReadCacheFillsAlways(s) ==
  /\ At(s, "readCache") /\ Fine
  /\ IF request[s].op = "OpenBook" THEN Goto(s, "fillCache") ELSE Reply(s)
  /\ UNCHANGED <<store, flusher, phase, lastAsked, raced, late>>

(* A hit ends OpenBook and GetProgress (the status GetProgress then reads  *)
(* goes to its reply only) and gives SetStatus its page.  A miss and an    *)
(* error are alike.                                                        *)
ReadCache(s) ==
  /\ At(s, "readCache")
  /\ LET key == cache[Pair(s)]
         op == request[s].op
         miss == IF op = "OpenBook" THEN "fillCache" ELSE "readRow" IN
     \/ /\ key # NoKey /\ Fine
        /\ IF op = "SetStatus" THEN GotoWith(s, "saveStatus", key) ELSE Reply(s)
     \/ key = NoKey /\ Fine /\ Goto(s, miss)
     \/ FAULT /\ Goto(s, miss)
  /\ UNCHANGED <<store, flusher, phase, lastAsked, raced, late>>

(* GetProgress after a miss, alone or as a part of SetStatus.              *)
ProgressReadRow(s) ==
  /\ At(s, "readRow") /\ request[s].op \in {"GetProgress", "SetStatus"}
  /\ LET row == progress[Pair(s)]
         none == IF request[s].op = "SetStatus"
                 THEN GotoWith(s, "saveStatus", 1) ELSE Reply(s) IN
     \/ row # NoRow /\ Fine /\ GotoWith(s, "fillCache", row.last_page)
     \/ row = NoRow /\ Fine /\ none
     \/ FAULT /\ none
  /\ UNCHANGED <<store, flusher, phase, lastAsked, raced, late>>

(* rdb.Set of the page read from the row.                                  *)
FillCache(s) ==
  /\ At(s, "fillCache")
  /\ \/ Fine /\ cache' = [cache EXCEPT ![Pair(s)] = request[s].page]
     \/ FAULT /\ UNCHANGED cache
  /\ IF request[s].op = "SetStatus" THEN Goto(s, "saveStatus") ELSE Reply(s)
  /\ UNCHANGED <<users, ebooks, totalPages, progress, history,
                 flusher, phase, lastAsked, raced, late>>

(* Who has read the row of p, or found none, and is about to write it.     *)
RowReadByOthers(s, p) ==
  \/ \E f \in Flushers : flusher[f].at = "write" /\ flusher[f].pair = p
  \/ \E t \in Slots \ {s} : At(t, "createRow") /\ Pair(t) = p

SaveStatus(s) ==
  /\ At(s, "saveStatus")
  /\ LET r == request[s] IN
     \/ /\ Fine
        /\ Upsert(r.pair, r.page, r.status)
        /\ IF Live(r.pair)
           THEN /\ lastAsked' = [lastAsked EXCEPT ![r.pair] = r.status]
                /\ raced' = IF RowReadByOthers(s, r.pair)
                            THEN raced \cup {r.pair} ELSE raced \ {r.pair}
           ELSE UNCHANGED <<lastAsked, raced>>
     \/ FAULT /\ UNCHANGED <<progress, lastAsked, raced>>
  /\ Reply(s)
  /\ UNCHANGED <<users, ebooks, totalPages, history, cache, flusher, phase, late>>

(* Mutant of StorePage: reaching the last page completes the book. *)
StorePageCompletes(s) ==
  /\ At(s, "storePage") /\ Fine
  /\ cache' = [cache EXCEPT ![Pair(s)] = request[s].page]
  /\ IF request[s].page = totalPages[Pair(s)[2]]
     THEN Upsert(Pair(s), request[s].page, StatusCompleted) ELSE UNCHANGED progress
  /\ Reply(s)
  /\ UNCHANGED <<users, ebooks, totalPages, history, flusher, phase,
                 lastAsked, raced, late>>

(* UpdateProgress only writes Redis, and ignores its error.                *)
StorePage(s) ==
  /\ At(s, "storePage")
  /\ \/ Fine /\ cache' = [cache EXCEPT ![Pair(s)] = request[s].page]
     \/ FAULT /\ UNCHANGED cache
  /\ Reply(s)
  /\ UNCHANGED <<users, ebooks, totalPages, progress, history,
                 flusher, phase, lastAsked, raced, late>>

(* The request ends early: its client went away, so that the context every *)
(* later call gets is cancelled, or the row of its ebook cannot be read.   *)
Abandon(s) ==
  /\ ~At(s, "done")
  /\ Reply(s)
  /\ UNCHANGED <<store, flusher, phase, spent, lastAsked, raced, late>>

Handler(s) ==
  \/ FindEbook(s) \/ LogOpen(s) \/ OpenReadRow(s) \/ CreateRow(s)
  \/ ReadCache(s) \/ ProgressReadRow(s) \/ FillCache(s) \/ SaveStatus(s)
  \/ StorePage(s)

-----------------------------------------------------------------------------
(* flushToDB.  The ticker runs while the server is up; cancelFlusher ends  *)
(* it, except for a statement already on its way to Postgres, which nobody *)
(* waits for.  FlushAll runs once, in the flushing phase.                  *)

Enabled(f) == phase = IF f = "ticker" THEN "up" ELSE "flushing"
Step(f, label) == flusher' = [flusher EXCEPT ![f].at = label]

(* Mutant of NextKey: return where the loop should continue. *)
NextKeyReturns(f) == flusher' = [flusher EXCEPT ![f] = Resting]

(* The next key of the snapshot, or the end of the pass.                   *)
NextKey(f) == flusher' = [flusher EXCEPT ![f] = [Resting EXCEPT !.at = "next", !.keys = flusher[f].keys]]

ListKeys(f) ==
  /\ Enabled(f) /\ flusher[f].at = "done"
  /\ \/ /\ Fine
        /\ flusher' = [flusher EXCEPT ![f].at = "next",
                                      ![f].keys = {p \in Pairs : cache[p] # NoKey}]
        /\ UNCHANGED phase
     \/ /\ FAULT /\ UNCHANGED flusher   \* Keys failed: the pass ends here
        /\ phase' = IF f = "final" THEN "exited" ELSE phase
  /\ UNCHANGED <<store, request, lastAsked, raced, late>>

(* Mutant of FlushGet: the error of a missing key is ignored. *)
FlushGetUnchecked(f) ==
  /\ Enabled(f) /\ flusher[f].at = "next" /\ Fine
  /\ \E p \in flusher[f].keys :
       flusher' = [flusher EXCEPT ![f] = [at |-> "read", keys |-> flusher[f].keys \ {p},
         pair |-> p, page |-> cache[p], status |-> StatusReading]]
  /\ UNCHANGED <<store, request, phase, lastAsked, raced, late>>

FlushGet(f) ==
  /\ Enabled(f) /\ flusher[f].at = "next"
  /\ \E p \in flusher[f].keys :
       LET rest == flusher[f].keys \ {p} IN
       \/ /\ cache[p] # NoKey /\ Fine
          /\ flusher' = [flusher EXCEPT ![f] = [at |-> "read", keys |-> rest,
               pair |-> p, page |-> cache[p], status |-> StatusReading]]
       \/ cache[p] = NoKey /\ Fine /\ flusher' = [flusher EXCEPT ![f].keys = rest]
       \/ FAULT /\ flusher' = [flusher EXCEPT ![f].keys = rest]
  /\ UNCHANGED <<store, request, phase, lastAsked, raced, late>>

(* Mutant of FlushReadRow: the stored status is not carried forward. *)
FlushReadRowNot(f) ==
  /\ Enabled(f) /\ flusher[f].at = "read" /\ Fine
  /\ flusher' = [flusher EXCEPT ![f].at = "write", ![f].status = StatusReading]
  /\ UNCHANGED <<store, request, phase, lastAsked, raced, late>>

(* A failed read returns a zero ReadingProgress, not nil.                  *)
FlushReadRow(f) ==
  /\ Enabled(f) /\ flusher[f].at = "read"
  /\ LET row == progress[flusher[f].pair] IN
     \/ /\ Fine
        /\ flusher' = [flusher EXCEPT ![f].at = "write",
             ![f].status = IF row = NoRow THEN StatusReading ELSE row.status]
     \/ FAULT /\ flusher' = [flusher EXCEPT ![f].at = "write", ![f].status = Unread]
  /\ UNCHANGED <<store, request, phase, lastAsked, raced, late>>

FlushWrite(f) ==
  /\ flusher[f].at = "write" /\ (Enabled(f) \/ f = "ticker")
  /\ \/ Fine /\ Upsert(flusher[f].pair, flusher[f].page, flusher[f].status)
     \/ FAULT /\ UNCHANGED progress
  /\ IF Enabled(f)
     THEN NextKey(f) /\ UNCHANGED late
     ELSE /\ flusher' = [flusher EXCEPT ![f] = Resting]
          /\ late' = late \cup {flusher[f].pair}
  /\ UNCHANGED <<users, ebooks, totalPages, history, cache, request, phase,
                 lastAsked, raced>>

EndFlush(f) ==
  /\ Enabled(f) /\ flusher[f].at = "next" /\ flusher[f].keys = {}
  /\ flusher' = [flusher EXCEPT ![f] = Resting]
  /\ phase' = IF f = "final" THEN "exited" ELSE phase
  /\ UNCHANGED <<store, request, spent, lastAsked, raced, late>>

FlushStep(f) ==
  ListKeys(f) \/ FlushGet(f) \/ FlushReadRow(f) \/ FlushWrite(f) \/ EndFlush(f)

-----------------------------------------------------------------------------
(* The process: SIGTERM, Shutdown, FlushAll, exit, crash, start.           *)

(* Mutant of Signal: FlushAll before srv.Shutdown. *)
SignalFlushesFirst ==
  /\ phase = "up" /\ Spend("stop")
  /\ phase' = "flushing"
  /\ flusher' = [flusher EXCEPT !["ticker"] = Resting]
  /\ UNCHANGED <<store, request, lastAsked, raced, late>>

(* cancelFlusher: a ticker that is not inside a write stops.               *)
Signal ==
  /\ phase = "up" /\ Spend("stop")
  /\ phase' = "draining"
  /\ flusher' = [flusher EXCEPT !["ticker"] = IF @.at = "write" THEN @ ELSE Resting]
  /\ UNCHANGED <<store, request, lastAsked, raced, late>>

(* The cancelled write never reached Postgres. *)
WriteCancelled ==
  /\ phase # "up" /\ flusher["ticker"].at = "write"
  /\ flusher' = [flusher EXCEPT !["ticker"] = Resting]
  /\ UNCHANGED <<store, request, phase, spent, lastAsked, raced, late>>

Drained ==
  /\ phase = "draining" /\ \A s \in Slots : At(s, "done")
  /\ phase' = "flushing"
  /\ UNCHANGED <<store, request, flusher, spent, lastAsked, raced, late>>

(* srv.Shutdown and FlushAll share one 10 second deadline.  Once it has    *)
(* passed every call of FlushAll fails, and main returns.                  *)
Deadline ==
  /\ phase \in {"draining", "flushing"}
  /\ phase' = "cutShort"
  /\ request' = [s \in Slots |-> Idle]
  /\ flusher' = [flusher EXCEPT !["final"] = Resting]
  /\ UNCHANGED <<store, spent, lastAsked, raced, late>>

Crash ==
  /\ phase \in Running /\ Spend("stop")
  /\ phase' = "down"
  /\ request' = [s \in Slots |-> Idle]
  /\ flusher' = [f \in Flushers |-> Resting]
  /\ UNCHANGED <<store, lastAsked, raced, late>>

Boot ==
  /\ phase \notin Running
  /\ phase' = "up"
  /\ flusher' = [f \in Flushers |-> Resting]
  /\ late' = {}
  /\ UNCHANGED <<store, request, spent, lastAsked, raced>>

-----------------------------------------------------------------------------
(* The stores.                                                             *)

(* Pages that steps under way have read and have yet to write for p.       *)
InFlight(p) ==
  {flusher[f].page : f \in {g \in Flushers : flusher[g].pair = p}} \cup
  {request[s].page : s \in {t \in Slots :
     Pair(t) = p /\ \/ At(t, "fillCache") \/ At(t, "saveStatus")
                    \/ At(t, "createRow")
                    \/ request[t].op = "OpenBook" /\ At(t, "readCache")}}

(* A key expires 24 hours after its last Set, stored or not.  A pass every *)
(* 30 seconds has long stored its page by then, and no call under way      *)
(* still holds an older one, unless the process stood still or calls kept  *)
(* failing all that time; the page is then gone, which counts as a loss.   *)
(* One stop or FAULT of the model stands for as many as 24 hours take.     *)
Expire ==
  \E p \in Pairs :
    /\ cache[p] # NoKey
    /\ \/ /\ Fine
          /\ ~Live(p) \/ progress[p].last_page = cache[p]
          /\ InFlight(p) \subseteq {cache[p]}
       \/ /\ spent["stop"] > 0 \/ spent["fault"] > 0
          /\ Spend("loss")
    /\ cache' = [cache EXCEPT ![p] = NoKey]
    /\ UNCHANGED <<users, ebooks, totalPages, progress, history, request,
                   flusher, phase, lastAsked, raced, late>>

(* Redis has no volume: it comes back empty. *)
LoseCache ==
  /\ Spend("loss")
  /\ cache' = [p \in Pairs |-> NoKey]
  /\ UNCHANGED <<users, ebooks, totalPages, progress, history, request,
                 flusher, phase, lastAsked, raced, late>>

(* Rows of reading_progress and history cascade; the Redis key stays. *)
Cascade(gone) ==
  /\ progress' = [p \in Pairs |-> IF p \in gone THEN NoRow ELSE progress[p]]
  /\ history' = history \ gone

DeleteEbook ==
  /\ Spend("withdrawal")
  /\ \E e \in ebooks : ebooks' = ebooks \ {e} /\ Cascade(Readers \X {e})
  /\ UNCHANGED <<users, totalPages, cache, request, flusher, phase,
                 lastAsked, raced, late>>

DeleteUser ==
  /\ Spend("withdrawal")
  /\ \E u \in users : users' = users \ {u} /\ Cascade({u} \X Ebooks)
  /\ UNCHANGED <<ebooks, totalPages, cache, request, flusher, phase,
                 lastAsked, raced, late>>

-----------------------------------------------------------------------------
Init ==
  /\ users = Readers /\ ebooks = Ebooks
  /\ totalPages \in [Ebooks -> Lengths]
  /\ progress = [p \in Pairs |-> NoRow]
  /\ history = {}
  /\ cache = [p \in Pairs |-> NoKey]
  /\ request = [s \in Slots |-> Idle]
  /\ flusher = [f \in Flushers |-> Resting]
  /\ phase = "up"
  /\ spent = [b \in Bounded |-> 0]
  /\ lastAsked = [p \in Pairs |-> StatusReading]
  /\ raced = {} /\ late = {}

Process == Signal \/ WriteCancelled \/ Drained \/ Deadline \/ Crash \/ Boot
Stores == Expire \/ LoseCache \/ DeleteEbook \/ DeleteUser

Next ==
  \/ \E s \in Slots : Request(s) \/ Handler(s) \/ Abandon(s)
  \/ \E f \in Flushers : FlushStep(f)
  \/ Process
  \/ Stores

Spec == Init /\ [][Next]_vars

(* The ticker goroutine keeps running, and so does each call it makes: no  *)
(* other step can keep a flush from going on.  Requests, faults and the    *)
(* process's end are up to the environment.                                *)
Fairness == \A f \in Flushers : WF_vars(FlushStep(f))
FairSpec == Spec /\ Fairness
-----------------------------------------------------------------------------
(* Properties. *)

(* Where p's reader is: the cached page, else the stored one, else page 1. *)
Position(p) ==
  IF cache[p] # NoKey THEN cache[p]
  ELSE IF progress[p] # NoRow THEN progress[p].last_page ELSE 1

Requests ==
  [op : Operations \cup {"none"},
   at : {"done", "findEbook", "logOpen", "readRow", "createRow", "readCache",
         "fillCache", "saveStatus", "storePage"},
   pair : Pairs \cup {NoPair}, page : 0..MaxPage, status : Statuses]
Passes ==
  [at : {"done", "next", "read", "write"}, keys : SUBSET Pairs,
   pair : Pairs \cup {NoPair}, page : 0..MaxPage, status : Statuses \cup {Unread}]

StoreTypeOK ==
  /\ users \subseteq Readers /\ ebooks \subseteq Ebooks
  /\ totalPages \in [Ebooks -> Nat]
  /\ progress \in [Pairs -> Rows \cup {NoRow}]
  /\ history \subseteq Pairs
  /\ cache \in [Pairs -> 0..MaxPage]
RequestTypeOK ==
  /\ request \in [Slots -> Requests]
  /\ \A s \in Slots : ~At(s, "done") =>
       /\ request[s].op # "none" /\ Pair(s) \in Pairs /\ request[s].page > 0
       /\ At(s, "findEbook") => request[s].op # "GetProgress"
FlusherTypeOK ==
  /\ flusher \in [Flushers -> Passes]
  /\ \A f \in Flushers : flusher[f].at \in {"read", "write"} =>
       flusher[f].pair \in Pairs /\ flusher[f].page > 0
ProcessTypeOK ==
  /\ phase \in Phases
  /\ spent \in [Bounded -> Nat]
  /\ lastAsked \in [Pairs -> Statuses]
  /\ raced \subseteq Pairs /\ late \subseteq Pairs

(* Every variable has its type, and whoever is about to write knows a pair *)
(* and a page to write.                                                    *)
TypeOK == StoreTypeOK /\ RequestTypeOK /\ FlusherTypeOK /\ ProcessTypeOK

(* No stored or cached page lies past the end of its document, however the *)
(* writes of several requests, the flusher and cache fills interleave, and *)
(* whichever calls fail (UpdateProgress clamps; nobody else invents pages).*)
PageWithinDocument ==
  \A p \in Pairs : LET n == totalPages[p[2]] IN
    n > 0 => cache[p] <= n /\ progress[p].last_page <= n

(* A book reads as completed only when completing it is the last thing its *)
(* reader asked for, even if calls failed; the exception is a SetStatus    *)
(* that landed while somebody else was between reading and writing the row.*)
CompletionWasAsked ==
  \A p \in Pairs \ raced :
    progress[p].status = StatusCompleted => lastAsked[p] = StatusCompleted

(* Without failed calls, the stored status is the last one asked for, with *)
(* the same single exception: page turns, opens, flushes, expiry, crashes  *)
(* and restarts all carry it forward.                                      *)
StatusIsLastAsked ==
  spent["fault"] = 0 =>
    \A p \in Pairs \ raced :
      progress[p] # NoRow => progress[p].status = lastAsked[p]

(* A shutdown that beats its deadline leaves every cached page of a live   *)
(* pair in the database, unless a call failed or a write of the cancelled  *)
(* ticker arrived after the final one.                                     *)
GracefulExitFlushes ==
  phase = "exited" /\ spent["fault"] = 0 =>
    \A p \in Pairs \ late :
      Live(p) /\ cache[p] # NoKey => progress[p].last_page = cache[p]

(* A page put in the cache is stored, unless it is replaced, the pair is   *)
(* deleted, Redis loses it, or the process stops: a flush that starts      *)
(* always ends, and each pass visits every key it found.                   *)
PageReachesDatabase ==
  \A p \in Pairs, n \in 1..MaxPage :
    (phase = "up" /\ cache[p] = n)
      ~> \/ progress[p].last_page = n
         \/ cache[p] # n \/ ~Live(p) \/ phase # "up"

(* "Background flushes cannot silently un-complete a book", the design note *)
(* of 2026-07-31 says (lines 55-56): a flush writes the stored status back.*)
FlushKeepsCompletion ==
  [][\A f \in Flushers, p \in Pairs :
       FlushWrite(f) /\ progress[p].status = StatusCompleted /\ progress'[p] # NoRow
         => progress'[p].status = StatusCompleted]_vars

-----------------------------------------------------------------------------
(* The abstract promise: a position moves only when its reader turns a     *)
(* page, to the page they asked for.                                       *)
Turning(p) == {s \in Slots : Pair(s) = p /\ request[s].op = "UpdateProgress"}
LivePairs == {p \in Pairs : Live(p)}
Shelf == INSTANCE Bookshelf WITH
  length   <- totalPages,
  position <- [p \in LivePairs |-> Position(p)],
  wanted   <- [p \in LivePairs |->
                 IF Turning(p) = {} THEN 0
                 ELSE request[CHOOSE s \in Turning(p) : TRUE].page]

Unharmed == spent["fault"] = 0 /\ spent["loss"] = 0

(* With no two requests of a pair at once, and until a call fails or Redis *)
(* loses a page, cache, rows, fills, flushes, the expiry of stored keys,   *)
(* crashes and restarts amount to Bookshelf: every stored or cached copy   *)
(* that is not the newest is invisible.  Redis loses a page when it        *)
(* restarts, and when the key's 24 hours end before the page is stored,    *)
(* because the server stood still or its upserts failed all that time.     *)
ImplementsBookshelf ==
  Shelf!Init /\ [][Unharmed' => Shelf!Next]_(Shelf!vars)
=============================================================================
