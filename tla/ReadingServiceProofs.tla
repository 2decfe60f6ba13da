------------------------ MODULE ReadingServiceProofs ------------------------
(* Theorems about ReadingService, for any readers, ebooks, page counts,    *)
(* number of slots and bounds.                                             *)
EXTENDS ReadingService, TLAPS

-----------------------------------------------------------------------------
(* What the helpers of the actions do to the types.                        *)

(* Each counter stays a number whether or not a step spends from it.       *)
LEMMA SpentType ==
  ASSUME spent \in [Bounded -> Nat], Fine \/ \E b \in Bounded : Spend(b)
  PROVE  spent' \in [Bounded -> Nat]
BY DEF Fine, Spend

(* A failed call or none leaves the process part well typed.               *)
LEMMA CallType ==
  ASSUME ProcessTypeOK, Fine \/ FAULT, UNCHANGED <<phase, lastAsked, raced, late>>
  PROVE  ProcessTypeOK'
BY SpentType DEF ProcessTypeOK, FAULT, Bounded

(* A row of reading_progress keeps its type under Upsert.                  *)
LEMMA UpsertType ==
  ASSUME StoreTypeOK, NEW p \in Pairs, NEW page \in 1..MaxPage,
         NEW status \in Statuses \cup {Unread}, Upsert(p, page, status)
  PROVE  progress' \in [Pairs -> Rows \cup {NoRow}]
BY DEF StoreTypeOK, Upsert, Rows

(* Clamping a page a client sends gives a page of the document.            *)
LEMMA ClampType ==
  ASSUME NEW page \in 1..MaxPage, NEW total \in Nat
  PROVE  Clamp(page, total) \in 1..MaxPage /\ (total > 0 => Clamp(page, total) <= total)
BY PagesAssumption DEF Clamp

(* A request ends, moves on, or moves on with another page.                *)
LEMMA ReplyType ==
  ASSUME RequestTypeOK, NEW s \in Slots, Reply(s)
  PROVE  RequestTypeOK'
BY PagesAssumption
   DEF RequestTypeOK, Requests, Reply, Idle, At, Pair, Statuses, StatusReading

NextLabels == {"logOpen", "readRow", "createRow", "readCache",
               "fillCache", "saveStatus", "storePage"}

(* A running request that moves on with a new page stays well typed.       *)
LEMMA GotoWithType ==
  ASSUME RequestTypeOK, NEW s \in Slots, ~At(s, "done"), NEW page \in 1..MaxPage,
         NEW label \in NextLabels, GotoWith(s, label, page)
  PROVE  RequestTypeOK'
<1> DEFINE r == [request[s] EXCEPT !.at = label, !.page = page]
<1>0. request[s] \in Requests /\ page \in 0..MaxPage
  BY PagesAssumption DEF RequestTypeOK
<1>1. r \in Requests /\ r.at = label /\ r.page = page /\ r.op = request[s].op
      /\ r.pair = request[s].pair
  BY <1>0 DEF Requests, NextLabels
<1>2. request' = [request EXCEPT ![s] = r]
  BY DEF GotoWith, RequestTypeOK, Requests
<1> HIDE DEF r
<1>3. QED
  BY <1>1, <1>2 DEF RequestTypeOK, NextLabels, At, Pair

(* A running request that moves on with its old page stays well typed.     *)
LEMMA GotoType ==
  ASSUME RequestTypeOK, NEW s \in Slots, ~At(s, "done"),
         NEW label \in NextLabels, Goto(s, label)
  PROVE  RequestTypeOK'
BY DEF RequestTypeOK, Requests, NextLabels, Goto, At, Pair

-----------------------------------------------------------------------------
(* The steps of requests, flushes, the process and the stores keep types.  *)
LEMMA HandlerType ==
  ASSUME TypeOK, NEW s \in Slots, Handler(s)
  PROVE  TypeOK'
<1>0. /\ ~At(s, "done") => Pair(s) \in Pairs /\ request[s].page \in 1..MaxPage
                            /\ request[s].op \in Operations
      /\ request[s].status \in Statuses
  BY DEF TypeOK, RequestTypeOK, Requests, At, Pair
<1>1. CASE FindEbook(s)
  <2>1. StoreTypeOK' /\ FlusherTypeOK'
    BY <1>1 DEF TypeOK, StoreTypeOK, FlusherTypeOK, FindEbook, store
  <2>2. ProcessTypeOK'
    BY <1>1, CallType DEF TypeOK, FindEbook
  <2>3. RequestTypeOK'
    <3>1. CASE Reply(s)
      BY <3>1, ReplyType DEF TypeOK
    <3>2. CASE request[s].op = "UpdateProgress" /\ ~Reply(s)
      <4>1. totalPages[Pair(s)[2]] \in Nat
        BY <1>0, <1>1 DEF FindEbook, At, TypeOK, StoreTypeOK, Pairs, Pair
      <4>2. QED
        BY <1>0, <1>1, <3>2, <4>1, ClampType, GotoWithType DEF TypeOK, FindEbook, At, Pair, NextLabels
    <3>3. CASE request[s].op # "UpdateProgress" /\ ~Reply(s)
      <4>1. request[s].op # "GetProgress" => 
              AfterFind[request[s].op] \in {"logOpen", "readCache"}
        BY <1>0, <1>1, <3>3 DEF AfterFind, Operations, FindEbook, At
      <4>2. QED
        BY <1>0, <1>1, <3>3, <4>1, GotoType DEF TypeOK, RequestTypeOK, FindEbook, At, NextLabels
    <3>4. QED
      BY <3>1, <3>2, <3>3
  <2>4. QED
    BY <2>1, <2>2, <2>3 DEF TypeOK
<1>2. CASE LogOpen(s)
  BY <1>0, <1>2, GotoType, CallType
     DEF TypeOK, StoreTypeOK, FlusherTypeOK, LogOpen, At, NextLabels
<1>3. CASE OpenReadRow(s)
  BY <1>0, <1>3, GotoWithType, CallType, PagesAssumption
     DEF TypeOK, StoreTypeOK, FlusherTypeOK, OpenReadRow, At, NextLabels, store, Rows
<1>4. CASE CreateRow(s)
  BY <1>0, <1>4, GotoType, CallType, UpsertType, PagesAssumption
     DEF TypeOK, StoreTypeOK, FlusherTypeOK, CreateRow, At, NextLabels, Statuses, StatusReading
<1>5. CASE ReadCache(s)
  BY <1>0, <1>5, GotoType, GotoWithType, ReplyType, CallType
     DEF TypeOK, StoreTypeOK, FlusherTypeOK, ReadCache, At, NextLabels, store, NoKey
<1>6. CASE ProgressReadRow(s)
  BY <1>0, <1>6, GotoWithType, ReplyType, CallType, PagesAssumption
     DEF TypeOK, StoreTypeOK, FlusherTypeOK, ProgressReadRow, At, NextLabels, store, Rows
<1>7. CASE FillCache(s)
  BY <1>0, <1>7, GotoType, ReplyType, CallType
     DEF TypeOK, StoreTypeOK, FlusherTypeOK, FillCache, At, NextLabels
<1>8. CASE SaveStatus(s)
  BY <1>0, <1>8, ReplyType, UpsertType, SpentType
     DEF TypeOK, StoreTypeOK, FlusherTypeOK, ProcessTypeOK, SaveStatus, At, Pair, FAULT, Bounded
<1>9. CASE StorePage(s)
  BY <1>0, <1>9, ReplyType, CallType
     DEF TypeOK, StoreTypeOK, FlusherTypeOK, StorePage, At
<1>10. QED
  BY <1>1, <1>2, <1>3, <1>4, <1>5, <1>6, <1>7, <1>8, <1>9 DEF Handler

(* Starting or abandoning a request keeps every type.                      *)
LEMMA RequestStartType ==
  ASSUME TypeOK, NEW s \in Slots, Request(s) \/ Abandon(s)
  PROVE  TypeOK'
<1>1. CASE Request(s)
  <2>1. PICK r \in Requests :
          /\ request' = [request EXCEPT ![s] = r]
          /\ r.op # "none" /\ r.pair \in Pairs /\ r.page > 0
          /\ r.at = "findEbook" => r.op # "GetProgress"
    <3>1. PICK op \in Operations, p \in Pairs, page \in 1..MaxPage, status \in Statuses :
            request' = [request EXCEPT ![s] =
              [op |-> op, pair |-> p, page |-> page, status |-> status,
               at |-> IF op = "GetProgress" THEN "readCache" ELSE "findEbook"]]
      BY <1>1 DEF Request
    <3> DEFINE r == [op |-> op, pair |-> p, page |-> page, status |-> status,
                     at |-> IF op = "GetProgress" THEN "readCache" ELSE "findEbook"]
    <3>2. r \in Requests /\ r.op # "none" /\ r.pair \in Pairs /\ r.page > 0
          /\ (r.at = "findEbook" => r.op # "GetProgress")
      BY PagesAssumption DEF Requests, Operations
    <3>3. QED
      BY <3>1, <3>2
  <2>2. RequestTypeOK'
    BY <2>1 DEF TypeOK, RequestTypeOK, At, Pair
  <2>3. QED
    BY <1>1, <2>2, SpentType
       DEF TypeOK, StoreTypeOK, FlusherTypeOK, ProcessTypeOK, Request, store, Bounded
<1>2. CASE Abandon(s)
  BY <1>2, ReplyType DEF TypeOK, StoreTypeOK, FlusherTypeOK, ProcessTypeOK, Abandon, store
<1>3. QED
  BY <1>1, <1>2

(* One pass of a flusher moves on. *)
LEMMA PassType ==
  ASSUME FlusherTypeOK, NEW f \in Flushers, NEW r \in Passes,
         r.at \in {"read", "write"} => r.pair \in Pairs /\ r.page > 0,
         flusher' = [flusher EXCEPT ![f] = r]
  PROVE  FlusherTypeOK'
BY DEF FlusherTypeOK

(* A flusher at rest is a well-typed pass.                                 *)
LEMMA RestingType == Resting \in Passes /\ Resting.at = "done"
BY PagesAssumption DEF Resting, Passes, Statuses, StatusReading

(* Every step of a flush keeps every type.                                 *)
LEMMA FlushType ==
  ASSUME TypeOK, NEW f \in Flushers, FlushStep(f)
  PROVE  TypeOK'
<1>0. flusher[f] \in Passes /\ flusher[f].keys \subseteq Pairs
  BY DEF TypeOK, FlusherTypeOK, Passes
<1>1. CASE ListKeys(f)
  <2>1. FlusherTypeOK'
    <3> DEFINE r == [flusher[f] EXCEPT !.at = "next",
                       !.keys = {p \in Pairs : cache[p] # NoKey}]
    <3>1. r \in Passes /\ r.at = "next"
      BY <1>0 DEF Passes
    <3>2. UNCHANGED flusher \/ flusher' = [flusher EXCEPT ![f] = r]
      BY <1>1 DEF ListKeys, TypeOK, FlusherTypeOK, Passes
    <3> HIDE DEF r
    <3>3. QED
      BY <3>1, <3>2, PassType DEF TypeOK, FlusherTypeOK
  <2>2. ProcessTypeOK'
    BY <1>1, SpentType
       DEF ListKeys, TypeOK, ProcessTypeOK, FAULT, Bounded, Phases
  <2>3. QED
    BY <1>1, <2>1, <2>2 DEF ListKeys, TypeOK, StoreTypeOK, RequestTypeOK, At, Pair, store
<1>2. CASE FlushGet(f)
  <2>1. FlusherTypeOK'
    <3>1. PICK p \in flusher[f].keys :
            \/ /\ cache[p] # NoKey
               /\ flusher' = [flusher EXCEPT ![f] =
                    [at |-> "read", keys |-> flusher[f].keys \ {p},
                     pair |-> p, page |-> cache[p], status |-> StatusReading]]
            \/ flusher' = [flusher EXCEPT ![f].keys = flusher[f].keys \ {p}]
      BY <1>2 DEF FlushGet
    <3>2. CASE flusher' = [flusher EXCEPT ![f].keys = flusher[f].keys \ {p}]
      <4> DEFINE r == [flusher[f] EXCEPT !.keys = flusher[f].keys \ {p}]
      <4>1. r \in Passes /\ r.at = "next"
        BY <1>0, <1>2 DEF Passes, FlushGet
      <4>2. flusher' = [flusher EXCEPT ![f] = r]
        BY <3>2
      <4> HIDE DEF r
      <4>3. QED
        BY <4>1, <4>2, PassType DEF TypeOK
    <3>3. CASE /\ cache[p] # NoKey
               /\ flusher' = [flusher EXCEPT ![f] =
                    [at |-> "read", keys |-> flusher[f].keys \ {p},
                     pair |-> p, page |-> cache[p], status |-> StatusReading]]
      <4> DEFINE r == [at |-> "read", keys |-> flusher[f].keys \ {p},
                       pair |-> p, page |-> cache[p], status |-> StatusReading]
      <4>1. r \in Passes /\ r.pair \in Pairs /\ r.page > 0
        BY <1>0, <3>3, PagesAssumption
           DEF Passes, TypeOK, StoreTypeOK, NoKey, Statuses, StatusReading
      <4>2. QED
        BY <3>3, <4>1, PassType DEF TypeOK
    <3>4. QED
      BY <3>1, <3>2, <3>3
  <2>2. ProcessTypeOK'
    BY <1>2, CallType DEF FlushGet, TypeOK
  <2>3. QED
    BY <1>2, <2>1, <2>2 DEF FlushGet, TypeOK, StoreTypeOK, RequestTypeOK, At, Pair, store
<1>3. CASE FlushReadRow(f)
  <2>1. PICK status \in Statuses \cup {Unread} :
          flusher' = [flusher EXCEPT ![f].at = "write", ![f].status = status]
    <3>1. progress[flusher[f].pair] = NoRow
            \/ progress[flusher[f].pair].status \in Statuses \cup {Unread}
      BY <1>3 DEF FlushReadRow, TypeOK, FlusherTypeOK, StoreTypeOK, Rows
    <3>2. QED
      BY <1>3, <3>1 DEF FlushReadRow, Statuses
  <2>2. FlusherTypeOK'
    <3> DEFINE r == [flusher[f] EXCEPT !.at = "write", !.status = status]
    <3>1. r \in Passes /\ r.pair \in Pairs /\ r.page > 0
      BY <1>0, <1>3 DEF Passes, FlushReadRow, TypeOK, FlusherTypeOK
    <3>2. flusher' = [flusher EXCEPT ![f] = r]
      BY <2>1 DEF TypeOK, FlusherTypeOK, Passes
    <3> HIDE DEF r
    <3>3. QED
      BY <3>1, <3>2, PassType DEF TypeOK
  <2>3. ProcessTypeOK'
    BY <1>3, CallType DEF FlushReadRow, TypeOK
  <2>4. QED
    BY <1>3, <2>2, <2>3 DEF FlushReadRow, TypeOK, StoreTypeOK, RequestTypeOK, At, Pair, store
<1>4. CASE FlushWrite(f)
  <2>1. /\ flusher[f].pair \in Pairs /\ flusher[f].page \in 1..MaxPage
        /\ flusher[f].status \in Statuses \cup {Unread}
    BY <1>0, <1>4 DEF FlushWrite, TypeOK, FlusherTypeOK, Passes
  <2>2. StoreTypeOK'
    BY <1>4, <2>1, UpsertType DEF FlushWrite, TypeOK, StoreTypeOK
  <2>3. FlusherTypeOK'
    <3> DEFINE r == [Resting EXCEPT !.at = "next", !.keys = flusher[f].keys]
    <3>1. r \in Passes /\ r.at = "next"
      BY <1>0, RestingType DEF Passes
    <3>2. \/ flusher' = [flusher EXCEPT ![f] = r]
          \/ flusher' = [flusher EXCEPT ![f] = Resting]
      BY <1>4 DEF FlushWrite, NextKey
    <3> HIDE DEF r
    <3>3. QED
      BY <3>1, <3>2, PassType, RestingType DEF TypeOK
  <2>4. ProcessTypeOK'
    BY <1>4, <2>1, SpentType DEF FlushWrite, TypeOK, ProcessTypeOK, FAULT, Bounded
  <2>5. QED
    BY <1>4, <2>2, <2>3, <2>4 DEF FlushWrite, TypeOK, RequestTypeOK, At, Pair
<1>5. CASE EndFlush(f)
  <2>1. FlusherTypeOK'
    BY <1>5, PassType, RestingType DEF EndFlush, TypeOK
  <2>2. QED
    BY <1>5, <2>1 DEF EndFlush, TypeOK, StoreTypeOK, RequestTypeOK, ProcessTypeOK,
       Phases, At, Pair, store
<1>6. QED
  BY <1>1, <1>2, <1>3, <1>4, <1>5 DEF FlushStep

(* Signal, shutdown, crash and start keep every type.                      *)
LEMMA ProcessType ==
  ASSUME TypeOK, Process
  PROVE  TypeOK'
<1>1. Idle \in Requests /\ Idle.at = "done"
  BY PagesAssumption DEF Idle, Requests, Statuses, StatusReading
<1> USE DEF TypeOK, StoreTypeOK, ProcessTypeOK, store, Phases, Bounded
<1>2. CASE Signal
  <2>1. FlusherTypeOK'
    BY <1>2, RestingType DEF Signal, FlusherTypeOK, Flushers
  <2>2. QED
    BY <1>2, <2>1, SpentType DEF Signal, RequestTypeOK, At, Pair
<1>3. CASE WriteCancelled
  BY <1>3, PassType, RestingType DEF WriteCancelled, RequestTypeOK, At, Pair, Flushers
<1>4. CASE Drained
  BY <1>4 DEF Drained, RequestTypeOK, FlusherTypeOK, At, Pair
<1>5. CASE Deadline
  BY <1>1, <1>5, PassType, RestingType DEF Deadline, RequestTypeOK, At, Pair, Flushers
<1>6. CASE Crash
  BY <1>1, <1>6, SpentType, RestingType DEF Crash, RequestTypeOK, FlusherTypeOK, At, Pair
<1>7. CASE Boot
  BY <1>7, RestingType DEF Boot, RequestTypeOK, FlusherTypeOK, At, Pair
<1>8. QED
  BY <1>2, <1>3, <1>4, <1>5, <1>6, <1>7 DEF Process

(* Expiry, the loss of Redis and deletions keep every type.                *)
LEMMA StoresType ==
  ASSUME TypeOK, Stores
  PROVE  TypeOK'
<1>1. CASE Expire
  BY <1>1, SpentType, PagesAssumption
     DEF Expire, TypeOK, StoreTypeOK, RequestTypeOK, FlusherTypeOK, ProcessTypeOK, At, Pair,
         NoKey, Bounded
<1>2. CASE LoseCache
  BY <1>2, SpentType, PagesAssumption
     DEF LoseCache, TypeOK, StoreTypeOK, RequestTypeOK, FlusherTypeOK, ProcessTypeOK,
         At, Pair, NoKey, Bounded
<1>3. CASE DeleteEbook
  BY <1>3, SpentType
     DEF DeleteEbook, Cascade, TypeOK, StoreTypeOK, RequestTypeOK, FlusherTypeOK,
         ProcessTypeOK, At, Pair, Bounded
<1>4. CASE DeleteUser
  BY <1>4, SpentType
     DEF DeleteUser, Cascade, TypeOK, StoreTypeOK, RequestTypeOK, FlusherTypeOK,
         ProcessTypeOK, At, Pair, Bounded
<1>5. QED
  BY <1>1, <1>2, <1>3, <1>4 DEF Stores

(* The types hold at the start. *)
LEMMA InitTypes == ASSUME Init PROVE TypeOK
<1>1. StoreTypeOK
  <2>1. totalPages \in [Ebooks -> Nat]
    BY PagesAssumption DEF Init
  <2>2. cache \in [Pairs -> 0..MaxPage]
    BY PagesAssumption DEF Init, NoKey
  <2>3. QED
    BY <2>1, <2>2 DEF Init, StoreTypeOK
<1>2. RequestTypeOK
  <2>1. Idle \in Requests /\ Idle.at = "done"
    BY PagesAssumption DEF Idle, Requests, Statuses, StatusReading
  <2>2. QED
    BY <2>1 DEF Init, RequestTypeOK, At
<1>3. FlusherTypeOK
  BY RestingType DEF Init, FlusherTypeOK
<1>4. ProcessTypeOK
  BY DEF Init, ProcessTypeOK, Phases, Statuses, StatusReading
<1>5. QED
  BY <1>1, <1>2, <1>3, <1>4 DEF TypeOK

(* Every step keeps the types. *)
LEMMA StepTypes == ASSUME TypeOK, [Next]_vars PROVE TypeOK'
<1>1. CASE UNCHANGED vars
  BY <1>1 DEF vars, TypeOK, StoreTypeOK, RequestTypeOK, FlusherTypeOK, ProcessTypeOK,
     At, Pair
<1>2. QED
  BY <1>1, HandlerType, RequestStartType, FlushType, ProcessType, StoresType DEF Next

(* Every reachable state is well typed, and whoever is about to write has  *)
(* a pair and a page to write.                                             *)
THEOREM TypeCorrect == Spec => []TypeOK
<1>1. Init => TypeOK
  BY InitTypes
<1>2. TypeOK /\ [Next]_vars => TypeOK'
  BY StepTypes
<1>3. QED
  BY <1>1, <1>2, PTL DEF Spec

-----------------------------------------------------------------------------
(* The shapes of a request's steps.                                        *)

(* What a step of request s makes of it. *)
Frame(s) == \A t \in Slots : t # s => request'[t] = request[t]
Ended(s) == Frame(s) /\ request'[s] = Idle
Moved(s, label, page) ==
  /\ Frame(s)
  /\ request'[s].at = label /\ request'[s].page = page
  /\ request'[s].op = request[s].op /\ request'[s].pair = request[s].pair

(* The ways a step replies or goes on, as what becomes of the slot. *)
LEMMA Shapes ==
  ASSUME TypeOK, NEW s \in Slots
  PROVE  /\ Reply(s) => Ended(s)
         /\ \A label : Goto(s, label) => Moved(s, label, request[s].page)
         /\ \A label, page : GotoWith(s, label, page) => Moved(s, label, page)
<1>1. request \in [Slots -> Requests]
  BY DEF TypeOK, RequestTypeOK
<1>2. Reply(s) => Ended(s)
  BY <1>1 DEF Reply, Ended, Frame
<1>3. ASSUME NEW label, Goto(s, label) PROVE Moved(s, label, request[s].page)
  BY <1>1, <1>3 DEF Goto, Moved, Frame, Requests
<1>4. ASSUME NEW label, NEW page, GotoWith(s, label, page) PROVE Moved(s, label, page)
  BY <1>1, <1>4 DEF GotoWith, Moved, Frame, Requests
<1>5. QED
  BY <1>2, <1>3, <1>4

(* A request under way is about a pair and a page; an idle one is not. *)
LEMMA PairFacts ==
  ASSUME TypeOK
  PROVE  /\ NoPair \notin Pairs
         /\ \A s \in Slots : ~At(s, "done") => Pair(s) \in Pairs /\ request[s].page > 0
         /\ Idle.at = "done" /\ Idle.pair = NoPair /\ Idle.op = "none"
<1>1. NoPair \notin Pairs
  BY DEF NoPair, Pairs
<1>2. \A s \in Slots : ~At(s, "done") => Pair(s) \in Pairs /\ request[s].page > 0
  BY DEF TypeOK, RequestTypeOK
<1>3. QED
  BY <1>1, <1>2 DEF Idle

-----------------------------------------------------------------------------
(* Whose pages are whose.  A store, a flush and a request hold pages of a  *)
(* pair, and no step makes one up: the next pages of a pair are among its  *)
(* present ones, page 1, none, and the clamp of a page its reader asks for.*)
(* So they never leave a set that has these, and with the pages of the     *)
(* document as that set none is past its end.  A request holds the         *)
(* client's page only until it has seen the page count.                    *)

StoresIn(p, S) == cache[p] \in S /\ progress[p].last_page \in S
FlushersIn(p, S) == \A f \in Flushers : flusher[f].pair = p => flusher[f].page \in S
RequestsIn(p, S) ==
  \A s \in Slots : Pair(s) = p /\ ~At(s, "findEbook") => request[s].page \in S
PagesIn(p, S) == StoresIn(p, S) /\ FlushersIn(p, S) /\ RequestsIn(p, S)

(* What the page turns that have yet to find their ebook will be clamped to.*)
Asked(p) == {Clamp(request[s].page, totalPages[p[2]]) :
               s \in {t \in Turning(p) : At(t, "findEbook")}}

(* A request that has yet to find its ebook and is no page turn asks for   *)
(* page 1.                                                                 *)
FirstPageAsked ==
  \A s \in Slots : At(s, "findEbook") /\ request[s].op # "UpdateProgress"
                     => request[s].page = 1

(* No step of the server changes a page count.                             *)
LEMMA TotalsConstant ==
  ASSUME [Next]_vars
  PROVE  UNCHANGED totalPages
BY DEF Next, vars, store, Request, Handler, FindEbook, LogOpen, OpenReadRow, CreateRow,
   ReadCache, ProgressReadRow, FillCache, SaveStatus, StorePage, Abandon, FlushStep,
   ListKeys, FlushGet, FlushReadRow, FlushWrite, EndFlush, Process, Signal,
   WriteCancelled, Drained, Deadline, Crash, Boot, Stores, Expire, LoseCache,
   DeleteEbook, DeleteUser

(* No step of the server sends a request back to where it asks for an      *)
(* ebook.                                                                  *)
LEMMA FirstPageStep ==
  ASSUME TypeOK, FirstPageAsked, Next
  PROVE  FirstPageAsked'
<1>1. CASE UNCHANGED request
  BY <1>1 DEF FirstPageAsked, At
<1>2. ASSUME NEW s \in Slots, Request(s) PROVE FirstPageAsked'
  <2>1. PICK r : /\ request' = [request EXCEPT ![s] = r]
                 /\ r.op # "UpdateProgress" => r.page = 1
    <3>1. PICK op \in Operations, p \in Pairs, page \in 1..MaxPage, status \in Statuses :
            /\ op # "UpdateProgress" => page = 1
            /\ request' = [request EXCEPT ![s] =
                 [op |-> op, pair |-> p, page |-> page, status |-> status,
                  at |-> IF op = "GetProgress" THEN "readCache" ELSE "findEbook"]]
      BY <1>2 DEF Request
    <3> DEFINE r == [op |-> op, pair |-> p, page |-> page, status |-> status,
                     at |-> IF op = "GetProgress" THEN "readCache" ELSE "findEbook"]
    <3>2. r.op = op /\ r.page = page /\ request' = [request EXCEPT ![s] = r]
      BY <3>1
    <3> HIDE DEF r
    <3>3. QED
      BY <3>1, <3>2
  <2>2. QED
    BY <2>1 DEF TypeOK, RequestTypeOK, FirstPageAsked, At
<1>3. ASSUME NEW s \in Slots,
             Ended(s) \/ \E label \in NextLabels : \E page : Moved(s, label, page)
      PROVE  FirstPageAsked'
  BY <1>3, PairFacts DEF Ended, Moved, Frame, NextLabels, FirstPageAsked, At
<1>4. ASSUME NEW s \in Slots, Handler(s) \/ Abandon(s) PROVE FirstPageAsked'
  <2>1. \/ Reply(s)
        \/ \E label \in NextLabels : Goto(s, label)
        \/ \E label \in NextLabels : \E page : GotoWith(s, label, page)
    BY <1>4 DEF Handler, Abandon, FindEbook, AfterFind, Operations, LogOpen, OpenReadRow,
       CreateRow, ReadCache, ProgressReadRow, FillCache, SaveStatus, StorePage, NextLabels,
       TypeOK, RequestTypeOK, Requests, At
  <2>2. QED
    BY <1>3, <2>1, Shapes
<1>5. ASSUME \A s \in Slots : request'[s] = Idle PROVE FirstPageAsked'
  BY <1>5, PairFacts DEF FirstPageAsked, At
<1>6. CASE Process
  BY <1>1, <1>5, <1>6 DEF Process, Signal, WriteCancelled, Drained, Deadline, Crash, Boot
<1>7. CASE Stores
  BY <1>1, <1>7 DEF Stores, Expire, LoseCache, DeleteEbook, DeleteUser
<1>8. ASSUME NEW f \in Flushers, FlushStep(f) PROVE FirstPageAsked'
  BY <1>1, <1>8 DEF FlushStep, ListKeys, FlushGet, FlushReadRow, FlushWrite, EndFlush
<1>9. QED
  BY <1>2, <1>4, <1>6, <1>7, <1>8 DEF Next

(* A request that ends holds no page of p; one that moves on holds a page  *)
(* the caller vouches for.                                                 *)
LEMMA RequestIn ==
  ASSUME TypeOK, NEW p \in Pairs, NEW S, RequestsIn(p, S), NEW s \in Slots,
         \/ Reply(s)
         \/ /\ ~At(s, "findEbook") /\ \E label : Goto(s, label)
         \/ \E label, page : /\ GotoWith(s, label, page)
                             /\ Pair(s) = p => page \in S
  PROVE  RequestsIn(p, S)'
<1>1. \/ Ended(s)
      \/ \E label, page : Moved(s, label, page) /\ (Pair(s) = p => page \in S)
  <2>1. CASE Reply(s)
    BY <2>1, Shapes
  <2>2. ASSUME NEW label, Goto(s, label), ~At(s, "findEbook")
        PROVE  Moved(s, label, request[s].page) /\ (Pair(s) = p => request[s].page \in S)
    BY <2>2, Shapes DEF RequestsIn
  <2>3. ASSUME NEW label, NEW page, GotoWith(s, label, page), Pair(s) = p => page \in S
        PROVE  Moved(s, label, page) /\ (Pair(s) = p => page \in S)
    BY <2>3, Shapes
  <2>4. QED
    BY <2>1, <2>2, <2>3
<1>2. CASE Ended(s)
  BY <1>2, PairFacts DEF Ended, Frame, RequestsIn, At, Pair
<1>3. ASSUME NEW label, NEW page, Moved(s, label, page), Pair(s) = p => page \in S
      PROVE  RequestsIn(p, S)'
  BY <1>3 DEF Moved, Frame, RequestsIn, At, Pair
<1>4. QED
  BY <1>1, <1>2, <1>3

(* Storing a page of S keeps the stores there.                             *)
LEMMA UpsertIn ==
  ASSUME TypeOK, NEW p \in Pairs, NEW S, StoresIn(p, S), UNCHANGED cache,
         NEW q \in Pairs, NEW page, q = p => page \in S, NEW status, Upsert(q, page, status)
  PROVE  StoresIn(p, S)'
BY DEF TypeOK, StoreTypeOK, StoresIn, Upsert

(* A request in its course takes its pages from the stores, from itself,   *)
(* from page 1 and from the clamp.                                         *)
LEMMA HandlerIn ==
  ASSUME TypeOK, FirstPageAsked, NEW p \in Pairs, NEW S, 1 \in S, Asked(p) \subseteq S,
         PagesIn(p, S), NEW s \in Slots, Handler(s)
  PROVE  PagesIn(p, S)'
<1>0. /\ UNCHANGED flusher /\ cache \in [Pairs -> 0..MaxPage]
      /\ ~At(s, "done") => Pair(s) \in Pairs /\ request[s].op \in Operations
  <2>1. UNCHANGED flusher
    BY DEF Handler, FindEbook, LogOpen, OpenReadRow, CreateRow, ReadCache, ProgressReadRow,
       FillCache, SaveStatus, StorePage
  <2>2. QED
    BY <2>1 DEF TypeOK, StoreTypeOK, RequestTypeOK, Requests, At, Pair
<1>1. StoresIn(p, S) /\ RequestsIn(p, S) /\ FlushersIn(p, S)'
  BY <1>0 DEF PagesIn, FlushersIn
<1>2. SUFFICES ASSUME TRUE PROVE StoresIn(p, S)' /\ RequestsIn(p, S)'
  BY <1>1 DEF PagesIn
<1>3. UNCHANGED <<cache, progress>> => StoresIn(p, S)'
  BY <1>1 DEF StoresIn
<1>4. CASE FindEbook(s)
  <2>1. \/ Reply(s)
        \/ /\ request[s].op = "UpdateProgress"
           /\ GotoWith(s, "storePage", Clamp(request[s].page, totalPages[Pair(s)[2]]))
        \/ \E label : Goto(s, label) /\ request[s].op # "UpdateProgress"
    BY <1>4 DEF FindEbook, Pair
  <2>2. At(s, "findEbook") /\ UNCHANGED <<cache, progress>>
    BY <1>4 DEF FindEbook, store
  <2>3. CASE Reply(s)
    BY <1>0, <1>1, <1>3, <2>2, <2>3, RequestIn
  <2>4. CASE /\ request[s].op = "UpdateProgress"
             /\ GotoWith(s, "storePage", Clamp(request[s].page, totalPages[Pair(s)[2]]))
    <3>1. Pair(s) = p => Clamp(request[s].page, totalPages[Pair(s)[2]]) \in S
      BY <2>2, <2>4 DEF Asked, Turning
    <3>2. QED
      BY <1>0, <1>1, <1>3, <2>2, <2>4, <3>1, RequestIn
  <2>5. CASE \E label : Goto(s, label) /\ request[s].op # "UpdateProgress"
    <3>1. PICK label : Goto(s, label)
      BY <2>5
    <3>2. request[s].page = 1
      BY <2>2, <2>5 DEF FirstPageAsked
    <3>3. Moved(s, label, 1)
      BY <3>1, <3>2, Shapes
    <3>4. RequestsIn(p, S)'
      BY <1>0, <1>1, <1>3, <3>3 DEF Moved, Frame, RequestsIn, At, Pair
    <3>5. QED
      BY <1>3, <2>2, <3>4
  <2>6. QED
    BY <2>1, <2>3, <2>4, <2>5
<1>5. CASE LogOpen(s)
  BY <1>0, <1>1, <1>3, <1>5, RequestIn DEF LogOpen, At
<1>6. CASE OpenReadRow(s)
  <2>1. UNCHANGED <<cache, progress>> /\ ~At(s, "done")
    BY <1>6 DEF OpenReadRow, store, At
  <2>2. Pair(s) = p => progress[Pair(s)].last_page \in S
    BY <1>0, <1>1 DEF StoresIn
  <2>3. \E label, page : GotoWith(s, label, page) /\ (Pair(s) = p => page \in S)
    BY <1>6, <2>2 DEF OpenReadRow
  <2>4. QED
    BY <1>0, <1>1, <1>3, <2>1, <2>3, RequestIn
<1>7. CASE ReadCache(s)
  <2>1. UNCHANGED <<cache, progress>> /\ ~At(s, "findEbook")
    BY <1>7 DEF ReadCache, store, At
  <2>2. \/ Reply(s) \/ \E label : Goto(s, label)
        \/ GotoWith(s, "saveStatus", cache[Pair(s)])
    BY <1>7 DEF ReadCache
  <2>3. Pair(s) = p => cache[Pair(s)] \in S
    BY <1>1 DEF StoresIn
  <2>4. QED
    BY <1>0, <1>1, <1>3, <2>1, <2>2, <2>3, RequestIn
<1>8. CASE ProgressReadRow(s)
  <2>1. UNCHANGED <<cache, progress>>
    BY <1>8 DEF ProgressReadRow, store
  <2>2. \/ Reply(s) \/ GotoWith(s, "saveStatus", 1)
        \/ GotoWith(s, "fillCache", progress[Pair(s)].last_page)
    BY <1>8 DEF ProgressReadRow
  <2>3. Pair(s) = p => progress[Pair(s)].last_page \in S
    BY <1>0, <1>1 DEF StoresIn
  <2>4. QED
    BY <1>0, <1>1, <1>3, <2>1, <2>2, <2>3, RequestIn
<1>9. CASE CreateRow(s)
  <2>1. RequestsIn(p, S)'
    BY <1>0, <1>1, <1>3, <1>9, RequestIn DEF CreateRow, At
  <2>2. UNCHANGED cache /\ (UNCHANGED progress \/ Upsert(Pair(s), 1, StatusReading))
        /\ Pair(s) \in Pairs
    BY <1>0, <1>9 DEF CreateRow, At
  <2>3. StoresIn(p, S)'
    BY <1>0, <1>1, <1>3, <2>2, UpsertIn
  <2>4. QED
    BY <2>1, <2>3
<1>10. CASE SaveStatus(s)
  <2>1. Pair(s) \in Pairs /\ (Pair(s) = p => request[s].page \in S)
        /\ Reply(s) /\ UNCHANGED cache
        /\ (UNCHANGED progress \/ Upsert(Pair(s), request[s].page, request[s].status))
    BY <1>0, <1>1, <1>10 DEF SaveStatus, RequestsIn, At, Pair
  <2>2. RequestsIn(p, S)'
    BY <1>0, <1>1, <1>3, <2>1, RequestIn
  <2>3. StoresIn(p, S)'
    BY <1>0, <1>1, <1>3, <2>1, UpsertIn
  <2>4. QED
    BY <2>2, <2>3
<1>11. CASE FillCache(s) \/ StorePage(s)
  <2>1. /\ ~At(s, "findEbook") /\ UNCHANGED progress
        /\ UNCHANGED cache \/ cache' = [cache EXCEPT ![Pair(s)] = request[s].page]
        /\ Reply(s) \/ \E label : Goto(s, label)
    BY <1>11 DEF FillCache, StorePage, At
  <2>2. Pair(s) = p => request[s].page \in S
    BY <1>1, <2>1 DEF RequestsIn
  <2>3. StoresIn(p, S)'
    BY <1>0, <1>1, <1>3, <2>1, <2>2 DEF StoresIn
  <2>4. RequestsIn(p, S)'
    BY <1>0, <1>1, <1>3, <2>1, RequestIn
  <2>5. QED
    BY <2>3, <2>4
<1>12. QED
  BY <1>4, <1>5, <1>6, <1>7, <1>8, <1>9, <1>10, <1>11 DEF Handler

(* A flush takes its pages from the cache and writes what it took.         *)
LEMMA FlushIn ==
  ASSUME TypeOK, NEW p \in Pairs, NEW S, 0 \in S, 1 \in S, PagesIn(p, S),
         NEW f \in Flushers, FlushStep(f)
  PROVE  PagesIn(p, S)'
<1>0. /\ UNCHANGED request /\ UNCHANGED cache
      /\ flusher \in [Flushers -> Passes]
      /\ NoPair # p /\ Resting.pair = NoPair
      /\ flusher[f].at = "write" => flusher[f].pair \in Pairs
  <2>1. UNCHANGED request /\ UNCHANGED cache
    BY DEF FlushStep, ListKeys, FlushGet, FlushReadRow, FlushWrite, EndFlush, store
  <2>2. QED
    BY <2>1, PairFacts DEF TypeOK, FlusherTypeOK, Resting
<1>1. RequestsIn(p, S)'
  BY <1>0 DEF PagesIn, RequestsIn, At, Pair
<1>2. StoresIn(p, S)'
  <2>1. CASE FlushWrite(f)
    <3>1. flusher[f].pair \in Pairs /\ (flusher[f].pair = p => flusher[f].page \in S)
      BY <1>0, <2>1 DEF FlushWrite, PagesIn, FlushersIn
    <3>2. UNCHANGED progress \/ Upsert(flusher[f].pair, flusher[f].page, flusher[f].status)
      BY <2>1 DEF FlushWrite
    <3>3. QED
      BY <1>0, <3>1, <3>2, UpsertIn DEF PagesIn, StoresIn
  <2>2. CASE ~FlushWrite(f)
    BY <1>0, <2>2 DEF FlushStep, ListKeys, FlushGet, FlushReadRow, EndFlush, store,
       PagesIn, StoresIn
  <2>3. QED
    BY <2>1, <2>2
<1>3. FlushersIn(p, S)'
  <2>1. /\ \A g \in Flushers \ {f} : flusher'[g] = flusher[g]
        /\ \/ flusher'[f].pair = flusher[f].pair /\ flusher'[f].page = flusher[f].page
           \/ flusher'[f].pair = NoPair
           \/ flusher'[f].page = cache[flusher'[f].pair]
    <3>1. CASE FlushGet(f)
      <4>1. PICK q \in flusher[f].keys :
              LET rest == flusher[f].keys \ {q} IN
              \/ flusher' = [flusher EXCEPT ![f] = [at |-> "read", keys |-> rest,
                   pair |-> q, page |-> cache[q], status |-> StatusReading]]
              \/ flusher' = [flusher EXCEPT ![f].keys = rest]
        BY <3>1 DEF FlushGet
      <4>2. QED
        BY <1>0, <4>1 DEF Passes
    <3>2. CASE FlushWrite(f)
      BY <1>0, <3>2 DEF FlushWrite, NextKey, Resting
    <3>3. CASE EndFlush(f)
      BY <1>0, <3>3 DEF EndFlush
    <3>4. CASE ListKeys(f)
      BY <1>0, <3>4 DEF ListKeys, Passes
    <3>5. CASE FlushReadRow(f)
      BY <1>0, <3>5 DEF FlushReadRow, Passes
    <3>6. QED
      BY <3>1, <3>2, <3>3, <3>4, <3>5 DEF FlushStep
  <2>2. QED
    BY <1>0, <2>1 DEF PagesIn, FlushersIn, StoresIn
<1>4. QED
  BY <1>1, <1>2, <1>3 DEF PagesIn

(* New requests, the process and the stores bring no page but the client's,*)
(* which is yet to be clamped, and page 1.                                 *)
LEMMA EnvironmentIn ==
  ASSUME TypeOK, NEW p \in Pairs, NEW S, 0 \in S, 1 \in S, PagesIn(p, S),
         Process \/ Stores \/ \E s \in Slots : Request(s) \/ Abandon(s)
  PROVE  PagesIn(p, S)'
<1>0. /\ request \in [Slots -> Requests] /\ flusher \in [Flushers -> Passes]
      /\ NoPair # p /\ Resting.pair = NoPair /\ Idle.pair = NoPair
      /\ NoKey \in S /\ NoRow.last_page \in S
  BY PairFacts DEF TypeOK, RequestTypeOK, FlusherTypeOK, Resting, NoKey, NoRow
<1>1. ASSUME NEW s \in Slots, Request(s) PROVE PagesIn(p, S)'
  <2>1. UNCHANGED <<cache, progress, flusher>>
    BY <1>1 DEF Request, store
  <2>2. PICK r : request' = [request EXCEPT ![s] = r]
                 /\ (r.at # "findEbook" => r.page = 1)
    <3>1. PICK op \in Operations, q \in Pairs, page \in 1..MaxPage, status \in Statuses :
            /\ op # "UpdateProgress" => page = 1
            /\ request' = [request EXCEPT ![s] =
                 [op |-> op, pair |-> q, page |-> page, status |-> status,
                  at |-> IF op = "GetProgress" THEN "readCache" ELSE "findEbook"]]
      BY <1>1 DEF Request
    <3> DEFINE r == [op |-> op, pair |-> q, page |-> page, status |-> status,
                     at |-> IF op = "GetProgress" THEN "readCache" ELSE "findEbook"]
    <3>2. /\ request' = [request EXCEPT ![s] = r]
          /\ r.at # "findEbook" => op = "GetProgress" /\ r.page = 1
      BY <3>1
    <3> HIDE DEF r
    <3>3. QED
      BY <3>2
  <2>3. RequestsIn(p, S)'
    BY <1>0, <2>2 DEF PagesIn, RequestsIn, At, Pair
  <2>4. QED
    BY <2>1, <2>3 DEF PagesIn, StoresIn, FlushersIn
<1>2. ASSUME NEW s \in Slots, Abandon(s) PROVE PagesIn(p, S)'
  <2>1. RequestsIn(p, S)'
    BY <1>2, RequestIn DEF Abandon, PagesIn
  <2>2. QED
    BY <1>2, <2>1 DEF Abandon, store, PagesIn, StoresIn, FlushersIn
<1>3. CASE Process
  <2>1. UNCHANGED <<cache, progress>>
    BY <1>3 DEF Process, Signal, WriteCancelled, Drained, Deadline, Crash, Boot, store
  <2>2. /\ \A s \in Slots : request'[s] \in {request[s], Idle}
        /\ \A f \in Flushers : flusher'[f] \in {flusher[f], Resting}
    BY <1>0, <1>3 DEF Process, Signal, WriteCancelled, Drained, Deadline, Crash, Boot
  <2>3. QED
    BY <1>0, <2>1, <2>2 DEF PagesIn, StoresIn, FlushersIn, RequestsIn, At, Pair
<1>4. CASE Stores
  <2>1. UNCHANGED <<request, flusher>>
    BY <1>4 DEF Stores, Expire, LoseCache, DeleteEbook, DeleteUser
  <2>2. cache'[p] \in {cache[p], NoKey} /\ progress'[p] \in {progress[p], NoRow}
    BY <1>4 DEF Stores, Expire, LoseCache, DeleteEbook, DeleteUser, Cascade, TypeOK,
       StoreTypeOK
  <2>3. QED
    BY <1>0, <2>1, <2>2 DEF PagesIn, StoresIn, FlushersIn, RequestsIn, At, Pair
<1>5. QED
  BY <1>1, <1>2, <1>3, <1>4

(* The steps of server and stores keep the pages of a pair within any set  *)
(* that has page 1, none, and what the reader's page turns are clamped to. *)
LEMMA StepIn ==
  ASSUME TypeOK, FirstPageAsked, NEW p \in Pairs, NEW S, 0 \in S, 1 \in S,
         Asked(p) \subseteq S, PagesIn(p, S), [Next]_vars
  PROVE  PagesIn(p, S)'
<1>1. CASE UNCHANGED vars
  BY <1>1 DEF vars, PagesIn, StoresIn, FlushersIn, RequestsIn, At, Pair
<1>2. QED
  BY <1>1, HandlerIn, FlushIn, EnvironmentIn DEF Next

LEMMA FirstPageAlways == Spec => []FirstPageAsked
<1>1. Init => FirstPageAsked
  BY DEF Init, FirstPageAsked, Idle, At
<1>2. TypeOK /\ FirstPageAsked /\ [Next]_vars => FirstPageAsked'
  BY FirstPageStep DEF FirstPageAsked, At, vars
<1>3. QED
  BY <1>1, <1>2, TypeCorrect, PTL DEF Spec

(* The pages the stores and the steps under way hold for p.                *)
Held(p) ==
  {cache[p], progress[p].last_page} \cup
  {flusher[f].page : f \in {g \in Flushers : flusher[g].pair = p}} \cup
  {request[s].page : s \in {t \in Slots : Pair(t) = p /\ ~At(t, "findEbook")}}

LEMMA HeldIn ==
  ASSUME NEW p \in Pairs, NEW S
  PROVE  (Held(p) \subseteq S <=> PagesIn(p, S)) /\ (Held(p)' \subseteq S <=> PagesIn(p, S)')
BY DEF Held, PagesIn, StoresIn, FlushersIn, RequestsIn

NoPageMadeUp ==
  [][\A p \in Pairs : Held(p)' \subseteq Held(p) \cup {0, 1} \cup Asked(p)]_vars

(* No step gives a pair a page of another reader or book, or one nobody    *)
(* asked for: whatever requests, flushes, failures, crashes and losses     *)
(* overlap, what is stored or held for it was so before, or is page 1, or  *)
(* what its own reader turns to, clamped.                                  *)
THEOREM PagesAreTheReaders == Spec => NoPageMadeUp
<1>1. TypeOK /\ FirstPageAsked /\ [Next]_vars =>
        [\A p \in Pairs : Held(p)' \subseteq Held(p) \cup {0, 1} \cup Asked(p)]_vars
  <2> SUFFICES ASSUME TypeOK, FirstPageAsked, [Next]_vars, NEW p \in Pairs
               PROVE  Held(p)' \subseteq Held(p) \cup {0, 1} \cup Asked(p)
    OBVIOUS
  <2>1. PICK S : S = Held(p) \cup {0, 1} \cup Asked(p)
    OBVIOUS
  <2>2. 0 \in S /\ 1 \in S /\ Asked(p) \subseteq S /\ Held(p) \subseteq S
    BY <2>1
  <2>3. Held(p)' \subseteq S
    BY <2>2, StepIn, HeldIn
  <2>4. QED
    BY <2>1, <2>3
<1>2. QED
  BY <1>1, TypeCorrect, FirstPageAlways, PTL DEF Spec, NoPageMadeUp

-----------------------------------------------------------------------------
(* PageWithinDocument.  A page out of its document could come from a write *)
(* of a page somebody holds, so the invariant also speaks of those.        *)
PagesInv ==
  \A p \in Pairs : totalPages[p[2]] > 0 => PagesIn(p, 0..totalPages[p[2]])

(* What a page turn of p is clamped to lies within p's document.           *)
LEMMA AskedWithin ==
  ASSUME TypeOK, NEW p \in Pairs, totalPages[p[2]] > 0
  PROVE  Asked(p) \subseteq 0..totalPages[p[2]]
<1> SUFFICES ASSUME NEW s \in Turning(p), At(s, "findEbook")
             PROVE  Clamp(request[s].page, totalPages[p[2]]) \in 0..totalPages[p[2]]
  BY DEF Asked
<1>1. s \in Slots /\ totalPages[p[2]] \in Nat
  BY DEF Turning, TypeOK, StoreTypeOK, Pairs
<1>2. request[s].page \in 1..MaxPage
  <2>1. request[s] \in Requests /\ request[s].page > 0
    BY <1>1, PairFacts DEF TypeOK, RequestTypeOK, At
  <2>2. QED
    BY <2>1 DEF Requests
<1>3. /\ Clamp(request[s].page, totalPages[p[2]]) \in 1..MaxPage
      /\ Clamp(request[s].page, totalPages[p[2]]) <= totalPages[p[2]]
  BY <1>1, <1>2, ClampType
<1>4. QED
  BY <1>1, <1>3, PagesAssumption

(* No page out of its document is stored, cached or held.                  *)
LEMMA PagesAlways == Spec => []PagesInv
<1>1. Init => PagesInv
  <2> SUFFICES ASSUME Init, NEW p \in Pairs, totalPages[p[2]] > 0
               PROVE  PagesIn(p, 0..totalPages[p[2]])
    BY DEF PagesInv
  <2>1. TypeOK
    BY InitTypes
  <2>2. 0 \in 0..totalPages[p[2]]
    BY <2>1 DEF TypeOK, StoreTypeOK, Pairs
  <2>3. NoPair # p
    BY <2>1, PairFacts
  <2>4. QED
    BY <2>2, <2>3 DEF Init, PagesIn, StoresIn, FlushersIn, RequestsIn, NoKey, NoRow, Idle,
       Resting, Pair
<1>2. TypeOK /\ FirstPageAsked /\ PagesInv /\ [Next]_vars => PagesInv'
  <2> SUFFICES ASSUME TypeOK, FirstPageAsked, PagesInv, [Next]_vars,
                      NEW p \in Pairs, totalPages'[p[2]] > 0
               PROVE  PagesIn(p, 0..totalPages[p[2]])'
    BY DEF PagesInv
  <2>1. UNCHANGED totalPages
    BY TotalsConstant
  <2>2. PICK S : S = 0..totalPages[p[2]]
    OBVIOUS
  <2>3. 0 \in S /\ 1 \in S
    BY <2>1, <2>2 DEF TypeOK, StoreTypeOK, Pairs
  <2>4. PagesIn(p, S) /\ Asked(p) \subseteq S
    BY <2>1, <2>2, AskedWithin DEF PagesInv
  <2>5. PagesIn(p, S)'
    BY <2>3, <2>4, StepIn
  <2>6. QED
    BY <2>1, <2>2, <2>5 DEF PagesIn, StoresIn, FlushersIn, RequestsIn
<1>3. QED
  BY <1>1, <1>2, TypeCorrect, FirstPageAlways, PTL DEF Spec

(* No stored or cached page lies past the end of its document, whatever    *)
(* requests, flushes, failures, crashes and restarts come together.        *)
THEOREM PagesStayWithinDocument == Spec => []PageWithinDocument
<1>1. PagesInv => PageWithinDocument
  BY DEF PagesInv, PagesIn, StoresIn, PageWithinDocument
<1>2. QED
  BY <1>1, PagesAlways, PTL

-----------------------------------------------------------------------------
(* CompletionWasAsked and StatusIsLastAsked.  A status is stored by a      *)
(* SetStatus, or by somebody who read the row (or found none) earlier and  *)
(* carries what they saw; the invariants speak of those carriers too.  A   *)
(* SetStatus that lands while there is a carrier puts the pair in raced.   *)

CompletionInv ==
  /\ CompletionWasAsked
  /\ \A f \in Flushers :
       /\ flusher[f].at = "write" /\ flusher[f].pair \notin raced
       /\ flusher[f].status = StatusCompleted
       => lastAsked[flusher[f].pair] = StatusCompleted

NeverAsked == \A p \in Pairs :
  Live(p) /\ progress[p] = NoRow => lastAsked[p] = StatusReading
CarriedByFlushers == \A f \in Flushers : LET p == flusher[f].pair IN
  flusher[f].at = "write" /\ p \notin raced /\ Live(p) => flusher[f].status = lastAsked[p]
CarriedByRequests == \A s \in Slots :
  At(s, "createRow") /\ Pair(s) \notin raced /\ Live(Pair(s))
    => lastAsked[Pair(s)] = StatusReading
StatusInv ==
  /\ StatusIsLastAsked
  /\ spent["fault"] = 0 => NeverAsked /\ CarriedByFlushers /\ CarriedByRequests
CarryInv == CompletionInv /\ StatusInv

(* Counting faults: a run without one so far had none before.              *)
LEMMA FaultCount ==
  ASSUME spent \in [Bounded -> Nat], Fine \/ \E b \in Bounded : Spend(b)
  PROVE  /\ spent'["fault"] = 0 => spent["fault"] = 0
         /\ FAULT => spent'["fault"] # 0
BY DEF Fine, FAULT, Spend, Bounded

(* Steps that touch no row and no status, and make nobody a carrier.       *)
LEMMA QuietStep ==
  ASSUME CarryInv, UNCHANGED <<users, ebooks, progress, lastAsked, raced>>,
         spent'["fault"] = 0 => spent["fault"] = 0,
         \A f \in Flushers : flusher'[f].at = "write" => flusher'[f] = flusher[f],
         \A s \in Slots : request'[s].at = "createRow" => request'[s] = request[s]
  PROVE  CarryInv'
<1> USE DEF CarryInv
<1>1. CompletionInv'
  BY DEF CompletionInv, CompletionWasAsked
<1>2. StatusIsLastAsked'
  BY DEF StatusInv, StatusIsLastAsked
<1>3. ASSUME spent'["fault"] = 0 PROVE (NeverAsked /\ CarriedByFlushers /\ CarriedByRequests)'
  BY <1>3 DEF StatusInv, NeverAsked, CarriedByFlushers, CarriedByRequests, Live, At, Pair
<1>4. QED
  BY <1>1, <1>2, <1>3 DEF StatusInv

(* The handler steps that write no row leave what is carried right.        *)
LEMMA QuietHandlers ==
  ASSUME TypeOK, CarryInv, NEW s \in Slots,
         \/ Request(s) \/ Abandon(s) \/ FindEbook(s) \/ LogOpen(s) \/ ReadCache(s)
         \/ ProgressReadRow(s) \/ FillCache(s) \/ StorePage(s)
  PROVE  CarryInv'
<1>0. request \in [Slots -> Requests] /\ spent \in [Bounded -> Nat]
  BY DEF TypeOK, RequestTypeOK, ProcessTypeOK
<1>1. UNCHANGED <<users, ebooks, progress, lastAsked, raced, flusher>>
  BY DEF Request, Abandon, FindEbook, LogOpen, ReadCache, ProgressReadRow, FillCache,
     StorePage, store
<1>2. Fine \/ \E b \in Bounded : Spend(b)
  BY DEF Request, Abandon, FindEbook, LogOpen, ReadCache, ProgressReadRow, FillCache,
     StorePage, Fine, FAULT, Bounded
<1>3. \A t \in Slots \ {s} : request'[t] = request[t]
  BY <1>0 DEF Request, Abandon, FindEbook, LogOpen, ReadCache, ProgressReadRow, FillCache,
     StorePage, Goto, GotoWith, Reply
<1>4. request'[s].at # "createRow"
  <2>1. CASE Request(s)
    BY <1>0, <2>1 DEF Request
  <2>2. CASE Reply(s)
    BY <1>0, <2>2 DEF Reply, Idle
  <2>3. CASE FindEbook(s) /\ ~Reply(s)
    <3>1. PICK label \in {"storePage", "logOpen", "readCache"} :
            Goto(s, label) \/ \E page : GotoWith(s, label, page)
      BY <1>0, <2>3 DEF FindEbook, AfterFind, TypeOK, RequestTypeOK, Requests, Operations, At
    <3>2. QED
      BY <1>0, <3>1 DEF Goto, GotoWith, Requests
  <2>4. CASE LogOpen(s)
    BY <1>0, <2>4 DEF LogOpen, Goto, Requests
  <2>5. CASE ReadCache(s) /\ ~Reply(s)
    BY <1>0, <2>5 DEF ReadCache, Goto, GotoWith, Requests
  <2>6. CASE ProgressReadRow(s) /\ ~Reply(s)
    BY <1>0, <2>6 DEF ProgressReadRow, GotoWith, Requests
  <2>7. CASE FillCache(s) /\ ~Reply(s)
    BY <1>0, <2>7 DEF FillCache, Goto, Requests
  <2>8. QED
    BY <2>1, <2>2, <2>3, <2>4, <2>5, <2>6, <2>7 DEF Abandon, StorePage
<1>5. QED
  BY <1>0, <1>1, <1>2, <1>3, <1>4, FaultCount, QuietStep

(* OpenBook found no row, so nobody ever asked, or the read failed.        *)
LEMMA OpenReadRowCarries ==
  ASSUME TypeOK, CarryInv, NEW s \in Slots, OpenReadRow(s)
  PROVE  CarryInv'
<1>0. request \in [Slots -> Requests] /\ spent \in [Bounded -> Nat]
  BY DEF TypeOK, RequestTypeOK, ProcessTypeOK
<1>1. UNCHANGED <<users, ebooks, progress, lastAsked, raced, flusher>>
  BY DEF OpenReadRow, store
<1>2. /\ spent'["fault"] = 0 => spent["fault"] = 0
      /\ FAULT => spent'["fault"] # 0
  BY <1>0, FaultCount DEF OpenReadRow, FAULT, Bounded
<1>3. /\ \A t \in Slots \ {s} : request'[t] = request[t]
      /\ request'[s].pair = request[s].pair
      /\ request'[s].at = "createRow" => progress[Pair(s)] = NoRow \/ FAULT
      /\ Pair(s) \in Pairs
  BY <1>0 DEF OpenReadRow, GotoWith, Requests, TypeOK, RequestTypeOK, At, Pair
<1>4. CompletionInv' /\ StatusIsLastAsked'
  BY <1>1, <1>2 DEF CarryInv, CompletionInv, CompletionWasAsked, StatusInv, StatusIsLastAsked
<1>5. ASSUME spent'["fault"] = 0 PROVE (NeverAsked /\ CarriedByFlushers)'
  BY <1>1, <1>2, <1>5 DEF CarryInv, StatusInv, NeverAsked, CarriedByFlushers, Live
<1>6. ASSUME spent'["fault"] = 0 PROVE CarriedByRequests'
  BY <1>1, <1>2, <1>3, <1>6
     DEF CarryInv, StatusInv, NeverAsked, CarriedByRequests, Live, At, Pair
<1>7. QED
  BY <1>4, <1>5, <1>6 DEF CarryInv, StatusInv

(* A carrier that writes what it carries, and is none any more.            *)
LEMMA CarrierWrites ==
  ASSUME TypeOK, CarryInv, UNCHANGED <<users, ebooks, lastAsked, raced>>,
         spent'["fault"] = 0 => spent["fault"] = 0,
         \A f \in Flushers : flusher'[f].at = "write" => flusher'[f] = flusher[f],
         \A s \in Slots : request'[s].at = "createRow" => request'[s] = request[s],
         NEW p \in Pairs, NEW page, NEW status,
         Upsert(p, page, status) \/ UNCHANGED progress,
         p \notin raced /\ status = StatusCompleted => lastAsked[p] = StatusCompleted,
         spent["fault"] = 0 /\ p \notin raced /\ Live(p) => status = lastAsked[p],
         page > 0
  PROVE  CarryInv'
<1>0. /\ \A q \in Pairs \ {p} : progress'[q] = progress[q]
      /\ \/ progress'[p] = progress[p]
         \/ Live(p) /\ progress'[p] = [last_page |-> page, status |-> status]
  BY DEF TypeOK, StoreTypeOK, Upsert
<1>1. CompletionInv'
  BY <1>0 DEF CarryInv, CompletionInv, CompletionWasAsked
<1>2. StatusIsLastAsked'
  BY <1>0 DEF CarryInv, StatusInv, StatusIsLastAsked
<1>3. \A q \in Pairs : progress'[q] = NoRow => progress[q] = NoRow
  BY <1>0 DEF NoRow
<1>4. ASSUME spent'["fault"] = 0 PROVE NeverAsked'
  BY <1>3, <1>4 DEF CarryInv, StatusInv, NeverAsked, Live
<1>5. ASSUME spent'["fault"] = 0 PROVE (CarriedByFlushers /\ CarriedByRequests)'
  BY <1>5 DEF CarryInv, StatusInv, CarriedByFlushers, CarriedByRequests, Live, At, Pair
<1>6. QED
  BY <1>1, <1>2, <1>4, <1>5 DEF CarryInv, StatusInv

(* OpenBook's upsert, of a row nobody had or could read.                   *)
LEMMA CreateRowCarries ==
  ASSUME TypeOK, CarryInv, NEW s \in Slots, CreateRow(s)
  PROVE  CarryInv'
<1>0. request \in [Slots -> Requests] /\ spent \in [Bounded -> Nat] /\ Pair(s) \in Pairs
  BY DEF TypeOK, RequestTypeOK, ProcessTypeOK, CreateRow, At
<1>1. spent'["fault"] = 0 => spent["fault"] = 0
  BY <1>0, FaultCount DEF CreateRow, FAULT, Bounded
<1>2. \A t \in Slots : request'[t].at = "createRow" => request'[t] = request[t]
  BY <1>0 DEF CreateRow, Goto, Requests
<1>3. spent["fault"] = 0 /\ Pair(s) \notin raced /\ Live(Pair(s))
        => StatusReading = lastAsked[Pair(s)]
  BY DEF CarryInv, StatusInv, CarriedByRequests, CreateRow
<1>4. /\ UNCHANGED <<users, ebooks, lastAsked, raced, flusher>>
      /\ Upsert(Pair(s), 1, StatusReading) \/ UNCHANGED progress
  BY DEF CreateRow
<1>5. StatusReading # StatusCompleted
  BY DEF StatusReading, StatusCompleted
<1>6. QED
  BY <1>0, <1>1, <1>2, <1>3, <1>4, <1>5, CarrierWrites

(* The flusher writes the status it carries.                               *)
LEMMA FlushWriteCarries ==
  ASSUME TypeOK, CarryInv, NEW f \in Flushers, FlushWrite(f)
  PROVE  CarryInv'
<1>0. /\ flusher[f].at = "write" /\ flusher[f].pair \in Pairs /\ flusher[f].page > 0
      /\ flusher \in [Flushers -> Passes] /\ spent \in [Bounded -> Nat]
  BY DEF TypeOK, FlusherTypeOK, ProcessTypeOK, FlushWrite
<1>1. spent'["fault"] = 0 => spent["fault"] = 0
  BY <1>0, FaultCount DEF FlushWrite, FAULT, Bounded
<1>2. \A g \in Flushers : flusher'[g].at = "write" => flusher'[g] = flusher[g]
  <2> DEFINE r == [Resting EXCEPT !.at = "next", !.keys = flusher[f].keys]
  <2>1. r.at = "next" /\ Resting.at = "done"
    BY DEF Resting
  <2>2. \/ flusher' = [flusher EXCEPT ![f] = r]
        \/ flusher' = [flusher EXCEPT ![f] = Resting]
    BY DEF FlushWrite, NextKey
  <2> HIDE DEF r
  <2>3. QED
    BY <1>0, <2>1, <2>2
<1>3. LET p == flusher[f].pair IN
      /\ p \notin raced /\ flusher[f].status = StatusCompleted => lastAsked[p] = StatusCompleted
      /\ spent["fault"] = 0 /\ p \notin raced /\ Live(p) => flusher[f].status = lastAsked[p]
  BY <1>0 DEF CarryInv, CompletionInv, StatusInv, CarriedByFlushers
<1>4. /\ UNCHANGED <<users, ebooks, lastAsked, raced, request>>
      /\ Upsert(flusher[f].pair, flusher[f].page, flusher[f].status) \/ UNCHANGED progress
  BY DEF FlushWrite
<1>5. QED
  BY <1>0, <1>1, <1>2, <1>3, <1>4, CarrierWrites

(* The flusher becomes a carrier of the status it read.                    *)
LEMMA FlushReadRowCarries ==
  ASSUME TypeOK, CarryInv, NEW f \in Flushers, FlushReadRow(f)
  PROVE  CarryInv'
<1>0. /\ flusher[f].pair \in Pairs
      /\ flusher \in [Flushers -> Passes] /\ spent \in [Bounded -> Nat]
  BY DEF TypeOK, FlusherTypeOK, ProcessTypeOK, FlushReadRow
<1>1. /\ spent'["fault"] = 0 => spent["fault"] = 0
      /\ FAULT => spent'["fault"] # 0
  BY <1>0, FaultCount DEF FlushReadRow, FAULT, Bounded
<1>2. UNCHANGED <<users, ebooks, progress, lastAsked, raced, request>>
  BY DEF FlushReadRow, store
<1> DEFINE row == progress[flusher[f].pair]
<1>3. /\ \A g \in Flushers \ {f} : flusher'[g] = flusher[g]
      /\ flusher'[f].pair = flusher[f].pair
      /\ \/ FAULT /\ flusher'[f].status = Unread
         \/ flusher'[f].status = IF row = NoRow THEN StatusReading ELSE row.status
  BY <1>0 DEF FlushReadRow, Passes
<1>4. CompletionInv'
  <2>1. /\ StatusReading # StatusCompleted /\ Unread # StatusCompleted
        /\ row = NoRow => row.status # StatusCompleted
    BY DEF StatusReading, StatusCompleted, Unread, NoRow
  <2>2. flusher'[f].status = StatusCompleted => row.status = StatusCompleted
    BY <1>3, <2>1
  <2>3. QED
    BY <1>0, <1>2, <1>3, <2>2 DEF CarryInv, CompletionInv, CompletionWasAsked
<1>5. StatusIsLastAsked'
  BY <1>1, <1>2 DEF CarryInv, StatusInv, StatusIsLastAsked
<1>6. ASSUME spent'["fault"] = 0 PROVE (NeverAsked /\ CarriedByRequests)'
  BY <1>1, <1>2, <1>6 DEF CarryInv, StatusInv, NeverAsked, CarriedByRequests, Live, At, Pair
<1>7. ASSUME spent'["fault"] = 0 PROVE CarriedByFlushers'
  BY <1>0, <1>1, <1>2, <1>3, <1>7
     DEF CarryInv, StatusInv, StatusIsLastAsked, NeverAsked, CarriedByFlushers, Live
<1>8. QED
  BY <1>4, <1>5, <1>6, <1>7 DEF CarryInv, StatusInv

(* A SetStatus decides anew; whoever still carries an older status has the *)
(* pair put in raced.                                                      *)
LEMMA SaveStatusCarries ==
  ASSUME TypeOK, CarryInv, NEW s \in Slots, SaveStatus(s)
  PROVE  CarryInv'
<1> DEFINE p == Pair(s)
           asked == request[s].status
<1>0. /\ request \in [Slots -> Requests] /\ spent \in [Bounded -> Nat]
      /\ p \in Pairs /\ request[s].page > 0
      /\ lastAsked \in [Pairs -> Statuses] /\ progress \in [Pairs -> Rows \cup {NoRow}]
  BY DEF TypeOK, RequestTypeOK, ProcessTypeOK, StoreTypeOK, SaveStatus, At
<1>1. spent'["fault"] = 0 => spent["fault"] = 0
  BY <1>0, FaultCount DEF SaveStatus, FAULT, Bounded
<1>2. /\ \A t \in Slots : request'[t].at = "createRow" => t # s /\ request'[t] = request[t]
      /\ UNCHANGED <<users, ebooks, flusher>>
  BY <1>0 DEF SaveStatus, Reply, Idle
<1>3. CASE UNCHANGED <<progress, lastAsked, raced>>
  BY <1>1, <1>2, <1>3, QuietStep
<1>4. CASE ~UNCHANGED <<progress, lastAsked, raced>>
  <2>1. /\ Live(p)
        /\ progress' = [progress EXCEPT ![p] = [last_page |-> request[s].page, status |-> asked]]
        /\ lastAsked' = [lastAsked EXCEPT ![p] = asked]
        /\ raced' = IF RowReadByOthers(s, p) THEN raced \cup {p} ELSE raced \ {p}
    BY <1>4 DEF SaveStatus, Upsert, Pair
  <2>2. /\ progress'[p].status = asked /\ progress'[p] # NoRow /\ lastAsked'[p] = asked
        /\ \A q \in Pairs \ {p} : /\ progress'[q] = progress[q]
                                  /\ lastAsked'[q] = lastAsked[q]
    BY <1>0, <2>1 DEF NoRow
  <2>3. \A q : q # p => (q \in raced' <=> q \in raced)
    BY <2>1
  <2>4. p \notin raced' => ~RowReadByOthers(s, p)
    BY <2>1
  <2>5. CompletionInv'
    <3>1. CompletionWasAsked'
      BY <2>2, <2>3 DEF CarryInv, CompletionInv, CompletionWasAsked
    <3>2. ASSUME NEW f \in Flushers, flusher'[f].at = "write",
                 flusher'[f].pair \notin raced', flusher'[f].status = StatusCompleted
          PROVE  lastAsked'[flusher'[f].pair] = StatusCompleted
      <4>1. flusher[f].pair # p
        BY <1>2, <2>4, <3>2 DEF RowReadByOthers
      <4>2. flusher[f].pair \in Pairs
        BY <1>2, <3>2 DEF TypeOK, FlusherTypeOK
      <4>3. QED
        BY <1>2, <2>2, <2>3, <3>2, <4>1, <4>2 DEF CarryInv, CompletionInv
    <3>3. QED
      BY <3>1, <3>2 DEF CompletionInv
  <2>6. StatusIsLastAsked'
    BY <1>1, <2>2, <2>3 DEF CarryInv, StatusInv, StatusIsLastAsked
  <2>7. ASSUME spent'["fault"] = 0 PROVE NeverAsked'
    BY <1>1, <1>2, <2>2, <2>7 DEF CarryInv, StatusInv, NeverAsked, Live
  <2>8. ASSUME spent'["fault"] = 0 PROVE CarriedByFlushers'
    <3>1. SUFFICES ASSUME NEW f \in Flushers, flusher[f].at = "write",
                          flusher[f].pair \notin raced', Live(flusher[f].pair)'
                   PROVE  flusher[f].status = lastAsked'[flusher[f].pair]
      BY <1>2 DEF CarriedByFlushers
    <3>2. flusher[f].pair # p /\ flusher[f].pair \in Pairs
      BY <2>4, <3>1 DEF RowReadByOthers, TypeOK, FlusherTypeOK
    <3>3. QED
      BY <1>1, <1>2, <2>2, <2>3, <2>8, <3>1, <3>2
         DEF CarryInv, StatusInv, CarriedByFlushers, Live
  <2>9. ASSUME spent'["fault"] = 0 PROVE CarriedByRequests'
    <3>1. SUFFICES ASSUME NEW t \in Slots, request'[t].at = "createRow",
                          request'[t].pair \notin raced', Live(request'[t].pair)
                   PROVE  lastAsked'[request'[t].pair] = StatusReading
      BY <1>2 DEF CarriedByRequests, Live, At, Pair
    <3>2. t # s /\ request'[t] = request[t] /\ request[t].pair \in Pairs
      BY <1>2, <3>1 DEF TypeOK, RequestTypeOK, At, Pair
    <3>3. request[t].pair # p
      <4>1. SUFFICES ASSUME request[t].pair = p PROVE FALSE
        OBVIOUS
      <4>2. t \in Slots \ {s} /\ At(t, "createRow") /\ Pair(t) = p
        BY <3>1, <3>2, <4>1 DEF At, Pair
      <4>3. RowReadByOthers(s, p)
        BY <4>2 DEF RowReadByOthers
      <4>4. QED
        BY <2>4, <3>1, <3>2, <4>1, <4>3
    <3>4. QED
      BY <1>1, <1>2, <2>2, <2>3, <2>9, <3>1, <3>2, <3>3
         DEF CarryInv, StatusInv, CarriedByRequests, Live, At, Pair
  <2>10. QED
    BY <2>5, <2>6, <2>7, <2>8, <2>9 DEF CarryInv, StatusInv
<1>5. QED
  BY <1>3, <1>4

(* The flush steps that read and write no row.                             *)
LEMMA QuietFlushes ==
  ASSUME TypeOK, CarryInv, NEW f \in Flushers, ListKeys(f) \/ FlushGet(f) \/ EndFlush(f)
  PROVE  CarryInv'
<1>0. flusher \in [Flushers -> Passes] /\ spent \in [Bounded -> Nat]
  BY DEF TypeOK, FlusherTypeOK, ProcessTypeOK
<1>1. UNCHANGED <<users, ebooks, progress, lastAsked, raced, request>>
  BY DEF ListKeys, FlushGet, EndFlush, store
<1>2. spent'["fault"] = 0 => spent["fault"] = 0
  BY <1>0, FaultCount DEF ListKeys, FlushGet, EndFlush, Fine, FAULT, Bounded
<1>3. \A g \in Flushers : flusher'[g].at = "write" => flusher'[g] = flusher[g]
  <2>1. \A g \in Flushers \ {f} : flusher'[g] = flusher[g]
    BY <1>0 DEF ListKeys, FlushGet, EndFlush
  <2>2. CASE ListKeys(f)
    BY <1>0, <2>1, <2>2 DEF ListKeys, Passes
  <2>3. CASE FlushGet(f)
    <3>1. \E rest, p : \/ flusher' = [flusher EXCEPT ![f] = [at |-> "read", keys |-> rest,
                            pair |-> p, page |-> cache[p], status |-> StatusReading]]
                       \/ flusher' = [flusher EXCEPT ![f].keys = rest]
      BY <2>3 DEF FlushGet
    <3>2. flusher'[f].at \in {"read", "next"}
      BY <1>0, <2>3, <3>1 DEF FlushGet, Passes
    <3>3. QED
      BY <2>1, <3>2
  <2>4. CASE EndFlush(f)
    BY <1>0, <2>1, <2>4 DEF EndFlush, Resting
  <2>5. QED
    BY <2>2, <2>3, <2>4
<1>4. QED
  BY <1>1, <1>2, <1>3, QuietStep

(* Shutdown, crash and start write no row; carriers may only vanish.       *)
LEMMA ProcessCarries ==
  ASSUME TypeOK, CarryInv, Process
  PROVE  CarryInv'
<1>0. flusher \in [Flushers -> Passes] /\ spent \in [Bounded -> Nat]
  BY DEF TypeOK, FlusherTypeOK, ProcessTypeOK
<1> USE DEF Process, Signal, WriteCancelled, Drained, Deadline, Crash, Boot
<1>1. UNCHANGED <<users, ebooks, progress, lastAsked, raced>>
  BY DEF store
<1>2. spent'["fault"] = 0 => spent["fault"] = 0
  BY <1>0, FaultCount DEF Fine, Bounded
<1>3. \A f \in Flushers : flusher'[f] \in {flusher[f], Resting}
  BY <1>0
<1>4. \A s \in Slots : request'[s] \in {request[s], Idle}
  OBVIOUS
<1>5. QED
  BY <1>1, <1>2, <1>3, <1>4, QuietStep DEF Idle, Resting

(* Deleting removes rows for good: a pair that has lost its user or ebook  *)
(* never gets a row again.                                                 *)
LEMMA StoresCarry ==
  ASSUME TypeOK, CarryInv, Stores
  PROVE  CarryInv'
<1>0. spent \in [Bounded -> Nat] /\ progress \in [Pairs -> Rows \cup {NoRow}]
  BY DEF TypeOK, ProcessTypeOK, StoreTypeOK
<1>1. UNCHANGED <<lastAsked, raced, request, flusher>>
  BY DEF Stores, Expire, LoseCache, DeleteEbook, DeleteUser
<1>2. spent'["fault"] = 0 => spent["fault"] = 0
  BY <1>0, FaultCount DEF Stores, Expire, LoseCache, DeleteEbook, DeleteUser, Fine, Bounded
<1>3. users' \subseteq users /\ ebooks' \subseteq ebooks
  BY DEF Stores, Expire, LoseCache, DeleteEbook, DeleteUser
<1>4. \A p \in Pairs : \/ progress'[p] = progress[p]
                       \/ progress'[p] = NoRow /\ ~Live(p)'
  <2>1. CASE Expire \/ LoseCache
    BY <2>1 DEF Expire, LoseCache
  <2>2. CASE DeleteEbook
    BY <2>2 DEF DeleteEbook, Cascade, Live, Pairs
  <2>3. CASE DeleteUser
    BY <2>3 DEF DeleteUser, Cascade, Live, Pairs
  <2>4. QED
    BY <2>1, <2>2, <2>3 DEF Stores
<1>5. NoRow.status # StatusCompleted
  BY DEF NoRow, StatusCompleted
<1>6. CompletionInv'
  BY <1>1, <1>4, <1>5 DEF CarryInv, CompletionInv, CompletionWasAsked
<1>7. StatusIsLastAsked'
  BY <1>1, <1>2, <1>4 DEF CarryInv, StatusInv, StatusIsLastAsked
<1>8. ASSUME spent'["fault"] = 0 PROVE NeverAsked'
  BY <1>1, <1>2, <1>3, <1>4, <1>8 DEF CarryInv, StatusInv, NeverAsked, Live
<1>9. ASSUME spent'["fault"] = 0 PROVE (CarriedByFlushers /\ CarriedByRequests)'
  BY <1>1, <1>2, <1>3, <1>9
     DEF CarryInv, StatusInv, CarriedByFlushers, CarriedByRequests, Live, At, Pair
<1>10. QED
  BY <1>6, <1>7, <1>8, <1>9 DEF CarryInv, StatusInv

(* What is stored and what is carried is what was asked for.               *)
LEMMA CarryInvariant == Spec => []CarryInv
<1>1. Init => CarryInv
  BY DEF Init, CarryInv, CompletionInv, CompletionWasAsked, StatusInv, StatusIsLastAsked,
     NeverAsked, CarriedByFlushers, CarriedByRequests, NoRow, Idle, Resting, At,
     StatusReading, StatusCompleted
<1>2. TypeOK /\ CarryInv /\ [Next]_vars => CarryInv'
  <2> SUFFICES ASSUME TypeOK, CarryInv, [Next]_vars PROVE CarryInv'
    OBVIOUS
  <2>1. CASE UNCHANGED vars
    BY <2>1, QuietStep DEF vars
  <2>2. ASSUME NEW s \in Slots, Handler(s) PROVE CarryInv'
    BY <2>2, QuietHandlers, OpenReadRowCarries, CreateRowCarries, SaveStatusCarries
       DEF Handler
  <2>3. ASSUME NEW f \in Flushers, FlushStep(f) PROVE CarryInv'
    BY <2>3, QuietFlushes, FlushReadRowCarries, FlushWriteCarries DEF FlushStep
  <2>4. QED
    BY <2>1, <2>2, <2>3, QuietHandlers, ProcessCarries, StoresCarry DEF Next
<1>3. QED
  BY <1>1, <1>2, TypeCorrect, PTL DEF Spec

(* A book is completed only because its reader asked, whatever fails,      *)
(* unless their SetStatus landed inside somebody's read-then-write.        *)
THEOREM CompletionIsExplicit == Spec => []CompletionWasAsked
<1>1. CarryInv => CompletionWasAsked
  BY DEF CarryInv, CompletionInv
<1>2. QED
  BY <1>1, CarryInvariant, PTL

(* Without failed calls the stored status is the last one asked for, with  *)
(* that one exception.                                                     *)
THEOREM StatusIsKept == Spec => []StatusIsLastAsked
<1>1. CarryInv => StatusIsLastAsked
  BY DEF CarryInv, StatusInv
<1>2. QED
  BY <1>1, CarryInvariant, PTL

(* FlushKeepsCompletion, which does not hold, with its exceptions.         *)
FlushKeepsUnraced ==
  [][\A f \in Flushers, p \in Pairs \ raced :
       spent'["fault"] = 0 /\ FlushWrite(f) /\ progress[p].status = StatusCompleted
         => progress'[p].status = StatusCompleted]_vars

(* Without failed calls a flush un-completes a book in one way only: the   *)
(* reader completed it after the flusher, or an OpenBook, had read the row *)
(* and before it wrote it back.                                            *)
THEOREM OnlyARaceUncompletes == Spec => FlushKeepsUnraced
<1>1. ASSUME TypeOK, CarryInv, NEW f \in Flushers, NEW p \in Pairs \ raced,
             spent'["fault"] = 0, FlushWrite(f), progress[p].status = StatusCompleted
      PROVE  progress'[p].status = StatusCompleted
  <2> DEFINE mine == flusher[f].pair
  <2>1. spent["fault"] = 0 /\ ~FAULT
    BY <1>1, FaultCount DEF TypeOK, ProcessTypeOK, FlushWrite, FAULT, Bounded
  <2>2. flusher[f].at = "write" /\ Upsert(mine, flusher[f].page, flusher[f].status)
    BY <1>1, <2>1 DEF FlushWrite
  <2>3. CASE Live(mine) /\ p = mine
    <3>1. flusher[f].status = lastAsked[p]
      BY <1>1, <2>1, <2>2, <2>3 DEF CarryInv, StatusInv, CarriedByFlushers
    <3>2. lastAsked[p] = StatusCompleted
      BY <1>1 DEF CarryInv, CompletionInv, CompletionWasAsked
    <3>3. progress'[p] = [last_page |-> flusher[f].page, status |-> flusher[f].status]
      BY <1>1, <2>2, <2>3 DEF Upsert, TypeOK, StoreTypeOK
    <3>4. QED
      BY <3>1, <3>2, <3>3
  <2>4. CASE ~(Live(mine) /\ p = mine)
    <3>1. progress'[p] = progress[p]
      BY <1>1, <2>2, <2>4 DEF Upsert, TypeOK, StoreTypeOK
    <3>2. QED
      BY <1>1, <3>1
  <2>5. QED
    BY <2>3, <2>4
<1>2. TypeOK /\ CarryInv =>
        [\A f \in Flushers, p \in Pairs \ raced :
           spent'["fault"] = 0 /\ FlushWrite(f) /\ progress[p].status = StatusCompleted
             => progress'[p].status = StatusCompleted]_vars
  BY <1>1
<1>3. QED
  BY <1>2, TypeCorrect, CarryInvariant, PTL DEF FlushKeepsUnraced

-----------------------------------------------------------------------------
(* What a graceful shutdown leaves in the database *)

(* The page of a live pair's key is where it should be at the end: in the  *)
(* row, or in the hands of FlushAll, or still on its list.                 *)
Stored(p) == progress[p].last_page = cache[p]
InHand(p) == /\ flusher["final"].at \in {"read", "write"}
             /\ flusher["final"].pair = p /\ flusher["final"].page = cache[p]
Listed(p) == p \in flusher["final"].keys
Unflushed == {p \in Pairs \ late : Live(p) /\ cache[p] # NoKey}

(* FlushAll runs in its own phase only, and no handler runs beside it.     *)
Alone ==
  /\ phase # "flushing" => flusher["final"].at = "done"
  /\ phase \in {"flushing", "exited", "cutShort", "down"} => \A s \in Slots : At(s, "done")

(* What FlushAll holds is the cached page, unless the key is gone. *)
Current ==
  phase = "flushing" /\ flusher["final"].at \in {"read", "write"}
    => cache[flusher["final"].pair] \in {flusher["final"].page, NoKey}

Flushing ==
  spent["fault"] = 0 =>
    /\ Current
    /\ phase = "flushing" /\ flusher["final"].at # "done" =>
         \A p \in Unflushed : Stored(p) \/ InHand(p) \/ Listed(p)
    /\ phase = "exited" => \A p \in Unflushed : Stored(p)

ShutdownInv == Alone /\ Flushing

-----------------------------------------------------------------------------
(* There are two flushers, and a flusher at rest is done. *)
LEMMA TwoFlushers ==
  /\ "final" \in Flushers /\ "ticker" \in Flushers /\ \A f \in Flushers : f # "ticker" => f = "final"
  /\ Resting.at = "done"
BY DEF Flushers, Resting

(* Who goes on as alone as before. *)
LEMMA AloneStays ==
  ASSUME TypeOK, Alone, phase' = phase,
         flusher'["final"].at = "done" \/ phase = "flushing",
         \A s \in Slots : At(s, "done") => At(s, "done")'
  PROVE  Alone'
BY DEF Alone

(* Steps beside FlushAll: what they do to the database they do for the     *)
(* ticker, too late, or for pairs that are gone; keys only vanish.         *)
LEMMA Beside ==
  ASSUME TypeOK, Flushing, phase' = phase, flusher'["final"] = flusher["final"],
         spent'["fault"] = 0 => spent["fault"] = 0,
         phase \in {"flushing", "exited"} =>
           \A p \in Pairs :
             /\ cache'[p] \in {cache[p], NoKey}
             /\ p \in Unflushed' /\ cache'[p] # NoKey =>
                  p \in Unflushed /\ progress'[p] = progress[p]
  PROVE  Flushing'
<1>1. SUFFICES ASSUME spent'["fault"] = 0, phase \in {"flushing", "exited"}
               PROVE  /\ Current'
                      /\ phase = "flushing" /\ flusher["final"].at # "done" =>
                           \A p \in Unflushed' : Stored(p)' \/ InHand(p)' \/ Listed(p)'
                      /\ phase = "exited" => \A p \in Unflushed' : Stored(p)'
  BY DEF Flushing, Current
<1>2. Current'
  <2>1. flusher["final"].at \in {"read", "write"} => flusher["final"].pair \in Pairs
    BY TwoFlushers DEF TypeOK, FlusherTypeOK
  <2>2. QED
    BY <1>1, <2>1 DEF Flushing, Current
<1>3. \A p \in Unflushed' : /\ p \in Unflushed /\ cache'[p] = cache[p]
                            /\ progress'[p] = progress[p]
  BY <1>1 DEF Unflushed
<1>4. QED
  BY <1>1, <1>2, <1>3 DEF Flushing, Stored, InHand, Listed

(* No FlushAll and no graceful exit: nothing to show. *)
LEMMA Elsewhere ==
  ASSUME phase' \notin {"flushing", "exited"}
  PROVE  Flushing'
BY DEF Flushing, Current

(* Handlers run while the server is up or draining. *)
LEMMA HandlerShutdown ==
  ASSUME TypeOK, ShutdownInv, NEW s \in Slots, Request(s) \/ Handler(s) \/ Abandon(s)
  PROVE  ShutdownInv'
<1>1. phase' = phase /\ flusher' = flusher
  BY DEF Request, Abandon, Handler, FindEbook, LogOpen, OpenReadRow, CreateRow, ReadCache,
     ProgressReadRow, FillCache, SaveStatus, StorePage
<1>2. phase \in {"up", "draining"}
  <2>1. CASE Request(s)
    BY <2>1 DEF Request
  <2>2. CASE Handler(s) \/ Abandon(s)
    <3>1. ~At(s, "done")
      BY <2>2 DEF Abandon, Handler, FindEbook, LogOpen, OpenReadRow, CreateRow, ReadCache,
         ProgressReadRow, FillCache, SaveStatus, StorePage, At
    <3>2. QED
      BY <3>1 DEF ShutdownInv, Alone, TypeOK, ProcessTypeOK, Phases, Running
  <2>3. QED
    BY <2>1, <2>2
<1>3. Alone'
  BY <1>1, <1>2 DEF ShutdownInv, Alone
<1>4. QED
  BY <1>1, <1>2, <1>3, Elsewhere DEF ShutdownInv

(* The ticker, whose last write may come late. *)
LEMMA TickerShutdown ==
  ASSUME TypeOK, ShutdownInv, FlushStep("ticker")
  PROVE  ShutdownInv'
<1>1. /\ flusher'["final"] = flusher["final"] /\ request' = request /\ phase' = phase
      /\ phase = "up" \/ (FlushWrite("ticker") /\ ~Enabled("ticker"))
  BY TwoFlushers DEF FlushStep, ListKeys, FlushGet, FlushReadRow, FlushWrite, EndFlush, Enabled,
     NextKey, TypeOK, FlusherTypeOK, Flushers
<1>2. Alone'
  BY <1>1 DEF ShutdownInv, Alone, At
<1>3. CASE phase = "up"
  BY <1>1, <1>2, <1>3, Elsewhere DEF ShutdownInv
<1>4. CASE FlushWrite("ticker") /\ ~Enabled("ticker")
  <2> DEFINE q == flusher["ticker"].pair
  <2>1. /\ cache' = cache /\ UNCHANGED <<users, ebooks>> /\ late' = late \cup {q}
        /\ q \in Pairs
    BY <1>4, TwoFlushers DEF FlushWrite, TypeOK, FlusherTypeOK
  <2>2. spent'["fault"] = 0 => spent["fault"] = 0
    BY <1>4, FaultCount DEF FlushWrite, FAULT, Bounded, TypeOK, ProcessTypeOK
  <2>3. \A p \in Pairs : p # q => progress'[p] = progress[p]
    BY <1>4 DEF FlushWrite, Upsert, TypeOK, StoreTypeOK
  <2>4. \A p \in Pairs : p \in Unflushed' => p \in Unflushed /\ p # q
    BY <2>1 DEF Unflushed, Live
  <2>5. Flushing'
    BY <1>1, <2>1, <2>2, <2>3, <2>4, Beside DEF ShutdownInv
  <2>6. QED
    BY <1>2, <2>5 DEF ShutdownInv
<1>5. QED
  BY <1>1, <1>3, <1>4

(* FlushAll takes note of all keys, or fails to. *)
LEMMA ListKeysShutdown ==
  ASSUME TypeOK, ShutdownInv, ListKeys("final")
  PROVE  ShutdownInv'
<1>1. /\ flusher["final"].at = "done" /\ phase = "flushing"
      /\ UNCHANGED <<users, ebooks, cache, progress, request, late>>
      /\ flusher \in [Flushers -> Passes] /\ spent \in [Bounded -> Nat]
  BY TwoFlushers DEF ListKeys, Enabled, store, TypeOK, FlusherTypeOK, ProcessTypeOK
<1>2. CASE Fine /\ phase' = phase
           /\ flusher' = [flusher EXCEPT !["final"].at = "next",
                                         !["final"].keys = {p \in Pairs : cache[p] # NoKey}]
  <2>1. /\ flusher'["final"].at = "next"
        /\ flusher'["final"].keys = {p \in Pairs : cache[p] # NoKey}
    BY <1>1, <1>2, TwoFlushers DEF Passes
  <2>2. \A p \in Unflushed' : Listed(p)'
    BY <1>1, <2>1 DEF Unflushed, Listed
  <2>3. Flushing'
    BY <1>1, <1>2, <2>1, <2>2 DEF Flushing, Current
  <2>4. Alone'
    BY <1>1, <1>2 DEF ShutdownInv, Alone, At
  <2>5. QED
    BY <2>3, <2>4 DEF ShutdownInv
<1>3. CASE FAULT /\ UNCHANGED flusher /\ phase' = "exited"
  <2>1. spent'["fault"] # 0
    BY <1>1, <1>3, FaultCount DEF FAULT, Bounded
  <2>2. Flushing'
    BY <2>1 DEF Flushing
  <2>3. Alone'
    BY <1>1, <1>3 DEF ShutdownInv, Alone, At
  <2>4. QED
    BY <2>2, <2>3 DEF ShutdownInv
<1>4. QED
  BY <1>2, <1>3 DEF ListKeys

(* The next key: its page, if it is still there. *)
LEMMA FlushGetShutdown ==
  ASSUME TypeOK, ShutdownInv, FlushGet("final")
  PROVE  ShutdownInv'
<1>1. /\ flusher["final"].at = "next" /\ phase = "flushing" /\ phase' = phase
      /\ UNCHANGED <<users, ebooks, cache, progress, request, late>>
      /\ flusher \in [Flushers -> Passes] /\ spent \in [Bounded -> Nat]
  BY TwoFlushers DEF FlushGet, Enabled, store, TypeOK, FlusherTypeOK, ProcessTypeOK
<1>2. Alone'
  BY <1>1 DEF ShutdownInv, Alone, At
<1>3. /\ spent'["fault"] = 0 => spent["fault"] = 0
      /\ FAULT => spent'["fault"] # 0
  BY <1>1, FaultCount DEF FlushGet, FAULT, Bounded
<1>4. PICK p \in flusher["final"].keys :
        LET rest == flusher["final"].keys \ {p} IN
        \/ /\ cache[p] # NoKey
           /\ flusher' = [flusher EXCEPT !["final"] = [at |-> "read", keys |-> rest,
                pair |-> p, page |-> cache[p], status |-> StatusReading]]
        \/ cache[p] = NoKey /\ flusher' = [flusher EXCEPT !["final"].keys = rest]
        \/ FAULT
  BY DEF FlushGet
<1>5. Unflushed' = Unflushed /\ \A q \in Pairs : Stored(q)' <=> Stored(q)
  BY <1>1 DEF Unflushed, Live, Stored
<1>6. spent["fault"] = 0 => \A q \in Unflushed : Stored(q) \/ Listed(q)
  BY <1>1 DEF ShutdownInv, Flushing, InHand
<1>7. CASE /\ cache[p] # NoKey
           /\ flusher' = [flusher EXCEPT !["final"] = [at |-> "read",
                keys |-> flusher["final"].keys \ {p},
                pair |-> p, page |-> cache[p], status |-> StatusReading]]
  <2>1. /\ flusher'["final"].at = "read" /\ flusher'["final"].pair = p
        /\ flusher'["final"].page = cache[p]
        /\ flusher'["final"].keys = flusher["final"].keys \ {p}
    BY <1>1, <1>7, TwoFlushers
  <2>2. InHand(p)' /\ \A q \in Pairs : Listed(q) /\ q # p => Listed(q)'
    BY <1>1, <2>1 DEF InHand, Listed
  <2>3. Current'
    BY <1>1, <2>1 DEF Current
  <2>4. Flushing'
    BY <1>1, <1>3, <1>5, <1>6, <2>2, <2>3 DEF Flushing, Unflushed
  <2>5. QED
    BY <1>2, <2>4 DEF ShutdownInv
<1>8. CASE cache[p] = NoKey /\ flusher' = [flusher EXCEPT !["final"].keys = flusher["final"].keys \ {p}]
  <2>1. flusher'["final"].at = "next" /\ flusher'["final"].keys = flusher["final"].keys \ {p}
    BY <1>1, <1>8, TwoFlushers DEF Passes
  <2>2. \A q \in Unflushed : Listed(q) => Listed(q)'
    BY <1>8, <2>1 DEF Listed, Unflushed
  <2>3. Flushing'
    BY <1>1, <1>3, <1>5, <1>6, <2>1, <2>2 DEF Flushing, Current, Unflushed
  <2>4. QED
    BY <1>2, <2>3 DEF ShutdownInv
<1>9. CASE FAULT
  BY <1>2, <1>3, <1>9 DEF ShutdownInv, Flushing
<1>10. QED
  BY <1>4, <1>7, <1>8, <1>9

(* Reading the row changes neither what FlushAll holds nor what is stored. *)
LEMMA FlushReadRowShutdown ==
  ASSUME TypeOK, ShutdownInv, FlushReadRow("final")
  PROVE  ShutdownInv'
<1>1. /\ flusher["final"].at = "read" /\ phase = "flushing" /\ phase' = phase
      /\ UNCHANGED <<users, ebooks, cache, progress, request, late>>
      /\ flusher \in [Flushers -> Passes] /\ spent \in [Bounded -> Nat]
  BY TwoFlushers DEF FlushReadRow, Enabled, store, TypeOK, FlusherTypeOK, ProcessTypeOK
<1>2. Alone'
  BY <1>1 DEF ShutdownInv, Alone, At
<1>3. spent'["fault"] = 0 => spent["fault"] = 0
  BY <1>1, FaultCount DEF FlushReadRow, FAULT, Bounded
<1>4. /\ flusher'["final"].at = "write" /\ flusher'["final"].pair = flusher["final"].pair
      /\ flusher'["final"].page = flusher["final"].page
      /\ flusher'["final"].keys = flusher["final"].keys
  BY <1>1, TwoFlushers DEF FlushReadRow, Passes
<1>5. Unflushed' = Unflushed
  BY <1>1 DEF Unflushed, Live
<1>6. \A p \in Pairs : Stored(p) \/ InHand(p) \/ Listed(p) => Stored(p)' \/ InHand(p)' \/ Listed(p)'
  BY <1>1, <1>4 DEF Stored, InHand, Listed
<1>7. Flushing'
  BY <1>1, <1>3, <1>4, <1>5, <1>6 DEF ShutdownInv, Flushing, Current, Unflushed
<1>8. QED
  BY <1>2, <1>7 DEF ShutdownInv

(* The page in hand gets to the row of a live pair. *)
LEMMA FlushWriteShutdown ==
  ASSUME TypeOK, ShutdownInv, FlushWrite("final")
  PROVE  ShutdownInv'
<1> DEFINE q == flusher["final"].pair
<1>1. /\ flusher["final"].at = "write" /\ phase = "flushing" /\ phase' = phase
      /\ UNCHANGED <<users, ebooks, cache, request, late>>
      /\ flusher \in [Flushers -> Passes] /\ spent \in [Bounded -> Nat]
      /\ progress \in [Pairs -> Rows \cup {NoRow}] /\ q \in Pairs
  BY TwoFlushers DEF FlushWrite, Enabled, TypeOK, FlusherTypeOK, ProcessTypeOK, StoreTypeOK
<1>2. Alone'
  BY <1>1 DEF ShutdownInv, Alone, At
<1>3. /\ spent'["fault"] = 0 => spent["fault"] = 0
      /\ FAULT => spent'["fault"] # 0
  BY <1>1, FaultCount DEF FlushWrite, FAULT, Bounded
<1>4. /\ flusher'["final"].at = "next" /\ flusher'["final"].keys = flusher["final"].keys
  <2>1. NextKey("final")
    BY <1>1 DEF FlushWrite, Enabled
  <2>2. QED
    BY <1>1, <2>1, TwoFlushers DEF NextKey, Resting
<1>5. Unflushed' = Unflushed
  BY <1>1 DEF Unflushed, Live
<1>6. CASE FAULT
  BY <1>2, <1>3, <1>6 DEF ShutdownInv, Flushing
<1>7. CASE spent["fault"] = 0 /\ Upsert(q, flusher["final"].page, flusher["final"].status)
  <2>1. \A p \in Pairs : p # q => progress'[p] = progress[p]
    BY <1>1, <1>7 DEF Upsert
  <2>2. Live(q) => progress'[q].last_page = flusher["final"].page
    BY <1>1, <1>7 DEF Upsert
  <2>3. cache[q] \in {flusher["final"].page, NoKey}
    BY <1>1, <1>7 DEF ShutdownInv, Flushing, Current
  <2>4. \A p \in Unflushed : Stored(p)' \/ Listed(p)'
    <3>1. SUFFICES ASSUME NEW p \in Unflushed PROVE Stored(p)' \/ Listed(p)'
      OBVIOUS
    <3>2. CASE p = q
      BY <1>1, <2>2, <2>3, <3>2 DEF Unflushed, Stored
    <3>3. CASE p # q
      <4>1. Stored(p) \/ Listed(p)
        BY <1>1, <1>7, <3>3 DEF ShutdownInv, Flushing, InHand
      <4>2. QED
        BY <1>1, <1>4, <2>1, <3>3, <4>1 DEF Unflushed, Stored, Listed
    <3>4. QED
      BY <3>2, <3>3
  <2>5. Flushing'
    BY <1>1, <1>4, <1>5, <2>4 DEF Flushing, Current
  <2>6. QED
    BY <1>2, <2>5 DEF ShutdownInv
<1>8. CASE spent'["fault"] # 0
  BY <1>2, <1>8 DEF ShutdownInv, Flushing
<1>9. QED
  BY <1>3, <1>6, <1>7, <1>8 DEF FlushWrite

(* FlushAll ends when its list is empty: everything is stored. *)
LEMMA EndFlushShutdown ==
  ASSUME TypeOK, ShutdownInv, EndFlush("final")
  PROVE  ShutdownInv'
<1>1. /\ flusher["final"].at = "next" /\ flusher["final"].keys = {}
      /\ phase = "flushing" /\ phase' = "exited"
      /\ UNCHANGED <<users, ebooks, cache, progress, request, late, spent>>
      /\ flusher \in [Flushers -> Passes]
  BY TwoFlushers DEF EndFlush, Enabled, store, TypeOK, FlusherTypeOK
<1>2. flusher'["final"].at = "done"
  BY <1>1, TwoFlushers DEF EndFlush
<1>3. Alone'
  BY <1>1, <1>2 DEF ShutdownInv, Alone, At
<1>4. spent["fault"] = 0 => \A p \in Unflushed : Stored(p)
  BY <1>1 DEF ShutdownInv, Flushing, InHand, Listed
<1>5. Unflushed' = Unflushed /\ \A p \in Pairs : Stored(p)' <=> Stored(p)
  BY <1>1 DEF Unflushed, Live, Stored
<1>6. Flushing'
  BY <1>1, <1>4, <1>5 DEF Flushing, Current, Unflushed
<1>7. QED
  BY <1>3, <1>6 DEF ShutdownInv

(* The signal, the deadline, a crash, a start. *)
LEMMA ProcessShutdown ==
  ASSUME TypeOK, ShutdownInv, Process
  PROVE  ShutdownInv'
<1>0. flusher \in [Flushers -> Passes]
  BY DEF TypeOK, FlusherTypeOK
<1>1. CASE Signal \/ Crash \/ Boot \/ Deadline
  <2>1. phase' \in {"draining", "down", "up", "cutShort"}
    BY <1>1 DEF Signal, Crash, Boot, Deadline
  <2>2. flusher'["final"].at = "done"
    BY <1>0, <1>1, TwoFlushers DEF Signal, Crash, Boot, Deadline, ShutdownInv, Alone
  <2>3. phase' \in {"down", "cutShort"} => \A s \in Slots : At(s, "done")'
    BY <1>1 DEF Signal, Crash, Boot, Deadline, At, Idle
  <2>4. Alone' /\ Flushing'
    BY <2>1, <2>2, <2>3, Elsewhere DEF Alone
  <2>5. QED
    BY <2>4 DEF ShutdownInv
<1>2. CASE WriteCancelled
  <2>1. /\ UNCHANGED <<users, ebooks, cache, progress, request, late, spent, phase>>
        /\ flusher'["final"] = flusher["final"]
    BY <1>0, <1>2, TwoFlushers DEF WriteCancelled, store
  <2>2. Unflushed' = Unflushed
    BY <2>1 DEF Unflushed, Live
  <2>3. Flushing'
    BY <2>1, <2>2, Beside DEF ShutdownInv
  <2>4. Alone'
    BY <2>1 DEF ShutdownInv, Alone, At
  <2>5. QED
    BY <2>3, <2>4 DEF ShutdownInv
<1>3. CASE Drained
  <2>1. /\ phase = "draining" /\ phase' = "flushing" /\ UNCHANGED <<request, flusher>>
        /\ \A s \in Slots : At(s, "done")
    BY <1>3 DEF Drained
  <2>2. flusher'["final"].at = "done"
    BY <2>1 DEF ShutdownInv, Alone
  <2>3. Alone' /\ Flushing'
    BY <2>1, <2>2 DEF Alone, Flushing, Current, At
  <2>4. QED
    BY <2>3 DEF ShutdownInv
<1>4. QED
  BY <1>1, <1>2, <1>3 DEF Process

(* Keys and rows only vanish; a row does with its reader or its book. *)
LEMMA StoresShutdown ==
  ASSUME TypeOK, ShutdownInv, Stores
  PROVE  ShutdownInv'
<1>1. UNCHANGED <<request, flusher, phase, late>>
  BY DEF Stores, Expire, LoseCache, DeleteEbook, DeleteUser
<1>2. spent'["fault"] = 0 => spent["fault"] = 0
  BY FaultCount DEF Stores, Expire, LoseCache, DeleteEbook, DeleteUser, Fine, Bounded,
     TypeOK, ProcessTypeOK
<1>3. users' \subseteq users /\ ebooks' \subseteq ebooks
  BY DEF Stores, Expire, LoseCache, DeleteEbook, DeleteUser
<1>4. \A p \in Pairs : cache'[p] \in {cache[p], NoKey}
  BY DEF Stores, Expire, LoseCache, DeleteEbook, DeleteUser, TypeOK, StoreTypeOK
<1>5. \A p \in Pairs : Live(p)' => Live(p) /\ progress'[p] = progress[p]
  <2>1. CASE Expire \/ LoseCache
    BY <2>1 DEF Expire, LoseCache, Live
  <2>2. CASE DeleteEbook
    BY <2>2 DEF DeleteEbook, Cascade, Live, Pairs
  <2>3. CASE DeleteUser
    BY <2>3 DEF DeleteUser, Cascade, Live, Pairs
  <2>4. QED
    BY <2>1, <2>2, <2>3 DEF Stores
<1>6. \A p \in Pairs : p \in Unflushed' => p \in Unflushed /\ progress'[p] = progress[p]
  BY <1>1, <1>4, <1>5 DEF Unflushed
<1>7. Flushing'
  BY <1>1, <1>2, <1>4, <1>6, Beside DEF ShutdownInv
<1>8. Alone'
  BY <1>1 DEF ShutdownInv, Alone, At
<1>9. QED
  BY <1>7, <1>8 DEF ShutdownInv

(* A shutdown that beats its deadline leaves every cached page of a live   *)
(* pair in the database, unless a call failed or a write of the cancelled  *)
(* ticker arrived after the final one.                                     *)
THEOREM GracefulExitLeavesNothing == Spec => []GracefulExitFlushes
<1>1. Init => ShutdownInv
  BY TwoFlushers DEF Init, ShutdownInv, Alone, Flushing, Current
<1>2. TypeOK /\ ShutdownInv /\ [Next]_vars => ShutdownInv'
  <2> SUFFICES ASSUME TypeOK, ShutdownInv, [Next]_vars PROVE ShutdownInv'
    OBVIOUS
  <2>1. CASE UNCHANGED vars
    BY <2>1 DEF vars, ShutdownInv, Alone, Flushing, Current, Unflushed, Stored, InHand,
       Listed, Live, At
  <2>2. ASSUME NEW f \in Flushers, FlushStep(f) PROVE ShutdownInv'
    <3>1. CASE f = "ticker"
      BY <2>2, <3>1, TickerShutdown
    <3>2. CASE f = "final"
      BY <2>2, <3>2, ListKeysShutdown, FlushGetShutdown, FlushReadRowShutdown,
         FlushWriteShutdown, EndFlushShutdown DEF FlushStep
    <3>3. QED
      BY <3>1, <3>2, TwoFlushers
  <2>3. QED
    BY <2>1, <2>2, HandlerShutdown, ProcessShutdown, StoresShutdown DEF Next
<1>3. ShutdownInv => GracefulExitFlushes
  BY DEF ShutdownInv, Flushing, Unflushed, Stored, GracefulExitFlushes
<1>4. QED
  BY <1>1, <1>2, <1>3, TypeCorrect, PTL DEF Spec

-----------------------------------------------------------------------------
(* ReadingService implements Bookshelf, for any readers, ebooks, page      *)
(* counts, number of slots and bounds, when no two requests of a pair      *)
(* overlap and Redis keeps its data.                                       *)

-----------------------------------------------------------------------------
(* Steps of the shelf, from what happens to one pair. *)

Wanted(p) == IF Turning(p) = {} THEN 0 ELSE request[CHOOSE s \in Turning(p) : TRUE].page

SameBooks == LivePairs' = LivePairs /\ totalPages' = totalPages

(* Where no position and no wish changes, the shelf rests. *)
LEMMA ShelfRests ==
  ASSUME SameBooks, \A p \in LivePairs : Position(p)' = Position(p) /\ Wanted(p)' = Wanted(p)
  PROVE  UNCHANGED Shelf!vars
BY DEF Shelf!vars, SameBooks, Wanted

(* A reader who wanted nothing now wants page n. *)
LEMMA ShelfAsks ==
  ASSUME SameBooks, NEW p \in LivePairs, NEW n \in 1..MaxPage,
         Wanted(p) = 0, Wanted(p)' = n,
         \A q \in LivePairs : Position(q)' = Position(q) /\ (q # p => Wanted(q)' = Wanted(q))
  PROVE  Shelf!Next
<1> DEFINE Wants == [q \in LivePairs |-> Wanted(q)]
           Places == [q \in LivePairs |-> Position(q)]
<1>a. Wants[p] = 0
  OBVIOUS
<1>b. Wants' = [Wants EXCEPT ![p] = n]
  BY DEF SameBooks
<1>c. Places' = Places
  BY DEF SameBooks
<1>1. Shelf!Ask(p, n)
  BY <1>a, <1>b, <1>c DEF Shelf!Ask, SameBooks, Wanted
<1>2. p \in Shelf!Books
  BY DEF Shelf!Books
<1>3. QED
  BY <1>1, <1>2 DEF Shelf!Next

(* A position moves to the page wanted, within the book. *)
LEMMA ShelfTurns ==
  ASSUME SameBooks, NEW p \in LivePairs, Wanted(p) # 0,
         Position(p)' = Shelf!Within(p, Wanted(p)), Wanted(p)' = 0,
         \A q \in LivePairs : q # p => Position(q)' = Position(q) /\ Wanted(q)' = Wanted(q)
  PROVE  Shelf!Next
<1>1. Shelf!Turn(p)
  BY DEF Shelf!Turn, SameBooks, Wanted
<1>2. p \in Shelf!Books
  BY DEF Shelf!Books
<1>3. QED
  BY <1>1, <1>2 DEF Shelf!Next

(* A wish is cut down to the pages of the book. *)
LEMMA ShelfChecks ==
  ASSUME SameBooks, NEW p \in LivePairs, Wanted(p) # 0,
         Wanted(p)' = Shelf!Within(p, Wanted(p)),
         \A q \in LivePairs : Position(q)' = Position(q) /\ (q # p => Wanted(q)' = Wanted(q))
  PROVE  Shelf!Next
<1>1. Shelf!Check(p)
  BY DEF Shelf!Check, SameBooks, Wanted
<1>2. p \in Shelf!Books
  BY DEF Shelf!Books
<1>3. QED
  BY <1>1, <1>2 DEF Shelf!Next

(* Some wishes vanish; no position moves. *)
LEMMA ShelfDrops ==
  ASSUME SameBooks, NEW some \in SUBSET LivePairs,
         \A q \in LivePairs : Position(q)' = Position(q)
                              /\ Wanted(q)' = IF q \in some THEN 0 ELSE Wanted(q)
  PROVE  Shelf!Next
<1>1. Shelf!Drop(some)
  BY DEF Shelf!Drop, Shelf!Books, SameBooks, Wanted
<1>2. some \in SUBSET Shelf!Books
  BY DEF Shelf!Books
<1>3. QED
  BY <1>1, <1>2 DEF Shelf!Next

(* Books vanish; the others keep position and wish. *)
LEMMA ShelfRemoves ==
  ASSUME LivePairs' \subseteq LivePairs, totalPages' = totalPages,
         \A q \in LivePairs' : Position(q)' = Position(q) /\ Wanted(q)' = Wanted(q)
  PROVE  Shelf!Next
<1> DEFINE gone == LivePairs \ LivePairs'
<1>1. Shelf!Books \ gone = LivePairs'
  BY DEF Shelf!Books
<1>2. Shelf!Remove(gone)
  BY <1>1 DEF Shelf!Remove, Wanted
<1>3. gone \in SUBSET Shelf!Books
  BY DEF Shelf!Books
<1>4. QED
  BY <1>2, <1>3 DEF Shelf!Next

-----------------------------------------------------------------------------
(* Why the copies that are not the newest are invisible. *)

(* No two requests are about the same pair. *)
OnePerPair == \A s, t \in Slots : s # t /\ Pair(s) \in Pairs => Pair(t) # Pair(s)

LabelOK(r) ==
  /\ r.at # "done"
  /\ r.op = "UpdateProgress" => r.at \in {"findEbook", "storePage"}
  /\ r.at = "storePage" => r.op = "UpdateProgress"
  /\ r.at = "createRow" => r.page = 1
  /\ r.at = "logOpen" => r.op = "OpenBook"

Labels == \A s \in Slots : IF At(s, "done") THEN Pair(s) = NoPair ELSE LabelOK(request[s])

(* A request that holds a page read or found for its pair, *)
Holds(s) == \/ At(s, "fillCache") \/ At(s, "saveStatus") \/ At(s, "createRow")
            \/ request[s].op = "OpenBook" /\ At(s, "readCache")

(* and one that knows the key was not there. *)
Missed(s) == At(s, "fillCache") \/ (At(s, "readRow") /\ request[s].op # "OpenBook")

(* Where there is no key, everybody who holds a page holds the reader's;   *)
(* a key that was missed is still missing.                                 *)
HandsRight(p) ==
  Live(p) /\ cache[p] = NoKey =>
    /\ \A f \in Flushers : flusher[f].at \in {"read", "write"} /\ flusher[f].pair = p
         => flusher[f].page = Position(p)
    /\ \A s \in Slots : Pair(s) = p /\ Holds(s) => request[s].page = Position(p)

Copied ==
  /\ \A p \in Pairs : HandsRight(p)
  /\ \A s \in Slots : Missed(s) => cache[Pair(s)] = NoKey

CopiesInv == OnePerPair /\ Labels /\ (Unharmed => Copied)

(* A handler's step ends its request or moves it to a label that fits. *)
Goes(s) == Ended(s) \/ \E label, page : Moved(s, label, page) /\ LabelOK(request'[s])

Fits(s, label, page) ==
  /\ label # "done"
  /\ request[s].op = "UpdateProgress" <=> label = "storePage"
  /\ label = "createRow" => page = 1
  /\ label = "logOpen" => request[s].op = "OpenBook"

(* A request that ends or moves to a fitting label goes on well. *)
LEMMA GoesOn ==
  ASSUME TypeOK, NEW s \in Slots
  PROVE  /\ Reply(s) => Goes(s)
         /\ \A label : Goto(s, label) /\ Fits(s, label, request[s].page) => Goes(s)
         /\ \A label, page : GotoWith(s, label, page) /\ Fits(s, label, page) => Goes(s)
<1>1. \A label, page : Moved(s, label, page) /\ Fits(s, label, page) => LabelOK(request'[s])
  BY DEF Moved, Fits, LabelOK
<1>2. QED
  BY <1>1, Shapes DEF Goes

(* Every step of a handler goes to a label that fits its operation. *)
LEMMA HandlerGoes ==
  ASSUME TypeOK, Labels, NEW s \in Slots, Handler(s)
  PROVE  Goes(s) /\ ~At(s, "done") /\ flusher' = flusher
<1>1. ~At(s, "done") /\ flusher' = flusher
  BY DEF Handler, FindEbook, LogOpen, OpenReadRow, CreateRow, ReadCache,
     ProgressReadRow, FillCache, SaveStatus, StorePage, At
<1> SUFFICES Goes(s)
  BY <1>1
<1>2. LabelOK(request[s])
  BY <1>1 DEF Labels
<1>3. CASE FindEbook(s)
  <2>1. \/ Reply(s)
        \/ request[s].op = "UpdateProgress" /\ \E page : GotoWith(s, "storePage", page)
        \/ request[s].op # "UpdateProgress" /\ Goto(s, AfterFind[request[s].op])
    BY <1>3 DEF FindEbook
  <2>2. request[s].op \in {"OpenBook", "SetStatus", "UpdateProgress"}
    BY <1>3 DEF FindEbook, At, TypeOK, RequestTypeOK, Requests, Operations
  <2>3. request[s].op # "UpdateProgress" =>
          /\ AfterFind[request[s].op] \in {"logOpen", "readCache"}
          /\ AfterFind[request[s].op] = "logOpen" => request[s].op = "OpenBook"
    BY <2>2 DEF AfterFind
  <2>4. QED
    BY <2>1, <2>3, GoesOn DEF Fits
<1>4. CASE LogOpen(s)
  BY <1>2, <1>4, GoesOn DEF LogOpen, Fits, LabelOK, At
<1>5. CASE OpenReadRow(s)
  <2>1. request[s].op = "OpenBook"
        /\ (\/ \E page : GotoWith(s, "readCache", page)
            \/ GotoWith(s, "createRow", 1))
    BY <1>5 DEF OpenReadRow
  <2>2. QED
    BY <2>1, GoesOn DEF Fits
<1>6. CASE CreateRow(s)
  BY <1>2, <1>6, GoesOn DEF CreateRow, Fits, LabelOK, At
<1>7. CASE ReadCache(s)
  <2>1. \/ Reply(s) \/ \E page : GotoWith(s, "saveStatus", page)
        \/ Goto(s, "fillCache") \/ Goto(s, "readRow")
    BY <1>7 DEF ReadCache
  <2>2. request[s].op # "UpdateProgress"
    BY <1>2, <1>7 DEF ReadCache, At, LabelOK
  <2>3. QED
    BY <2>1, <2>2, GoesOn DEF Fits
<1>8. CASE ProgressReadRow(s)
  <2>1. \/ Reply(s) \/ \E page : GotoWith(s, "saveStatus", page)
        \/ \E page : GotoWith(s, "fillCache", page)
    BY <1>8 DEF ProgressReadRow
  <2>2. request[s].op # "UpdateProgress"
    BY <1>8 DEF ProgressReadRow
  <2>3. QED
    BY <2>1, <2>2, GoesOn DEF Fits
<1>9. CASE FillCache(s)
  <2>1. Reply(s) \/ (request[s].op = "SetStatus" /\ Goto(s, "saveStatus"))
    BY <1>9 DEF FillCache
  <2>2. QED
    BY <2>1, GoesOn DEF Fits
<1>10. CASE SaveStatus(s) \/ StorePage(s)
  BY <1>10, GoesOn DEF SaveStatus, StorePage
<1>11. QED
  BY <1>1, <1>3, <1>4, <1>5, <1>6, <1>7, <1>8, <1>9, <1>10 DEF Handler

(* What a request that goes on leaves of the order among requests. *)
LEMMA GoesKeepsOrder ==
  ASSUME TypeOK, OnePerPair, Labels, NEW s \in Slots, Goes(s)
  PROVE  OnePerPair' /\ Labels'
<1>1. request'[s].pair \in {Pair(s), NoPair} /\ \A t \in Slots : t # s => request'[t] = request[t]
  BY PairFacts DEF Goes, Ended, Moved, Frame, Pair
<1>2. OnePerPair'
  BY <1>1, PairFacts DEF OnePerPair, Pair
<1>3. IF request'[s].at = "done" THEN request'[s].pair = NoPair ELSE LabelOK(request'[s])
  BY PairFacts DEF Goes, Ended, LabelOK
<1>4. Labels'
  BY <1>1, <1>3 DEF Labels, At, Pair, LabelOK
<1>5. QED
  BY <1>2, <1>4

-----------------------------------------------------------------------------
(* The copies under the steps of requests. *)

(* A step of request s, about pair p, that leaves the hands right. *)
HandData(s, p) ==
  /\ UNCHANGED <<users, ebooks, totalPages>>
  /\ \A q \in Pairs : q # p => cache'[q] = cache[q] /\ progress'[q] = progress[q]
  /\ cache'[p] = NoKey => cache[p] = NoKey
  /\ Live(p) /\ cache'[p] = NoKey /\ Holds(s)' => request'[s].page = Position(p)'
  /\ Missed(s)' => cache'[p] = NoKey
  /\ Live(p) /\ ~At(s, "storePage") => Position(p)' = Position(p)

(* A run unharmed so far was so before. *)
LEMMA HarmCount ==
  ASSUME spent \in [Bounded -> Nat], Fine \/ \E b \in Bounded : Spend(b)
  PROVE  /\ Unharmed' => Unharmed
         /\ FAULT \/ Spend("loss") => ~Unharmed'
BY DEF Fine, FAULT, Spend, Bounded, Unharmed

(* Without a failed call so far, no call has failed before either. *)
LEMMA NoFault ==
  ASSUME TypeOK, CopiesInv, Fine \/ FAULT, Unharmed'
  PROVE  Unharmed /\ ~FAULT /\ Copied
BY HarmCount DEF FAULT, Bounded, TypeOK, ProcessTypeOK, CopiesInv

(* A slot at rest holds no page and has missed no key. *)
LEMMA IdleHolds ==
  ASSUME NEW s \in Slots, request'[s] = Idle
  PROVE  ~Holds(s)' /\ ~Missed(s)'
BY DEF Idle, Holds, Missed, At

(* Steps that write nothing the position is made of. *)
LEMMA SamePlaces ==
  ASSUME cache' = cache, progress' = progress
  PROVE  \A p : Position(p)' = Position(p)
BY DEF Position

(* What a moved request holds depends on where it is. *)
LEMMA MovedHolds ==
  ASSUME NEW s \in Slots, NEW label, NEW page, Moved(s, label, page)
  PROVE  /\ Holds(s)' => \/ label \in {"fillCache", "saveStatus", "createRow"}
                         \/ label = "readCache" /\ request[s].op = "OpenBook"
         /\ Missed(s)' => \/ label = "fillCache"
                          \/ label = "readRow" /\ request[s].op # "OpenBook"
         /\ request'[s].page = page
BY DEF Moved, Holds, Missed, At

(* Looking the ebook up moves no page. *)
LEMMA FindEbookData ==
  ASSUME TypeOK, CopiesInv, NEW s \in Slots, NEW p \in Pairs, Pair(s) = p,
         Unharmed', FindEbook(s)
  PROVE  HandData(s, p)
<1>1. UNCHANGED <<users, ebooks, totalPages, cache, progress>>
  BY DEF FindEbook, store
<1>2. \/ Reply(s) \/ \E page : GotoWith(s, "storePage", page)
      \/ request[s].op # "UpdateProgress" /\ Goto(s, AfterFind[request[s].op])
  BY DEF FindEbook
<1>3. request[s].op # "UpdateProgress" =>
        \/ request[s].op = "OpenBook" /\ AfterFind[request[s].op] = "logOpen"
        \/ request[s].op = "SetStatus" /\ AfterFind[request[s].op] = "readCache"
  BY DEF FindEbook, At, TypeOK, RequestTypeOK, Requests, Operations, AfterFind
<1>4. ~Holds(s)' /\ ~Missed(s)'
  <2>1. CASE Reply(s)
    BY <2>1, Shapes, IdleHolds DEF Ended
  <2>2. ASSUME NEW page, GotoWith(s, "storePage", page) PROVE ~Holds(s)' /\ ~Missed(s)'
    <3>1. Moved(s, "storePage", page)
      BY <2>2, Shapes
    <3>2. QED
      BY <3>1, MovedHolds
  <2>3. CASE request[s].op # "UpdateProgress" /\ Goto(s, AfterFind[request[s].op])
    <3>1. Moved(s, AfterFind[request[s].op], request[s].page)
      BY <2>3, Shapes
    <3>2. QED
      BY <1>3, <2>3, <3>1 DEF Moved, Holds, Missed, At
  <2>4. QED
    BY <1>2, <2>1, <2>2, <2>3
<1>5. QED
  BY <1>1, <1>4, SamePlaces DEF HandData

(* The history row moves no page. *)
LEMMA LogOpenData ==
  ASSUME TypeOK, CopiesInv, NEW s \in Slots, NEW p \in Pairs, Pair(s) = p,
         Unharmed', LogOpen(s)
  PROVE  HandData(s, p)
<1>1. UNCHANGED <<users, ebooks, totalPages, cache, progress>>
  BY DEF LogOpen
<1>2. Moved(s, "readRow", request[s].page)
  BY Shapes DEF LogOpen
<1>3. request[s].op = "OpenBook"
  BY DEF LogOpen, CopiesInv, Labels, LabelOK, At
<1>4. ~Holds(s)' /\ ~Missed(s)'
  BY <1>2, <1>3, MovedHolds
<1>5. QED
  BY <1>1, <1>4, SamePlaces DEF HandData

(* OpenBook holds the page of the row, or the first one. *)
LEMMA OpenReadRowData ==
  ASSUME TypeOK, CopiesInv, NEW s \in Slots, NEW p \in Pairs, Pair(s) = p,
         Unharmed', OpenReadRow(s)
  PROVE  HandData(s, p)
<1>1. UNCHANGED <<users, ebooks, totalPages, cache, progress>>
  BY DEF OpenReadRow, store
<1>2. ~FAULT
  BY NoFault DEF OpenReadRow
<1>3. PICK label, page :
        /\ label \in {"readCache", "createRow"}
        /\ GotoWith(s, label, page)
        /\ page = IF progress[p] # NoRow THEN progress[p].last_page ELSE 1
  BY <1>2 DEF OpenReadRow
<1>4. Moved(s, label, page)
  BY <1>3, Shapes
<1>5. cache'[p] = NoKey => request'[s].page = Position(p)'
  BY <1>1, <1>3, <1>4 DEF Moved, Position
<1>6. ~Missed(s)'
  BY <1>3, <1>4, MovedHolds
<1>7. QED
  BY <1>1, <1>5, <1>6, SamePlaces DEF HandData

(* The row made for a new reader says what they hold, the first page. *)
LEMMA CreateRowData ==
  ASSUME TypeOK, CopiesInv, NEW s \in Slots, NEW p \in Pairs, Pair(s) = p,
         Unharmed', CreateRow(s)
  PROVE  HandData(s, p)
<1>1. UNCHANGED <<users, ebooks, totalPages, cache>>
  BY DEF CreateRow
<1>2. ~FAULT /\ Copied
  BY NoFault DEF CreateRow
<1>3. Upsert(p, 1, StatusReading) /\ At(s, "createRow")
  BY <1>2 DEF CreateRow
<1>4. Moved(s, "readCache", request[s].page)
  BY Shapes DEF CreateRow
<1>5. request[s].page = 1
  BY <1>3 DEF CopiesInv, Labels, LabelOK, At
<1>6. Live(p) /\ cache[p] = NoKey => Position(p) = 1
  BY <1>2, <1>3, <1>5 DEF Copied, HandsRight, Holds
<1>7. /\ \A q \in Pairs : q # p => progress'[q] = progress[q]
      /\ Live(p) => progress'[p].last_page = 1 /\ progress'[p] # NoRow
  BY <1>3 DEF Upsert, NoRow, TypeOK, StoreTypeOK
<1>8. Live(p) => Position(p)' = Position(p)
  BY <1>1, <1>6, <1>7 DEF Position
<1>9. Live(p) /\ cache'[p] = NoKey => request'[s].page = Position(p)'
  BY <1>1, <1>4, <1>5, <1>6, <1>8 DEF Moved
<1>10. ~Missed(s)'
  BY <1>4, MovedHolds
<1>11. QED
  BY <1>1, <1>7, <1>8, <1>9, <1>10 DEF HandData

(* A miss is a miss; OpenBook then holds what it held. *)
LEMMA ReadCacheData ==
  ASSUME TypeOK, CopiesInv, NEW s \in Slots, NEW p \in Pairs, Pair(s) = p,
         Unharmed', ReadCache(s)
  PROVE  HandData(s, p)
<1>1. UNCHANGED <<users, ebooks, totalPages, cache, progress>>
  BY DEF ReadCache, store
<1>2. ~FAULT /\ Copied
  BY NoFault DEF ReadCache
<1>3. \/ Reply(s)
      \/ cache[p] # NoKey /\ \E page : GotoWith(s, "saveStatus", page)
      \/ cache[p] = NoKey /\ request[s].op = "OpenBook" /\ Goto(s, "fillCache")
      \/ cache[p] = NoKey /\ request[s].op # "OpenBook" /\ Goto(s, "readRow")
  BY <1>2 DEF ReadCache
<1>4. Missed(s)' => cache'[p] = NoKey
  <2>1. CASE Reply(s)
    BY <2>1, Shapes, IdleHolds DEF Ended
  <2>2. ASSUME NEW page, GotoWith(s, "saveStatus", page) PROVE ~Missed(s)'
    <3>1. Moved(s, "saveStatus", page)
      BY <2>2, Shapes
    <3>2. QED
      BY <3>1, MovedHolds
  <2>3. QED
    BY <1>1, <1>3, <2>1, <2>2
<1>5. Live(p) /\ cache'[p] = NoKey /\ Holds(s)' => request'[s].page = Position(p)'
  <2>1. SUFFICES ASSUME Live(p), cache[p] = NoKey, Holds(s)'
                 PROVE  request'[s].page = Position(p)
    BY <1>1, SamePlaces
  <2>2. ~Reply(s)
    BY <2>1, Shapes, IdleHolds DEF Ended
  <2>3. ~Goto(s, "readRow")
    <3>1. SUFFICES ASSUME Goto(s, "readRow") PROVE FALSE
      OBVIOUS
    <3>2. Moved(s, "readRow", request[s].page)
      BY <3>1, Shapes
    <3>3. QED
      BY <2>1, <3>2, MovedHolds
  <2>4. request[s].op = "OpenBook" /\ Moved(s, "fillCache", request[s].page)
    BY <1>3, <2>1, <2>2, <2>3, Shapes
  <2>5. Holds(s)
    BY <2>4 DEF ReadCache, Holds
  <2>6. request[s].page = Position(p)
    BY <1>2, <2>1, <2>5 DEF Copied, HandsRight
  <2>7. QED
    BY <2>4, <2>6 DEF Moved
<1>6. QED
  BY <1>1, <1>4, <1>5, SamePlaces DEF HandData

(* After a miss the row's page is the reader's, or the first one is. *)
LEMMA ProgressReadRowData ==
  ASSUME TypeOK, CopiesInv, NEW s \in Slots, NEW p \in Pairs, Pair(s) = p,
         Unharmed', ProgressReadRow(s)
  PROVE  HandData(s, p)
<1>1. UNCHANGED <<users, ebooks, totalPages, cache, progress>>
  BY DEF ProgressReadRow, store
<1>2. ~FAULT /\ Copied
  BY NoFault DEF ProgressReadRow
<1>3. cache[p] = NoKey
  BY <1>2 DEF ProgressReadRow, Copied, Missed
<1>4. \/ Reply(s)
      \/ \E label \in {"fillCache", "saveStatus"} : GotoWith(s, label, Position(p))
  BY <1>2, <1>3 DEF ProgressReadRow, Position
<1>5. Holds(s)' => request'[s].page = Position(p)'
  <2>1. CASE Reply(s)
    BY <2>1, Shapes, IdleHolds DEF Ended
  <2>2. ASSUME NEW label \in {"fillCache", "saveStatus"}, GotoWith(s, label, Position(p))
        PROVE  request'[s].page = Position(p)'
    <3>1. Moved(s, label, Position(p))
      BY <2>2, Shapes
    <3>2. QED
      BY <1>1, <3>1, SamePlaces DEF Moved
  <2>3. QED
    BY <1>4, <2>1, <2>2
<1>6. QED
  BY <1>1, <1>3, <1>5, SamePlaces DEF HandData

(* The page filled in is the reader's. *)
LEMMA FillCacheData ==
  ASSUME TypeOK, CopiesInv, NEW s \in Slots, NEW p \in Pairs, Pair(s) = p,
         Unharmed', FillCache(s)
  PROVE  HandData(s, p)
<1>1. UNCHANGED <<users, ebooks, totalPages, progress>>
  BY DEF FillCache
<1>2. ~FAULT /\ Copied
  BY NoFault DEF FillCache
<1>3. cache' = [cache EXCEPT ![p] = request[s].page] /\ At(s, "fillCache")
  BY <1>2 DEF FillCache
<1>4. /\ cache'[p] = request[s].page /\ request[s].page # NoKey
      /\ \A q \in Pairs : q # p => cache'[q] = cache[q]
  BY <1>3, PairFacts DEF TypeOK, StoreTypeOK, NoKey, At
<1>5. cache[p] = NoKey
  BY <1>2, <1>3 DEF Copied, Missed
<1>6. Live(p) => Position(p)' = Position(p)
  <2>1. Live(p) => request[s].page = Position(p)
    BY <1>2, <1>3, <1>5 DEF Copied, HandsRight, Holds
  <2>2. QED
    BY <1>4, <2>1 DEF Position
<1>7. ~Missed(s)'
  <2>1. CASE Reply(s)
    BY <2>1, Shapes, IdleHolds DEF Ended
  <2>2. CASE Goto(s, "saveStatus")
    <3>1. Moved(s, "saveStatus", request[s].page)
      BY <2>2, Shapes
    <3>2. QED
      BY <3>1, MovedHolds
  <2>3. QED
    BY <2>1, <2>2 DEF FillCache
<1>8. QED
  BY <1>1, <1>4, <1>6, <1>7 DEF HandData

(* SetStatus writes the page it holds: the reader's, or one the key hides. *)
LEMMA SaveStatusData ==
  ASSUME TypeOK, CopiesInv, NEW s \in Slots, NEW p \in Pairs, Pair(s) = p,
         Unharmed', SaveStatus(s)
  PROVE  HandData(s, p)
<1>1. UNCHANGED <<users, ebooks, totalPages, cache>>
  BY DEF SaveStatus
<1>2. ~FAULT /\ Copied
  BY NoFault DEF SaveStatus
<1>3. Upsert(p, request[s].page, request[s].status) /\ At(s, "saveStatus")
  BY <1>2 DEF SaveStatus, Pair
<1>4. request[s].page > 0
  BY <1>3, PairFacts DEF At
<1>5. /\ \A q \in Pairs : q # p => progress'[q] = progress[q]
      /\ Live(p) => progress'[p].last_page = request[s].page /\ progress'[p] # NoRow
  BY <1>3, <1>4 DEF Upsert, NoRow, TypeOK, StoreTypeOK
<1>6. Live(p) /\ cache[p] = NoKey => request[s].page = Position(p)
  BY <1>2, <1>3 DEF Copied, HandsRight, Holds
<1>7. Live(p) => Position(p)' = Position(p)
  BY <1>1, <1>5, <1>6 DEF Position
<1>8. ~Holds(s)' /\ ~Missed(s)'
  BY Shapes, IdleHolds DEF SaveStatus, Ended
<1>9. QED
  BY <1>1, <1>5, <1>7, <1>8 DEF HandData

(* The page turned to becomes the position, in the cache. *)
LEMMA StorePageData ==
  ASSUME TypeOK, CopiesInv, NEW s \in Slots, NEW p \in Pairs, Pair(s) = p,
         Unharmed', StorePage(s)
  PROVE  HandData(s, p) /\ Position(p)' = request[s].page
<1>1. UNCHANGED <<users, ebooks, totalPages, progress>>
  BY DEF StorePage
<1>2. ~FAULT
  BY NoFault DEF StorePage
<1>3. cache' = [cache EXCEPT ![p] = request[s].page] /\ At(s, "storePage")
  BY <1>2 DEF StorePage
<1>4. /\ cache'[p] = request[s].page /\ request[s].page # NoKey
      /\ \A q \in Pairs : q # p => cache'[q] = cache[q]
  BY <1>3, PairFacts DEF TypeOK, StoreTypeOK, NoKey, At
<1>5. ~Holds(s)' /\ ~Missed(s)'
  BY Shapes, IdleHolds DEF StorePage, Ended
<1>6. QED
  BY <1>1, <1>3, <1>4, <1>5 DEF HandData, Position

(* Each step of a handler keeps the copies of its pair in line. *)
LEMMA HandlerData ==
  ASSUME TypeOK, CopiesInv, NEW s \in Slots, NEW p \in Pairs, Pair(s) = p,
         Unharmed', Handler(s)
  PROVE  HandData(s, p)
BY FindEbookData, LogOpenData, OpenReadRowData, CreateRowData, ReadCacheData,
   ProgressReadRowData, FillCacheData, SaveStatusData, StorePageData DEF Handler

(* Right hands stay right. *)
LEMMA HandDataKeeps ==
  ASSUME TypeOK, CopiesInv, NEW s \in Slots, NEW p \in Pairs, Pair(s) = p,
         HandData(s, p), Goes(s), flusher' = flusher, Copied,
         At(s, "storePage") => cache'[p] # NoKey
  PROVE  Copied'
<1>1. \A q \in Pairs : q # p => Position(q)' = Position(q) /\ cache'[q] = cache[q]
  BY DEF HandData, Position
<1>2. \A q \in Pairs : Live(q)' <=> Live(q)
  BY DEF HandData, Live
<1>3. request'[s].pair \in {p, NoPair} /\ \A t \in Slots : t # s => request'[t] = request[t]
  BY PairFacts DEF Goes, Ended, Moved, Frame, Pair
<1>4. \A t \in Slots : t # s => (Holds(t)' <=> Holds(t)) /\ (Missed(t)' <=> Missed(t))
  BY <1>3 DEF Holds, Missed, At
<1>5. \A t \in Slots : t # s => Pair(t) # p
  BY DEF CopiesInv, OnePerPair
<1>6. ASSUME NEW q \in Pairs, q # p PROVE HandsRight(q)'
  <2>1. HandsRight(q)
    BY DEF Copied
  <2>2. request'[s].pair # q
    BY <1>3, <1>6, PairFacts
  <2>3. QED
    BY <1>1, <1>2, <1>3, <1>4, <1>6, <2>1, <2>2 DEF HandsRight, Pair
<1>7. HandsRight(p)'
  <2>1. SUFFICES ASSUME Live(p), cache'[p] = NoKey
                 PROVE  /\ \A f \in Flushers : flusher'[f].at \in {"read", "write"} /\ flusher'[f].pair = p
                             => flusher'[f].page = Position(p)'
                        /\ \A t \in Slots : request'[t].pair = p /\ Holds(t)' => request'[t].page = Position(p)'
    BY <1>2 DEF HandsRight, Pair
  <2>2. cache[p] = NoKey /\ Position(p)' = Position(p)
    BY <2>1 DEF HandData
  <2>3. HandsRight(p)
    BY DEF Copied
  <2>4. \A f \in Flushers : flusher'[f].at \in {"read", "write"} /\ flusher'[f].pair = p
          => flusher'[f].page = Position(p)'
    BY <2>1, <2>2, <2>3 DEF HandsRight
  <2>5. ASSUME NEW t \in Slots, request'[t].pair = p, Holds(t)'
        PROVE  request'[t].page = Position(p)'
    <3>1. t = s
      BY <1>3, <1>5, <2>5 DEF Pair
    <3>2. QED
      BY <2>1, <2>5, <3>1 DEF HandData
  <2>6. QED
    BY <2>4, <2>5
<1>8. ASSUME NEW t \in Slots, Missed(t)' PROVE cache'[request'[t].pair] = NoKey
  <2>1. CASE t = s
    <3>1. request'[s] # Idle
      BY <1>8, <2>1, IdleHolds
    <3>2. request'[s].pair = p
      BY <3>1 DEF Goes, Ended, Moved, Pair
    <3>3. QED
      BY <1>8, <2>1, <3>2 DEF HandData
  <2>2. CASE t # s
    <3>1. Missed(t) /\ request'[t] = request[t]
      BY <1>3, <1>4, <1>8, <2>2
    <3>2. Pair(t) \in Pairs
      BY <3>1, PairFacts DEF Missed, At
    <3>3. cache[Pair(t)] = NoKey
      BY <3>1 DEF Copied
    <3>4. QED
      BY <1>1, <1>5, <2>2, <3>1, <3>2, <3>3 DEF Pair
  <2>3. QED
    BY <2>1, <2>2
<1>9. QED
  BY <1>6, <1>7, <1>8 DEF Copied, Pair

(* So every step of a handler keeps the invariant. *)
LEMMA HandlerCopies ==
  ASSUME TypeOK, CopiesInv, NEW s \in Slots, Handler(s)
  PROVE  CopiesInv'
<1>1. Goes(s) /\ ~At(s, "done") /\ flusher' = flusher
  BY HandlerGoes DEF CopiesInv
<1>2. OnePerPair' /\ Labels'
  BY <1>1, GoesKeepsOrder DEF CopiesInv
<1>3. ASSUME Unharmed' PROVE Copied'
  <2>1. PICK p \in Pairs : Pair(s) = p
    BY <1>1, PairFacts
  <2>2. HandData(s, p)
    BY <1>3, <2>1, HandlerData
  <2>3. Fine \/ FAULT
    BY DEF Handler, FindEbook, LogOpen, OpenReadRow, CreateRow, ReadCache,
       ProgressReadRow, FillCache, SaveStatus, StorePage
  <2>4. Copied
    BY <1>3, <2>3, NoFault
  <2>5. At(s, "storePage") => cache'[p] # NoKey
    <3>1. SUFFICES ASSUME At(s, "storePage") PROVE cache'[p] # NoKey
      OBVIOUS
    <3>2. StorePage(s)
      BY <3>1 DEF At, Handler, FindEbook, LogOpen, OpenReadRow, CreateRow, ReadCache,
         ProgressReadRow, FillCache, SaveStatus
    <3>3. cache' = [cache EXCEPT ![p] = request[s].page]
      BY <1>3, <2>1, <3>2, NoFault DEF StorePage
    <3>4. QED
      BY <1>1, <3>3, PairFacts DEF TypeOK, StoreTypeOK, NoKey
  <2>6. QED
    BY <1>1, <2>1, <2>2, <2>4, <2>5, HandDataKeeps
<1>4. QED
  BY <1>2, <1>3 DEF CopiesInv

-----------------------------------------------------------------------------
(* The copies under all other steps. *)

(* Requests begin, or go on, or end; the stores stay. *)
LEMMA QuietCopies ==
  ASSUME TypeOK, CopiesInv, UNCHANGED <<users, ebooks, cache, progress>>,
         Unharmed' => Unharmed,
         \A f \in Flushers : flusher'[f] = flusher[f] \/ flusher'[f].at = "done",
         \A t \in Slots : request'[t] = request[t] \/ (~Holds(t)' /\ ~Missed(t)'),
         OnePerPair', Labels'
  PROVE  CopiesInv'
<1>1. \A p \in Pairs : Position(p)' = Position(p) /\ (Live(p)' <=> Live(p))
  BY DEF Position, Live
<1>2. \A t \in Slots : request'[t] = request[t] => (Holds(t)' <=> Holds(t)) /\ (Missed(t)' <=> Missed(t))
  BY DEF Holds, Missed, At
<1>3. Copied => Copied'
  <2> SUFFICES ASSUME Copied PROVE Copied'
    OBVIOUS
  <2>1. \A p \in Pairs : HandsRight(p)'
    BY <1>1, <1>2 DEF Copied, HandsRight, Pair
  <2>2. \A t \in Slots : Missed(t)' => cache'[request'[t].pair] = NoKey
    BY <1>2 DEF Copied, Pair
  <2>3. QED
    BY <2>1, <2>2 DEF Copied, Pair
<1>4. QED
  BY <1>3 DEF CopiesInv

(* Requests that end hold nothing and get in nobody's way. *)
LEMMA EndedAll ==
  ASSUME TypeOK, OnePerPair, Labels, \A t \in Slots : request'[t] \in {request[t], Idle}
  PROVE  /\ OnePerPair' /\ Labels'
         /\ \A t \in Slots : request'[t] = request[t] \/ (~Holds(t)' /\ ~Missed(t)')
<1>1. \A t \in Slots : request'[t].pair \in {Pair(t), NoPair}
  BY PairFacts DEF Pair
<1>2. OnePerPair'
  BY <1>1, PairFacts DEF OnePerPair, Pair
<1>3. Labels'
  BY PairFacts DEF Labels, LabelOK, At, Pair
<1>4. QED
  BY <1>2, <1>3, IdleHolds

(* A request given up leaves copies as they are. *)
LEMMA AbandonCopies ==
  ASSUME TypeOK, CopiesInv, NEW s \in Slots, Abandon(s)
  PROVE  CopiesInv'
<1>1. UNCHANGED <<users, ebooks, cache, progress, flusher, spent>>
  BY DEF Abandon, store
<1>2. \A t \in Slots : request'[t] \in {request[t], Idle}
  BY Shapes DEF Abandon, Ended, Frame
<1>3. QED
  BY <1>1, <1>2, EndedAll, QuietCopies DEF CopiesInv, Unharmed

(* The request that begins, on a pair of its own. *)
LEMMA RequestBegins ==
  ASSUME TypeOK, Labels, ~Overlap, NEW s \in Slots, Request(s)
  PROVE  \E op \in Operations, p \in Pairs, page \in 1..MaxPage :
           /\ Frame(s) /\ \A t \in Slots : Pair(t) # p
           /\ request'[s].op = op /\ request'[s].pair = p /\ request'[s].page = page
           /\ request'[s].at = IF op = "GetProgress" THEN "readCache" ELSE "findEbook"
<1>1. PICK op \in Operations, p \in Pairs, page \in 1..MaxPage, status \in Statuses :
        /\ Overlap \/ \A t \in Slots : Pair(t) # p
        /\ request' = [request EXCEPT ![s] =
             [op |-> op, pair |-> p, page |-> page, status |-> status,
              at |-> IF op = "GetProgress" THEN "readCache" ELSE "findEbook"]]
  BY DEF Request
<1> DEFINE r == [op |-> op, pair |-> p, page |-> page, status |-> status,
                 at |-> IF op = "GetProgress" THEN "readCache" ELSE "findEbook"]
<1>2. /\ r.op = op /\ r.pair = p /\ r.page = page
      /\ r.at = IF op = "GetProgress" THEN "readCache" ELSE "findEbook"
  OBVIOUS
<1>3. request' = [request EXCEPT ![s] = r]
  BY <1>1
<1> HIDE DEF r
<1>4. request'[s] = r /\ Frame(s)
  BY <1>3 DEF Frame, TypeOK, RequestTypeOK
<1>5. QED
  BY <1>1, <1>2, <1>4

(* A new request comes alone for its pair, and holds nothing yet. *)
LEMMA RequestCopies ==
  ASSUME TypeOK, CopiesInv, ~Overlap, NEW s \in Slots, Request(s)
  PROVE  CopiesInv'
<1>1. PICK op \in Operations, p \in Pairs, page \in 1..MaxPage :
        /\ Frame(s) /\ \A t \in Slots : Pair(t) # p
        /\ request'[s].op = op /\ request'[s].pair = p /\ request'[s].page = page
        /\ request'[s].at = IF op = "GetProgress" THEN "readCache" ELSE "findEbook"
  BY RequestBegins DEF CopiesInv
<1>2. UNCHANGED <<users, ebooks, cache, progress, flusher>>
  BY DEF Request, store
<1>3. Unharmed' => Unharmed
  BY HarmCount DEF Request, Bounded, TypeOK, ProcessTypeOK
<1>4. OnePerPair'
  <2>1. \A t \in Slots : t # s => request'[t].pair # p
    BY <1>1 DEF Frame, Pair
  <2>2. QED
    BY <1>1, <2>1 DEF CopiesInv, OnePerPair, Frame, Pair
<1>5. LabelOK(request'[s])
  BY <1>1 DEF LabelOK
<1>6. Labels'
  BY <1>1, <1>5 DEF CopiesInv, Labels, LabelOK, Frame, At, Pair
<1>7. ~Holds(s)' /\ ~Missed(s)'
  BY <1>1 DEF Holds, Missed, At
<1>8. \A t \in Slots : request'[t] = request[t] \/ (~Holds(t)' /\ ~Missed(t)')
  BY <1>1, <1>7 DEF Frame
<1>9. QED
  BY <1>2, <1>3, <1>4, <1>6, <1>8, QuietCopies

(* Shutdown, crash and start move no page. *)
LEMMA ProcessCopies ==
  ASSUME TypeOK, CopiesInv, Process
  PROVE  CopiesInv'
<1>0. flusher \in [Flushers -> Passes] /\ spent \in [Bounded -> Nat]
  BY DEF TypeOK, FlusherTypeOK, ProcessTypeOK
<1> USE DEF Process, Signal, WriteCancelled, Drained, Deadline, Crash, Boot
<1>1. UNCHANGED <<users, ebooks, cache, progress>>
  BY DEF store
<1>2. Unharmed' => Unharmed
  BY <1>0, HarmCount DEF Fine, Bounded
<1>3. \A f \in Flushers : flusher'[f] \in {flusher[f], Resting}
  BY <1>0
<1>4. \A t \in Slots : request'[t] \in {request[t], Idle}
  OBVIOUS
<1> USE DEF CopiesInv
<1>5. \A f \in Flushers : flusher'[f] = flusher[f] \/ flusher'[f].at = "done"
  BY <1>3 DEF Resting
<1>6. QED
  BY <1>1, <1>2, <1>4, <1>5, EndedAll, QuietCopies

(* A pass reads keys and rows, and writes the page it holds. *)
FlushData ==
  /\ UNCHANGED <<users, ebooks, totalPages, cache, request>>
  /\ \A p \in Pairs : Live(p) => Position(p)' = Position(p)
  /\ \A g \in Flushers : flusher'[g].at \in {"read", "write"} =>
       \/ cache[flusher'[g].pair] # NoKey
       \/ /\ flusher[g].at \in {"read", "write"}
          /\ flusher'[g].pair = flusher[g].pair /\ flusher'[g].page = flusher[g].page

(* A flush stores the cached page, or an equal one once the key is gone. *)
LEMMA FlushStepData ==
  ASSUME TypeOK, CopiesInv, NEW f \in Flushers, FlushStep(f), Unharmed'
  PROVE  FlushData /\ Copied
<1>0. flusher \in [Flushers -> Passes]
  BY DEF TypeOK, FlusherTypeOK
<1>1. Copied
  <2>1. (Fine \/ FAULT) \/ UNCHANGED spent
    BY DEF FlushStep, ListKeys, FlushGet, FlushReadRow, FlushWrite, EndFlush
  <2>2. QED
    BY <2>1, NoFault DEF CopiesInv, Unharmed
<1>2. \A g \in Flushers \ {f} : flusher'[g] = flusher[g]
  BY <1>0 DEF FlushStep, ListKeys, FlushGet, FlushReadRow, FlushWrite, EndFlush, NextKey
<1>3. UNCHANGED <<users, ebooks, totalPages, cache, request>>
  BY DEF FlushStep, ListKeys, FlushGet, FlushReadRow, FlushWrite, EndFlush, store
<1>4. ~FlushWrite(f) => progress' = progress
  BY DEF FlushStep, ListKeys, FlushGet, FlushReadRow, EndFlush, store
<1>5. \A g \in Flushers : flusher'[g].at \in {"read", "write"} =>
        \/ cache[flusher'[g].pair] # NoKey
        \/ /\ flusher[g].at \in {"read", "write"}
           /\ flusher'[g].pair = flusher[g].pair /\ flusher'[g].page = flusher[g].page
  <2>1. SUFFICES ASSUME flusher'[f].at \in {"read", "write"}
                 PROVE  \/ cache[flusher'[f].pair] # NoKey
                        \/ /\ flusher[f].at \in {"read", "write"}
                           /\ flusher'[f].pair = flusher[f].pair
                           /\ flusher'[f].page = flusher[f].page
    BY <1>2
  <2>2. ~ListKeys(f)
    BY <1>0, <2>1 DEF ListKeys, Passes
  <2>3. ~EndFlush(f)
    BY <1>0, <2>1 DEF EndFlush, Resting
  <2>4. ~FlushWrite(f)
    <3> DEFINE r == [Resting EXCEPT !.at = "next", !.keys = flusher[f].keys]
    <3>1. r.at = "next" /\ Resting.at = "done"
      BY DEF Resting
    <3>2. FlushWrite(f) => \/ flusher' = [flusher EXCEPT ![f] = r]
                           \/ flusher' = [flusher EXCEPT ![f] = Resting]
      BY DEF FlushWrite, NextKey
    <3> HIDE DEF r
    <3>3. QED
      BY <1>0, <2>1, <3>1, <3>2
  <2>5. CASE FlushReadRow(f)
    BY <1>0, <2>5 DEF FlushReadRow, Passes
  <2>6. CASE FlushGet(f)
    <3>0. PICK p \in flusher[f].keys : \E rest :
            \/ /\ cache[p] # NoKey
               /\ flusher' = [flusher EXCEPT ![f] = [at |-> "read", keys |-> rest,
                    pair |-> p, page |-> cache[p], status |-> StatusReading]]
            \/ flusher' = [flusher EXCEPT ![f].keys = rest]
      BY <2>6 DEF FlushGet
    <3>1. PICK rest :
            \/ /\ cache[p] # NoKey
               /\ flusher' = [flusher EXCEPT ![f] = [at |-> "read", keys |-> rest,
                    pair |-> p, page |-> cache[p], status |-> StatusReading]]
            \/ flusher' = [flusher EXCEPT ![f].keys = rest]
      BY <3>0
    <3>2. CASE /\ cache[p] # NoKey
               /\ flusher' = [flusher EXCEPT ![f] = [at |-> "read", keys |-> rest,
                    pair |-> p, page |-> cache[p], status |-> StatusReading]]
      BY <1>0, <3>2
    <3>3. CASE flusher' = [flusher EXCEPT ![f].keys = rest]
      BY <1>0, <2>1, <2>6, <3>3 DEF FlushGet, Passes
    <3>4. QED
      BY <3>1, <3>2, <3>3
  <2>7. QED
    BY <2>2, <2>3, <2>4, <2>5, <2>6 DEF FlushStep
<1>6. \A p \in Pairs : Live(p) => Position(p)' = Position(p)
  <2>1. CASE FlushWrite(f)
    <3> DEFINE q == flusher[f].pair
    <3>1. flusher[f].at = "write" /\ q \in Pairs /\ flusher[f].page > 0
      BY <2>1 DEF FlushWrite, TypeOK, FlusherTypeOK
    <3>2. Upsert(q, flusher[f].page, flusher[f].status)
      BY <2>1, NoFault DEF FlushWrite
    <3>3. \A p \in Pairs : p # q => progress'[p] = progress[p]
      BY <3>2 DEF Upsert, TypeOK, StoreTypeOK
    <3>4. Live(q) => progress'[q].last_page = flusher[f].page /\ progress'[q] # NoRow
      BY <3>1, <3>2 DEF Upsert, TypeOK, StoreTypeOK, NoRow
    <3>5. Live(q) /\ cache[q] = NoKey => flusher[f].page = Position(q)
      BY <1>1, <3>1 DEF Copied, HandsRight
    <3>6. QED
      BY <1>3, <3>3, <3>4, <3>5 DEF Position
  <2>2. CASE ~FlushWrite(f)
    BY <1>3, <1>4, <2>2, SamePlaces
  <2>3. QED
    BY <2>1, <2>2
<1>7. QED
  BY <1>1, <1>3, <1>5, <1>6 DEF FlushData

(* Every step of a flush keeps the invariant. *)
LEMMA FlushCopies ==
  ASSUME TypeOK, CopiesInv, NEW f \in Flushers, FlushStep(f)
  PROVE  CopiesInv'
<1>1. request' = request
  BY DEF FlushStep, ListKeys, FlushGet, FlushReadRow, FlushWrite, EndFlush
<1>2. OnePerPair' /\ Labels'
  BY <1>1 DEF CopiesInv, OnePerPair, Labels, LabelOK, At, Pair
<1>3. ASSUME Unharmed' PROVE Copied'
  <2>1. FlushData /\ Copied
    BY <1>3, FlushStepData
  <2>2. \A p \in Pairs : HandsRight(p)'
    BY <2>1 DEF FlushData, Copied, HandsRight, Live, Holds, At, Pair
  <2>3. \A t \in Slots : Missed(t)' => cache'[request'[t].pair] = NoKey
    BY <2>1 DEF FlushData, Copied, Missed, At, Pair
  <2>4. QED
    BY <2>2, <2>3 DEF Copied, Pair
<1>4. QED
  BY <1>2, <1>3 DEF CopiesInv

(* Expiry of a key nobody contradicts, and deletions. *)
StoresData ==
  /\ UNCHANGED <<request, flusher, totalPages>>
  /\ \A p \in Pairs : /\ Live(p)' => Live(p) /\ Position(p)' = Position(p)
                      /\ cache'[p] \in {cache[p], NoKey}
  /\ \A p \in Pairs : cache[p] # NoKey /\ cache'[p] = NoKey => InFlight(p) \subseteq {cache[p]}

(* Expiry and deletions move no position of a live pair. *)
LEMMA StoresStepData ==
  ASSUME TypeOK, Stores, Unharmed'
  PROVE  StoresData /\ Unharmed
<1>1. ~LoseCache /\ ~Spend("loss")
  BY HarmCount DEF LoseCache, TypeOK, ProcessTypeOK, Bounded
<1>2. Unharmed
  BY HarmCount DEF Stores, Expire, LoseCache, DeleteEbook, DeleteUser, Fine, Bounded,
     TypeOK, ProcessTypeOK
<1>3. UNCHANGED <<request, flusher, totalPages>>
  BY DEF Stores, Expire, LoseCache, DeleteEbook, DeleteUser
<1>4. CASE Expire
  <2>1. PICK p \in Pairs :
          /\ cache[p] # NoKey
          /\ ~Live(p) \/ progress[p].last_page = cache[p]
          /\ InFlight(p) \subseteq {cache[p]}
          /\ cache' = [cache EXCEPT ![p] = NoKey]
          /\ UNCHANGED <<users, ebooks, progress>>
    BY <1>1, <1>4 DEF Expire
  <2>2. cache'[p] = NoKey /\ \A q \in Pairs : q # p => cache'[q] = cache[q]
    BY <2>1 DEF TypeOK, StoreTypeOK
  <2>3. progress[p].last_page = cache[p] => progress[p] # NoRow
    BY <2>1 DEF NoRow, NoKey
  <2>4. \A q \in Pairs : Live(q)' => Live(q) /\ Position(q)' = Position(q)
    BY <2>1, <2>2, <2>3 DEF Live, Position
  <2>5. QED
    BY <1>2, <1>3, <2>1, <2>2, <2>4 DEF StoresData
<1>5. CASE DeleteEbook \/ DeleteUser
  <2>1. cache' = cache /\ users' \subseteq users /\ ebooks' \subseteq ebooks
    BY <1>5 DEF DeleteEbook, DeleteUser
  <2>2. \A p \in Pairs : Live(p)' => Live(p) /\ progress'[p] = progress[p]
    <3>1. CASE DeleteEbook
      BY <3>1 DEF DeleteEbook, Cascade, Live, Pairs
    <3>2. CASE DeleteUser
      BY <3>2 DEF DeleteUser, Cascade, Live, Pairs
    <3>3. QED
      BY <1>5, <3>1, <3>2
  <2>3. QED
    BY <1>2, <1>3, <2>1, <2>2 DEF StoresData, Position
<1>6. QED
  BY <1>1, <1>4, <1>5 DEF Stores

(* What happens to the stores keeps the invariant. *)
LEMMA StoresCopies ==
  ASSUME TypeOK, CopiesInv, Stores
  PROVE  CopiesInv'
<1>1. UNCHANGED request
  BY DEF Stores, Expire, LoseCache, DeleteEbook, DeleteUser
<1>2. OnePerPair' /\ Labels'
  BY <1>1 DEF CopiesInv, OnePerPair, Labels, LabelOK, At, Pair
<1>3. ASSUME Unharmed' PROVE Copied'
  <2>0. StoresData /\ Copied
    BY <1>3, StoresStepData DEF CopiesInv
  <2>1. ASSUME NEW p \in Pairs, Live(p)', cache'[p] = NoKey
        PROVE  /\ \A f \in Flushers : flusher[f].at \in {"read", "write"} /\ flusher[f].pair = p
                    => flusher[f].page = Position(p)
               /\ \A s \in Slots : Pair(s) = p /\ Holds(s) => request[s].page = Position(p)
    <3>1. Live(p)
      BY <2>0, <2>1 DEF StoresData
    <3>2. CASE cache[p] = NoKey
      BY <2>0, <3>1, <3>2 DEF Copied, HandsRight
    <3>3. CASE cache[p] # NoKey
      <4>1. InFlight(p) \subseteq {cache[p]} /\ Position(p) = cache[p]
        BY <2>0, <2>1, <3>3 DEF StoresData, Position
      <4>2. \A f \in Flushers : flusher[f].pair = p => flusher[f].page \in InFlight(p)
        BY DEF InFlight
      <4>3. \A s \in Slots : Pair(s) = p /\ Holds(s) => request[s].page \in InFlight(p)
        BY DEF InFlight, Holds
      <4>4. QED
        BY <4>1, <4>2, <4>3
    <3>4. QED
      BY <3>2, <3>3
  <2>2. \A p \in Pairs : HandsRight(p)'
    BY <2>0, <2>1 DEF StoresData, HandsRight, Holds, At, Pair
  <2>3. \A t \in Slots : Missed(t)' => cache'[request'[t].pair] = NoKey
    <3>1. \A t \in Slots : Missed(t) => Pair(t) \in Pairs /\ cache[Pair(t)] = NoKey
      BY <2>0, PairFacts DEF Copied, Missed, At
    <3>2. QED
      BY <2>0, <3>1 DEF StoresData, Missed, At, Pair
  <2>4. QED
    BY <2>2, <2>3 DEF Copied, Pair
<1>4. QED
  BY <1>2, <1>3 DEF CopiesInv

(* Whoever holds a page that could become visible holds the position. *)
LEMMA CopiesInvariant ==
  ASSUME ~Overlap
  PROVE  Spec => []CopiesInv
<1>1. Init => CopiesInv
  <2> SUFFICES ASSUME Init PROVE CopiesInv
    OBVIOUS
  <2>1. \A s \in Slots : request[s] = Idle
    BY DEF Init
  <2>2. OnePerPair /\ Labels
    <3>1. \A s \in Slots : At(s, "done") /\ Pair(s) = NoPair
      BY <2>1 DEF At, Pair, Idle
    <3>2. NoPair \notin Pairs
      BY DEF NoPair, Pairs
    <3>3. QED
      BY <3>1, <3>2 DEF OnePerPair, Labels
  <2>3. \A s \in Slots : ~Holds(s) /\ ~Missed(s)
    BY <2>1 DEF Holds, Missed, At, Idle
  <2>4. \A f \in Flushers : flusher[f].at = "done"
    BY DEF Init, Resting
  <2>5. QED
    BY <2>2, <2>3, <2>4 DEF CopiesInv, Copied, HandsRight
<1>2. TypeOK /\ CopiesInv /\ [Next]_vars => CopiesInv'
  <2> SUFFICES ASSUME TypeOK, CopiesInv, [Next]_vars PROVE CopiesInv'
    OBVIOUS
  <2>1. CASE UNCHANGED vars
    <3>1. /\ UNCHANGED <<users, ebooks, cache, progress, flusher, spent>>
          /\ \A t \in Slots : request'[t] \in {request[t], Idle}
      BY <2>1 DEF vars
    <3>2. QED
      BY <3>1, EndedAll, QuietCopies DEF CopiesInv, Unharmed
  <2>2. QED
    BY <2>1, HandlerCopies, RequestCopies, AbandonCopies, FlushCopies, ProcessCopies,
       StoresCopies DEF Next
<1>3. QED
  BY <1>1, <1>2, TypeCorrect, PTL DEF Spec

-----------------------------------------------------------------------------
(* Every step is one of the shelf's, or none. *)

(* What is wanted of a pair is what its only request says. *)
LEMMA WantedIs ==
  ASSUME OnePerPair, NEW s \in Slots, Pair(s) \in Pairs
  PROVE  Wanted(Pair(s)) = IF request[s].op = "UpdateProgress" THEN request[s].page ELSE 0
<1> DEFINE p == Pair(s)
<1>1. \A t \in Slots : Pair(t) = p => t = s
  BY DEF OnePerPair
<1>2. CASE request[s].op = "UpdateProgress"
  <2>1. Turning(p) = {s}
    BY <1>1, <1>2 DEF Turning
  <2>2. QED
    BY <1>2, <2>1 DEF Wanted
<1>3. CASE request[s].op # "UpdateProgress"
  <2>1. Turning(p) = {}
    BY <1>1, <1>3 DEF Turning
  <2>2. QED
    BY <1>3, <2>1 DEF Wanted
<1>4. QED
  BY <1>2, <1>3

(* Nobody asks for a page of p. *)
LEMMA WantedNone ==
  ASSUME NEW p, \A t \in Slots : Pair(t) # p
  PROVE  Wanted(p) = 0
BY DEF Wanted, Turning

(* What is wanted of a pair is up to the requests about it. *)
LEMMA WantedKept ==
  ASSUME NEW p, \A t \in Slots : Pair(t) = p \/ request'[t].pair = p => request'[t] = request[t]
  PROVE  Wanted(p)' = Wanted(p)
<1>1. Turning(p)' = Turning(p)
  BY DEF Turning, Pair
<1>2. CASE Turning(p) = {}
  BY <1>1, <1>2 DEF Wanted
<1>3. CASE Turning(p) # {}
  <2> DEFINE s == CHOOSE t \in Turning(p) : TRUE
  <2>1. s \in Slots /\ Pair(s) = p
    BY <1>3 DEF Turning
  <2>2. request'[s] = request[s]
    BY <2>1
  <2>3. Wanted(p)' = request'[s].page
    BY <1>1, <1>3 DEF Wanted
  <2>4. Wanted(p) = request[s].page
    BY <1>3 DEF Wanted
  <2>5. QED
    BY <2>2, <2>3, <2>4
<1>4. QED
  BY <1>2, <1>3

(* A step of request s leaves the other pairs. *)
LEMMA OtherPairs ==
  ASSUME TypeOK, NEW s \in Slots, NEW p \in Pairs, Frame(s),
         Pair(s) \in {p, NoPair}, request'[s].pair \in {p, NoPair}
  PROVE  \A q \in Pairs : q # p => Wanted(q)' = Wanted(q)
<1> SUFFICES ASSUME NEW q \in Pairs, q # p PROVE Wanted(q)' = Wanted(q)
  OBVIOUS
<1>1. \A t \in Slots : Pair(t) = q \/ request'[t].pair = q => request'[t] = request[t]
  BY PairFacts DEF Frame
<1>2. QED
  BY <1>1, WantedKept

(* The live pairs are the pairs whose user and ebook are there. *)
LEMMA LiveIsPair == \A p : p \in LivePairs <=> p \in Pairs /\ Live(p)
BY DEF LivePairs

(* The shelf keeps its books when users, ebooks and lengths stay. *)
LEMMA SameBooksIf ==
  ASSUME UNCHANGED <<users, ebooks, totalPages>>
  PROVE  SameBooks
BY DEF SameBooks, LivePairs, Live

(* Shelf's step, or none. *)
Shelved == Shelf!Next \/ UNCHANGED Shelf!vars

(* Each step of a handler is a step of the shelf, or none. *)
LEMMA HandlerShelved ==
  ASSUME TypeOK, TypeOK', PagesInv, CopiesInv, CopiesInv', NEW s \in Slots, Handler(s),
         Unharmed'
  PROVE  Shelved
<1>1. Goes(s) /\ ~At(s, "done") /\ LabelOK(request[s])
  BY HandlerGoes DEF CopiesInv, Labels
<1>2. PICK p \in Pairs : Pair(s) = p
  BY <1>1, PairFacts
<1>3. /\ HandData(s, p) /\ SameBooks
      /\ \A q \in LivePairs : q # p => Position(q)' = Position(q)
  BY <1>2, HandlerData, SameBooksIf, LiveIsPair DEF HandData, Position
<1>4. Frame(s) /\ request'[s].pair \in {p, NoPair}
  BY <1>1, <1>2, PairFacts DEF Goes, Ended, Moved, Pair
<1>5. \A q \in LivePairs : q # p => Wanted(q)' = Wanted(q)
  BY <1>2, <1>4, OtherPairs, LiveIsPair
<1>6. CASE p \notin LivePairs
  BY <1>3, <1>5, <1>6, ShelfRests DEF Shelved
<1>7. Wanted(p) = IF request[s].op = "UpdateProgress" THEN request[s].page ELSE 0
  BY <1>2, WantedIs DEF CopiesInv
<1>8. Ended(s) => Wanted(p)' = 0
  <2>1. SUFFICES ASSUME Ended(s) PROVE \A t \in Slots : request'[t].pair # p
    BY WantedNone DEF Wanted, Turning, Pair
  <2>2. request'[s].pair # p
    BY <2>1, PairFacts DEF Ended
  <2>3. \A t \in Slots : t # s => request'[t] = request[t] /\ Pair(t) # p
    BY <1>2, <2>1 DEF Ended, Frame, CopiesInv, OnePerPair
  <2>4. QED
    BY <2>2, <2>3 DEF Pair
<1>9. request'[s].pair = p =>
        Wanted(p)' = IF request'[s].op = "UpdateProgress" THEN request'[s].page ELSE 0
  <2>1. SUFFICES ASSUME request'[s].pair = p
                 PROVE  Wanted(p)' = IF request'[s].op = "UpdateProgress" THEN request'[s].page ELSE 0
    OBVIOUS
  <2>2. \A t \in Slots : t # s => request'[t].pair # p
    BY <2>1 DEF CopiesInv, OnePerPair, Pair
  <2>3. CASE request'[s].op = "UpdateProgress"
    <3>1. Turning(p)' = {s}
      BY <2>1, <2>2, <2>3 DEF Turning, Pair
    <3>2. QED
      BY <2>3, <3>1 DEF Wanted
  <2>4. CASE request'[s].op # "UpdateProgress"
    <3>1. Turning(p)' = {}
      BY <2>1, <2>2, <2>4 DEF Turning, Pair
    <3>2. QED
      BY <2>4, <3>1 DEF Wanted
  <2>5. QED
    BY <2>3, <2>4
<1>10. CASE p \in LivePairs /\ request[s].op # "UpdateProgress"
  <2>1. ~At(s, "storePage")
    BY <1>1, <1>10 DEF LabelOK, At
  <2>2. Position(p)' = Position(p)
    BY <1>3, <1>10, <2>1, LiveIsPair DEF HandData
  <2>3. Wanted(p)' = 0
    BY <1>1, <1>2, <1>8, <1>9, <1>10 DEF Goes, Moved, Pair
  <2>4. QED
    BY <1>3, <1>5, <1>7, <1>10, <2>2, <2>3, ShelfRests DEF Shelved
<1>11. CASE p \in LivePairs /\ request[s].op = "UpdateProgress" /\ FindEbook(s)
  <2>1. Live(p) /\ ~FAULT /\ At(s, "findEbook")
    BY <1>11, LiveIsPair, NoFault DEF FindEbook
  <2>2. GotoWith(s, "storePage", Clamp(request[s].page, totalPages[p[2]]))
    BY <1>2, <1>11, <2>1 DEF FindEbook, Live, Pair
  <2>3. Moved(s, "storePage", Clamp(request[s].page, totalPages[p[2]]))
    BY <2>2, Shapes
  <2>4. request[s].page > 0 /\ request[s].page \in Nat /\ totalPages[p[2]] \in Nat
    BY <1>1 DEF TypeOK, RequestTypeOK, Requests, StoreTypeOK, Pairs
  <2>5. Clamp(request[s].page, totalPages[p[2]]) = Shelf!Within(p, request[s].page)
    BY <2>4 DEF Clamp, Shelf!Within
  <2>6. Wanted(p) = request[s].page /\ Wanted(p)' = Shelf!Within(p, Wanted(p))
    BY <1>2, <1>7, <1>9, <1>11, <2>3, <2>5 DEF Moved, Pair
  <2>7. Position(p)' = Position(p)
    BY <1>3, <2>1 DEF HandData, At
  <2>8. Wanted(p) # 0
    BY <2>4, <2>6
  <2>9. Shelf!Next
    BY <1>3, <1>5, <1>11, <2>6, <2>7, <2>8, ShelfChecks
  <2>10. QED
    BY <2>9 DEF Shelved
<1>12. CASE p \in LivePairs /\ request[s].op = "UpdateProgress" /\ StorePage(s)
  <2>1. Position(p)' = request[s].page
    BY <1>2, <1>12, StorePageData
  <2>2. totalPages[p[2]] > 0 => request[s].page <= totalPages[p[2]]
    BY <1>1, <1>2, <1>12 DEF PagesInv, PagesIn, RequestsIn, StorePage, At, Pair
  <2>3. request[s].page > 0 /\ request[s].page \in Nat /\ totalPages[p[2]] \in Nat
    BY <1>1 DEF TypeOK, RequestTypeOK, Requests, StoreTypeOK, Pairs
  <2>4. Shelf!Within(p, request[s].page) = request[s].page
    BY <2>2, <2>3 DEF Shelf!Within
  <2>5. Wanted(p)' = 0
    BY <1>8, <1>12, Shapes DEF StorePage
  <2>6. Wanted(p) # 0 /\ Position(p)' = Shelf!Within(p, Wanted(p))
    BY <1>7, <1>12, <2>1, <2>3, <2>4
  <2>7. Shelf!Next
    BY <1>3, <1>5, <1>12, <2>5, <2>6, ShelfTurns
  <2>8. QED
    BY <2>7 DEF Shelved
<1>13. request[s].op = "UpdateProgress" => FindEbook(s) \/ StorePage(s)
  BY <1>1 DEF LabelOK, Handler, LogOpen, OpenReadRow, CreateRow, ReadCache,
     ProgressReadRow, FillCache, SaveStatus, At
<1>14. QED
  BY <1>6, <1>10, <1>11, <1>12, <1>13

(* A new request is a wish, or nothing. *)
LEMMA RequestShelved ==
  ASSUME TypeOK, CopiesInv, ~Overlap, NEW s \in Slots, Request(s)
  PROVE  Shelved
<1>1. PICK op \in Operations, p \in Pairs, page \in 1..MaxPage :
        /\ Frame(s) /\ \A t \in Slots : Pair(t) # p
        /\ request'[s].op = op /\ request'[s].pair = p /\ request'[s].page = page
  BY RequestBegins DEF CopiesInv
<1>2. SameBooks /\ \A q : Position(q)' = Position(q)
  BY SameBooksIf, SamePlaces DEF Request, store
<1>3. Pair(s) = NoPair
  BY DEF Request, CopiesInv, Labels
<1>4. \A q \in LivePairs : q # p => Wanted(q)' = Wanted(q)
  BY <1>1, <1>3, OtherPairs, LiveIsPair
<1>5. Wanted(p) = 0
  BY <1>1, WantedNone
<1>6. \A t \in Slots : t # s => request'[t].pair # p
  BY <1>1 DEF Frame, Pair
<1>7. CASE op = "UpdateProgress"
  <2>1. Turning(p)' = {s}
    BY <1>1, <1>6, <1>7 DEF Turning, Pair
  <2>2. Wanted(p)' = page
    BY <1>1, <2>1 DEF Wanted
  <2>3. CASE p \in LivePairs
    <3>1. Shelf!Next
      BY <1>2, <1>4, <1>5, <2>2, <2>3, ShelfAsks
    <3>2. QED
      BY <3>1 DEF Shelved
  <2>4. CASE p \notin LivePairs
    BY <1>2, <1>4, <2>4, ShelfRests DEF Shelved
  <2>5. QED
    BY <2>3, <2>4
<1>8. CASE op # "UpdateProgress"
  <2>1. Turning(p)' = {}
    BY <1>1, <1>6, <1>8 DEF Turning, Pair
  <2>2. Wanted(p)' = Wanted(p)
    BY <1>5, <2>1 DEF Wanted
  <2>3. QED
    BY <1>2, <1>4, <2>2, ShelfRests DEF Shelved
<1>9. QED
  BY <1>7, <1>8

(* Requests that end early drop their turn. *)
LEMMA EndsShelved ==
  ASSUME TypeOK, CopiesInv, UNCHANGED <<users, ebooks, totalPages, cache, progress>>,
         \A t \in Slots : request'[t] \in {request[t], Idle}
  PROVE  Shelved
<1>1. SameBooks /\ \A q : Position(q)' = Position(q)
  BY SameBooksIf, SamePlaces
<1> DEFINE some == {q \in LivePairs : \E t \in Slots : Pair(t) = q /\ request'[t].pair # q}
<1>2. ASSUME NEW q \in LivePairs PROVE Wanted(q)' = IF q \in some THEN 0 ELSE Wanted(q)
  <2>0. q \in Pairs /\ q # NoPair
    BY LiveIsPair, PairFacts
  <2>1. CASE q \in some
    <3>1. PICK t \in Slots : Pair(t) = q /\ request'[t].pair # q
      BY <2>1
    <3>2. \A u \in Slots : u # t => Pair(u) # q
      BY <2>0, <3>1 DEF CopiesInv, OnePerPair
    <3>3. \A u \in Slots : request'[u].pair # q
      BY <2>0, <3>1, <3>2, PairFacts DEF Pair
    <3>4. Turning(q)' = {}
      BY <3>3 DEF Turning, Pair
    <3>5. QED
      BY <2>1, <3>4 DEF Wanted
  <2>2. CASE q \notin some
    <3>1. \A t \in Slots : Pair(t) = q => request'[t].pair = q
      BY <2>2
    <3>2. \A t \in Slots : Pair(t) = q \/ request'[t].pair = q => request'[t] = request[t]
      BY <2>0, <3>1, PairFacts
    <3>3. QED
      BY <2>2, <3>2, WantedKept
  <2>3. QED
    BY <2>1, <2>2
<1>3. some \in SUBSET LivePairs
  OBVIOUS
<1> HIDE DEF some
<1>4. Shelf!Next
  BY <1>1, <1>2, <1>3, ShelfDrops
<1>5. QED
  BY <1>4 DEF Shelved

(* A flush is invisible on the shelf. *)
LEMMA FlushShelved ==
  ASSUME TypeOK, CopiesInv, NEW f \in Flushers, FlushStep(f), Unharmed'
  PROVE  Shelved
<1>1. FlushData
  BY FlushStepData
<1>2. SameBooks
  BY <1>1, SameBooksIf DEF FlushData
<1>3. \A q \in LivePairs : Position(q)' = Position(q) /\ Wanted(q)' = Wanted(q)
  BY <1>1, WantedKept, LiveIsPair DEF FlushData
<1>4. QED
  BY <1>2, <1>3, ShelfRests DEF Shelved

(* A deletion removes books; expiry is invisible. *)
LEMMA StoresShelved ==
  ASSUME TypeOK, Stores, Unharmed'
  PROVE  Shelved
<1>1. StoresData
  BY StoresStepData
<1>2. LivePairs' \subseteq LivePairs
  BY <1>1 DEF StoresData, LivePairs
<1>3. \A q \in LivePairs' : Position(q)' = Position(q) /\ Wanted(q)' = Wanted(q)
  <2>1. \A q \in LivePairs' : q \in Pairs /\ Live(q)'
    BY DEF LivePairs
  <2>2. QED
    BY <1>1, <2>1, WantedKept DEF StoresData
<1>4. Shelf!Next
  BY <1>1, <1>2, <1>3, ShelfRemoves DEF StoresData
<1>5. QED
  BY <1>4 DEF Shelved

(* Every step is a step of the shelf or leaves it as it is. *)
LEMMA StepShelved ==
  ASSUME ~Overlap, TypeOK, TypeOK', PagesInv, CopiesInv, CopiesInv',
         [Next]_vars, Unharmed'
  PROVE  Shelved
<1>1. CASE UNCHANGED vars
  <2>1. /\ UNCHANGED <<users, ebooks, totalPages, cache, progress>>
        /\ \A t \in Slots : request'[t] \in {request[t], Idle}
    BY <1>1 DEF vars
  <2>2. QED
    BY <2>1, EndsShelved
<1>2. ASSUME NEW s \in Slots, Request(s) \/ Handler(s) PROVE Shelved
  BY <1>2, RequestShelved, HandlerShelved
<1>3. ASSUME NEW s \in Slots, Abandon(s) PROVE Shelved
  <2>1. UNCHANGED <<users, ebooks, totalPages, cache, progress>>
    BY <1>3 DEF Abandon, store
  <2>2. \A t \in Slots : request'[t] \in {request[t], Idle}
    BY <1>3, Shapes DEF Abandon, Ended, Frame
  <2>3. QED
    BY <2>1, <2>2, EndsShelved
<1>4. CASE Process
  <2>1. UNCHANGED <<users, ebooks, totalPages, cache, progress>>
    BY <1>4 DEF Process, Signal, WriteCancelled, Drained, Deadline, Crash, Boot, store
  <2>2. \A t \in Slots : request'[t] \in {request[t], Idle}
    BY <1>4 DEF Process, Signal, WriteCancelled, Drained, Deadline, Crash, Boot
  <2>3. QED
    BY <2>1, <2>2, EndsShelved
<1>5. QED
  BY <1>1, <1>2, <1>3, <1>4, FlushShelved, StoresShelved DEF Next

(* The service starts as a shelf with every reader on page 1. *)
LEMMA InitShelved == Init => Shelf!Init
<1> SUFFICES ASSUME Init PROVE Shelf!Init
  OBVIOUS
<1>1. totalPages \in [Ebooks -> Nat]
  BY PagesAssumption DEF Init
<1>2. \A p \in LivePairs : Position(p) = 1
  BY DEF Init, Position, LivePairs, NoKey, NoRow
<1>3. \A p \in LivePairs : Wanted(p) = 0
  <2>1. \A s \in Slots : Pair(s) = NoPair
    BY DEF Init, Pair, Idle
  <2>2. \A p \in LivePairs : p # NoPair
    BY DEF LivePairs, Pairs, NoPair
  <2>3. QED
    BY <2>1, <2>2, WantedNone
<1>4. QED
  BY <1>1, <1>2, <1>3 DEF Shelf!Init, Shelf!Books, Wanted

(* With no two requests of a pair at once, and until a call fails or Redis *)
(* loses a page (it restarts, or a key's 24 hours end before its page is   *)
(* stored), cache, rows, fills, flushes, the expiry of stored keys,        *)
(* shutdowns, crashes and restarts amount to Bookshelf: each reader has    *)
(* one position in each book, and only their own page turns move it.       *)
THEOREM ReadingIsABookshelf ==
  ASSUME ~Overlap
  PROVE  Spec => ImplementsBookshelf
<1>1. Init => Shelf!Init
  BY InitShelved
<1>2. TypeOK /\ TypeOK' /\ PagesInv /\ CopiesInv /\ CopiesInv' /\ [Next]_vars
        => [Unharmed' => Shelf!Next]_(Shelf!vars)
  BY StepShelved DEF Shelved
<1>3. Spec => []PagesInv
  BY PagesAlways
<1>4. Spec => []CopiesInv
  BY CopiesInvariant
<1>5. QED
  BY <1>1, <1>2, <1>3, <1>4, TypeCorrect, PTL DEF Spec, ImplementsBookshelf
=============================================================================
