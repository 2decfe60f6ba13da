--------------------------- MODULE FixPageCounts ----------------------------
(***************************************************************************)
(* The fixpagecounts command beside a live server: it recounts the pages   *)
(* of every stored PDF, corrects ebooks.total_pages and then caps the      *)
(* saved progress.  It works on the ebooks as listed at its start, and it  *)
(* does not know about the pages cached in Redis.                          *)
(***************************************************************************)
EXTENDS ReadingService

CONSTANTS
  Actual,   \* the pages each PDF really has
  MaxRuns   \* how often the command is started

ASSUME ActualAssumption == Actual \in [Ebooks -> 1..MaxPage]
ASSUME RunsAssumption == MaxRuns \in Nat

VARIABLES
  tool,     \* the command: where it is, the ebooks left, the current one
  runs,     \* how often it was started
  fixed     \* history: ebooks whose rows a run capped

fixVars == <<vars, tool, runs, fixed>>

NoTool == [at |-> "done", todo |-> {}, ebook |-> {}]

(* The loop goes on with the next ebook. *)
NextEbook == tool' = [tool EXCEPT !.at = "next", !.ebook = {}]

(* ListAll: every ebook with the page count it has now. *)
ListAll ==
  /\ tool.at = "done" /\ runs < MaxRuns
  /\ runs' = runs + 1
  /\ tool' = [at |-> "next", todo |-> {<<e, totalPages[e]>> : e \in ebooks}, ebook |-> {}]
  /\ UNCHANGED <<vars, fixed>>

(* Mutant of Recount: a right count is not skipped. *)
RecountAll ==
  /\ tool.at = "next"
  /\ \E item \in tool.todo :
       tool' = [at |-> "update", todo |-> tool.todo \ {item}, ebook |-> {item[1]}]
  /\ UNCHANGED <<vars, runs, fixed>>

(* A file that cannot be read counts as failed, a count that is right is   *)
(* skipped, and so is every ebook of a dry run.                            *)
Recount ==
  /\ tool.at = "next"
  /\ \E item \in tool.todo :
       LET rest == [tool EXCEPT !.todo = @ \ {item}] IN
       \/ tool' = rest
       \/ /\ item[2] # Actual[item[1]]
          /\ tool' = [rest EXCEPT !.at = "update", !.ebook = {item[1]}]
  /\ UNCHANGED <<vars, runs, fixed>>

(* UpdateTotalPages fails for an ebook that was deleted meanwhile. *)
UpdateTotalPages ==
  /\ tool.at = "update"
  /\ \E e \in tool.ebook :
       \/ /\ e \in ebooks /\ Fine
          /\ totalPages' = [totalPages EXCEPT ![e] = Actual[e]]
          /\ tool' = [tool EXCEPT !.at = "clamp"]
       \/ e \notin ebooks /\ Fine /\ NextEbook /\ UNCHANGED totalPages
       \/ FAULT /\ NextEbook /\ UNCHANGED totalPages
  /\ UNCHANGED <<users, ebooks, progress, history, cache, request, flusher,
                 phase, lastAsked, raced, late, runs, fixed>>

(* LEAST and CASE of the UPDATE. *)
Capped(row, total) ==
  IF row = NoRow THEN NoRow
  ELSE [last_page |-> IF row.last_page < total THEN row.last_page ELSE total,
        status |-> IF row.last_page >= total THEN StatusCompleted ELSE StatusReading]

(* ClampToTotalPages: one statement for all the ebook's rows. *)
ClampToTotalPages ==
  /\ tool.at = "clamp"
  /\ \E e \in tool.ebook :
       \/ /\ Fine
          /\ progress' = [p \in Pairs |-> IF p[2] = e THEN Capped(progress[p], Actual[e])
                                          ELSE progress[p]]
          /\ fixed' = fixed \cup {e}
       \/ FAULT /\ UNCHANGED <<progress, fixed>>
  /\ NextEbook
  /\ UNCHANGED <<users, ebooks, totalPages, history, cache, request, flusher,
                 phase, lastAsked, raced, late, runs>>

Done ==
  /\ tool.at = "next" /\ tool.todo = {}
  /\ tool' = NoTool
  /\ UNCHANGED <<vars, runs, fixed>>

(* The operator stops the command, or it loses its connection for good. *)
Kill ==
  /\ tool.at # "done"
  /\ tool' = NoTool
  /\ UNCHANGED <<vars, runs, fixed>>

Tool == ListAll \/ Recount \/ UpdateTotalPages \/ ClampToTotalPages \/ Done \/ Kill

FixInit == Init /\ tool = NoTool /\ runs = 0 /\ fixed = {}
FixNext == \/ Next /\ UNCHANGED <<tool, runs, fixed>>
           \/ Tool
FixSpec == FixInit /\ [][FixNext]_fixVars

-----------------------------------------------------------------------------
(* Every page a store or a step under way holds for p. *)
Copies(p) ==
  {cache[p], progress[p].last_page} \cup
  {flusher[f].page : f \in {g \in Flushers : flusher[g].pair = p}} \cup
  {request[s].page : s \in {t \in Slots : Pair(t) = p /\ ~At(t, "findEbook")}}

(* Once every copy of p's page lies within a recounted document, no step   *)
(* of a request, the flusher or a second run of the command brings back an *)
(* overlong one.                                                           *)
FixHolds ==
  [][\A p \in Pairs : LET n == Actual[p[2]] IN
       totalPages[p[2]] = n /\ (\A page \in Copies(p) : page <= n)
         => \A page \in Copies(p)' : page <= n]_fixVars

(* Capping happens once: however often the command is started again, it   *)
(* neither moves nor completes the readers of an ebook it has capped.      *)
CappedOnce ==
  [][\A p \in Pairs : Tool /\ p[2] \in fixed => progress'[p] = progress[p]]_fixVars
=============================================================================
