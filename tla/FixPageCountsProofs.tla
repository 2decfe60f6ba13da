------------------------ MODULE FixPageCountsProofs -------------------------
(***************************************************************************)
(* Theorems about the fixpagecounts command beside a live server.          *)
(***************************************************************************)
EXTENDS FixPageCounts, ReadingServiceProofs

-----------------------------------------------------------------------------
(* Types.  The steps of the server keep them, ReadingServiceProofs says;   *)
(* those of the command write page counts and rows only.                   *)

ToolTypeOK ==
  /\ tool \in [at : {"done", "next", "update", "clamp"},
               todo : SUBSET (Ebooks \X Nat), ebook : SUBSET Ebooks]
  /\ tool.at \in {"update", "clamp"} => \E e \in Ebooks : tool.ebook = {e}
  /\ fixed \subseteq Ebooks

TypeInv == TypeOK /\ ToolTypeOK /\ FirstPageAsked

(* The command writes page counts of Actual and rows of their type.        *)
LEMMA CappedType ==
  ASSUME NEW row \in Rows \cup {NoRow}, NEW total \in 1..MaxPage
  PROVE  /\ Capped(row, total) \in Rows \cup {NoRow}
         /\ Capped(row, total).last_page <= total
         /\ row # NoRow => Capped(row, total).last_page <= row.last_page
<1>1. CASE row = NoRow
  BY <1>1, PagesAssumption DEF Capped, NoRow
<1>2. CASE row # NoRow
  <2>1. row \in Rows
    BY <1>2
  <2> DEFINE page == IF row.last_page < total THEN row.last_page ELSE total
             status == IF row.last_page >= total THEN StatusCompleted ELSE StatusReading
  <2>2. Capped(row, total) = [last_page |-> page, status |-> status]
    BY <1>2 DEF Capped
  <2>3. page \in 1..MaxPage /\ page <= total /\ page <= row.last_page
    BY <2>1, PagesAssumption DEF Rows
  <2>4. status \in Statuses
    BY DEF Statuses
  <2> HIDE DEF page, status
  <2>5. QED
    BY <2>2, <2>3, <2>4 DEF Rows
<1>3. QED
  BY <1>1, <1>2

(* What a step of the command leaves alone.                                *)
LEMMA ToolFrame ==
  ASSUME Tool
  PROVE  UNCHANGED <<users, ebooks, history, cache, request, flusher, phase,
                     lastAsked, raced, late>>
BY DEF Tool, ListAll, Recount, UpdateTotalPages, ClampToTotalPages, Done, Kill, vars

(* The command keeps the types of the server's state.                      *)
LEMMA ToolKeepsTypes ==
  ASSUME TypeInv, Tool
  PROVE  TypeOK'
<1>1. UNCHANGED <<users, ebooks, history, cache, request, flusher, phase,
                  lastAsked, raced, late>>
  BY ToolFrame
<1>2. RequestTypeOK' /\ FlusherTypeOK'
  BY <1>1 DEF TypeInv, TypeOK, RequestTypeOK, FlusherTypeOK, At, Pair
<1>3. Fine \/ FAULT
  BY DEF Tool, ListAll, Recount, UpdateTotalPages, ClampToTotalPages, Done, Kill, vars, Fine
<1>4. ProcessTypeOK'
  BY <1>1, <1>3, CallType DEF TypeInv, TypeOK
<1>5. totalPages' \in [Ebooks -> Nat]
  <2>1. UNCHANGED totalPages \/ \E e \in Ebooks : totalPages' = [totalPages EXCEPT ![e] = Actual[e]]
    BY DEF Tool, ListAll, Recount, UpdateTotalPages, ClampToTotalPages, Done, Kill, vars,
       TypeInv, ToolTypeOK
  <2>2. QED
    BY <2>1, ActualAssumption DEF TypeInv, TypeOK, StoreTypeOK
<1>6. progress' \in [Pairs -> Rows \cup {NoRow}]
  <2>1. CASE ClampToTotalPages
    <3>1. CASE UNCHANGED progress
      BY <3>1 DEF TypeInv, TypeOK, StoreTypeOK
    <3>2. CASE ~UNCHANGED progress
      <4>1. PICK e \in Ebooks :
              progress' = [p \in Pairs |-> IF p[2] = e THEN Capped(progress[p], Actual[e])
                                           ELSE progress[p]]
        BY <2>1, <3>2 DEF ClampToTotalPages, TypeInv, ToolTypeOK
      <4>2. \A p \in Pairs : progress[p] \in Rows \cup {NoRow}
        BY DEF TypeInv, TypeOK, StoreTypeOK
      <4>3. \A p \in Pairs : Capped(progress[p], Actual[e]) \in Rows \cup {NoRow}
        BY <4>2, CappedType, ActualAssumption
      <4>4. QED
        BY <4>1, <4>2, <4>3
    <3>3. QED
      BY <3>1, <3>2
  <2>2. CASE ~ClampToTotalPages
    BY <2>2 DEF Tool, ListAll, Recount, UpdateTotalPages, Done, Kill, vars, TypeInv,
       TypeOK, StoreTypeOK
  <2>3. QED
    BY <2>1, <2>2
<1>7. QED
  BY <1>1, <1>2, <1>4, <1>5, <1>6 DEF TypeInv, TypeOK, StoreTypeOK

(* The command's own state keeps its type.                                 *)
LEMMA ToolType ==
  ASSUME TypeInv, Tool
  PROVE  ToolTypeOK'
<1> USE DEF TypeInv, ToolTypeOK
<1>1. CASE ListAll
  <2>1. \A e \in ebooks : <<e, totalPages[e]>> \in Ebooks \X Nat
    BY DEF TypeOK, StoreTypeOK
  <2>2. {<<e, totalPages[e]>> : e \in ebooks} \subseteq Ebooks \X Nat
    BY <2>1
  <2> DEFINE todo == {<<e, totalPages[e]>> : e \in ebooks}
  <2>3. tool' = [at |-> "next", todo |-> todo, ebook |-> {}] /\ UNCHANGED fixed
    BY <1>1 DEF ListAll
  <2> HIDE DEF todo
  <2>4. todo \in SUBSET (Ebooks \X Nat)
    BY <2>2 DEF todo
  <2>5. QED
    BY <2>3, <2>4
<1>2. CASE Recount
  <2>1. PICK item \in tool.todo :
          LET rest == [tool EXCEPT !.todo = @ \ {item}] IN
          \/ tool' = rest
          \/ tool' = [rest EXCEPT !.at = "update", !.ebook = {item[1]}]
    BY <1>2 DEF Recount
  <2>2. item[1] \in Ebooks /\ tool.at = "next" /\ UNCHANGED fixed
    BY <1>2 DEF Recount
  <2> DEFINE todo == tool.todo \ {item}
  <2>3. \/ tool' = [at |-> "next", todo |-> todo, ebook |-> tool.ebook]
        \/ tool' = [at |-> "update", todo |-> todo, ebook |-> {item[1]}]
    BY <2>1, <2>2
  <2>4. todo \subseteq Ebooks \X Nat /\ {item[1]} \subseteq Ebooks /\ tool.ebook \subseteq Ebooks
    BY <2>2
  <2> HIDE DEF todo
  <2>5. QED
    BY <2>2, <2>3, <2>4
<1>3. CASE UpdateTotalPages
  BY <1>3 DEF UpdateTotalPages, NextEbook
<1>4. CASE ClampToTotalPages
  BY <1>4 DEF ClampToTotalPages, NextEbook
<1>5. CASE Done \/ Kill
  BY <1>5 DEF Done, Kill, NoTool
<1>6. QED
  BY <1>1, <1>2, <1>3, <1>4, <1>5 DEF Tool

(* Server and command together keep every type.                            *)
LEMMA TypesAlways == FixSpec => []TypeInv
<1>1. FixInit => TypeInv
  BY InitTypes DEF FixInit, TypeInv, ToolTypeOK, NoTool, FirstPageAsked, Init, Idle, At
<1>2. TypeInv /\ [FixNext]_fixVars => TypeInv'
  <2> SUFFICES ASSUME TypeInv, [FixNext]_fixVars PROVE TypeInv'
    OBVIOUS
  <2>1. CASE Tool
    <3>1. FirstPageAsked'
      BY <2>1, ToolFrame DEF TypeInv, FirstPageAsked, At
    <3>2. QED
      BY <2>1, <3>1, ToolKeepsTypes, ToolType DEF TypeInv
  <2>2. CASE Next /\ UNCHANGED <<tool, runs, fixed>>
    BY <2>2, StepTypes, FirstPageStep DEF TypeInv, ToolTypeOK
  <2>3. CASE UNCHANGED fixVars
    <3>1. UNCHANGED vars /\ UNCHANGED request
      BY <2>3 DEF fixVars, vars
    <3>2. QED
      BY <2>3, <3>1, StepTypes DEF TypeInv, ToolTypeOK, FirstPageAsked, At, fixVars
  <2>4. QED
    BY <2>1, <2>2, <2>3 DEF FixNext
<1>3. QED
  BY <1>1, <1>2, PTL DEF FixSpec


-----------------------------------------------------------------------------
(* CappedOnce.  ClampToTotalPages is the only step of the command that     *)
(* writes rows.  It reaches an ebook only by way of a count that was found *)
(* wrong, and the count of a capped ebook is right, in the table and in    *)
(* every list that was taken since; what an older list says of it is gone  *)
(* from the list.                                                          *)

(* The ebook at hand is no capped one, its count was just corrected, and   *)
(* the list does not name it again.                                        *)
AtHand ==
  /\ tool.at \in {"update", "clamp"} =>
       /\ tool.ebook \cap fixed = {}
       /\ \A item \in tool.todo : item[1] \notin tool.ebook
  /\ tool.at = "clamp" => \A e \in tool.ebook : totalPages[e] = Actual[e]

(* The list names an ebook once, and a capped one with its right count.    *)
InList ==
  /\ \A item \in tool.todo : item[1] \in fixed => item[2] = Actual[item[1]]
  /\ \A i, j \in tool.todo : i[1] = j[1] => i = j

CappedInv ==
  /\ \A e \in fixed : totalPages[e] = Actual[e]
  /\ AtHand /\ InList

(* The command works off its list without going back to a capped ebook.    *)
LEMMA ToolCaps ==
  ASSUME TypeInv, CappedInv, Tool
  PROVE  CappedInv'
<1>0. /\ tool \in [at : {"done", "next", "update", "clamp"},
                   todo : SUBSET (Ebooks \X Nat), ebook : SUBSET Ebooks]
      /\ tool.at \in {"update", "clamp"} => \E e \in Ebooks : tool.ebook = {e}
      /\ fixed \subseteq Ebooks /\ totalPages \in [Ebooks -> Nat]
      /\ ebooks \subseteq Ebooks
  BY DEF TypeInv, ToolTypeOK, TypeOK, StoreTypeOK
<1>1. CASE ListAll
  <2> DEFINE todo == {<<e, totalPages[e]>> : e \in ebooks}
  <2>1. tool' = [at |-> "next", todo |-> todo, ebook |-> {}]
        /\ UNCHANGED <<fixed, totalPages>>
    BY <1>1 DEF ListAll, vars
  <2>2. \A item \in todo : item[1] \in ebooks /\ item = <<item[1], totalPages[item[1]]>>
                           /\ item[2] = totalPages[item[1]]
    OBVIOUS
  <2>3. /\ \A item \in todo : item[1] \in fixed => item[2] = Actual[item[1]]
        /\ \A i, j \in todo : i[1] = j[1] => i = j
    <3>1. \A item \in todo : item[1] \in fixed => item[2] = Actual[item[1]]
      BY <2>2 DEF CappedInv
    <3>2. ASSUME NEW i \in todo, NEW j \in todo, i[1] = j[1] PROVE i = j
      <4>1. i = <<i[1], totalPages[i[1]]>> /\ j = <<j[1], totalPages[j[1]]>>
        BY <2>2
      <4>2. QED
        BY <3>2, <4>1
    <3>3. QED
      BY <3>1, <3>2
  <2> HIDE DEF todo
  <2>4. QED
    BY <2>1, <2>3 DEF CappedInv, AtHand, InList
<1>2. CASE Recount
  <2>1. PICK item \in tool.todo :
          LET rest == [tool EXCEPT !.todo = @ \ {item}] IN
          \/ tool' = rest
          \/ /\ item[2] # Actual[item[1]]
             /\ tool' = [rest EXCEPT !.at = "update", !.ebook = {item[1]}]
    BY <1>2 DEF Recount
  <2>2. tool.at = "next" /\ UNCHANGED <<fixed, totalPages>>
    BY <1>2 DEF Recount, vars
  <2> DEFINE todo == tool.todo \ {item}
  <2>3. \/ tool' = [at |-> "next", todo |-> todo, ebook |-> tool.ebook]
        \/ /\ item[2] # Actual[item[1]]
           /\ tool' = [at |-> "update", todo |-> todo, ebook |-> {item[1]}]
    BY <1>0, <2>1, <2>2
  <2>4. todo \subseteq tool.todo /\ \A i \in todo : i[1] # item[1]
    BY DEF CappedInv, InList
  <2>5. item[2] # Actual[item[1]] => item[1] \notin fixed
    BY DEF CappedInv, InList
  <2> HIDE DEF todo
  <2>6. InList'
    BY <2>2, <2>3, <2>4 DEF CappedInv, InList
  <2>7. AtHand'
    BY <2>2, <2>3, <2>4, <2>5 DEF AtHand
  <2>8. QED
    BY <2>2, <2>6, <2>7 DEF CappedInv
<1>3. CASE UpdateTotalPages
  <2>1. UNCHANGED fixed /\ tool.at = "update" /\ tool'.todo = tool.todo
    BY <1>0, <1>3 DEF UpdateTotalPages, NextEbook
  <2>2. \/ \E e \in tool.ebook : /\ totalPages' = [totalPages EXCEPT ![e] = Actual[e]]
                                 /\ tool'.at = "clamp" /\ tool'.ebook = tool.ebook
        \/ UNCHANGED totalPages /\ tool'.at = "next"
    BY <1>0, <1>3 DEF UpdateTotalPages, NextEbook
  <2>3. InList'
    BY <2>1 DEF CappedInv, InList
  <2>4. AtHand'
    BY <1>0, <2>1, <2>2 DEF CappedInv, AtHand
  <2>5. \A e \in fixed' : totalPages'[e] = Actual[e]
    BY <1>0, <2>1, <2>2 DEF CappedInv
  <2>6. QED
    BY <2>3, <2>4, <2>5 DEF CappedInv
<1>4. CASE ClampToTotalPages
  <2>1. /\ UNCHANGED totalPages /\ tool.at = "clamp"
        /\ tool'.todo = tool.todo /\ tool'.at = "next"
    BY <1>0, <1>4 DEF ClampToTotalPages, NextEbook
  <2>2. fixed' \subseteq fixed \cup tool.ebook
    BY <1>4 DEF ClampToTotalPages
  <2>3. InList'
    BY <2>1, <2>2 DEF CappedInv, AtHand, InList
  <2>4. \A e \in fixed' : totalPages'[e] = Actual[e]
    BY <2>1, <2>2 DEF CappedInv, AtHand
  <2>5. QED
    BY <2>1, <2>3, <2>4 DEF CappedInv, AtHand
<1>5. CASE Done \/ Kill
  BY <1>5 DEF Done, Kill, NoTool, CappedInv, AtHand, InList, vars
<1>6. QED
  BY <1>1, <1>2, <1>3, <1>4, <1>5 DEF Tool

(* What is capped has its right count, and stays so.                       *)
LEMMA CappedAlways == FixSpec => []CappedInv
<1>1. FixInit => CappedInv
  BY DEF FixInit, NoTool, CappedInv, AtHand, InList
<1>2. TypeInv /\ CappedInv /\ [FixNext]_fixVars => CappedInv'
  <2> SUFFICES ASSUME TypeInv, CappedInv, [FixNext]_fixVars PROVE CappedInv'
    OBVIOUS
  <2>1. CASE Tool
    BY <2>1, ToolCaps
  <2>2. CASE ~Tool
    <3>1. UNCHANGED <<tool, fixed>> /\ [Next]_vars
      BY <2>2 DEF FixNext, fixVars
    <3>2. UNCHANGED totalPages
      BY <3>1, TotalsConstant
    <3>3. QED
      BY <3>1, <3>2 DEF CappedInv, AtHand, InList
  <2>3. QED
    BY <2>1, <2>2
<1>3. QED
  BY <1>1, <1>2, TypesAlways, PTL DEF FixSpec

(* Started again and again, killed anywhere, the command neither moves nor *)
(* completes the readers of an ebook it has capped.                        *)
THEOREM CapsOnce == FixSpec => CappedOnce
<1>1. TypeInv /\ CappedInv /\ [FixNext]_fixVars =>
        [\A p \in Pairs : Tool /\ p[2] \in fixed => progress'[p] = progress[p]]_fixVars
  <2> SUFFICES ASSUME TypeInv, CappedInv, Tool, NEW p \in Pairs, p[2] \in fixed
               PROVE  progress'[p] = progress[p]
    OBVIOUS
  <2>1. CASE ClampToTotalPages
    <3>1. \A e \in tool.ebook : p[2] # e
      BY <2>1 DEF ClampToTotalPages, CappedInv, AtHand
    <3>2. QED
      BY <2>1, <3>1 DEF ClampToTotalPages
  <2>2. CASE ~ClampToTotalPages
    BY <2>2 DEF Tool, ListAll, Recount, UpdateTotalPages, Done, Kill, vars
  <2>3. QED
    BY <2>1, <2>2
<1>2. QED
  BY <1>1, TypesAlways, CappedAlways, PTL DEF FixSpec, CappedOnce

-----------------------------------------------------------------------------
(* FixHolds, one pair at a time.                                           *)

(* The copies of p's page within the first n pages, as FixHolds has it and *)
(* as ReadingServiceProofs has it.                                         *)
LEMMA CopiesIn ==
  ASSUME TypeInv, TypeInv', NEW p \in Pairs, NEW n \in Nat
  PROVE  /\ (\A page \in Copies(p) : page <= n) <=> PagesIn(p, 0..n)
         /\ (\A page \in Copies(p)' : page <= n) <=> PagesIn(p, 0..n)'
<1>1. \A page \in Copies(p) : page \in Nat
  BY DEF Copies, TypeInv, TypeOK, StoreTypeOK, RequestTypeOK, FlusherTypeOK, Requests,
     Passes, Rows, NoRow
<1>2. \A page \in Copies(p)' : page \in Nat
  BY DEF Copies, TypeInv, TypeOK, StoreTypeOK, RequestTypeOK, FlusherTypeOK, Requests,
     Passes, Rows, NoRow
<1>3. /\ (\A page \in Copies(p) : page \in 0..n) <=> PagesIn(p, 0..n)
      /\ (\A page \in Copies(p)' : page \in 0..n) <=> PagesIn(p, 0..n)'
  BY DEF Copies, PagesIn, StoresIn, FlushersIn, RequestsIn
<1>4. QED
  BY <1>1, <1>2, <1>3

(* The command only ever lowers a page.                                    *)
LEMMA ToolIn ==
  ASSUME TypeInv, NEW p \in Pairs, NEW n \in Nat, PagesIn(p, 0..n), Tool
  PROVE  PagesIn(p, 0..n)'
<1>1. UNCHANGED <<cache, request, flusher>>
  BY ToolFrame
<1>2. progress[p] \in Rows \cup {NoRow}
  BY DEF TypeInv, TypeOK, StoreTypeOK
<1>3. progress'[p] = progress[p] \/ \E e \in Ebooks : progress'[p] = Capped(progress[p], Actual[e])
  <2>1. CASE ClampToTotalPages
    <3>1. tool.ebook \subseteq Ebooks
      BY DEF TypeInv, ToolTypeOK
    <3>2. UNCHANGED progress \/ \E e \in Ebooks :
            progress' = [q \in Pairs |-> IF q[2] = e THEN Capped(progress[q], Actual[e])
                                         ELSE progress[q]]
      BY <2>1, <3>1 DEF ClampToTotalPages
    <3>3. QED
      BY <3>2
  <2>2. CASE ~ClampToTotalPages
    BY <2>2 DEF Tool, ListAll, Recount, UpdateTotalPages, Done, Kill, vars
  <2>3. QED
    BY <2>1, <2>2
<1>4. progress'[p].last_page <= progress[p].last_page
  <2>1. ASSUME NEW e \in Ebooks
        PROVE  Capped(progress[p], Actual[e]).last_page <= progress[p].last_page
    <3>1. CASE progress[p] = NoRow
      BY <3>1 DEF Capped, NoRow
    <3>2. CASE progress[p] # NoRow
      BY <1>2, <3>2, CappedType, ActualAssumption
    <3>3. QED
      BY <3>1, <3>2
  <2>2. progress[p].last_page \in Nat
    BY <1>2, PagesAssumption DEF Rows, NoRow
  <2>3. QED
    BY <1>3, <2>1, <2>2
<1>5. progress[p].last_page \in Nat /\ progress'[p].last_page \in Nat
  <2>1. progress'[p] \in Rows \cup {NoRow}
    BY ToolKeepsTypes DEF TypeOK, StoreTypeOK
  <2>2. QED
    BY <1>2, <2>1, PagesAssumption DEF Rows, NoRow
<1>6. progress'[p].last_page \in 0..n
  BY <1>4, <1>5 DEF PagesIn, StoresIn
<1>7. QED
  BY <1>1, <1>6 DEF PagesIn, StoresIn, FlushersIn, RequestsIn, At, Pair

(* Once every copy of a page lies within a recounted document, none that   *)
(* is past its end comes back, whatever server and command do: the clamp   *)
(* of a page turn lies within, and nobody makes up a page.                 *)
THEOREM CopiesStayWithin == FixSpec => FixHolds
<1>1. TypeInv /\ TypeInv' /\ [FixNext]_fixVars =>
        [\A p \in Pairs : LET n == Actual[p[2]] IN
           totalPages[p[2]] = n /\ (\A page \in Copies(p) : page <= n)
             => \A page \in Copies(p)' : page <= n]_fixVars
  <2> SUFFICES ASSUME TypeInv, TypeInv', FixNext, NEW p \in Pairs,
                      totalPages[p[2]] = Actual[p[2]],
                      \A page \in Copies(p) : page <= Actual[p[2]]
               PROVE  \A page \in Copies(p)' : page <= Actual[p[2]]
    OBVIOUS
  <2>1. PICK n \in Nat \ {0} : n = Actual[p[2]]
    BY ActualAssumption DEF Pairs
  <2>2. PagesIn(p, 0..n)
    BY <2>1, CopiesIn
  <2>3. PagesIn(p, 0..n)'
    <3>1. CASE Tool
      BY <2>2, <3>1, ToolIn
    <3>2. CASE Next
      <4>1. Asked(p) \subseteq 0..n /\ 0 \in 0..n /\ 1 \in 0..n
        BY <2>1, AskedWithin DEF TypeInv
      <4>2. QED
        BY <2>2, <3>2, <4>1, StepIn DEF TypeInv
    <3>3. QED
      BY <3>1, <3>2 DEF FixNext
  <2>4. QED
    BY <2>1, <2>3, CopiesIn
<1>2. QED
  BY <1>1, TypesAlways, PTL DEF FixSpec, FixHolds
=============================================================================
