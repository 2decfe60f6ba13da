--------------------------- MODULE ListPageProofs ---------------------------
(***************************************************************************)
(* Theorems about ListPage, for any filters, rows, links and bounds: the   *)
(* answer on screen is to the question in the URL, the search box shows    *)
(* the query in force, the pages of a filter hold each of its rows once,   *)
(* and an empty page is shown only of an empty list.                       *)
(***************************************************************************)
EXTENDS ListPage, FiniteSetTheorems, FunctionTheorems, TLAPS

-----------------------------------------------------------------------------
(* Types.                                                                  *)

Requests == [seq : Nat, of : Questions, at : {"first", "second", "answered"},
             rows : SUBSET Ids, total : Nat, torn : BOOLEAN]
Queries == {f.q : f \in Filters["ebooks"]}

RowsOK == DOMAIN store = Ids /\ \A i \in Ids : store[i] \in Forms[kind][i] \cup {Gone}
StackOK == stack \in Seq(Questions) /\ top \in 1..Len(stack)
RequestsOK ==
  /\ requests \subseteq Requests /\ seq \in Nat
  /\ \A r \in requests : r.seq \in 1..seq
PageOK ==
  /\ loading \in BOOLEAN /\ failed \in BOOLEAN /\ outdated \in BOOLEAN
  /\ shown \in [rows : SUBSET Ids, total : Nat, of : Questions, torn : BOOLEAN]
  /\ managing \in {<<>>} \cup {<<question>> : question \in Questions}
  /\ pending \in {None} \cup (IF kind = "ebooks" THEN Queries ELSE {})

(* TypeOK, with what stands on the stack and in the requests in full.      *)
TypeInv == kind \in Kinds /\ RowsOK /\ StackOK /\ RequestsOK /\ PageOK

(* Every list has a first page.                                            *)
LEMMA SomePage ==
  ASSUME NEW total \in Nat
  PROVE  Pages(total) \in Nat \ {0}
<1>1. CASE total = 0
  BY <1>1 DEF Pages
<1>2. CASE total # 0
  <2>1. PerPage \in Nat \ {0} /\ total + PerPage - 1 \in Nat /\ total + PerPage - 1 >= PerPage
    BY <1>2, PerPageAssumption
  <2>2. ASSUME NEW n \in Nat \ {0}, NEW a \in Nat, a >= n PROVE a \div n \in Nat \ {0}
    BY <2>2
  <2>3. Pages(total) = (total + PerPage - 1) \div PerPage
    BY <1>2 DEF Pages
  <2> DEFINE n == PerPage
             a == total + PerPage - 1
  <2>4. n \in Nat \ {0} /\ a \in Nat /\ a >= n /\ Pages(total) = a \div n
    BY <2>1, <2>3
  <2> HIDE DEF n, a
  <2>5. QED
    BY <2>2, <2>4
<1>3. QED
  BY <1>1, <1>2

(* So has the last page of a question.                                     *)
LEMMA LastPageType ==
  ASSUME NEW question \in Questions, NEW total \in Nat
  PROVE  /\ LastPage(question, total) \in Questions
         /\ LastPage(question, total).filter = question.filter
BY SomePage DEF Questions, LastPage

(* There are finitely many rows, each with an id of its own.               *)
LEMMA RowsFinite ==
  ASSUME TypeInv
  PROVE  IsFiniteSet(Existing) /\ \A b \in Existing : b.id \in Ids
<1>1. IsFiniteSet({store[i] : i \in Ids})
  <2> DEFINE read == [i \in Ids |-> store[i]]
             rows == {store[i] : i \in Ids}
  <2>1. read \in [Ids -> rows] /\ \A b \in rows : \E i \in Ids : read[i] = b
    OBVIOUS
  <2>2. read \in Surjection(Ids, rows)
    BY <2>1 DEF Surjection
  <2> HIDE DEF read, rows
  <2>3. IsFiniteSet(rows)
    BY <2>2, RowAssumption, FS_Surjection
  <2>4. QED
    BY <2>3 DEF rows
<1>2. IsFiniteSet(Existing)
  BY <1>1, FS_Subset DEF Existing
<1>3. \A b \in Existing : b.id \in Ids
  BY RowAssumption DEF Existing, TypeInv, RowsOK
<1>4. QED
  BY <1>2, <1>3

LEMMA TotalType ==
  ASSUME TypeInv, NEW r
  PROVE  Total(r) \in Nat
<1>1. IsFiniteSet(Matching(r.of.filter, Existing))
  BY RowsFinite, FS_Subset DEF Matching
<1>2. IsFiniteSet({b \in Existing : InTab(r.of.filter, b)})
  BY RowsFinite, FS_Subset
<1>3. QED
  BY <1>1, <1>2, FS_CardinalityType DEF Total, EbookTotal, HistoryTotal

LEMMA RowsType ==
  ASSUME TypeInv, NEW r, NEW rows \in Rows(r)
  PROVE  {b.id : b \in rows} \subseteq Ids
<1>1. rows \subseteq Existing
  BY DEF Rows, EbookRows, HistoryPages, Slice, Matching
<1>2. QED
  BY <1>1, RowsFinite

-----------------------------------------------------------------------------
(* Requests that are sent.                                                 *)

Known(others) == others \subseteq Requests /\ \A r \in others : r.seq \in 1..seq

(* One or two questions were asked beside others; the newest asks for q.   *)
Loaded(others, q) ==
  /\ seq' \in Nat /\ seq < seq'
  /\ requests' \subseteq Requests /\ others \subseteq requests'
  /\ \E r \in requests' : r.seq = seq'
  /\ \A r \in requests' :
       /\ r \in others \/ (r.seq > seq /\ r.at = "first")
       /\ r.seq \in 1..seq'
       /\ r.seq = seq' => r.of = q
       /\ \A t \in requests' : r.seq > seq /\ r.seq = t.seq => r = t

LEMMA AskingType ==
  ASSUME NEW n \in Nat, NEW q \in Questions
  PROVE  /\ Asking(n, q) \in Requests
         /\ Asking(n, q).seq = n /\ Asking(n, q).of = q /\ Asking(n, q).at = "first"
BY DEF Asking, Requests

LEMMA LoadNone ==
  ASSUME NEW others, NEW view, Load(others, <<>>, view)
  PROVE  requests' = others /\ seq' = seq + 0 /\ outdated' = outdated
BY DEF Load

LEMMA LoadOne ==
  ASSUME seq \in Nat, NEW others, Known(others), NEW q \in Questions, NEW view,
         Load(others, <<q>>, view)
  PROVE  Loaded(others, q) /\ outdated' = (q # view)
<1>1. /\ requests' = others \cup {Asking(seq + 1, q)} /\ seq' = seq + 1
      /\ outdated' = (q # view)
  BY DEF Load
<1>2. /\ Asking(seq + 1, q) \in Requests /\ Asking(seq + 1, q).seq = seq + 1
      /\ Asking(seq + 1, q).of = q /\ Asking(seq + 1, q).at = "first"
  BY AskingType
<1> DEFINE new == Asking(seq + 1, q)
<1> HIDE DEF new
<1>3. QED
  BY <1>1, <1>2 DEF Known, Loaded, new

LEMMA LoadTwo ==
  ASSUME seq \in Nat, NEW others, Known(others), NEW p \in Questions, NEW q \in Questions,
         NEW view, Load(others, <<p, q>>, view)
  PROVE  Loaded(others, q) /\ outdated' = (q # view)
<1>1. /\ requests' = others \cup {Asking(seq + 1, p), Asking(seq + 2, q)} /\ seq' = seq + 2
      /\ outdated' = (q # view)
  BY DEF Load
<1> DEFINE first == Asking(seq + 1, p)
           second == Asking(seq + 2, q)
<1>2. /\ first \in Requests /\ first.seq = seq + 1 /\ first.at = "first"
      /\ second \in Requests /\ second.seq = seq + 2 /\ second.of = q /\ second.at = "first"
  BY AskingType
<1>3. requests' = others \cup {first, second}
  BY <1>1
<1> HIDE DEF first, second
<1>4. QED
  BY <1>1, <1>2, <1>3 DEF Known, Loaded

(* What is asked beside known requests is known. *)
LEMMA LoadedType ==
  ASSUME NEW others, NEW q, Loaded(others, q), kind' = kind
  PROVE  RequestsOK'
BY DEF Loaded, RequestsOK, Requests, Questions

-----------------------------------------------------------------------------
(* A change of the URL.                                                    *)

(* The page lands on q, an entry it was sent to or the last page of it; if *)
(* the entry is another one than before, the newest request asks for q.    *)
Landed(entry, q) ==
  /\ stack' \in Seq(Questions) /\ top' \in 1..Len(stack') /\ stack'[top'] = q
  /\ q \in Questions /\ q.filter = entry.filter /\ box' = BoxAfter(q)
  /\ loading' = (loading \/ entry # Here)
  /\ IF entry = Here
     THEN q = Here /\ requests' = requests /\ seq' = seq /\ outdated' = outdated
     ELSE Loaded(requests, q) /\ outdated' = FALSE

LEMMA Lands ==
  ASSUME TypeInv, NEW s \in Seq(Questions), NEW i \in 1..Len(s), GoTo(s, i)
  PROVE  \E q : Landed(s[i], q)
<1> DEFINE asked == s[i]
           past == ~loading /\ asked.page # Here.page /\ PastEnd(asked, shown.total)
           landed == IF past THEN LastPage(asked, shown.total) ELSE asked
<1>1. asked \in Questions /\ shown.total \in Nat /\ Known(requests) /\ seq \in Nat
  BY DEF TypeInv, PageOK, RequestsOK, Known
<1>2. landed \in Questions /\ landed.filter = asked.filter
  BY <1>1, LastPageType
<1>3. /\ stack' = [s EXCEPT ![i] = landed] /\ top' = i
      /\ Load(requests, IF asked = Here THEN <<>> ELSE IF past THEN <<asked, landed>> ELSE <<asked>>, landed)
      /\ loading' = (loading \/ asked # Here)
      /\ box' = BoxAfter(landed)
  BY DEF GoTo
<1>4. ~past => landed = asked
  OBVIOUS
<1>5. asked = Here => ~past
  OBVIOUS
<1> HIDE DEF asked, past, landed
<1>6. stack' \in Seq(Questions) /\ top' \in 1..Len(stack') /\ stack'[top'] = landed
  BY <1>2, <1>3
<1>7. CASE asked = Here
  <2>1. Load(requests, <<>>, landed)
    BY <1>3, <1>7
  <2>2. requests' = requests /\ seq' = seq /\ outdated' = outdated
    BY <1>1, <2>1, LoadNone
  <2>3. QED
    BY <1>2, <1>3, <1>4, <1>5, <1>6, <1>7, <2>2 DEF Landed, asked
<1>8. CASE asked # Here
  <2>1. CASE past
    <3>1. Load(requests, <<asked, landed>>, landed)
      BY <1>3, <1>8, <2>1
    <3>2. Loaded(requests, landed) /\ outdated' = FALSE
      BY <1>1, <1>2, <3>1, LoadTwo
    <3>3. QED
      BY <1>2, <1>3, <1>6, <1>8, <3>2 DEF Landed, asked
  <2>2. CASE ~past
    <3>1. Load(requests, <<landed>>, landed)
      BY <1>3, <1>4, <1>8, <2>2
    <3>2. Loaded(requests, landed) /\ outdated' = FALSE
      BY <1>1, <1>2, <3>1, LoadOne
    <3>3. QED
      BY <1>2, <1>3, <1>6, <1>8, <3>2 DEF Landed, asked
  <2>3. QED
    BY <2>1, <2>2
<1>9. QED
  BY <1>7, <1>8

(* The steps that change the URL, and what they make of the search.        *)
Moves == SetFilter \/ TurnTo \/ Back \/ Forward \/ CommitSearch

LEMMA MovesLand ==
  ASSUME TypeInv, Moves
  PROVE  /\ UNCHANGED <<kind, store, failed, shown, managing>>
         /\ \E entry, q : /\ Landed(entry, q)
                          /\ \/ pending' = pending
                             \/ kind = "ebooks" /\ pending # None /\ pending' = None
                                /\ entry.filter.q = pending
<1>1. UNCHANGED <<kind, store, failed, shown, managing>>
  BY DEF Moves, SetFilter, TurnTo, Back, Forward, CommitSearch
<1>2. stack \in Seq(Questions) /\ top \in 1..Len(stack) /\ Here \in Questions
  BY DEF TypeInv, StackOK, Here
<1>3. ASSUME NEW question \in Questions, Push(question), pending' = pending
      PROVE  \E entry, q : Landed(entry, q) /\ pending' = pending
  <2> DEFINE s == Append(SubSeq(stack, 1, top), question)
  <2>1. s \in Seq(Questions) /\ top + 1 \in 1..Len(s)
    BY <1>2
  <2>2. GoTo(s, top + 1)
    BY <1>3 DEF Push
  <2> HIDE DEF s
  <2>3. QED
    BY <1>3, <2>1, <2>2, Lands
<1>4. CASE SetFilter
  <2>1. PICK f \in Filters[kind] : Push([filter |-> f, page |-> 1])
    BY <1>4 DEF SetFilter
  <2>2. [filter |-> f, page |-> 1] \in Questions
    BY DEF Questions
  <2>3. QED
    BY <1>1, <1>3, <1>4, <2>1, <2>2 DEF SetFilter
<1>5. CASE TurnTo
  <2>1. PICK n \in (1..Pages(shown.total) \cup {Here.page - 1}) \ {0, Here.page} :
          Push([Here EXCEPT !.page = n])
    BY <1>5 DEF TurnTo
  <2>2. [Here EXCEPT !.page = n] \in Questions
    <3>1. n \in Nat \ {0}
      <4>1. Pages(shown.total) \in Nat /\ Here.page \in Nat \ {0}
        BY <1>2, SomePage DEF TypeInv, PageOK, Questions
      <4>2. QED
        BY <2>1, <4>1
    <3>2. QED
      BY <1>2, <3>1 DEF Questions
  <2>3. QED
    BY <1>1, <1>3, <1>5, <2>1, <2>2 DEF TurnTo
<1>6. CASE Back
  <2>1. GoTo(stack, top - 1) /\ top - 1 \in 1..Len(stack) /\ pending' = pending
    BY <1>2, <1>6 DEF Back
  <2>2. QED
    BY <1>1, <1>2, <2>1, Lands
<1>7. CASE Forward
  <2>1. GoTo(stack, top + 1) /\ top + 1 \in 1..Len(stack) /\ pending' = pending
    BY <1>2, <1>7 DEF Forward
  <2>2. QED
    BY <1>1, <1>2, <2>1, Lands
<1>8. CASE CommitSearch
  <2> DEFINE filter == [Here.filter EXCEPT !.q = pending]
             entry == [filter |-> filter, page |-> 1]
             s == [stack EXCEPT ![top] = entry]
  <2>1. kind = "ebooks" /\ pending \in Queries /\ pending # None
    BY <1>8 DEF CommitSearch, TypeInv, PageOK
  <2>2. Here.filter \in Filters["ebooks"] /\ "ebooks" \in Kinds
    BY <1>2, <2>1 DEF Questions, TypeInv
  <2>3. PICK g \in Filters["ebooks"] : pending = g.q
    BY <2>1 DEF Queries
  <2>4. filter \in Filters[kind] /\ filter.q = pending
    BY <2>1, <2>2, <2>3, FilterAssumption
  <2> HIDE DEF filter
  <2>5. entry \in Questions /\ entry.filter.q = pending
    BY <2>4 DEF Questions
  <2>6. GoTo(s, top) /\ pending' = None
    BY <1>8 DEF CommitSearch, filter
  <2> HIDE DEF entry
  <2>7. s \in Seq(Questions) /\ top \in 1..Len(s) /\ s[top] = entry
    BY <1>2, <2>5
  <2> HIDE DEF s
  <2>8. \E q : Landed(entry, q)
    BY <2>6, <2>7, Lands
  <2>9. QED
    BY <1>1, <2>1, <2>5, <2>6, <2>8
<1>9. QED
  BY <1>4, <1>5, <1>6, <1>7, <1>8 DEF Moves

-----------------------------------------------------------------------------
(* Each step keeps the types.                                              *)

LEMMA MovesType ==
  ASSUME TypeInv, Moves
  PROVE  TypeInv'
<1>1. /\ UNCHANGED <<kind, store, failed, shown, managing>>
      /\ pending' \in {pending, None}
      /\ \E entry, q : Landed(entry, q)
  BY MovesLand
<1>2. PICK entry, q : Landed(entry, q)
  BY <1>1
<1>3. Questions' = Questions /\ RowsOK' /\ StackOK'
  BY <1>1, <1>2 DEF TypeInv, RowsOK, StackOK, Questions, Landed
<1>4. RequestsOK'
  <2>1. CASE entry = Here
    BY <1>1, <1>2, <2>1 DEF Landed, TypeInv, RequestsOK, Requests, Questions
  <2>2. CASE entry # Here
    BY <1>1, <1>2, <2>2, LoadedType DEF Landed
  <2>3. QED
    BY <2>1, <2>2
<1>5. PageOK'
  BY <1>1, <1>2, <1>3 DEF TypeInv, PageOK, Landed
<1>6. QED
  BY <1>1, <1>3, <1>4, <1>5 DEF TypeInv

(* A request between whose statements a row changes is marked.             *)
Torn(r) == [r EXCEPT !.torn = @ \/ r.at = "second"]
Marked == {Torn(r) : r \in requests}

LEMMA MarkedType ==
  ASSUME TypeInv
  PROVE  /\ Known(Marked)
         /\ \A r \in Marked : \E t \in requests : r = Torn(t) /\ r.seq = t.seq /\ r.of = t.of
<1>1. \A t \in requests : /\ Torn(t) \in Requests /\ Torn(t).seq = t.seq
                          /\ Torn(t).of = t.of /\ t.seq \in 1..seq
  BY DEF TypeInv, RequestsOK, Requests, Torn
<1>2. QED
  BY <1>1 DEF Known, Marked

(* A served request is the same one, further on.                           *)
LEMMA ServeSame ==
  ASSUME TypeInv, NEW r \in requests, Serve(r)
  PROVE  /\ \E next \in Requests : /\ next.seq = r.seq /\ next.of = r.of
                                   /\ requests' = (requests \ {r}) \cup {next}
         /\ UNCHANGED <<kind, store, stack, top, seq, loading, failed, shown, box,
                        pending, managing, outdated>>
<1>0. r \in Requests
  BY DEF TypeInv, RequestsOK
<1>1. ASSUME NEW at \in {"second", "answered"}, SelectRows(r, at)
      PROVE  \E next \in Requests : /\ next.seq = r.seq /\ next.of = r.of
                                    /\ requests' = (requests \ {r}) \cup {next}
  <2>1. PICK rows \in Rows(r) :
          Becomes(r, [r EXCEPT !.at = at, !.rows = {b.id : b \in rows}])
    BY <1>1 DEF SelectRows
  <2> DEFINE ids == {b.id : b \in rows}
  <2>2. ids \subseteq Ids /\ Becomes(r, [r EXCEPT !.at = at, !.rows = ids])
    BY <2>1, RowsType
  <2> HIDE DEF ids
  <2> DEFINE next == [r EXCEPT !.at = at, !.rows = ids]
  <2>3. next \in Requests /\ next.seq = r.seq /\ next.of = r.of
    BY <1>0, <2>2 DEF Requests
  <2>4. QED
    BY <2>2, <2>3 DEF Becomes
<1>2. ASSUME NEW at \in {"second", "answered"}, CountRows(r, at)
      PROVE  \E next \in Requests : /\ next.seq = r.seq /\ next.of = r.of
                                    /\ requests' = (requests \ {r}) \cup {next}
  <2> DEFINE total == Total(r)
             next == [r EXCEPT !.at = at, !.total = total]
  <2>1. total \in Nat
    BY TotalType
  <2>2. requests' = (requests \ {r}) \cup {next}
    BY <1>2 DEF CountRows, Becomes
  <2> HIDE DEF total
  <2>3. next \in Requests /\ next.seq = r.seq /\ next.of = r.of
    BY <1>0, <2>1 DEF Requests
  <2>4. QED
    BY <2>2, <2>3
<1>3. QED
  BY <1>1, <1>2 DEF Serve

LEMMA ServeType ==
  ASSUME TypeInv, NEW r \in requests, Serve(r)
  PROVE  TypeInv'
<1>1. PICK next \in Requests : /\ next.seq = r.seq /\ next.of = r.of
                               /\ requests' = (requests \ {r}) \cup {next}
  BY ServeSame
<1>2. UNCHANGED <<kind, store, stack, top, seq, loading, failed, shown, pending,
                  managing, outdated>>
  BY ServeSame
<1>3. Questions' = Questions /\ Requests' = Requests
  BY <1>2 DEF Questions, Requests
<1>4. RequestsOK'
  BY <1>1, <1>2, <1>3 DEF TypeInv, RequestsOK
<1>5. RowsOK' /\ StackOK' /\ PageOK'
  BY <1>2, <1>3 DEF TypeInv, RowsOK, StackOK, PageOK
<1>6. QED
  BY <1>2, <1>4, <1>5 DEF TypeInv

(* Where the page stands once loading has ended with a total.              *)
Rested(others, total) ==
  \/ stack' = stack /\ loading' = FALSE /\ requests' = others /\ seq' = seq
     /\ outdated' = outdated
  \/ LET last == LastPage(Here, total) IN
     /\ last \in Questions /\ last.filter = Here.filter
     /\ stack' = [stack EXCEPT ![top] = last]
     /\ loading' = TRUE /\ Loaded(others, last) /\ outdated' = FALSE

LEMMA SettleRests ==
  ASSUME TypeInv, NEW others, others \subseteq requests, NEW total \in Nat,
         Settle(others, total)
  PROVE  Rested(others, total)
<1> DEFINE last == LastPage(Here, total)
<1>1. Known(others) /\ seq \in Nat /\ Here \in Questions
  BY DEF TypeInv, RequestsOK, Known, StackOK, Here
<1>2. last \in Questions /\ last.filter = Here.filter
  BY <1>1, LastPageType
<1>3. CASE PastEnd(Here, total)
  <2>1. stack' = [stack EXCEPT ![top] = last] /\ loading' = TRUE /\ Load(others, <<last>>, last)
    BY <1>3 DEF Settle
  <2> HIDE DEF last
  <2>2. Loaded(others, last) /\ outdated' = FALSE
    BY <1>1, <1>2, <2>1, LoadOne
  <2>3. QED
    BY <1>2, <2>1, <2>2 DEF Rested, last
<1>4. CASE ~PastEnd(Here, total)
  BY <1>1, <1>4, LoadNone DEF Settle, Rested
<1>5. QED
  BY <1>3, <1>4

LEMMA RestedType ==
  ASSUME TypeInv, NEW others, others \subseteq requests, NEW total, Rested(others, total),
         kind' = kind, top' = top
  PROVE  StackOK' /\ RequestsOK' /\ loading' \in BOOLEAN /\ outdated' \in BOOLEAN
<1>1. Questions' = Questions /\ Requests' = Requests
  BY DEF Questions, Requests
<1>2. loading' \in BOOLEAN /\ outdated' \in BOOLEAN
  BY DEF Rested, TypeInv, PageOK
<1>3. CASE stack' = stack /\ requests' = others /\ seq' = seq
  <2>1. StackOK'
    BY <1>1, <1>3 DEF TypeInv, StackOK
  <2>2. RequestsOK'
    BY <1>1, <1>3 DEF TypeInv, RequestsOK
  <2>3. QED
    BY <1>2, <2>1, <2>2
<1>4. CASE \E last \in Questions : stack' = [stack EXCEPT ![top] = last]
                                   /\ Loaded(others, last)
  <2>1. StackOK'
    BY <1>1, <1>4 DEF TypeInv, StackOK
  <2>2. RequestsOK'
    BY <1>4, LoadedType
  <2>3. QED
    BY <1>2, <2>1, <2>2
<1>5. QED
  BY <1>3, <1>4 DEF Rested

(* An answer, or a failure, with what the page then shows.                 *)
Ended(r) ==
  /\ UNCHANGED <<kind, store, top, box, pending, managing>>
  /\ IF Newest(r)
     THEN /\ shown' \in [rows : SUBSET Ids, total : Nat, of : Questions, torn : BOOLEAN]
          /\ failed' \in BOOLEAN /\ (~failed' => shown'.of = r.of)
          /\ \E total \in Nat : Rested(requests \ {r}, total)
     ELSE /\ requests' = requests \ {r}
          /\ UNCHANGED <<stack, seq, loading, failed, shown, outdated>>

LEMMA Ends ==
  ASSUME TypeInv, NEW r \in requests, Deliver(r) \/ Fail(r)
  PROVE  Ended(r)
<1>1. r \in Requests /\ shown \in [rows : SUBSET Ids, total : Nat, of : Questions, torn : BOOLEAN]
  BY DEF TypeInv, RequestsOK, PageOK
<1>2. CASE ~Newest(r)
  BY <1>2 DEF Deliver, Fail, Ended
<1>3. CASE Newest(r) /\ Deliver(r)
  <2>1. shown' = [rows |-> r.rows, total |-> r.total, of |-> r.of, torn |-> r.torn]
        /\ failed' = FALSE /\ Settle(requests \ {r}, r.total)
        /\ UNCHANGED <<kind, store, top, box, pending, managing>>
    BY <1>3 DEF Deliver
  <2>2. r.total \in Nat /\ r.rows \subseteq Ids /\ r.of \in Questions /\ r.torn \in BOOLEAN
    BY <1>1 DEF Requests
  <2>3. Rested(requests \ {r}, r.total)
    BY <2>1, <2>2, SettleRests
  <2>4. QED
    BY <1>3, <2>1, <2>2, <2>3 DEF Ended
<1>4. CASE Newest(r) /\ Fail(r)
  <2> DEFINE total == IF kind = "history" THEN 0 ELSE shown.total
  <2>1. /\ shown' = IF kind = "history" THEN [shown EXCEPT !.rows = {}, !.total = 0] ELSE shown
        /\ failed' = TRUE /\ Settle(requests \ {r}, total)
        /\ UNCHANGED <<kind, store, top, box, pending, managing>>
    BY <1>4 DEF Fail
  <2>2. total \in Nat
    BY <1>1
  <2>3. shown' \in [rows : SUBSET Ids, total : Nat, of : Questions, torn : BOOLEAN]
    BY <1>1, <2>1
  <2> HIDE DEF total
  <2>4. Rested(requests \ {r}, total)
    BY <2>1, <2>2, SettleRests
  <2>5. QED
    BY <1>4, <2>1, <2>2, <2>3, <2>4 DEF Ended
<1>5. QED
  BY <1>2, <1>3, <1>4

LEMMA EndType ==
  ASSUME TypeInv, NEW r \in requests, Deliver(r) \/ Fail(r)
  PROVE  TypeInv'
<1>1. Ended(r) /\ kind' = kind /\ Questions' = Questions /\ Requests' = Requests
  BY Ends DEF Ended, Questions, Requests
<1>2. RowsOK'
  BY <1>1 DEF Ended, TypeInv, RowsOK
<1>3. CASE Newest(r)
  <2>1. PICK total \in Nat : Rested(requests \ {r}, total)
    BY <1>1, <1>3 DEF Ended
  <2>2. StackOK' /\ RequestsOK' /\ loading' \in BOOLEAN /\ outdated' \in BOOLEAN
    BY <1>1, <2>1, RestedType DEF Ended
  <2>3. PageOK'
    BY <1>1, <1>3, <2>2 DEF Ended, TypeInv, PageOK
  <2>4. QED
    BY <1>1, <1>2, <2>2, <2>3 DEF TypeInv
<1>4. CASE ~Newest(r)
  <2>1. StackOK' /\ PageOK'
    BY <1>1, <1>4 DEF Ended, TypeInv, StackOK, PageOK
  <2>2. RequestsOK'
    BY <1>1, <1>4 DEF Ended, TypeInv, RequestsOK
  <2>3. QED
    BY <1>1, <1>2, <2>1, <2>2 DEF TypeInv
<1>5. QED
  BY <1>3, <1>4

(* Rows that are written keep their ids.                                   *)
LEMMA WriteType ==
  ASSUME TypeInv, NEW rewrites, rewrites \subseteq Rewrites, Write(rewrites), kind' = kind
  PROVE  RowsOK'
<1>1. PICK w \in rewrites : store' = [store EXCEPT ![w[1]] = w[2]]
  BY DEF Write
<1>2. PICK i \in Ids : \E new \in Forms[kind][i] \cup {Gone} : w = <<i, new>>
  BY DEF Rewrites
<1>3. QED
  BY <1>1, <1>2 DEF TypeInv, RowsOK

LEMMA OtherType ==
  ASSUME TypeInv, Type \/ Change \/ Manage \/ Managed \/ ManageFails
  PROVE  TypeInv'
<1>0. kind' = kind /\ stack' = stack /\ top' = top
  BY DEF Type, Change, Manage, Managed, ManageFails
<1>1. Questions' = Questions /\ Requests' = Requests /\ StackOK'
  BY <1>0 DEF Questions, Requests, TypeInv, StackOK
<1>2. CASE Type
  <2>1. kind = "ebooks" /\ pending' \in Queries
    BY <1>2 DEF Type, Queries
  <2>2. RowsOK' /\ RequestsOK' /\ PageOK'
    BY <1>0, <1>1, <1>2, <2>1 DEF Type, TypeInv, RowsOK, RequestsOK, PageOK
  <2>3. QED
    BY <1>0, <1>1, <2>2 DEF TypeInv
<1>3. CASE Change
  <2>1. /\ requests' = Marked /\ Write(Rewrites)
        /\ UNCHANGED <<seq, loading, failed, shown, pending, managing, outdated>>
    BY <1>3 DEF Change, Marked, Torn
  <2>2. RowsOK' /\ RequestsOK'
    BY <1>0, <1>1, <2>1, WriteType, MarkedType DEF Known, TypeInv, RequestsOK
  <2>3. PageOK'
    BY <1>0, <1>1, <2>1 DEF TypeInv, PageOK
  <2>4. QED
    BY <1>0, <1>1, <2>2, <2>3 DEF TypeInv
<1>4. CASE Manage \/ ManageFails
  <2>1. /\ managing' \in {<<>>, <<Here>>}
        /\ UNCHANGED <<store, requests, seq, loading, failed, shown, pending, outdated>>
    BY <1>4 DEF Manage, ManageFails
  <2>2. Here \in Questions
    BY DEF Here, TypeInv, StackOK
  <2>3. RowsOK' /\ RequestsOK' /\ PageOK'
    BY <1>0, <1>1, <2>1, <2>2 DEF TypeInv, RowsOK, RequestsOK, PageOK
  <2>4. QED
    BY <1>0, <1>1, <2>3 DEF TypeInv
<1>5. CASE Managed
  <2>1. /\ managing # <<>> /\ managing' = <<>> /\ Write(MyRewrites) /\ loading' = TRUE
        /\ Load(Marked, managing, Here) /\ UNCHANGED <<failed, shown, pending>>
    BY <1>5 DEF Managed, Marked, Torn
  <2>2. PICK q \in Questions : managing = <<q>>
    BY <2>1 DEF TypeInv, PageOK
  <2>3. Loaded(Marked, q) /\ outdated' = (q # Here)
    BY <2>1, <2>2, MarkedType, LoadOne DEF TypeInv, RequestsOK
  <2>4. RequestsOK' /\ RowsOK'
    BY <1>0, <2>1, <2>3, LoadedType, WriteType DEF MyRewrites
  <2>5. PageOK'
    BY <1>0, <1>1, <2>1, <2>3 DEF TypeInv, PageOK
  <2>6. QED
    BY <1>0, <1>1, <2>4, <2>5 DEF TypeInv
<1>6. QED
  BY <1>2, <1>3, <1>4, <1>5

LEMMA InitType == Init => TypeInv
<1> SUFFICES ASSUME Init PROVE TypeInv
  OBVIOUS
<1>1. kind \in Kinds /\ RowsOK
  BY StartAssumption DEF Init, RowsOK, Gone
<1>2. stack \in Seq(Questions) /\ stack # <<>> /\ top = 1
  BY <1>1, LinkAssumption DEF Init, Questions
<1>3. StackOK
  BY <1>2 DEF StackOK
<1>4. Here \in Questions
  BY <1>3 DEF StackOK, Here
<1>5. RequestsOK
  <2>1. seq = 1 /\ requests = {Asking(1, Here)}
    BY DEF Init
  <2>2. QED
    BY <1>4, <2>1, AskingType DEF RequestsOK
<1>6. PageOK
  BY <1>4 DEF Init, PageOK
<1>7. QED
  BY <1>1, <1>3, <1>5, <1>6 DEF TypeInv

LEMMA StepType == TypeInv /\ [Next]_vars => TypeInv'
<1> SUFFICES ASSUME TypeInv, [Next]_vars PROVE TypeInv'
  OBVIOUS
<1>1. CASE Moves
  BY <1>1, MovesType
<1>2. CASE \E r \in requests : Answer(r) \/ Fail(r)
  BY <1>2, ServeType, EndType DEF Answer
<1>3. CASE Type \/ Change \/ Manage \/ Managed \/ ManageFails
  BY <1>3, OtherType
<1>4. CASE UNCHANGED vars
  <2>1. Questions' = Questions /\ Requests' = Requests
    BY <1>4 DEF vars, Questions, Requests
  <2>2. QED
    BY <1>4, <2>1 DEF vars, TypeInv, RowsOK, StackOK, RequestsOK, PageOK
<1>5. QED
  BY <1>1, <1>2, <1>3, <1>4 DEF Next, Moves

(* Types of both pages, for any links, filters, rows and bounds: every     *)
(* entry of the session history, and every request, asks for a page from 1 *)
(* on, the last page computed of a total included.                         *)
THEOREM TypeCorrect == Spec => []TypeOK
<1>1. TypeInv => TypeOK
  <2> SUFFICES ASSUME TypeInv PROVE TypeOK
    OBVIOUS
  <2>1. /\ kind \in Kinds /\ \A i \in Ids : store[i] \in Forms[kind][i] \cup {Gone}
        /\ top \in 1..Len(stack) /\ \A i \in 1..Len(stack) : stack[i] \in Questions
    BY DEF TypeInv, RowsOK, StackOK
  <2>2. \A r \in requests :
          /\ r.seq \in 1..seq /\ r.of \in Questions
          /\ r.at \in {"first", "second", "answered"}
          /\ r.rows \subseteq Ids /\ r.total \in Nat
    BY DEF TypeInv, RequestsOK, Requests
  <2>3. /\ loading \in BOOLEAN /\ failed \in BOOLEAN /\ outdated \in BOOLEAN
        /\ shown.rows \subseteq Ids /\ shown.total \in Nat
    BY DEF TypeInv, PageOK
  <2>4. Len(managing) <= 1
    <3>1. CASE managing = <<>>
      <4>1. Len(<<>>) = 0
        OBVIOUS
      <4>2. QED
        BY <3>1, <4>1
    <3>2. ASSUME NEW question \in Questions, managing = <<question>> PROVE Len(managing) = 1
      BY <3>2
    <3> DEFINE n == Len(managing)
    <3>3. n = 0 \/ n = 1
      BY <3>1, <3>2 DEF TypeInv, PageOK
    <3> HIDE DEF n
    <3>4. n <= 1
      BY <3>3
    <3>5. QED
      BY <3>4 DEF n
  <2>5. QED
    BY <2>1, <2>2, <2>3, <2>4 DEF TypeOK
<1>2. QED
  BY <1>1, InitType, StepType, PTL DEF Spec

-----------------------------------------------------------------------------
(* The search box.                                                         *)

(* The box shows the query in force or the one about to be.                *)
BoxInv == kind = "ebooks" => box = Here.filter.q \/ (pending # None /\ box = pending)

LEMMA StepBox == TypeInv /\ BoxInv /\ [Next]_vars => BoxInv'
<1> SUFFICES ASSUME TypeInv, BoxInv, [Next]_vars, kind' = "ebooks"
             PROVE  box' = Here'.filter.q \/ (pending' # None /\ box' = pending')
  BY DEF BoxInv
<1>1. CASE Moves
  <2>1. kind = "ebooks"
    BY <1>1, MovesLand
  <2>2. PICK entry, q : /\ Landed(entry, q)
                        /\ \/ pending' = pending
                           \/ /\ pending # None /\ pending' = None
                              /\ entry.filter.q = pending
    BY <1>1, MovesLand
  <2>3. Here' = q /\ q.filter = entry.filter /\ box' = BoxAfter(q)
    BY <2>2 DEF Landed, Here
  <2>4. box' = IF q.filter.q # Here.filter.q THEN q.filter.q ELSE box
    BY <2>1, <2>3 DEF BoxAfter
  <2>5. QED
    BY <2>1, <2>2, <2>3, <2>4 DEF BoxInv
<1>2. CASE \E r \in requests : Answer(r) \/ Fail(r)
  <2>1. PICK r \in requests : Serve(r) \/ Deliver(r) \/ Fail(r)
    BY <1>2 DEF Answer
  <2>2. CASE Serve(r)
    BY <2>2, ServeSame DEF BoxInv, Here
  <2>3. CASE Deliver(r) \/ Fail(r)
    <3>1. Ended(r)
      BY <2>3, Ends
    <3>2. UNCHANGED <<kind, top, box, pending>>
      BY <3>1 DEF Ended
    <3>3. Here'.filter = Here.filter
      BY <3>1, <3>2 DEF Ended, Rested, Here, TypeInv, StackOK
    <3>4. QED
      BY <3>2, <3>3 DEF BoxInv
  <2>4. QED
    BY <2>1, <2>2, <2>3
<1>3. CASE Type
  BY <1>3, FilterAssumption DEF Type, TypeInv, None
<1>4. CASE Change \/ Manage \/ Managed \/ ManageFails
  BY <1>4 DEF Change, Manage, Managed, ManageFails, BoxInv, Here
<1>5. CASE UNCHANGED vars
  BY <1>5 DEF vars, BoxInv, Here
<1>6. QED
  BY <1>1, <1>2, <1>3, <1>4, <1>5 DEF Next, Moves

(* With no search about to be committed the box shows the query in force,  *)
(* whatever was typed, committed, gone back to or stepped back from.       *)
THEOREM BoxTells == Spec => []BoxTellsQuery
<1>1. Init => BoxInv
  BY DEF Init, BoxInv
<1>2. BoxInv => BoxTellsQuery
  BY DEF BoxInv, BoxTellsQuery
<1>3. QED
  BY <1>1, <1>2, InitType, StepType, StepBox, PTL DEF Spec

-----------------------------------------------------------------------------
(* The rows on screen.                                                     *)

(* A sequence number is of one request.  The newest asks for what is in    *)
(* the URL, and while nothing loads there is none left: the page shows its *)
(* answer.                                                                 *)
Numbered == \A r, t \in requests : r.seq = t.seq => r = t
Resting == ~loading => \A r \in requests : r.seq # seq
Current == ~outdated => /\ \A r \in requests : r.seq = seq => r.of = Here
                        /\ ~loading /\ ~failed => shown.of = Here
AskedInv == kind = "ebooks" => Numbered /\ Resting /\ Current

(* Asking anew, beside some of the requests, or all of them marked.        *)
LEMMA AskedAnew ==
  ASSUME TypeInv, NEW others, NEW q, Loaded(others, q), loading' = TRUE,
         \A r, t \in others : r.seq = t.seq => r = t,
         \A r \in others : r.seq \in 1..seq,
         ~outdated' => q = Here'
  PROVE  AskedInv'
<1>1. seq \in Nat
  BY DEF TypeInv, RequestsOK
<1>2. Numbered'
  BY <1>1 DEF Numbered, Loaded
<1>3. Resting' /\ Current'
  BY DEF Resting, Current, Loaded
<1>4. QED
  BY <1>2, <1>3 DEF AskedInv

LEMMA StepAsked == TypeInv /\ AskedInv /\ [Next]_vars => AskedInv'
<1> SUFFICES ASSUME TypeInv, AskedInv, [Next]_vars, kind' = "ebooks" PROVE AskedInv'
  BY DEF AskedInv
<1>0. \A r \in requests : r.seq \in 1..seq
  BY DEF TypeInv, RequestsOK
<1>1. CASE Moves
  <2>1. kind = "ebooks" /\ UNCHANGED <<failed, shown>>
    BY <1>1, MovesLand
  <2>2. PICK entry, q : Landed(entry, q)
    BY <1>1, MovesLand
  <2>3. Here' = q /\ loading' = (loading \/ entry # Here)
    BY <2>2 DEF Landed, Here
  <2>4. CASE entry = Here
    <3>1. q = Here /\ UNCHANGED <<requests, seq, outdated>> /\ loading' = loading
      BY <2>2, <2>3, <2>4 DEF Landed, TypeInv, PageOK
    <3>2. QED
      BY <2>1, <2>3, <3>1 DEF AskedInv, Numbered, Resting, Current
  <2>5. CASE entry # Here
    <3>1. Loaded(requests, q) /\ loading' = TRUE
      BY <2>2, <2>3, <2>5 DEF Landed
    <3>2. QED
      BY <1>0, <2>1, <2>3, <3>1, AskedAnew DEF AskedInv, Numbered
  <2>6. QED
    BY <2>4, <2>5
<1>2. ASSUME NEW r \in requests, Serve(r) PROVE AskedInv'
  <2>1. PICK next \in Requests : /\ next.seq = r.seq /\ next.of = r.of
                                 /\ requests' = (requests \ {r}) \cup {next}
    BY <1>2, ServeSame
  <2>2. UNCHANGED <<kind, stack, top, seq, loading, failed, shown, outdated>>
    BY <1>2, ServeSame
  <2>3. QED
    BY <2>1, <2>2 DEF AskedInv, Numbered, Resting, Current, Here
<1>3. ASSUME NEW r \in requests, Deliver(r) \/ Fail(r) PROVE AskedInv'
  <2>1. Ended(r)
    BY <1>3, Ends
  <2>2. kind = "ebooks" /\ top' = top /\ (Newest(r) <=> r.seq = seq)
    BY <2>1 DEF Ended, Newest
  <2>3. CASE ~Newest(r)
    BY <2>1, <2>2, <2>3 DEF Ended, AskedInv, Numbered, Resting, Current, Here
  <2>4. CASE Newest(r)
    <3>1. /\ ~failed' => shown'.of = r.of
          /\ \E total \in Nat : Rested(requests \ {r}, total)
      BY <2>1, <2>4 DEF Ended
    <3>2. \A t \in requests \ {r} : t.seq # seq
      BY <2>2, <2>4 DEF AskedInv, Numbered
    <3>3. CASE stack' = stack /\ loading' = FALSE /\ requests' = requests \ {r}
               /\ seq' = seq /\ outdated' = outdated
      <4>1. Here' = Here
        BY <2>2, <3>3 DEF Here
      <4>2. Numbered' /\ Resting'
        BY <2>2, <3>2, <3>3 DEF AskedInv, Numbered, Resting
      <4>3. Current'
        BY <2>2, <2>4, <3>1, <3>2, <3>3, <4>1 DEF AskedInv, Current
      <4>4. QED
        BY <4>2, <4>3 DEF AskedInv
    <3>4. CASE \E last \in Questions : stack' = [stack EXCEPT ![top] = last]
                 /\ loading' = TRUE /\ Loaded(requests \ {r}, last) /\ outdated' = FALSE
      <4>1. PICK last \in Questions : stack' = [stack EXCEPT ![top] = last]
                 /\ loading' = TRUE /\ Loaded(requests \ {r}, last)
        BY <3>4
      <4>2. Here' = last
        BY <2>2, <4>1 DEF Here, TypeInv, StackOK
      <4>3. QED
        BY <1>0, <2>2, <4>1, <4>2, AskedAnew DEF AskedInv, Numbered
    <3>5. QED
      BY <3>1, <3>3, <3>4 DEF Rested
  <2>5. QED
    BY <2>3, <2>4
<1>4. CASE Change
  <2>1. requests' = Marked
        /\ UNCHANGED <<kind, stack, top, seq, loading, failed, shown, outdated>>
    BY <1>4 DEF Change, Marked, Torn
  <2>2. \A r \in Marked : \E t \in requests : r = Torn(t) /\ r.seq = t.seq /\ r.of = t.of
    BY MarkedType
  <2>3. QED
    BY <2>1, <2>2 DEF AskedInv, Numbered, Resting, Current, Here
<1>5. CASE Managed
  <2>1. /\ managing # <<>> /\ loading' = TRUE /\ Load(Marked, managing, Here)
        /\ UNCHANGED <<kind, stack, top>>
    BY <1>5 DEF Managed, Marked, Torn
  <2>2. PICK q \in Questions : managing = <<q>>
    BY <2>1 DEF TypeInv, PageOK
  <2>3. Loaded(Marked, q) /\ outdated' = (q # Here) /\ Here' = Here
    BY <2>1, <2>2, MarkedType, LoadOne DEF TypeInv, RequestsOK, Here
  <2>4. \A r \in Marked : \E t \in requests : r = Torn(t) /\ r.seq = t.seq /\ r.of = t.of
    BY MarkedType
  <2>5. Numbered
    BY <2>1 DEF AskedInv
  <2>6. \A r, t \in Marked : r.seq = t.seq => r = t
    BY <2>4, <2>5 DEF Numbered
  <2>7. \A r \in Marked : r.seq \in 1..seq
    BY <1>0, <2>4
  <2>8. QED
    BY <2>1, <2>3, <2>6, <2>7, AskedAnew
<1>6. CASE Type \/ Manage \/ ManageFails \/ UNCHANGED vars
  <2>1. UNCHANGED <<kind, stack, top, requests, seq, loading, failed, shown, outdated>>
    BY <1>6 DEF Type, Manage, ManageFails, vars
  <2>2. QED
    BY <2>1 DEF AskedInv, Numbered, Resting, Current, Here
<1>7. QED
  BY <1>1, <1>2, <1>3, <1>4, <1>5, <1>6 DEF Next, Moves, Answer

(* The ebook page that is not loading shows the answer to the question in  *)
(* its URL, for any number of requests under way and answers in any order, *)
(* but for the refresh of a handler started in an earlier view.            *)
THEOREM ShownAnswersUrl == Spec => []ShownIsAsked
<1>1. Init => AskedInv
  BY DEF Init, AskedInv, Numbered, Resting, Current, Asking
<1>2. AskedInv => ShownIsAsked
  BY DEF AskedInv, Current, ShownIsAsked
<1>3. QED
  BY <1>1, <1>2, InitType, StepType, StepAsked, PTL DEF Spec

-----------------------------------------------------------------------------
(* Paging.                                                                 *)

(* Division, and the multiples of a number, in order.                       *)
LEMMA Division ==
  ASSUME NEW a \in Nat, NEW n \in Nat \ {0}
  PROVE  a \div n \in Nat /\ n * (a \div n) <= a /\ a < n * (a \div n) + n
OBVIOUS

LEMMA Multiples ==
  ASSUME NEW j \in Nat, NEW k \in Nat, NEW n \in Nat \ {0}
  PROVE  /\ j <= k => j * n <= k * n
         /\ j * n < k * n + n => j <= k
         /\ (j + 1) * n = j * n + n /\ j * n \in Nat
<1>1. j <= k => j * n <= k * n
  OBVIOUS
<1>2. j * n < k * n + n => j <= k
  OBVIOUS
<1>3. (j + 1) * n = j * n + n /\ j * n \in Nat
  OBVIOUS
<1>4. QED
  BY <1>1, <1>2, <1>3

(* Rows of which each one has those ahead of it, all of them ahead of the  *)
(* next: the number of those ahead is a place of its own.                  *)
LEMMA PlacesDistinct ==
  ASSUME NEW rows, IsFiniteSet(rows), NEW ahead \in [rows -> SUBSET rows],
         \A b \in rows : b \notin ahead[b],
         \A a, b \in rows : a # b => \/ a \in ahead[b] /\ ahead[a] \subseteq ahead[b]
                                     \/ b \in ahead[a] /\ ahead[b] \subseteq ahead[a]
  PROVE  [b \in rows |-> Cardinality(ahead[b])]
           \in Injection(rows, 0 .. (Cardinality(rows) - 1))
<1> DEFINE place == [b \in rows |-> Cardinality(ahead[b])]
           last == Cardinality(rows) - 1
<1>1. Cardinality(rows) \in Nat
  BY FS_CardinalityType
<1>2. \A b \in rows : IsFiniteSet(ahead[b]) /\ Cardinality(ahead[b]) \in Nat
  BY FS_Subset, FS_CardinalityType
<1>3. ASSUME NEW b \in rows PROVE place[b] \in 0..last
  <2>1. Cardinality(ahead[b]) <= Cardinality(rows) /\ Cardinality(ahead[b]) # Cardinality(rows)
    BY FS_Subset
  <2>2. QED
    BY <1>1, <1>2, <2>1
<1>4. ASSUME NEW a \in rows, NEW b \in rows, a # b, a \in ahead[b] /\ ahead[a] \subseteq ahead[b]
      PROVE  place[a] # place[b]
  <2>1. ahead[a] # ahead[b]
    BY <1>4
  <2>2. QED
    BY <1>2, <1>4, <2>1, FS_Subset
<1>5. \A a, b \in rows : a # b => place[a] # place[b]
  BY <1>4
<1>6. place \in [rows -> 0..last]
  BY <1>3
<1> HIDE DEF place, last
<1>7. place \in Injection(rows, 0..last)
  BY <1>5, <1>6, Fun_IsInj
<1>8. QED
  BY <1>7 DEF place, last

(* A row all of whose predecessors are ahead of the next has fewer.        *)
LEMMA PlacesGrow ==
  ASSUME NEW ahead, IsFiniteSet(ahead), NEW fewer \in SUBSET ahead, NEW a \in ahead, a \notin fewer
  PROVE  Cardinality(fewer) < Cardinality(ahead)
<1>1. /\ Cardinality(fewer) <= Cardinality(ahead)
      /\ Cardinality(ahead) = Cardinality(fewer) => ahead = fewer
  BY FS_Subset
<1>2. Cardinality(fewer) \in Nat /\ Cardinality(ahead) \in Nat
  BY FS_Subset, FS_CardinalityType
<1>3. QED
  BY <1>1, <1>2

(* Rows with places of their own below the number of rows take each place. *)
LEMMA PlacesAllTaken ==
  ASSUME NEW rows, IsFiniteSet(rows),
         NEW place \in Injection(rows, 0 .. (Cardinality(rows) - 1))
  PROVE  place \in Bijection(rows, 0 .. (Cardinality(rows) - 1))
<1> DEFINE last == Cardinality(rows) - 1
<1>1. Cardinality(rows) \in Nat
  BY FS_CardinalityType
<1>2. IsFiniteSet(0..last) /\ Cardinality(0..last) = Cardinality(rows)
  BY <1>1, FS_Interval
<1>3. place \in Surjection(rows, 0..last)
  BY <1>2, FS_Injection
<1>4. QED
  BY <1>3 DEF Bijection

(* A row's place is the number of rows at smaller places.                  *)
LEMMA PlaceIsRank ==
  ASSUME NEW rows, IsFiniteSet(rows),
         NEW place \in Injection(rows, 0 .. (Cardinality(rows) - 1)), NEW b \in rows,
         NEW ahead \in SUBSET rows, \A a \in rows : a \in ahead <=> place[a] < place[b]
  PROVE  place[b] = Cardinality(ahead)
<1> DEFINE last == Cardinality(rows) - 1
           taken == 0..last
           below == 0..(place[b] - 1)
           at == [a \in ahead |-> place[a]]
<1>1. /\ place \in [rows -> taken]
      /\ \A a, c \in rows : place[a] = place[c] => a = c
      /\ \A p \in taken : \E a \in rows : place[a] = p
  <2>1. place \in Bijection(rows, taken)
    BY PlacesAllTaken
  <2> HIDE DEF taken
  <2>2. QED
    BY <2>1, Fun_BijectionProperties
<1>2. Cardinality(rows) \in Nat /\ place[b] \in Nat /\ place[b] <= last
  BY <1>1, FS_CardinalityType
<1>3. IsFiniteSet(ahead)
  BY FS_Subset
<1>4. IsFiniteSet(below) /\ Cardinality(below) = place[b]
  <2>1. PICK m \in Int : m = place[b] - 1
    BY <1>2
  <2>2. IsFiniteSet(0..m) /\ Cardinality(0..m) = IF 0 > m THEN 0 ELSE m - 0 + 1
    BY FS_Interval
  <2>3. QED
    BY <1>2, <2>1, <2>2
<1>5. at \in Bijection(ahead, below)
  <2>1. at \in [ahead -> below] /\ \A a, c \in ahead : at[a] = at[c] => a = c
    BY <1>1, <1>2
  <2>2. \A p \in below : \E a \in ahead : at[a] = p
    BY <1>1, <1>2
  <2> HIDE DEF at, below
  <2>3. QED
    BY <2>1, <2>2, Fun_IsBij
<1> HIDE DEF below, at
<1>6. ExistsBijection(ahead, below)
  BY <1>5 DEF ExistsBijection
<1>7. QED
  BY <1>3, <1>4, <1>6, FS_Bijection

(* The rows of page k have the places from (k - 1) * PerPage on.           *)
LEMMA SlicePlaces ==
  ASSUME NEW place, NEW k \in Nat \ {0}
  PROVE  Slice(place, k) =
           {b \in DOMAIN place :
              place[b] \in (k - 1) * PerPage .. ((k - 1) * PerPage + PerPage - 1)}
<1>1. NormalPerPage(PerPage) = PerPage /\ NormalPage(k) = k
  BY PerPageAssumption DEF NormalPerPage, NormalPage, MaxPerPage
<1>2. QED
  BY <1>1 DEF Slice

(* Each page of a total that is not 0 begins below it ...                  *)
LEMMA PageBegins ==
  ASSUME NEW total \in Nat \ {0}, NEW k \in 1..Pages(total)
  PROVE  (k - 1) * PerPage \in 0..(total - 1)
<1> DEFINE n == PerPage
           a == total + n - 1
           q == a \div n
<1>1. n \in Nat \ {0} /\ a \in Nat /\ Pages(total) = q
  BY PerPageAssumption DEF Pages
<1>2. q \in Nat /\ n * q <= a
  BY <1>1, Division
<1>3. k \in Nat \ {0} /\ k <= q
  BY <1>1, <1>2
<1>4. (k - 1) * n + n <= n * q /\ (k - 1) * n \in Nat
  <2>1. k * n <= q * n
    BY <1>1, <1>2, <1>3, Multiples
  <2>2. ((k - 1) + 1) * n = (k - 1) * n + n /\ (k - 1) * n \in Nat
    BY <1>1, <1>3, Multiples
  <2>3. (k - 1) + 1 = k /\ q * n = n * q
    BY <1>1, <1>2, <1>3
  <2>4. QED
    BY <2>1, <2>2, <2>3
<1> HIDE DEF n, q
<1>5. n * q \in Int /\ (k - 1) * n \in Int
  BY <1>1, <1>2, <1>3
<1> DEFINE x == (k - 1) * n
           y == n * q
<1>6. x \in Nat /\ x + n <= y /\ y <= total + n - 1
  BY <1>2, <1>4
<1> HIDE DEF x, y
<1>7. x \in 0..(total - 1)
  BY <1>1, <1>5, <1>6 DEF y
<1>8. QED
  BY <1>7 DEF x, n

(* ... and each place below it is on one of them.                          *)
LEMMA PageOfPlace ==
  ASSUME NEW total \in Nat, NEW p \in 0..(total - 1)
  PROVE  \E k \in 1..Pages(total) :
           p \in (k - 1) * PerPage .. ((k - 1) * PerPage + PerPage - 1)
<1> DEFINE n == PerPage
           a == total + n - 1
           q == a \div n
           j == p \div n
<1>1. n \in Nat \ {0} /\ a \in Nat /\ p \in Nat /\ p + n <= a /\ Pages(total) = q
  BY PerPageAssumption DEF Pages
<1>2. q \in Nat /\ a < n * q + n /\ j \in Nat /\ n * j <= p /\ p < n * j + n
  BY <1>1, Division
<1> HIDE DEF a, q, j, n
<1>3. n * q = q * n /\ n * j = j * n /\ j * n \in Nat /\ q * n \in Nat
      /\ (j + 1) * n = j * n + n
  BY <1>1, <1>2, Multiples
<1>4. j + 1 <= q
  <2>1. (j + 1) * n < q * n + n
    BY <1>1, <1>2, <1>3
  <2>2. j + 1 \in Nat
    BY <1>2
  <2>3. QED
    BY <1>1, <1>2, <2>1, <2>2, Multiples
<1>5. j + 1 \in 1..Pages(total) /\ (j + 1) - 1 = j
  BY <1>1, <1>2, <1>4
<1>6. p \in j * n .. (j * n + n - 1)
  BY <1>1, <1>2, <1>3
<1>7. QED
  BY <1>5, <1>6 DEF n

(* A place is on one page only.                                            *)
LEMMA PlaceOnOnePage ==
  ASSUME NEW j \in Nat \ {0}, NEW k \in Nat \ {0}, NEW p,
         p \in (j - 1) * PerPage .. ((j - 1) * PerPage + PerPage - 1),
         p \in (k - 1) * PerPage .. ((k - 1) * PerPage + PerPage - 1)
  PROVE  j = k
<1> DEFINE n == PerPage
           x == (j - 1) * n
           y == (k - 1) * n
<1>1. n \in Nat \ {0} /\ j - 1 \in Nat /\ k - 1 \in Nat
  BY PerPageAssumption
<1>2. x \in Nat /\ y \in Nat
  BY <1>1, Multiples
<1>3. x < y + n /\ y < x + n
  <2> HIDE DEF x, y
  <2>1. p \in x .. (x + n - 1) /\ p \in y .. (y + n - 1)
    BY DEF x, y
  <2>2. QED
    BY <1>1, <1>2, <2>1
<1>4. j - 1 <= k - 1 /\ k - 1 <= j - 1
  <2> HIDE DEF n
  <2>1. QED
    BY <1>1, <1>3, Multiples
<1>5. QED
  BY <1>1, <1>4

(* The pages of rows with places of their own, as many as the client       *)
(* derives from their number: each row is on one of them, all but the last *)
(* are full, and none is empty unless there are no rows.                   *)
LEMMA SlicesPartition ==
  ASSUME NEW rows, IsFiniteSet(rows),
         NEW place \in Injection(rows, 0 .. (Cardinality(rows) - 1))
  PROVE  LET n == Pages(Cardinality(rows)) IN
         /\ Partition([k \in 1..n |-> Slice(place, k)], rows)
         /\ \A k \in 1..n : Slice(place, k) = {} => Cardinality(rows) = 0
<1> DEFINE total == Cardinality(rows)
           n == Pages(total)
           first(k) == (k - 1) * PerPage
           places(k) == first(k) .. (first(k) + PerPage - 1)
<1>1. total \in Nat /\ n \in Nat \ {0} /\ PerPage \in Nat \ {0}
  BY FS_CardinalityType, SomePage, PerPageAssumption
<1>2. /\ place \in [rows -> 0..(total - 1)]
      /\ \A a, b \in rows : place[a] = place[b] => a = b
      /\ \A p \in 0..(total - 1) : \E b \in rows : place[b] = p
  <2>1. place \in Bijection(rows, 0..(total - 1))
    BY PlacesAllTaken
  <2> DEFINE taken == 0..(total - 1)
  <2> HIDE DEF taken
  <2>2. /\ place \in [rows -> taken]
        /\ \A a, b \in rows : place[a] = place[b] => a = b
        /\ \A p \in taken : \E b \in rows : place[b] = p
    <3>1. place \in Bijection(rows, taken)
      BY <2>1 DEF taken
    <3>2. QED
      BY <3>1, Fun_BijectionProperties
  <2>3. QED
    BY <2>2 DEF taken
<1>3. \A k \in 1..n : Slice(place, k) = {b \in rows : place[b] \in places(k)}
  BY <1>1, <1>2, SlicePlaces
<1>4. ASSUME NEW k \in 1..n, total # 0
      PROVE  first(k) \in 0..(total - 1)
  BY <1>1, <1>4, PageBegins
<1>5. ASSUME NEW k \in 1..(n - 1)
      PROVE  Cardinality(Slice(place, k)) = PerPage
  <2> DEFINE page == {b \in rows : place[b] \in places(k)}
             at == [b \in page |-> place[b]]
  <2>1. total # 0
    <3>1. total = 0 => n = 1
      BY DEF Pages
    <3> HIDE DEF n, total
    <3>2. QED
      BY <1>1, <1>5, <3>1
  <2>2. first(k) \in Nat /\ first(k) + PerPage <= total - 1
    <3>1. first(k + 1) \in 0..(total - 1)
      <4>1. k + 1 \in 1..n
        BY <1>1, <1>5
      <4> HIDE DEF first, n, total
      <4>2. QED
        BY <1>4, <2>1, <4>1
    <3>2. first(k + 1) = first(k) + PerPage /\ first(k) \in Nat
      <4>1. k - 1 \in Nat /\ (k + 1) - 1 = (k - 1) + 1
        BY <1>5
      <4>2. QED
        BY <1>1, <4>1, Multiples
    <3> HIDE DEF first
    <3>3. QED
      BY <1>1, <3>1, <3>2
  <2>3. places(k) \subseteq 0..(total - 1)
    <3> HIDE DEF first
    <3>1. QED
      BY <1>1, <2>2
  <2>4. IsFiniteSet(places(k)) /\ Cardinality(places(k)) = PerPage
    <3> DEFINE from == first(k)
               to == from + PerPage - 1
    <3>1. from \in Int /\ to \in Int /\ from <= to /\ to - from + 1 = PerPage
      <4> HIDE DEF first
      <4>1. QED
        BY <1>1, <2>2
    <3>2. places(k) = from .. to
      OBVIOUS
    <3> HIDE DEF from, to, places
    <3>3. QED
      BY <3>1, <3>2, FS_Interval
  <2>5. at \in Bijection(page, places(k))
    <3> HIDE DEF first, places
    <3>1. at \in [page -> places(k)] /\ \A a, b \in page : at[a] = at[b] => a = b
      BY <1>2
    <3>2. \A p \in places(k) : \E b \in page : at[b] = p
      BY <1>2, <2>3
    <3> HIDE DEF at, page
    <3>3. QED
      BY <3>1, <3>2, Fun_IsBij
  <2>6. IsFiniteSet(page)
    BY FS_Subset
  <2>7. ExistsBijection(page, places(k))
    BY <2>5 DEF ExistsBijection
  <2> HIDE DEF at, first, places, page
  <2>8. Cardinality(page) = PerPage
    BY <2>4, <2>6, <2>7, FS_Bijection
  <2>9. Slice(place, k) = page
    BY <1>1, <1>3, <1>5 DEF page
  <2>10. QED
    BY <2>8, <2>9
<1>6. ASSUME NEW j \in 1..n, NEW k \in 1..n, j # k
      PROVE  Slice(place, j) \cap Slice(place, k) = {}
  <2>1. \A p : ~(p \in places(j) /\ p \in places(k))
    BY <1>6, PlaceOnOnePage
  <2> HIDE DEF places
  <2>2. QED
    BY <1>3, <2>1
<1>7. UNION {Slice(place, k) : k \in 1..n} = rows
  <2>1. \A b \in rows : \E k \in 1..n : place[b] \in places(k)
    BY <1>1, <1>2, PageOfPlace
  <2> HIDE DEF places, n
  <2>2. QED
    BY <1>3, <2>1
<1>8. ASSUME NEW k \in 1..n, Slice(place, k) = {}, total # 0
      PROVE  FALSE
  <2>1. first(k) \in 0..(total - 1)
    BY <1>4, <1>8
  <2>2. PICK b \in rows : place[b] = first(k)
    BY <1>2, <2>1
  <2>3. place[b] \in places(k)
    <3> HIDE DEF first
    <3>1. QED
      BY <1>1, <2>1, <2>2
  <2> HIDE DEF places
  <2>4. QED
    BY <1>3, <1>8, <2>3
<1>9. Partition([k \in 1..n |-> Slice(place, k)], rows)
  <2>1. PICK pages : pages = [k \in 1..n |-> Slice(place, k)]
    OBVIOUS
  <2>2. \A k \in 1..n : pages[k] = Slice(place, k)
    BY <2>1
  <2> HIDE DEF n
  <2>3. \A k \in 1..(n - 1) : Cardinality(pages[k]) = PerPage
    BY <1>1, <1>5, <2>2
  <2>4. \A j, k \in 1..n : j # k => pages[j] \cap pages[k] = {}
    BY <1>6, <2>2
  <2>5. UNION {pages[k] : k \in 1..n} = rows
    BY <1>7, <2>2
  <2>6. Partition(pages, rows)
    BY <2>3, <2>4, <2>5, Zenon DEF Partition, n
  <2>7. QED
    BY <2>1, <2>6
<1>10. QED
  BY <1>8, <1>9

-----------------------------------------------------------------------------
(* The pages of the two listings.                                          *)

(* What the ORDER BY of the ebooks compares: a number each, and an id that *)
(* no other row has.                                                       *)
LEMMA EbooksCompare ==
  ASSUME TypeInv, kind = "ebooks"
  PROVE  /\ \A b \in Existing : b.id \in Nat /\ b.title \in Nat /\ b.created \in Nat
         /\ \A a, b \in Existing : a.id = b.id => a = b
<1>1. \A i \in Ids : store[i] # Gone =>
        /\ store[i].id = i /\ i \in Nat
        /\ store[i].title \in Nat /\ store[i].created \in Nat
  BY RowAssumption DEF TypeInv, RowsOK
<1>2. \A b \in Existing : \E i \in Ids : b = store[i] /\ b # Gone
  BY DEF Existing
<1>3. QED
  BY <1>1, <1>2

(* The ids break every tie, so each row of a filter has a place of its own *)
(* and every place is taken.                                               *)
LEMMA EbookPlaces ==
  ASSUME TypeInv, kind = "ebooks", NEW f
  PROVE  LET rows == Matching(f, Existing) IN
         /\ IsFiniteSet(rows)
         /\ [b \in rows |-> Cardinality({a \in rows : Before(f, a, b)})]
              \in Injection(rows, 0 .. (Cardinality(rows) - 1))
<1> DEFINE rows == Matching(f, Existing)
           ahead == [b \in rows |-> {a \in rows : Before(f, a, b)}]
<1>1. rows \subseteq Existing /\ IsFiniteSet(rows)
  BY RowsFinite, FS_Subset DEF Matching
<1>2. /\ \A b \in rows : b.id \in Nat /\ b.title \in Nat /\ b.created \in Nat
      /\ \A a, b \in rows : a.id = b.id => a = b
  BY <1>1, EbooksCompare
<1> HIDE DEF rows
<1>3. \A b \in rows : ~Before(f, b, b)
  BY <1>2 DEF Before
<1>4. \A a, b \in rows : a # b => Before(f, a, b) \/ Before(f, b, a)
  BY <1>2 DEF Before
<1>5. \A a, b, c \in rows : Before(f, a, b) /\ Before(f, b, c) => Before(f, a, c)
  BY <1>2 DEF Before
<1>6. \A a, b \in rows : Before(f, a, b) => a \in ahead[b] /\ ahead[a] \subseteq ahead[b]
  BY <1>5
<1>7. ahead \in [rows -> SUBSET rows] /\ \A b \in rows : b \notin ahead[b]
  BY <1>3
<1>8. [b \in rows |-> Cardinality(ahead[b])] \in Injection(rows, 0 .. (Cardinality(rows) - 1))
  <2>1. \A a, b \in rows : a # b => \/ a \in ahead[b] /\ ahead[a] \subseteq ahead[b]
                                    \/ b \in ahead[a] /\ ahead[b] \subseteq ahead[a]
    BY <1>4, <1>6
  <2> HIDE DEF ahead
  <2>2. QED
    BY <1>1, <1>7, <2>1, PlacesDistinct
<1>9. [b \in rows |-> Cardinality(ahead[b])]
        = [b \in rows |-> Cardinality({a \in rows : Before(f, a, b)})]
  OBVIOUS
<1>10. QED
  BY <1>1, <1>8, <1>9 DEF rows

(* So the pages of a filter hold each of its rows once.                    *)
LEMMA EbookPages ==
  ASSUME TypeInv, kind = "ebooks", NEW f
  PROVE  LET n == Pages(EbookTotal(f, Existing)) IN
         /\ Partition([k \in 1..n |-> EbookRows(f, k, Existing)], Matching(f, Existing))
         /\ \A k \in 1..n : EbookRows(f, k, Existing) = {} => EbookTotal(f, Existing) = 0
<1> DEFINE rows == Matching(f, Existing)
           place == [b \in rows |-> Cardinality({a \in rows : Before(f, a, b)})]
           n == Pages(Cardinality(rows))
<1>1. IsFiniteSet(rows) /\ place \in Injection(rows, 0 .. (Cardinality(rows) - 1))
  BY EbookPlaces
<1>2. EbookTotal(f, Existing) = Cardinality(rows)
      /\ \A k : EbookRows(f, k, Existing) = Slice(place, k)
  BY DEF EbookTotal, EbookRows
<1> HIDE DEF rows, place
<1>3. [k \in 1..n |-> EbookRows(f, k, Existing)] = [k \in 1..n |-> Slice(place, k)]
  BY <1>2
<1>4. /\ Partition([k \in 1..n |-> Slice(place, k)], rows)
      /\ \A k \in 1..n : Slice(place, k) = {} => Cardinality(rows) = 0
  BY <1>1, SlicesPartition
<1>5. QED
  BY <1>2, <1>3, <1>4 DEF rows

(* However the ties of a history are broken, none of its pages is empty.   *)
LEMMA HistoryPage ==
  ASSUME TypeInv, kind = "history", NEW f, NEW k \in 1..Pages(HistoryTotal(f, Existing)),
         NEW page \in HistoryPages(f, k, Existing), page = {}
  PROVE  HistoryTotal(f, Existing) = 0
<1> DEFINE rows == {b \in Existing : InTab(f, b)}
           last == Cardinality(rows) - 1
<1>1. IsFiniteSet(rows) /\ HistoryTotal(f, Existing) = Cardinality(rows)
  BY RowsFinite, FS_Subset DEF HistoryTotal
<1>2. PICK place \in [rows -> 0..last] :
        /\ \A a, b \in rows : a # b => place[a] # place[b]
        /\ page = Slice(place, k)
  BY DEF HistoryPages
<1> HIDE DEF rows
<1>3. place \in Injection(rows, 0..last)
  <2> HIDE DEF last
  <2>1. QED
    BY <1>2, Fun_IsInj
<1>4. QED
  BY <1>1, <1>2, <1>3, SlicesPartition

(* The ways to break the ties of a tab of the history.                     *)
Orders(rows) ==
  {p \in [rows -> 0 .. (Cardinality(rows) - 1)] :
     \A a, b \in rows : a # b => p[a] # p[b] /\ (OpenedBefore(a, b) => p[a] < p[b])}

(* There is one, for instance by the id: every listing has an answer.      *)
LEMMA HistoryOrder ==
  ASSUME TypeInv, kind = "history", NEW f
  PROVE  LET rows == {b \in Existing : InTab(f, b)} IN IsFiniteSet(rows) /\ Orders(rows) # {}
<1> DEFINE rows == {b \in Existing : InTab(f, b)}
           First(a, b) == a.opened > b.opened \/ (a.opened = b.opened /\ a.id < b.id)
           ahead == [b \in rows |-> {a \in rows : First(a, b)}]
           place == [b \in rows |-> Cardinality(ahead[b])]
<1>1. rows \subseteq Existing /\ IsFiniteSet(rows)
  BY RowsFinite, FS_Subset
<1>2. /\ \A b \in rows : b.id \in Nat /\ b.opened \in Nat
      /\ \A a, b \in rows : a.id = b.id => a = b
  <2>1. \A i \in Ids : store[i] # Gone =>
          store[i].id = i /\ i \in Nat /\ store[i].opened \in Nat
    BY RowAssumption DEF TypeInv, RowsOK
  <2>2. \A b \in rows : \E i \in Ids : b = store[i] /\ b # Gone
    BY DEF Existing
  <2> HIDE DEF rows
  <2>3. QED
    BY <2>1, <2>2
<1> HIDE DEF rows
<1>3. \A b \in rows : ~First(b, b)
  BY <1>2
<1>4. \A a, b \in rows : a # b => First(a, b) \/ First(b, a)
  BY <1>2
<1>5. \A a, b, c \in rows : First(a, b) /\ First(b, c) => First(a, c)
  BY <1>2
<1>6. \A a, b \in rows : OpenedBefore(a, b) => First(a, b)
  BY DEF OpenedBefore
<1> HIDE DEF First
<1>7. \A a, b \in rows : First(a, b) => a \in ahead[b] /\ ahead[a] \subseteq ahead[b]
  BY <1>5
<1>8. ahead \in [rows -> SUBSET rows] /\ \A b \in rows : b \notin ahead[b]
  BY <1>3
<1> HIDE DEF ahead
<1>9. place \in Injection(rows, 0 .. (Cardinality(rows) - 1))
  <2>1. \A a, b \in rows : a # b => \/ a \in ahead[b] /\ ahead[a] \subseteq ahead[b]
                                    \/ b \in ahead[a] /\ ahead[b] \subseteq ahead[a]
    BY <1>4, <1>7
  <2>2. QED
    BY <1>1, <1>8, <2>1, PlacesDistinct
<1>10. place \in [rows -> 0 .. (Cardinality(rows) - 1)]
       /\ \A a, b \in rows : a # b => place[a] # place[b]
  <2> DEFINE taken == 0 .. (Cardinality(rows) - 1)
  <2>1. place \in Injection(rows, taken)
    BY <1>9
  <2> HIDE DEF taken, place
  <2>2. place \in [rows -> taken] /\ \A a, b \in rows : a # b => place[a] # place[b]
    BY <2>1, Fun_InjectionProperties
  <2>3. QED
    BY <2>2 DEF taken
<1>11. ASSUME NEW a \in rows, NEW b \in rows, OpenedBefore(a, b)
       PROVE  place[a] < place[b]
  <2>1. a \in ahead[b] /\ ahead[a] \in SUBSET ahead[b] /\ a \notin ahead[a]
    BY <1>6, <1>7, <1>8, <1>11
  <2>2. IsFiniteSet(ahead[b])
    BY <1>1, <1>8, FS_Subset
  <2>3. Cardinality(ahead[a]) < Cardinality(ahead[b])
    BY <2>1, <2>2, PlacesGrow
  <2>4. QED
    BY <2>3
<1> HIDE DEF place
<1>12. place \in Orders(rows)
  BY <1>10, <1>11 DEF Orders
<1>13. QED
  BY <1>1, <1>12 DEF rows

(* And no other, if no two rows were opened at one instant.                *)
LEMMA OneOrder ==
  ASSUME NEW rows, IsFiniteSet(rows), \A b \in rows : b.opened \in Nat,
         \A a, b \in rows : a # b => a.opened # b.opened,
         NEW p \in Orders(rows), NEW q \in Orders(rows)
  PROVE  p = q
<1>1. ASSUME NEW o \in Orders(rows)
      PROVE  /\ o \in Injection(rows, 0 .. (Cardinality(rows) - 1))
             /\ o \in [rows -> 0 .. (Cardinality(rows) - 1)]
             /\ \A b \in rows : o[b] = Cardinality({a \in rows : OpenedBefore(a, b)})
  <2> DEFINE taken == 0 .. (Cardinality(rows) - 1)
  <2>1. o \in [rows -> taken]
        /\ \A a, b \in rows : a # b => o[a] # o[b] /\ (OpenedBefore(a, b) => o[a] < o[b])
    BY DEF Orders
  <2>2. o \in Injection(rows, taken)
    <3> HIDE DEF taken
    <3>1. QED
      BY <2>1, Fun_IsInj
  <2>3. ASSUME NEW a \in rows, NEW b \in rows
        PROVE  o[a] < o[b] <=> OpenedBefore(a, b)
    <3>1. Cardinality(rows) \in Nat /\ o[a] \in Int /\ o[b] \in Int
      BY <2>1, FS_CardinalityType
    <3>2. a # b => OpenedBefore(a, b) \/ OpenedBefore(b, a)
      BY DEF OpenedBefore
    <3>3. ~OpenedBefore(a, a)
      BY DEF OpenedBefore
    <3>4. QED
      BY <2>1, <3>1, <3>2, <3>3
  <2>4. ASSUME NEW b \in rows
        PROVE  o[b] = Cardinality({a \in rows : OpenedBefore(a, b)})
    <3>1. PICK ahead : ahead = {a \in rows : OpenedBefore(a, b)}
      OBVIOUS
    <3>2. ahead \in SUBSET rows /\ \A a \in rows : a \in ahead <=> o[a] < o[b]
      BY <2>3, <3>1
    <3>3. o[b] = Cardinality(ahead)
      BY <2>2, <3>2, PlaceIsRank
    <3>4. QED
      BY <3>1, <3>3
  <2>5. QED
    BY <2>1, <2>2, <2>4
<1>2. \A b \in rows : p[b] = q[b]
  BY <1>1
<1>3. QED
  BY <1>1, <1>2

(* So the pages of such a tab can be told, and hold each row once.         *)
LEMMA HistoryPartition ==
  ASSUME TypeInv, kind = "history", NEW f
  PROVE  LET n == Pages(HistoryTotal(f, Existing))
             rows == {b \in Existing : InTab(f, b)}
             answers(k) == HistoryPages(f, k, Existing) IN
         (\A a, b \in rows : a # b => a.opened # b.opened) =>
           /\ \A k \in 1..n : Cardinality(answers(k)) = 1
           /\ Partition([k \in 1..n |-> UNION answers(k)], rows)
<1> DEFINE rows == {b \in Existing : InTab(f, b)}
           n == Pages(Cardinality(rows))
<1> SUFFICES ASSUME \A a, b \in rows : a # b => a.opened # b.opened
             PROVE  /\ \A k \in 1..n : Cardinality(HistoryPages(f, k, Existing)) = 1
                    /\ Partition([k \in 1..n |-> UNION HistoryPages(f, k, Existing)], rows)
  BY DEF HistoryTotal
<1>1. IsFiniteSet(rows) /\ Orders(rows) # {}
  BY HistoryOrder
<1>2. \A b \in rows : b.opened \in Nat
  <2>1. \A i \in Ids : store[i] # Gone => store[i].opened \in Nat
    BY RowAssumption DEF TypeInv, RowsOK
  <2>2. QED
    BY <2>1 DEF Existing
<1>3. \A k : HistoryPages(f, k, Existing) = {Slice(p, k) : p \in Orders(rows)}
  BY DEF HistoryPages, Orders
<1> HIDE DEF rows
<1>4. PICK place : Orders(rows) = {place}
  <2>1. PICK place \in Orders(rows) : TRUE
    BY <1>1
  <2>2. \A p \in Orders(rows) : p = place
    BY <1>1, <1>2, OneOrder
  <2>3. QED
    BY <2>1, <2>2
<1>5. \A k : HistoryPages(f, k, Existing) = {Slice(place, k)}
  BY <1>3, <1>4
<1>6. place \in Injection(rows, 0 .. (Cardinality(rows) - 1))
  <2> DEFINE taken == 0 .. (Cardinality(rows) - 1)
  <2>1. place \in [rows -> taken] /\ \A a, b \in rows : a # b => place[a] # place[b]
    BY <1>4 DEF Orders
  <2> HIDE DEF taken
  <2>2. place \in Injection(rows, taken)
    BY <2>1, Fun_IsInj
  <2>3. QED
    BY <2>2 DEF taken
<1>7. \A k : Cardinality(HistoryPages(f, k, Existing)) = 1
              /\ UNION HistoryPages(f, k, Existing) = Slice(place, k)
  BY <1>5, FS_Singleton
<1>8. [k \in 1..n |-> UNION HistoryPages(f, k, Existing)] = [k \in 1..n |-> Slice(place, k)]
  BY <1>7
<1>9. Partition([k \in 1..n |-> Slice(place, k)], rows)
  BY <1>1, <1>6, SlicesPartition
<1>10. QED
  BY <1>7, <1>8, <1>9

(* The pages of either listing, for any rows, users and page sizes, hold   *)
(* each row once, and all but the last are full: each book that may be     *)
(* opened and matches the filter is on one of them and no other is, since  *)
(* Before is a total order, if only by the id; and of a tab of the history *)
(* while its books were opened at instants of their own.                   *)
THEOREM PagesHoldEachRow == Spec => []PagesPartition
<1>1. ASSUME TypeInv, kind = "ebooks", NEW f \in Filters[kind]
      PROVE  LET n == Pages(EbookTotal(f, Existing))
                 openable == {b \in Existing : CanView(b)} IN
             /\ Partition([k \in 1..n |-> EbookRows(f, k, Existing)], Matching(f, Existing))
             /\ Matching(f, Existing) \subseteq openable
             /\ f.q = "" /\ f.author = "" /\ f.visibility = "all" =>
                  Matching(f, Existing) = openable
  <2>1. \A b \in Existing : Listed(f, b) => CanView(b)
    BY DEF Listed, CanView
  <2>2. ASSUME f.q = "", f.author = "", f.visibility = "all", NEW b \in Existing, CanView(b)
        PROVE  Listed(f, b)
    <3>1. f \in [q : STRING, author : DOMAIN Trim, visibility : STRING, sort : STRING]
      BY <1>1, FilterAssumption DEF TypeInv
    <3>2. Normal(f).q = "" /\ Normal(f).author = "" /\ Normal(f).visibility = "all"
      BY <2>2, <3>1, TrimAssumption DEF Normal
    <3>3. QED
      BY <2>2, <3>2 DEF Listed, CanView
  <2>3. Partition([k \in 1..Pages(EbookTotal(f, Existing)) |-> EbookRows(f, k, Existing)],
                  Matching(f, Existing))
    BY <1>1, EbookPages
  <2>4. QED
    BY <2>1, <2>2, <2>3 DEF Matching
<1>2. ASSUME TypeInv PROVE PagesPartition
  <2>1. ASSUME kind = "history", NEW f
        PROVE  LET n == Pages(HistoryTotal(f, Existing))
                   rows == {b \in Existing : InTab(f, b)}
                   answers(k) == HistoryPages(f, k, Existing) IN
               (\A a, b \in rows : a # b => a.opened # b.opened) =>
                 /\ \A k \in 1..n : Cardinality(answers(k)) = 1
                 /\ Partition([k \in 1..n |-> UNION answers(k)], rows)
    BY <1>2, <2>1, HistoryPartition
  <2>2. kind \in {"ebooks", "history"}
    BY <1>2, KindAssumption DEF TypeInv
  <2>3. CASE kind = "ebooks"
    BY <1>1, <1>2, <2>3 DEF PagesPartition
  <2>4. CASE kind = "history"
    BY <2>1, <2>4 DEF PagesPartition
  <2>5. QED
    BY <2>2, <2>3, <2>4
<1>3. QED
  BY <1>2, InitType, StepType, PTL DEF Spec

(* Every author offered lists a book, and the author of every listed book  *)
(* is offered, since both statements share the rule of who may see what.   *)
THEOREM AuthorsAreListed == Spec => []AuthorsListed
<1> DEFINE words == {"", "all", "title"}
           names == DOMAIN Trim
<1>1. Everything \in [q : words, author : names, visibility : words, sort : words]
  BY TrimAssumption DEF Everything
<1>2. /\ Normal(Everything).q = "" /\ Normal(Everything).author = ""
      /\ Normal(Everything).visibility = "all"
  <2>1. Everything.q = "" /\ Everything.author = "" /\ Everything.visibility = "all"
    BY DEF Everything
  <2>2. QED
    BY <1>1, <2>1, TrimAssumption DEF Normal
<1>3. ASSUME NEW f, NEW b, Listed(f, b) PROVE Listed(Everything, b)
  BY <1>2, <1>3 DEF Listed
<1>4. ASSUME NEW a \in Authors(Existing), a = Trim[a]
      PROVE  Matching([Everything EXCEPT !.author = a], Existing) # {}
  <2> DEFINE f == [Everything EXCEPT !.author = a]
  <2>1. PICK b \in Existing : Listed(Everything, b) /\ b.author = a
    BY DEF Authors, Matching
  <2>2. Normal(f).q = "" /\ Normal(f).author = a /\ Normal(f).visibility = "all"
    BY <1>4 DEF Normal, Everything
  <2>3. Listed(f, b)
    BY <1>2, <2>1, <2>2 DEF Listed
  <2>4. QED
    BY <2>1, <2>3 DEF Matching
<1>5. ASSUME NEW f, NEW b \in Matching(f, Existing)
      PROVE  b.author \in Authors(Existing) \cup {""}
  BY <1>3 DEF Matching, Authors
<1>6. AuthorsListed
  BY <1>4, <1>5 DEF AuthorsListed
<1>7. QED
  BY <1>6, PTL DEF Spec

-----------------------------------------------------------------------------
(* Empty pages.                                                            *)

(* Rows and a total that answer a question: no page of the total is empty, *)
(* unless it is 0.                                                         *)
Fits(rows, total, of) == rows = {} /\ of.page <= Pages(total) => total = 0

(* What a request has read, if nobody wrote in between, is what the rows   *)
(* are now after its first statement, and one list's after both.           *)
Consistent(r) ==
  ~r.torn =>
    /\ r.at = "second" =>
         IF kind = "ebooks" THEN r.total = Total(r)
         ELSE \E rows \in Rows(r) : r.rows = {b.id : b \in rows}
    /\ r.at = "answered" => Fits(r.rows, r.total, r.of)

(* The page on screen is one that the list had, or another is being asked  *)
(* for.                                                                    *)
AtPage == ~loading => Here.page <= Pages(shown.total)
ShownFits == ~shown.torn => Fits(shown.rows, shown.total, shown.of)
EmptyInv == (\A r \in requests : Consistent(r)) /\ ShownFits /\ AtPage

(* Both statements of a listing, on the same rows.                         *)
LEMMA AnswerFits ==
  ASSUME TypeInv, NEW r \in requests, NEW rows \in Rows(r)
  PROVE  Fits({b.id : b \in rows}, Total(r), r.of)
<1>1. r.of.page \in Nat \ {0}
  BY DEF TypeInv, RequestsOK, Requests, Questions
<1> SUFFICES ASSUME rows = {}, r.of.page <= Pages(Total(r)) PROVE Total(r) = 0
  BY DEF Fits
<1>2. Total(r) \in Nat
  BY TotalType
<1>3. r.of.page \in 1..Pages(Total(r))
  BY <1>1, <1>2, SomePage
<1>4. CASE kind = "ebooks"
  <2>1. Total(r) = EbookTotal(r.of.filter, Existing)
        /\ rows = EbookRows(r.of.filter, r.of.page, Existing)
    BY <1>4 DEF Total, Rows
  <2>2. QED
    BY <1>3, <1>4, <2>1, EbookPages
<1>5. CASE kind = "history"
  <2>1. Total(r) = HistoryTotal(r.of.filter, Existing)
        /\ rows \in HistoryPages(r.of.filter, r.of.page, Existing)
    BY <1>5 DEF Total, Rows
  <2>2. QED
    BY <1>3, <1>5, <2>1, HistoryPage
<1>6. QED
  BY <1>4, <1>5, KindAssumption DEF TypeInv

(* A statement reads the rows as they are.                                 *)
LEMMA ServeConsistent ==
  ASSUME TypeInv, NEW r \in requests, Consistent(r), Serve(r)
  PROVE  \E next : requests' = (requests \ {r}) \cup {next} /\ Consistent(next)'
<1>0. r \in Requests /\ UNCHANGED <<kind, store>>
  BY DEF TypeInv, RequestsOK, Serve
<1>1. ASSUME NEW at \in {"second", "answered"}, SelectRows(r, at),
             at = "second" <=> kind # "ebooks", r.at = (IF at = "second" THEN "first" ELSE "second")
      PROVE  \E next : requests' = (requests \ {r}) \cup {next} /\ Consistent(next)'
  <2>1. PICK rows \in Rows(r) :
          Becomes(r, [r EXCEPT !.at = at, !.rows = {b.id : b \in rows}])
    BY <1>1 DEF SelectRows
  <2>2. PICK ids : ids = {b.id : b \in rows}
    OBVIOUS
  <2>3. PICK next : next = [r EXCEPT !.at = at, !.rows = ids]
    OBVIOUS
  <2>4. requests' = (requests \ {r}) \cup {next}
    BY <2>1, <2>2, <2>3 DEF Becomes
  <2>5. /\ next.at = at /\ next.rows = ids /\ next.of = r.of
        /\ next.total = r.total /\ next.torn = r.torn
    BY <1>0, <2>3 DEF Requests
  <2>6. CASE at = "second"
    <3>1. kind' # "ebooks" /\ Rows(next)' = Rows(r)
      BY <1>0, <1>1, <2>5, <2>6 DEF Rows, Existing
    <3>2. \E read \in Rows(next)' : next.rows = {b.id : b \in read}
      BY <2>2, <2>5, <3>1
    <3>3. Consistent(next)'
      BY <2>5, <2>6, <3>1, <3>2 DEF Consistent
    <3>4. QED
      BY <2>4, <3>3
  <2>7. CASE at = "answered"
    <3>1. r.at = "second" /\ kind = "ebooks"
      BY <1>1, <2>7
    <3>2. ~r.torn => r.total = Total(r)
      BY <3>1 DEF Consistent
    <3>3. ~r.torn => Fits(ids, r.total, r.of)
      BY <2>2, <3>2, AnswerFits
    <3>4. Consistent(next)'
      BY <2>5, <2>7, <3>3 DEF Consistent, Fits
    <3>5. QED
      BY <2>4, <3>4
  <2>8. QED
    BY <2>6, <2>7
<1>2. ASSUME NEW at \in {"second", "answered"}, CountRows(r, at),
             at = "second" <=> kind = "ebooks", r.at = (IF at = "second" THEN "first" ELSE "second")
      PROVE  \E next : requests' = (requests \ {r}) \cup {next} /\ Consistent(next)'
  <2>1. PICK total : total = Total(r)
    OBVIOUS
  <2>2. PICK next : next = [r EXCEPT !.at = at, !.total = total]
    OBVIOUS
  <2>3. requests' = (requests \ {r}) \cup {next}
    BY <1>2, <2>1, <2>2 DEF CountRows, Becomes
  <2>4. /\ next.at = at /\ next.total = total /\ next.of = r.of
        /\ next.rows = r.rows /\ next.torn = r.torn
    BY <1>0, <2>2 DEF Requests
  <2>5. CASE at = "second"
    <3>1. kind' = "ebooks" /\ Total(next)' = total
      BY <1>0, <1>2, <2>1, <2>4, <2>5 DEF Total, Existing
    <3>2. Consistent(next)'
      BY <2>4, <2>5, <3>1 DEF Consistent
    <3>3. QED
      BY <2>3, <3>2
  <2>6. CASE at = "answered"
    <3>1. r.at = "second" /\ kind # "ebooks"
      BY <1>2, <2>6
    <3>2. ~r.torn => \E rows \in Rows(r) : r.rows = {b.id : b \in rows}
      BY <3>1 DEF Consistent
    <3>3. ~r.torn => Fits(r.rows, total, r.of)
      BY <2>1, <3>2, AnswerFits
    <3>4. Consistent(next)'
      BY <2>4, <2>6, <3>3 DEF Consistent, Fits
    <3>5. QED
      BY <2>3, <3>4
  <2>7. QED
    BY <2>5, <2>6
<1>3. \/ /\ r.at = "first"
         /\ IF kind = "ebooks" THEN CountRows(r, "second") ELSE SelectRows(r, "second")
      \/ /\ r.at = "second"
         /\ IF kind = "ebooks" THEN SelectRows(r, "answered") ELSE CountRows(r, "answered")
  BY DEF Serve
<1>4. QED
  BY <1>1, <1>2, <1>3

(* Requests that have read nothing, or whose rows were written since.      *)
LEMMA FreshConsistent ==
  ASSUME NEW r, r.at = "first"
  PROVE  Consistent(r)'
BY DEF Consistent

LEMMA TornConsistent ==
  ASSUME TypeInv, NEW t \in requests, Consistent(t)
  PROVE  Consistent(Torn(t))'
<1>1. t \in Requests
  BY DEF TypeInv, RequestsOK
<1> DEFINE r == Torn(t)
<1>2. /\ r.at = t.at /\ r.rows = t.rows /\ r.total = t.total /\ r.of = t.of
      /\ r.torn = (t.torn \/ t.at = "second")
  BY <1>1 DEF Requests, Torn
<1> HIDE DEF r
<1>3. Consistent(r)'
  BY <1>2 DEF Consistent, Fits
<1>4. QED
  BY <1>3 DEF r

LEMMA SameConsistent ==
  ASSUME UNCHANGED <<kind, store>>, NEW r, Consistent(r)
  PROVE  Consistent(r)'
<1>1. Rows(r)' = Rows(r) /\ Total(r)' = Total(r)
  BY DEF Rows, Total, Existing
<1>2. QED
  BY <1>1 DEF Consistent, Fits

(* An answer that is taken, or a failure, ends at a page of its total.     *)
LEMMA EndEmpty ==
  ASSUME TypeInv, EmptyInv, NEW r \in requests, Deliver(r) \/ Fail(r)
  PROVE  EmptyInv'
<1>1. Ended(r)
  BY Ends
<1>2. UNCHANGED <<kind, store, top>>
  BY <1>1 DEF Ended
<1>3. CASE ~Newest(r)
  <2>1. requests' = requests \ {r} /\ UNCHANGED <<stack, loading, shown>>
    BY <1>1, <1>3 DEF Ended
  <2>2. \A t \in requests' : Consistent(t)'
    BY <1>2, <2>1, SameConsistent DEF EmptyInv
  <2>3. ShownFits' /\ AtPage'
    BY <1>2, <2>1 DEF EmptyInv, ShownFits, AtPage, Fits, Here
  <2>4. QED
    BY <2>2, <2>3 DEF EmptyInv
<1>4. CASE Newest(r)
  <2>1. \A t \in requests' : t \in requests \/ t.at = "first"
    BY <1>1, <1>4 DEF Ended, Rested, Loaded
  <2>2. \A t \in requests' : Consistent(t)'
    BY <1>2, <2>1, SameConsistent, FreshConsistent DEF EmptyInv
  <2>3. Settle(requests \ {r}, shown'.total)
    <3>1. CASE Deliver(r)
      BY <1>4, <3>1 DEF Deliver
    <3>2. CASE Fail(r)
      <4>1. shown \in [rows : SUBSET Ids, total : Nat, of : Questions, torn : BOOLEAN]
        BY DEF TypeInv, PageOK
      <4> DEFINE total == IF kind = "history" THEN 0 ELSE shown.total
      <4>2. Settle(requests \ {r}, total)
        BY <1>4, <3>2 DEF Fail
      <4>3. shown' = IF kind = "history" THEN [shown EXCEPT !.rows = {}, !.total = 0] ELSE shown
        BY <1>4, <3>2 DEF Fail
      <4>4. shown'.total = total
        BY <4>1, <4>3
      <4> HIDE DEF total
      <4>5. QED
        BY <4>2, <4>4
    <3>3. QED
      BY <3>1, <3>2
  <2>4. AtPage'
    <3>1. ~loading' => ~PastEnd(Here, shown'.total) /\ stack' = stack
      BY <2>3 DEF Settle
    <3>2. Here.page \in Nat /\ Pages(shown'.total) \in Nat
      <4>1. shown'.total \in Nat
        BY <1>1, <1>4 DEF Ended
      <4>2. Here \in Questions
        BY DEF TypeInv, StackOK, Here
      <4>3. Here.page \in Nat
        BY <4>2 DEF Questions
      <4>4. QED
        BY <4>1, <4>3, SomePage
    <3>3. QED
      BY <1>2, <3>1, <3>2 DEF AtPage, PastEnd, Here
  <2>5. ShownFits'
    <3>1. CASE Deliver(r)
      <4>1. shown' = [rows |-> r.rows, total |-> r.total, of |-> r.of, torn |-> r.torn]
            /\ r.at = "answered" /\ Consistent(r)
        BY <1>4, <3>1 DEF Deliver, EmptyInv
      <4>2. QED
        BY <4>1 DEF Consistent, ShownFits, Fits
    <3>2. CASE Fail(r)
      <4>1. shown \in [rows : SUBSET Ids, total : Nat, of : Questions, torn : BOOLEAN]
        BY DEF TypeInv, PageOK
      <4>2. \/ shown' = shown
            \/ shown' = [shown EXCEPT !.rows = {}, !.total = 0]
        BY <1>4, <3>2 DEF Fail
      <4>3. QED
        BY <4>1, <4>2 DEF EmptyInv, ShownFits, Fits
    <3>3. QED
      BY <3>1, <3>2
  <2>6. QED
    BY <2>2, <2>4, <2>5 DEF EmptyInv
<1>5. QED
  BY <1>3, <1>4

LEMMA StepEmpty == TypeInv /\ EmptyInv /\ [Next]_vars => EmptyInv'
<1> SUFFICES ASSUME TypeInv, EmptyInv, [Next]_vars PROVE EmptyInv'
  OBVIOUS
<1>1. CASE Moves
  <2>1. UNCHANGED <<kind, store, shown>>
    BY <1>1, MovesLand
  <2>2. PICK entry, q : Landed(entry, q)
    BY <1>1, MovesLand
  <2>3. \A t \in requests' : t \in requests \/ t.at = "first"
    BY <2>2 DEF Landed, Loaded
  <2>4. \A t \in requests' : Consistent(t)'
    BY <2>1, <2>3, SameConsistent, FreshConsistent DEF EmptyInv
  <2>5. Here' = q /\ (~loading' => ~loading /\ q = Here)
    BY <2>2 DEF Landed, Here
  <2>6. ShownFits' /\ AtPage'
    BY <2>1, <2>5 DEF EmptyInv, ShownFits, AtPage, Fits
  <2>7. QED
    BY <2>4, <2>6 DEF EmptyInv
<1>2. ASSUME NEW r \in requests, Serve(r) PROVE EmptyInv'
  <2>1. UNCHANGED <<kind, store, stack, top, loading, shown>>
    BY <1>2, ServeSame
  <2>2. PICK next : requests' = (requests \ {r}) \cup {next} /\ Consistent(next)'
    BY <1>2, ServeConsistent DEF EmptyInv
  <2>3. \A t \in requests' : Consistent(t)'
    BY <2>1, <2>2, SameConsistent DEF EmptyInv
  <2>4. QED
    BY <2>1, <2>3 DEF EmptyInv, ShownFits, AtPage, Fits, Here
<1>3. ASSUME NEW r \in requests, Deliver(r) \/ Fail(r) PROVE EmptyInv'
  BY <1>3, EndEmpty
<1>4. CASE Change \/ Managed
  <2>1. UNCHANGED <<stack, top, shown>> /\ (~loading' => ~loading)
    BY <1>4 DEF Change, Managed
  <2>2. \A r \in requests' : r \in Marked \/ r.at = "first"
    <3>1. CASE Change
      BY <3>1 DEF Change, Marked, Torn
    <3>2. CASE Managed
      <4>1. managing # <<>> /\ Load(Marked, managing, Here)
        BY <3>2 DEF Managed, Marked, Torn
      <4>2. PICK q \in Questions : managing = <<q>>
        BY <4>1 DEF TypeInv, PageOK
      <4>3. Loaded(Marked, q)
        BY <4>1, <4>2, MarkedType, LoadOne DEF TypeInv, RequestsOK
      <4>4. QED
        BY <4>3 DEF Loaded
    <3>3. QED
      BY <1>4, <3>1, <3>2
  <2>3. \A r \in requests' : Consistent(r)'
    BY <2>2, TornConsistent, FreshConsistent DEF EmptyInv, Marked
  <2>4. ShownFits' /\ AtPage'
    BY <2>1 DEF EmptyInv, ShownFits, AtPage, Fits, Here
  <2>5. QED
    BY <2>3, <2>4 DEF EmptyInv
<1>5. CASE Type \/ Manage \/ ManageFails \/ UNCHANGED vars
  <2>1. UNCHANGED <<kind, store, stack, top, requests, loading, shown>>
    BY <1>5 DEF Type, Manage, ManageFails, vars
  <2>2. \A r \in requests' : Consistent(r)'
    BY <2>1, SameConsistent DEF EmptyInv
  <2>3. QED
    BY <2>1, <2>2 DEF EmptyInv, ShownFits, AtPage, Fits, Here
<1>6. QED
  BY <1>1, <1>2, <1>3, <1>4, <1>5 DEF Next, Moves, Answer

LEMMA InitEmpty == Init => EmptyInv
<1> SUFFICES ASSUME Init PROVE EmptyInv
  OBVIOUS
<1>1. \A r \in requests : Consistent(r)
  <2>1. \A r \in requests : r.at = "first"
    <3>1. requests = {Asking(1, Here)}
      BY DEF Init
    <3>2. Asking(1, Here).at = "first"
      BY DEF Asking
    <3>3. QED
      BY <3>1, <3>2
  <2>2. QED
    BY <2>1 DEF Consistent
<1>2. ShownFits /\ AtPage
  BY DEF Init, ShownFits, Fits, AtPage
<1>3. QED
  BY <1>1, <1>2 DEF EmptyInv

(* An empty page is shown only of an empty list, on both pages, whatever   *)
(* page the URL asked for and however the list shrank, unless rows changed *)
(* between the two statements of the answer on screen.                     *)
THEOREM EmptyIsEmpty == Spec => []EmptyMeansNone
<1>1. EmptyInv => EmptyMeansNone
  BY DEF EmptyInv, ShownFits, Fits, AtPage, EmptyMeansNone
<1>2. QED
  BY <1>1, InitEmpty, InitType, StepType, StepEmpty, PTL DEF Spec

-----------------------------------------------------------------------------
(* Rest.                                                                   *)

(* What a page that loads is waiting for: the newest request.              *)
Awaiting == loading => \E r \in requests : r.seq = seq

LEMMA StepAwaiting == TypeInv /\ Awaiting /\ [Next]_vars => Awaiting'
<1> SUFFICES ASSUME TypeInv, Awaiting, [Next]_vars PROVE Awaiting'
  OBVIOUS
<1>1. CASE Moves
  <2>1. PICK entry, q : Landed(entry, q)
    BY <1>1, MovesLand
  <2>2. CASE entry = Here
    BY <2>1, <2>2 DEF Landed, Awaiting
  <2>3. CASE entry # Here
    BY <2>1, <2>3 DEF Landed, Loaded, Awaiting
  <2>4. QED
    BY <2>2, <2>3
<1>2. ASSUME NEW r \in requests, Serve(r) PROVE Awaiting'
  <2>1. PICK next \in Requests : /\ next.seq = r.seq
                                 /\ requests' = (requests \ {r}) \cup {next}
    BY <1>2, ServeSame
  <2>2. UNCHANGED <<seq, loading>>
    BY <1>2, ServeSame
  <2>3. QED
    BY <2>1, <2>2 DEF Awaiting
<1>3. ASSUME NEW r \in requests, Deliver(r) \/ Fail(r) PROVE Awaiting'
  <2>1. Ended(r)
    BY <1>3, Ends
  <2>2. CASE ~Newest(r)
    <3>1. requests' = requests \ {r} /\ UNCHANGED <<seq, loading>> /\ r.seq # seq
      BY <2>1, <2>2 DEF Ended, Newest
    <3>2. QED
      BY <3>1 DEF Awaiting
  <2>3. CASE Newest(r)
    BY <2>1, <2>3 DEF Ended, Rested, Loaded, Awaiting
  <2>4. QED
    BY <2>2, <2>3
<1>4. CASE Change
  <2>1. requests' = {Torn(r) : r \in requests} /\ UNCHANGED <<seq, loading>>
    BY <1>4 DEF Change, Torn
  <2>2. \A r \in requests : Torn(r).seq = r.seq
    BY DEF TypeInv, RequestsOK, Requests, Torn
  <2>3. QED
    BY <2>1, <2>2 DEF Awaiting
<1>5. CASE Managed
  <2>1. managing # <<>> /\ Load(Marked, managing, Here)
    BY <1>5 DEF Managed, Marked, Torn
  <2>2. PICK q \in Questions : managing = <<q>>
    BY <2>1 DEF TypeInv, PageOK
  <2>3. requests' = Marked \cup {Asking(seq + 1, q)} /\ seq' = seq + 1
    BY <2>1, <2>2 DEF Load
  <2>4. Asking(seq + 1, q).seq = seq + 1
    BY DEF Asking
  <2>5. QED
    BY <2>3, <2>4 DEF Awaiting
<1>6. CASE Type \/ Manage \/ ManageFails \/ UNCHANGED vars
  <2>1. UNCHANGED <<requests, seq, loading>>
    BY <1>6 DEF Type, Manage, ManageFails, vars
  <2>2. QED
    BY <2>1 DEF Awaiting
<1>7. QED
  BY <1>1, <1>2, <1>3, <1>4, <1>5, <1>6 DEF Next, Moves, Answer

(* The rows of any request can be selected, by some order of equal times.  *)
Answerable == \A r \in requests : Rows(r) # {}

LEMMA RowsAnswer == TypeInv => Answerable
<1> SUFFICES ASSUME TypeInv, NEW r \in requests PROVE Rows(r) # {}
  BY DEF Answerable
<1>1. CASE kind = "ebooks"
  BY <1>1 DEF Rows
<1>2. CASE kind = "history"
  <2>1. PICK rows : rows = {b \in Existing : InTab(r.of.filter, b)}
    OBVIOUS
  <2>2. PICK place : place \in Orders(rows)
    BY <1>2, <2>1, HistoryOrder
  <2>3. Slice(place, r.of.page) \in HistoryPages(r.of.filter, r.of.page, Existing)
    BY <2>1, <2>2 DEF HistoryPages, Orders
  <2>4. QED
    BY <1>2, <2>3 DEF Rows
<1>3. QED
  BY <1>1, <1>2, KindAssumption DEF TypeInv

(* No page is stuck: as long as it loads its newest request is under way,  *)
(* which can be served and whose answer or failure ends the loading, and   *)
(* when it does not load it stands on a page the list had.  This is what   *)
(* Settles rests on, whatever handlers, Back and steps back from a page    *)
(* past the end overlap.                                                   *)
THEOREM NeverStuck == Spec => [](Awaiting /\ Answerable /\ AtPage)
<1>1. Init => Awaiting
  <2>1. Asking(1, Here).seq = 1
    BY DEF Asking
  <2>2. QED
    BY <2>1 DEF Init, Awaiting
<1>2. EmptyInv => AtPage
  BY DEF EmptyInv
<1>3. QED
  BY <1>1, <1>2, InitEmpty, InitType, StepType, StepEmpty, StepAwaiting, RowsAnswer, PTL DEF Spec

=============================================================================
