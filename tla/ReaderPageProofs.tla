-------------------------- MODULE ReaderPageProofs --------------------------
(* Theorems about ReaderPage, for a book of any length and any number of   *)
(* deeds, flushes and failures.                                            *)
EXTENDS ReaderPage, TLAPS

-----------------------------------------------------------------------------
(* Calls. *)

Ops == {"open", "save", "status", "list", "mark", "unmark"}
Ends == {"answered", "refused"}
Stages == {"sent", "create", "cache", "fill", "row", "write", "answered", "refused"}

(* What a call that is n, v, ... is as a record. *)
TheCall(n, v, op, arg, at, p, answer) ==
  [n |-> n, visit |-> v, op |-> op, arg |-> arg, at |-> at, page |-> p, answer |-> answer]
IsCall(c) == \E n, v, op, arg, at, p, answer : c = TheCall(n, v, op, arg, at, p, answer)

OpenAnswers == [completed : BOOLEAN, behind : BOOLEAN, doubt : BOOLEAN]

(* The stages of a call of a kind. *)
StageOK(c) ==
  /\ c.at \in Stages
  /\ c.op = "open" => c.at \in {"sent", "create", "cache", "fill", "answered"}
  /\ c.op = "status" => c.at \in {"sent", "row", "fill", "write"} \cup Ends
  /\ c.op = "save" => c.at = "sent"
  /\ c.op \in {"list", "mark", "unmark"} => c.at \in {"sent"} \cup Ends

(* A call under way when s calls were sent and the page mounted v times.   *)
CallOK(c, s, v) ==
  /\ IsCall(c) /\ StageOK(c)
  /\ c.n \in 1..s /\ c.visit \in 0..v /\ c.op \in Ops /\ c.page \in Pages
  /\ c.op \in {"save", "mark"} => c.arg \in Pages
  /\ c.op = "status" => c.arg \in BOOLEAN
  /\ c.op = "list" /\ c.at = "answered" => c.answer \subseteq Pages \X (1..s)
  /\ c.op = "open" /\ c.at # "sent" => c.answer \in OpenAnswers
  /\ c.at = "create" => c.page = 1

(* More calls and more visits leave a call what it is.                     *)
LEMMA CallStays ==
  ASSUME NEW s \in Nat, NEW t \in Nat, s <= t, NEW v \in Nat, NEW w \in Nat, v <= w,
         NEW c, CallOK(c, s, v)
  PROVE  CallOK(c, t, w)
<1>1. 1..s \subseteq 1..t /\ 0..v \subseteq 0..w
  OBVIOUS
<1>2. Pages \X (1..s) \subseteq Pages \X (1..t)
  BY <1>1
<1>3. QED
  BY <1>1, <1>2 DEF CallOK

(* A call is the record of its parts.                                      *)
LEMMA Parts ==
  ASSUME NEW n, NEW v, NEW op, NEW arg, NEW at, NEW p, NEW answer
  PROVE  LET c == TheCall(n, v, op, arg, at, p, answer) IN
         IsCall(c) /\ c.n = n /\ c.visit = v /\ c.op = op /\ c.arg = arg
         /\ c.at = at /\ c.page = p /\ c.answer = answer
<1> DEFINE c == TheCall(n, v, op, arg, at, p, answer)
<1>1. IsCall(c)
  BY Zenon DEF IsCall
<1>2. c.n = n /\ c.visit = v /\ c.op = op /\ c.arg = arg /\ c.at = at
      /\ c.page = p /\ c.answer = answer
  BY DEF TheCall
<1>3. QED
  BY <1>1, <1>2

(* d is call c at another stage of its way. *)
Reply(c, d, at, p, answer) ==
  /\ IsCall(d) /\ d.n = c.n /\ d.visit = c.visit /\ d.op = c.op /\ d.arg = c.arg
  /\ d.at = at /\ d.page = p /\ d.answer = answer

(* d is call c, whose tab is gone. *)
Orphan(d, c) ==
  /\ IsCall(d) /\ d.n = c.n /\ d.visit = Nobody /\ d.op = c.op /\ d.arg = c.arg
  /\ d.at = c.at /\ d.page = c.page /\ d.answer = c.answer

(* A call whose tab is gone keeps everything but its visit.                *)
LEMMA Orphaned ==
  ASSUME NEW c, IsCall(c), NEW v
  PROVE  LET d == [c EXCEPT !.visit = v] IN
         IsCall(d) /\ d.n = c.n /\ d.visit = v /\ d.op = c.op /\ d.arg = c.arg
         /\ d.at = c.at /\ d.page = c.page /\ d.answer = c.answer
<1>1. PICK n, w, op, arg, at, p, answer : c = TheCall(n, w, op, arg, at, p, answer)
  BY Zenon DEF IsCall
<1>2. [c EXCEPT !.visit = v] = TheCall(n, v, op, arg, at, p, answer)
  BY <1>1 DEF TheCall
<1>3. c.n = n /\ c.op = op /\ c.arg = arg /\ c.at = at /\ c.page = p /\ c.answer = answer
  BY <1>1, Parts
<1>4. QED
  BY <1>2, <1>3, Parts

LEMMA Orphans ==
  ASSUME NEW c, IsCall(c)
  PROVE  Orphan([c EXCEPT !.visit = Nobody], c)
<1> DEFINE d == [c EXCEPT !.visit = Nobody]
<1>1. IsCall(d) /\ d.n = c.n /\ d.visit = Nobody /\ d.op = c.op /\ d.arg = c.arg
      /\ d.at = c.at /\ d.page = c.page /\ d.answer = c.answer
  BY Orphaned, Zenon
<1> HIDE DEF d
<1>2. Orphan(d, c)
  BY <1>1 DEF Orphan
<1>3. QED
  BY <1>2 DEF d

(* An answered call keeps everything but its stage, page and answer.       *)
LEMMA Moved ==
  ASSUME NEW c, IsCall(c), NEW now, NEW here
  PROVE  /\ Reply(c, [c EXCEPT !.at = now, !.page = here], now, here, c.answer)
         /\ \A reply : Reply(c, [c EXCEPT !.at = now, !.page = here, !.answer = reply],
                             now, here, reply)
<1>1. PICK n, w, op, arg, at, p, answer : c = TheCall(n, w, op, arg, at, p, answer)
  BY Zenon DEF IsCall
<1> DEFINE first == TheCall(n, w, op, arg, now, p, answer)
           second == TheCall(n, w, op, arg, now, here, answer)
           third(reply) == TheCall(n, w, op, arg, now, here, reply)
<1>2. [c EXCEPT !.at = now] = first
  BY <1>1 DEF TheCall
<1>3. [first EXCEPT !.page = here] = second
  BY DEF TheCall
<1>4. \A reply : [second EXCEPT !.answer = reply] = third(reply)
  BY DEF TheCall
<1>5. [c EXCEPT !.at = now, !.page = here] = [[c EXCEPT !.at = now] EXCEPT !.page = here]
  OBVIOUS
<1>6. \A reply : [c EXCEPT !.at = now, !.page = here, !.answer = reply] =
                 [[c EXCEPT !.at = now, !.page = here] EXCEPT !.answer = reply]
  OBVIOUS
<1>7. c.n = n /\ c.visit = w /\ c.op = op /\ c.arg = arg /\ c.answer = answer
  BY <1>1, Parts
<1>8. Reply(c, second, now, here, answer) /\ \A reply : Reply(c, third(reply), now, here, reply)
  BY <1>7, Parts DEF Reply
<1>9. [c EXCEPT !.at = now, !.page = here] = second
  BY <1>2, <1>3, <1>5
<1>10. \A reply : [c EXCEPT !.at = now, !.page = here, !.answer = reply] = third(reply)
  BY <1>4, <1>6, <1>9
<1> HIDE DEF first, second, third
<1>11. QED
  BY <1>7, <1>8, <1>9, <1>10

(* There is one reply of a kind to a call.                                 *)
LEMMA SameReply ==
  ASSUME NEW c, NEW at, NEW p, NEW answer, NEW d, NEW e,
         Reply(c, d, at, p, answer), Reply(c, e, at, p, answer)
  PROVE  d = e
<1>1. \A b : IsCall(b) => b = TheCall(b.n, b.visit, b.op, b.arg, b.at, b.page, b.answer)
  BY Parts DEF IsCall
<1>2. d = TheCall(c.n, c.visit, c.op, c.arg, at, p, answer)
  BY <1>1 DEF Reply
<1>3. e = TheCall(c.n, c.visit, c.op, c.arg, at, p, answer)
  BY <1>1 DEF Reply
<1>4. QED
  BY <1>2, <1>3

(* A call that is sent is the newest one, of the present visit.            *)
LEMMA Sent ==
  ASSUME NEW op, NEW arg
  PROVE  LET c == Call(op, arg) IN
         /\ IsCall(c) /\ c.n = sent + 1 /\ c.visit = visit /\ c.op = op /\ c.arg = arg
         /\ c.at = "sent" /\ c.page = 1
BY Parts DEF Call, TheCall

(* Page 1 exists, and no page is None. *)
LEMMA PageOne == 1 \in Pages /\ None \notin Pages
BY LengthAssumption DEF Pages, None

(* A call just sent is in order if its argument is.                        *)
LEMMA SentOK ==
  ASSUME sent \in Nat, NEW op \in Ops, NEW arg, NEW v \in Nat, NEW w \in Nat, v <= w,
         op \in {"save", "mark"} => arg \in Pages, op = "status" => arg \in BOOLEAN
  PROVE  CallOK([Call(op, arg) EXCEPT !.visit = v], sent + 1, w)
<1> DEFINE c == TheCall(sent + 1, v, op, arg, "sent", 1, Nothing)
<1>0. [Call(op, arg) EXCEPT !.visit = v] = c
  BY DEF Call, TheCall
<1>1. /\ IsCall(c) /\ c.n = sent + 1 /\ c.visit = v /\ c.op = op /\ c.arg = arg
      /\ c.at = "sent" /\ c.page = 1
  BY Parts
<1>2. sent + 1 \in 1..(sent + 1) /\ v \in 0..w
  OBVIOUS
<1> HIDE DEF c
<1>3. CallOK(c, sent + 1, w)
  BY <1>1, <1>2, PageOne DEF CallOK, StageOK, Stages, Ops
<1>4. QED
  BY <1>0, <1>3

(* So is a call whose tab is gone, if it was.                              *)
LEMMA OrphanOK ==
  ASSUME NEW s \in Nat, NEW v \in Nat, NEW c, CallOK(c, s, v), NEW d, Orphan(d, c)
  PROVE  CallOK(d, s, v)
<1>1. Nobody \in 0..v
  BY DEF Nobody
<1>2. QED
  BY <1>1 DEF CallOK, StageOK, Orphan

-----------------------------------------------------------------------------
(* Types. *)

RowOK == row \in {NoRow} \cup {Row(n, done) : n \in Pages, done \in BOOLEAN}
FlushOK ==
  /\ flush \in [at : {"done", "read", "write"}, page : Pages, finished : BOOLEAN]
  /\ flush.at = "read" => ~flush.finished
ServerOK == RowOK /\ FlushOK /\ key \in Pages \cup {None}

(* Numbers, pages and bookmarks are in range. *)
Ranges ==
  /\ sent \in Nat /\ visit \in Nat
  /\ marks \subseteq Pages \X (1..sent) /\ listed \subseteq Pages \X (1..sent)
  /\ view \in {"away", "loading", "reading"} /\ (view # "away" => visit > 0)
  /\ page \in Pages /\ waiting \in Pages \cup {None}
  /\ (waiting # None => view = "reading" /\ waiting = page)
  /\ lastSave \in 0..sent /\ applied \in 0..sent

Flags ==
  /\ completed \in BOOLEAN /\ early \in BOOLEAN /\ behind \in BOOLEAN /\ doubt \in BOOLEAN
  /\ moved \in BOOLEAN /\ undone \in BOOLEAN

CallsOK == \A c \in calls : CallOK(c, sent, visit)

(* TypeOK with what the counters, the calls and the ghosts are. *)
TypeInv == ServerOK /\ Ranges /\ Flags /\ CallsOK

(* What a row is, part by part. *)
LEMMA RowParts ==
  /\ NoRow.page = 1 /\ ~NoRow.there /\ ~NoRow.finished
  /\ \A n, done : Row(n, done).page = n /\ Row(n, done).there /\ Row(n, done).finished = done
  /\ RowOK => /\ row.there \in BOOLEAN /\ row.page \in Pages /\ row.finished \in BOOLEAN
              /\ ~row.there => row.page = 1 /\ ~row.finished
<1>1. NoRow.page = 1 /\ ~NoRow.there /\ ~NoRow.finished
  BY DEF NoRow
<1>2. \A n, done : Row(n, done).page = n /\ Row(n, done).there /\ Row(n, done).finished = done
  BY DEF Row
<1>3. NoRow.there \in BOOLEAN /\ NoRow.finished \in BOOLEAN
  BY DEF NoRow
<1>4. \A n, done : Row(n, done).there \in BOOLEAN
  BY DEF Row
<1>5. ASSUME RowOK
      PROVE  row.there \in BOOLEAN /\ row.page \in Pages /\ row.finished \in BOOLEAN
             /\ (~row.there => row.page = 1 /\ ~row.finished)
  <2>1. CASE row = NoRow
    BY <1>1, <1>3, <2>1, PageOne
  <2>2. CASE row # NoRow
    <3>1. PICK n \in Pages, done \in BOOLEAN : row = Row(n, done)
      BY <1>5, <2>2 DEF RowOK
    <3>2. QED
      BY <1>2, <1>4, <3>1
  <2>3. QED
    BY <2>1, <2>2
<1>6. QED
  BY <1>1, <1>2, <1>5

(* Calls that were under way stay what they are while the counters grow.   *)
LEMMA CallsStay ==
  ASSUME TypeInv, sent' \in Nat, sent <= sent', visit' \in Nat, visit <= visit',
         \A c \in calls' : c \in calls \/ CallOK(c, sent', visit')
  PROVE  CallsOK'
<1>1. sent \in Nat /\ visit \in Nat
  BY DEF TypeInv, Ranges
<1>2. \A c \in calls : CallOK(c, sent', visit')
  BY <1>1, CallStays DEF TypeInv, CallsOK
<1>3. QED
  BY <1>2 DEF CallsOK

(* One call more, of a kind whose argument is in order.                    *)
LEMMA SendType ==
  ASSUME TypeInv, NEW others, \A c \in others : CallOK(c, sent, visit),
         NEW op \in Ops, NEW arg,
         op \in {"save", "mark"} => arg \in Pages, op = "status" => arg \in BOOLEAN,
         Send(others, op, arg), visit' = visit
  PROVE  sent' = sent + 1 /\ sent \in Nat /\ CallsOK'
<1>1. sent' = sent + 1 /\ sent \in Nat /\ visit \in Nat /\ sent' \in Nat
  BY DEF Send, TypeInv, Ranges
<1>2. CallOK(Call(op, arg), sent', visit')
  BY <1>1, Sent, PageOne DEF CallOK, StageOK, Stages
<1>3. \A c \in others : CallOK(c, sent', visit')
  BY <1>1, CallStays
<1>4. QED
  BY <1>1, <1>2, <1>3 DEF Send, CallsOK

(* Bookmarks stay bookmarks while calls are sent. *)
LEMMA MarksStay ==
  ASSUME TypeInv, sent' \in Nat, sent <= sent'
  PROVE  marks \subseteq Pages \X (1..sent') /\ listed \subseteq Pages \X (1..sent')
<1>1. 1..sent \subseteq 1..sent'
  BY DEF TypeInv, Ranges
<1>2. Pages \X (1..sent) \subseteq Pages \X (1..sent')
  BY <1>1
<1>3. QED
  BY <1>2 DEF TypeInv, Ranges

(* A server that does nothing stays what it is. *)
LEMMA ServerStays == ServerOK /\ UNCHANGED <<row, key, flush>> => ServerOK'
BY DEF ServerOK, RowOK, FlushOK

(* What a failure or an unload leaves of the calls: those it does not      *)
(* touch, and some the server goes on with though their tab is gone.       *)
Left(others) ==
  \A c \in others : c \in calls \/ \E b \in calls : Serving(b) /\ Orphan(c, b)

LEMMA LeftOK ==
  ASSUME TypeInv, NEW others, Left(others)
  PROVE  \A c \in others : CallOK(c, sent, visit)
<1>1. sent \in Nat /\ visit \in Nat
  BY DEF TypeInv, Ranges
<1>2. QED
  BY <1>1, OrphanOK DEF TypeInv, CallsOK, Left

(* A call that fails is not among them, and the others are.                *)
LEMMA Leaves ==
  ASSUME TypeInv, NEW c \in calls, NEW others \in Without(c)
  PROVE  /\ Left(others) /\ calls \ {c} \subseteq others
         /\ \A d \in others : (d \in calls /\ d # c) \/ (Serving(c) /\ Orphan(d, c))
<1> DEFINE d == [c EXCEPT !.visit = Nobody]
<1>1. \/ others = calls \ {c}
      \/ Serving(c) /\ others = (calls \ {c}) \cup {d}
  BY DEF Without
<1>2. IsCall(c)
  BY DEF TypeInv, CallsOK, CallOK
<1>3. Orphan(d, c)
  BY <1>2, Orphans, Zenon
<1> HIDE DEF d
<1>4. QED
  BY <1>1, <1>3 DEF Left

(* Leaving the page, whatever is left under way. *)
LEMMA LeaveType ==
  ASSUME TypeInv, NEW others, Left(others), Leave(others)
  PROVE  TypeInv'
<1>1. /\ view' = "away" /\ page' = 1 /\ waiting' = None /\ completed' = FALSE /\ listed' = {}
      /\ UNCHANGED <<row, key, flush, marks, visit, applied, behind, doubt, moved, undone>>
  BY DEF Leave, Blank, server, serverGhosts
<1>2. Flush(others)
  BY DEF Leave
<1>3. /\ sent' \in Nat /\ sent <= sent' /\ lastSave' \in 0..sent'
      /\ CallsOK' /\ early' \in BOOLEAN
  <2>1. CASE waiting # None
    <3>1. Send(others, "save", waiting) /\ lastSave' = sent + 1 /\ early' = FALSE
      BY <1>2, <2>1 DEF Flush, Saving
    <3>2. waiting \in Pages /\ (\A c \in others : CallOK(c, sent, visit))
      BY <2>1, LeftOK DEF TypeInv, Ranges
    <3>3. sent' = sent + 1 /\ sent \in Nat /\ CallsOK'
      BY <1>1, <3>1, <3>2, SendType DEF Ops
    <3>4. lastSave' \in 0..sent' /\ sent' \in Nat /\ sent <= sent'
      BY <3>1, <3>3
    <3>5. early' \in BOOLEAN
      BY <3>1
    <3>6. QED
      BY <3>3, <3>4, <3>5
  <2>2. CASE waiting = None
    <3>1. calls' = others /\ UNCHANGED <<sent, lastSave, early>>
      BY <1>2, <2>2 DEF Flush
    <3>2. CallsOK'
      BY <1>1, <3>1, LeftOK DEF CallsOK
    <3>3. QED
      BY <3>1, <3>2 DEF TypeInv, Ranges, Flags
  <2>3. QED
    BY <2>1, <2>2
<1>4. Ranges'
  BY <1>1, <1>3, MarksStay, PageOne DEF TypeInv, Ranges
<1>5. Flags'
  BY <1>1, <1>3 DEF TypeInv, Flags
<1>6. QED
  BY <1>1, <1>3, <1>4, <1>5, ServerStays DEF TypeInv

(* After an unload no call has a tab: what is under way was, or is the save*)
(* of the page on screen.                                                  *)
LEMMA Unloaded ==
  ASSUME TypeInv, Unload
  PROVE  \E others, save :
           /\ Left(others) /\ \A c \in others : c.visit = Nobody
           /\ save = [Call("save", page) EXCEPT !.visit = Nobody]
           /\ IF view = "away" THEN calls' = others /\ UNCHANGED <<sent, lastSave, early>>
              ELSE /\ calls' = others \cup {save}
                   /\ sent' = sent + 1 /\ lastSave' = sent + 1
                   /\ early' = (view = "loading" \/ behind)
<1>1. PICK kept \in SUBSET {c \in calls : Serving(c)} :
        UnloadSave({[c EXCEPT !.visit = Nobody] : c \in kept})
  BY DEF Unload
<1> DEFINE others == {[c EXCEPT !.visit = Nobody] : c \in kept}
           save == [Call("save", page) EXCEPT !.visit = Nobody]
<1>2. IF view = "away" THEN calls' = others /\ UNCHANGED <<sent, lastSave, early>>
      ELSE /\ calls' = others \cup {save}
           /\ sent' = sent + 1 /\ lastSave' = sent + 1
           /\ early' = (view = "loading" \/ behind)
  BY <1>1, Zenon DEF UnloadSave
<1>3. \A b \in kept : b \in calls /\ Serving(b) /\ IsCall(b)
  BY DEF TypeInv, CallsOK, CallOK
<1>4. \A c \in others : \E b \in calls : Serving(b) /\ Orphan(c, b)
  <2>1. \A b \in kept : Orphan([b EXCEPT !.visit = Nobody], b)
    BY <1>3, Orphans, Zenon
  <2>2. QED
    BY <1>3, <2>1
<1> HIDE DEF others, save
<1>5. Left(others) /\ \A c \in others : c.visit = Nobody
  BY <1>4 DEF Left, Orphan
<1>6. QED
  BY <1>2, <1>5 DEF save

(* What the reader does, and the timer. *)
LEMMA DeedType ==
  ASSUME TypeInv, Open \/ Turn \/ TimerFires \/ Toggle \/ Mark \/ Back \/ Unload
  PROVE  TypeInv'
<1> USE DEF TypeInv
<1>0. CASE Open \/ Turn \/ TimerFires \/ Toggle \/ Mark
  <2>1. UNCHANGED <<row, key, flush, moved, undone>>
    BY <1>0 DEF Open, Turn, TimerFires, Toggle, Mark, server, ghosts, serverGhosts
  <2>2. ServerOK'
    BY <2>1, ServerStays
  <2>3. moved' \in BOOLEAN /\ undone' \in BOOLEAN
    BY <2>1 DEF Flags
  <2>4. CASE Open
    <3>1. sent' = sent + 1 /\ visit' = visit + 1 /\ sent \in Nat /\ visit \in Nat
      BY <2>4 DEF Open, Ranges
    <3>2. CallOK([Call("open", Nothing) EXCEPT !.visit = visit + 1], sent', visit')
      <4>1. visit + 1 \in Nat /\ "open" \in Ops
        BY <3>1 DEF Ops
      <4>2. CallOK([Call("open", Nothing) EXCEPT !.visit = visit + 1], sent + 1, visit + 1)
        BY <3>1, <4>1, SentOK
      <4>3. QED
        BY <3>1, <4>2
    <3>3. CallsOK'
      BY <2>4, <3>1, <3>2, CallsStay DEF Open
    <3>4. Ranges'
      BY <2>4, <3>1, MarksStay DEF Open, Ranges, server, ghosts, tabGhosts, serverGhosts
    <3>5. Flags'
      BY <2>4, <2>3 DEF Open, Flags, server, ghosts, tabGhosts
    <3>6. QED
      BY <2>2, <3>3, <3>4, <3>5
  <2>5. CASE Turn
    <3>1. Ranges'
      BY <2>5, PageOne DEF Turn, TurnTo, Ranges, server, serverGhosts
    <3>2. Flags'
      BY <2>5, <2>3 DEF Turn, TurnTo, Flags, server
    <3>3. CallsOK'
      BY <2>5 DEF Turn, CallsOK
    <3>4. QED
      BY <2>2, <3>1, <3>2, <3>3
  <2>6. CASE TimerFires
    <3>1. Send(calls, "save", waiting) /\ waiting \in Pages /\ visit' = visit
      BY <2>6 DEF TimerFires, Saving, Ranges
    <3>2. sent' = sent + 1 /\ sent \in Nat /\ CallsOK'
      BY <3>1, SendType DEF CallsOK, Ops
    <3>3. Ranges'
      BY <2>6, <3>2, MarksStay DEF TimerFires, Saving, Ranges, server, serverGhosts
    <3>4. Flags'
      BY <2>6, <2>3 DEF TimerFires, Saving, Flags, server
    <3>5. QED
      BY <2>2, <3>2, <3>3, <3>4
  <2>7. CASE Toggle
    <3>1. Send(calls, "status", ~completed) /\ visit' = visit
      BY <2>7 DEF Toggle
    <3>2. (~completed) \in BOOLEAN
      OBVIOUS
    <3>3. sent' = sent + 1 /\ sent \in Nat /\ CallsOK'
      BY <3>1, <3>2, SendType DEF CallsOK, Ops
    <3>4. Ranges'
      BY <2>7, <3>3, MarksStay DEF Toggle, Ranges, server, serverGhosts
    <3>5. Flags'
      BY <2>7, <2>3 DEF Toggle, Flags, server
    <3>6. QED
      BY <2>2, <3>3, <3>4, <3>5
  <2>8. CASE Mark
    <3>1. \/ Send(calls, "mark", page)
          \/ \E m \in listed : Send(calls, "unmark", m)
      BY <2>8 DEF Mark
    <3>2. visit' = visit /\ page \in Pages
      BY <2>8 DEF Mark, tab, Ranges
    <3>3. sent' = sent + 1 /\ sent \in Nat /\ CallsOK'
      BY <3>1, <3>2, SendType DEF CallsOK, Ops
    <3>4. Ranges'
      BY <2>8, <3>3, MarksStay DEF Mark, Ranges, tab, ghosts, tabGhosts, serverGhosts, server
    <3>5. Flags'
      BY <2>8, <2>3 DEF Mark, Flags, tab, ghosts, tabGhosts, server
    <3>6. QED
      BY <2>2, <3>3, <3>4, <3>5
  <2>9. QED
    BY <1>0, <2>4, <2>5, <2>6, <2>7, <2>8
<1>1. CASE Back
  <2>1. Left(calls)
    BY DEF Left
  <2>2. QED
    BY <1>1, <2>1, LeaveType DEF Back
<1>2. CASE Unload
  <2>1. PICK others, save :
          /\ Left(others) /\ save = [Call("save", page) EXCEPT !.visit = Nobody]
          /\ IF view = "away" THEN calls' = others /\ UNCHANGED <<sent, lastSave, early>>
             ELSE /\ calls' = others \cup {save}
                  /\ sent' = sent + 1 /\ lastSave' = sent + 1
                  /\ early' = (view = "loading" \/ behind)
    BY <1>2, Unloaded
  <2>2. /\ sent \in Nat /\ visit \in Nat /\ sent' \in Nat /\ sent <= sent'
        /\ visit' = visit /\ (view # "away" => sent' = sent + 1)
    BY <1>2, <2>1 DEF Unload, Ranges
  <2>3. \A c \in others : CallOK(c, sent', visit')
    <3>1. \A c \in others : CallOK(c, sent, visit)
      BY <2>1, LeftOK
    <3>2. QED
      BY <2>2, <3>1, CallStays
  <2>4. ASSUME view # "away" PROVE CallOK(save, sent', visit')
    <3>1. Nobody \in Nat /\ Nobody <= visit /\ page \in Pages /\ "save" \in Ops
      BY <2>2 DEF Nobody, Ranges, Ops
    <3>2. CallOK([Call("save", page) EXCEPT !.visit = Nobody], sent + 1, visit)
      BY <2>2, <3>1, SentOK
    <3>3. QED
      BY <2>1, <2>2, <2>4, <3>2
  <2>5. CallsOK'
    BY <2>1, <2>3, <2>4 DEF CallsOK
  <2>6. UNCHANGED <<row, key, flush, marks, moved, undone, applied, behind, doubt>>
    BY <1>2 DEF Unload, server, serverGhosts
  <2>7. Ranges'
    <3>1. lastSave' \in 0..sent' /\ applied' \in 0..sent'
      BY <2>1, <2>2, <2>6 DEF Ranges
    <3>2. QED
      BY <1>2, <2>2, <2>6, <3>1, MarksStay, PageOne DEF Unload, Blank, Ranges
  <2>8. Flags'
    <3>1. early' \in BOOLEAN
      <4>1. CASE view # "away"
        BY <2>1, <4>1
      <4>2. CASE view = "away"
        BY <2>1, <4>2 DEF Flags
      <4>3. QED
        BY <4>1, <4>2
    <3>2. QED
      BY <1>2, <2>6, <3>1 DEF Unload, Blank, Flags
  <2>9. QED
    BY <2>5, <2>6, <2>7, <2>8, ServerStays
<1>3. QED
  BY <1>0, <1>1, <1>2

-----------------------------------------------------------------------------
(* Opens: while one is under way its visit is loading, and has no other.   *)

Pending(c) == c.op = "open" /\ c.visit # Nobody
Opens ==
  /\ \A c, d \in calls : Pending(c) /\ Pending(d) /\ c.visit = d.visit => c = d
  /\ \A c \in calls : Pending(c) /\ Ours(c) => view = "loading"

(* Steps that start no open and leave the page where it is, or leave it.   *)
LEMMA OpensKept ==
  ASSUME Opens, visit' = visit, view' \in {view, "away"},
         \A c \in calls' : Pending(c) => c \in calls
  PROVE  Opens'
BY DEF Opens, Pending, Ours

(* What is left under way without a tab is no open that matters.           *)
LEMMA LeftPending ==
  ASSUME NEW others, Left(others)
  PROVE  \A c \in others : Pending(c) => c \in calls
BY DEF Left, Pending, Orphan

(* Leaving the page starts none. *)
LEMMA LeaveOpens ==
  ASSUME Opens, NEW others, Left(others), Leave(others)
  PROVE  Opens'
<1>1. visit' = visit /\ view' = "away" /\ Flush(others)
  BY DEF Leave
<1>2. \A c \in calls' : Pending(c) => c \in others
  BY <1>1, Sent DEF Flush, Saving, Send, Pending
<1>3. QED
  BY <1>1, <1>2, OpensKept, LeftPending

(* What the reader does, and the timer, keeps Opens. *)
LEMMA DeedOpens ==
  ASSUME TypeInv, Opens, Open \/ Turn \/ TimerFires \/ Toggle \/ Mark \/ Back \/ Unload
  PROVE  Opens'
<1>1. CASE Open
  <2> DEFINE new == [Call("open", Nothing) EXCEPT !.visit = visit + 1]
  <2>1. calls' = calls \cup {new} /\ visit' = visit + 1 /\ view' = "loading"
    BY <1>1 DEF Open
  <2>2. new.visit = visit + 1
    BY DEF Call
  <2>3. \A c \in calls : c.visit # visit + 1
    BY DEF TypeInv, CallsOK, CallOK, Ranges
  <2> HIDE DEF new
  <2>4. QED
    BY <2>1, <2>2, <2>3 DEF Opens, Pending, Ours
<1>2. CASE Turn
  BY <1>2, OpensKept DEF Turn
<1>3. ASSUME NEW op \in Ops \ {"open"}, NEW arg, Send(calls, op, arg),
             visit' = visit, view' = view
      PROVE  Opens'
  <2>1. calls' = calls \cup {Call(op, arg)} /\ Call(op, arg).op # "open"
    BY <1>3, Sent DEF Send
  <2>2. QED
    BY <1>3, <2>1, OpensKept DEF Pending
<1>4. CASE TimerFires
  BY <1>3, <1>4 DEF TimerFires, Saving, Ops
<1>5. CASE Toggle
  BY <1>3, <1>5 DEF Toggle, Ops
<1>6. CASE Mark
  <2>1. visit' = visit /\ view' = view
    BY <1>6 DEF Mark, tab
  <2>2. CASE Send(calls, "mark", page)
    BY <1>3, <2>1, <2>2 DEF Ops
  <2>3. CASE \E m \in listed : Send(calls, "unmark", m)
    BY <1>3, <2>1, <2>3 DEF Ops
  <2>4. QED
    BY <1>6, <2>2, <2>3 DEF Mark
<1>7. CASE Back
  <2>1. Left(calls)
    BY DEF Left
  <2>2. QED
    BY <1>7, <2>1, LeaveOpens DEF Back
<1>8. CASE Unload
  <2>1. \A c \in calls' : c.visit = Nobody
    <3>1. [Call("save", page) EXCEPT !.visit = Nobody].visit = Nobody
      BY DEF Call
    <3>2. QED
      BY <1>8, <3>1, Unloaded
  <2>2. QED
    BY <2>1 DEF Opens, Pending
<1>9. QED
  BY <1>1, <1>2, <1>4, <1>5, <1>6, <1>7, <1>8

-----------------------------------------------------------------------------
(* The server and its answers. *)

(* A step of the server's takes c a stage on, or ends it; nobody waits for *)
(* a call that ends and is gone.                                           *)
Becomes(c, at, p, answer) ==
  /\ calls \ {c} \subseteq calls'
  /\ \A d \in calls' : (d \in calls /\ d # c) \/ Reply(c, d, at, p, answer)
  /\ (at \notin Ends \/ Awaited(c)) => \E d \in calls' : Reply(c, d, at, p, answer)
  /\ at \in Ends /\ ~Awaited(c) => calls' = calls \ {c}

LEMMA AnsweredBecomes ==
  ASSUME TypeInv, NEW c \in calls, NEW at \in Ends, NEW p, NEW answer,
         Answered(c, at, p, answer)
  PROVE  Becomes(c, at, p, answer)
<1> DEFINE e == [c EXCEPT !.at = at, !.page = p, !.answer = answer]
<1>1. Reply(c, e, at, p, answer)
  <2>1. IsCall(c)
    BY DEF TypeInv, CallsOK, CallOK
  <2>2. QED
    BY <2>1, Moved, Zenon
<1>2. calls' = (calls \ {c}) \cup (IF Awaited(c) THEN {e} ELSE {})
  BY Zenon DEF Answered
<1> HIDE DEF e
<1>3. QED
  BY <1>1, <1>2 DEF Becomes

LEMMA GoesBecomes ==
  ASSUME TypeInv, NEW c \in calls, NEW at \in Stages \ Ends, NEW p, Goes(c, at, p)
  PROVE  Becomes(c, at, p, c.answer)
<1> DEFINE e == [c EXCEPT !.at = at, !.page = p]
<1>1. Reply(c, e, at, p, c.answer)
  <2>1. IsCall(c)
    BY DEF TypeInv, CallsOK, CallOK
  <2>2. QED
    BY <2>1, Moved, Zenon
<1>2. calls' = (calls \ {c}) \cup {e}
  BY Zenon DEF Goes
<1> HIDE DEF e
<1>3. QED
  BY <1>1, <1>2 DEF Becomes

(* OpenBook with the row read, or not. *)
LEMMA RowRead ==
  ASSUME TypeInv, NEW c \in calls, OpenReadRow(c)
  PROVE  /\ c.op = "open" /\ c.at = "sent" /\ UNCHANGED <<row, key, flush, marks, applied, unseen>>
         /\ \E at, p : \E answer \in OpenAnswers :
              /\ Becomes(c, at, p, answer)
              /\ answer.doubt <=> \E d \in calls : d.op = "status" /\ Serving(d)
              /\ \/ /\ at = "cache" /\ p = row.page /\ answer.completed = row.finished
                    /\ UNCHANGED <<moved, undone>>
                 \/ /\ at = "create" /\ p = 1 /\ answer.completed = FALSE
                    /\ \/ ~row.there /\ UNCHANGED <<moved, undone>>
                       \/ Misread(c)
<1> DEFINE doubting == \E d \in calls : d.op = "status" /\ Serving(d)
           reply(seen) == [completed |-> seen.finished, behind |-> FALSE, doubt |-> doubting]
           Told(at, seen) == calls' = (calls \ {c}) \cup
             {[c EXCEPT !.at = at, !.page = seen.page, !.answer = reply(seen)]}
<1>1. /\ c.op = "open" /\ c.at = "sent" /\ UNCHANGED <<server, unseen>>
      /\ \/ row.there /\ Told("cache", row) /\ UNCHANGED serverGhosts
         \/ ~row.there /\ Told("create", NoRow) /\ UNCHANGED serverGhosts
         \/ row.there /\ Told("create", NoRow) /\ Misread(c)
  BY Zenon DEF OpenReadRow
<1>2. IsCall(c) /\ row.finished \in BOOLEAN /\ NoRow.finished \in BOOLEAN /\ ~NoRow.finished
      /\ NoRow.page = 1 /\ NoRow.finished = FALSE
  BY RowParts DEF TypeInv, CallsOK, CallOK, ServerOK, NoRow
<1>3. ASSUME NEW at \in Stages \ Ends, NEW seen, seen.finished \in BOOLEAN, Told(at, seen)
      PROVE  /\ Becomes(c, at, seen.page, reply(seen)) /\ reply(seen) \in OpenAnswers
             /\ reply(seen).completed = seen.finished
             /\ reply(seen).doubt <=> doubting
  <2> DEFINE e == [c EXCEPT !.at = at, !.page = seen.page, !.answer = reply(seen)]
  <2>1. Reply(c, e, at, seen.page, reply(seen))
    BY <1>2, Moved, Zenon
  <2>2. calls' = (calls \ {c}) \cup {e}
    BY <1>3, Zenon
  <2>3. /\ reply(seen) \in OpenAnswers
        /\ reply(seen).completed = seen.finished
        /\ reply(seen).doubt <=> doubting
    <3> HIDE DEF doubting
    <3>1. reply(seen).completed = seen.finished /\ reply(seen).doubt = doubting
      OBVIOUS
    <3>2. doubting \in BOOLEAN
      BY DEF doubting
    <3>3. QED
      BY <1>3, <3>1, <3>2 DEF OpenAnswers
  <2> HIDE DEF e, reply
  <2>4. Becomes(c, at, seen.page, reply(seen))
    BY <2>1, <2>2 DEF Becomes
  <2>5. QED
    BY <2>3, <2>4
<1>4. "cache" \in Stages \ Ends /\ "create" \in Stages \ Ends
  BY DEF Stages, Ends
<1>5. UNCHANGED <<row, key, flush, marks, unseen>> /\ (Misread(c) => applied' = applied)
  BY <1>1 DEF server, Misread
<1>6. UNCHANGED serverGhosts => UNCHANGED <<applied, moved, undone>>
  BY DEF serverGhosts
<1> HIDE DEF doubting, reply, Told
<1>7. CASE Told("cache", row) /\ UNCHANGED serverGhosts
  BY <1>1, <1>2, <1>3, <1>4, <1>5, <1>6, <1>7 DEF doubting
<1>8. CASE /\ Told("create", NoRow)
           /\ (~row.there /\ UNCHANGED serverGhosts) \/ Misread(c)
  BY <1>1, <1>2, <1>3, <1>4, <1>5, <1>6, <1>8 DEF doubting
<1>9. QED
  BY <1>1, <1>7, <1>8

(* The end of OpenBook: the answer says where the book opens.              *)
LEMMA OpenedBecomes ==
  ASSUME TypeInv, NEW c \in calls, c.op = "open", c.at # "sent", NEW n, Opened(c, n)
  PROVE  \E answer \in OpenAnswers :
           /\ Becomes(c, "answered", n, answer)
           /\ answer.completed = c.answer.completed /\ answer.doubt = c.answer.doubt
           /\ answer.behind <=> n # Position \/ moved \/ applied # lastSave \/ early
<1> DEFINE late == n # Position \/ moved \/ applied # lastSave \/ early
           answer == [c.answer EXCEPT !.behind = late]
<1>1. c.answer \in OpenAnswers
  BY DEF TypeInv, CallsOK, CallOK
<1>2. Answered(c, "answered", n, answer)
  BY Zenon DEF Opened
<1>3. late \in BOOLEAN
  BY DEF TypeInv, Flags
<1> HIDE DEF late
<1>4. /\ answer \in OpenAnswers
      /\ answer.completed = c.answer.completed /\ answer.doubt = c.answer.doubt
      /\ answer.behind = late
  BY <1>1, <1>3 DEF OpenAnswers
<1> HIDE DEF answer
<1>5. Becomes(c, "answered", n, answer)
  BY <1>2, AnsweredBecomes DEF Ends
<1>6. QED
  BY <1>4, <1>5 DEF late

(* The steps of the handlers for a call they leave under way or end.       *)
LEMMA RestOfOpen ==
  ASSUME TypeInv, NEW c \in calls, OpenCreate(c) \/ OpenReadKey(c) \/ OpenFill(c)
  PROVE  /\ c.op = "open" /\ c.at # "sent" /\ c.answer \in OpenAnswers /\ c.page \in Pages
         /\ \E at \in {"cache", "fill", "answered"} : \E p \in Pages, answer \in OpenAnswers :
              Becomes(c, at, p, answer)
<1>1. CallOK(c, sent, visit)
  BY DEF TypeInv, CallsOK
<1>2. c.op = "open" /\ c.at # "sent" /\ c.answer \in OpenAnswers /\ c.page \in Pages
  <2>1. c.at \in {"create", "cache"} \/ (c.op = "open" /\ c.at = "fill")
    BY DEF OpenCreate, OpenReadKey, OpenFill
  <2>2. QED
    BY <1>1, <2>1 DEF CallOK, StageOK, Ops, Ends
<1>3. CASE \E at \in {"cache", "fill"} : Goes(c, at, c.page)
  <2>1. PICK at \in {"cache", "fill"} : Goes(c, at, c.page)
    BY <1>3
  <2>2. Becomes(c, at, c.page, c.answer)
    BY <2>1, GoesBecomes DEF Stages, Ends
  <2>3. QED
    BY <1>2, <2>2
<1>4. CASE \E n \in Pages : Opened(c, n)
  <2>1. PICK n \in Pages : Opened(c, n)
    BY <1>4
  <2>2. QED
    BY <1>2, <2>1, OpenedBecomes
<1>5. key \in Pages \cup {None}
  BY DEF TypeInv, ServerOK
<1>6. QED
  BY <1>2, <1>3, <1>4, <1>5 DEF OpenCreate, OpenReadKey, OpenFill

LEMMA StatusSteps ==
  ASSUME TypeInv, NEW c \in calls,
         StatusReadKey(c) \/ StatusReadRow(c) \/ StatusFill(c) \/ StatusWrite(c)
  PROVE  /\ c.op = "status" /\ c.page \in Pages /\ c.arg \in BOOLEAN
         /\ \E at \in {"row", "fill", "write"} \cup Ends : \E p \in Pages : \E answer :
              Becomes(c, at, p, answer)
<1>1. CallOK(c, sent, visit)
  BY DEF TypeInv, CallsOK
<1>2. c.op = "status" /\ c.page \in Pages /\ c.arg \in BOOLEAN
  <2>1. c.at \in {"row", "write"} \/ c.op = "status"
    BY DEF StatusReadKey, StatusReadRow, StatusFill, StatusWrite
  <2>2. QED
    BY <1>1, <2>1 DEF CallOK, StageOK, Ops, Ends
<1>3. CASE \E at \in {"row", "fill", "write"} : \E p \in Pages : Goes(c, at, p)
  <2>1. PICK at \in {"row", "fill", "write"}, p \in Pages : Goes(c, at, p)
    BY <1>3
  <2>2. Becomes(c, at, p, c.answer)
    BY <2>1, GoesBecomes DEF Stages, Ends
  <2>3. QED
    BY <1>2, <2>2
<1>4. CASE StatusWrite(c)
  <2>1. PICK at \in Ends : Answered(c, at, 1, Nothing)
    BY <1>4 DEF StatusWrite, Ends
  <2>2. QED
    BY <1>2, <2>1, AnsweredBecomes, PageOne
<1>5. key \in Pages \cup {None} /\ row.page \in Pages
  BY RowParts DEF TypeInv, ServerOK
<1>6. QED
  BY <1>2, <1>3, <1>4, <1>5, PageOne DEF StatusReadKey, StatusReadRow, StatusFill

(* What may become of a call, by its kind. *)
Legal(c, at, p, answer) ==
  /\ p \in Pages
  /\ \/ c.op = "open" /\ answer \in OpenAnswers
        /\ at \in {"create", "cache", "fill", "answered"} /\ (at = "create" => p = 1)
     \/ c.op = "status" /\ at \in {"row", "fill", "write"} \cup Ends
     \/ c.op = "save" /\ at \in Ends
     \/ c.op = "list" /\ at = "answered" /\ answer = marks
     \/ c.op \in {"mark", "unmark"} /\ at \in Ends

(* A served call becomes so. *)
LEMMA Served ==
  ASSUME TypeInv, NEW c \in calls, Serve(c)
  PROVE  /\ Serving(c) /\ UNCHANGED <<sent, visit>>
         /\ \E at, p, answer : Legal(c, at, p, answer) /\ Becomes(c, at, p, answer)
<1>1. Serving(c) /\ UNCHANGED <<sent, visit>>
  BY DEF Serve, tab
<1>2. CASE OpenReadRow(c)
  <2>1. row.page \in Pages
    BY RowParts DEF TypeInv, ServerOK
  <2>2. QED
    BY <1>1, <1>2, <2>1, RowRead, PageOne DEF Legal
<1>3. CASE OpenCreate(c) \/ OpenReadKey(c) \/ OpenFill(c)
  <2>1. PICK at \in {"cache", "fill", "answered"}, p \in Pages, answer \in OpenAnswers :
          Becomes(c, at, p, answer)
    BY <1>3, RestOfOpen
  <2>2. c.op = "open"
    BY <1>3, RestOfOpen
  <2>3. QED
    BY <1>1, <2>1, <2>2 DEF Legal
<1>4. CASE StatusReadKey(c) \/ StatusReadRow(c) \/ StatusFill(c) \/ StatusWrite(c)
  <2>1. PICK at \in {"row", "fill", "write"} \cup Ends, p \in Pages :
          \E answer : Becomes(c, at, p, answer)
    BY <1>4, StatusSteps
  <2>2. c.op = "status"
    BY <1>4, StatusSteps
  <2>3. QED
    BY <1>1, <2>1, <2>2 DEF Legal
<1>5. CASE ServeSave(c)
  <2>1. c.op = "save" /\ Answered(c, "answered", 1, Nothing)
    BY <1>5, Zenon DEF ServeSave
  <2>2. QED
    BY <1>1, <2>1, AnsweredBecomes, PageOne DEF Legal, Ends
<1>6. CASE ServeList(c)
  <2>1. c.op = "list" /\ Answered(c, "answered", 1, marks)
    BY <1>6, Zenon DEF ServeList
  <2>2. QED
    BY <1>1, <2>1, AnsweredBecomes, PageOne DEF Legal, Ends
<1>7. CASE ServeMark(c) \/ ServeUnmark(c)
  <2>1. PICK at \in Ends : c.op \in {"mark", "unmark"} /\ Answered(c, at, 1, Nothing)
    BY <1>7 DEF ServeMark, ServeUnmark, Ends
  <2>2. QED
    BY <1>1, <2>1, AnsweredBecomes, PageOne DEF Legal
<1>8. QED
  BY <1>2, <1>3, <1>4, <1>5, <1>6, <1>7, Zenon DEF Serve

(* What a step stores is a row. *)
LEMMA RowStored ==
  \A n \in Pages, done \in BOOLEAN : row' = Row(n, done) => RowOK'
<1>1. TAKE n \in Pages, done \in BOOLEAN
<1>2. HAVE row' = Row(n, done)
<1>3. Row(n, done) \in {Row(m, d) : m \in Pages, d \in BOOLEAN}
  OBVIOUS
<1>4. QED
  BY <1>2, <1>3 DEF RowOK

(* The server's state while a call is served. *)
LEMMA ServeServer ==
  ASSUME TypeInv, NEW c \in calls, Serve(c)
  PROVE  /\ ServerOK' /\ moved' \in BOOLEAN /\ undone' \in BOOLEAN
         /\ marks' \subseteq Pages \X (1..sent) /\ applied' \in 0..sent
<1>1. CallOK(c, sent, visit) /\ ServerOK /\ moved \in BOOLEAN /\ undone \in BOOLEAN
      /\ marks \subseteq Pages \X (1..sent) /\ applied \in 0..sent
  BY DEF TypeInv, CallsOK, Flags, Ranges
<1> DEFINE Quiet == UNCHANGED <<moved, undone, marks, applied>>
<1>2. CASE OpenReadRow(c)
  <2>1. UNCHANGED <<row, key, flush, marks, applied>>
    BY <1>2 DEF OpenReadRow, server, serverGhosts, Misread
  <2>2. moved' \in BOOLEAN /\ undone' \in BOOLEAN
    BY <1>1, <1>2, Zenon DEF OpenReadRow, serverGhosts, Misread
  <2>3. QED
    BY <1>1, <2>1, <2>2, ServerStays
<1>3. CASE OpenCreate(c)
  <2>1. UNCHANGED <<key, flush, marks, applied, moved, undone>>
        /\ (row' = Row(1, FALSE) \/ row' = row)
    BY <1>3 DEF OpenCreate, serverGhosts
  <2>2. RowOK'
    <3>1. 1 \in Pages /\ FALSE \in BOOLEAN
      BY PageOne
    <3>2. CASE row' = Row(1, FALSE)
      BY <3>1, <3>2, RowStored
    <3>3. CASE row' = row
      BY <1>1, <3>3 DEF RowOK, ServerOK
    <3>4. QED
      BY <2>1, <3>2, <3>3
  <2>3. QED
    BY <1>1, <2>1, <2>2 DEF ServerOK, FlushOK
<1>4. CASE OpenReadKey(c)
  <2>1. UNCHANGED <<row, key, flush, marks, applied, moved, undone>>
    BY <1>4 DEF OpenReadKey, server, serverGhosts
  <2>2. QED
    BY <1>1, <2>1, ServerStays
<1>5. CASE OpenFill(c) \/ StatusFill(c)
  <2>1. UNCHANGED <<row, flush, marks, applied, undone>> /\ Fill(c)
    BY <1>5 DEF OpenFill, StatusFill
  <2>2. key' \in Pages \cup {None} /\ moved' \in BOOLEAN
    BY <1>1, <2>1 DEF Fill, CallOK, ServerOK
  <2>3. ServerOK'
    BY <1>1, <2>1, <2>2 DEF ServerOK, RowOK, FlushOK
  <2>4. QED
    BY <1>1, <2>1, <2>2, <2>3
<1>6. CASE ServeSave(c)
  <2>1. /\ UNCHANGED <<row, flush, marks, undone>>
        /\ \/ key' = c.arg /\ applied' = c.n /\ moved' = FALSE
           \/ UNCHANGED <<key, applied, moved>>
    BY <1>6 DEF ServeSave
  <2>2. c.arg \in Pages /\ c.n \in 0..sent
    BY <1>1, <1>6 DEF ServeSave, CallOK
  <2>3. ServerOK'
    BY <1>1, <2>1, <2>2 DEF ServerOK, RowOK, FlushOK
  <2>4. QED
    BY <1>1, <2>1, <2>2, <2>3
<1>7. CASE StatusReadKey(c)
  <2>1. UNCHANGED <<row, key, flush, marks, applied, moved, undone>>
    BY <1>7 DEF StatusReadKey, server, serverGhosts
  <2>2. QED
    BY <1>1, <2>1, ServerStays
<1>8. CASE StatusReadRow(c)
  <2>1. UNCHANGED <<row, key, flush, marks, applied>>
    BY <1>8 DEF StatusReadRow, server, serverGhosts, Misread
  <2>2. moved' \in BOOLEAN /\ undone' \in BOOLEAN
    BY <1>1, <1>8, Zenon DEF StatusReadRow, serverGhosts, Misread
  <2>3. QED
    BY <1>1, <2>1, <2>2, ServerStays
<1>9. CASE StatusWrite(c)
  <2>1. UNCHANGED <<key, flush, marks, applied, moved>>
        /\ ((row' = Row(c.page, c.arg) /\ undone' = Carrying) \/ UNCHANGED <<row, undone>>)
    BY <1>9 DEF StatusWrite
  <2>2. c.page \in Pages /\ c.arg \in BOOLEAN
    BY <1>9, StatusSteps
  <2>3. RowOK'
    BY <1>1, <2>1, <2>2, RowStored DEF RowOK, ServerOK
  <2>4. undone' \in BOOLEAN
    <3>1. Carrying \in BOOLEAN
      BY Zenon DEF Carrying
    <3>2. QED
      BY <1>1, <2>1, <3>1
  <2>5. QED
    BY <1>1, <2>1, <2>3, <2>4 DEF ServerOK, FlushOK
<1>10. CASE ServeList(c)
  <2>1. UNCHANGED <<row, key, flush, marks, applied, moved, undone>>
    BY <1>10 DEF ServeList, server, serverGhosts
  <2>2. QED
    BY <1>1, <2>1, ServerStays
<1>11. CASE ServeMark(c)
  <2>1. /\ UNCHANGED <<row, key, flush, applied, moved, undone>>
        /\ marks' \in {marks, marks \cup {<<c.arg, c.n>>}} /\ c.op = "mark"
    BY <1>11 DEF ServeMark, serverGhosts
  <2>2. <<c.arg, c.n>> \in Pages \X (1..sent)
    BY <1>1, <2>1 DEF CallOK
  <2>3. QED
    BY <1>1, <2>1, <2>2, ServerStays
<1>12. CASE ServeUnmark(c)
  <2>1. UNCHANGED <<row, key, flush, applied, moved, undone>> /\ marks' = marks \ {c.arg}
    BY <1>12 DEF ServeUnmark, serverGhosts
  <2>2. QED
    BY <1>1, <2>1, ServerStays
<1>13. QED
  BY <1>2, <1>3, <1>4, <1>5, <1>6, <1>7, <1>8, <1>9, <1>10, <1>11, <1>12, Zenon DEF Serve

(* Serving a call keeps the types. *)
LEMMA ServeType ==
  ASSUME TypeInv, NEW c \in calls, Serve(c)
  PROVE  TypeInv'
<1>1. PICK at, p, answer : Legal(c, at, p, answer) /\ Becomes(c, at, p, answer)
  BY Served
<1>2. UNCHANGED <<sent, visit>> /\ CallOK(c, sent, visit)
  BY Served DEF TypeInv, CallsOK
<1>3. CallsOK'
  <2>1. CASE c.op = "save"
    <3>1. calls' = calls \ {c}
      BY <1>1, <2>1 DEF Becomes, Legal, Awaited
    <3>2. QED
      BY <1>2, <3>1 DEF TypeInv, CallsOK
  <2>2. CASE c.op # "save"
    <3>1. ASSUME NEW d, Reply(c, d, at, p, answer) PROVE CallOK(d, sent, visit)
      <4>1. d.op = c.op /\ d.at = at /\ d.page = p /\ d.answer = answer
            /\ d.n = c.n /\ d.visit = c.visit /\ d.arg = c.arg /\ IsCall(d)
        BY <3>1 DEF Reply
      <4>2. StageOK(d)
        BY <1>1, <2>2, <4>1 DEF Legal, StageOK, Stages, Ends
      <4>3. marks \subseteq Pages \X (1..sent)
        BY DEF TypeInv, Ranges
      <4>4. QED
        BY <1>1, <1>2, <2>2, <4>1, <4>2, <4>3 DEF Legal, CallOK, Ends
    <3>2. QED
      BY <1>1, <1>2, <3>1 DEF TypeInv, CallsOK, Becomes
  <2>3. QED
    BY <2>1, <2>2
<1>4. UNCHANGED <<view, page, waiting, completed, listed, sent, visit,
                  lastSave, early, behind, doubt>>
  BY DEF Serve, tab, tabGhosts
<1>5. Ranges'
  BY <1>4, ServeServer DEF TypeInv, Ranges
<1>6. Flags'
  BY <1>4, ServeServer DEF TypeInv, Flags
<1>7. QED
  BY <1>3, <1>5, <1>6, ServeServer DEF TypeInv

(* Serving a call keeps Opens. *)
LEMMA ServeOpens ==
  ASSUME TypeInv, Opens, NEW c \in calls, Serve(c)
  PROVE  Opens'
<1>1. PICK at, p, answer : Becomes(c, at, p, answer)
  BY Served
<1>2. \A d, e : Reply(c, d, at, p, answer) /\ Reply(c, e, at, p, answer) => d = e
  BY SameReply
<1>3. UNCHANGED <<view, visit>>
  BY DEF Serve, tab
<1>4. \A d \in calls' : \E b \in calls :
        /\ d.op = b.op /\ d.visit = b.visit
        /\ (b # c /\ d = b) \/ (b = c /\ Reply(c, d, at, p, answer))
  BY <1>1 DEF Becomes, Reply
<1>5. QED
  BY <1>2, <1>3, <1>4 DEF Opens, Pending, Ours

(* So do the flusher and what befalls the key. *)
LEMMA BackgroundType ==
  ASSUME TypeInv, Background
  PROVE  TypeInv' /\ UNCHANGED <<tab, calls, sent, tabGhosts, applied, marks, unseen>>
<1>1. UNCHANGED <<tab, calls, sent, tabGhosts, applied, marks, unseen>>
  BY DEF Background, FlushGet, FlushReadRow, FlushWrite, DropKey, serverGhosts
<1>2. ServerOK /\ moved \in BOOLEAN /\ undone \in BOOLEAN /\ row.finished \in BOOLEAN
      /\ flush.at \in {"done", "read", "write"} /\ flush.page \in Pages
      /\ flush.finished \in BOOLEAN
  BY RowParts DEF TypeInv, Flags, ServerOK, FlushOK
<1>3. ServerOK' /\ moved' \in BOOLEAN /\ undone' \in BOOLEAN
  <2>1. CASE FlushGet
    <3>1. UNCHANGED <<row, key, moved, undone>> /\ key \in Pages
      BY <1>2, <2>1 DEF FlushGet, serverGhosts, ServerOK
    <3>2. flush' = [at |-> "read", page |-> key, finished |-> FALSE]
      BY <2>1 DEF FlushGet
    <3>3. FlushOK'
      BY <3>1, <3>2 DEF FlushOK
    <3>4. QED
      BY <1>2, <3>1, <3>3 DEF ServerOK, RowOK
  <2>2. CASE FlushReadRow
    <3>1. UNCHANGED <<row, key, moved>> /\ undone' \in BOOLEAN
      BY <1>2, <2>2 DEF FlushReadRow, Finished
    <3>2. \/ flush' = [flush EXCEPT !.at = "write", !.finished = row.finished]
          \/ flush' = [flush EXCEPT !.at = "write"]
      BY <2>2 DEF FlushReadRow
    <3>3. PICK done \in BOOLEAN : flush' = [at |-> "write", page |-> flush.page, finished |-> done]
      <4>1. PICK f : f = flush /\ f \in [at : {"done", "read", "write"}, page : Pages, finished : BOOLEAN]
        BY <1>2 DEF ServerOK, FlushOK
      <4>2. PICK g : g = [at |-> "write", page |-> f.page, finished |-> f.finished]
        OBVIOUS
      <4>3. [f EXCEPT !.at = "write"] = g
        BY <4>1, <4>2
      <4>4. \A done : [g EXCEPT !.finished = done] = [at |-> "write", page |-> f.page, finished |-> done]
        BY <4>2
      <4>5. CASE flush' = [flush EXCEPT !.at = "write"]
        <5>1. flush' = g
          BY <4>1, <4>3, <4>5
        <5>2. QED
          BY <1>2, <4>1, <4>2, <5>1
      <4>6. CASE flush' = [flush EXCEPT !.at = "write", !.finished = row.finished]
        <5>1. flush' = [[f EXCEPT !.at = "write"] EXCEPT !.finished = row.finished]
          BY <4>1, <4>6
        <5>2. flush' = [g EXCEPT !.finished = row.finished]
          BY <4>3, <5>1
        <5>3. QED
          BY <1>2, <4>1, <4>4, <5>2
      <4>7. QED
        BY <3>2, <4>5, <4>6
    <3>4. FlushOK'
      BY <1>2, <3>3 DEF FlushOK
    <3>5. QED
      BY <1>2, <3>1, <3>4 DEF ServerOK, RowOK
  <2>3. CASE FlushWrite
    <3>1. /\ UNCHANGED <<key, moved, undone>> /\ flush' = Resting
          /\ row' = Row(flush.page, flush.finished) \/ row' = row
      BY <2>3 DEF FlushWrite, serverGhosts
    <3>2. RowOK'
      <4>1. CASE row' = row
        BY <1>2, <4>1 DEF ServerOK, RowOK
      <4>2. CASE row' = Row(flush.page, flush.finished)
        BY <1>2, <4>2, RowStored
      <4>3. QED
        BY <3>1, <4>1, <4>2
    <3>3. FlushOK'
      BY <3>1, PageOne DEF FlushOK, Resting
    <3>4. QED
      BY <1>2, <3>1, <3>2, <3>3 DEF ServerOK
  <2>4. CASE DropKey
    <3>1. UNCHANGED <<row, flush, undone>> /\ key' = None
      BY <2>4 DEF DropKey
    <3>2. moved' \in BOOLEAN
      BY <1>2, <2>4, Zenon DEF DropKey
    <3>3. QED
      BY <1>2, <3>1, <3>2 DEF ServerOK, RowOK, FlushOK
  <2>5. QED
    BY <2>1, <2>2, <2>3, <2>4 DEF Background
<1>4. Ranges'
  BY <1>1 DEF TypeInv, Ranges, tab, tabGhosts
<1>5. Flags'
  BY <1>1, <1>3 DEF TypeInv, Flags, tab, tabGhosts
<1>6. CallsOK'
  BY <1>1 DEF TypeInv, CallsOK, tab
<1>7. QED
  BY <1>1, <1>3, <1>4, <1>5, <1>6 DEF TypeInv

(* What an answer, or a failure, leaves of the calls: fewer of them, and   *)
(* sometimes a new list call.                                              *)
LEMMA Fewer ==
  ASSUME TypeInv, NEW c, calls' = calls \ {c}, UNCHANGED <<sent, visit>>
  PROVE  CallsOK'
BY DEF TypeInv, CallsOK

(* The list call of Reload is in order. *)
LEMMA ReloadType ==
  ASSUME TypeInv, NEW c, Reload(c), visit' = visit
  PROVE  sent' = sent + 1 /\ sent \in Nat /\ CallsOK'
<1>1. Send(calls \ {c}, "list", Nothing)
  BY DEF Reload
<1>2. \A d \in calls \ {c} : CallOK(d, sent, visit)
  BY DEF TypeInv, CallsOK
<1>3. QED
  BY <1>1, <1>2, SendType DEF Ops

(* Hearing an answer keeps the types. *)
LEMMA DeliverType ==
  ASSUME TypeInv, Opens, NEW c \in calls, Deliver(c)
  PROVE  TypeInv'
<1>1. /\ c.at = "answered" /\ CallOK(c, sent, visit)
      /\ UNCHANGED <<row, key, flush, marks, lastSave, applied, early, moved, undone>>
  BY DEF Deliver, server, serverGhosts, TypeInv, CallsOK
<1>2. ServerOK'
  BY <1>1, ServerStays DEF TypeInv
<1>3. CASE ~Ours(c) \/ c.op = "status"
  <2>1. /\ calls' = calls \ {c}
        /\ UNCHANGED <<view, visit, page, waiting, completed, listed, sent, behind, doubt>>
    BY <1>3 DEF Deliver, tab
  <2>2. CallsOK'
    BY <2>1, Fewer
  <2>3. QED
    BY <1>1, <1>2, <2>1, <2>2 DEF TypeInv, Ranges, Flags
<1>4. CASE Ours(c) /\ c.op = "open"
  <2>1. /\ view' = "reading" /\ page' = c.page /\ completed' = c.answer.completed
        /\ behind' = c.answer.behind /\ doubt' = c.answer.doubt
        /\ Reload(c) /\ UNCHANGED <<visit, waiting, listed>>
    BY <1>4 DEF Deliver
  <2>2. c.answer \in OpenAnswers /\ c.page \in Pages
    BY <1>1, <1>4 DEF CallOK
  <2>3. sent' = sent + 1 /\ sent \in Nat /\ CallsOK'
    BY <2>1, ReloadType
  <2>4. view = "loading" /\ waiting = None
    <3>1. Pending(c)
      BY <1>4 DEF Pending, Ours, TypeInv, Ranges, Nobody
    <3>2. QED
      BY <1>4, <3>1 DEF Opens, TypeInv, Ranges
  <2>5. completed' \in BOOLEAN /\ behind' \in BOOLEAN /\ doubt' \in BOOLEAN
    BY <2>1, <2>2 DEF OpenAnswers
  <2>6. Ranges'
    BY <1>1, <2>1, <2>2, <2>3, <2>4, MarksStay DEF TypeInv, Ranges
  <2>7. Flags'
    BY <1>1, <2>5 DEF TypeInv, Flags
  <2>8. QED
    BY <1>2, <2>3, <2>6, <2>7 DEF TypeInv
<1>5. CASE Ours(c) /\ c.op = "list"
  <2>1. /\ listed' = c.answer /\ calls' = calls \ {c}
        /\ UNCHANGED <<view, visit, page, waiting, completed, sent, behind, doubt>>
    BY <1>5 DEF Deliver
  <2>2. c.answer \subseteq Pages \X (1..sent)
    BY <1>1, <1>5 DEF CallOK
  <2>3. CallsOK'
    BY <2>1, Fewer
  <2>4. QED
    BY <1>1, <1>2, <2>1, <2>2, <2>3 DEF TypeInv, Ranges, Flags
<1>6. CASE Ours(c) /\ c.op \in {"mark", "unmark"}
  <2>1. Reload(c) /\ UNCHANGED <<view, visit, page, waiting, completed, listed, behind, doubt>>
    BY <1>6 DEF Deliver, tab
  <2>2. sent' = sent + 1 /\ sent \in Nat /\ CallsOK'
    BY <2>1, ReloadType
  <2>3. Ranges'
    BY <1>1, <2>1, <2>2, MarksStay DEF TypeInv, Ranges
  <2>4. Flags'
    BY <1>1, <2>1 DEF TypeInv, Flags
  <2>5. QED
    BY <1>2, <2>2, <2>3, <2>4 DEF TypeInv
<1>7. QED
  BY <1>3, <1>4, <1>5, <1>6 DEF Deliver

(* Hearing an answer keeps Opens. *)
LEMMA DeliverOpens ==
  ASSUME TypeInv, Opens, NEW c \in calls, Deliver(c)
  PROVE  Opens'
<1>1. visit' = visit
  BY DEF Deliver, tab
<1>2. \A d \in calls' : Pending(d) => d \in calls /\ d # c
  <2>1. CASE calls' = calls \ {c}
    BY <2>1
  <2>2. CASE Reload(c)
    BY <2>2, Sent DEF Reload, Send, Pending
  <2>3. QED
    BY <2>1, <2>2 DEF Deliver
<1>3. CASE view' = view
  BY <1>1, <1>2, <1>3, OpensKept
<1>4. CASE view' # view
  <2>1. c.op = "open" /\ Ours(c)
    BY <1>4 DEF Deliver, tab
  <2>2. Pending(c)
    BY <2>1 DEF Pending, Ours, TypeInv, Ranges, Nobody
  <2>3. \A d \in calls' : Pending(d) => d.visit # visit
    BY <1>2, <2>1, <2>2 DEF Opens, Ours
  <2>4. QED
    BY <1>1, <1>2, <2>3 DEF Opens, Ours
<1>5. QED
  BY <1>3, <1>4

(* What a failure of a call other than an open does.                       *)
LEMMA FailElse ==
  ASSUME TypeInv, NEW c \in calls, Fail(c), ~Pending(c)
  PROVE  /\ UNCHANGED <<row, key, flush, marks, view, visit, page, waiting, listed, sent, turned,
                        lastSave, applied, early, behind, moved, undone, lastList, shownBy>>
         /\ unseen' = (unseen \/ (c.op \in {"mark", "unmark"} /\ c.at = "answered"))
         /\ calls' \in Without(c)
         /\ IF c.op = "status"
            THEN /\ RollBack(c)
                 /\ doubt' = (doubt \/ (Ours(c) /\ (c.at = "answered" \/ calls' # calls \ {c})))
            ELSE UNCHANGED <<completed, doubt>>
<1>1. PICK others \in Without(c) :
        /\ calls' = others
        /\ IF c.op = "status"
           THEN /\ RollBack(c)
                /\ doubt' = (doubt \/ (Ours(c) /\ (c.at = "answered" \/ others # calls \ {c})))
           ELSE UNCHANGED <<completed, doubt>>
        /\ unseen' = (unseen \/ (c.op \in {"mark", "unmark"} /\ c.at = "answered"))
        /\ UNCHANGED <<server, view, visit, page, waiting, listed, sent, turned,
                       lastSave, early, behind, lastList, shownBy, serverGhosts>>
  BY Zenon DEF Fail, Pending
<1>2. UNCHANGED <<row, key, flush, marks, applied, moved, undone>>
  BY <1>1 DEF server, serverGhosts
<1>3. QED
  BY <1>1, <1>2

(* A failed call: the page is left, or the call is gone, or goes on alone. *)
LEMMA FailType ==
  ASSUME TypeInv, NEW c \in calls, Fail(c)
  PROVE  TypeInv'
<1>1. CASE Pending(c)
  <2>1. PICK others \in Without(c) : Leave(others)
    BY <1>1 DEF Fail, OpenFails, Pending
  <2>2. QED
    BY <2>1, Leaves, LeaveType
<1>2. CASE ~Pending(c)
  <2>1. calls' \in Without(c) /\ UNCHANGED <<sent, visit>>
    BY <1>2, FailElse
  <2>2. CallsOK'
    <3>1. PICK others \in Without(c) : calls' = others
      BY <2>1
    <3>2. \A d \in others : CallOK(d, sent, visit)
      BY Leaves, LeftOK
    <3>3. QED
      BY <2>1, <3>1, <3>2 DEF CallsOK
  <2>3. completed' \in BOOLEAN /\ doubt' \in BOOLEAN
    <3>1. completed \in BOOLEAN /\ doubt \in BOOLEAN /\ (c.op = "status" => c.arg \in BOOLEAN)
      BY DEF TypeInv, Flags, CallsOK, CallOK
    <3>2. CASE c.op = "status"
      BY <1>2, <3>1, <3>2, FailElse DEF RollBack
    <3>3. CASE c.op # "status"
      BY <1>2, <3>1, <3>3, FailElse
    <3>4. QED
      BY <3>2, <3>3
  <2>4. Ranges'
    BY <1>2, FailElse DEF TypeInv, Ranges
  <2>5. Flags'
    BY <1>2, <2>3, FailElse DEF TypeInv, Flags
  <2>6. ServerOK'
    BY <1>2, FailElse, ServerStays DEF TypeInv
  <2>7. QED
    BY <2>2, <2>4, <2>5, <2>6 DEF TypeInv
<1>3. QED
  BY <1>1, <1>2

(* A failed call keeps Opens. *)
LEMMA FailOpens ==
  ASSUME TypeInv, Opens, NEW c \in calls, Fail(c)
  PROVE  Opens'
<1>1. CASE Pending(c)
  <2>1. PICK others \in Without(c) : Leave(others)
    BY <1>1 DEF Fail, OpenFails, Pending
  <2>2. QED
    BY <2>1, Leaves, LeaveOpens
<1>2. CASE ~Pending(c)
  <2>1. PICK others \in Without(c) : calls' = others
    BY <1>2, FailElse
  <2>2. \A d \in calls' : Pending(d) => d \in calls
    BY <2>1, Leaves, LeftPending
  <2>3. UNCHANGED <<view, visit>>
    BY <1>2, FailElse
  <2>4. QED
    BY <2>2, <2>3, OpensKept
<1>3. QED
  BY <1>1, <1>2

(* Types and Opens hold at the start and are kept by every step.           *)
TypeAndOpens == TypeInv /\ Opens

(* The types hold at the start. *)
LEMMA InitTypes == Init => TypeAndOpens
<1> SUFFICES ASSUME Init PROVE TypeAndOpens
  OBVIOUS
<1>1. ServerOK
  BY PageOne DEF Init, ServerOK, RowOK, FlushOK, Resting, None
<1>2. Ranges
  BY PageOne DEF Init, Ranges, None
<1>3. Flags
  BY DEF Init, Flags
<1>4. CallsOK /\ Opens
  BY DEF Init, CallsOK, Opens
<1>5. QED
  BY <1>1, <1>2, <1>3, <1>4 DEF TypeAndOpens, TypeInv

(* A step that changes nothing. *)
LEMMA Stutters ==
  ASSUME UNCHANGED vars
  PROVE  /\ UNCHANGED <<row, key, flush, marks, view, visit, page, waiting, completed, listed>>
         /\ UNCHANGED <<calls, sent, turned, lastSave, applied, early, behind, moved, doubt>>
         /\ UNCHANGED <<undone, lastList, shownBy, unseen>>
<1>1. UNCHANGED <<server, tab, calls, sent, bounds, ghosts>>
  BY DEF vars
<1>2. UNCHANGED <<tabGhosts, serverGhosts, unseen>>
  BY <1>1 DEF ghosts
<1>3. QED
  BY <1>1, <1>2 DEF server, tab, tabGhosts, serverGhosts

(* See TypeAndOpens. *)
LEMMA StepTypes == TypeAndOpens /\ [Next]_vars => TypeAndOpens'
<1> SUFFICES ASSUME TypeAndOpens, [Next]_vars PROVE TypeAndOpens'
  OBVIOUS
<1> USE DEF TypeAndOpens
<1>1. CASE Open \/ Turn \/ TimerFires \/ Toggle \/ Mark \/ Back \/ Unload
  BY <1>1, DeedType, DeedOpens
<1>2. ASSUME NEW c \in calls, Serve(c) PROVE TypeAndOpens'
  BY <1>2, ServeType, ServeOpens
<1>3. ASSUME NEW c \in calls, Deliver(c) PROVE TypeAndOpens'
  BY <1>3, DeliverType, DeliverOpens
<1>4. ASSUME NEW c \in calls, Fail(c) PROVE TypeAndOpens'
  BY <1>4, FailType, FailOpens
<1>5. CASE Background
  <2>1. UNCHANGED <<view, visit, calls>>
    BY <1>5, BackgroundType DEF tab
  <2>2. Opens'
    BY <2>1, OpensKept
  <2>3. QED
    BY <1>5, <2>2, BackgroundType
<1>6. CASE UNCHANGED vars
  <2>1. TypeInv'
    BY <1>6, Stutters, ServerStays DEF TypeInv, Ranges, Flags, CallsOK
  <2>2. UNCHANGED <<view, visit, calls>>
    BY <1>6, Stutters
  <2>3. QED
    BY <2>1, <2>2, OpensKept
<1>7. QED
  BY <1>1, <1>2, <1>3, <1>4, <1>5, <1>6 DEF Next

(* Every state is of the declared types; a save waits only while the book  *)
(* is read, with the page on screen; an answer that opens the book finds   *)
(* its own visit loading.                                                  *)
THEOREM TypeCorrect == Spec => []TypeOK
<1>1. TypeAndOpens => TypeOK
  BY DEF TypeAndOpens, TypeInv, ServerOK, RowOK, FlushOK, Ranges, Flags, CallsOK, CallOK,
         StageOK, TypeOK, Ops, Stages
<1>2. QED
  BY <1>1, InitTypes, StepTypes, PTL DEF Spec

-----------------------------------------------------------------------------
(* The reader's place.                                                     *)

(* The page on screen is the one last turned to, unless the book was       *)
(* opened at a place that may be an older one.                             *)
Seen == view = "reading" /\ ~behind => page = turned
Waits == waiting # None => waiting = turned
(* Once no save waits, the newest save is of the page last turned to.      *)
Saves ==
  waiting = None /\ ~early =>
    /\ applied = lastSave /\ ~moved => Position = turned
    /\ \A c \in calls : c.op = "save" /\ c.n = lastSave => c.arg = turned
(* An answer that knows the newest save opens the book at that page.       *)
Opening ==
  \A c \in calls : Pending(c) /\ Ours(c) /\ c.at = "answered" /\ ~c.answer.behind
                     => c.page = turned
(* Where no key hides the row, whoever has read a page read the stored one.*)
Copying(c) == c.at \in {"create", "cache", "fill", "write"}
Synced ==
  key = None /\ ~moved =>
    /\ flush.at # "done" => flush.page = row.page
    /\ \A c \in calls : Copying(c) => c.page = row.page
PlaceInv == Seen /\ Waits /\ Saves /\ Opening /\ Synced

(* Steps of the page that touch no place, save or open.                    *)
LEMMA PlaceQuiet ==
  ASSUME PlaceInv, view' = view, visit' = visit,
         UNCHANGED <<row, key, flush, page, waiting, turned, lastSave, applied, early, behind, moved>>,
         \A c \in calls' : c \in calls \/ (c.op \notin {"save", "open"} /\ ~Copying(c))
  PROVE  PlaceInv'
<1>1. Seen' /\ Waits'
  BY DEF PlaceInv, Seen, Waits
<1>2. Saves'
  BY DEF PlaceInv, Saves, Position
<1>3. Opening'
  BY DEF PlaceInv, Opening, Ours, Pending
<1>4. Synced'
  BY DEF PlaceInv, Synced
<1>5. QED
  BY <1>1, <1>2, <1>3, <1>4 DEF PlaceInv

(* What goes on without a tab still holds the page it read.                *)
LEMMA LeftSynced ==
  ASSUME PlaceInv, NEW others, Left(others), UNCHANGED <<row, key, flush, moved>>,
         \A c \in calls' : c \in others \/ ~Copying(c)
  PROVE  Synced'
BY DEF PlaceInv, Synced, Left, Orphan, Copying

(* A new save of the page last turned to. *)
LEMMA SavedPlace ==
  ASSUME TypeAndOpens, NEW others, Left(others),
         Saving(others, turned, FALSE), UNCHANGED <<applied, turned>>
  PROVE  Saves'
<1>1. /\ calls' = others \cup {Call("save", turned)} /\ lastSave' = sent + 1
  BY DEF Saving, Send
<1>2. Call("save", turned).arg = turned
  BY Sent
<1>3. \A c \in calls : c.n # sent + 1
  BY DEF TypeAndOpens, TypeInv, CallsOK, CallOK, Ranges
<1>4. \A c \in others : c.n # sent + 1
  BY <1>3 DEF Left, Orphan
<1>5. applied' # lastSave'
  BY <1>1 DEF TypeAndOpens, TypeInv, Ranges
<1>6. QED
  BY <1>1, <1>2, <1>4, <1>5 DEF Saves

(* Leaving the page saves the page that waits. *)
LEMMA LeavePlace ==
  ASSUME TypeAndOpens, PlaceInv, NEW others, Left(others), Leave(others)
  PROVE  PlaceInv'
<1>1. /\ view' = "away" /\ waiting' = None /\ Flush(others)
      /\ UNCHANGED <<row, key, flush, visit, turned, applied, behind, moved>>
  BY DEF Leave, Blank, server, serverGhosts
<1>2. Seen' /\ Waits' /\ Opening'
  BY <1>1 DEF Seen, Waits, Opening, Ours
<1>3. Saves'
  <2>1. CASE waiting # None
    BY <1>1, <2>1, SavedPlace DEF Flush, PlaceInv, Waits
  <2>2. CASE waiting = None
    <3>1. calls' = others /\ UNCHANGED <<lastSave, early>>
      BY <1>1, <2>2 DEF Flush
    <3>2. \A c \in others : \E b \in calls : c.n = b.n /\ c.op = b.op /\ c.arg = b.arg
      BY DEF Left, Orphan
    <3>3. QED
      BY <1>1, <2>2, <3>1, <3>2 DEF PlaceInv, Saves, Position
  <2>3. QED
    BY <2>1, <2>2
<1>4. Synced'
  <2>1. \A c \in calls' : c \in others \/ ~Copying(c)
    BY <1>1, Sent DEF Flush, Saving, Send, Copying
  <2>2. QED
    BY <1>1, <2>1, LeftSynced
<1>5. QED
  BY <1>2, <1>3, <1>4 DEF PlaceInv

(* What the reader does, and the timer, keeps the place. *)
LEMMA DeedPlace ==
  ASSUME TypeAndOpens, PlaceInv,
         Open \/ Turn \/ TimerFires \/ Toggle \/ Mark \/ Back \/ Unload
  PROVE  PlaceInv'
<1>1. CASE Open
  <2> DEFINE new == [Call("open", Nothing) EXCEPT !.visit = visit + 1]
  <2>1. /\ calls' = calls \cup {new} /\ visit' = visit + 1 /\ view' = "loading"
        /\ UNCHANGED <<row, key, flush, waiting, turned, lastSave, applied, early, moved>>
    BY <1>1 DEF Open, server, ghosts, tabGhosts, serverGhosts
  <2>2. new.op = "open" /\ new.at = "sent"
    BY DEF Call
  <2>3. \A c \in calls : c.visit # visit + 1
    BY DEF TypeAndOpens, TypeInv, CallsOK, CallOK, Ranges
  <2> HIDE DEF new
  <2>4. Seen' /\ Waits'
    BY <2>1 DEF PlaceInv, Seen, Waits
  <2>5. Saves'
    BY <2>1, <2>2 DEF PlaceInv, Saves, Position
  <2>6. Opening'
    BY <2>1, <2>2, <2>3 DEF Opening, Ours
  <2>7. Synced'
    BY <2>1, <2>2 DEF PlaceInv, Synced, Copying
  <2>8. QED
    BY <2>4, <2>5, <2>6, <2>7 DEF PlaceInv
<1>2. CASE Turn
  <2>1. /\ view = "reading" /\ view' = view /\ visit' = visit /\ calls' = calls
        /\ \E n \in Pages : page' = n /\ waiting' = n /\ turned' = n
        /\ UNCHANGED <<row, key, flush, moved>>
    BY <1>2 DEF Turn, TurnTo, server, serverGhosts
  <2>2. waiting' # None
    BY <2>1, PageOne
  <2>3. Opening'
    BY <2>1 DEF Opening, Ours, TypeAndOpens, Opens, Pending
  <2>4. Synced'
    BY <2>1 DEF PlaceInv, Synced
  <2>5. QED
    BY <2>1, <2>2, <2>3, <2>4 DEF PlaceInv, Seen, Waits, Saves
<1>3. CASE TimerFires
  <2>1. /\ waiting = turned /\ Saving(calls, turned, FALSE) /\ waiting' = None
        /\ UNCHANGED <<row, key, flush, view, visit, page, turned, applied, behind, moved>>
    BY <1>3 DEF TimerFires, server, serverGhosts, PlaceInv, Waits
  <2>2. Left(calls)
    BY DEF Left
  <2>3. Saves'
    BY <2>1, <2>2, SavedPlace
  <2>4. /\ calls' = calls \cup {Call("save", turned)}
        /\ Call("save", turned).op = "save" /\ Call("save", turned).at = "sent"
    BY <2>1, Sent DEF Saving, Send
  <2>5. Opening'
    BY <2>1, <2>4 DEF Opening, Ours, Pending, PlaceInv
  <2>6. Synced'
    BY <2>1, <2>4 DEF Synced, Copying, PlaceInv
  <2>7. QED
    BY <2>1, <2>3, <2>5, <2>6 DEF PlaceInv, Seen, Waits
<1>4. CASE Toggle
  BY <1>4, Sent, PlaceQuiet DEF Toggle, Send, server, serverGhosts, Copying
<1>5. CASE Mark
  <2>1. \A c \in calls' : c \in calls \/ (c.op \notin {"save", "open"} /\ ~Copying(c))
    BY <1>5, Sent DEF Mark, Send, Copying
  <2>2. QED
    BY <1>5, <2>1, PlaceQuiet DEF Mark, tab, server, ghosts, tabGhosts, serverGhosts
<1>6. CASE Back
  <2>1. Left(calls)
    BY DEF Left
  <2>2. QED
    BY <1>6, <2>1, LeavePlace DEF Back
<1>7. CASE Unload
  <2>1. /\ view' = "away" /\ waiting' = None
        /\ UNCHANGED <<row, key, flush, visit, turned, applied, behind, moved>>
    BY <1>7 DEF Unload, Blank, server, serverGhosts
  <2>2. Seen' /\ Waits' /\ Opening'
    BY <2>1 DEF Seen, Waits, Opening, Ours
  <2>3. PICK others, save :
          /\ Left(others) /\ save = [Call("save", page) EXCEPT !.visit = Nobody]
          /\ IF view = "away" THEN calls' = others /\ UNCHANGED <<sent, lastSave, early>>
             ELSE /\ calls' = others \cup {save}
                  /\ sent' = sent + 1 /\ lastSave' = sent + 1
                  /\ early' = (view = "loading" \/ behind)
    BY <1>7, Unloaded DEF TypeAndOpens
  <2>4. save.arg = page /\ save.at = "sent"
    BY <2>3 DEF Call
  <2>5. \A c \in others : \E b \in calls : c.n = b.n /\ c.op = b.op /\ c.arg = b.arg
    BY <2>3 DEF Left, Orphan
  <2>6. Synced'
    <3>1. \A c \in calls' : c \in others \/ ~Copying(c)
      BY <2>3, <2>4 DEF Copying
    <3>2. QED
      BY <2>1, <2>3, <3>1, LeftSynced
  <2>7. CASE view = "away"
    <3>1. UNCHANGED <<sent, lastSave, early>> /\ waiting = None /\ calls' = others
      BY <2>3, <2>7 DEF TypeAndOpens, TypeInv, Ranges
    <3>2. Saves'
      BY <2>1, <2>5, <3>1 DEF PlaceInv, Saves, Position
    <3>3. QED
      BY <2>2, <2>6, <3>2 DEF PlaceInv
  <2>8. CASE view # "away"
    <3>1. /\ calls' = others \cup {save}
          /\ lastSave' = sent + 1 /\ early' = (view = "loading" \/ behind)
      BY <2>3, <2>8
    <3>2. ASSUME ~early' PROVE page = turned
      BY <2>8, <3>1, <3>2 DEF PlaceInv, Seen, TypeAndOpens, TypeInv, Ranges
    <3>3. applied' # lastSave' /\ \A b \in calls : b.n # lastSave'
      BY <2>1, <3>1 DEF TypeAndOpens, TypeInv, Ranges, CallsOK, CallOK
    <3>4. Saves'
      BY <2>1, <2>4, <2>5, <3>1, <3>2, <3>3 DEF Saves
    <3>5. QED
      BY <2>2, <2>6, <3>4 DEF PlaceInv
  <2>9. QED
    BY <2>7, <2>8
<1>8. QED
  BY <1>1, <1>2, <1>3, <1>4, <1>5, <1>6, <1>7

(* A step of a handler's that leaves the place as it is.                   *)
LEMMA PlaceServed ==
  ASSUME PlaceInv, NEW c \in calls, c.op # "save", Serving(c),
         UNCHANGED <<view, visit, page, waiting, turned, lastSave, applied, early, behind>>,
         ~moved' => ~moved, ~moved' => Position' = Position,
         NEW at, NEW p, NEW answer, Becomes(c, at, p, answer),
         /\ at = "answered" /\ Pending(c) /\ Ours(c) /\ ~answer.behind
           => p = Position /\ ~moved /\ applied = lastSave /\ ~early /\ waiting = None,
         Synced'
  PROVE  PlaceInv'
<1>1. Seen' /\ Waits'
  BY DEF PlaceInv, Seen, Waits
<1>2. Saves'
  <2>1. \A d \in calls' : d.op = "save" => d \in calls
    BY DEF Becomes, Reply
  <2>2. QED
    BY <2>1 DEF PlaceInv, Saves
<1>3. Opening'
  <2>1. ASSUME at = "answered", Pending(c), Ours(c), ~answer.behind
        PROVE  p = turned
    BY <2>1 DEF PlaceInv, Saves
  <2>2. \A d \in calls' : d \in calls \/ Reply(c, d, at, p, answer)
    BY DEF Becomes
  <2>3. QED
    BY <2>1, <2>2 DEF PlaceInv, Opening, Ours, Pending, Reply
<1>4. QED
  BY <1>1, <1>2, <1>3 DEF PlaceInv

(* It keeps the copies together if the row is not moved and its own copy   *)
(* is the stored page.                                                     *)
LEMMA SyncedServed ==
  ASSUME PlaceInv, NEW c \in calls, NEW at, NEW p, NEW answer, Becomes(c, at, p, answer),
         flush' = flush,
         key' = None /\ ~moved' =>
           /\ key = None /\ ~moved /\ row'.page = row.page
           /\ at \in {"create", "cache", "fill", "write"} => p = row.page
  PROVE  Synced'
<1>1. \A d \in calls' : d \in calls \/ (d.at = at /\ d.page = p)
  BY DEF Becomes, Reply
<1>2. QED
  BY <1>1 DEF PlaceInv, Synced, Copying

(* rdb.Set of a page read before moves the place only if it says so.       *)
LEMMA Fills ==
  ASSUME TypeInv, PlaceInv, NEW c \in calls, c.at = "fill", Fill(c), row' = row
  PROVE  /\ ~moved' => ~moved /\ Position' = Position
         /\ key' = None => key = None
<1>1. \/ key' = c.page /\ moved' = (moved \/ key \notin {None, c.page})
      \/ UNCHANGED <<key, moved>>
  BY DEF Fill
<1>2. CASE UNCHANGED <<key, moved>>
  BY <1>2 DEF Position
<1>3. CASE key' = c.page /\ moved' = (moved \/ key \notin {None, c.page})
  <2>1. c.page \in Pages /\ Copying(c)
    BY DEF TypeInv, CallsOK, CallOK, Copying
  <2>2. key' # None
    BY <1>3, <2>1, PageOne
  <2>3. ASSUME ~moved' PROVE ~moved /\ Position' = Position
    BY <1>3, <2>1, <2>2, <2>3 DEF PlaceInv, Synced, Position
  <2>4. QED
    BY <2>2, <2>3
<1>4. QED
  BY <1>1, <1>2, <1>3

(* Serving a call keeps the place: a save is applied, or it is read.       *)
LEMMA ServePlace ==
  ASSUME TypeAndOpens, PlaceInv, NEW c \in calls, Serve(c)
  PROVE  PlaceInv'
<1>0. TypeInv
  BY DEF TypeAndOpens
<1>1. /\ Serving(c)
      /\ UNCHANGED <<view, visit, page, waiting, turned, lastSave, early, behind>>
  BY DEF Serve, tab, tabGhosts
<1>2. /\ CallOK(c, sent, visit) /\ key \in Pages \cup {None} /\ row.page \in Pages
      /\ row.there \in BOOLEAN /\ (~row.there => row.page = 1)
  BY <1>0, RowParts DEF TypeInv, CallsOK, ServerOK
<1>3. Pending(c) /\ Ours(c) => waiting = None
  BY <1>0 DEF TypeAndOpens, Opens, TypeInv, Ranges
<1>4. CASE OpenReadRow(c)
  <2>1. c.op = "open" /\ UNCHANGED <<row, key, flush, applied>>
    BY <1>0, <1>4, RowRead
  <2>2. PICK at, p, answer :
          /\ Becomes(c, at, p, answer)
          /\ \/ at = "cache" /\ p = row.page /\ moved' = moved
             \/ /\ at = "create" /\ p = 1
                /\ (~row.there /\ moved' = moved) \/ Misread(c)
    BY <1>0, <1>4, RowRead
  <2>3. ~moved' => ~moved /\ (key = None => p = row.page)
    BY <1>2, <2>2 DEF Misread
  <2>4. Synced'
    BY <2>1, <2>2, <2>3, SyncedServed
  <2>5. Position' = Position
    BY <2>1 DEF Position
  <2>6. at # "answered"
    BY <2>2
  <2>7. QED
    BY <1>1, <2>1, <2>2, <2>3, <2>4, <2>5, <2>6, PlaceServed
<1>5. CASE OpenCreate(c)
  <2>1. /\ c.op = "open" /\ Goes(c, "cache", c.page) /\ UNCHANGED <<key, flush, applied, moved>>
        /\ row' = Row(1, FALSE) \/ row' = row
    BY <1>0, <1>5, RestOfOpen DEF OpenCreate, serverGhosts
  <2>2. Becomes(c, "cache", c.page, c.answer)
    BY <1>0, <2>1, GoesBecomes DEF Stages, Ends
  <2>3. Copying(c) /\ c.page = 1
    BY <1>2, <1>5 DEF OpenCreate, Copying, CallOK
  <2>4. key = None /\ ~moved => row'.page = row.page /\ c.page = row.page
    <3>1. key = None /\ ~moved => c.page = row.page
      BY <2>3 DEF PlaceInv, Synced
    <3>2. Row(1, FALSE).page = 1
      BY DEF Row
    <3>3. row'.page \in {1, row.page}
      BY <2>1, <3>2
    <3>4. QED
      BY <2>3, <3>1, <3>3
  <2>5. Synced'
    BY <2>1, <2>2, <2>4, SyncedServed
  <2>6. ~moved' => Position' = Position
    BY <2>1, <2>4 DEF Position
  <2>7. QED
    BY <1>1, <2>1, <2>2, <2>5, <2>6, PlaceServed
<1>6. CASE OpenReadKey(c)
  <2>1. /\ c.op = "open" /\ c.at # "sent" /\ UNCHANGED <<row, key, flush, applied, moved>>
        /\ c.at = "cache"
    BY <1>0, <1>6, RestOfOpen DEF OpenReadKey, server, serverGhosts
  <2>2. Position' = Position
    BY <2>1 DEF Position
  <2>3. CASE Goes(c, "fill", c.page)
    <3>1. Becomes(c, "fill", c.page, c.answer)
      BY <1>0, <2>3, GoesBecomes DEF Stages, Ends
    <3>2. key = None /\ ~moved => c.page = row.page
      BY <2>1 DEF PlaceInv, Synced, Copying
    <3>3. Synced'
      BY <2>1, <3>1, <3>2, SyncedServed
    <3>4. QED
      BY <1>1, <2>1, <2>2, <3>1, <3>3, PlaceServed
  <2>4. CASE Opened(c, key)
    <3>1. PICK answer :
            /\ Becomes(c, "answered", key, answer)
            /\ answer.behind <=> key # Position \/ moved \/ applied # lastSave \/ early
      BY <1>0, <2>1, <2>4, OpenedBecomes
    <3>2. Synced'
      BY <2>1, <3>1, SyncedServed
    <3>3. QED
      BY <1>1, <1>3, <2>1, <2>2, <3>1, <3>2, PlaceServed
  <2>5. QED
    BY <1>6, <2>3, <2>4 DEF OpenReadKey
<1>7. CASE OpenFill(c)
  <2>1. /\ c.op = "open" /\ c.at = "fill" /\ UNCHANGED <<row, flush, applied>>
        /\ Fill(c) /\ Opened(c, c.page)
    BY <1>7 DEF OpenFill
  <2>2. PICK answer :
          /\ Becomes(c, "answered", c.page, answer)
          /\ answer.behind <=> c.page # Position \/ moved \/ applied # lastSave \/ early
    BY <1>0, <2>1, OpenedBecomes
  <2>3. (~moved' => ~moved /\ Position' = Position) /\ (key' = None => key = None)
    BY <1>0, <2>1, Fills
  <2>4. Synced'
    BY <2>1, <2>2, <2>3, SyncedServed
  <2>5. QED
    BY <1>1, <1>3, <2>1, <2>2, <2>3, <2>4, PlaceServed
<1>8. CASE ServeSave(c)
  <2>1. /\ c.op = "save" /\ UNCHANGED <<row, flush>>
        /\ Answered(c, "answered", 1, Nothing)
        /\ \/ key' = c.arg /\ applied' = c.n /\ moved' = FALSE
           \/ UNCHANGED <<key, applied, moved>>
    BY <1>8, Zenon DEF ServeSave
  <2>2. calls' = calls \ {c} /\ c.arg \in Pages
    BY <1>0, <1>2, <2>1, AnsweredBecomes DEF Becomes, Awaited, Ends, CallOK
  <2>3. CASE key' = c.arg /\ applied' = c.n /\ moved' = FALSE
    <3>1. key' # None
      BY <2>2, <2>3, PageOne
    <3>2. Position' = c.arg
      BY <2>3, <3>1 DEF Position
    <3>3. Saves'
      BY <1>1, <2>1, <2>2, <2>3, <3>2 DEF PlaceInv, Saves
    <3>4. Synced'
      BY <3>1 DEF Synced
    <3>5. QED
      BY <1>1, <2>2, <3>3, <3>4 DEF PlaceInv, Seen, Waits, Opening, Ours
  <2>4. CASE UNCHANGED <<key, applied, moved>>
    BY <1>1, <2>1, <2>2, <2>4, PlaceQuiet
  <2>5. QED
    BY <2>1, <2>3, <2>4
<1>9. CASE StatusReadKey(c)
  <2>1. c.op = "status" /\ UNCHANGED <<row, key, flush, applied, moved>>
    BY <1>9 DEF StatusReadKey, server, serverGhosts
  <2>2. PICK at, p : /\ Goes(c, at, p) /\ at \in {"write", "row"}
                     /\ (at = "write" => key # None)
    BY <1>9 DEF StatusReadKey
  <2>3. Becomes(c, at, p, c.answer)
    BY <1>0, <2>2, GoesBecomes DEF Stages, Ends
  <2>4. Synced'
    BY <2>1, <2>2, <2>3, SyncedServed
  <2>5. Position' = Position
    BY <2>1 DEF Position
  <2>6. QED
    BY <1>1, <2>1, <2>2, <2>3, <2>4, <2>5, PlaceServed
<1>10. CASE StatusReadRow(c)
  <2>1. c.op = "status" /\ UNCHANGED <<row, key, flush, applied>>
    BY <1>0, <1>10, StatusSteps DEF StatusReadRow, server, serverGhosts, Misread
  <2>2. PICK at, p :
          /\ Goes(c, at, p) /\ at \in {"fill", "write"}
          /\ \/ p = row.page /\ moved' = moved
             \/ p = 1 /\ ~row.there /\ moved' = moved
             \/ p = 1 /\ Misread(c)
    BY <1>10 DEF StatusReadRow, serverGhosts
  <2>3. Becomes(c, at, p, c.answer)
    BY <1>0, <2>2, GoesBecomes DEF Stages, Ends
  <2>4. ~moved' => ~moved /\ (key = None => p = row.page)
    BY <1>2, <2>2 DEF Misread
  <2>5. Synced'
    BY <2>1, <2>2, <2>3, <2>4, SyncedServed
  <2>6. Position' = Position
    BY <2>1 DEF Position
  <2>7. QED
    BY <1>1, <2>1, <2>2, <2>3, <2>4, <2>5, <2>6, PlaceServed
<1>11. CASE StatusFill(c)
  <2>1. /\ c.op = "status" /\ c.at = "fill" /\ UNCHANGED <<row, flush, applied>>
        /\ Fill(c) /\ Goes(c, "write", c.page)
    BY <1>11 DEF StatusFill
  <2>2. Becomes(c, "write", c.page, c.answer)
    BY <1>0, <2>1, GoesBecomes DEF Stages, Ends
  <2>3. (~moved' => ~moved /\ Position' = Position) /\ (key' = None => key = None)
    BY <1>0, <2>1, Fills
  <2>4. key = None /\ ~moved => c.page = row.page
    BY <2>1 DEF PlaceInv, Synced, Copying
  <2>5. Synced'
    BY <2>1, <2>2, <2>3, <2>4, SyncedServed
  <2>6. QED
    BY <1>1, <2>1, <2>2, <2>3, <2>5, PlaceServed
<1>12. CASE StatusWrite(c)
  <2>1. /\ c.at = "write" /\ UNCHANGED <<key, flush, applied, moved>>
        /\ row' = Row(c.page, c.arg) \/ row' = row
    BY <1>12 DEF StatusWrite
  <2>2. PICK at \in Ends : Answered(c, at, 1, Nothing)
    BY <1>12 DEF StatusWrite, Ends
  <2>3. Becomes(c, at, 1, Nothing)
    BY <1>0, <2>2, AnsweredBecomes
  <2>4. key = None /\ ~moved => row'.page = row.page
    BY <2>1, RowParts DEF PlaceInv, Synced, Copying
  <2>5. Synced'
    BY <2>1, <2>2, <2>3, <2>4, SyncedServed DEF Ends
  <2>6. ~moved' => Position' = Position
    BY <2>1, <2>4 DEF Position
  <2>7. c.op = "status"
    BY <1>0, <1>12, StatusSteps
  <2>8. QED
    BY <1>1, <2>1, <2>3, <2>5, <2>6, <2>7, PlaceServed DEF Pending
<1>13. CASE ServeList(c) \/ ServeMark(c) \/ ServeUnmark(c)
  <2>1. c.op \notin {"save", "open"} /\ UNCHANGED <<row, key, flush, applied, moved>>
    BY <1>13 DEF ServeList, ServeMark, ServeUnmark, server, serverGhosts
  <2>2. PICK at \in Ends : \E answer : Answered(c, at, 1, answer)
    BY <1>13 DEF ServeList, ServeMark, ServeUnmark, Ends
  <2>3. PICK answer : Becomes(c, at, 1, answer)
    BY <1>0, <2>2, AnsweredBecomes
  <2>4. \A d \in calls' : d \in calls \/ (d.op \notin {"save", "open"} /\ ~Copying(d))
    BY <2>1, <2>2, <2>3 DEF Becomes, Reply, Copying, Ends
  <2>5. QED
    BY <1>1, <2>1, <2>4, PlaceQuiet
<1>14. QED
  BY <1>4, <1>5, <1>6, <1>7, <1>8, <1>9, <1>10, <1>11, <1>12, <1>13, Zenon DEF Serve

(* So do the flusher and what befalls the key, unless they say otherwise.  *)
LEMMA BackgroundPlace ==
  ASSUME TypeAndOpens, PlaceInv, Background
  PROVE  PlaceInv'
<1>1. /\ UNCHANGED <<view, visit, page, waiting, calls, turned, lastSave, applied, early, behind>>
  BY BackgroundType DEF TypeAndOpens, tab, tabGhosts
<1>2. key \in Pages \cup {None} /\ flush.at \in {"done", "read", "write"}
  BY DEF TypeAndOpens, TypeInv, ServerOK, FlushOK
<1>3. Synced' /\ (~moved' => ~moved /\ Position' = Position)
  <2>1. CASE FlushGet
    <3>1. UNCHANGED <<row, key, moved>> /\ key # None
      BY <2>1 DEF FlushGet, serverGhosts
    <3>2. QED
      BY <3>1 DEF Synced, Position
  <2>2. CASE FlushReadRow
    <3>1. UNCHANGED <<row, key, moved>> /\ flush.at = "read"
      BY <2>2 DEF FlushReadRow
    <3>2. flush'.page = flush.page
      BY <2>2 DEF FlushReadRow, TypeAndOpens, TypeInv, ServerOK, FlushOK
    <3>3. QED
      BY <1>1, <3>1, <3>2 DEF PlaceInv, Synced, Position
  <2>3. CASE FlushWrite
    <3>1. /\ UNCHANGED <<key, moved>> /\ flush.at = "write" /\ flush' = Resting
          /\ row' = Row(flush.page, flush.finished) \/ row' = row
      BY <2>3 DEF FlushWrite, serverGhosts
    <3>2. key = None /\ ~moved => row'.page = row.page
      BY <3>1, RowParts DEF PlaceInv, Synced
    <3>3. flush'.at = "done"
      BY <3>1 DEF Resting
    <3>4. QED
      BY <1>1, <3>1, <3>2, <3>3 DEF PlaceInv, Synced, Position
  <2>4. CASE DropKey
    <3>1. /\ UNCHANGED <<row, flush>> /\ key # None /\ key' = None
          /\ moved' = (moved \/ row.page # key \/ ~(Copies \subseteq {key}))
      BY <2>4 DEF DropKey
    <3>2. flush.at # "done" => flush.page \in Copies
      BY <1>2 DEF Copies
    <3>3. \A c \in calls : Copying(c) => c.page \in Copies
      BY DEF Copies, Copying
    <3>4. ~moved' => row.page = key /\ ~moved /\ Copies \subseteq {key}
      BY <3>1
    <3>5. Synced'
      BY <1>1, <3>1, <3>2, <3>3, <3>4 DEF Synced
    <3>6. QED
      BY <3>1, <3>4, <3>5 DEF Position
  <2>5. QED
    BY <2>1, <2>2, <2>3, <2>4 DEF Background
<1>4. Seen' /\ Waits' /\ Opening'
  BY <1>1 DEF PlaceInv, Seen, Waits, Opening, Ours
<1>5. Saves'
  BY <1>1, <1>3 DEF PlaceInv, Saves
<1>6. QED
  BY <1>3, <1>4, <1>5 DEF PlaceInv

(* Hearing an answer keeps the place; one to an open shows it.             *)
LEMMA DeliverPlace ==
  ASSUME TypeAndOpens, PlaceInv, NEW c \in calls, Deliver(c)
  PROVE  PlaceInv'
<1>1. /\ c.at = "answered" /\ visit' = visit
      /\ UNCHANGED <<row, key, flush, waiting, turned, lastSave, applied, early, moved>>
  BY DEF Deliver, tab, server, serverGhosts
<1>2. \A d \in calls' : d \in calls \/ (d.op = "list" /\ ~Copying(d))
  BY Sent DEF Deliver, Reload, Send, Copying
<1>3. CASE Ours(c) /\ c.op = "open"
  <2>1. view' = "reading" /\ page' = c.page /\ behind' = c.answer.behind
    BY <1>3 DEF Deliver
  <2>2. Pending(c) /\ view = "loading" /\ waiting = None
    BY <1>3 DEF Pending, Ours, TypeAndOpens, Opens, TypeInv, Ranges, Nobody
  <2>3. Seen' /\ Waits'
    BY <1>1, <1>3, <2>1, <2>2 DEF PlaceInv, Opening, Seen, Waits
  <2>4. Saves' /\ Synced'
    BY <1>1, <1>2 DEF PlaceInv, Saves, Position, Synced
  <2>5. Opening'
    <3>1. Opens' /\ TypeInv'
      BY DeliverOpens, DeliverType DEF TypeAndOpens
    <3>2. QED
      BY <2>1, <3>1 DEF Opens, Opening
  <2>6. QED
    BY <2>3, <2>4, <2>5 DEF PlaceInv
<1>4. CASE ~(Ours(c) /\ c.op = "open")
  <2>1. UNCHANGED <<view, page, behind>>
    BY <1>4 DEF Deliver, tab
  <2>2. QED
    BY <1>1, <1>2, <2>1, PlaceQuiet
<1>5. QED
  BY <1>3, <1>4

(* A failed call keeps the place. *)
LEMMA FailPlace ==
  ASSUME TypeAndOpens, PlaceInv, NEW c \in calls, Fail(c)
  PROVE  PlaceInv'
<1>0. TypeInv
  BY DEF TypeAndOpens
<1>1. CASE Pending(c)
  <2>1. PICK others \in Without(c) : Leave(others)
    BY <1>1 DEF Fail, OpenFails, Pending
  <2>2. QED
    BY <1>0, <2>1, Leaves, LeavePlace
<1>2. CASE ~Pending(c)
  <2>1. UNCHANGED <<row, key, flush, view, visit, page, waiting, turned,
                    lastSave, applied, early, behind, moved>>
    BY <1>0, <1>2, FailElse
  <2>2. PICK others \in Without(c) : calls' = others
    BY <1>0, <1>2, FailElse
  <2>3. Left(others)
    BY <1>0, <2>2, Leaves
  <2>4. Synced'
    BY <2>1, <2>2, <2>3, LeftSynced
  <2>5. \A d \in calls' : \E b \in calls : d.n = b.n /\ d.op = b.op /\ d.arg = b.arg
    BY <2>2, <2>3 DEF Left, Orphan
  <2>6. Saves'
    BY <2>1, <2>5 DEF PlaceInv, Saves, Position
  <2>7. Opening'
    <3>1. \A d \in calls' : Pending(d) => d \in calls
      BY <2>2, <2>3, LeftPending
    <3>2. QED
      BY <2>1, <3>1 DEF PlaceInv, Opening, Ours
  <2>8. QED
    BY <2>1, <2>4, <2>6, <2>7 DEF PlaceInv, Seen, Waits
<1>3. QED
  BY <1>1, <1>2

(* PlaceInv holds at the start and is kept by every step.                  *)
LEMMA StepPlace == TypeAndOpens /\ PlaceInv /\ [Next]_vars => PlaceInv'
<1> SUFFICES ASSUME TypeAndOpens, PlaceInv, [Next]_vars PROVE PlaceInv'
  OBVIOUS
<1>1. CASE Open \/ Turn \/ TimerFires \/ Toggle \/ Mark \/ Back \/ Unload
  BY <1>1, DeedPlace
<1>2. ASSUME NEW c \in calls, Serve(c) \/ Deliver(c) \/ Fail(c) PROVE PlaceInv'
  BY <1>2, ServePlace, DeliverPlace, FailPlace
<1>3. CASE Background
  BY <1>3, BackgroundPlace
<1>4. CASE UNCHANGED vars
  BY <1>4, Stutters, PlaceQuiet
<1>5. QED
  BY <1>1, <1>2, <1>3, <1>4 DEF Next

(* The server keeps the page the reader last turned to, for a book of any  *)
(* length and any number of visits, turns, unloads, flushes, failures and  *)
(* calls out of order, with the exceptions PlaceKept names: a newest save  *)
(* lost or overtaken, a tab closed early, a place the server moved itself. *)
THEOREM PlaceIsKept == Spec => []PlaceKept
<1>1. Init => PlaceInv
  BY DEF Init, PlaceInv, Seen, Waits, Saves, Opening, Synced, Resting
<1>2. PlaceInv => PlaceKept
  BY DEF PlaceInv, Saves, PlaceKept, AtRest
<1>3. QED
  BY <1>1, <1>2, InitTypes, StepTypes, StepPlace, PTL DEF Spec

-----------------------------------------------------------------------------
(* The completion button.                                                  *)

StatusCalls == {c \in calls : c.op = "status"}
Mine == {c \in StatusCalls : c.visit = visit}

(* Who is about to write a status it read before writes the stored one.    *)
Carried ==
  ~undone => /\ flush.at = "write" => flush.finished = row.finished
             /\ \A c \in calls : c.at = "create" => ~row.finished

(* While the button may be trusted, at most one click is under way; the    *)
(* button is ahead of the server until that click is served.               *)
Told ==
  view = "reading" /\ ~doubt =>
    /\ \A c \in StatusCalls : Serving(c) => c.visit = visit
    /\ \A c, d \in Mine : c = d
    /\ \A c \in Mine : completed = c.arg
    /\ ~undone =>
         /\ Mine = {} => completed = row.finished
         /\ \A c \in Mine : IF c.at = "answered" THEN row.finished = c.arg
                                                 ELSE row.finished # c.arg
(* An answer that opens the book tells the status, if no click was left    *)
(* for the server to see when it read the row.                             *)
Telling ==
  view = "loading" =>
    /\ Mine = {}
    /\ \A c \in calls : Pending(c) /\ c.visit = visit /\ c.at # "sent"
                        /\ ~c.answer.doubt =>
         /\ ~undone => c.answer.completed = row.finished
         /\ \A d \in StatusCalls : ~Serving(d)
ButtonInv == Carried /\ Told /\ Telling

(* Two flags that differ are each other's negation. *)
LEMMA Opposites ==
  ASSUME NEW a \in BOOLEAN, NEW b \in BOOLEAN
  PROVE  ((~a) # a) /\ (a # b => (~a) = b)
OBVIOUS

(* A page that is left shows no button. *)
LEMMA ButtonGone ==
  ASSUME view' = "away"
  PROVE  Told' /\ Telling'
BY DEF Told, Telling

(* Nobody starts to carry a status.                                        *)
LEMMA CarriedStays ==
  ASSUME Carried, ~undone' => ~undone /\ row'.finished = row.finished, flush' = flush,
         \A c \in calls' : c.at = "create" => \E b \in calls : b.at = "create"
  PROVE  Carried'
BY DEF Carried

(* What goes on without a tab is at the stage it was.                      *)
LEMMA LeftCarried ==
  ASSUME Carried, NEW others, Left(others), UNCHANGED <<row, flush, undone>>,
         \A c \in calls' : c \in others \/ c.at = "sent"
  PROVE  Carried'
<1>1. \A c \in calls' : c.at = "create" => \E b \in calls : b.at = "create"
  BY DEF Left, Orphan
<1>2. QED
  BY <1>1, CarriedStays

(* Steps that touch no status call and no open, and no status unless they  *)
(* say so.                                                                 *)
LEMMA ToldQuiet ==
  ASSUME ButtonInv, StatusCalls' = StatusCalls,
         UNCHANGED <<view, visit, completed, doubt>>,
         ~undone' => ~undone /\ row'.finished = row.finished,
         \A c \in calls' : c \in calls \/ ~Pending(c)
  PROVE  Told' /\ Telling'
<1>1. Mine' = Mine
  BY DEF Mine
<1>2. Told'
  BY <1>1 DEF ButtonInv, Told, Serving
<1>3. Telling'
  BY <1>1 DEF ButtonInv, Telling, Pending, Serving
<1>4. QED
  BY <1>2, <1>3

LEMMA ButtonQuiet ==
  ASSUME ButtonInv, StatusCalls' = StatusCalls,
         UNCHANGED <<row, flush, undone, view, visit, completed, doubt>>,
         \A c \in calls' : c \in calls \/ (~Pending(c) /\ c.at # "create")
  PROVE  ButtonInv'
<1>1. Carried'
  BY CarriedStays DEF ButtonInv
<1>2. QED
  BY <1>1, ToldQuiet DEF ButtonInv

(* What the reader does, and the timer, keeps the button. *)
LEMMA DeedButton ==
  ASSUME TypeAndOpens, ButtonInv,
         Open \/ Turn \/ TimerFires \/ Toggle \/ Mark \/ Back \/ Unload
  PROVE  ButtonInv'
<1>1. CASE Open
  <2> DEFINE new == [Call("open", Nothing) EXCEPT !.visit = visit + 1]
  <2>1. /\ calls' = calls \cup {new} /\ visit' = visit + 1 /\ view' = "loading"
        /\ UNCHANGED <<row, flush, undone>>
    BY <1>1 DEF Open, server, ghosts, serverGhosts
  <2>2. new.op = "open" /\ new.at = "sent"
    BY DEF Call
  <2>3. \A c \in calls : c.visit # visit + 1
    BY DEF TypeAndOpens, TypeInv, CallsOK, CallOK, Ranges
  <2> HIDE DEF new
  <2>4. Mine' = {}
    BY <2>1, <2>2, <2>3 DEF Mine, StatusCalls
  <2>5. \A c \in calls' : c.visit = visit' => c.at = "sent"
    BY <2>1, <2>2, <2>3
  <2>6. Carried'
    BY <2>1, <2>2, CarriedStays DEF ButtonInv
  <2>7. QED
    BY <2>1, <2>4, <2>5, <2>6 DEF ButtonInv, Told, Telling
<1>2. CASE Turn
  <2>1. UNCHANGED <<row, flush, undone, view, visit, completed, doubt, calls>>
    BY <1>2 DEF Turn, TurnTo, server, serverGhosts
  <2>2. QED
    BY <2>1, ButtonQuiet DEF StatusCalls
<1>3. CASE TimerFires
  <2>1. /\ UNCHANGED <<row, flush, undone, view, visit, completed, doubt>>
        /\ calls' = calls \cup {Call("save", waiting)}
    BY <1>3 DEF TimerFires, Saving, Send, server, serverGhosts
  <2>2. Call("save", waiting).op = "save" /\ Call("save", waiting).at = "sent"
    BY Sent
  <2>3. QED
    BY <2>1, <2>2, ButtonQuiet DEF StatusCalls, Pending
<1>4. CASE Toggle
  <2>1. /\ view = "reading" /\ view' = view /\ visit' = visit
        /\ UNCHANGED <<row, flush, undone>>
        /\ completed' = ~completed
        /\ calls' = calls \cup {Call("status", ~completed)}
    BY <1>4 DEF Toggle, Send, server, serverGhosts
  <2> DEFINE new == Call("status", ~completed)
  <2>2. new.visit = visit /\ new.op = "status" /\ new.arg = completed' /\ new.at = "sent"
    BY <2>1, Sent
  <2>3. ~doubt' => ~doubt /\ StatusCalls = {}
    BY <1>4 DEF Toggle, StatusCalls
  <2> HIDE DEF new
  <2>4. StatusCalls' = StatusCalls \cup {new}
    BY <2>1, <2>2 DEF StatusCalls, new
  <2>5. ASSUME ~doubt' PROVE StatusCalls' = {new} /\ Mine' = {new}
    BY <2>1, <2>2, <2>3, <2>4, <2>5 DEF Mine
  <2>6. ASSUME ~doubt', ~undone' PROVE row'.finished # new.arg
    <3>1. completed = row.finished
      BY <2>1, <2>3, <2>6 DEF ButtonInv, Told, Mine
    <3>2. (~completed) # completed
      BY Opposites DEF TypeAndOpens, TypeInv, Flags
    <3>3. QED
      BY <2>1, <2>2, <3>1, <3>2
  <2>7. Told'
    BY <2>2, <2>5, <2>6, <2>1 DEF Told
  <2>8. Telling'
    BY <2>1 DEF Telling
  <2>9. Carried'
    <3>1. calls' = calls \cup {new}
      BY <2>1 DEF new
    <3>2. QED
      BY <2>1, <2>2, <3>1, CarriedStays DEF ButtonInv
  <2>10. QED
    BY <2>7, <2>8, <2>9 DEF ButtonInv
<1>5. CASE Mark
  <2>1. UNCHANGED <<row, flush, undone, view, visit, completed, doubt>>
    BY <1>5 DEF Mark, tab, server, ghosts, tabGhosts, serverGhosts
  <2>2. \E d : calls' = calls \cup {d} /\ d.op \in {"mark", "unmark"} /\ d.at = "sent"
    BY <1>5, Sent DEF Mark, Send
  <2>3. QED
    BY <2>1, <2>2, ButtonQuiet DEF StatusCalls, Pending
<1>6. CASE Back
  <2>1. view' = "away" /\ UNCHANGED <<row, flush, undone>> /\ Flush(calls)
    BY <1>6 DEF Back, Leave, server, serverGhosts
  <2>2. Left(calls) /\ \A c \in calls' : c \in calls \/ c.at = "sent"
    BY <2>1, Sent DEF Left, Flush, Saving, Send
  <2>3. Carried'
    BY <2>1, <2>2, LeftCarried DEF ButtonInv
  <2>4. QED
    BY <2>1, <2>3, ButtonGone DEF ButtonInv
<1>7. CASE Unload
  <2>1. view' = "away" /\ UNCHANGED <<row, flush, undone>>
    BY <1>7 DEF Unload, server, serverGhosts
  <2>2. PICK others, save :
          /\ Left(others) /\ save = [Call("save", page) EXCEPT !.visit = Nobody]
          /\ calls' \subseteq others \cup {save}
    BY <1>7, Unloaded DEF TypeAndOpens
  <2>3. save.at = "sent"
    BY <2>2 DEF Call
  <2>4. Carried'
    BY <2>1, <2>2, <2>3, LeftCarried DEF ButtonInv
  <2>5. QED
    BY <2>1, <2>4, ButtonGone DEF ButtonInv
<1>8. QED
  BY <1>1, <1>2, <1>3, <1>4, <1>5, <1>6, <1>7

(* The status the handlers of an open and a page turn carry along.         *)
LEMMA ServeCarried ==
  ASSUME TypeAndOpens, ButtonInv, NEW c \in calls, Serve(c)
  PROVE  Carried'
<1>0. TypeInv /\ Carried
  BY DEF TypeAndOpens, ButtonInv
<1>1. row.finished \in BOOLEAN /\ row.there \in BOOLEAN /\ (~row.there => ~row.finished)
  BY <1>0, RowParts DEF TypeInv, ServerOK
<1>2. CASE OpenReadRow(c)
  <2>1. UNCHANGED <<row, flush>>
    BY <1>0, <1>2, RowRead
  <2>2. PICK at, p, answer :
          /\ Becomes(c, at, p, answer)
          /\ \/ at = "cache" /\ undone' = undone
             \/ at = "create" /\ ((~row.there /\ undone' = undone) \/ (c.op = "open" /\ Misread(c)))
    BY <1>0, <1>2, RowRead
  <2>3. ~undone' => ~undone /\ (at = "create" => ~row.finished)
    BY <1>1, <2>2 DEF Misread, Finished
  <2>4. \A d \in calls' : d \in calls \/ d.at = at
    BY <2>2 DEF Becomes, Reply
  <2>5. QED
    BY <1>0, <2>1, <2>3, <2>4 DEF Carried
<1>3. CASE OpenCreate(c)
  <2>1. /\ c.at = "create" /\ Goes(c, "cache", c.page) /\ UNCHANGED <<flush, undone>>
        /\ row' = Row(1, FALSE) \/ row' = row
    BY <1>3 DEF OpenCreate, serverGhosts
  <2>2. ~undone => row'.finished = row.finished
    <3>1. Row(1, FALSE).finished = FALSE
      BY DEF Row
    <3>2. ~undone => row.finished = FALSE
      BY <1>0, <1>1, <2>1 DEF Carried
    <3>3. QED
      BY <2>1, <3>1, <3>2
  <2>3. Becomes(c, "cache", c.page, c.answer)
    BY <1>0, <2>1, GoesBecomes DEF Stages, Ends
  <2>4. \A d \in calls' : d.at = "create" => \E b \in calls : b.at = "create"
    BY <2>1
  <2>5. QED
    BY <1>0, <2>1, <2>2, <2>4, CarriedStays
<1>4. CASE OpenReadKey(c) \/ OpenFill(c)
  <2>1. UNCHANGED <<row, flush, undone>>
    BY <1>4 DEF OpenReadKey, OpenFill, server, serverGhosts
  <2>2. \E at \in {"cache", "fill", "answered"} : \E p, answer : Becomes(c, at, p, answer)
    BY <1>0, <1>4, RestOfOpen
  <2>3. \A d \in calls' : d \in calls \/ d.at # "create"
    BY <2>2 DEF Becomes, Reply
  <2>4. QED
    BY <1>0, <2>1, <2>3, CarriedStays
<1>5. CASE StatusReadKey(c) \/ StatusReadRow(c) \/ StatusFill(c) \/ StatusWrite(c)
  <2>1. c.op = "status" /\ flush' = flush
    BY <1>0, <1>5, StatusSteps
       DEF StatusReadKey, StatusReadRow, StatusFill, StatusWrite, server
  <2>2. \A d \in calls' : d \in calls \/ d.at # "create"
    <3>1. PICK at, p, answer : at # "create" /\ Becomes(c, at, p, answer)
      <4>1. PICK at \in {"row", "fill", "write"} \cup Ends, p \in Pages :
              \E answer : Becomes(c, at, p, answer)
        BY <1>0, <1>5, StatusSteps
      <4>2. at # "create"
        BY <4>1 DEF Ends
      <4>3. QED
        BY <4>1, <4>2
    <3>2. QED
      BY <3>1 DEF Becomes, Reply
  <2>3. CASE row' = row /\ (~undone' => ~undone)
    BY <1>0, <2>1, <2>2, <2>3, CarriedStays
  <2>4. CASE undone' = Carrying
    <3>1. ~undone' => flush.at # "write" /\ \A d \in calls : d.at # "create"
      BY <2>4 DEF Carrying
    <3>2. QED
      BY <2>1, <2>2, <3>1 DEF Carried
  <2>5. \/ row' = row /\ (~undone' => ~undone)
        \/ undone' = Carrying
    BY <1>5, <2>1 DEF StatusReadKey, StatusReadRow, StatusFill, StatusWrite, server, serverGhosts,
                      Misread
  <2>6. QED
    BY <2>3, <2>4, <2>5
<1>6. CASE ServeSave(c) \/ ServeList(c) \/ ServeMark(c) \/ ServeUnmark(c)
  <2>1. UNCHANGED <<row, flush, undone>>
    BY <1>6 DEF ServeSave, ServeList, ServeMark, ServeUnmark, server, serverGhosts
  <2>2. PICK at \in Ends : \E answer : Answered(c, at, 1, answer)
    BY <1>6 DEF ServeSave, ServeList, ServeMark, ServeUnmark, Ends
  <2>3. PICK answer : Becomes(c, at, 1, answer)
    BY <1>0, <2>2, AnsweredBecomes
  <2>4. \A d \in calls' : d \in calls \/ d.at # "create"
    BY <2>2, <2>3 DEF Becomes, Reply, Ends
  <2>5. QED
    BY <1>0, <2>1, <2>4, CarriedStays
<1>7. QED
  BY <1>2, <1>3, <1>4, <1>5, <1>6, Zenon DEF Serve

(* A step of an open's leaves the clicks alone; what it will tell is the   *)
(* stored status, if no click was left to be seen.                         *)
LEMMA ToldOpen ==
  ASSUME ButtonInv, NEW c \in calls, c.op = "open",
         UNCHANGED <<view, visit, completed, doubt>>,
         ~undone' => ~undone /\ row'.finished = row.finished,
         NEW at, NEW p, NEW answer, Becomes(c, at, p, answer),
         view = "loading" /\ Pending(c) /\ c.visit = visit /\ ~answer.doubt =>
           /\ ~undone' => answer.completed = row'.finished
           /\ \A d \in StatusCalls : ~Serving(d)
  PROVE  Told' /\ Telling'
<1>1. StatusCalls' = StatusCalls
  BY DEF StatusCalls, Becomes, Reply
<1>2. Mine' = Mine
  BY <1>1 DEF Mine
<1>3. Told'
  BY <1>1, <1>2 DEF ButtonInv, Told, Serving
<1>4. \A d \in calls' : d \in calls \/ Reply(c, d, at, p, answer)
  BY DEF Becomes
<1>5. Telling'
  BY <1>1, <1>2, <1>4 DEF ButtonInv, Telling, Pending, Serving, Reply
<1>6. QED
  BY <1>3, <1>5

(* A step of a click's: it is on its way, refused, or stored.              *)
LEMMA ToldStatus ==
  ASSUME ButtonInv, NEW c \in calls, c.op = "status", Serving(c),
         UNCHANGED <<view, visit, completed, doubt>>,
         NEW at, NEW p, NEW answer, Becomes(c, at, p, answer),
         \/ at = "answered" /\ row'.finished = c.arg
         \/ at # "answered" /\ row'.finished = row.finished /\ undone' = undone
  PROVE  Told' /\ Telling'
<1>1. c \in StatusCalls
  BY DEF StatusCalls
<1>2. \A d \in calls' : (d \in calls /\ d # c) \/ Reply(c, d, at, p, answer)
  BY DEF Becomes
<1>3. Telling'
  <2>1. ASSUME view = "loading" PROVE Mine' = {}
    <3>1. c.visit # visit
      BY <1>1, <2>1 DEF ButtonInv, Telling, Mine
    <3>2. QED
      BY <1>2, <2>1, <3>1 DEF ButtonInv, Telling, Mine, StatusCalls, Reply
  <2>2. ASSUME view = "loading", NEW d \in calls', Pending(d), d.visit = visit, d.at # "sent"
        PROVE  d.answer.doubt
    <3>1. d \in calls
      BY <1>2, <2>2 DEF Reply, Pending
    <3>2. QED
      BY <1>1, <2>2, <3>1 DEF ButtonInv, Telling
  <2>3. QED
    BY <2>1, <2>2 DEF Telling
<1>4. ASSUME view = "reading", ~doubt PROVE Told'
  <2>1. c \in Mine /\ c.visit = visit
    BY <1>1, <1>4 DEF ButtonInv, Told, Mine
  <2>2. \A d \in Mine' : Reply(c, d, at, p, answer)
    BY <1>2, <1>4, <2>1 DEF ButtonInv, Told, Mine, StatusCalls
  <2>3. \A d, e \in Mine' : d = e
    BY <2>2, SameReply
  <2>4. \A d \in StatusCalls' : Serving(d) => d.visit = visit
    BY <1>2, <1>4, <2>1 DEF ButtonInv, Told, StatusCalls, Reply
  <2>5. Mine' # {}
    <3>1. Awaited(c)
      BY <1>4, <2>1 DEF Awaited, Ours
    <3>2. PICK d \in calls' : Reply(c, d, at, p, answer)
      BY <3>1 DEF Becomes
    <3>3. d \in Mine'
      BY <2>1, <3>2 DEF Mine, StatusCalls, Reply
    <3>4. QED
      BY <3>3
  <2>6. completed = c.arg /\ c.at # "answered" /\ (~undone => row.finished # c.arg)
    BY <1>4, <2>1 DEF ButtonInv, Told, Serving
  <2>7. \A d \in Mine' : d.arg = c.arg /\ d.at = at
    BY <2>2 DEF Reply
  <2>8. QED
    BY <2>3, <2>4, <2>5, <2>6, <2>7 DEF Told, Serving
<1>5. QED
  BY <1>3, <1>4 DEF ButtonInv, Told

(* Serving a call keeps the button: a click is now stored, or the status   *)
(* is read.                                                                *)
LEMMA ServeButton ==
  ASSUME TypeAndOpens, ButtonInv, NEW c \in calls, Serve(c)
  PROVE  ButtonInv'
<1>0. TypeInv
  BY DEF TypeAndOpens
<1>1. Serving(c) /\ UNCHANGED <<view, visit, completed, doubt>>
  BY DEF Serve, tab, tabGhosts
<1>2. row.finished \in BOOLEAN /\ row.there \in BOOLEAN /\ (~row.there => ~row.finished)
  BY <1>0, RowParts DEF TypeInv, ServerOK
<1>3. Told' /\ Telling'
  <2>1. CASE OpenReadRow(c)
    <3>1. c.op = "open" /\ UNCHANGED row
      BY <1>0, <2>1, RowRead
    <3>2. PICK at, p : \E answer \in OpenAnswers :
            /\ Becomes(c, at, p, answer)
            /\ answer.doubt <=> \E d \in calls : d.op = "status" /\ Serving(d)
            /\ \/ answer.completed = row.finished /\ undone' = undone
               \/ /\ answer.completed = FALSE
                  /\ (~row.there /\ undone' = undone) \/ Misread(c)
      BY <1>0, <2>1, RowRead
    <3>3. PICK answer \in OpenAnswers :
            /\ Becomes(c, at, p, answer)
            /\ answer.doubt <=> \E d \in calls : d.op = "status" /\ Serving(d)
            /\ \/ answer.completed = row.finished /\ undone' = undone
               \/ /\ answer.completed = FALSE
                  /\ (~row.there /\ undone' = undone) \/ Misread(c)
      BY <3>2
    <3>4. ~undone' => ~undone /\ answer.completed = row.finished
      BY <1>2, <3>1, <3>3 DEF Misread, Finished
    <3>5. ~answer.doubt => \A d \in StatusCalls : ~Serving(d)
      BY <3>3 DEF StatusCalls
    <3>6. QED
      BY <1>1, <3>1, <3>3, <3>4, <3>5, ToldOpen
  <2>2. CASE OpenCreate(c) \/ OpenReadKey(c) \/ OpenFill(c)
    <3>1. c.op = "open" /\ c.at # "sent" /\ undone' = undone
      BY <1>0, <2>2, RestOfOpen
         DEF OpenCreate, OpenReadKey, OpenFill, server, serverGhosts
    <3>2. ~undone => row'.finished = row.finished
      <4>1. CASE OpenCreate(c)
        <5>1. Row(1, FALSE).finished = FALSE
          BY DEF Row
        <5>2. row' = Row(1, FALSE) \/ row' = row
          BY <4>1 DEF OpenCreate
        <5>3. ~undone => row.finished = FALSE
          BY <1>2, <4>1 DEF OpenCreate, ButtonInv, Carried
        <5>4. QED
          BY <5>1, <5>2, <5>3
      <4>2. CASE OpenReadKey(c) \/ OpenFill(c)
        BY <4>2 DEF OpenReadKey, OpenFill, server
      <4>3. QED
        BY <2>2, <4>1, <4>2
    <3>3. PICK at, p, answer :
            /\ Becomes(c, at, p, answer)
            /\ answer.completed = c.answer.completed /\ answer.doubt = c.answer.doubt
      <4>1. CASE \E at \in {"cache", "fill"} : Goes(c, at, c.page)
        <5>1. PICK at \in {"cache", "fill"} : Goes(c, at, c.page)
          BY <4>1
        <5>2. Becomes(c, at, c.page, c.answer)
          BY <1>0, <5>1, GoesBecomes DEF Stages, Ends
        <5>3. QED
          BY <5>2
      <4>2. CASE \E n : Opened(c, n)
        BY <1>0, <3>1, <4>2, OpenedBecomes
      <4>3. QED
        BY <2>2, <4>1, <4>2 DEF OpenCreate, OpenReadKey, OpenFill
    <3>4. view = "loading" /\ Pending(c) /\ c.visit = visit /\ ~c.answer.doubt =>
            /\ ~undone => c.answer.completed = row.finished
            /\ \A d \in StatusCalls : ~Serving(d)
      BY <3>1 DEF ButtonInv, Telling
    <3>5. QED
      BY <1>1, <3>1, <3>2, <3>3, <3>4, ToldOpen
  <2>3. CASE StatusReadKey(c) \/ StatusReadRow(c) \/ StatusFill(c)
    <3>1. c.op = "status"
      BY <1>0, <2>3, StatusSteps
    <3>2. row' = row /\ undone' = undone
      BY <1>0, <2>3, <3>1 DEF StatusReadKey, StatusReadRow, StatusFill, server, serverGhosts,
            Misread, TypeInv, Flags
    <3>3. PICK at \in {"row", "fill", "write"} : \E p : Goes(c, at, p)
      BY <2>3 DEF StatusReadKey, StatusReadRow, StatusFill
    <3>4. PICK p : Becomes(c, at, p, c.answer)
      BY <1>0, <3>3, GoesBecomes DEF Stages, Ends
    <3>5. QED
      BY <1>1, <3>1, <3>2, <3>3, <3>4, ToldStatus
  <2>4. CASE StatusWrite(c)
    <3>1. c.op = "status"
      BY <1>0, <2>4, StatusSteps
    <3>2. CASE row' = Row(c.page, c.arg) /\ Answered(c, "answered", 1, Nothing)
      <4>1. Becomes(c, "answered", 1, Nothing)
        BY <1>0, <3>2, AnsweredBecomes DEF Ends
      <4>2. row'.finished = c.arg
        BY <3>2, RowParts
      <4>3. QED
        BY <1>1, <3>1, <4>1, <4>2, ToldStatus
    <3>3. CASE UNCHANGED <<row, undone>> /\ Answered(c, "refused", 1, Nothing)
      <4>1. Becomes(c, "refused", 1, Nothing)
        BY <1>0, <3>3, AnsweredBecomes DEF Ends
      <4>2. QED
        BY <1>1, <3>1, <3>3, <4>1, ToldStatus
    <3>4. QED
      BY <2>4, <3>2, <3>3 DEF StatusWrite
  <2>5. CASE ServeSave(c) \/ ServeList(c) \/ ServeMark(c) \/ ServeUnmark(c)
    <3>1. UNCHANGED <<row, undone>> /\ c.op \notin {"open", "status"}
      BY <2>5 DEF ServeSave, ServeList, ServeMark, ServeUnmark, server, serverGhosts
    <3>2. PICK at, answer : Becomes(c, at, 1, answer)
      <4>1. PICK at \in Ends : \E answer : Answered(c, at, 1, answer)
        BY <2>5 DEF ServeSave, ServeList, ServeMark, ServeUnmark, Ends
      <4>2. QED
        BY <1>0, <4>1, AnsweredBecomes
    <3>3. StatusCalls' = StatusCalls /\ \A d \in calls' : d \in calls \/ ~Pending(d)
      BY <3>1, <3>2 DEF StatusCalls, Becomes, Reply, Pending
    <3>4. QED
      BY <1>1, <3>1, <3>3, ToldQuiet
  <2>6. QED
    BY <2>1, <2>2, <2>3, <2>4, <2>5, Zenon DEF Serve
<1>4. QED
  BY <1>3, ServeCarried DEF ButtonInv

(* The flusher carries the stored status, unless it could not read it.     *)
LEMMA BackgroundButton ==
  ASSUME TypeAndOpens, ButtonInv, Background
  PROVE  ButtonInv'
<1>1. UNCHANGED <<view, visit, calls, completed, doubt>>
  BY BackgroundType DEF TypeAndOpens, tab, tabGhosts
<1>2. /\ flush \in [at : {"done", "read", "write"}, page : Pages, finished : BOOLEAN]
      /\ flush.at = "read" => ~flush.finished
      /\ row.finished \in BOOLEAN
  BY RowParts DEF TypeAndOpens, TypeInv, ServerOK, FlushOK
<1>3. Carried' /\ (~undone' => ~undone /\ row'.finished = row.finished)
  <2>1. CASE FlushGet
    <3>1. UNCHANGED <<row, undone>> /\ flush'.at = "read"
      BY <2>1 DEF FlushGet, serverGhosts
    <3>2. QED
      BY <1>1, <3>1 DEF ButtonInv, Carried
  <2>2. CASE FlushReadRow
    <3>1. UNCHANGED row
      BY <2>2 DEF FlushReadRow
    <3>2. CASE flush' = [flush EXCEPT !.at = "write", !.finished = row.finished] /\ undone' = undone
      <4>1. flush'.finished = row.finished
        BY <1>2, <3>2
      <4>2. QED
        BY <1>1, <3>1, <3>2, <4>1 DEF ButtonInv, Carried
    <3>3. CASE flush' = [flush EXCEPT !.at = "write"] /\ undone' = (undone \/ Finished)
      <4>1. flush'.finished = flush.finished /\ flush.at = "read"
        BY <1>2, <2>2, <3>3 DEF FlushReadRow
      <4>2. ~undone' => ~undone /\ ~row.finished
        BY <3>3 DEF Finished
      <4>3. ~flush.finished
        BY <1>2, <4>1
      <4>4. ~undone' => flush'.finished = row.finished
        BY <1>2, <4>1, <4>2, <4>3
      <4>5. QED
        BY <1>1, <3>1, <4>2, <4>4 DEF ButtonInv, Carried
    <3>4. QED
      BY <2>2, <3>2, <3>3 DEF FlushReadRow
  <2>3. CASE FlushWrite
    <3>1. /\ undone' = undone /\ flush.at = "write" /\ flush' = Resting
          /\ row' = Row(flush.page, flush.finished) \/ row' = row
      BY <2>3 DEF FlushWrite, serverGhosts
    <3>2. ~undone => row'.finished = row.finished
      BY <3>1, RowParts DEF ButtonInv, Carried
    <3>3. flush'.at = "done"
      BY <3>1 DEF Resting
    <3>4. QED
      BY <1>1, <3>1, <3>2, <3>3 DEF ButtonInv, Carried
  <2>4. CASE DropKey
    <3>1. UNCHANGED <<row, flush, undone>>
      BY <2>4 DEF DropKey
    <3>2. QED
      BY <1>1, <3>1 DEF ButtonInv, Carried
  <2>5. QED
    BY <2>1, <2>2, <2>3, <2>4 DEF Background
<1>4. QED
  BY <1>1, <1>3, ToldQuiet DEF ButtonInv, StatusCalls

(* Hearing an answer keeps the button: a click is settled, or the book is  *)
(* opened.                                                                 *)
LEMMA DeliverButton ==
  ASSUME TypeAndOpens, ButtonInv, NEW c \in calls, Deliver(c)
  PROVE  ButtonInv'
<1>1. c.at = "answered" /\ visit' = visit /\ UNCHANGED <<row, flush, undone>>
  BY DEF Deliver, tab, server, serverGhosts
<1>2. \A d \in calls' : d \in calls \/ (d.op = "list" /\ d.at = "sent")
  BY Sent DEF Deliver, Reload, Send
<1>3. Carried'
  BY <1>1, <1>2, CarriedStays DEF ButtonInv
<1>4. CASE c.op = "status"
  <2>1. calls' = calls \ {c} /\ UNCHANGED <<view, completed, doubt>>
    BY <1>4 DEF Deliver, tab, tabGhosts
  <2>2. StatusCalls' = StatusCalls \ {c} /\ Mine' = Mine \ {c} /\ c \in StatusCalls
    BY <1>1, <1>4, <2>1 DEF StatusCalls, Mine
  <2>3. Telling'
    BY <1>1, <2>1, <2>2 DEF ButtonInv, Telling, Pending, Serving
  <2>4. ASSUME view = "reading", ~doubt PROVE Told'
    <3>1. \A d \in StatusCalls' : Serving(d) => d.visit = visit
      BY <2>2, <2>4 DEF ButtonInv, Told
    <3>2. CASE c \in Mine
      <4>1. Mine' = {} /\ completed = c.arg /\ (~undone => row.finished = c.arg)
        BY <1>1, <2>2, <2>4, <3>2 DEF ButtonInv, Told
      <4>2. QED
        BY <1>1, <2>1, <3>1, <4>1 DEF Told, Serving
    <3>3. CASE c \notin Mine
      <4>1. Mine' = Mine
        BY <2>2, <3>3
      <4>2. QED
        BY <1>1, <2>1, <2>4, <3>1, <4>1 DEF ButtonInv, Told, Serving
    <3>4. QED
      BY <3>2, <3>3
  <2>5. QED
    BY <1>3, <2>1, <2>3, <2>4 DEF ButtonInv, Told
<1>5. CASE Ours(c) /\ c.op = "open"
  <2>1. /\ view' = "reading" /\ completed' = c.answer.completed /\ doubt' = c.answer.doubt
        /\ Reload(c)
    BY <1>5 DEF Deliver
  <2>2. Pending(c) /\ c.visit = visit /\ view = "loading"
    BY <1>5 DEF Pending, Ours, TypeAndOpens, Opens, TypeInv, Ranges, Nobody
  <2>3. calls' = (calls \ {c}) \cup {Call("list", Nothing)} /\ Call("list", Nothing).op = "list"
    BY <2>1, Sent DEF Reload, Send
  <2>4. StatusCalls' = StatusCalls /\ Mine' = Mine
    BY <1>1, <1>5, <2>3 DEF StatusCalls, Mine
  <2>5. Told'
    BY <1>1, <2>1, <2>2, <2>4 DEF ButtonInv, Telling, Told, Serving
  <2>6. Telling'
    BY <2>1 DEF Telling
  <2>7. QED
    BY <1>3, <2>5, <2>6 DEF ButtonInv
<1>6. CASE c.op # "status" /\ ~(Ours(c) /\ c.op = "open")
  <2>1. UNCHANGED <<view, completed, doubt>>
    BY <1>6 DEF Deliver, tab, tabGhosts
  <2>2. \/ calls' = calls \ {c}
        \/ \E d : calls' = (calls \ {c}) \cup {d} /\ d.op = "list"
    BY Sent DEF Deliver, Reload, Send
  <2>3. StatusCalls' = StatusCalls
    BY <1>6, <2>2 DEF StatusCalls
  <2>4. QED
    BY <1>1, <1>2, <2>1, <2>3, ButtonQuiet DEF Pending
<1>7. QED
  BY <1>4, <1>5, <1>6

(* A failed call keeps the button: a click is taken back.                  *)
LEMMA FailButton ==
  ASSUME TypeAndOpens, ButtonInv, NEW c \in calls, Fail(c)
  PROVE  ButtonInv'
<1>0. TypeInv
  BY DEF TypeAndOpens
<1>1. CASE Pending(c)
  <2>1. PICK others \in Without(c) : Leave(others)
    BY <1>1 DEF Fail, OpenFails, Pending
  <2>2. Left(others)
    BY <1>0, <2>1, Leaves
  <2>3. /\ view' = "away" /\ UNCHANGED <<row, flush, undone>>
        /\ \A d \in calls' : d \in others \/ d.at = "sent"
    BY <2>1, Sent DEF Leave, Flush, Saving, Send, server, serverGhosts
  <2>4. Carried'
    BY <2>2, <2>3, LeftCarried DEF ButtonInv
  <2>5. QED
    BY <2>3, <2>4, ButtonGone DEF ButtonInv
<1>2. CASE ~Pending(c)
  <2>1. UNCHANGED <<row, flush, view, visit, undone>>
    BY <1>0, <1>2, FailElse
  <2>2. PICK others \in Without(c) : calls' = others
    BY <1>0, <1>2, FailElse
  <2>3. /\ Left(others) /\ calls \ {c} \subseteq others
        /\ \A d \in others : (d \in calls /\ d # c) \/ (Serving(c) /\ Orphan(d, c))
    BY <1>0, <2>2, Leaves
  <2>4. Carried'
    BY <2>1, <2>2, <2>3, LeftCarried DEF ButtonInv
  <2>5. \A d \in calls' : Pending(d) => d \in calls
    BY <2>2, <2>3, LeftPending
  <2>6. CASE c.op # "status"
    <3>1. StatusCalls' = StatusCalls
      BY <2>2, <2>3, <2>6 DEF StatusCalls, Orphan
    <3>2. UNCHANGED <<completed, doubt>>
      BY <1>0, <1>2, <2>6, FailElse
    <3>3. QED
      BY <2>1, <2>4, <2>5, <3>1, <3>2, ToldQuiet DEF ButtonInv
  <2>7. CASE c.op = "status"
    <3>1. /\ RollBack(c)
          /\ doubt' = (doubt \/ (Ours(c) /\ (c.at = "answered" \/ calls' # calls \ {c})))
      BY <1>0, <1>2, <2>7, FailElse
    <3>2. /\ c \in StatusCalls /\ c.arg \in BOOLEAN /\ row.finished \in BOOLEAN
          /\ visit \in Nat /\ (view # "away" => visit # Nobody)
      BY <1>0, <2>7, RowParts
         DEF StatusCalls, TypeInv, CallsOK, CallOK, ServerOK, Ranges, Nobody
    <3>3. view # "away" => Mine' = Mine \ {c}
      BY <2>1, <2>2, <2>3, <3>2 DEF Mine, StatusCalls, Orphan
    <3>4. ASSUME view = "loading" PROVE Telling'
      <4>1. Mine' = {}
        BY <3>3, <3>4 DEF ButtonInv, Telling
      <4>2. ASSUME NEW d \in StatusCalls', Serving(d)
            PROVE  \E b \in StatusCalls : Serving(b)
        BY <2>2, <2>3, <3>2, <4>2 DEF StatusCalls, Orphan, Serving
      <4>3. QED
        BY <2>1, <2>5, <4>1, <4>2 DEF ButtonInv, Telling, Serving
    <3>5. ASSUME view = "reading", ~doubt' PROVE Told'
      <4>1. ~doubt /\ (Ours(c) => c.at # "answered" /\ calls' = calls \ {c})
        BY <3>1, <3>5
      <4>2. Serving(c) => Ours(c)
        BY <3>2, <3>5, <4>1 DEF ButtonInv, Told, Ours
      <4>3. calls' = calls \ {c}
        BY <2>2, <2>3, <4>1, <4>2 DEF Without
      <4>4. \A d \in StatusCalls' : Serving(d) => d.visit = visit
        BY <3>5, <4>1, <4>3 DEF ButtonInv, Told, StatusCalls
      <4>5. CASE c \in Mine
        <5>1. Mine' = {} /\ c.at # "answered" /\ (~undone => row.finished # c.arg)
          BY <3>3, <3>5, <4>1, <4>5 DEF ButtonInv, Told, Mine, Ours
        <5>2. completed' = ~c.arg
          BY <3>1, <3>5, <4>5 DEF RollBack, Ours, Mine
        <5>3. ~undone => (~c.arg) = row.finished
          BY <3>2, <5>1, Opposites
        <5>4. QED
          BY <2>1, <4>4, <5>1, <5>2, <5>3 DEF Told, Serving
      <4>6. CASE c \notin Mine
        <5>1. Mine' = Mine /\ completed' = completed
          BY <3>1, <3>2, <3>3, <3>5, <4>6 DEF RollBack, Ours, Mine
        <5>2. QED
          BY <2>1, <3>5, <4>1, <4>4, <5>1 DEF ButtonInv, Told, Serving
      <4>7. QED
        BY <4>5, <4>6
    <3>6. QED
      BY <2>1, <2>4, <3>4, <3>5 DEF ButtonInv, Told, Telling
  <2>8. QED
    BY <2>6, <2>7
<1>3. QED
  BY <1>1, <1>2

(* ButtonInv is kept by every step.                                        *)
LEMMA StepButton == TypeAndOpens /\ ButtonInv /\ [Next]_vars => ButtonInv'
<1> SUFFICES ASSUME TypeAndOpens, ButtonInv, [Next]_vars PROVE ButtonInv'
  OBVIOUS
<1>1. CASE Open \/ Turn \/ TimerFires \/ Toggle \/ Mark \/ Back \/ Unload
  BY <1>1, DeedButton
<1>2. ASSUME NEW c \in calls, Serve(c) \/ Deliver(c) \/ Fail(c) PROVE ButtonInv'
  BY <1>2, ServeButton, DeliverButton, FailButton
<1>3. CASE Background
  BY <1>3, BackgroundButton
<1>4. CASE UNCHANGED vars
  BY <1>4, Stutters, ButtonQuiet DEF StatusCalls
<1>5. QED
  BY <1>1, <1>2, <1>3, <1>4 DEF Next

(* With no click under way the button tells the stored status, for any     *)
(* number of clicks, visits, flushes, refusals and calls out of order,     *)
(* with the exceptions ButtonTellsStatus names: clicks that overlap, one   *)
(* that failed and may have been carried out, a book opened before a click *)
(* had landed, and a status that a flush or an open wrote back.            *)
THEOREM ButtonTells == Spec => []ButtonTellsStatus
<1>1. Init => ButtonInv
  BY DEF Init, ButtonInv, Carried, Told, Telling, Resting
<1>2. ButtonInv => ButtonTellsStatus
  BY DEF ButtonInv, Told, Mine, StatusCalls, ButtonTellsStatus, Finished
<1>3. QED
  BY <1>1, <1>2, InitTypes, StepTypes, StepButton, PTL DEF Spec

-----------------------------------------------------------------------------
(* The bookmarks.                                                          *)

(* A change this page will hear of, and then ask for the list again.       *)
Heard(c) == c.op \in {"mark", "unmark"} /\ c.at = "answered" /\ c.visit = visit

(* Unless such a change is still to be heard of, the newest list is right, *)
(* on screen or on its way.                                                *)
Newest ==
  view = "reading" /\ ~unseen /\ (\A c \in calls : ~Heard(c)) =>
    /\ shownBy = lastList => listed = marks
    /\ \A c \in calls : c.op = "list" /\ c.n = lastList /\ c.at = "answered" =>
         c.answer = marks
MarksInv == Newest /\ shownBy \in 0..sent

(* Steps that change no bookmark, or one that goes unnoticed.              *)
LEMMA MarksQuiet ==
  ASSUME MarksInv, sent \in Nat, sent' \in {sent, sent + 1}, shownBy' = shownBy,
         view' = "reading" /\ ~unseen' =>
           /\ view = "reading" /\ ~unseen
           /\ UNCHANGED <<visit, marks, listed, lastList>>
           /\ \A c \in calls : Heard(c) => c \in calls'
           /\ \A c \in calls' : c \in calls \/ c.op # "list" \/ c.at # "answered"
  PROVE  MarksInv'
<1>1. (shownBy \in 0..sent)'
  BY DEF MarksInv
<1>2. Newest'
  BY DEF MarksInv, Newest, Heard
<1>3. QED
  BY <1>1, <1>2 DEF MarksInv

(* The list is asked for again: no earlier one is the newest any more.     *)
LEMMA MarksReload ==
  ASSUME TypeInv, MarksInv, NEW c, Reload(c), shownBy' = shownBy
  PROVE  MarksInv'
<1>1. /\ sent \in Nat /\ sent' = sent + 1 /\ lastList' = sent + 1
      /\ calls' = (calls \ {c}) \cup {Call("list", Nothing)}
  BY DEF Reload, Send, TypeInv, Ranges
<1>2. Call("list", Nothing).at = "sent"
  BY Sent
<1>3. \A d \in calls : d.n # sent + 1
  BY <1>1 DEF TypeInv, CallsOK, CallOK
<1>4. shownBy' \in 0..sent' /\ shownBy' # lastList'
  BY <1>1 DEF MarksInv
<1>5. QED
  BY <1>1, <1>2, <1>3, <1>4 DEF MarksInv, Newest

(* A page that is left shows no bookmarks. *)
LEMMA MarksGone ==
  ASSUME MarksInv, sent \in Nat, sent' \in {sent, sent + 1}, view' # "reading", shownBy' = shownBy
  PROVE  MarksInv'
BY MarksQuiet

LEMMA LeaveMarks ==
  ASSUME TypeInv, MarksInv, NEW others, Leave(others)
  PROVE  MarksInv'
<1>1. view' = "away" /\ shownBy' = shownBy /\ sent' \in {sent, sent + 1}
  BY DEF Leave, Flush, Saving, Send
<1>2. QED
  BY <1>1, MarksGone DEF TypeInv, Ranges

(* What the reader does, and the timer, changes no bookmark by itself.     *)
LEMMA DeedMarks ==
  ASSUME TypeInv, MarksInv, Open \/ Turn \/ TimerFires \/ Toggle \/ Mark \/ Back \/ Unload
  PROVE  MarksInv'
<1>0. sent \in Nat
  BY DEF TypeInv, Ranges
<1>1. CASE Open
  BY <1>0, <1>1, MarksGone DEF Open, ghosts, tabGhosts
<1>2. CASE Turn
  BY <1>0, <1>2, MarksQuiet DEF Turn, TurnTo, server
<1>3. ASSUME NEW op \in Ops \ {"list"}, NEW arg, Send(calls, op, arg),
             UNCHANGED <<view, visit, marks, listed, lastList, shownBy, unseen>>
      PROVE  MarksInv'
  <2>1. calls' = calls \cup {Call(op, arg)} /\ sent' = sent + 1 /\ Call(op, arg).op # "list"
    BY <1>3, Sent DEF Send
  <2>2. QED
    BY <1>0, <1>3, <2>1, MarksQuiet
<1>4. CASE TimerFires
  BY <1>3, <1>4 DEF TimerFires, Saving, Ops, server
<1>5. CASE Toggle
  BY <1>3, <1>5 DEF Toggle, Ops, server
<1>6. CASE Mark
  <2>1. UNCHANGED <<view, visit, marks, listed, lastList, shownBy, unseen>>
    BY <1>6 DEF Mark, tab, server, ghosts, tabGhosts
  <2>2. \/ Send(calls, "mark", page)
        \/ \E m \in listed : Send(calls, "unmark", m)
    BY <1>6 DEF Mark
  <2>3. QED
    BY <1>3, <2>1, <2>2 DEF Ops
<1>7. CASE Back
  BY <1>7, LeaveMarks DEF Back
<1>8. CASE Unload
  <2>1. sent' \in {sent, sent + 1}
    BY <1>8, Unloaded
  <2>2. QED
    BY <1>0, <1>8, <2>1, MarksGone DEF Unload
<1>9. QED
  BY <1>1, <1>2, <1>4, <1>5, <1>6, <1>7, <1>8

(* Serving a call: a change is one to be heard of, or goes unnoticed; a    *)
(* list tells the bookmarks of its moment.                                 *)
LEMMA ServeMarks ==
  ASSUME TypeInv, MarksInv, NEW c \in calls, Serve(c)
  PROVE  MarksInv'
<1>1. Serving(c) /\ UNCHANGED <<view, visit, listed, sent, lastList, shownBy>>
  BY DEF Serve, tab, tabGhosts
<1>2. sent \in Nat /\ IsCall(c)
  BY DEF TypeInv, Ranges, CallsOK, CallOK
<1>3. ~Heard(c)
  BY <1>1 DEF Heard, Serving
<1>4. CASE ServeList(c)
  <2>1. c.op = "list" /\ Answered(c, "answered", 1, marks) /\ marks' = marks /\ unseen' = unseen
    BY <1>4, Zenon DEF ServeList, server
  <2>2. Becomes(c, "answered", 1, marks)
    BY <2>1, AnsweredBecomes DEF Ends
  <2>3. /\ calls \ {c} \subseteq calls'
        /\ \A d \in calls' : d \in calls \/ Reply(c, d, "answered", 1, marks)
    BY <2>2 DEF Becomes
  <2>4. QED
    BY <1>1, <1>3, <2>1, <2>3 DEF MarksInv, Newest, Heard, Reply
<1>5. CASE ~(ServeList(c) \/ ServeMark(c) \/ ServeUnmark(c))
  <2>1. marks' = marks /\ unseen' = unseen
    BY <1>5 DEF Serve, OpenReadRow, OpenCreate, OpenReadKey, OpenFill, ServeSave, StatusReadKey,
                StatusReadRow, StatusFill, StatusWrite, server
  <2>2. c.op # "list"
    <3>1. CASE OpenReadRow(c)
      BY <3>1 DEF OpenReadRow
    <3>2. CASE OpenCreate(c) \/ OpenReadKey(c) \/ OpenFill(c)
      <4>1. c.op = "open"
        BY <3>2, RestOfOpen
      <4>2. QED
        BY <4>1
    <3>3. CASE ServeSave(c)
      BY <3>3 DEF ServeSave
    <3>4. CASE StatusReadKey(c) \/ StatusReadRow(c) \/ StatusFill(c) \/ StatusWrite(c)
      <4>1. c.op = "status"
        BY <3>4, StatusSteps
      <4>2. QED
        BY <4>1
    <3>5. QED
      BY <1>5, <3>1, <3>2, <3>3, <3>4, Zenon DEF Serve
  <2>3. /\ calls \ {c} \subseteq calls'
        /\ \A d \in calls' : d \in calls \/ d.op = c.op
    <3>1. PICK at, p, answer : Becomes(c, at, p, answer)
      BY Served
    <3>2. QED
      BY <3>1 DEF Becomes, Reply
  <2>4. QED
    BY <1>1, <1>2, <1>3, <2>1, <2>2, <2>3, MarksQuiet
<1>6. CASE ServeMark(c) \/ ServeUnmark(c)
  <2>1. PICK at \in Ends :
          /\ Answered(c, at, 1, Nothing)
          /\ c.op \in {"mark", "unmark"}
          /\ unseen => unseen'
          /\ ~unseen' => IF at = "answered" THEN Ours(c) ELSE marks' = marks
    <3>1. "answered" \in Ends /\ "refused" \in Ends
      BY DEF Ends
    <3>2. CASE ServeMark(c) /\ \E m \in marks : m[1] = c.arg
      <4>1. /\ Answered(c, "refused", 1, Nothing) /\ c.op \in {"mark", "unmark"}
            /\ marks' = marks /\ unseen' = unseen
        BY <3>2 DEF ServeMark
      <4>2. QED
        BY <3>1, <4>1
    <3>3. CASE ServeMark(c) /\ ~\E m \in marks : m[1] = c.arg
      <4>1. /\ Answered(c, "answered", 1, Nothing) /\ c.op \in {"mark", "unmark"}
            /\ unseen' = (unseen \/ ~Ours(c))
        BY <3>3 DEF ServeMark
      <4>2. QED
        BY <3>1, <4>1
    <3>4. CASE ServeUnmark(c)
      <4>1. /\ Answered(c, IF c.arg \in marks THEN "answered" ELSE "refused", 1, Nothing)
            /\ c.op \in {"mark", "unmark"}
            /\ marks' = marks \ {c.arg} /\ unseen' = (unseen \/ ~Ours(c))
        BY <3>4 DEF ServeUnmark
      <4>2. QED
        BY <3>1, <4>1
    <3>5. QED
      BY <1>6, <3>2, <3>3, <3>4
  <2>2. Becomes(c, at, 1, Nothing)
    BY <2>1, AnsweredBecomes
  <2>3. /\ calls \ {c} \subseteq calls'
        /\ \A d \in calls' : d \in calls \/ Reply(c, d, at, 1, Nothing)
    BY <2>2 DEF Becomes
  <2>4. CASE unseen'
    BY <1>1, <1>2, <2>4, MarksQuiet
  <2>5. CASE ~unseen' /\ at # "answered"
    BY <1>1, <1>2, <1>3, <2>1, <2>3, <2>5, MarksQuiet DEF Reply
  <2>6. CASE ~unseen' /\ at = "answered"
    <3>1. Awaited(c)
      BY <2>1, <2>6 DEF Awaited
    <3>2. PICK d \in calls' : Reply(c, d, at, 1, Nothing)
      BY <2>2, <3>1 DEF Becomes
    <3>3. Heard(d)'
      BY <1>1, <2>1, <2>6, <3>2 DEF Heard, Reply, Ours
    <3>4. QED
      BY <1>1, <3>3 DEF MarksInv, Newest
  <2>7. QED
    BY <2>4, <2>5, <2>6
<1>7. QED
  BY <1>4, <1>5, <1>6

(* The flusher touches no bookmark. *)
LEMMA BackgroundMarks ==
  ASSUME TypeInv, MarksInv, Background
  PROVE  MarksInv'
<1>1. UNCHANGED <<view, visit, listed, calls, sent, lastList, shownBy, marks, unseen>>
  BY BackgroundType DEF tab, tabGhosts
<1>2. QED
  BY <1>1, MarksQuiet DEF TypeInv, Ranges

(* Hearing of a change asks for the list again; a list heard is shown.     *)
LEMMA DeliverMarks ==
  ASSUME TypeInv, MarksInv, NEW c \in calls, Deliver(c)
  PROVE  MarksInv'
<1>1. c.at = "answered" /\ UNCHANGED <<visit, marks>> /\ sent \in Nat
  BY DEF Deliver, tab, server, TypeInv, Ranges
<1>2. CASE ~Ours(c) \/ c.op = "status"
  <2>1. calls' = calls \ {c}
        /\ UNCHANGED <<view, listed, sent, lastList, shownBy, unseen>>
    BY <1>2 DEF Deliver, tab
  <2>2. view = "reading" => ~Heard(c)
    BY <1>2 DEF Heard, Ours
  <2>3. QED
    BY <1>1, <2>1, <2>2, MarksQuiet
<1>3. CASE Ours(c) /\ c.op = "list"
  <2>1. /\ calls' = calls \ {c} /\ listed' = c.answer /\ shownBy' = c.n
        /\ UNCHANGED <<view, sent, lastList, unseen>>
    BY <1>3 DEF Deliver
  <2>2. c.n \in 0..sent
    BY <1>1 DEF TypeInv, CallsOK, CallOK
  <2>3. \A d \in calls : Heard(d) => d \in calls'
    BY <1>3, <2>1 DEF Heard
  <2>4. QED
    BY <1>1, <1>3, <2>1, <2>2, <2>3 DEF MarksInv, Newest, Heard
<1>4. CASE Ours(c) /\ c.op \notin {"status", "list"}
  <2>1. Reload(c) /\ shownBy' = shownBy
    BY <1>4 DEF Deliver
  <2>2. QED
    BY <2>1, MarksReload
<1>5. QED
  BY <1>2, <1>3, <1>4

(* A failed call: a change whose answer is lost goes unnoticed.            *)
LEMMA FailMarks ==
  ASSUME TypeInv, MarksInv, NEW c \in calls, Fail(c)
  PROVE  MarksInv'
<1>1. CASE Pending(c)
  <2>1. PICK others \in Without(c) : Leave(others)
    BY <1>1 DEF Fail, OpenFails, Pending
  <2>2. QED
    BY <2>1, LeaveMarks
<1>2. CASE ~Pending(c)
  <2>1. /\ unseen' = (unseen \/ (c.op \in {"mark", "unmark"} /\ c.at = "answered"))
        /\ UNCHANGED <<view, visit, marks, listed, sent, lastList, shownBy>>
    BY <1>2, FailElse
  <2>2. PICK others \in Without(c) : calls' = others
    BY <1>2, FailElse
  <2>3. /\ calls \ {c} \subseteq calls'
        /\ \A d \in calls' : d \in calls \/ (Serving(c) /\ Orphan(d, c))
    BY <2>2, Leaves
  <2>4. \A d \in calls' : d \in calls \/ d.at # "answered"
    BY <2>3 DEF Orphan, Serving
  <2>5. Heard(c) => unseen'
    BY <2>1 DEF Heard
  <2>6. sent \in Nat
    BY DEF TypeInv, Ranges
  <2>7. QED
    BY <2>1, <2>3, <2>4, <2>5, <2>6, MarksQuiet
<1>3. QED
  BY <1>1, <1>2

(* MarksInv is kept by every step. *)
LEMMA StepMarks == TypeAndOpens /\ MarksInv /\ [Next]_vars => MarksInv'
<1> SUFFICES ASSUME TypeInv, MarksInv, [Next]_vars PROVE MarksInv'
  BY DEF TypeAndOpens
<1>1. CASE Open \/ Turn \/ TimerFires \/ Toggle \/ Mark \/ Back \/ Unload
  BY <1>1, DeedMarks
<1>2. ASSUME NEW c \in calls, Serve(c) \/ Deliver(c) \/ Fail(c) PROVE MarksInv'
  BY <1>2, ServeMarks, DeliverMarks, FailMarks
<1>3. CASE Background
  BY <1>3, BackgroundMarks
<1>4. CASE UNCHANGED vars
  BY <1>4, Stutters, MarksQuiet DEF TypeInv, Ranges
<1>5. QED
  BY <1>1, <1>2, <1>3, <1>4 DEF Next

(* With no bookmark call under way the button knows the stored bookmarks,  *)
(* for any number of visits, clicks, refusals and lists out of order: see  *)
(* BookmarksKnown for the exceptions.                                      *)
THEOREM BookmarksAreKnown == Spec => []BookmarksKnown
<1>1. Init => MarksInv
  BY DEF Init, MarksInv, Newest
<1>2. MarksInv => BookmarksKnown
  BY DEF MarksInv, Newest, Heard, BookmarksKnown
<1>3. QED
  BY <1>1, <1>2, InitTypes, StepTypes, StepMarks, PTL DEF Spec

-----------------------------------------------------------------------------
(* Rest.                                                                   *)

(* What a page that loads is waiting for: the open of its own visit.       *)
Awaiting == view = "loading" => \E c \in calls : Pending(c) /\ Ours(c)

(* Steps that keep the calls, or lose none that is an open.                *)
LEMMA AwaitingKept ==
  ASSUME Awaiting, UNCHANGED <<view, visit>>,
         \A c \in calls : Pending(c) /\ Ours(c) => c \in calls'
  PROVE  Awaiting'
BY DEF Awaiting, Pending, Ours

LEMMA DeedAwaiting ==
  ASSUME TypeInv, Awaiting, Open \/ Turn \/ TimerFires \/ Toggle \/ Mark \/ Back \/ Unload
  PROVE  Awaiting'
<1>1. CASE Open
  <2>1. PICK new : new = [Call("open", Nothing) EXCEPT !.visit = visit + 1]
    OBVIOUS
  <2>2. calls' = calls \cup {new} /\ visit' = visit + 1 /\ view' = "loading"
    BY <1>1, <2>1 DEF Open
  <2>3. new.visit = visit + 1 /\ new.op = "open"
    BY <2>1, Sent, Orphaned
  <2>4. visit \in Nat
    BY DEF TypeInv, Ranges
  <2>5. Pending(new) /\ Ours(new)'
    BY <2>2, <2>3, <2>4 DEF Pending, Ours, Nobody
  <2>6. QED
    BY <2>2, <2>5 DEF Awaiting
<1>2. CASE Turn \/ Toggle
  <2>1. view' = "reading"
    BY <1>2 DEF Turn, Toggle
  <2>2. QED
    BY <2>1 DEF Awaiting
<1>3. CASE TimerFires \/ Mark
  <2>1. calls \subseteq calls' /\ UNCHANGED <<view, visit>>
    BY <1>3 DEF TimerFires, Saving, Mark, Send, tab
  <2>2. QED
    BY <2>1, AwaitingKept
<1>4. CASE Back \/ Unload
  <2>1. view' = "away"
    BY <1>4 DEF Back, Leave, Unload
  <2>2. QED
    BY <2>1 DEF Awaiting
<1>5. QED
  BY <1>1, <1>2, <1>3, <1>4

(* The open of the page's own visit is answered, not forgotten.            *)
LEMMA ServeAwaiting ==
  ASSUME TypeInv, Awaiting, NEW c \in calls, Serve(c)
  PROVE  Awaiting'
<1>1. PICK at, p, answer : Becomes(c, at, p, answer)
  BY Served
<1>2. UNCHANGED <<view, visit>>
  BY DEF Serve, tab
<1> SUFFICES ASSUME view = "loading" PROVE Awaiting'
  BY <1>2 DEF Awaiting
<1>3. PICK d \in calls : Pending(d) /\ Ours(d)
  BY DEF Awaiting
<1>4. CASE d = c
  <2>1. Awaited(c)
    BY <1>3, <1>4 DEF Awaited, Pending
  <2>2. PICK e \in calls' : Reply(c, e, at, p, answer)
    BY <1>1, <2>1 DEF Becomes
  <2>3. Pending(e) /\ Ours(e)'
    BY <1>2, <1>3, <1>4, <2>2 DEF Pending, Ours, Reply
  <2>4. QED
    BY <2>3 DEF Awaiting
<1>5. CASE d # c
  BY <1>1, <1>2, <1>3, <1>5 DEF Awaiting, Ours, Becomes
<1>6. QED
  BY <1>4, <1>5

(* Hearing it opens the book. *)
LEMMA DeliverAwaiting ==
  ASSUME TypeInv, Awaiting, NEW c \in calls, Deliver(c)
  PROVE  Awaiting'
<1>1. calls \ {c} \subseteq calls' /\ visit' = visit
  BY DEF Deliver, Reload, Send, tab
<1>2. CASE view' = "reading"
  BY <1>2 DEF Awaiting
<1>3. CASE view' # "reading"
  <2>1. view' = view
    BY <1>3 DEF Deliver, tab
  <2>2. ~(Pending(c) /\ Ours(c))
    <3>1. ~Ours(c) \/ c.op # "open"
      BY <1>3 DEF Deliver
    <3>2. QED
      BY <3>1 DEF Pending
  <2>3. QED
    BY <1>1, <2>1, <2>2, AwaitingKept
<1>4. QED
  BY <1>2, <1>3

(* Its failure leaves the page. *)
LEMMA FailAwaiting ==
  ASSUME TypeInv, Awaiting, NEW c \in calls, Fail(c)
  PROVE  Awaiting'
<1>1. CASE Pending(c)
  <2>1. view' = "away"
    BY <1>1 DEF Fail, Pending, OpenFails, Leave
  <2>2. QED
    BY <2>1 DEF Awaiting
<1>2. CASE ~Pending(c)
  <2>1. UNCHANGED <<view, visit>> /\ \E others \in Without(c) : calls' = others
    BY <1>2, FailElse
  <2>2. calls \ {c} \subseteq calls'
    BY <2>1, Leaves
  <2>3. QED
    BY <1>2, <2>1, <2>2, AwaitingKept
<1>3. QED
  BY <1>1, <1>2

LEMMA StepAwaiting == TypeAndOpens /\ Awaiting /\ [Next]_vars => Awaiting'
<1> SUFFICES ASSUME TypeAndOpens, Awaiting, [Next]_vars PROVE Awaiting'
  OBVIOUS
<1> USE DEF TypeAndOpens
<1>1. CASE Open \/ Turn \/ TimerFires \/ Toggle \/ Mark \/ Back \/ Unload
  BY <1>1, DeedAwaiting
<1>2. ASSUME NEW c \in calls, Serve(c) PROVE Awaiting'
  BY <1>2, ServeAwaiting
<1>3. ASSUME NEW c \in calls, Deliver(c) PROVE Awaiting'
  BY <1>3, DeliverAwaiting
<1>4. ASSUME NEW c \in calls, Fail(c) PROVE Awaiting'
  BY <1>4, FailAwaiting
<1>5. CASE Background \/ UNCHANGED vars
  <2>1. UNCHANGED <<view, visit, calls>>
    BY <1>5, BackgroundType, Stutters DEF tab
  <2>2. QED
    BY <2>1, AwaitingKept
<1>6. QED
  BY <1>1, <1>2, <1>3, <1>4, <1>5 DEF Next

(* No page loads without an open of its own visit under way, whose answer  *)
(* shows the book and whose failure leaves the page; opens of earlier      *)
(* visits, unloads and lost calls do not take it away.  This is what       *)
(* ComesToRest rests on.                                                   *)
THEOREM NeverStuck == Spec => []Awaiting
<1>1. Init => Awaiting
  BY DEF Init, Awaiting
<1>2. QED
  BY <1>1, InitTypes, StepTypes, StepAwaiting, PTL DEF Spec

=============================================================================
