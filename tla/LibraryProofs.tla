---------------------------- MODULE LibraryProofs ----------------------------
(* Theorems about Library, for any users, books and number of requests.    *)
EXTENDS Library, TLAPS

-----------------------------------------------------------------------------
(* Types. *)

(* What a request past its first call holds. *)
AskOK(r) ==
  /\ r.at # "done" => r.book \in Books /\ r.actor \in Users
  /\ r.at \notin {"done", "read"} => r.book \in named
  /\ r.at \in {"putFile", "insertRow"} => r.op = "Upload"
  /\ r.at = "read" => r.op \in {"Update", "Delete"}
  /\ r.at = "updateRow" => r.op = "Update" /\ r.seen \in Privacy
  /\ r.at \in {"readAgain", "deleteRow", "removeFile"} => r.op = "Delete"

TypeInv == TypeOK /\ \A s \in Slots : AskOK(request[s])

(* No row looks like the missing one. *)
LEMMA NoBookIsNoRow == NoBook \notin Rows
BY DEF NoBook, Rows, Privacy

(* A slot that has replied is idle, and asks nothing. *)
LEMMA IdleOK == Idle \in Asks /\ AskOK(Idle) /\ Idle.at = "done"
BY DEF Idle, Asks, AskOK, Privacy, Null, Omitted

(* The requests that are made are in order. *)
LEMMA AskedOK ==
  ASSUME NEW actor \in Users, NEW r \in Asked(actor)
  PROVE  /\ r \in Asks /\ r.at \in {"putFile", "read"} /\ r.book \in Books /\ r.actor = actor
         /\ r.at = "putFile" => r.op = "Upload" /\ r.book \notin named
         /\ r.at = "read" => r.op \in {"Update", "Delete"}
<1>1. PICK op \in {"Upload", "Update", "Delete"}, first \in {"putFile", "read"}, b \in Books,
           p \in Privacy \cup {Omitted} :
        /\ r = Ask(op, first, actor, b, p)
        /\ first = "putFile" => op = "Upload" /\ b \notin named
        /\ first = "read" => op # "Upload"
  BY DEF Asked
<1>2. r = [op |-> op, at |-> first, actor |-> actor, book |-> b, privacy |-> p, seen |-> Omitted]
  BY <1>1 DEF Ask, Idle
<1>3. QED
  BY <1>1, <1>2 DEF Asks

(* Replying leaves the other slots alone. *)
LEMMA ReplyType ==
  ASSUME TypeInv, NEW s \in Slots, Reply(s), named' = named
  PROVE  request' \in [Slots -> Asks] /\ \A t \in Slots : AskOK(request[t])'
BY IdleOK DEF TypeInv, TypeOK, Reply, AskOK

(* Going on to the next call of the same operation does, too. *)
LEMMA GotoType ==
  ASSUME TypeInv, NEW s \in Slots, NEW label, Goto(s, label), named' = named,
         \/ At(s, "putFile") /\ label = "insertRow"
         \/ At(s, "readAgain") /\ label = "deleteRow"
         \/ At(s, "deleteRow") /\ label = "removeFile"
  PROVE  request' \in [Slots -> Asks] /\ \A t \in Slots : AskOK(request[t])'
BY DEF TypeInv, TypeOK, Goto, At, AskOK, Asks

(* The table, the bucket and the names, without the requests. *)
StoreOK ==
  /\ accounts \subseteq Users
  /\ row \in [Books -> Rows \cup {NoBook}]
  /\ \A b \in Books : row[b].uploader \in accounts \cup {Null}
  /\ named \subseteq Books /\ files \subseteq named /\ InTable \subseteq named
  /\ requests \in Nat
  /\ lost \subseteq named

(* Types are kept by a handler's call ... *)
LEMMA HandlerType ==
  ASSUME TypeInv, NEW s \in Slots, Handler(s)
  PROVE  TypeInv'
<1>0. /\ named' = named /\ accounts' = accounts /\ requests' = requests /\ StoreOK
      /\ AskOK(request[s]) /\ request[s] \in Asks
  BY DEF TypeInv, TypeOK, StoreOK, Handler, PutFile, InsertRow, Read, UpdateRow, ReadAgain,
         DeleteRow, RemoveFile, store
<1>1. CASE PutFile(s)
  <2>1. request[s].book \in named
    BY <1>0, <1>1 DEF PutFile, At, AskOK
  <2>2. StoreOK'
    BY <1>0, <1>1, <2>1 DEF PutFile, StoreOK, InTable
  <2>3. request' \in [Slots -> Asks] /\ \A t \in Slots : AskOK(request[t])'
    BY <1>0, <1>1, ReplyType, GotoType DEF PutFile
  <2>4. QED
    BY <2>2, <2>3 DEF TypeInv, TypeOK, StoreOK
<1>2. CASE InsertRow(s)
  <2>1. request[s].book \in named /\ request[s].book \in Books
    BY <1>0, <1>2 DEF InsertRow, At, AskOK
  <2> DEFINE new == [uploader |-> request[s].actor,
                     privacy |-> IF request[s].privacy = Omitted THEN "private"
                                 ELSE request[s].privacy]
  <2>2. ASSUME request[s].actor \in accounts PROVE StoreOK'
    <3>1. new \in Rows /\ new.uploader \in accounts
      BY <1>0, <2>2 DEF Rows, Asks, Privacy, StoreOK
    <3>2. row' = [row EXCEPT ![request[s].book] = new] /\ lost' = lost /\ files' = files
      BY <1>2, <2>2 DEF InsertRow
    <3> HIDE DEF new
    <3>3. QED
      BY <1>0, <2>1, <3>1, <3>2 DEF StoreOK, InTable
  <2>3. ASSUME request[s].actor \notin accounts PROVE StoreOK'
    BY <1>0, <1>2, <2>1, <2>3 DEF InsertRow, StoreOK, InTable
  <2>4. request' \in [Slots -> Asks] /\ \A t \in Slots : AskOK(request[t])'
    BY <1>0, <1>2, ReplyType DEF InsertRow
  <2>5. QED
    BY <2>2, <2>3, <2>4 DEF TypeInv, TypeOK, StoreOK
<1>3. CASE Read(s)
  <2>1. StoreOK'
    BY <1>0, <1>3 DEF Read, StoreOK, InTable, store
  <2>2. request' \in [Slots -> Asks] /\ \A t \in Slots : AskOK(request[t])'
    <3>1. CASE Reply(s)
      BY <1>0, <3>1, ReplyType
    <3>2. CASE ~Reply(s)
      <4>1. /\ request' = [request EXCEPT ![s].seen = row[request[s].book].privacy,
                 ![s].at = IF request[s].op = "Update" THEN "updateRow" ELSE "readAgain"]
            /\ row[request[s].book] # NoBook
        BY <1>3, <3>2 DEF Read, Readable
      <4>2. request[s].at = "read" /\ request[s].book \in Books /\ request[s].actor \in Users
            /\ request[s].op \in {"Update", "Delete"}
        BY <1>0, <1>3 DEF Read, At, AskOK
      <4>3. row[request[s].book].privacy \in Privacy /\ request[s].book \in named
        BY <1>0, <4>1, <4>2 DEF StoreOK, Rows, InTable
      <4>4. QED
        BY <1>0, <4>1, <4>2, <4>3 DEF TypeInv, TypeOK, AskOK, Asks
    <3>3. QED
      BY <3>1, <3>2
  <2>3. QED
    BY <2>1, <2>2 DEF TypeInv, TypeOK, StoreOK
<1>4. CASE UpdateRow(s)
  <2>1. request[s].book \in Books /\ request[s].seen \in Privacy
    BY <1>0, <1>4 DEF UpdateRow, At, AskOK
  <2> DEFINE p == IF request[s].privacy = Omitted THEN request[s].seen ELSE request[s].privacy
  <2>2. p \in Privacy
    BY <1>0, <2>1 DEF Asks
  <2>3. row' = IF row[request[s].book] = NoBook THEN row
               ELSE [row EXCEPT ![request[s].book].privacy = p]
    BY <1>4 DEF UpdateRow
  <2>4. lost' = lost /\ files' = files
    BY <1>4 DEF UpdateRow
  <2> HIDE DEF p
  <2>5. row' \in [Books -> Rows \cup {NoBook}] /\ InTable' = InTable
        /\ \A b \in Books : row'[b].uploader = row[b].uploader
    BY <1>0, <2>1, <2>2, <2>3, NoBookIsNoRow DEF StoreOK, Rows, InTable
  <2>6. StoreOK'
    BY <1>0, <2>4, <2>5 DEF StoreOK
  <2>7. request' \in [Slots -> Asks] /\ \A t \in Slots : AskOK(request[t])'
    BY <1>0, <1>4, ReplyType DEF UpdateRow
  <2>8. QED
    BY <2>6, <2>7 DEF TypeInv, TypeOK, StoreOK
<1>5. CASE ReadAgain(s)
  <2>1. StoreOK'
    BY <1>0, <1>5 DEF ReadAgain, StoreOK, InTable, store
  <2>2. request' \in [Slots -> Asks] /\ \A t \in Slots : AskOK(request[t])'
    BY <1>0, <1>5, ReplyType, GotoType DEF ReadAgain
  <2>3. QED
    BY <2>1, <2>2 DEF TypeInv, TypeOK, StoreOK
<1>6. CASE DeleteRow(s)
  <2>1. NoBook.uploader = Null
    BY DEF NoBook
  <2>2. StoreOK'
    BY <1>0, <1>6, <2>1 DEF DeleteRow, StoreOK, InTable
  <2>3. request' \in [Slots -> Asks] /\ \A t \in Slots : AskOK(request[t])'
    BY <1>0, <1>6, GotoType DEF DeleteRow
  <2>4. QED
    BY <2>2, <2>3 DEF TypeInv, TypeOK, StoreOK
<1>7. CASE RemoveFile(s)
  <2>1. StoreOK'
    BY <1>0, <1>7 DEF RemoveFile, StoreOK, InTable
  <2>2. request' \in [Slots -> Asks] /\ \A t \in Slots : AskOK(request[t])'
    BY <1>0, <1>7, ReplyType DEF RemoveFile
  <2>3. QED
    BY <2>1, <2>2 DEF TypeInv, TypeOK, StoreOK
<1>8. QED
  BY <1>1, <1>2, <1>3, <1>4, <1>5, <1>6, <1>7 DEF Handler

(* What a broken request leaves has a name. *)
LEMMA LeavesNamed ==
  ASSUME TypeInv, NEW s \in Slots
  PROVE  Leaves(s) \subseteq named
<1>1. AskOK(request[s])
  BY DEF TypeInv
<1>2. QED
  BY <1>1 DEF Leaves, AskOK

(* ... and by everything else. *)
LEMMA OtherType ==
  ASSUME TypeInv, (\E s \in Slots : Request(s) \/ Abandon(s)) \/ Restart \/ DeleteAccount
  PROVE  TypeInv'
<1>0. StoreOK
  BY DEF TypeInv, TypeOK, StoreOK
<1>1. ASSUME NEW s \in Slots, Request(s) PROVE TypeInv'
  <2>0. PICK actor \in Users : \E r \in Asked(actor) :
          /\ request' = [request EXCEPT ![s] = r]
          /\ named' = IF r.op = "Upload" THEN named \cup {r.book} ELSE named
    BY <1>1 DEF Request
  <2>1. PICK r \in Asked(actor) :
          /\ request' = [request EXCEPT ![s] = r]
          /\ named' = IF r.op = "Upload" THEN named \cup {r.book} ELSE named
    BY <2>0
  <2>2. /\ r \in Asks /\ r.at \in {"putFile", "read"} /\ r.book \in Books /\ r.actor = actor
        /\ r.at = "putFile" => r.op = "Upload"
        /\ r.at = "read" => r.op \in {"Update", "Delete"}
    BY AskedOK
  <2>3. StoreOK'
    BY <1>0, <1>1, <2>1, <2>2 DEF Request, StoreOK, InTable
  <2>4. request' \in [Slots -> Asks]
    BY <2>1, <2>2 DEF TypeInv, TypeOK
  <2>5. AskOK(r)' /\ \A t \in Slots : AskOK(request[t]) => AskOK(request[t])'
    BY <2>1, <2>2 DEF AskOK, TypeInv, TypeOK
  <2>6. QED
    BY <2>1, <2>3, <2>4, <2>5 DEF TypeInv, TypeOK, StoreOK
<1>2. ASSUME NEW s \in Slots, Abandon(s) PROVE TypeInv'
  <2>1. Leaves(s) \subseteq named
    BY LeavesNamed
  <2>2. StoreOK'
    BY <1>0, <1>2, <2>1 DEF Abandon, StoreOK, InTable, store
  <2>3. request' \in [Slots -> Asks] /\ \A t \in Slots : AskOK(request[t])'
    BY <1>2, ReplyType DEF Abandon, store
  <2>4. QED
    BY <2>2, <2>3 DEF TypeInv, TypeOK, StoreOK
<1>3. CASE Restart
  <2>1. UNION {Leaves(s) : s \in Slots} \subseteq named
    BY LeavesNamed
  <2>2. StoreOK'
    BY <1>0, <1>3, <2>1 DEF Restart, StoreOK, InTable, store
  <2>3. request' \in [Slots -> Asks] /\ \A t \in Slots : AskOK(request[t])'
    BY <1>3, IdleOK DEF Restart, store, AskOK
  <2>4. QED
    BY <2>2, <2>3 DEF TypeInv, TypeOK, StoreOK
<1>4. CASE DeleteAccount
  <2>1. PICK u \in accounts :
          /\ accounts' = accounts \ {u}
          /\ row' = [b \in Books |-> IF row[b].uploader = u
                                     THEN [row[b] EXCEPT !.uploader = Null] ELSE row[b]]
    BY <1>4 DEF DeleteAccount
  <2>2. UNCHANGED <<files, named, request, requests, lost>>
    BY <1>4 DEF DeleteAccount
  <2>3. NoBook.uploader = Null /\ u # Null
    BY <1>0, NullAssumption DEF NoBook, StoreOK
  <2>4. ASSUME NEW b \in Books
        PROVE  /\ row'[b] \in Rows \cup {NoBook}
               /\ row'[b] = NoBook <=> row[b] = NoBook
               /\ row'[b].uploader \in accounts' \cup {Null}
    <3>1. CASE row[b].uploader = u
      <4>1. row[b] \in Rows /\ row'[b] = [row[b] EXCEPT !.uploader = Null]
        BY <1>0, <2>1, <2>3, <3>1 DEF StoreOK
      <4>2. row'[b] \in Rows /\ row'[b].uploader = Null
        BY <4>1 DEF Rows
      <4>3. QED
        BY <4>1, <4>2, NoBookIsNoRow
    <3>2. CASE row[b].uploader # u
      BY <1>0, <2>1, <3>2 DEF StoreOK
    <3>3. QED
      BY <3>1, <3>2
  <2>5. InTable' = InTable
    BY <2>4 DEF InTable
  <2>6. StoreOK'
    BY <1>0, <2>1, <2>2, <2>4, <2>5 DEF StoreOK
  <2>7. request' \in [Slots -> Asks] /\ \A t \in Slots : AskOK(request[t])'
    BY <2>2 DEF TypeInv, TypeOK, AskOK
  <2>8. QED
    BY <2>6, <2>7 DEF TypeInv, TypeOK, StoreOK
<1>5. QED
  BY <1>1, <1>2, <1>3, <1>4

(* Types hold at the start ... *)
LEMMA InitTypes == Init => TypeInv
<1> SUFFICES ASSUME Init PROVE TypeInv
  OBVIOUS
<1>1. request \in [Slots -> Asks] /\ \A s \in Slots : AskOK(request[s])
  BY IdleOK DEF Init
<1>2. NoBook.uploader = Null
  BY DEF NoBook
<1>3. QED
  BY <1>1, <1>2 DEF Init, TypeInv, TypeOK, InTable

(* ... and after every step. *)
LEMMA StepTypes == TypeInv /\ [Next]_vars => TypeInv'
<1> SUFFICES ASSUME TypeInv, [Next]_vars PROVE TypeInv'
  OBVIOUS
<1>1. CASE Next
  BY <1>1, HandlerType, OtherType DEF Next
<1>2. CASE UNCHANGED vars
  BY <1>2 DEF vars, TypeInv, TypeOK, InTable, AskOK
<1>3. QED
  BY <1>1, <1>2

(* Rows, names and requests are of the declared types, and no name is in   *)
(* use before it was given out.                                            *)
THEOREM TypeCorrect == Spec => []TypeOK
<1>1. TypeInv => TypeOK
  BY DEF TypeInv
<1>2. QED
  BY <1>1, InitTypes, StepTypes, PTL DEF Spec

-----------------------------------------------------------------------------
(* Rows and files. *)

Uploading(r) == r.at \in {"putFile", "insertRow"}
(* An upload under way is of a book nobody can have found yet.             *)
Fresh == \A s \in Slots : Uploading(request[s]) => request[s].book \notin InTable
Alone ==
  \A s, t \in Slots : s # t /\ Uploading(request[s]) /\ request[t].at \notin {"done", "read"}
                        => request[t].book # request[s].book
(* The file is there before its row, and the row gone before its file.     *)
Stored == \A s \in Slots : At(s, "insertRow") => request[s].book \in files
Freed == \A s \in Slots : At(s, "removeFile") => request[s].book \notin InTable
FileInv == Fresh /\ Alone /\ Stored /\ Freed /\ FileOfEveryBook

(* A slot may fall back to idle, or go on with the same book.              *)
SameBooks ==
  \A s \in Slots : \/ request'[s] = request[s]
                   \/ request'[s].at = "done"
                   \/ /\ request'[s].book = request[s].book
                      /\ request[s].at \notin {"done", "read"}
                      /\ Uploading(request'[s]) => Uploading(request[s])

(* Then uploads stay alone. *)
LEMMA AloneStays ==
  ASSUME Alone, SameBooks
  PROVE  Alone'
BY DEF Alone, SameBooks, Uploading

(* A handler's call changes its own slot, and what it changes there.       *)
LEMMA HandlerSlot ==
  ASSUME TypeInv, NEW s \in Slots, Handler(s)
  PROVE  /\ \A t \in Slots : t # s => request'[t] = request[t]
         /\ request'[s] = Idle \/ request'[s].book = request[s].book
<1>1. /\ request \in [Slots -> Asks]
      /\ \/ Reply(s) \/ Goto(s, "insertRow") \/ Goto(s, "deleteRow") \/ Goto(s, "removeFile")
         \/ request' = [request EXCEPT ![s].seen = row[request[s].book].privacy,
              ![s].at = IF request[s].op = "Update" THEN "updateRow" ELSE "readAgain"]
  BY DEF TypeInv, TypeOK, Handler, PutFile, InsertRow, Read, UpdateRow, ReadAgain,
         DeleteRow, RemoveFile
<1>2. QED
  BY <1>1 DEF Reply, Goto, Asks

(* Handlers keep FileInv. *)
LEMMA HandlerFiles ==
  ASSUME TypeInv, FileInv, NEW s \in Slots, Handler(s)
  PROVE  FileInv'
<1>0. /\ request \in [Slots -> Asks] /\ row \in [Books -> Rows \cup {NoBook}]
      /\ AskOK(request[s]) /\ Idle.at = "done"
      /\ \A t \in Slots : t # s => request'[t] = request[t]
  BY HandlerSlot, IdleOK DEF TypeInv, TypeOK
<1> DEFINE b == request[s].book
<1>1. CASE PutFile(s)
  <2>1. /\ files' = files \cup {b} /\ row' = row /\ At(s, "putFile")
        /\ \/ request'[s].at = "done"
           \/ request'[s].at = "insertRow" /\ request'[s].book = b
    BY <1>0, <1>1 DEF PutFile, Reply, Goto, Asks
  <2>2. SameBooks
    BY <1>0, <2>1 DEF SameBooks, At, Uploading
  <2>3. QED
    BY <1>0, <2>1, <2>2, AloneStays
       DEF FileInv, Fresh, Stored, Freed, FileOfEveryBook, InTable, At, Uploading
<1>2. CASE InsertRow(s)
  <2>1. /\ files' = files /\ At(s, "insertRow") /\ request'[s].at = "done"
        /\ InTable \subseteq InTable' /\ InTable' \subseteq InTable \cup {b}
    <3>1. At(s, "insertRow") /\ files' = files /\ request'[s].at = "done"
      BY <1>0, <1>2 DEF InsertRow, Reply
    <3>2. b \notin InTable
      BY <3>1 DEF FileInv, Fresh, At, Uploading
    <3>3. row' = row \/ \E new : row' = [row EXCEPT ![b] = new]
      BY <1>2 DEF InsertRow
    <3> HIDE DEF b
    <3>4. QED
      BY <1>0, <3>1, <3>2, <3>3 DEF InTable
  <2>2. SameBooks
    BY <1>0, <2>1 DEF SameBooks
  <2>3. \A t \in Slots : t # s /\ request[t].at \notin {"done", "read"} => request[t].book # b
    BY <2>1 DEF FileInv, Alone, At, Uploading
  <2>4. b \in files
    BY <2>1 DEF FileInv, Stored
  <2> HIDE DEF b
  <2>5. QED
    BY <1>0, <2>1, <2>2, <2>3, <2>4, AloneStays
       DEF FileInv, Fresh, Stored, Freed, FileOfEveryBook, At, Uploading
<1>3. CASE Read(s)
  <2>1. /\ files' = files /\ row' = row /\ At(s, "read")
        /\ \/ request'[s].at = "done"
           \/ /\ request'[s].at \in {"updateRow", "readAgain"} /\ request'[s].book = b
              /\ b \in InTable
    BY <1>0, <1>3 DEF Read, Reply, Readable, InTable, Asks, AskOK, At, store
  <2>2. \A t \in Slots : Uploading(request'[t]) => t # s /\ request'[t] = request[t]
    BY <1>0, <2>1 DEF Uploading
  <2>3. Alone'
    BY <1>0, <2>1, <2>2 DEF FileInv, Alone, Fresh
  <2>4. QED
    BY <1>0, <2>1, <2>2, <2>3
       DEF FileInv, Fresh, Stored, Freed, FileOfEveryBook, InTable, At
<1>4. CASE UpdateRow(s)
  <2>1. InTable' = InTable /\ files' = files /\ request'[s].at = "done"
    <3>1. TypeInv'
      BY HandlerType
    <3>2. request[s].privacy = Omitted => request[s].seen \in Privacy
      BY <1>0, <1>4 DEF UpdateRow, At, AskOK
    <3>3. \A c \in Books : row[c] # NoBook => row'[c] # NoBook
      BY <1>0, <1>4, <3>2, NoBookIsNoRow DEF UpdateRow, Rows, Asks
    <3>4. \A c \in Books : row[c] = NoBook => row'[c] = NoBook
      BY <1>0, <1>4 DEF UpdateRow
    <3>5. QED
      BY <1>0, <1>4, <3>3, <3>4 DEF UpdateRow, InTable, Reply
  <2>2. SameBooks
    BY <1>0, <2>1 DEF SameBooks
  <2>3. QED
    BY <1>0, <2>1, <2>2, AloneStays
       DEF FileInv, Fresh, Stored, Freed, FileOfEveryBook, At, Uploading
<1>5. CASE ReadAgain(s)
  <2>1. /\ files' = files /\ row' = row /\ At(s, "readAgain")
        /\ \/ request'[s].at = "done"
           \/ request'[s].at = "deleteRow" /\ request'[s].book = b
    BY <1>0, <1>5 DEF ReadAgain, Reply, Goto, Asks, store
  <2>2. SameBooks
    BY <1>0, <2>1 DEF SameBooks, At, Uploading
  <2>3. QED
    BY <1>0, <2>1, <2>2, AloneStays
       DEF FileInv, Fresh, Stored, Freed, FileOfEveryBook, InTable, At, Uploading
<1>6. CASE DeleteRow(s)
  <2>1. /\ files' = files /\ At(s, "deleteRow") /\ InTable' = InTable \ {b}
        /\ request'[s].at = "removeFile" /\ request'[s].book = b
    BY <1>0, <1>6 DEF DeleteRow, Goto, Asks, InTable
  <2>2. SameBooks
    BY <1>0, <2>1 DEF SameBooks, At, Uploading
  <2>3. QED
    BY <1>0, <2>1, <2>2, AloneStays
       DEF FileInv, Fresh, Stored, Freed, FileOfEveryBook, At, Uploading
<1>7. CASE RemoveFile(s)
  <2>1. /\ files' = files \ {b} /\ row' = row /\ At(s, "removeFile") /\ request'[s].at = "done"
    BY <1>0, <1>7 DEF RemoveFile, Reply
  <2>2. SameBooks
    BY <1>0, <2>1 DEF SameBooks
  <2>3. \A t \in Slots : At(t, "insertRow") => request[t].book # b
    BY <2>1 DEF FileInv, Alone, At, Uploading
  <2>4. b \notin InTable
    BY <2>1 DEF FileInv, Freed
  <2> HIDE DEF b
  <2>5. QED
    BY <1>0, <2>1, <2>2, <2>3, <2>4, AloneStays
       DEF FileInv, Fresh, Stored, Freed, FileOfEveryBook, InTable, At, Uploading
<1>8. QED
  BY <1>1, <1>2, <1>3, <1>4, <1>5, <1>6, <1>7 DEF Handler

(* Steps in which slots only fall idle, and rows and files stay.           *)
LEMMA QuietFiles ==
  ASSUME FileInv, InTable' = InTable, files' = files,
         \A s \in Slots : request'[s] = request[s] \/ request'[s].at = "done"
  PROVE  FileInv'
<1>1. SameBooks
  BY DEF SameBooks
<1>2. QED
  BY <1>1, AloneStays DEF FileInv, Fresh, Stored, Freed, FileOfEveryBook, At, Uploading

(* The deletion of an account takes no row away. *)
LEMMA DeleteAccountTable ==
  ASSUME TypeInv, DeleteAccount
  PROVE  InTable' = InTable
<1>1. PICK u \in accounts :
        row' = [b \in Books |-> IF row[b].uploader = u
                                THEN [row[b] EXCEPT !.uploader = Null] ELSE row[b]]
  BY DEF DeleteAccount
<1>2. NoBook.uploader # u
  BY NullAssumption DEF NoBook, TypeInv, TypeOK
<1>3. \A c \in Books : row[c] \in Rows => [row[c] EXCEPT !.uploader = Null] \in Rows
  BY DEF Rows
<1>4. row \in [Books -> Rows \cup {NoBook}]
  BY DEF TypeInv, TypeOK
<1>5. QED
  BY <1>1, <1>2, <1>3, <1>4, NoBookIsNoRow DEF InTable

(* FileInv is kept by every step. *)
LEMMA StepFiles == TypeInv /\ FileInv /\ [Next]_vars => FileInv'
<1> SUFFICES ASSUME TypeInv, FileInv, [Next]_vars PROVE FileInv'
  OBVIOUS
<1>0. request \in [Slots -> Asks] /\ row \in [Books -> Rows \cup {NoBook}] /\ Idle.at = "done"
  BY IdleOK DEF TypeInv, TypeOK
<1>1. ASSUME NEW s \in Slots, Request(s) PROVE FileInv'
  <2>0. PICK actor \in Users : \E r \in Asked(actor) : request' = [request EXCEPT ![s] = r]
    BY <1>1 DEF Request
  <2>1. PICK r \in Asked(actor) : request' = [request EXCEPT ![s] = r]
    BY <2>0
  <2>2. r.at \in {"putFile", "read"} /\ (r.at = "putFile" => r.book \notin named)
    BY AskedOK
  <2>3. request'[s] = r /\ \A t \in Slots : t # s => request'[t] = request[t]
    BY <1>0, <2>1
  <2>4. InTable' = InTable /\ files' = files /\ InTable \subseteq named
    BY <1>1 DEF Request, InTable, TypeInv, TypeOK
  <2>5. \A t \in Slots : request[t].at \notin {"done", "read"} => request[t].book \in named
    BY DEF TypeInv, AskOK
  <2>6. Alone'
    BY <2>2, <2>3, <2>5 DEF FileInv, Alone, Uploading
  <2>7. QED
    BY <2>2, <2>3, <2>4, <2>6
       DEF FileInv, Fresh, Stored, Freed, FileOfEveryBook, At, Uploading
<1>2. ASSUME NEW s \in Slots, Abandon(s) PROVE FileInv'
  BY <1>0, <1>2, QuietFiles DEF Abandon, Reply, store, InTable
<1>3. CASE Restart
  BY <1>0, <1>3, QuietFiles DEF Restart, store, InTable
<1>4. CASE DeleteAccount
  BY <1>4, DeleteAccountTable, QuietFiles DEF DeleteAccount
<1>5. CASE UNCHANGED vars
  BY <1>5, QuietFiles DEF vars, InTable
<1>6. QED
  BY <1>1, <1>2, <1>3, <1>4, <1>5, HandlerFiles DEF Next

(* Every book in the table has its file in the bucket, for any number of   *)
(* uploads, edits and deletes, wherever they stop and however they         *)
(* interleave.                                                             *)
THEOREM BooksHaveFiles == Spec => []FileOfEveryBook
<1>1. Init => FileInv
  BY IdleOK DEF Init, FileInv, Fresh, Alone, Stored, Freed, FileOfEveryBook, InTable, At, Uploading
<1>2. FileInv => FileOfEveryBook
  BY DEF FileInv
<1>3. QED
  BY <1>1, <1>2, InitTypes, StepTypes, StepFiles, PTL DEF Spec

-----------------------------------------------------------------------------
(* What is left over. *)

(* A handler's call leaves a file to a row, to its own next call, or to    *)
(* the broken requests.                                                    *)
LEMMA HandlerLeaves ==
  ASSUME TypeInv, FileInv, FilesAccountedFor, NEW s \in Slots, Handler(s)
  PROVE  FilesAccountedFor'
<1> DEFINE b == request[s].book
<1>0. /\ request \in [Slots -> Asks] /\ row \in [Books -> Rows \cup {NoBook}]
      /\ AskOK(request[s]) /\ Idle.at = "done"
      /\ \A t \in Slots : t # s => request'[t] = request[t]
  BY HandlerSlot, IdleOK DEF TypeInv, TypeOK
<1>1. \A t \in Slots : t # s => Leaves(t)' = Leaves(t)
  BY <1>0 DEF Leaves
(* It is enough to look at what the slot leaves.                           *)
<1>2. ASSUME (files' \ InTable') \ (files \ InTable) \subseteq lost' \cup Leaves(s)',
             Leaves(s) \cap (files' \ InTable') \subseteq lost' \cup Leaves(s)',
             lost \subseteq lost'
      PROVE  FilesAccountedFor'
  <2>1. \A t \in Slots : Leaves(t)' \subseteq (UNION {Leaves(u) : u \in Slots})'
    OBVIOUS
  <2>2. SUFFICES ASSUME NEW f \in files' \ InTable'
                 PROVE  f \in lost' \/ \E t \in Slots : f \in Leaves(t)'
    BY <2>1 DEF FilesAccountedFor
  <2>3. CASE f \in files \ InTable
    <3>1. f \in lost \/ \E t \in Slots : f \in Leaves(t)
      BY <2>3 DEF FilesAccountedFor
    <3>2. QED
      BY <1>1, <1>2, <3>1
  <2>4. CASE f \notin files \ InTable
    BY <1>2, <2>4
  <2>5. QED
    BY <2>3, <2>4
<1>3. CASE PutFile(s)
  <2>1. /\ files' = files \cup {b} /\ row' = row /\ lost \subseteq lost' /\ At(s, "putFile")
        /\ \/ b \in lost'
           \/ request'[s].at = "insertRow" /\ request'[s].book = b
    BY <1>0, <1>3 DEF PutFile, Reply, Goto, Asks
  <2>2. Leaves(s) = {} /\ b \in lost' \cup Leaves(s)'
    BY <2>1 DEF Leaves, At
  <2> HIDE DEF b
  <2>3. QED
    BY <1>2, <2>1, <2>2 DEF InTable
<1>4. CASE InsertRow(s)
  <2>1. /\ files' = files /\ At(s, "insertRow") /\ lost \subseteq lost'
        /\ b \in lost' \/ b \in InTable'
        /\ \A c \in Books : c # b => row'[c] = row[c]
    <3>1. b \in Books
      BY <1>0, <1>4 DEF InsertRow, At, AskOK
    <3>2. request[s].actor \in accounts => b \in InTable'
      <4>1. ASSUME request[s].actor \in accounts
            PROVE  \E new : new.privacy \in Privacy /\ row' = [row EXCEPT ![b] = new]
        BY <1>0, <1>4, <4>1 DEF InsertRow, Asks, Privacy
      <4>2. NoBook.privacy \notin Privacy
        BY DEF NoBook, Privacy
      <4> HIDE DEF b
      <4>3. QED
        BY <1>0, <3>1, <4>1, <4>2 DEF InTable
    <3>3. QED
      BY <1>0, <1>4, <3>1, <3>2 DEF InsertRow
  <2>2. Leaves(s) = {b}
    BY <2>1 DEF Leaves, At
  <2> HIDE DEF b
  <2>3. InTable \ {b} \subseteq InTable'
    BY <2>1 DEF InTable
  <2>4. b \notin InTable
    BY <2>1 DEF FileInv, Fresh, At, Uploading, b
  <2>5. QED
    BY <1>2, <2>1, <2>2, <2>3, <2>4
<1>5. CASE Read(s) \/ ReadAgain(s)
  <2>1. /\ files' = files /\ row' = row /\ lost' = lost
        /\ request[s].at \in {"read", "readAgain"}
    BY <1>5 DEF Read, ReadAgain, At, store
  <2>2. Leaves(s) = {}
    BY <2>1 DEF Leaves
  <2>3. QED
    BY <1>2, <2>1, <2>2 DEF InTable
<1>6. CASE UpdateRow(s)
  <2>1. files' = files /\ lost' = lost /\ At(s, "updateRow") /\ InTable \subseteq InTable'
    <3>1. request[s].privacy = Omitted => request[s].seen \in Privacy
      BY <1>0, <1>6 DEF UpdateRow, At, AskOK
    <3>2. \A c \in Books : row[c] # NoBook => row'[c] # NoBook
      BY <1>0, <1>6, <3>1, NoBookIsNoRow DEF UpdateRow, Rows, Asks
    <3>3. QED
      BY <1>6, <3>2 DEF UpdateRow, InTable
  <2>2. Leaves(s) = {}
    BY <2>1 DEF Leaves, At
  <2>3. QED
    BY <1>2, <2>1, <2>2
<1>7. CASE DeleteRow(s)
  <2>1. /\ files' = files /\ lost' = lost /\ At(s, "deleteRow") /\ InTable' = InTable \ {b}
        /\ request'[s].at = "removeFile" /\ request'[s].book = b
    BY <1>0, <1>7 DEF DeleteRow, Goto, Asks, InTable
  <2>2. Leaves(s) = {} /\ Leaves(s)' = {b}
    BY <2>1 DEF Leaves, At
  <2> HIDE DEF b
  <2>3. QED
    BY <1>2, <2>1, <2>2
<1>8. CASE RemoveFile(s)
  <2>1. /\ files' = files \ {b} /\ row' = row /\ lost' = lost /\ At(s, "removeFile")
    BY <1>0, <1>8 DEF RemoveFile
  <2>2. Leaves(s) = {b}
    BY <2>1 DEF Leaves, At
  <2> HIDE DEF b
  <2>3. QED
    BY <1>2, <2>1, <2>2 DEF InTable
<1>9. QED
  BY <1>3, <1>4, <1>5, <1>6, <1>7, <1>8 DEF Handler

(* Nothing is left over but what broken requests leave.                    *)
LEMMA StepLeaves == TypeInv /\ FileInv /\ FilesAccountedFor /\ [Next]_vars => FilesAccountedFor'
<1> SUFFICES ASSUME TypeInv, FileInv, FilesAccountedFor, [Next]_vars PROVE FilesAccountedFor'
  OBVIOUS
<1>0. request \in [Slots -> Asks] /\ Idle.at = "done"
  BY IdleOK DEF TypeInv, TypeOK
(* Rows and files stay; what a slot leaves is left to it or lost.          *)
<1>1. ASSUME files' = files, InTable' = InTable, lost \subseteq lost',
             \A t \in Slots : Leaves(t) \subseteq lost' \cup Leaves(t)'
      PROVE  FilesAccountedFor'
  <2>1. SUFFICES ASSUME NEW f \in files \ InTable
                 PROVE  f \in lost' \/ \E t \in Slots : f \in Leaves(t)'
    BY <1>1 DEF FilesAccountedFor
  <2>2. f \in lost \/ \E t \in Slots : f \in Leaves(t)
    BY DEF FilesAccountedFor
  <2>3. QED
    BY <1>1, <2>2
<1>2. ASSUME NEW s \in Slots, Request(s) PROVE FilesAccountedFor'
  <2>1. Leaves(s) = {} /\ \A t \in Slots : t # s => Leaves(t)' = Leaves(t)
    BY <1>0, <1>2 DEF Request, Leaves, At
  <2>2. QED
    BY <1>1, <1>2, <2>1 DEF Request, InTable
<1>3. ASSUME NEW s \in Slots, Abandon(s) PROVE FilesAccountedFor'
  <2>1. \A t \in Slots : t # s => Leaves(t)' = Leaves(t)
    BY <1>0, <1>3 DEF Abandon, Reply, Leaves
  <2>2. lost' = lost \cup Leaves(s)
    BY <1>3 DEF Abandon
  <2>3. QED
    BY <1>1, <1>3, <2>1, <2>2 DEF Abandon, InTable, store
<1>4. CASE Restart
  <2>1. \A t \in Slots : Leaves(t) \subseteq lost'
    BY <1>4 DEF Restart
  <2>2. QED
    BY <1>1, <1>4, <2>1 DEF Restart, InTable, store
<1>5. CASE DeleteAccount
  <2>1. InTable' = InTable
    BY <1>5, DeleteAccountTable
  <2>2. QED
    BY <1>1, <1>5, <2>1 DEF DeleteAccount, Leaves
<1>6. CASE UNCHANGED vars
  BY <1>1, <1>6 DEF vars, InTable, Leaves
<1>7. QED
  BY <1>2, <1>3, <1>4, <1>5, <1>6, HandlerLeaves DEF Next

(* A file without a book belongs to an upload or a delete that is running, *)
(* or to one that broke off half-way, whatever else goes on.               *)
THEOREM NothingElseLeaks == Spec => []FilesAccountedFor
<1>1. Init => FileInv /\ FilesAccountedFor
  BY IdleOK DEF Init, FileInv, Fresh, Alone, Stored, Freed, FileOfEveryBook, InTable, At,
                Uploading, FilesAccountedFor
<1>2. QED
  BY <1>1, InitTypes, StepTypes, StepFiles, StepLeaves, PTL DEF Spec

-----------------------------------------------------------------------------
(* What a step may do to a row. *)

(* An upload's INSERT finds no row, an edit keeps the privacy it read or    *)
(* was sent, and a delete takes the row away.                               *)
LEMMA HandlerPrivacy ==
  ASSUME TypeInv, FileInv, NEW s \in Slots, Handler(s), NEW b \in InTable,
         row'[b].privacy \notin {row[b].privacy, "none"}
  PROVE  /\ request[s].op = "Update" /\ request[s].book = b
         /\ request[s].privacy = row'[b].privacy \/ request[s].seen # row[b].privacy
<1>0. AskOK(request[s]) /\ row \in [Books -> Rows \cup {NoBook}] /\ b \in Books
  BY DEF TypeInv, TypeOK, InTable
<1>1. row' # row
  OBVIOUS
<1>2. CASE InsertRow(s)
  <2>1. request[s].book # b
    BY <1>2 DEF InsertRow, At, FileInv, Fresh, Uploading
  <2>2. row'[b] = row[b]
    BY <1>0, <1>2, <2>1 DEF InsertRow
  <2>3. QED
    BY <2>2
<1>3. CASE UpdateRow(s)
  <2> DEFINE p == IF request[s].privacy = Omitted THEN request[s].seen ELSE request[s].privacy
  <2>1. row' = [row EXCEPT ![request[s].book].privacy = p]
    BY <1>1, <1>3 DEF UpdateRow
  <2>2. request[s].op = "Update"
    BY <1>0, <1>3 DEF UpdateRow, At, AskOK
  <2>3. request[s].book = b
    <3> HIDE DEF p
    <3>1. QED
      BY <1>0, <2>1
  <2>4. row'[b].privacy = p
    <3>1. row[b] \in [uploader : Users \cup {Null}, privacy : Privacy \cup {"none"}]
      BY <1>0 DEF Rows, NoBook
    <3>2. row'[b] = [row[b] EXCEPT !.privacy = p]
      <4> HIDE DEF p
      <4>1. QED
        BY <1>0, <2>1, <2>3
    <3> HIDE DEF p
    <3>3. QED
      BY <3>1, <3>2
  <2>5. QED
    BY <2>2, <2>3, <2>4
<1>4. CASE DeleteRow(s)
  <2>1. row' = [row EXCEPT ![request[s].book] = NoBook]
    BY <1>4 DEF DeleteRow
  <2>2. row'[b] = row[b] \/ row'[b] = NoBook
    BY <1>0, <2>1
  <2>3. QED
    BY <2>2 DEF NoBook
<1>5. QED
  BY <1>1, <1>2, <1>3, <1>4
     DEF Handler, PutFile, Read, ReadAgain, RemoveFile, store

(* Only its upload puts a row where there is none. *)
LEMMA HandlerRevives ==
  ASSUME TypeInv, NEW s \in Slots, Handler(s), NEW b \in Books,
         row[b] = NoBook, row'[b] # NoBook
  PROVE  request[s].op = "Upload" /\ request[s].book = b
<1>0. AskOK(request[s]) /\ row \in [Books -> Rows \cup {NoBook}]
  BY DEF TypeInv, TypeOK
<1>1. InsertRow(s)
  <2>1. CASE UpdateRow(s)
    <3> DEFINE p == IF request[s].privacy = Omitted THEN request[s].seen ELSE request[s].privacy
    <3>1. row' = row \/ (row[request[s].book] # NoBook
                         /\ row' = [row EXCEPT ![request[s].book].privacy = p])
      BY <2>1 DEF UpdateRow
    <3> HIDE DEF p
    <3>2. QED
      BY <1>0, <3>1
  <2>2. CASE DeleteRow(s)
    BY <1>0, <2>2 DEF DeleteRow
  <2>3. QED
    BY <2>1, <2>2 DEF Handler, PutFile, Read, ReadAgain, RemoveFile, store
<1>2. request[s].op = "Upload"
  BY <1>0, <1>1 DEF InsertRow, At, AskOK
<1>3. request[s].book = b
  BY <1>0, <1>1 DEF InsertRow
<1>4. QED
  BY <1>2, <1>3

(* The deletion of an account changes whose the books are, no more. *)
LEMMA DeleteAccountRows ==
  ASSUME TypeInv, DeleteAccount, NEW b \in Books
  PROVE  row'[b].privacy = row[b].privacy
<1>1. PICK u \in accounts :
        row' = [c \in Books |-> IF row[c].uploader = u
                                THEN [row[c] EXCEPT !.uploader = Null] ELSE row[c]]
  BY DEF DeleteAccount
<1>2. row[b] \in [uploader : Users \cup {Null}, privacy : Privacy \cup {"none"}]
  BY DEF TypeInv, TypeOK, Rows, NoBook
<1>3. QED
  BY <1>1, <1>2

(* A book turns public or private only through a request that asks for it  *)
(* or, when the request says nothing of it, one that read the row before   *)
(* another request changed it.                                             *)
THEOREM PrivacyIsAsked == Spec => PrivacyChangesOnRequest
<1> DEFINE Requested ==
      \A b \in InTable : row'[b].privacy \notin {row[b].privacy, "none"} =>
       \E s \in Slots : /\ request[s].op = "Update" /\ request[s].book = b
                        /\ \/ request[s].privacy = row'[b].privacy
                           \/ request[s].seen # row[b].privacy
<1>1. Init => FileInv
  BY IdleOK DEF Init, FileInv, Fresh, Alone, Stored, Freed, FileOfEveryBook, InTable, At, Uploading
<1>2. TypeInv /\ FileInv /\ [Next]_vars => Requested
  <2> SUFFICES ASSUME TypeInv, FileInv, [Next]_vars, NEW b \in InTable,
                      row'[b].privacy \notin {row[b].privacy, "none"}
               PROVE  \E s \in Slots : /\ request[s].op = "Update" /\ request[s].book = b
                        /\ \/ request[s].privacy = row'[b].privacy
                           \/ request[s].seen # row[b].privacy
    OBVIOUS
  <2>1. row' # row /\ b \in Books
    BY DEF InTable
  <2>2. ~DeleteAccount
    BY <2>1, DeleteAccountRows
  <2>3. PICK s \in Slots : Handler(s)
    BY <2>1, <2>2 DEF Next, Request, Abandon, Restart, vars, store
  <2>4. QED
    BY <2>3, HandlerPrivacy
<1> HIDE DEF Requested
<1>3. Spec => [][Requested]_vars
  BY <1>1, <1>2, InitTypes, StepTypes, StepFiles, PTL DEF Spec
<1>4. QED
  BY <1>3 DEF PrivacyChangesOnRequest, Requested

(* A deleted book does not come back through an edit that overlapped.      *)
THEOREM DeletedBooksStayDeleted == Spec => DeletedStaysDeleted
<1> DEFINE Stays ==
      \A b \in named : row[b] = NoBook /\ row'[b] # NoBook =>
       \E s \in Slots : request[s].op = "Upload" /\ request[s].book = b
<1>1. TypeInv /\ [Next]_vars => Stays
  <2> SUFFICES ASSUME TypeInv, [Next]_vars, NEW b \in named, row[b] = NoBook, row'[b] # NoBook
               PROVE  \E s \in Slots : request[s].op = "Upload" /\ request[s].book = b
    OBVIOUS
  <2>1. row' # row /\ b \in Books
    BY DEF TypeInv, TypeOK
  <2>2. ~DeleteAccount
    BY <2>1, DeleteAccountTable DEF InTable
  <2>3. PICK s \in Slots : Handler(s)
    BY <2>1, <2>2 DEF Next, Request, Abandon, Restart, vars, store
  <2>4. QED
    BY <2>1, <2>3, HandlerRevives
<1> HIDE DEF Stays
<1>2. Spec => [][Stays]_vars
  BY <1>1, InitTypes, StepTypes, PTL DEF Spec
<1>3. QED
  BY <1>2 DEF DeletedStaysDeleted, Stays

=============================================================================
