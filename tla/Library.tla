------------------------------- MODULE Library -------------------------------
(***************************************************************************)
(* The ebooks table and the bucket that holds the PDFs: upload, edit and   *)
(* delete, next to the deletion of the accounts that uploaded.             *)
(*                                                                         *)
(* A book lives in two places that no transaction spans, and every call to *)
(* either is a step of its own.  Row and file get fresh names in the same  *)
(* upload, so that a book is known here by one name for both.              *)
(***************************************************************************)
EXTENDS FiniteSets, Integers

CONSTANTS
  Users,         \* who holds a token, whether or not the account still exists
  Admins,        \* those whose token says admin
  Books,         \* names of books; one is never given out twice
  Slots,         \* requests the server handles at a time
  MaxRequests    \* bound: how many requests are made

ASSUME AdminsAssumption == Admins \subseteq Users
ASSUME LimitAssumption == MaxRequests \in Nat

VARIABLES
  accounts,      \* the ids in the users table
  row,           \* the ebooks table, NoBook where a name has no row
  files,         \* the objects in the bucket
  named,         \* the names given out
  request,       \* what each slot is doing, with its locals
  requests,      \* how many requests were made
  lost           \* for properties only: files whose request broke off

store == <<accounts, row, files, named>>
vars == <<accounts, row, files, named, request, requests, lost>>

Null == "NULL"
Omitted == "omitted"
Privacy == {"private", "public"}
NoBook == [uploader |-> Null, privacy |-> "none"]
Rows == [uploader : Users \cup {Null}, privacy : Privacy]

ASSUME NullAssumption == Null \notin Users
ASSUME NoNameAssumption == Null \notin Books

(* seen: the privacy in the row that the handler read. *)
Idle == [op |-> "none", at |-> "done", actor |-> Null, book |-> Null,
         privacy |-> Omitted, seen |-> Omitted]

At(s, label) == request[s].at = label
Goto(s, label) == request' = [request EXCEPT ![s].at = label]
Reply(s) == request' = [request EXCEPT ![s] = Idle]

(* A new request starts with its first call to the database or the bucket. *)
Ask(op, first, actor, b, p) ==
  [Idle EXCEPT !.op = op, !.at = first, !.actor = actor, !.book = b, !.privacy = p]
Asked(actor) ==
  {Ask("Upload", "putFile", actor, b, p) : b \in Books \ named, p \in Privacy \cup {Omitted}}
  \cup {Ask("Update", "read", actor, b, p) : b \in Books, p \in Privacy \cup {Omitted}}
  \cup {Ask("Delete", "read", actor, b, Omitted) : b \in Books}

Request(s) ==
  /\ At(s, "done") /\ requests < MaxRequests
  /\ requests' = requests + 1
  /\ \E actor \in Users : \E r \in Asked(actor) :
       /\ request' = [request EXCEPT ![s] = r]
       /\ named' = IF r.op = "Upload" THEN named \cup {r.book} ELSE named
  /\ UNCHANGED <<accounts, row, files, lost>>

-----------------------------------------------------------------------------
(* Upload: first the object, then the row that names it. *)

(* PutObject; it may store the object and fail all the same. *)
PutFile(s) ==
  /\ At(s, "putFile")
  /\ files' = files \cup {request[s].book}
  /\ \/ Goto(s, "insertRow") /\ UNCHANGED lost
     \/ Reply(s) /\ lost' = lost \cup {request[s].book}
  /\ UNCHANGED <<accounts, row, named, requests>>

(* EbookRepository.Create: uploaded_by REFERENCES users. *)
InsertRow(s) ==
  /\ At(s, "insertRow")
  /\ LET r == request[s] IN
     IF r.actor \in accounts
     THEN /\ row' = [row EXCEPT ![r.book] = [uploader |-> r.actor,
               privacy |-> IF r.privacy = Omitted THEN "private" ELSE r.privacy]]
          /\ UNCHANGED lost
     ELSE lost' = lost \cup {r.book} /\ UNCHANGED row
  /\ Reply(s)
  /\ UNCHANGED <<accounts, files, named, requests>>

-----------------------------------------------------------------------------
(* Update and Delete. *)

(* EbookRepository.GetByID scans uploaded_by into a string, which NULL     *)
(* does not fit: the read fails.                                           *)
Readable(b) == row[b] # NoBook /\ row[b].uploader # Null

CanManage(actor, b) == actor \in Admins \/ row[b].uploader = actor

(* Who may manage the book is decided here, and never looked at again. *)
Read(s) ==
  /\ At(s, "read")
  /\ LET r == request[s] IN
     IF Readable(r.book) /\ CanManage(r.actor, r.book)
     THEN request' = [request EXCEPT ![s].seen = row[r.book].privacy,
            ![s].at = IF r.op = "Update" THEN "updateRow" ELSE "readAgain"]
     ELSE Reply(s)
  /\ UNCHANGED <<store, requests, lost>>

(* Mutant of UpdateRow: an is_private that was not sent reads as false. *)
UpdateRowPublic(s) ==
  /\ At(s, "updateRow")
  /\ LET r == request[s] IN
     row' = IF row[r.book] = NoBook THEN row
            ELSE [row EXCEPT ![r.book].privacy = IF r.privacy = Omitted THEN "public" ELSE r.privacy]
  /\ Reply(s)
  /\ UNCHANGED <<accounts, files, named, requests, lost>>

(* Mutant of UpdateRow: an upsert. *)
UpdateRowUpserts(s) ==
  /\ At(s, "updateRow")
  /\ LET r == request[s] IN
     row' = [row EXCEPT ![r.book] = [uploader |-> r.actor, privacy |-> r.seen]]
  /\ Reply(s)
  /\ UNCHANGED <<accounts, files, named, requests, lost>>

(* EbookRepository.Update writes is_private back as it was read when the   *)
(* request leaves it out.  The row may be gone: an error.                  *)
UpdateRow(s) ==
  /\ At(s, "updateRow")
  /\ LET r == request[s] IN
     row' = IF row[r.book] = NoBook THEN row
            ELSE [row EXCEPT ![r.book].privacy = IF r.privacy = Omitted THEN r.seen ELSE r.privacy]
  /\ Reply(s)
  /\ UNCHANGED <<accounts, files, named, requests, lost>>

(* EbookRepository.Delete begins with a GetByID of its own. *)
ReadAgain(s) ==
  /\ At(s, "readAgain")
  /\ IF Readable(request[s].book) THEN Goto(s, "deleteRow") ELSE Reply(s)
  /\ UNCHANGED <<store, requests, lost>>

(* Mutant of DeleteRow: the error of the DELETE is not looked at. *)
DeleteRowUnchecked(s) ==
  /\ At(s, "deleteRow")
  /\ \/ row' = [row EXCEPT ![request[s].book] = NoBook]
     \/ UNCHANGED row
  /\ Goto(s, "removeFile")
  /\ UNCHANGED <<accounts, files, named, requests, lost>>

(* Mutant of DeleteRow: the file is forgotten. *)
DeleteRowOnly(s) ==
  /\ At(s, "deleteRow")
  /\ row' = [row EXCEPT ![request[s].book] = NoBook]
  /\ Reply(s)
  /\ UNCHANGED <<accounts, files, named, requests, lost>>

(* The DELETE; that it found no row is not an error. *)
DeleteRow(s) ==
  /\ At(s, "deleteRow")
  /\ row' = [row EXCEPT ![request[s].book] = NoBook]
  /\ Goto(s, "removeFile")
  /\ UNCHANGED <<accounts, files, named, requests, lost>>

(* RemoveObject; its error is dropped. *)
RemoveFile(s) ==
  /\ At(s, "removeFile")
  /\ files' = files \ {request[s].book}
  /\ Reply(s)
  /\ UNCHANGED <<accounts, row, named, requests, lost>>

-----------------------------------------------------------------------------
(* A request that stops here leaves a file without a row. *)
Leaves(s) == IF request[s].at \in {"insertRow", "removeFile"} THEN {request[s].book} ELSE {}

(* A call failed, or its client went away: every handler ends. *)
Abandon(s) ==
  /\ ~At(s, "done")
  /\ Reply(s)
  /\ lost' = lost \cup Leaves(s)
  /\ UNCHANGED <<store, requests>>

Restart ==
  /\ request' = [s \in Slots |-> Idle]
  /\ lost' = lost \cup UNION {Leaves(s) : s \in Slots}
  /\ UNCHANGED <<store, requests>>

(* An admin, one of Users or another, deletes an account: uploaded_by ON   *)
(* DELETE SET NULL.                                                        *)
DeleteAccount ==
  /\ \E u \in accounts :
       /\ accounts' = accounts \ {u}
       /\ row' = [b \in Books |-> IF row[b].uploader = u
                                  THEN [row[b] EXCEPT !.uploader = Null] ELSE row[b]]
  /\ UNCHANGED <<files, named, request, requests, lost>>

Init ==
  /\ accounts = Users
  /\ row = [b \in Books |-> NoBook]
  /\ files = {} /\ named = {}
  /\ request = [s \in Slots |-> Idle]
  /\ requests = 0
  /\ lost = {}

Handler(s) ==
  \/ PutFile(s) \/ InsertRow(s)
  \/ Read(s) \/ UpdateRow(s) \/ ReadAgain(s) \/ DeleteRow(s) \/ RemoveFile(s)

Next ==
  \/ \E s \in Slots : Request(s) \/ Handler(s) \/ Abandon(s)
  \/ Restart \/ DeleteAccount

Spec == Init /\ [][Next]_vars
-----------------------------------------------------------------------------
(* Properties. *)

Asks ==
  [op : {"none", "Upload", "Update", "Delete"},
   at : {"done", "putFile", "insertRow", "read", "updateRow", "readAgain", "deleteRow",
         "removeFile"},
   actor : Users \cup {Null}, book : Books \cup {Null},
   privacy : Privacy \cup {Omitted}, seen : Privacy \cup {Omitted}]

InTable == {b \in Books : row[b] # NoBook}

(* Every variable has its type, an uploader that is not NULL exists, and   *)
(* no name is in use before it was given out.                              *)
TypeOK ==
  /\ accounts \subseteq Users
  /\ row \in [Books -> Rows \cup {NoBook}]
  /\ \A b \in Books : row[b].uploader \in accounts \cup {Null}
  /\ named \subseteq Books /\ files \subseteq named /\ InTable \subseteq named
  /\ request \in [Slots -> Asks]
  /\ requests \in Nat
  /\ lost \subseteq named

(* Every book in the table has its file in the bucket, wherever an upload  *)
(* or a delete stops or fails and however two of them interleave.          *)
FileOfEveryBook == InTable \subseteq files

(* A file without a book belongs to an upload or a delete that is running, *)
(* or to one that broke off half-way: nothing else leaks.                  *)
FilesAccountedFor == files \ InTable \subseteq lost \cup UNION {Leaves(s) : s \in Slots}

(* A book turns public or private only through a request that asks for it  *)
(* or, when the request says nothing of it, one that read the row before   *)
(* another request changed it.                                             *)
PrivacyChangesOnRequest ==
  [][\A b \in InTable : row'[b].privacy \notin {row[b].privacy, "none"} =>
       \E s \in Slots : /\ request[s].op = "Update" /\ request[s].book = b
                        /\ \/ request[s].privacy = row'[b].privacy
                           \/ request[s].seen # row[b].privacy]_vars

(* A deleted book does not come back through an edit that overlapped.      *)
DeletedStaysDeleted ==
  [][\A b \in named : row[b] = NoBook /\ row'[b] # NoBook =>
       \E s \in Slots : request[s].op = "Upload" /\ request[s].book = b]_vars

(* The rows of ListVisible's page; NULL = userID holds of no row.          *)
Visible(u) ==
  {b \in InTable : u \in Admins \/ row[b].privacy = "public" \/ row[b].uploader = u}

(* ListVisible "returns the page of ebooks the given user is allowed to    *)
(* see": the query answers, for it can scan every row it selects.          *)
ListAnswers == \A u \in accounts : \A b \in Visible(u) : Readable(b)
=============================================================================
