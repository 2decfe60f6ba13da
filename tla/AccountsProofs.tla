---------------------------- MODULE AccountsProofs ----------------------------
(* Theorems about Accounts, for any ids, emails, passwords, slots, number  *)
(* of requests and table to begin with.                                    *)
EXTENDS Accounts, FiniteSetTheorems, TLAPS

-----------------------------------------------------------------------------
(* Requests. *)

(* The labels at which a handler has read a row, and is to change it.      *)
Reading == {"count", "emailFree", "updateRow", "setPassword", "deleteRow"}

(* What a request is about to do, and whether it knows the row it needs.   *)
AskOK(r) ==
  /\ r.at \in Reading => r.seen \in Users
  /\ r.at \in Reading \cup {"byId"} => r.target \in Ids
  /\ r.at = "byId" => r.op \in {"Update", "ResetPassword", "Delete", "ChangePassword"}
  /\ r.at = "byEmail" => r.op \in {"Register", "Login", "OAuthLogin", "Create"}
  /\ r.at = "count" => r.op \in {"Update", "Delete"} /\ Lowers(r, r.seen)
  /\ r.at = "emailFree" => r.op = "Update"
  /\ r.at = "insertRow" => r.op \in {"Register", "OAuthLogin", "Create"}
  /\ r.at = "updateRow" => r.op \in {"Update", "OAuthLogin"}
  /\ r.at = "setPassword" => r.op \in {"ResetPassword", "ChangePassword"}
  /\ r.at = "deleteRow" => r.op = "Delete"
  /\ r.seen # NoUser => r.target \in used

TypeInv == TypeOK /\ \A s \in Slots : AskOK(request[s])

(* No row looks like the missing one. *)
LEMMA NoUserIsNoRow == NoUser \notin Users /\ NoUser.role \notin Roles
BY DEF NoUser, Users, Roles

(* A slot at rest is well formed. *)
LEMMA IdleOK == Idle \in Asks /\ AskOK(Idle) /\ Idle.at = "done"
BY SeedAssumption DEF Idle, Asks, AskOK, Reading, Roles

(* A request to sign in or up starts well formed. *)
LEMMA SignOK ==
  ASSUME NEW op \in {"Register", "Login", "OAuthLogin", "Create"}, NEW e \in Emails,
         NEW role \in Roles, NEW p \in Passwords \cup {NoPassword},
         NEW r, r = Sign(op, e, role, p)
  PROVE  r \in Asks /\ AskOK(r) /\ r.at = "byEmail"
<1>1. r = [op |-> op, at |-> "byEmail", actor |-> NoId, target |-> NoId, email |-> e,
           role |-> role, password |-> p, old |-> NoPassword, seen |-> NoUser,
           stale |-> FALSE]
  BY DEF Sign, Idle
<1>2. r \in Asks
  BY <1>1 DEF Asks, Operations, Anybody, Administration
<1>3. QED
  BY <1>1, <1>2 DEF AskOK, Reading

(* A request about an account starts well formed. *)
LEMMA AskIsOK ==
  ASSUME NEW op \in {"Update", "ResetPassword", "Delete", "ChangePassword"}, NEW actor \in Ids,
         NEW u \in Ids, NEW e \in Emails, NEW role \in Roles,
         NEW p \in Passwords \cup {NoPassword}, NEW o \in Passwords \cup {NoPassword},
         NEW r, r = Ask(op, actor, u, e, role, p, o)
  PROVE  r \in Asks /\ AskOK(r) /\ r.at = "byId"
<1>1. r = [op |-> op, at |-> "byId", actor |-> actor, target |-> u, email |-> e,
           role |-> role, password |-> p, old |-> o, seen |-> NoUser,
           stale |-> FALSE]
  BY DEF Ask, Idle
<1>2. r \in Asks
  BY <1>1 DEF Asks, Operations, Administration
<1>3. QED
  BY <1>1, <1>2 DEF AskOK, Reading

(* The requests that are made are in order. *)
LEMMA AskedOK ==
  ASSUME NEW op \in Operations, NEW actor \in Ids \cup {NoId}, NEW r \in Asked(op, actor),
         actor = NoId <=> op \in Anybody
  PROVE  r \in Asks /\ AskOK(r) /\ r.at \in {"byId", "byEmail"}
<1>0. /\ op \in Anybody => op \in {"Register", "Login", "OAuthLogin"}
      /\ op \notin Anybody => op \in {"Create", "Update", "ResetPassword", "Delete", "ChangePassword"}
                              /\ actor \in Ids
      /\ DefaultEmail \in Emails /\ "user" \in Roles
  BY SeedAssumption DEF Operations, Anybody, Administration, Roles
<1>1. CASE op \in {"Register", "Login"}
  <2>1. r \in {Sign(op, e, "user", p) : e \in Emails, p \in Passwords}
    BY <1>1 DEF Asked
  <2>2. PICK e \in Emails, p \in Passwords : r = Sign(op, e, "user", p)
    BY <2>1
  <2>3. QED
    BY <1>0, <1>1, <2>2, SignOK
<1>2. CASE op = "OAuthLogin"
  <2>1. r \in {Sign(op, e, "user", NoPassword) : e \in Emails}
    BY <1>2 DEF Asked
  <2>2. PICK e \in Emails : r = Sign(op, e, "user", NoPassword)
    BY <2>1
  <2>3. QED
    BY <1>0, <1>2, <2>2, SignOK
<1>3. CASE op = "Create"
  <2>1. r \in {Sign(op, e, q, p) : e \in Emails, q \in Roles, p \in Passwords}
    BY <1>3 DEF Asked
  <2>2. PICK e \in Emails, q \in Roles, p \in Passwords : r = Sign(op, e, q, p)
    BY <2>1
  <2>3. QED
    BY <1>3, <2>2, SignOK
<1>4. CASE op = "Update"
  <2>1. r \in {Ask(op, actor, u, e, q, NoPassword, NoPassword) :
                 u \in Ids, e \in Emails, q \in Roles}
    BY <1>4 DEF Asked
  <2>2. PICK u \in Ids, e \in Emails, q \in Roles :
          r = Ask(op, actor, u, e, q, NoPassword, NoPassword)
    BY <2>1
  <2>3. actor \in Ids
    BY <1>0, <1>4 DEF Anybody
  <2>4. QED
    BY <1>4, <2>2, <2>3, AskIsOK
<1>5. CASE op = "ResetPassword"
  <2>1. r \in {Ask(op, actor, u, DefaultEmail, "user", p, NoPassword) :
                 u \in Ids, p \in Passwords}
    BY <1>5 DEF Asked
  <2>2. PICK u \in Ids, p \in Passwords :
          r = Ask(op, actor, u, DefaultEmail, "user", p, NoPassword)
    BY <2>1
  <2>3. actor \in Ids
    BY <1>0, <1>5 DEF Anybody
  <2>4. QED
    BY <1>0, <1>5, <2>2, <2>3, AskIsOK
<1>6. CASE op = "Delete"
  <2>1. r \in {Ask(op, actor, u, DefaultEmail, "user", NoPassword, NoPassword) : u \in Ids}
    BY <1>6 DEF Asked
  <2>2. PICK u \in Ids : r = Ask(op, actor, u, DefaultEmail, "user", NoPassword, NoPassword)
    BY <2>1
  <2>3. actor \in Ids
    BY <1>0, <1>6 DEF Anybody
  <2>4. QED
    BY <1>0, <1>6, <2>2, <2>3, AskIsOK
<1>7. CASE op = "ChangePassword"
  <2>1. r \in {Ask(op, actor, actor, DefaultEmail, "user", p, o) :
                 p \in Passwords, o \in Passwords}
    BY <1>7 DEF Asked
  <2>2. PICK p \in Passwords, o \in Passwords :
          r = Ask(op, actor, actor, DefaultEmail, "user", p, o)
    BY <2>1
  <2>3. actor \in Ids
    BY <1>0, <1>7 DEF Anybody
  <2>4. QED
    BY <1>0, <1>7, <2>2, <2>3, AskIsOK
<1>8. QED
  BY <1>1, <1>2, <1>3, <1>4, <1>5, <1>6, <1>7 DEF Operations, Anybody, Administration

-----------------------------------------------------------------------------
(* Steps that change the table. *)

(* The same request, whatever it knows of its being out of date.           *)
SameAsk(r, q) ==
  /\ q.op = r.op /\ q.at = r.at /\ q.actor = r.actor /\ q.target = r.target
  /\ q.role = r.role /\ q.seen = r.seen

(* Slots only fall idle, or go on as they are.                             *)
Calm ==
  /\ request' \in [Slots -> Asks]
  /\ \A t \in Slots : request'[t] = Idle \/ SameAsk(request[t], request'[t])

(* Marking a request as outdated changes nothing else of it. *)
LEMMA StaleFields ==
  ASSUME NEW r \in Asks, NEW b \in BOOLEAN, NEW q, q = [r EXCEPT !.stale = b]
  PROVE  q \in Asks /\ SameAsk(r, q) /\ q.stale = b
BY DEF Asks, SameAsk

(* Calm slots stay in order. *)
LEMMA CalmOK ==
  ASSUME TypeInv, used \subseteq used', Calm
  PROVE  \A t \in Slots : AskOK(request[t])'
<1> SUFFICES ASSUME NEW t \in Slots PROVE AskOK(request[t])'
  OBVIOUS
<1>1. AskOK(request[t])
  BY DEF TypeInv
<1>2. CASE request'[t] = Idle
  BY <1>2, IdleOK DEF AskOK, Reading, Idle
<1>3. CASE SameAsk(request[t], request'[t])
  BY <1>1, <1>3 DEF AskOK, SameAsk, Reading, Lowers
<1>4. QED
  BY <1>2, <1>3 DEF Calm

(* A reply is calm. *)
LEMMA ReplyCalm ==
  ASSUME TypeInv, NEW s \in Slots, Reply(s)
  PROVE  Calm /\ \A t \in Slots : request'[t] = IF t = s THEN Idle ELSE request[t]
BY IdleOK DEF TypeInv, TypeOK, Reply, Calm, SameAsk

(* The role of u is about to change.                                       *)
Changes(u, user) == row[u] # NoUser /\ row[u].role # user.role

(* The replacement of a row: what the slots know afterwards. *)
LEMMA ReplaceSlots ==
  ASSUME TypeInv, NEW s \in Slots, NEW u, NEW user, Replace(s, u, user)
  PROVE  /\ Calm /\ request'[s] = Idle
         /\ \A t \in Slots : t # s => SameAsk(request[t], request'[t])
         /\ \A t \in Slots : t # s /\ request[t].at \in Reading /\ Changes(u, user)
                               => request'[t].stale
         /\ \A t \in Slots : t # s /\ request[t].stale => request'[t].stale
<1> DEFINE late(t) == row[u] # NoUser /\ row[u].role # user.role
                      /\ request[t].at \notin {"done", "byId", "byEmail"}
           old(t) == request[t].stale \/ late(t)
<1>1. request' = [t \in Slots |-> IF t = s THEN Idle ELSE [request[t] EXCEPT !.stale = old(t)]]
  BY DEF Replace
<1>2. \A t \in Slots : request[t] \in Asks /\ request[t].stale \in BOOLEAN
  BY DEF TypeInv, TypeOK, Asks
<1>3. \A t \in Slots : old(t) \in BOOLEAN
  BY <1>2
<1>4. \A t \in Slots : request[t].at \in Reading /\ Changes(u, user) => old(t)
  BY DEF Reading, Changes
<1>5. \A t \in Slots : request[t].stale => old(t)
  OBVIOUS
<1> HIDE DEF old
<1>6. \A t \in Slots : t # s => /\ request'[t] \in Asks /\ SameAsk(request[t], request'[t])
                                /\ request'[t].stale = old(t)
  <2> TAKE t \in Slots
  <2> HAVE t # s
  <2>1. request'[t] = [request[t] EXCEPT !.stale = old(t)]
    BY <1>1
  <2>2. QED
    BY <1>2, <1>3, <2>1, StaleFields
<1>7. request'[s] = Idle /\ request' \in [Slots -> Asks]
  <2>1. request'[s] = Idle
    BY <1>1
  <2>2. \A t \in Slots : request'[t] \in Asks
    BY <1>6, <2>1, IdleOK
  <2>3. QED
    BY <1>1, <2>1, <2>2
<1>8. QED
  BY <1>4, <1>5, <1>6, <1>7 DEF Calm

-----------------------------------------------------------------------------
(* Types. *)

(* The stores and what the properties remember, without the requests.      *)
StoreOK ==
  /\ row \in [Ids -> Users \cup {NoUser}]
  /\ used \subseteq Ids /\ {u \in Ids : row[u] # NoUser} \subseteq used
  /\ tokens \subseteq used \X Roles
  /\ requests \in Nat
  /\ decided \in [Ids -> Roles \cup {"none"}]
  /\ lastSet \in [Ids -> Passwords \cup {NoPassword}]
  /\ wasAdmin \subseteq Ids /\ overtaken \subseteq Ids

(* TypeInv in three parts. *)
LEMMA TypeParts ==
  TypeInv <=> /\ StoreOK /\ request \in [Slots -> Asks]
              /\ \A s \in Slots : AskOK(request[s])
BY DEF TypeInv, TypeOK, StoreOK, AskOK

(* The three parts after a step. *)
LEMMA TypePartsNext ==
  ASSUME StoreOK', request' \in [Slots -> Asks], \A s \in Slots : AskOK(request[s])'
  PROVE  TypeInv'
BY DEF TypeInv, TypeOK, StoreOK, AskOK

(* A row that is written is a row. *)
LEMMA WrittenOK ==
  ASSUME NEW r \in Asks
  PROVE  /\ [email |-> r.email, role |-> r.role, password |-> r.password,
             linked |-> r.op = "OAuthLogin"] \in Users
         /\ r.seen \in Users => Edited(r) \in Users
         /\ r.seen \in Users /\ r.op = "Update" =>
              Edited(r).role = r.role /\ Edited(r).email = r.email
         /\ r.seen \in Users /\ r.op # "Update" => Edited(r).role = r.seen.role
<1>1. /\ r.email \in Emails /\ r.role \in Roles /\ r.password \in Passwords \cup {NoPassword}
  BY DEF Asks
<1>2. (r.op = "OAuthLogin") \in BOOLEAN
  OBVIOUS
<1>3. [email |-> r.email, role |-> r.role, password |-> r.password,
       linked |-> r.op = "OAuthLogin"] \in Users
  BY <1>1, <1>2 DEF Users
<1>4. ASSUME r.seen \in Users, r.op = "Update"
      PROVE  Edited(r) \in Users /\ Edited(r).role = r.role /\ Edited(r).email = r.email
  BY <1>1, <1>4 DEF Edited, Users
<1>5. ASSUME r.seen \in Users, r.op # "Update"
      PROVE  Edited(r) \in Users /\ Edited(r).role = r.seen.role
  BY <1>5 DEF Edited, Users
<1>6. QED
  BY <1>3, <1>4, <1>5

(* The row that UpdateRow writes. *)
New(s) == [Edited(request[s]) EXCEPT !.password = row[request[s].target].password]

(* The row an update writes is a user with the stored password. *)
LEMMA NewOK ==
  ASSUME TypeInv, NEW s \in Slots, At(s, "updateRow"), row[request[s].target] # NoUser
  PROVE  /\ request[s].target \in used /\ request[s].target \in Ids
         /\ request[s].op \in {"Update", "OAuthLogin"} /\ request[s].seen \in Users
         /\ New(s) \in Users
         /\ New(s).password = row[request[s].target].password
         /\ New(s).email = Edited(request[s]).email
         /\ request[s].op = "Update" => New(s).role = request[s].role
         /\ request[s].op = "OAuthLogin" => New(s).role = request[s].seen.role
<1> DEFINE r == request[s]
<1>1. /\ r \in Asks /\ r.target \in Ids /\ r.seen \in Users
      /\ r.op \in {"Update", "OAuthLogin"}
  BY DEF TypeInv, TypeOK, AskOK, At, Reading
<1>2. r.target \in used /\ row[r.target] \in Users
  BY <1>1 DEF TypeInv, TypeOK
<1>3. /\ Edited(r) \in Users
      /\ r.op = "Update" => Edited(r).role = r.role
      /\ r.op # "Update" => Edited(r).role = r.seen.role
  BY <1>1, WrittenOK
<1>4. row[r.target].password \in Passwords \cup {NoPassword}
  BY <1>2 DEF Users
<1>5. New(s) = [Edited(r) EXCEPT !.password = row[r.target].password]
  BY DEF New
<1>6. /\ New(s) \in Users /\ New(s).password = row[r.target].password
      /\ New(s).email = Edited(r).email /\ New(s).role = Edited(r).role
  BY <1>3, <1>4, <1>5 DEF Users
<1>7. QED
  BY <1>1, <1>2, <1>3, <1>6

(* It is enough that the slot that moves stays in order. *)
LEMMA MoveOK ==
  ASSUME TypeInv, NEW s \in Slots, used' = used, request'[s] \in Asks, AskOK(request[s])',
         NEW q, request' = [request EXCEPT ![s] = q]
  PROVE  request' \in [Slots -> Asks] /\ \A t \in Slots : AskOK(request[t])'
<1>1. /\ request \in [Slots -> Asks] /\ \A t \in Slots : AskOK(request[t])
  BY DEF TypeInv, TypeOK
<1>2. \A t \in Slots : t # s => request'[t] = request[t]
  BY <1>1
<1>3. request' \in [Slots -> Asks]
  BY <1>1, <1>2
<1>4. ASSUME NEW t \in Slots PROVE AskOK(request[t])'
  <2>1. CASE t = s
    BY <2>1
  <2>2. CASE t # s
    BY <1>1, <1>2, <2>2 DEF AskOK
  <2>3. QED
    BY <2>1, <2>2
<1>5. QED
  BY <1>3, <1>4

(* Going on to another call. *)
LEMMA GotoFields ==
  ASSUME TypeInv, NEW s \in Slots, NEW label \in Reading \cup {"insertRow"}, Goto(s, label)
  PROVE  /\ request' = [request EXCEPT ![s] = request'[s]]
         /\ request'[s] \in Asks /\ request'[s].at = label
         /\ request'[s].seen = request[s].seen /\ request'[s].op = request[s].op
         /\ request'[s].target = request[s].target /\ request'[s].role = request[s].role
         /\ request'[s].stale = request[s].stale
BY DEF TypeInv, TypeOK, Goto, Asks, Reading

(* Reading an account by id keeps requests well formed. *)
LEMMA ByIdSlots ==
  ASSUME TypeInv, NEW s \in Slots, ById(s)
  PROVE  request' \in [Slots -> Asks] /\ \A t \in Slots : AskOK(request[t])'
<1> DEFINE r == request[s]
           user == row[r.target]
           label == IF Lowers(r, user) THEN "count" ELSE Write(r, user)
<1>1. /\ r \in Asks /\ AskOK(r) /\ r.at = "byId" /\ used' = used
      /\ request \in [Slots -> Asks]
  BY DEF TypeInv, TypeOK, ById, At, store
<1>2. CASE Reply(s)
  BY <1>1, <1>2, ReplyCalm, CalmOK DEF Calm
<1>3. CASE user # NoUser /\ request' = [request EXCEPT ![s].seen = user, ![s].at = label]
  <2>1. /\ r.target \in Ids /\ r.op \in {"Update", "ResetPassword", "Delete", "ChangePassword"}
    BY <1>1 DEF AskOK
  <2>2. user \in Users /\ r.target \in used
    BY <1>3, <2>1 DEF TypeInv, TypeOK
  <2>3. /\ label \in Reading
        /\ label = "count" => r.op \in {"Update", "Delete"} /\ Lowers(r, user)
        /\ label \in {"emailFree", "updateRow"} => r.op = "Update"
        /\ label = "setPassword" => r.op \in {"ResetPassword", "ChangePassword"}
        /\ label = "deleteRow" => r.op = "Delete"
    BY <2>1 DEF Write, Lowers, Reading
  <2>4. request' = [request EXCEPT ![s] = [r EXCEPT !.seen = user, !.at = label]]
    BY <1>1, <1>3
  <2> HIDE DEF label, user
  <2>5. request'[s] = [r EXCEPT !.seen = user, !.at = label]
    BY <1>1, <2>4
  <2>6. /\ request'[s] \in Asks /\ request'[s].at = label /\ request'[s].seen = user
        /\ request'[s].op = r.op /\ request'[s].target = r.target /\ request'[s].role = r.role
    <3>1. r \in Asks /\ user \in Users /\ label \in Reading
      BY <1>1, <2>2, <2>3
    <3> HIDE DEF r
    <3>2. QED
      BY ONLY <3>1, <2>5 DEF Asks, Reading
  <2>7. AskOK(request[s])'
    BY <1>1, <2>1, <2>2, <2>3, <2>6 DEF AskOK, Lowers, Reading
  <2>8. QED
    BY <1>1, <2>4, <2>6, <2>7, MoveOK
<1>4. QED
  BY <1>2, <1>3 DEF ById

(* Counting the admins keeps requests well formed. *)
LEMMA CountSlots ==
  ASSUME TypeInv, NEW s \in Slots, Count(s)
  PROVE  request' \in [Slots -> Asks] /\ \A t \in Slots : AskOK(request[t])'
<1> DEFINE r == request[s]
<1>1. AskOK(r) /\ r.at = "count" /\ used' = used
  BY DEF TypeInv, Count, At, store
<1>2. CASE Reply(s)
  BY <1>1, <1>2, ReplyCalm, CalmOK DEF Calm
<1>3. CASE Goto(s, Write(r, r.seen))
  <2>1. r.op \in {"Update", "Delete"}
    BY <1>1 DEF AskOK
  <2>2. /\ r.op = "Update" => Write(r, r.seen) \in {"emailFree", "updateRow"}
        /\ r.op = "Delete" => Write(r, r.seen) = "deleteRow"
    BY DEF Write
  <2>3. /\ request' = [request EXCEPT ![s] = request'[s]]
        /\ request'[s] \in Asks /\ request'[s].at = Write(r, r.seen)
        /\ request'[s].seen = r.seen /\ request'[s].op = r.op
        /\ request'[s].target = r.target
    BY <1>3, <2>1, <2>2, GotoFields DEF Reading
  <2>4. AskOK(request[s])'
    BY <1>1, <2>1, <2>2, <2>3 DEF AskOK, Reading
  <2>5. QED
    BY <1>1, <2>3, <2>4, MoveOK
<1>4. QED
  BY <1>2, <1>3 DEF Count

(* Checking the email keeps requests well formed. *)
LEMMA EmailFreeSlots ==
  ASSUME TypeInv, NEW s \in Slots, EmailFree(s)
  PROVE  request' \in [Slots -> Asks] /\ \A t \in Slots : AskOK(request[t])'
<1>1. AskOK(request[s]) /\ request[s].at = "emailFree" /\ used' = used
  BY DEF TypeInv, EmailFree, At, store
<1>2. CASE Reply(s)
  BY <1>1, <1>2, ReplyCalm, CalmOK DEF Calm
<1>3. CASE Goto(s, "updateRow")
  <2>1. /\ request' = [request EXCEPT ![s] = request'[s]]
        /\ request'[s] \in Asks /\ request'[s].at = "updateRow"
        /\ request'[s].seen = request[s].seen /\ request'[s].op = request[s].op
        /\ request'[s].target = request[s].target
    BY <1>3, GotoFields DEF Reading
  <2>2. AskOK(request[s])'
    BY <1>1, <2>1 DEF AskOK, Reading
  <2>3. QED
    BY <1>1, <2>1, <2>2, MoveOK
<1>4. QED
  BY <1>2, <1>3 DEF EmailFree

(* Reading an account by email may give a token for the stored role. *)
LEMMA ByEmailSlots ==
  ASSUME TypeInv, NEW s \in Slots, ByEmail(s)
  PROVE  /\ request' \in [Slots -> Asks] /\ \A t \in Slots : AskOK(request[t])'
         /\ \/ tokens' = tokens
            \/ \E u \in Holders(request[s].email) : tokens' = tokens \cup {<<u, row[u].role>>}
<1> DEFINE r == request[s]
<1>1. /\ r \in Asks /\ AskOK(r) /\ r.at = "byEmail" /\ used' = used
      /\ request \in [Slots -> Asks]
  BY DEF TypeInv, TypeOK, ByEmail, At
<1>2. ASSUME Reply(s) PROVE request' \in [Slots -> Asks] /\ \A t \in Slots : AskOK(request[t])'
  BY <1>1, <1>2, ReplyCalm, CalmOK DEF Calm
<1>3. CASE Unknown(s)
  <2>1. CASE Reply(s)
    BY <1>2, <1>3, <2>1 DEF Unknown
  <2>2. CASE r.op # "Login" /\ Goto(s, "insertRow")
    <3>1. /\ request' = [request EXCEPT ![s] = request'[s]]
          /\ request'[s] \in Asks /\ request'[s].at = "insertRow"
          /\ request'[s].seen = r.seen /\ request'[s].op = r.op
          /\ request'[s].target = r.target
      BY <2>2, GotoFields DEF Reading
    <3>2. AskOK(request[s])'
      BY <1>1, <2>2, <3>1 DEF AskOK, Reading
    <3>3. QED
      BY <1>1, <1>3, <3>1, <3>2, MoveOK DEF Unknown
  <2>3. QED
    BY <1>3, <2>1, <2>2 DEF Unknown
<1>4. ASSUME NEW u \in Holders(r.email), Known(s, u)
      PROVE  /\ request' \in [Slots -> Asks] /\ \A t \in Slots : AskOK(request[t])'
             /\ tokens' = tokens \/ tokens' = tokens \cup {<<u, row[u].role>>}
  <2>1. u \in Ids /\ row[u] \in Users /\ u \in used
    BY DEF Holders, TypeInv, TypeOK
  <2>2. CASE Reply(s)
    <3>1. tokens' = tokens \/ tokens' = tokens \cup {<<u, row[u].role>>}
      BY <1>4 DEF Known, Issue
    <3>2. QED
      BY <1>2, <2>2, <3>1
  <2>3. CASE /\ r.op = "OAuthLogin" /\ tokens' = tokens
             /\ request' = [request EXCEPT ![s].at = "updateRow", ![s].target = u,
                              ![s].seen = row[u]]
    <3>1. request' = [request EXCEPT ![s] =
                        [r EXCEPT !.at = "updateRow", !.target = u, !.seen = row[u]]]
      BY <1>1, <2>3
    <3>2. request'[s] = [r EXCEPT !.at = "updateRow", !.target = u, !.seen = row[u]]
      BY <1>1, <3>1
    <3>3. /\ request'[s] \in Asks /\ request'[s].at = "updateRow" /\ request'[s].seen = row[u]
          /\ request'[s].op = r.op /\ request'[s].target = u
      BY <1>1, <2>1, <3>2 DEF Asks
    <3>4. AskOK(request[s])'
      BY <1>1, <2>1, <2>3, <3>3 DEF AskOK, Reading
    <3>5. request' = [request EXCEPT ![s] = request'[s]]
      BY <3>1, <3>2
    <3>6. request' \in [Slots -> Asks] /\ \A t \in Slots : AskOK(request[t])'
      BY <1>1, <3>3, <3>4, <3>5, MoveOK
    <3>7. QED
      BY <2>3, <3>6
  <2>4. QED
    BY <1>4, <2>2, <2>3 DEF Known
<1>5. QED
  BY <1>3, <1>4 DEF ByEmail, Unknown

(* A step that leaves the stores alone. *)
Still == UNCHANGED <<store, requests, audit>>

(* A step that leaves the table alone keeps the types. *)
LEMMA StillOK ==
  ASSUME TypeInv, Still, request' \in [Slots -> Asks], \A t \in Slots : AskOK(request[t])'
  PROVE  TypeInv'
<1>1. StoreOK'
  BY TypeParts DEF Still, store, audit, StoreOK
<1>2. QED
  BY <1>1, TypePartsNext

(* A failed call keeps the types and the table. *)
LEMMA FailType ==
  ASSUME TypeInv, NEW s \in Slots, Fail(s)
  PROVE  TypeInv' /\ Still
<1>1. used' = used /\ Still
  BY DEF Fail, Still, store
<1>2. QED
  BY <1>1, ReplyCalm, CalmOK, StillOK DEF Fail, Calm

(* The parts of a row's insertion. *)
Inserted(s) ==
  [email |-> request[s].email, role |-> request[s].role, password |-> request[s].password,
   linked |-> request[s].op = "OAuthLogin"]
Inserts(s, u) ==
  /\ u \in Ids \ used /\ Holders(request[s].email) = {}
  /\ Replace(s, u, Inserted(s))
  /\ used' = used \cup {u}
  /\ tokens' = tokens \/ tokens' = tokens \cup {<<u, request[s].role>>}
  /\ decided' = [decided EXCEPT ![u] = request[s].role]
  /\ lastSet' = [lastSet EXCEPT ![u] = request[s].password]
  /\ requests' = requests

(* An INSERT fails, or inserts a row under a free id. *)
LEMMA InsertRowParts ==
  ASSUME NEW s \in Slots, InsertRow(s)
  PROVE  Fail(s) \/ \E u \in Ids : Inserts(s, u)
BY DEF InsertRow, Inserts, Inserted, Issue

(* What replacing a row does to the stores. *)
LEMMA ReplaceStores ==
  ASSUME TypeInv, NEW s \in Slots, NEW u \in Ids, NEW user \in Users \cup {NoUser},
         Replace(s, u, user)
  PROVE  /\ row' = [row EXCEPT ![u] = user]
         /\ row' \in [Ids -> Users \cup {NoUser}]
         /\ row'[u] = user /\ \A v \in Ids : v # u => row'[v] = row[v]
         /\ wasAdmin' = IF user.role = "admin" THEN wasAdmin \cup {u} ELSE wasAdmin
         /\ wasAdmin' \subseteq Ids /\ overtaken' \subseteq Ids
         /\ overtaken \subseteq overtaken'
         /\ Changes(u, user) /\ request[s].stale => u \in overtaken'
<1>1. row' = [row EXCEPT ![u] = user]
  BY DEF Replace
<1>2. wasAdmin' = IF user.role = "admin" THEN wasAdmin \cup {u} ELSE wasAdmin
  BY DEF Replace
<1>3. overtaken' = IF Changes(u, user) /\ request[s].stale THEN overtaken \cup {u} ELSE overtaken
  BY DEF Replace, Changes
<1>4. row \in [Ids -> Users \cup {NoUser}] /\ wasAdmin \subseteq Ids /\ overtaken \subseteq Ids
  BY DEF TypeInv, TypeOK
<1>5. /\ row' \in [Ids -> Users \cup {NoUser}]
      /\ row'[u] = user /\ \A v \in Ids : v # u => row'[v] = row[v]
  BY <1>1, <1>4
<1>6. wasAdmin' \subseteq Ids
  BY <1>2, <1>4
<1>7. overtaken' \subseteq Ids /\ overtaken \subseteq overtaken'
  BY <1>3, <1>4
<1>8. Changes(u, user) /\ request[s].stale => u \in overtaken'
  BY <1>3
<1>9. QED
  BY <1>1, <1>2, <1>5, <1>6, <1>7, <1>8

(* A new row keeps the types. *)
LEMMA InsertType ==
  ASSUME TypeInv, NEW s \in Slots, NEW u \in Ids, Inserts(s, u)
  PROVE  TypeInv'
<1>1. Inserted(s) \in Users /\ request[s].role \in Roles
      /\ request[s].password \in Passwords \cup {NoPassword}
  BY WrittenOK DEF Inserted, TypeInv, TypeOK, Asks
<1>2. /\ row' \in [Ids -> Users \cup {NoUser}]
      /\ \A v \in Ids : v # u => row'[v] = row[v]
      /\ wasAdmin' \subseteq Ids /\ overtaken' \subseteq Ids
  BY <1>1, ReplaceStores DEF Inserts
<1>3. StoreOK
  BY TypeParts
<1>4. used' = used \cup {u} /\ requests' = requests
  BY DEF Inserts
<1>5. tokens' \subseteq used' \X Roles
  BY <1>1, <1>3, <1>4 DEF Inserts, StoreOK
<1>6. decided' \in [Ids -> Roles \cup {"none"}] /\ lastSet' \in [Ids -> Passwords \cup {NoPassword}]
  BY <1>1, <1>3 DEF Inserts, StoreOK
<1>7. StoreOK'
  BY <1>2, <1>3, <1>4, <1>5, <1>6 DEF StoreOK
<1>8. Calm
  BY ReplaceSlots DEF Inserts
<1>9. QED
  BY <1>4, <1>7, <1>8, CalmOK, TypePartsNext DEF Calm

(* The parts of an update. *)
Updates(s) ==
  LET u == request[s].target IN
  /\ row[u] # NoUser /\ Holders(New(s).email) \subseteq {u}
  /\ Replace(s, u, New(s))
  /\ IF request[s].op = "Update"
     THEN decided' = [decided EXCEPT ![u] = request[s].role] /\ tokens' = tokens
     ELSE tokens' = tokens \cup {<<u, New(s).role>>} /\ decided' = decided
  /\ used' = used /\ requests' = requests /\ lastSet' = lastSet

(* An UPDATE fails or writes the row. *)
LEMMA UpdateRowParts ==
  ASSUME NEW s \in Slots, UpdateRow(s)
  PROVE  Fail(s) \/ Updates(s)
BY DEF UpdateRow, Updates, New, Issue

(* An updated row keeps the types. *)
LEMMA UpdateType ==
  ASSUME TypeInv, NEW s \in Slots, At(s, "updateRow"), Updates(s)
  PROVE  TypeInv'
<1> DEFINE u == request[s].target
<1>1. row[u] # NoUser /\ Replace(s, u, New(s))
      /\ used' = used /\ requests' = requests /\ lastSet' = lastSet
  BY DEF Updates
<1>2. u \in used /\ u \in Ids /\ New(s) \in Users /\ New(s).role \in Roles
      /\ request[s].role \in Roles
  BY <1>1, NewOK DEF Users, TypeInv, TypeOK, Asks
<1>3. /\ row' \in [Ids -> Users \cup {NoUser}]
      /\ \A v \in Ids : v # u => row'[v] = row[v]
      /\ wasAdmin' \subseteq Ids /\ overtaken' \subseteq Ids
  BY <1>1, <1>2, ReplaceStores
<1>4. StoreOK
  BY TypeParts
<1>5. tokens' \subseteq used' \X Roles /\ decided' \in [Ids -> Roles \cup {"none"}]
  BY <1>1, <1>2, <1>4 DEF Updates, StoreOK
<1>6. StoreOK'
  BY <1>1, <1>2, <1>3, <1>4, <1>5 DEF StoreOK
<1>7. Calm
  BY <1>1, <1>2, ReplaceSlots
<1>8. QED
  BY <1>1, <1>6, <1>7, CalmOK, TypePartsNext DEF Calm

(* The parts of a new password. *)
SetsPassword(s) ==
  LET u == request[s].target IN
  /\ row[u] # NoUser
  /\ row' = [row EXCEPT ![u].password = request[s].password]
  /\ lastSet' = [lastSet EXCEPT ![u] = request[s].password]
  /\ Reply(s)
  /\ UNCHANGED <<used, tokens, requests, decided, wasAdmin, overtaken>>

(* Setting a password fails or sets it. *)
LEMMA SetPasswordParts ==
  ASSUME NEW s \in Slots, SetPassword(s)
  PROVE  Fail(s) \/ SetsPassword(s)
BY DEF SetPassword, SetsPassword

(* The password changes, and nothing else of the table. *)
LEMMA SetPasswordStores ==
  ASSUME TypeInv, NEW s \in Slots, At(s, "setPassword"), SetsPassword(s)
  PROVE  /\ request[s].target \in Ids /\ request[s].target \in used
         /\ row' \in [Ids -> Users \cup {NoUser}]
         /\ row'[request[s].target].password = request[s].password
         /\ \A v \in Ids : v # request[s].target => row'[v] = row[v]
         /\ \A v \in Ids : /\ row'[v].role = row[v].role /\ row'[v].email = row[v].email
                           /\ row'[v] = NoUser <=> row[v] = NoUser
         /\ lastSet' \in [Ids -> Passwords \cup {NoPassword}]
<1> DEFINE r == request[s]
           u == r.target
           p == r.password
<1>1. u \in Ids /\ p \in Passwords \cup {NoPassword} /\ row[u] # NoUser
  BY DEF TypeInv, TypeOK, AskOK, At, Reading, Asks, SetsPassword
<1>2. row \in [Ids -> Users \cup {NoUser}] /\ u \in used /\ row[u] \in Users
  BY <1>1 DEF TypeInv, TypeOK
<1> DEFINE new == [row[u] EXCEPT !.password = p]
<1>3. new \in Users /\ new.password = p /\ new.role = row[u].role /\ new.email = row[u].email
  BY <1>1, <1>2 DEF Users
<1>4. row' = [row EXCEPT ![u] = new]
  BY <1>2 DEF SetsPassword
<1>5. lastSet' = [lastSet EXCEPT ![u] = p] /\ lastSet \in [Ids -> Passwords \cup {NoPassword}]
  BY DEF SetsPassword, TypeInv, TypeOK
<1> HIDE DEF new, p
<1>6. /\ row' \in [Ids -> Users \cup {NoUser}] /\ row'[u] = new
      /\ \A v \in Ids : v # u => row'[v] = row[v]
  BY <1>1, <1>2, <1>3, <1>4
<1>7. lastSet' \in [Ids -> Passwords \cup {NoPassword}]
  BY <1>1, <1>5
<1>8. \A v \in Ids : /\ row'[v].role = row[v].role /\ row'[v].email = row[v].email
                     /\ row'[v] = NoUser <=> row[v] = NoUser
  BY <1>1, <1>3, <1>6, NoUserIsNoRow
<1>9. QED
  BY <1>1, <1>2, <1>3, <1>6, <1>7, <1>8 DEF p

(* A new password keeps the types. *)
LEMMA SetPasswordType ==
  ASSUME TypeInv, NEW s \in Slots, At(s, "setPassword"), SetsPassword(s)
  PROVE  TypeInv'
<1>1. StoreOK' /\ used' = used
  BY TypeParts, SetPasswordStores DEF StoreOK, SetsPassword
<1>2. Calm
  BY ReplyCalm DEF SetsPassword
<1>3. QED
  BY <1>1, <1>2, CalmOK, TypePartsNext DEF Calm

(* The parts of a deletion. *)
Deletes(s) ==
  /\ row[request[s].target] # NoUser
  /\ Replace(s, request[s].target, NoUser)
  /\ UNCHANGED <<used, tokens, requests, decided, lastSet>>

(* A DELETE fails or removes the row. *)
LEMMA DeleteRowParts ==
  ASSUME NEW s \in Slots, DeleteRow(s)
  PROVE  Fail(s) \/ Deletes(s)
BY DEF DeleteRow, Deletes

(* A removed row keeps the types. *)
LEMMA DeleteType ==
  ASSUME TypeInv, NEW s \in Slots, At(s, "deleteRow"), Deletes(s)
  PROVE  TypeInv' /\ request[s].target \in Ids /\ request[s].seen \in Users
<1> DEFINE u == request[s].target
<1>1. u \in Ids /\ request[s].seen \in Users
  BY DEF TypeInv, AskOK, At, Reading
<1>2. /\ row' \in [Ids -> Users \cup {NoUser}] /\ row'[u] = NoUser
      /\ \A v \in Ids : v # u => row'[v] = row[v]
      /\ wasAdmin' \subseteq Ids /\ overtaken' \subseteq Ids
  BY <1>1, ReplaceStores DEF Deletes
<1>3. StoreOK' /\ used' = used
  BY <1>2, TypeParts DEF StoreOK, Deletes
<1>4. Calm
  BY ReplaceSlots DEF Deletes
<1>5. QED
  BY <1>1, <1>3, <1>4, CalmOK, TypePartsNext DEF Calm

(* The parts of a start that seeds the admin. *)
Seeded == [email |-> DefaultEmail, role |-> "admin", password |-> SeedPassword, linked |-> FALSE]
Seeds(u) ==
  /\ u \in Ids \ used /\ Holders(DefaultEmail) = {}
  /\ row' = [row EXCEPT ![u] = Seeded]
  /\ used' = used \cup {u} /\ wasAdmin' = wasAdmin \cup {u}
  /\ decided' = [decided EXCEPT ![u] = "admin"]
  /\ lastSet' = [lastSet EXCEPT ![u] = SeedPassword]

(* A restart ends every request, and may seed one account. *)
LEMMA RestartParts ==
  ASSUME TypeInv, Restart
  PROVE  /\ Calm /\ \A s \in Slots : request'[s] = Idle
         /\ UNCHANGED <<tokens, requests, overtaken>>
         /\ \/ UNCHANGED <<row, used, decided, lastSet, wasAdmin>>
            \/ \E u \in Ids : Seeds(u)
BY IdleOK DEF Restart, Calm, Seeds, Seeded

(* A restart keeps the types. *)
LEMMA RestartType ==
  ASSUME TypeInv, Restart
  PROVE  TypeInv'
<1>1. StoreOK /\ Calm /\ UNCHANGED <<tokens, requests, overtaken>>
  BY RestartParts, TypeParts
<1>2. CASE UNCHANGED <<row, used, decided, lastSet, wasAdmin>>
  BY <1>1, <1>2, CalmOK, TypePartsNext DEF StoreOK, Calm
<1>3. ASSUME NEW u \in Ids, Seeds(u) PROVE TypeInv'
  <2>1. Seeded \in Users
    BY SeedAssumption DEF Seeded, Users, Roles
  <2>2. StoreOK' /\ used \subseteq used'
    <3>1. /\ row' \in [Ids -> Users \cup {NoUser}] /\ used' = used \cup {u}
          /\ \A v \in Ids : v # u => row'[v] = row[v]
          /\ wasAdmin' \subseteq Ids
      BY <1>1, <1>3, <2>1 DEF Seeds, StoreOK
    <3>2. /\ decided' \in [Ids -> Roles \cup {"none"}]
          /\ lastSet' \in [Ids -> Passwords \cup {NoPassword}]
      BY <1>1, <1>3, SeedAssumption DEF Seeds, StoreOK, Roles
    <3>3. QED
      BY <1>1, <3>1, <3>2 DEF StoreOK
  <2>3. QED
    BY <1>1, <2>2, CalmOK, TypePartsNext DEF Calm
<1>4. QED
  BY <1>2, <1>3, RestartParts

(* A new request keeps the types and touches nothing else. *)
LEMMA RequestType ==
  ASSUME TypeInv, NEW s \in Slots, Request(s)
  PROVE  /\ TypeInv' /\ At(s, "done") /\ UNCHANGED <<store, audit>>
         /\ request'[s].at \in {"byId", "byEmail"}
         /\ \A t \in Slots : t # s => request'[t] = request[t]
<1>1. PICK op \in Operations, token \in tokens \cup {<<NoId, "user">>} :
        /\ token[1] = NoId <=> op \in Anybody
        /\ \E r \in Asked(op, token[1]) : request' = [request EXCEPT ![s] = r]
  BY DEF Request
<1>2. token[1] \in Ids \cup {NoId}
  BY DEF TypeInv, TypeOK
<1>3. PICK r \in Asked(op, token[1]) : request' = [request EXCEPT ![s] = r]
  BY <1>1
<1>4. r \in Asks /\ AskOK(r) /\ r.at \in {"byId", "byEmail"}
  BY <1>1, <1>2, AskedOK
<1>5. UNCHANGED <<store, audit>> /\ At(s, "done") /\ requests' = requests + 1
  BY DEF Request
<1>6. request \in [Slots -> Asks] /\ request'[s] = r
      /\ \A t \in Slots : t # s => request'[t] = request[t]
  BY <1>3 DEF TypeInv, TypeOK
<1>7. AskOK(request[s])' /\ used' = used
  BY <1>4, <1>5, <1>6 DEF AskOK, store
<1>8. request' \in [Slots -> Asks] /\ \A t \in Slots : AskOK(request[t])'
  BY <1>3, <1>4, <1>6, <1>7, MoveOK
<1>9. StoreOK'
  BY <1>5, TypeParts DEF StoreOK, store, audit
<1>10. QED
  BY <1>4, <1>5, <1>6, <1>8, <1>9, TypePartsNext

(* A handler's call either only reads or is one of the four writes.        *)
LEMMA HandlerParts ==
  ASSUME TypeInv, NEW s \in Slots, Handler(s)
  PROVE  \/ (ById(s) \/ Count(s) \/ EmailFree(s)) /\ Still
         \/ ByEmail(s) /\ UNCHANGED <<row, used, requests, audit>>
         \/ Fail(s)
         \/ \E u \in Ids : At(s, "insertRow") /\ Inserts(s, u)
         \/ At(s, "updateRow") /\ Updates(s)
         \/ At(s, "setPassword") /\ SetsPassword(s)
         \/ At(s, "deleteRow") /\ Deletes(s)
<1>1. InsertRow(s) => At(s, "insertRow")
  BY DEF InsertRow
<1>2. UpdateRow(s) => At(s, "updateRow")
  BY DEF UpdateRow
<1>3. SetPassword(s) => At(s, "setPassword")
  BY DEF SetPassword
<1>4. DeleteRow(s) => At(s, "deleteRow")
  BY DEF DeleteRow
<1>5. ById(s) \/ Count(s) \/ EmailFree(s) => Still
  BY DEF ById, Count, EmailFree, Still
<1>6. ByEmail(s) => UNCHANGED <<row, used, requests, audit>>
  BY DEF ByEmail
<1>7. QED
  BY <1>1, <1>2, <1>3, <1>4, <1>5, <1>6, InsertRowParts, UpdateRowParts, SetPasswordParts,
     DeleteRowParts DEF Handler

(* Every step of a handler keeps the types. *)
LEMMA HandlerType ==
  ASSUME TypeInv, NEW s \in Slots, Handler(s)
  PROVE  TypeInv'
<1>1. CASE (ById(s) \/ Count(s) \/ EmailFree(s)) /\ Still
  BY <1>1, ByIdSlots, CountSlots, EmailFreeSlots, StillOK
<1>2. CASE ByEmail(s) /\ UNCHANGED <<row, used, requests, audit>>
  <2>1. tokens' \subseteq used' \X Roles
    <3>1. tokens \subseteq used \X Roles /\ used' = used
      BY <1>2 DEF TypeInv, TypeOK
    <3>2. \A u \in Holders(request[s].email) : u \in used /\ row[u].role \in Roles
      BY DEF Holders, TypeInv, TypeOK, Users
    <3>3. QED
      BY <1>2, <3>1, <3>2, ByEmailSlots
  <2>2. StoreOK'
    BY <1>2, <2>1, TypeParts DEF StoreOK, audit
  <2>3. QED
    BY <1>2, <2>2, ByEmailSlots, TypePartsNext
<1>3. QED
  BY <1>1, <1>2, HandlerParts, FailType, InsertType, UpdateType, SetPasswordType, DeleteType

(* The types hold at the start. *)
LEMMA InitTypes == Init => TypeInv
<1> SUFFICES ASSUME Init PROVE TypeInv
  OBVIOUS
<1>1. row \in [Ids -> Users \cup {NoUser}] /\ used = {u \in Ids : row[u] # NoUser}
  BY TableAssumption DEF Init
<1>2. \A u \in Ids : /\ u \in used => row[u].role \in Roles
                     /\ row[u].role \in Roles \cup {"none"}
                     /\ row[u].password \in Passwords \cup {NoPassword}
  BY <1>1 DEF Users, NoUser
<1>3. tokens \subseteq used \X Roles
  BY <1>1, <1>2 DEF Init
<1>4. /\ decided \in [Ids -> Roles \cup {"none"}]
      /\ lastSet \in [Ids -> Passwords \cup {NoPassword}]
      /\ wasAdmin \subseteq Ids /\ overtaken \subseteq Ids /\ requests \in Nat
  BY <1>2 DEF Init, Admins
<1>5. request \in [Slots -> Asks] /\ \A s \in Slots : AskOK(request[s])
  BY IdleOK DEF Init
<1>6. QED
  BY <1>1, <1>3, <1>4, <1>5, TypeParts DEF StoreOK

(* Every step keeps the types. *)
LEMMA StepTypes == TypeInv /\ [Next]_vars => TypeInv'
<1> SUFFICES ASSUME TypeInv, [Next]_vars PROVE TypeInv'
  OBVIOUS
<1>1. CASE ExpireToken
  <2>1. StoreOK' /\ used' = used /\ request' = request
    BY <1>1, TypeParts DEF ExpireToken, StoreOK, audit
  <2>2. QED
    BY <2>1, TypeParts, TypePartsNext DEF AskOK
<1>2. CASE UNCHANGED vars
  BY <1>2 DEF vars, TypeInv, TypeOK, AskOK, Reading
<1>3. QED
  BY <1>1, <1>2, RequestType, HandlerType, FailType, RestartType DEF Next, Abandon

(* Every variable keeps its type, and a request that has read a row knows  *)
(* whose row it is about to write, whatever requests interleave.           *)
THEOREM TypeCorrect == Spec => []TypeOK
<1>1. TypeInv => TypeOK
  BY DEF TypeInv
<1>2. QED
  BY <1>1, InitTypes, StepTypes, PTL DEF Spec

-----------------------------------------------------------------------------
(* What a step does to the table. *)

(* It leaves the table alone, and may hand out a token of a row, or it is  *)
(* one of the five writes.                                                 *)
Quiet ==
  /\ UNCHANGED <<row, used, decided, lastSet, wasAdmin, overtaken>>
  /\ \/ tokens' \subseteq tokens
     \/ \E u \in Ids : tokens' = tokens \cup {<<u, row[u].role>>}
Writes ==
  \/ \E s \in Slots, u \in Ids : At(s, "insertRow") /\ Inserts(s, u)
  \/ \E s \in Slots : At(s, "updateRow") /\ Updates(s)
  \/ \E s \in Slots : At(s, "setPassword") /\ SetsPassword(s)
  \/ \E s \in Slots : At(s, "deleteRow") /\ Deletes(s)
  \/ \E u \in Ids : Restart /\ Seeds(u)

(* A step leaves the table alone or is one of five writes. *)
LEMMA StepParts ==
  ASSUME TypeInv, [Next]_vars
  PROVE  Quiet \/ Writes
<1>1. ASSUME NEW s \in Slots, Handler(s) PROVE Quiet \/ Writes
  <2>1. ByEmail(s) /\ UNCHANGED <<row, used, requests, audit>> => Quiet
    BY ByEmailSlots DEF Quiet, audit, Holders
  <2>2. Still => Quiet
    BY DEF Still, Quiet, store, audit
  <2>3. QED
    BY <1>1, <2>1, <2>2, HandlerParts, FailType DEF Writes
<1>2. ASSUME NEW s \in Slots, Request(s) \/ Abandon(s) PROVE Quiet
  BY <1>2 DEF Request, Abandon, Fail, Quiet, store, audit
<1>3. CASE ExpireToken
  BY <1>3 DEF ExpireToken, Quiet, audit
<1>4. CASE Restart
  BY <1>4, RestartParts DEF Quiet, Writes
<1>5. CASE UNCHANGED vars
  BY <1>5 DEF vars, Quiet
<1>6. QED
  BY <1>1, <1>2, <1>3, <1>4, <1>5 DEF Next

(* A row that appears has an id that was never used, and an email nobody   *)
(* has.                                                                    *)
LEMMA InsertTable ==
  ASSUME TypeInv, NEW s \in Slots, NEW u \in Ids, Inserts(s, u)
  PROVE  /\ u \notin used /\ row[u] = NoUser
         /\ row'[u] = Inserted(s) /\ \A v \in Ids : v # u => row'[v] = row[v]
         /\ Inserted(s) \in Users
         /\ Inserted(s).email = request[s].email /\ Inserted(s).role = request[s].role
         /\ Inserted(s).password = request[s].password
         /\ wasAdmin' = IF request[s].role = "admin" THEN wasAdmin \cup {u} ELSE wasAdmin
         /\ overtaken \subseteq overtaken'
<1>1. Inserted(s) \in Users
  BY WrittenOK DEF Inserted, TypeInv, TypeOK
<1>2. u \notin used /\ row[u] = NoUser
  BY DEF Inserts, TypeInv, TypeOK
<1>3. Inserted(s).email = request[s].email /\ Inserted(s).role = request[s].role
         /\ Inserted(s).password = request[s].password
  BY DEF Inserted
<1>4. QED
  BY <1>1, <1>2, <1>3, ReplaceStores DEF Inserts

(* What the seed does to the table. *)
LEMMA SeedTable ==
  ASSUME TypeInv, NEW u \in Ids, Seeds(u)
  PROVE  /\ u \notin used /\ row[u] = NoUser
         /\ row'[u] = Seeded /\ \A v \in Ids : v # u => row'[v] = row[v]
         /\ Seeded \in Users
BY SeedAssumption DEF Seeds, Seeded, TypeInv, TypeOK, Users, Roles

(* What an update does to the table and to the histories. *)
LEMMA UpdateTable ==
  ASSUME TypeInv, NEW s \in Slots, At(s, "updateRow"), Updates(s)
  PROVE  /\ request[s].target \in Ids /\ row[request[s].target] # NoUser
         /\ row'[request[s].target] = New(s) /\ New(s) \in Users
         /\ \A v \in Ids : v # request[s].target => row'[v] = row[v]
         /\ wasAdmin' = IF New(s).role = "admin" THEN wasAdmin \cup {request[s].target}
                        ELSE wasAdmin
         /\ overtaken \subseteq overtaken'
         /\ Changes(request[s].target, New(s)) /\ request[s].stale =>
              request[s].target \in overtaken'
BY NewOK, ReplaceStores DEF Updates

(* What a deletion does to the table and to the histories. *)
LEMMA DeleteTable ==
  ASSUME TypeInv, NEW s \in Slots, At(s, "deleteRow"), Deletes(s)
  PROVE  /\ request[s].target \in Ids /\ row[request[s].target] # NoUser
         /\ row'[request[s].target] = NoUser
         /\ \A v \in Ids : v # request[s].target => row'[v] = row[v]
         /\ wasAdmin' = wasAdmin
         /\ overtaken \subseteq overtaken'
         /\ request[s].stale => request[s].target \in overtaken'
<1>1. request[s].target \in Ids /\ row[request[s].target] # NoUser
  BY DeleteType DEF Deletes
<1>2. Changes(request[s].target, NoUser) /\ NoUser.role # "admin"
  BY <1>1, NoUserIsNoRow DEF Changes, TypeInv, TypeOK, Users, Roles
<1>3. QED
  BY <1>1, <1>2, ReplaceStores DEF Deletes

-----------------------------------------------------------------------------
(* Emails. *)

(* A row whose email nobody else has may come in the place of another.     *)
LEMMA UniqueStays ==
  ASSUME TypeInv, EmailsUnique(row), NEW u \in Ids, row' \in [Ids -> Users \cup {NoUser}],
         \A v \in Ids : v # u => row'[v] = row[v],
         row'[u] # NoUser => Holders(row'[u].email) \subseteq {u}
  PROVE  EmailsUnique(row)'
<1>1. row \in [Ids -> Users \cup {NoUser}]
  BY DEF TypeInv, TypeOK
<1>2. SUFFICES ASSUME NEW v \in Ids, NEW w \in Ids, row'[v] # NoUser,
                      row'[v].email = row'[w].email
               PROVE  v = w
  BY DEF EmailsUnique
<1>3. row'[v].email \in Emails /\ NoUser.email \notin Emails
  BY <1>2, NamesAssumption DEF Users, NoUser
<1>4. row'[w] # NoUser
  BY <1>2, <1>3
<1>5. CASE v # u /\ w # u
  BY <1>2, <1>5 DEF EmailsUnique
<1>6. CASE v = u /\ w # u
  BY <1>2, <1>4, <1>6 DEF Holders
<1>7. CASE v # u /\ w = u
  BY <1>2, <1>4, <1>7 DEF Holders
<1>8. QED
  BY <1>5, <1>6, <1>7

(* Every step keeps the emails unique. *)
LEMMA StepEmails == TypeInv /\ EmailsUnique(row) /\ [Next]_vars => EmailsUnique(row)'
<1> SUFFICES ASSUME TypeInv, EmailsUnique(row), [Next]_vars PROVE EmailsUnique(row)'
  OBVIOUS
<1>0. row' \in [Ids -> Users \cup {NoUser}]
  BY StepTypes DEF TypeInv, TypeOK
<1>1. CASE Quiet
  BY <1>1 DEF Quiet, EmailsUnique
<1>2. ASSUME NEW s \in Slots, NEW u \in Ids, Inserts(s, u) PROVE EmailsUnique(row)'
  BY <1>0, <1>2, InsertTable, UniqueStays DEF Inserts
<1>3. ASSUME NEW s \in Slots, At(s, "updateRow"), Updates(s) PROVE EmailsUnique(row)'
  BY <1>0, <1>3, UpdateTable, UniqueStays DEF Updates
<1>4. ASSUME NEW s \in Slots, At(s, "setPassword"), SetsPassword(s) PROVE EmailsUnique(row)'
  BY <1>4, SetPasswordStores DEF EmailsUnique
<1>5. ASSUME NEW s \in Slots, At(s, "deleteRow"), Deletes(s) PROVE EmailsUnique(row)'
  BY <1>0, <1>5, DeleteTable, UniqueStays
<1>6. ASSUME NEW u \in Ids, Seeds(u) PROVE EmailsUnique(row)'
  <2>1. row'[u].email = DefaultEmail
    BY <1>6, SeedTable DEF Seeded
  <2>2. QED
    BY <1>0, <1>6, <2>1, SeedTable, UniqueStays DEF Seeds
<1>7. QED
  BY <1>1, <1>2, <1>3, <1>4, <1>5, <1>6, StepParts DEF Writes

(* No two accounts share an email, for any number of registrations, Google *)
(* sign-ins, admin edits and restarts that race between check and write.   *)
THEOREM EmailsStayUnique == Spec => []OneAccountPerEmail
<1>1. Init => EmailsUnique(row)
  BY TableAssumption DEF Init
<1>2. Spec => []EmailsUnique(row)
  BY <1>1, InitTypes, StepTypes, StepEmails, PTL DEF Spec
<1>3. QED
  BY <1>2 DEF OneAccountPerEmail

-----------------------------------------------------------------------------
(* Passwords. *)

(* Every step keeps the passwords as last set. *)
LEMMA StepPasswords == TypeInv /\ PasswordIsLastSet /\ [Next]_vars => PasswordIsLastSet'
<1> SUFFICES ASSUME TypeInv, PasswordIsLastSet, [Next]_vars PROVE PasswordIsLastSet'
  OBVIOUS
<1>0. lastSet \in [Ids -> Passwords \cup {NoPassword}]
  BY DEF TypeInv, TypeOK
<1>1. CASE Quiet
  BY <1>1 DEF Quiet, PasswordIsLastSet
<1>2. ASSUME NEW s \in Slots, NEW u \in Ids, Inserts(s, u) PROVE PasswordIsLastSet'
  <2>1. lastSet'[u] = request[s].password /\ \A v \in Ids : v # u => lastSet'[v] = lastSet[v]
    BY <1>0, <1>2 DEF Inserts
  <2>2. QED
    BY <1>2, <2>1, InsertTable DEF PasswordIsLastSet
<1>3. ASSUME NEW s \in Slots, At(s, "updateRow"), Updates(s) PROVE PasswordIsLastSet'
  BY <1>3, UpdateTable, NewOK DEF Updates, PasswordIsLastSet
<1>4. ASSUME NEW s \in Slots, At(s, "setPassword"), SetsPassword(s) PROVE PasswordIsLastSet'
  <2>1. /\ lastSet'[request[s].target] = request[s].password
        /\ \A v \in Ids : v # request[s].target => lastSet'[v] = lastSet[v]
    BY <1>0, <1>4, SetPasswordStores DEF SetsPassword
  <2>2. QED
    BY <1>4, <2>1, SetPasswordStores DEF PasswordIsLastSet
<1>5. ASSUME NEW s \in Slots, At(s, "deleteRow"), Deletes(s) PROVE PasswordIsLastSet'
  BY <1>5, DeleteTable DEF Deletes, PasswordIsLastSet
<1>6. ASSUME NEW u \in Ids, Seeds(u) PROVE PasswordIsLastSet'
  <2>1. lastSet'[u] = SeedPassword /\ \A v \in Ids : v # u => lastSet'[v] = lastSet[v]
    BY <1>0, <1>6 DEF Seeds
  <2>2. row'[u].password = SeedPassword
    BY <1>6, SeedTable DEF Seeded
  <2>3. QED
    BY <1>6, <2>1, <2>2, SeedTable DEF PasswordIsLastSet
<1>7. QED
  BY <1>1, <1>2, <1>3, <1>4, <1>5, <1>6, StepParts DEF Writes

(* The stored password is the last one set, however updates of the row     *)
(* that read it before the change come in after it.                        *)
THEOREM PasswordsAreKept == Spec => []PasswordIsLastSet
<1>1. Init => PasswordIsLastSet
  BY DEF Init, PasswordIsLastSet
<1>2. QED
  BY <1>1, InitTypes, StepTypes, StepPasswords, PTL DEF Spec

-----------------------------------------------------------------------------
(* Deleted accounts. *)

(* A deleted account never comes back, whoever still holds its row.        *)
THEOREM DeletedAccountsStayDeleted == Spec => DeletedStaysDeleted
<1> DEFINE Gone == \A u \in used : row[u] = NoUser => row'[u] = NoUser
<1>1. TypeInv /\ [Next]_vars => Gone
  <2> SUFFICES ASSUME TypeInv, [Next]_vars, NEW u \in used, row[u] = NoUser
               PROVE  row'[u] = NoUser
    OBVIOUS
  <2>1. u \in Ids
    BY DEF TypeInv, TypeOK
  <2>2. CASE Quiet
    BY <2>2 DEF Quiet
  <2>3. CASE Writes
    BY <2>1, <2>3, InsertTable, UpdateTable, SetPasswordStores, DeleteTable, SeedTable DEF Writes
  <2>4. QED
    BY <2>2, <2>3, StepParts
<1> HIDE DEF Gone
<1>2. Spec => [][Gone]_vars
  BY <1>1, InitTypes, StepTypes, PTL DEF Spec
<1>3. QED
  BY <1>2 DEF DeletedStaysDeleted, Gone

-----------------------------------------------------------------------------
(* Tokens. *)

(* Whoever is an admin is remembered. *)
TokenInv == Admins \subseteq wasAdmin /\ TokenRoleWasStored

(* Every step keeps the tokens true to the roles there were. *)
LEMMA StepTokens == TypeInv /\ TokenInv /\ [Next]_vars => TokenInv'
<1> SUFFICES ASSUME TypeInv, TokenInv, [Next]_vars PROVE TokenInv'
  OBVIOUS
<1>1. CASE Quiet
  BY <1>1 DEF Quiet, TokenInv, TokenRoleWasStored, Admins
<1>2. ASSUME NEW s \in Slots, NEW u \in Ids, Inserts(s, u) PROVE TokenInv'
  <2>1. Admins' \subseteq wasAdmin' /\ wasAdmin \subseteq wasAdmin'
    BY <1>2, InsertTable DEF TokenInv, Admins
  <2>2. tokens' = tokens \/ tokens' = tokens \cup {<<u, request[s].role>>}
    BY <1>2 DEF Inserts
  <2>3. request[s].role = "admin" => u \in wasAdmin'
    BY <1>2, InsertTable
  <2>4. QED
    BY <2>1, <2>2, <2>3 DEF TokenInv, TokenRoleWasStored
<1>3. ASSUME NEW s \in Slots, At(s, "updateRow"), Updates(s) PROVE TokenInv'
  <2>1. Admins' \subseteq wasAdmin' /\ wasAdmin \subseteq wasAdmin'
    BY <1>3, UpdateTable DEF TokenInv, Admins
  <2>2. tokens' = tokens \/ tokens' = tokens \cup {<<request[s].target, New(s).role>>}
    BY <1>3 DEF Updates
  <2>3. New(s).role = "admin" => request[s].target \in wasAdmin'
    BY <1>3, UpdateTable
  <2>4. QED
    BY <2>1, <2>2, <2>3 DEF TokenInv, TokenRoleWasStored
<1>4. ASSUME NEW s \in Slots, At(s, "setPassword"), SetsPassword(s) PROVE TokenInv'
  BY <1>4, SetPasswordStores DEF SetsPassword, TokenInv, TokenRoleWasStored, Admins
<1>5. ASSUME NEW s \in Slots, At(s, "deleteRow"), Deletes(s) PROVE TokenInv'
  <2>1. NoUser.role # "admin"
    BY DEF NoUser
  <2>2. Admins' \subseteq Admins
    BY <1>5, <2>1, DeleteTable DEF Admins
  <2>3. wasAdmin' = wasAdmin /\ tokens' = tokens
    BY <1>5, DeleteTable DEF Deletes
  <2>4. QED
    BY <2>2, <2>3 DEF TokenInv, TokenRoleWasStored
<1>6. ASSUME NEW u \in Ids, Restart, Seeds(u) PROVE TokenInv'
  <2>1. Admins' \subseteq wasAdmin' /\ wasAdmin \subseteq wasAdmin'
    BY <1>6, SeedTable DEF Seeds, TokenInv, Admins
  <2>2. QED
    BY <1>6, <2>1, RestartParts DEF TokenInv, TokenRoleWasStored
<1>7. QED
  BY <1>1, <1>2, <1>3, <1>4, <1>5, <1>6, StepParts DEF Writes

(* A token says admin only of somebody who has been one, whoever signed in *)
(* and however.                                                            *)
THEOREM TokensTellStoredRoles == Spec => []TokenRoleWasStored
<1>1. Init => TokenInv
  BY DEF Init, TokenInv, TokenRoleWasStored, Admins
<1>2. TokenInv => TokenRoleWasStored
  BY DEF TokenInv
<1>3. QED
  BY <1>1, <1>2, InitTypes, StepTypes, StepTokens, PTL DEF Spec

-----------------------------------------------------------------------------
(* Roles, and the last admin. *)

(* Past the guard of the last admin, or never in need of it.               *)
Past(r) == r.at \in {"emailFree", "updateRow", "deleteRow"}

(* Unless a role changed under it, a request knows the role in the table,  *)
Seen ==
  \A s \in Slots :
    request[s].at \in Reading /\ ~request[s].stale /\ row[request[s].target] # NoUser =>
      row[request[s].target].role = request[s].seen.role
(* and one that was let through to lower it is not lowering the last one.  *)
Another(u) == \E v \in Admins : v # u
Others ==
  \A s \in Slots :
    Past(request[s]) /\ Lowers(request[s], request[s].seen) /\ ~request[s].stale =>
      Another(request[s].target)

RoleInv == Seen /\ Others /\ RoleIsAsDecided /\ AdminRemains

(* What a slot holds after a step that leaves the table alone: it has read *)
(* nothing, or has just read it and lowers nobody, or goes on.             *)
GoesOn(r, q) ==
  /\ q.op = r.op /\ q.target = r.target /\ q.role = r.role /\ q.seen = r.seen
  /\ r.stale => q.stale
  /\ r.at \in Reading
JustRead(q) == q.seen = row[q.target] /\ (Past(q) => ~Lowers(q, q.seen))
Follows(r, q) ==
  \/ q.at \notin Reading
  \/ JustRead(q)
  \/ GoesOn(r, q) /\ (Past(q) => Past(r) \/ Cardinality(Admins) > 1)

(* More than one admin: another one than any. *)
LEMMA TwoAdminsDiffer ==
  ASSUME Cardinality(Admins) > 1, NEW u
  PROVE  Another(u)
<1>1. SUFFICES ASSUME Admins \subseteq {u} PROVE FALSE
  BY DEF Another
<1>2. IsFiniteSet({u}) /\ Cardinality({u}) = 1
  BY FS_Singleton
<1>3. Cardinality(Admins) <= 1 /\ IsFiniteSet(Admins)
  BY <1>1, <1>2, FS_Subset
<1>4. Cardinality(Admins) \in Nat
  BY <1>3, FS_CardinalityType
<1>5. QED
  BY <1>3, <1>4

(* With the table as it was, following keeps what slots know.              *)
LEMMA FollowsKeeps ==
  ASSUME Seen, Others, row' = row, \A t \in Slots : Follows(request[t], request'[t])
  PROVE  Seen' /\ Others'
<1>1. Seen'
  <2> SUFFICES ASSUME NEW t \in Slots, request'[t].at \in Reading, ~request'[t].stale,
                      row[request'[t].target] # NoUser
               PROVE  row[request'[t].target].role = request'[t].seen.role
    BY DEF Seen
  <2>1. CASE JustRead(request'[t])
    BY <2>1 DEF JustRead
  <2>2. CASE GoesOn(request[t], request'[t])
    BY <2>2 DEF GoesOn, Seen
  <2>3. QED
    BY <2>1, <2>2 DEF Follows
<1>2. Others'
  <2> SUFFICES ASSUME NEW t \in Slots, Past(request'[t]), ~request'[t].stale,
                      Lowers(request'[t], request'[t].seen)
               PROVE  Another(request'[t].target)
    BY DEF Others, Another, Admins, Past, Lowers
  <2>1. request'[t].at \in Reading /\ ~JustRead(request'[t])
    BY DEF Past, Reading, JustRead
  <2>2. GoesOn(request[t], request'[t]) /\ (Past(request[t]) \/ Cardinality(Admins) > 1)
    BY <2>1 DEF Follows
  <2>3. CASE Past(request[t])
    <3>1. Lowers(request[t], request[t].seen) /\ ~request[t].stale
          /\ request'[t].target = request[t].target
      BY <2>2 DEF GoesOn, Lowers
    <3>2. QED
      BY <2>3, <3>1 DEF Others
  <2>4. QED
    BY <2>2, <2>3, TwoAdminsDiffer
<1>3. QED
  BY <1>1, <1>2

(* A request that rests, or has no row in hand, follows its old self. *)
LEMMA SameFollows ==
  ASSUME NEW t \in Slots, request'[t] = request[t] \/ request'[t].at \notin Reading
  PROVE  Follows(request[t], request'[t])
BY DEF Follows, GoesOn

(* A step that moves one slot: it is enough that this one follows.         *)
LEMMA OneFollows ==
  ASSUME TypeInv, NEW s \in Slots, request' = [request EXCEPT ![s] = request'[s]],
         Follows(request[s], request'[s])
  PROVE  \A t \in Slots : Follows(request[t], request'[t])
<1>1. \A t \in Slots : t # s => request'[t] = request[t]
  BY DEF TypeInv, TypeOK
<1>2. QED
  BY <1>1, SameFollows

(* A request that ends leaves no row in hand. *)
LEMMA ReplyFollows ==
  ASSUME TypeInv, NEW s \in Slots, Reply(s)
  PROVE  \A t \in Slots : Follows(request[t], request'[t])
<1>1. Idle.at \notin Reading
  BY DEF Idle, Reading
<1>2. QED
  BY <1>1, ReplyCalm, SameFollows

(* A row read by id is up to date. *)
LEMMA ByIdFollows ==
  ASSUME TypeInv, NEW s \in Slots, ById(s)
  PROVE  \A t \in Slots : Follows(request[t], request'[t])
<1> DEFINE r == request[s]
           user == row[r.target]
           label == IF Lowers(r, user) THEN "count" ELSE Write(r, user)
<1>1. r \in Asks /\ request \in [Slots -> Asks]
  BY DEF TypeInv, TypeOK
<1>2. CASE request' = [request EXCEPT ![s].seen = user, ![s].at = label]
  <2>1. label \in {"emailFree", "updateRow", "deleteRow"} => ~Lowers(r, user)
    OBVIOUS
  <2>2. request' = [request EXCEPT ![s] = [r EXCEPT !.seen = user, !.at = label]]
    BY <1>1, <1>2
  <2> HIDE DEF label, user
  <2>3. request'[s] = [r EXCEPT !.seen = user, !.at = label]
    BY <1>1, <2>2
  <2>4. /\ request'[s].at = label /\ request'[s].seen = user
        /\ request'[s].op = r.op /\ request'[s].target = r.target /\ request'[s].role = r.role
    BY <1>1, <2>3 DEF Asks
  <2>5. JustRead(request'[s])
    <3>1. user = row[request'[s].target]
      BY <2>4 DEF user
    <3>2. QED
      BY <2>1, <2>4, <3>1 DEF JustRead, Past, Lowers
  <2>6. QED
    BY <2>2, <2>3, <2>5, OneFollows DEF Follows
<1>3. QED
  BY <1>2, ReplyFollows DEF ById

(* Counting the admins leaves the row in hand as it is. *)
LEMMA CountFollows ==
  ASSUME TypeInv, NEW s \in Slots, Count(s)
  PROVE  \A t \in Slots : Follows(request[t], request'[t])
<1> DEFINE r == request[s]
<1>1. AskOK(r) /\ r.at = "count"
  BY DEF TypeInv, Count, At
<1>2. ASSUME ~(Cardinality(Admins) <= 1), Goto(s, Write(r, r.seen))
      PROVE  \A t \in Slots : Follows(request[t], request'[t])
  <2>1. Cardinality(Admins) > 1
    <3>1. IsFiniteSet(Admins)
      BY IdsAssumption, FS_Subset DEF Admins
    <3>2. QED
      BY <1>2, <3>1, FS_CardinalityType
  <2>2. Write(r, r.seen) \in Reading
    BY <1>1 DEF AskOK, Write, Reading
  <2>3. GoesOn(r, request'[s]) /\ request' = [request EXCEPT ![s] = request'[s]]
    BY <1>1, <1>2, <2>2, GotoFields DEF GoesOn, Reading
  <2>4. QED
    BY <2>1, <2>3, OneFollows DEF Follows
<1>3. QED
  BY <1>2, ReplyFollows DEF Count

(* Checking the email leaves the row in hand as it is. *)
LEMMA EmailFreeFollows ==
  ASSUME TypeInv, NEW s \in Slots, EmailFree(s)
  PROVE  \A t \in Slots : Follows(request[t], request'[t])
<1>1. CASE Goto(s, "updateRow")
  <2>1. GoesOn(request[s], request'[s]) /\ request' = [request EXCEPT ![s] = request'[s]]
    BY <1>1, GotoFields DEF GoesOn, Reading, EmailFree, At
  <2>2. Past(request[s])
    BY DEF EmailFree, At, Past
  <2>3. QED
    BY <2>1, <2>2, OneFollows DEF Follows
<1>2. QED
  BY <1>1, ReplyFollows DEF EmailFree

(* A row read by email is up to date. *)
LEMMA ByEmailFollows ==
  ASSUME TypeInv, NEW s \in Slots, ByEmail(s)
  PROVE  \A t \in Slots : Follows(request[t], request'[t])
<1> DEFINE r == request[s]
<1>1. r \in Asks /\ request \in [Slots -> Asks]
  BY DEF TypeInv, TypeOK
<1>2. CASE Goto(s, "insertRow")
  <2>1. request'[s].at \notin Reading /\ request' = [request EXCEPT ![s] = request'[s]]
    BY <1>2, GotoFields DEF Reading
  <2>2. QED
    BY <2>1, OneFollows DEF Follows
<1>3. ASSUME NEW u \in Ids, r.op = "OAuthLogin",
             request' = [request EXCEPT ![s].at = "updateRow", ![s].target = u,
                           ![s].seen = row[u]]
      PROVE  \A t \in Slots : Follows(request[t], request'[t])
  <2>1. request' = [request EXCEPT ![s] =
                      [r EXCEPT !.at = "updateRow", !.target = u, !.seen = row[u]]]
    BY <1>1, <1>3
  <2>2. request'[s] = [r EXCEPT !.at = "updateRow", !.target = u, !.seen = row[u]]
    BY <1>1, <2>1
  <2>3. request'[s].seen = row[u] /\ request'[s].op = "OAuthLogin" /\ request'[s].target = u
    BY <1>1, <1>3, <2>2 DEF Asks
  <2>4. JustRead(request'[s])
    BY <2>3 DEF JustRead, Lowers
  <2>5. QED
    BY <2>1, <2>2, <2>4, OneFollows DEF Follows
<1>4. QED
  BY <1>2, <1>3, ReplyFollows DEF ByEmail, Unknown, Known, Holders

(* A step that leaves the table alone keeps all four. *)
LEMMA QuietRoles ==
  ASSUME RoleInv, UNCHANGED <<row, decided, overtaken>>,
         \A t \in Slots : Follows(request[t], request'[t])
  PROVE  RoleInv'
BY FollowsKeeps DEF RoleInv, RoleIsAsDecided, AdminRemains, Admins

(* So does one that changes no role of an id in use, for what slots know.  *)
LEMMA RolesStay ==
  ASSUME TypeInv, Seen, Others,
         \A t \in Slots : \/ request'[t].at \notin Reading
                          \/ /\ SameAsk(request[t], request'[t])
                             /\ request[t].stale => request'[t].stale,
         \A v \in used : /\ row'[v].role = row[v].role
                         /\ row'[v] # NoUser => row[v] # NoUser
  PROVE  Seen' /\ Others'
<1>1. \A v \in Ids : row[v].role = "admin" => v \in used
  BY DEF TypeInv, TypeOK, NoUser
<1>2. Admins \subseteq Admins'
  BY <1>1 DEF Admins
<1>3. ASSUME NEW t \in Slots, request'[t].at \in Reading, ~request'[t].stale
      PROVE  /\ SameAsk(request[t], request'[t]) /\ ~request[t].stale
             /\ request[t].at \in Reading /\ request[t].target \in used
  <2>1. /\ SameAsk(request[t], request'[t]) /\ ~request[t].stale
        /\ request[t].at \in Reading
    BY <1>3 DEF SameAsk
  <2>2. request[t].target \in used
    BY <2>1, NoUserIsNoRow DEF TypeInv, AskOK
  <2>3. QED
    BY <2>1, <2>2
<1>4. Seen'
  <2> SUFFICES ASSUME NEW t \in Slots, request'[t].at \in Reading, ~request'[t].stale,
                      row'[request'[t].target] # NoUser
               PROVE  row'[request'[t].target].role = request'[t].seen.role
    BY DEF Seen
  <2>1. QED
    BY <1>3 DEF Seen, SameAsk
<1>5. Others'
  <2> SUFFICES ASSUME NEW t \in Slots, Past(request'[t]), ~request'[t].stale,
                      Lowers(request'[t], request'[t].seen)
               PROVE  \E v \in Admins' : v # request'[t].target
    BY DEF Others, Past, Lowers, Another
  <2>1. request'[t].at \in Reading
    BY DEF Past, Reading
  <2>2. /\ Past(request[t]) /\ Lowers(request[t], request[t].seen) /\ ~request[t].stale
        /\ request'[t].target = request[t].target
    BY <1>3, <2>1 DEF SameAsk, Past, Lowers
  <2>3. Another(request[t].target)
    BY <2>2 DEF Others
  <2>4. QED
    BY <1>2, <2>2, <2>3 DEF Another
<1>6. QED
  BY <1>4, <1>5

(* A change of somebody's role makes out of date whatever slots know.      *)
LEMMA ChangeStales ==
  ASSUME TypeInv, NEW s \in Slots, NEW u \in Ids, NEW user \in Users \cup {NoUser},
         Replace(s, u, user), Changes(u, user)
  PROVE  Seen' /\ Others'
<1>1. \A t \in Slots : request'[t].at \in Reading => request'[t].stale
  <2>1. \A t \in Slots : t # s => request'[t].at = request[t].at
    BY ReplaceSlots DEF SameAsk
  <2>2. request'[s].at \notin Reading
    BY ReplaceSlots DEF Idle, Reading
  <2>3. QED
    BY <2>1, <2>2, ReplaceSlots
<1>2. \A t \in Slots : Past(request'[t]) => request'[t].at \in Reading
  BY DEF Past, Reading
<1>3. QED
  BY <1>1, <1>2 DEF Seen, Others, Past, Lowers, Another, Admins

(* Slots after a replacement: idle or the same. *)
LEMMA ReplaceStays ==
  ASSUME TypeInv, NEW s \in Slots, NEW u \in Ids, NEW user \in Users \cup {NoUser},
         Replace(s, u, user)
  PROVE  \A t \in Slots : \/ request'[t].at \notin Reading
                          \/ /\ SameAsk(request[t], request'[t])
                             /\ request[t].stale => request'[t].stale
<1>1. Idle.at \notin Reading
  BY DEF Idle, Reading
<1>2. QED
  BY <1>1, ReplaceSlots

(* A new account has the role it was made with. *)
LEMMA InsertRoles ==
  ASSUME TypeInv, RoleInv, NEW s \in Slots, NEW u \in Ids, Inserts(s, u)
  PROVE  RoleInv'
<1>1. /\ u \notin used /\ row[u] = NoUser
      /\ row'[u].role = request[s].role /\ \A v \in Ids : v # u => row'[v] = row[v]
      /\ overtaken \subseteq overtaken' /\ Inserted(s) \in Users
      /\ used \subseteq Ids
  BY InsertTable DEF TypeInv, TypeOK
<1>2. decided'[u] = request[s].role /\ \A v \in Ids : v # u => decided'[v] = decided[v]
  BY DEF Inserts, TypeInv, TypeOK
<1>3. Seen' /\ Others'
  BY <1>1, ReplaceStays, RolesStay DEF Inserts, RoleInv
<1>4. RoleIsAsDecided'
  BY <1>1, <1>2 DEF RoleIsAsDecided, RoleInv
<1>5. Admins \subseteq Admins'
  BY <1>1 DEF Admins, NoUser
<1>6. AdminRemains'
  BY <1>1, <1>5 DEF AdminRemains, RoleInv
<1>7. QED
  BY <1>3, <1>4, <1>6 DEF RoleInv

(* An update writes the role an admin decided, or the one it read. *)
LEMMA UpdateRoles ==
  ASSUME TypeInv, RoleInv, NEW s \in Slots, At(s, "updateRow"), Updates(s)
  PROVE  RoleInv'
<1> DEFINE r == request[s]
           u == r.target
<1>1. /\ u \in Ids /\ row[u] # NoUser /\ row'[u] = New(s) /\ New(s) \in Users
      /\ \A v \in Ids : v # u => row'[v] = row[v]
      /\ overtaken \subseteq overtaken'
      /\ Changes(u, New(s)) /\ r.stale => u \in overtaken'
      /\ Replace(s, u, New(s))
      /\ New(s) # NoUser /\ used \subseteq Ids
  BY UpdateTable, NoUserIsNoRow DEF Updates, TypeInv, TypeOK
<1>2. /\ r.op \in {"Update", "OAuthLogin"}
      /\ r.op = "Update" => New(s).role = r.role
      /\ r.op = "OAuthLogin" => New(s).role = r.seen.role
  BY <1>1, NewOK
<1>3. ~Changes(u, New(s)) => New(s).role = row[u].role
  BY <1>1 DEF Changes
<1>4. ~r.stale => row[u].role = r.seen.role
  BY <1>1 DEF RoleInv, Seen, At, Reading
<1>5. Seen' /\ Others'
  <2>1. CASE Changes(u, New(s))
    BY <1>1, <2>1, ChangeStales
  <2>2. CASE ~Changes(u, New(s))
    BY <1>1, <1>3, <2>2, ReplaceStays, RolesStay DEF RoleInv
  <2>3. QED
    BY <2>1, <2>2
<1>6. RoleIsAsDecided'
  <2>1. /\ r.op = "Update" => decided'[u] = r.role
        /\ r.op # "Update" => decided'[u] = decided[u]
        /\ \A v \in Ids : v # u => decided'[v] = decided[v]
    BY <1>1 DEF Updates, TypeInv, TypeOK
  <2>2. ASSUME u \notin overtaken', r.op # "Update" PROVE New(s).role = decided[u]
    <3>1. row[u].role = decided[u]
      BY <1>1, <2>2 DEF RoleInv, RoleIsAsDecided
    <3>2. CASE Changes(u, New(s))
      BY <1>1, <1>2, <1>4, <2>2, <3>1, <3>2
    <3>3. QED
      BY <1>3, <3>1, <3>2
  <2>3. QED
    BY <1>1, <1>2, <2>1, <2>2 DEF RoleIsAsDecided, RoleInv
<1>7. AdminRemains'
  <2> SUFFICES ASSUME overtaken' = {} PROVE Admins' # {}
    BY DEF AdminRemains
  <2>1. overtaken = {} /\ Admins # {}
    BY <1>1 DEF RoleInv, AdminRemains
  <2>2. CASE New(s).role = row[u].role
    BY <1>1, <2>1, <2>2 DEF Admins
  <2>3. CASE New(s).role # row[u].role
    <3>1. ~r.stale /\ row[u].role = r.seen.role
      BY <1>1, <1>3, <1>4, <2>3
    <3>2. CASE New(s).role = "admin"
      BY <1>1, <3>2 DEF Admins
    <3>3. CASE New(s).role # "admin" /\ row[u].role = "admin"
      <4>1. Lowers(r, r.seen) /\ Past(r)
        BY <1>2, <2>3, <3>1, <3>3 DEF Lowers, Past, At
      <4>2. PICK v \in Admins : v # u
        BY <3>1, <4>1 DEF RoleInv, Others, Another
      <4>3. QED
        BY <1>1, <4>2 DEF Admins
    <3>4. CASE row[u].role # "admin"
      BY <1>1, <2>1, <3>4 DEF Admins
    <3>5. QED
      BY <3>2, <3>3, <3>4
  <2>4. QED
    BY <2>2, <2>3
<1>8. QED
  BY <1>5, <1>6, <1>7 DEF RoleInv

(* A new password leaves roles alone. *)
LEMMA SetPasswordRoles ==
  ASSUME TypeInv, RoleInv, NEW s \in Slots, At(s, "setPassword"), SetsPassword(s)
  PROVE  RoleInv'
<1>1. /\ \A v \in Ids : /\ row'[v].role = row[v].role
                        /\ row'[v] = NoUser <=> row[v] = NoUser
      /\ used \subseteq Ids /\ decided' = decided /\ overtaken' = overtaken
  BY SetPasswordStores DEF SetsPassword, TypeInv, TypeOK
<1>2. \A t \in Slots : request'[t].at \notin Reading \/ request'[t] = request[t]
  BY ReplyCalm DEF SetsPassword, Idle, Reading
<1>3. Seen' /\ Others'
  BY <1>1, <1>2, RolesStay DEF RoleInv, SameAsk
<1>4. RoleIsAsDecided' /\ AdminRemains'
  BY <1>1 DEF RoleInv, RoleIsAsDecided, AdminRemains, Admins
<1>5. QED
  BY <1>3, <1>4 DEF RoleInv

(* A deletion takes no role from anybody else. *)
LEMMA DeleteRoles ==
  ASSUME TypeInv, RoleInv, NEW s \in Slots, At(s, "deleteRow"), Deletes(s)
  PROVE  RoleInv'
<1> DEFINE r == request[s]
           u == r.target
<1>1. /\ u \in Ids /\ row[u] # NoUser /\ row'[u] = NoUser
      /\ \A v \in Ids : v # u => row'[v] = row[v]
      /\ overtaken \subseteq overtaken'
      /\ Replace(s, u, NoUser) /\ decided' = decided
  BY DeleteTable DEF Deletes
<1>0. r.stale => u \in overtaken'
  BY DeleteTable
<1>2. r.op = "Delete"
  BY DEF TypeInv, AskOK, At
<1>3. Changes(u, NoUser)
  BY <1>1, NoUserIsNoRow DEF Changes, TypeInv, TypeOK, Users
<1>4. Seen' /\ Others'
  BY <1>1, <1>3, ChangeStales
<1>5. RoleIsAsDecided'
  <2> SUFFICES ASSUME NEW v \in Ids \ overtaken', row'[v] # NoUser
               PROVE  row'[v].role = decided'[v]
    BY DEF RoleIsAsDecided
  <2>1. v # u /\ v \notin overtaken /\ row'[v] = row[v]
    BY <1>1
  <2>2. QED
    BY <1>1, <2>1 DEF RoleIsAsDecided, RoleInv
<1>6. AdminRemains'
  <2> SUFFICES ASSUME overtaken' = {} PROVE Admins' # {}
    BY DEF AdminRemains
  <2>0. overtaken = {} /\ ~r.stale
    BY <1>0, <1>1
  <2>1. overtaken = {} /\ Admins # {} /\ ~r.stale
    BY <2>0 DEF RoleInv, AdminRemains
  <2>2. row[u].role = r.seen.role
    BY <1>1, <2>1 DEF RoleInv, Seen, At, Reading
  <2>3. PICK v \in Admins : v # u
    <3>1. CASE row[u].role = "admin"
      <4>1. Lowers(r, r.seen) /\ Past(r)
        BY <1>2, <2>2, <3>1 DEF Lowers, Past, At
      <4>2. QED
        BY <2>1, <4>1 DEF RoleInv, Others, Another
    <3>2. CASE row[u].role # "admin"
      BY <2>1, <3>2 DEF Admins
    <3>3. QED
      BY <3>1, <3>2
  <2>4. QED
    BY <1>1, <2>3 DEF Admins
<1>7. QED
  BY <1>4, <1>5, <1>6 DEF RoleInv

(* The seeded account is an admin. *)
LEMMA SeedRoles ==
  ASSUME TypeInv, RoleInv, Restart, NEW u \in Ids, Seeds(u)
  PROVE  RoleInv'
<1>1. /\ u \notin used /\ row[u] = NoUser
      /\ row'[u].role = "admin" /\ \A v \in Ids : v # u => row'[v] = row[v]
      /\ overtaken' = overtaken
  BY SeedTable, RestartParts DEF Seeded
<1>2. decided'[u] = "admin" /\ \A v \in Ids : v # u => decided'[v] = decided[v]
  BY DEF Seeds, TypeInv, TypeOK
<1>3. \A t \in Slots : request'[t].at \notin Reading /\ ~Past(request'[t])
  BY RestartParts DEF Idle, Reading, Past
<1>4. Seen' /\ Others'
  BY <1>3 DEF Seen, Others, Past, Lowers, Another, Admins
<1>5. RoleIsAsDecided'
  BY <1>1, <1>2 DEF RoleIsAsDecided, RoleInv
<1>6. AdminRemains'
  BY <1>1 DEF AdminRemains, Admins
<1>7. QED
  BY <1>4, <1>5, <1>6 DEF RoleInv

(* Every step keeps the roles as decided, and an admin. *)
LEMMA StepRoles == TypeInv /\ RoleInv /\ [Next]_vars => RoleInv'
<1> SUFFICES ASSUME TypeInv, RoleInv, [Next]_vars PROVE RoleInv'
  OBVIOUS
<1>1. ASSUME NEW s \in Slots, Handler(s) PROVE RoleInv'
  <2>1. CASE (ById(s) \/ Count(s) \/ EmailFree(s)) /\ Still
    <3>1. UNCHANGED <<row, decided, overtaken>>
      BY <2>1 DEF Still, store, audit
    <3>2. QED
      BY <2>1, <3>1, ByIdFollows, CountFollows, EmailFreeFollows, QuietRoles
  <2>2. CASE ByEmail(s) /\ UNCHANGED <<row, used, requests, audit>>
    <3>1. UNCHANGED <<row, decided, overtaken>>
      BY <2>2 DEF audit
    <3>2. QED
      BY <2>2, <3>1, ByEmailFollows, QuietRoles
  <2>3. CASE Fail(s)
    BY <2>3, ReplyFollows, QuietRoles DEF Fail, store, audit
  <2>4. QED
    BY <1>1, <2>1, <2>2, <2>3, HandlerParts, InsertRoles, UpdateRoles, SetPasswordRoles, DeleteRoles
<1>2. ASSUME NEW s \in Slots, Request(s) PROVE RoleInv'
  <2>1. request'[s].at \notin Reading /\ \A t \in Slots : t # s => request'[t] = request[t]
    BY <1>2, RequestType DEF Reading
  <2>2. UNCHANGED <<row, decided, overtaken>>
    BY <1>2 DEF Request, store, audit
  <2>3. QED
    BY <2>1, <2>2, SameFollows, QuietRoles
<1>3. ASSUME NEW s \in Slots, Abandon(s) PROVE RoleInv'
  BY <1>3, ReplyFollows, QuietRoles DEF Abandon, Fail, store, audit
<1>4. CASE ExpireToken
  BY <1>4, SameFollows, QuietRoles DEF ExpireToken, audit
<1>5. CASE Restart
  <2>1. CASE UNCHANGED <<row, used, decided, lastSet, wasAdmin>>
    <3>1. overtaken' = overtaken /\ \A t \in Slots : request'[t].at \notin Reading
      BY <1>5, RestartParts DEF Idle, Reading
    <3>2. QED
      BY <2>1, <3>1, SameFollows, QuietRoles
  <2>2. QED
    BY <1>5, <2>1, RestartParts, SeedRoles
<1>6. CASE UNCHANGED vars
  BY <1>6, SameFollows, QuietRoles DEF vars
<1>7. QED
  BY <1>1, <1>2, <1>3, <1>4, <1>5, <1>6 DEF Next

(* At the start roles are as decided. *)
LEMMA InitRoles == Init => RoleInv
<1> SUFFICES ASSUME Init PROVE RoleInv
  OBVIOUS
<1>1. \A s \in Slots : request[s] = Idle
  BY DEF Init
<1>2. Seen /\ Others
  BY <1>1 DEF Seen, Others, Idle, Reading, Past
<1>3. RoleIsAsDecided /\ AdminRemains
  BY TableAssumption DEF Init, RoleIsAsDecided, AdminRemains, Admins
<1>4. QED
  BY <1>2, <1>3 DEF RoleInv

(* Everybody has the role an admin last gave them, unless a request that   *)
(* had read before another change wrote it: signing in through Google,     *)
(* changing a password or renaming keeps it.                               *)
THEOREM RolesAreAsDecided == Spec => []RoleIsAsDecided
<1>1. RoleInv => RoleIsAsDecided
  BY DEF RoleInv
<1>2. QED
  BY <1>1, InitTypes, InitRoles, StepTypes, StepRoles, PTL DEF Spec

(* Somebody stays admin, for any number of admins and of overlapping       *)
(* requests, as long as none changed a role under another one.             *)
THEOREM AnAdminRemains == Spec => []AdminRemains
<1>1. RoleInv => AdminRemains
  BY DEF RoleInv
<1>2. QED
  BY <1>1, InitTypes, InitRoles, StepTypes, StepRoles, PTL DEF Spec

=============================================================================
