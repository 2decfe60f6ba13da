------------------------------ MODULE Accounts ------------------------------
(***************************************************************************)
(* The users table and the tokens the API hands out: registration, sign-in *)
(* with a password or through Google, the admin's user management, and the *)
(* default admin seeded at every start.                                    *)
(*                                                                         *)
(* Every statement is a step of its own and no transaction spans two of    *)
(* them, so that whatever a request has read may be out of date when it    *)
(* writes.  An update writes the whole row, except for the password.       *)
(***************************************************************************)
EXTENDS FiniteSets, Integers

CONSTANTS
  Ids,           \* ids of users; one is never given out twice
  Emails,
  Passwords,
  DefaultEmail,  \* of the seeded admin
  SeedPassword,
  Table,         \* the users table to begin with
  Slots,         \* requests the server handles at a time
  MaxRequests    \* bound: how many requests are made

VARIABLES
  row,           \* the users table, NoUser where an id has no row
  used,          \* ids given out so far
  tokens,        \* <<id, role>> of the JWTs that have not expired
  request,       \* what each slot is doing, with its locals
  requests,      \* how many requests were made
  \* History variables, read by properties only.
  decided,       \* the role last given to each user
  lastSet,       \* the password last given to each user
  wasAdmin,      \* who has ever been an admin
  overtaken      \* users whose role a stale request changed

store == <<row, used, tokens>>
audit == <<decided, lastSet, wasAdmin, overtaken>>
vars == <<row, used, tokens, request, requests, decided, lastSet, wasAdmin,
          overtaken>>

Roles == {"admin", "user"}
NoId == "none"
NoPassword == "no password"   \* an account that only signs in through Google
Users == [email : Emails, role : Roles, password : Passwords \cup {NoPassword},
          linked : BOOLEAN]   \* linked: is_oauth and the provider's columns
NoUser == [email |-> "none", role |-> "none", password |-> NoPassword, linked |-> FALSE]

EmailsUnique(table) ==
  \A u, v \in Ids : table[u] # NoUser /\ table[u].email = table[v].email => u = v

ASSUME IdsAssumption == IsFiniteSet(Ids)
ASSUME NamesAssumption ==
  NoId \notin Ids /\ "none" \notin Emails /\ NoPassword \notin Passwords
ASSUME SeedAssumption == DefaultEmail \in Emails /\ SeedPassword \in Passwords
ASSUME TableAssumption ==
  /\ Table \in [Ids -> Users \cup {NoUser}]
  /\ EmailsUnique(Table)
  /\ \E u \in Ids : Table[u].role = "admin"
ASSUME RequestsAssumption == MaxRequests \in Nat

-----------------------------------------------------------------------------
Anybody == {"Register", "Login", "OAuthLogin"}
Administration == {"Create", "Update", "ResetPassword", "Delete"}
Operations == Anybody \cup Administration \cup {"ChangePassword"}

(* actor: the id in the token.  seen: the row the handler read.  stale,   *)
(* for properties only: a role has changed since the handler first read.   *)
Idle == [op |-> "none", at |-> "done", actor |-> NoId, target |-> NoId,
         email |-> DefaultEmail, role |-> "user",
         password |-> NoPassword, old |-> NoPassword, seen |-> NoUser, stale |-> FALSE]

At(s, label) == request[s].at = label
Reply(s) == request' = [request EXCEPT ![s] = Idle]
Goto(s, label) == request' = [request EXCEPT ![s].at = label]

Holders(email) == {u \in Ids : row[u] # NoUser /\ row[u].email = email}
Admins == {u \in Ids : row[u].role = "admin"}

(* A request that starts at an email, and one that starts at an id.        *)
Sign(op, email, role, password) ==
  [Idle EXCEPT !.op = op, !.at = "byEmail", !.email = email, !.role = role,
               !.password = password]
Ask(op, actor, u, email, role, password, old) ==
  [Idle EXCEPT !.op = op, !.at = "byId", !.actor = actor, !.target = u, !.email = email,
               !.role = role, !.password = password, !.old = old]

(* The requests for op that the holder of a token for actor can make.      *)
(* What the body of a request does not carry is as in Idle.                *)
Asked(op, actor) ==
  CASE op \in {"Register", "Login"} ->
         {Sign(op, e, "user", p) : e \in Emails, p \in Passwords}
    [] op = "OAuthLogin" -> {Sign(op, e, "user", NoPassword) : e \in Emails}
    [] op = "Create" -> {Sign(op, e, r, p) : e \in Emails, r \in Roles, p \in Passwords}
    [] op = "Update" ->
         {Ask(op, actor, u, e, r, NoPassword, NoPassword) :
            u \in Ids, e \in Emails, r \in Roles}
    [] op = "ResetPassword" ->
         {Ask(op, actor, u, DefaultEmail, "user", p, NoPassword) : u \in Ids, p \in Passwords}
    [] op = "Delete" ->
         {Ask(op, actor, u, DefaultEmail, "user", NoPassword, NoPassword) : u \in Ids}
    [] op = "ChangePassword" ->
         {Ask(op, actor, actor, DefaultEmail, "user", p, o) : p \in Passwords, o \in Passwords}

(* The token is all that is looked at: its role, not that of the row.      *)
Request(s) ==
  /\ At(s, "done") /\ requests < MaxRequests
  /\ requests' = requests + 1
  /\ \E op \in Operations, token \in tokens \cup {<<NoId, "user">>} :
       /\ token[1] = NoId <=> op \in Anybody
       /\ op \in Administration => token[2] = "admin"
       /\ \E r \in Asked(op, token[1]) : request' = [request EXCEPT ![s] = r]
  /\ UNCHANGED <<store, audit>>

-----------------------------------------------------------------------------
(* Reads.  An error of any of them ends the request, see Abandon.          *)

(* The request takes the admin role, or the row, from somebody who has it. *)
Lowers(r, user) ==
  user.role = "admin" /\ (r.op = "Delete" \/ (r.op = "Update" /\ r.role # "admin"))

(* ErrCannotModifySelf, ErrInvalidOldPassword, ErrSamePassword.            *)
Refused(r, user) ==
  \/ r.actor = r.target /\ (r.op = "Delete" \/ Lowers(r, user))
  \/ r.op = "ChangePassword" /\ user.password \notin {r.old} \ {r.password}

Write(r, user) ==
  CASE r.op = "Update" -> IF r.email # user.email THEN "emailFree" ELSE "updateRow"
    [] r.op = "Delete" -> "deleteRow"
    [] OTHER -> "setPassword"

(* UserRepository.GetByID and the checks of what it returned. *)
ById(s) ==
  /\ At(s, "byId")
  /\ LET r == request[s]
         user == row[r.target] IN
     IF user = NoUser \/ Refused(r, user) THEN Reply(s)
     ELSE request' = [request EXCEPT ![s].seen = user,
            ![s].at = IF Lowers(r, user) THEN "count" ELSE Write(r, user)]
  /\ UNCHANGED <<store, requests, audit>>

(* Mutant of Count: an off-by-one in the guard of the last admin. *)
CountLoosely(s) ==
  /\ At(s, "count")
  /\ IF Cardinality(Admins) < 1 THEN Reply(s) ELSE Goto(s, Write(request[s], request[s].seen))
  /\ UNCHANGED <<store, requests, audit>>

(* CountAdmins: ErrLastAdmin. *)
Count(s) ==
  /\ At(s, "count")
  /\ IF Cardinality(Admins) <= 1 THEN Reply(s) ELSE Goto(s, Write(request[s], request[s].seen))
  /\ UNCHANGED <<store, requests, audit>>

(* Update asks for another email: ErrEmailTaken. *)
EmailFree(s) ==
  /\ At(s, "emailFree")
  /\ IF Holders(request[s].email) \subseteq {request[s].target}
     THEN Goto(s, "updateRow") ELSE Reply(s)
  /\ UNCHANGED <<store, requests, audit>>

Issue(u, role) == tokens' = tokens \cup {<<u, role>>}

(* GetByEmail found nobody: an account may be created. *)
Unknown(s) ==
  /\ IF request[s].op = "Login" THEN Reply(s) ELSE Goto(s, "insertRow")
  /\ UNCHANGED tokens

(* GetByEmail found u.  OAuthLogin updates the row when anything the       *)
(* provider says of its owner is new.                                      *)
Known(s, u) ==
  LET r == request[s] IN
  \/ /\ r.op = "OAuthLogin"
     /\ request' = [request EXCEPT ![s].at = "updateRow", ![s].target = u, ![s].seen = row[u]]
     /\ UNCHANGED tokens
  \/ /\ \/ r.op = "OAuthLogin" /\ row[u].linked
        \/ r.op = "Login" /\ row[u].password = r.password
     /\ Issue(u, row[u].role) /\ Reply(s)
  \/ /\ \/ r.op \in {"Register", "Create"}
        \/ r.op = "Login" /\ row[u].password # r.password
     /\ Reply(s) /\ UNCHANGED tokens

ByEmail(s) ==
  /\ At(s, "byEmail")
  /\ LET found == Holders(request[s].email) IN
     \/ found = {} /\ Unknown(s)
     \/ \E u \in found : Known(s, u)
  /\ UNCHANGED <<row, used, requests, audit>>

-----------------------------------------------------------------------------
(* Writes. *)

(* Slot s, done with its request, replaces the row of u.  A change of a    *)
(* user's role makes out of date what the others have read.                *)
Replace(s, u, user) ==
  LET changes == row[u] # NoUser /\ row[u].role # user.role
      read == {t \in Slots : request[t].at \notin {"done", "byId", "byEmail"}} IN
  /\ row' = [row EXCEPT ![u] = user]
  /\ request' = [t \in Slots |-> IF t = s THEN Idle
                   ELSE [request[t] EXCEPT !.stale = @ \/ (changes /\ t \in read)]]
  /\ overtaken' = IF changes /\ request[s].stale THEN overtaken \cup {u} ELSE overtaken
  /\ wasAdmin' = IF user.role = "admin" THEN wasAdmin \cup {u} ELSE wasAdmin

(* Nothing is written: the row is gone, or its email is taken. *)
Fail(s) == Reply(s) /\ UNCHANGED <<store, requests, audit>>

(* Mutant of InsertRow: users.email is not UNIQUE. *)
InsertRowUnchecked(s) ==
  /\ At(s, "insertRow")
  /\ \E u \in Ids \ used :
       /\ row' = [row EXCEPT ![u] = [email |-> request[s].email, role |-> request[s].role,
                   password |-> request[s].password, linked |-> request[s].op = "OAuthLogin"]]
       /\ used' = used \cup {u}
       /\ UNCHANGED <<tokens, requests, audit>> /\ Reply(s)

(* Mutant of InsertRow: the id the database chose is not read back. *)
InsertRowNoId(s) ==
  /\ At(s, "insertRow")
  /\ \E u \in Ids \ used :
       /\ row' = [row EXCEPT ![u] = [email |-> request[s].email, role |-> request[s].role,
                   password |-> request[s].password, linked |-> request[s].op = "OAuthLogin"]]
       /\ used' = used \cup {u} /\ Issue(NoId, request[s].role)
       /\ UNCHANGED <<requests, audit>> /\ Reply(s)

(* UserRepository.Create; the email is UNIQUE.  Register and OAuthLogin    *)
(* ask for role user (that of Idle) and then issue a token.                *)
InsertRow(s) ==
  /\ At(s, "insertRow")
  /\ LET r == request[s] IN
     \/ Holders(r.email) # {} /\ Fail(s)
     \/ /\ Holders(r.email) = {}
        /\ \E u \in Ids \ used :
             /\ Replace(s, u, [email |-> r.email, role |-> r.role, password |-> r.password,
                               linked |-> r.op = "OAuthLogin"])
             /\ used' = used \cup {u}
             /\ IF r.op = "Create" THEN UNCHANGED tokens ELSE Issue(u, r.role)
             /\ decided' = [decided EXCEPT ![u] = r.role]
             /\ lastSet' = [lastSet EXCEPT ![u] = r.password]
        /\ UNCHANGED requests

(* What Update and OAuthLogin make of the row they read. *)
Edited(r) ==
  IF r.op = "Update" THEN [r.seen EXCEPT !.email = r.email, !.role = r.role]
                     ELSE [r.seen EXCEPT !.linked = TRUE]

(* Mutant of UpdateRow: the password is written back as well. *)
UpdateRowPassword(s) ==
  /\ At(s, "updateRow") /\ row[request[s].target] # NoUser
  /\ row' = [row EXCEPT ![request[s].target] = Edited(request[s])]
  /\ Reply(s) /\ UNCHANGED <<used, tokens, requests, audit>>

(* Mutant of UpdateRow: an upsert. *)
UpdateRowUpserts(s) ==
  /\ At(s, "updateRow")
  /\ row' = [row EXCEPT ![request[s].target] = Edited(request[s])]
  /\ Reply(s) /\ UNCHANGED <<used, tokens, requests, audit>>

(* Mutant of UpdateRow: the role comes from the provider. *)
UpdateRowResets(s) ==
  /\ At(s, "updateRow") /\ row[request[s].target] # NoUser
  /\ row' = [row EXCEPT ![request[s].target].role = request[s].role]
  /\ decided' = IF request[s].op = "Update"
                THEN [decided EXCEPT ![request[s].target] = request[s].role] ELSE decided
  /\ Reply(s) /\ UNCHANGED <<used, tokens, requests, lastSet, wasAdmin, overtaken>>

(* UserRepository.Update: every column but the password. *)
UpdateRow(s) ==
  /\ At(s, "updateRow")
  /\ LET r == request[s]
         u == r.target
         new == [Edited(r) EXCEPT !.password = row[u].password]
         fails == row[u] = NoUser \/ ~(Holders(new.email) \subseteq {u}) IN
     \/ fails /\ Fail(s)
     \/ /\ ~fails
        /\ Replace(s, u, new)
        /\ IF r.op = "Update"
           THEN decided' = [decided EXCEPT ![u] = r.role] /\ UNCHANGED tokens
           ELSE Issue(u, new.role) /\ UNCHANGED decided
        /\ UNCHANGED <<used, requests, lastSet>>

(* UserRepository.UpdatePassword: that column only. *)
SetPassword(s) ==
  /\ At(s, "setPassword")
  /\ LET r == request[s] IN
     \/ row[r.target] = NoUser /\ Fail(s)
     \/ /\ row[r.target] # NoUser
        /\ row' = [row EXCEPT ![r.target].password = r.password]
        /\ lastSet' = [lastSet EXCEPT ![r.target] = r.password]
        /\ Reply(s)
        /\ UNCHANGED <<used, tokens, requests, decided, wasAdmin, overtaken>>

DeleteRow(s) ==
  /\ At(s, "deleteRow")
  /\ IF row[request[s].target] = NoUser THEN Fail(s)
     ELSE /\ Replace(s, request[s].target, NoUser)
          /\ UNCHANGED <<used, tokens, requests, decided, lastSet>>

-----------------------------------------------------------------------------
(* A call failed, or its client went away: every handler then replies with *)
(* an error at once.                                                       *)
Abandon(s) == ~At(s, "done") /\ Fail(s)

ExpireToken ==
  /\ \E t \in tokens : tokens' = tokens \ {t}
  /\ UNCHANGED <<row, used, request, requests, audit>>

(* The process stops, whatever it is doing, and starts again.  Seeding the *)
(* default admin goes by the email alone, and may fail.                    *)
Restart ==
  /\ request' = [s \in Slots |-> Idle]
  /\ \/ UNCHANGED <<row, used, decided, lastSet, wasAdmin>>
     \/ /\ Holders(DefaultEmail) = {}
        /\ \E u \in Ids \ used :
             /\ row' = [row EXCEPT ![u] = [email |-> DefaultEmail, role |-> "admin",
                          password |-> SeedPassword, linked |-> FALSE]]
             /\ used' = used \cup {u} /\ wasAdmin' = wasAdmin \cup {u}
             /\ decided' = [decided EXCEPT ![u] = "admin"]
             /\ lastSet' = [lastSet EXCEPT ![u] = SeedPassword]
  /\ UNCHANGED <<tokens, requests, overtaken>>

(* Everybody is signed in. *)
Init ==
  /\ row = Table
  /\ used = {u \in Ids : row[u] # NoUser}
  /\ tokens = {<<u, row[u].role>> : u \in used}
  /\ request = [s \in Slots |-> Idle]
  /\ requests = 0
  /\ decided = [u \in Ids |-> row[u].role]
  /\ lastSet = [u \in Ids |-> row[u].password]
  /\ wasAdmin = Admins
  /\ overtaken = {}

Handler(s) ==
  \/ ById(s) \/ Count(s) \/ EmailFree(s) \/ ByEmail(s)
  \/ InsertRow(s) \/ UpdateRow(s) \/ SetPassword(s) \/ DeleteRow(s)

Next ==
  \/ \E s \in Slots : Request(s) \/ Handler(s) \/ Abandon(s)
  \/ ExpireToken \/ Restart

Spec == Init /\ [][Next]_vars
-----------------------------------------------------------------------------
(* Properties. *)

Asks ==
  [op : Operations \cup {"none"},
   at : {"done", "byId", "byEmail", "count", "emailFree", "insertRow", "updateRow",
         "setPassword", "deleteRow"},
   actor : Ids \cup {NoId}, target : Ids \cup {NoId}, email : Emails, role : Roles,
   password : Passwords \cup {NoPassword}, old : Passwords \cup {NoPassword},
   seen : Users \cup {NoUser}, stale : BOOLEAN]

(* Every variable has its type, and a request that has read a row knows    *)
(* whose row it is about to write.                                         *)
TypeOK ==
  /\ row \in [Ids -> Users \cup {NoUser}]
  /\ used \subseteq Ids /\ {u \in Ids : row[u] # NoUser} \subseteq used
  /\ tokens \subseteq used \X Roles
  /\ request \in [Slots -> Asks]
  /\ \A s \in Slots : request[s].seen # NoUser => request[s].target \in used
  /\ requests \in Nat
  /\ decided \in [Ids -> Roles \cup {"none"}]
  /\ lastSet \in [Ids -> Passwords \cup {NoPassword}]
  /\ wasAdmin \subseteq Ids /\ overtaken \subseteq Ids

(* "Cannot remove the last remaining admin": somebody stays admin, unless  *)
(* a request changed a role after another one had changed a role under it. *)
AdminRemains == overtaken = {} => Admins # {}

(* The same without the exception. *)
AdminAlways == Admins # {}

(* Everybody has the role an admin last gave them (or the one they came    *)
(* with): signing in through Google, changing a password or renaming keeps *)
(* it, with the same exception.                                            *)
RoleIsAsDecided ==
  \A u \in Ids \ overtaken : row[u] # NoUser => row[u].role = decided[u]

(* The stored password is the last one set, however updates of the row     *)
(* that read it before the change come in after it.                        *)
PasswordIsLastSet ==
  \A u \in Ids : row[u] # NoUser => row[u].password = lastSet[u]

(* No two accounts share an email, however registrations, Google sign-ins, *)
(* admin edits and the seed of a restart race between check and write.     *)
OneAccountPerEmail == EmailsUnique(row)

(* A token says admin only of somebody who has been one: "the role always  *)
(* comes from the stored row, never from the provider".                    *)
TokenRoleWasStored == \A t \in tokens : t[2] = "admin" => t[1] \in wasAdmin

(* A deleted account never comes back, whoever still holds its row.        *)
DeletedStaysDeleted ==
  [][\A u \in used : row[u] = NoUser => row'[u] = NoUser]_vars
=============================================================================
