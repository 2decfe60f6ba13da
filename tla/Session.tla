------------------------------ MODULE Session ------------------------------
(***************************************************************************)
(* Who is signed in, in one browser with several tabs of the client.  The  *)
(* tabs share localStorage: this API's token, and the session Supabase     *)
(* keeps there after a sign-in with Google.  Each tab has an AuthProvider, *)
(* which boots once per document (ask /auth/me about the stored token,     *)
(* else trade Supabase's session for a token), and a client that puts the  *)
(* stored token on every call and reacts to a 401 by loading the login     *)
(* page anew.  A token is its account and whether it has expired.          *)
(*                                                                         *)
(* An action is a callback: an answer with the code that awaited it, an    *)
(* event of Supabase, a click.  The token and the user of a tab are set    *)
(* together, and the pages look at the user only.                          *)
(***************************************************************************)
EXTENDS Integers

CONSTANTS
  Tabs, Accounts,
  NoUser, NoToken, NoCall,
  Limit      \* clicks, reloads and expiries in all

Token == [user : Accounts, expired : BOOLEAN]

ASSUME NothingAssumption ==
  /\ NoUser \notin Accounts
  /\ NoToken \notin Token
  /\ NoCall \notin Token \cup {NoToken}
ASSUME LimitAssumption == Limit \in Nat

VARIABLES
  storage,       \* 'token' in localStorage
  session,       \* the account of Supabase's session in localStorage
  tab,           \* AuthProvider and the calls of each tab
  spent,
  \* History variables, read by properties only.
  overtaken,     \* storage changed behind the tab's back
  came,          \* the account a tab came back from Google with, as long
                 \* as it is to be signed in as that, see GoogleSignsIn
  gone           \* signed out for good, see LogoutLasts

past == <<overtaken, came, gone>>
vars == <<storage, session, tab, spent, past>>

Accepts(k) == k # NoToken /\ ~k.expired
DEED == spent < Limit /\ spent' = spent + 1

Booting(t) == tab[t].boot # "over"      \* isLoading
Visitor(t) == ~Booting(t) /\ tab[t].user = NoUser
Member(t) == ~Booting(t) /\ tab[t].user # NoUser

(* The tab goes by a token it has read from storage, or has put there.     *)
Reads(t) == tab[t].user # NoUser \/ tab[t].stored # NoToken

(* A write to localStorage; mine is what the writer's own mark becomes.    *)
Store(t, value, mine) ==
  /\ storage' = value
  /\ overtaken' = [x \in Tabs |->
       IF x = t THEN mine
       ELSE overtaken[x] \/ (value # storage /\ Reads(x))]

(* Mutant of Adopt: a token that is in storage already is kept.            *)
AdoptUnsaved(t, u, r) ==
  /\ Store(t, IF storage = NoToken THEN [user |-> u, expired |-> FALSE] ELSE storage,
           r.boot = "me")
  /\ tab' = [tab EXCEPT ![t] = [r EXCEPT !.user = u]]
(* adopt: a new token of u.  The answer of /auth/me may still replace it   *)
(* in the tab, and only there.                                             *)
Adopt(t, u, r) ==
  /\ Store(t, [user |-> u, expired |-> FALSE], r.boot = "me")
  /\ tab' = [tab EXCEPT ![t] = [r EXCEPT !.user = u]]

(* clear *)
Clear(t, r) ==
  /\ Store(t, NoToken, FALSE)
  /\ tab' = [tab EXCEPT ![t] = [r EXCEPT !.user = NoUser]]

(* exchangeSupabaseSession: one exchange at a time, shared by its waiters. *)
Exchanging(r) == [r EXCEPT !.exchange = IF @ = NoUser THEN session ELSE @]
(* The session that is traded is one that Supabase was told to end.        *)
Outlives == \E t \in Tabs : tab[t].signOut
Trade == gone' = (gone /\ ~Outlives)

-----------------------------------------------------------------------------
(* Documents *)

(* A new document: the calls and the state of the old one are dropped.     *)
Fresh == [user |-> NoUser,
          boot |-> IF storage = NoToken THEN "session" ELSE "me",
          stored |-> storage, exchange |-> NoUser, form |-> NoUser,
          ask |-> NoCall, leaving |-> FALSE, signOut |-> FALSE]
Load(t) ==
  /\ tab' = [tab EXCEPT ![t] = Fresh]
  /\ overtaken' = [overtaken EXCEPT ![t] = FALSE]
  /\ gone' = (gone /\ ~tab[t].signOut)
  /\ UNCHANGED <<storage, session, came>>

Reload(t) == DEED /\ Load(t)
(* window.location.href = '/login' after a 401 *)
Redirected(t) == tab[t].leaving /\ Load(t) /\ UNCHANGED spent

(* "Sign in with Google" and the way back, to a document of its own.  The  *)
(* login page of a tab may be older than the token in storage.             *)
Google(t, u) ==
  /\ Visitor(t) /\ DEED
  /\ session' = u
  /\ tab' = [tab EXCEPT ![t] = Fresh]
  /\ overtaken' = [overtaken EXCEPT ![t] = FALSE]
  /\ came' = [x \in Tabs |-> IF x = t THEN u ELSE NoUser]
  /\ gone' = FALSE
  /\ UNCHANGED storage

-----------------------------------------------------------------------------
(* The boot sequence *)

(* The token is good: the tab takes the one it read, wherever storage is.  *)
MeSucceeds(t) ==
  /\ tab[t].boot = "me" /\ Accepts(tab[t].stored)
  /\ tab' = [tab EXCEPT ![t].user = tab[t].stored.user,
                         ![t].stored = NoToken, ![t].boot = "over"]
  /\ UNCHANGED <<storage, session, spent, past>>

(* Mutant of MeFails: the refused token stays in storage.                  *)
MeFailsKept(t) ==
  /\ tab[t].boot = "me"
  /\ \E refused \in BOOLEAN :
       /\ refused => ~Accepts(tab[t].stored)
       /\ tab' = [tab EXCEPT ![t].stored = NoToken, ![t].boot = "session",
                              ![t].leaving = @ \/ refused]
  /\ UNCHANGED <<storage, session, spent, past>>
(* Any failure drops what is in storage; a 401 leaves the page besides, on *)
(* which the boot goes on for the moment.                                  *)
MeFails(t) ==
  /\ tab[t].boot = "me"
  /\ \E refused \in BOOLEAN :
       /\ refused => ~Accepts(tab[t].stored)
       /\ tab' = [tab EXCEPT ![t].stored = NoToken, ![t].boot = "session",
                              ![t].leaving = @ \/ refused]
  /\ Store(t, NoToken, overtaken[t])
  /\ UNCHANGED <<session, spent, came, gone>>

(* Mutant of GetSession: the boot does not wait for the exchange.          *)
GetSessionUnawaited(t) ==
  /\ tab[t].boot = "session"
  /\ tab' = [tab EXCEPT ![t] = [Exchanging(@) EXCEPT !.boot = "over"]]
  /\ Trade
  /\ UNCHANGED <<storage, session, spent, overtaken, came>>
(* supabaseAccessToken finds a session, and the boot waits for its trade.  *)
SessionFound(t) ==
  /\ session # NoUser
  /\ tab' = [tab EXCEPT ![t] = [Exchanging(@) EXCEPT !.boot = "exchange"]]
  /\ Trade
  /\ UNCHANGED <<storage, session, overtaken, came>>
(* It answers null: there is none, or Supabase could not renew the one     *)
(* there is, and keeps it or drops it.                                     *)
SessionMissing(t) ==
  /\ tab' = [tab EXCEPT ![t].boot = "over"]
  /\ session' \in {session, NoUser}
  /\ came' = [x \in Tabs |-> IF x = t \/ session' = NoUser THEN NoUser ELSE came[x]]
  /\ UNCHANGED <<storage, overtaken, gone>>
(* It throws, into the catch of the boot.                                  *)
SessionThrows(t) ==
  /\ Clear(t, [tab[t] EXCEPT !.boot = "over"])
  /\ came' = [came EXCEPT ![t] = NoUser]
  /\ UNCHANGED <<session, gone>>
GetSession(t) ==
  /\ tab[t].boot = "session"
  /\ SessionFound(t) \/ SessionMissing(t) \/ SessionThrows(t)
  /\ UNCHANGED spent

(* The end of an exchange, awaited by the boot or not: .finally, catch.    *)
Traded(r) == [r EXCEPT !.exchange = NoUser,
                       !.boot = IF @ = "exchange" THEN "over" ELSE @]
ExchangeSucceeds(t) ==
  /\ tab[t].exchange # NoUser
  /\ Adopt(t, tab[t].exchange, Traded(tab[t]))
  /\ UNCHANGED <<session, spent, came, gone>>
ExchangeFails(t) ==
  /\ tab[t].exchange # NoUser
  /\ IF tab[t].boot = "exchange"
       THEN /\ Clear(t, Traded(tab[t]))
            /\ came' = [came EXCEPT ![t] = NoUser]
       ELSE /\ tab' = [tab EXCEPT ![t] = Traded(@)]
            /\ UNCHANGED <<storage, overtaken, came>>
  /\ UNCHANGED <<session, spent, gone>>

-----------------------------------------------------------------------------
(* After boot, or beside it *)

(* onAuthStateChange: SIGNED_IN, TOKEN_REFRESHED *)
AuthEvent(t) ==
  /\ session # NoUser /\ tab[t].user = NoUser /\ tab[t].exchange = NoUser
  /\ tab' = [tab EXCEPT ![t] = Exchanging(@)]
  /\ Trade
  /\ UNCHANGED <<storage, session, spent, overtaken, came>>

(* login and its answer *)
Submit(t, u) ==
  /\ Visitor(t) /\ tab[t].form = NoUser /\ DEED
  /\ tab' = [tab EXCEPT ![t].form = u]
  /\ gone' = FALSE
  /\ UNCHANGED <<storage, session, overtaken, came>>
LoginSucceeds(t) ==
  /\ tab[t].form # NoUser
  /\ Adopt(t, tab[t].form, [tab[t] EXCEPT !.form = NoUser])
  /\ UNCHANGED <<session, spent, came, gone>>
LoginFails(t) ==
  /\ tab[t].form # NoUser
  /\ tab' = [tab EXCEPT ![t].form = NoUser]
  /\ UNCHANGED <<storage, session, spent, past>>

(* No sign-in is under way. *)
Quiet == \A t \in Tabs : tab[t].exchange = NoUser /\ tab[t].form = NoUser
(* Mutant of Logout: Supabase is not told.                                 *)
LogoutHere(t) ==
  /\ Member(t) /\ DEED
  /\ Clear(t, tab[t])
  /\ gone' = Quiet
  /\ UNCHANGED <<session, came>>
(* logout does not wait for signOutSupabase, nor stop an exchange.         *)
Logout(t) ==
  /\ Member(t) /\ DEED
  /\ Clear(t, [tab[t] EXCEPT !.signOut = TRUE])
  /\ gone' = Quiet
  /\ UNCHANGED <<session, came>>
SignOutSucceeds(t) ==
  /\ tab[t].signOut
  /\ tab' = [tab EXCEPT ![t].signOut = FALSE]
  /\ session' = NoUser
  /\ came' = [x \in Tabs |-> NoUser]
  /\ UNCHANGED <<storage, spent, overtaken, gone>>
SignOutFails(t) ==
  /\ tab[t].signOut
  /\ tab' = [tab EXCEPT ![t].signOut = FALSE]
  /\ gone' = FALSE
  /\ UNCHANGED <<storage, session, spent, overtaken, came>>

(* A call of a page carries the token in storage, whosever that is.        *)
Ask(t) ==
  /\ Member(t) /\ tab[t].ask = NoCall /\ DEED
  /\ tab' = [tab EXCEPT ![t].ask = storage]
  /\ UNCHANGED <<storage, session, past>>
Answered(t) ==
  /\ tab[t].ask # NoCall
  /\ tab' = [tab EXCEPT ![t].ask = NoCall]
  /\ UNCHANGED <<storage, session, spent, past>>
(* A 401 removes the token in storage, the refused one or not.             *)
Unauthorized(t) ==
  /\ tab[t].ask # NoCall /\ ~Accepts(tab[t].ask)
  /\ tab' = [tab EXCEPT ![t].ask = NoCall, ![t].leaving = TRUE]
  /\ Store(t, NoToken, overtaken[t])
  /\ UNCHANGED <<session, spent, came, gone>>

(* Twenty-four hours after the token in storage was given out.  One that   *)
(* is on its way is judged by its age when it was sent.                    *)
Expire ==
  /\ Accepts(storage) /\ DEED
  /\ storage' = [storage EXCEPT !.expired = TRUE]
  /\ UNCHANGED <<session, tab, past>>

-----------------------------------------------------------------------------
(* Tabs opened on what earlier visits left in localStorage.                *)
Init ==
  /\ storage \in Token \cup {NoToken}
  /\ session \in Accounts \cup {NoUser}
  /\ tab = [t \in Tabs |-> Fresh]
  /\ spent = 0
  /\ overtaken = [t \in Tabs |-> FALSE]
  /\ came = [t \in Tabs |-> NoUser]
  /\ gone = FALSE

Answer(t) ==
  \/ MeSucceeds(t) \/ MeFails(t) \/ GetSession(t)
  \/ ExchangeSucceeds(t) \/ ExchangeFails(t)
  \/ Redirected(t)
Click(t) ==
  \/ Reload(t) \/ Logout(t) \/ Ask(t)
  \/ \E u \in Accounts : Google(t, u) \/ Submit(t, u)
Other(t) ==
  \/ AuthEvent(t)
  \/ LoginSucceeds(t) \/ LoginFails(t)
  \/ SignOutSucceeds(t) \/ SignOutFails(t)
  \/ Answered(t) \/ Unauthorized(t)
Next == Expire \/ \E t \in Tabs : Answer(t) \/ Click(t) \/ Other(t)

Spec == Init /\ [][Next]_vars

(* A call is answered or fails in the end, and a redirect loads the page.  *)
Fairness ==
  \A t \in Tabs :
    /\ WF_vars(MeSucceeds(t) \/ MeFails(t))
    /\ WF_vars(GetSession(t))
    /\ WF_vars(ExchangeSucceeds(t) \/ ExchangeFails(t))
    /\ WF_vars(Redirected(t))
FairSpec == Spec /\ Fairness

-----------------------------------------------------------------------------
(* Properties *)

TabStates ==
  [user : Accounts \cup {NoUser},
   boot : {"me", "session", "exchange", "over"},
   stored : Token \cup {NoToken},
   exchange : Accounts \cup {NoUser},
   form : Accounts \cup {NoUser},
   ask : Token \cup {NoToken, NoCall},
   leaving : BOOLEAN, signOut : BOOLEAN]

(* Types; besides, a boot that waits for an exchange has one under way,    *)
(* and one that asks /auth/me asks about a token, with no page open yet.   *)
TypeOK ==
  /\ spent \in 0..Limit
  /\ storage \in Token \cup {NoToken}
  /\ session \in Accounts \cup {NoUser}
  /\ tab \in [Tabs -> TabStates]
  /\ \A t \in Tabs :
       /\ tab[t].boot = "exchange" => tab[t].exchange # NoUser
       /\ tab[t].boot = "me" => tab[t].stored # NoToken /\ tab[t].ask = NoCall
  /\ overtaken \in [Tabs -> BOOLEAN]
  /\ came \in [Tabs -> Accounts \cup {NoUser}]
  /\ gone \in BOOLEAN

(* "The app has its own JWT and the matching users row": the account a tab *)
(* shows is the one its next call acts for.  Not so after another tab      *)
(* changed the token, when an exchange ended while /auth/me was asked, nor *)
(* on a page that a 401 has sent to the login page and is still there.     *)
ShownIsUsed ==
  \A t \in Tabs :
    Member(t) /\ ~tab[t].leaving /\ ~overtaken[t] =>
      storage # NoToken /\ storage.user = tab[t].user

(* A logout lasts: no tab puts a token back into storage, not over reloads *)
(* either, until somebody signs in by hand (a tab that shows the account   *)
(* goes on showing it).  Excepted are a sign-in under way in the click, a  *)
(* Supabase session that outlived it: its end failed, was lost with the    *)
(* document, or came too late for an exchange that began meanwhile.        *)
LogoutLasts == gone => storage = NoToken

(* Who comes back from Google is signed in as that account when the page   *)
(* stops loading, over reloads and redirects too.  Supabase reports the    *)
(* sign-in to boot and to the listener, in any order.  Excepted are:       *)
(*   - a token that is in storage by then, another tab's say, which the    *)
(*     boot asks /auth/me about first and prefers when it is accepted      *)
(*     (when it is refused, the login page's own boot signs in as said);   *)
(*   - a session that Supabase does not give out: null, or an error;       *)
(*   - an exchange that fails, and a session another tab ended or replaced.*)
GoogleSignsIn ==
  [][\A t \in Tabs :
       /\ Booting(t) /\ ~Booting(t)'
       /\ tab[t].boot # "me"
       /\ came'[t] # NoUser
       => tab'[t].user = came'[t]]_vars

(* No tab loads for ever, nor is sent by the calls of its boot from a 401  *)
(* to the login page and back without end, whatever the calls answer and   *)
(* the other tabs do.  The 401s of page calls are bounded by Limit.        *)
ComesToRest == <>[](\A t \in Tabs : ~Booting(t) /\ ~tab[t].leaving)

=============================================================================
