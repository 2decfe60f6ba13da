---------------------------- MODULE SessionProofs ----------------------------
(* Who is signed in, for any tabs, any accounts and any number of clicks.  *)
EXTENDS Session, TLAPS

-----------------------------------------------------------------------------
(* Types *)

Consistent(r) ==
  /\ r.boot = "exchange" => r.exchange # NoUser
  /\ r.boot = "me" => r.stored # NoToken /\ r.ask = NoCall

(* A step that changes one tab at most, to one of its types.               *)
OneTab(t) == \E r \in TabStates : Consistent(r) /\ tab' = [tab EXCEPT ![t] = r]

(* It keeps the types of them all. *)
LEMMA OneTabType ==
  ASSUME TypeOK, NEW t \in Tabs, OneTab(t)
  PROVE  /\ tab' \in [Tabs -> TabStates]
         /\ \A x \in Tabs : Consistent(tab'[x])
<1>1. PICK r \in TabStates : Consistent(r) /\ tab' = [tab EXCEPT ![t] = r]
  BY DEF OneTab
<1>2. tab \in [Tabs -> TabStates] /\ \A x \in Tabs : Consistent(tab[x])
  BY DEF TypeOK, Consistent
<1>3. QED
  BY <1>1, <1>2

(* A write to localStorage keeps the marks marks.                          *)
LEMMA StoreType ==
  ASSUME TypeOK, NEW t \in Tabs, NEW value \in Token \cup {NoToken}, NEW mine \in BOOLEAN,
         Store(t, value, mine)
  PROVE  storage' \in Token \cup {NoToken} /\ overtaken' \in [Tabs -> BOOLEAN]
<1>1. \A x \in Tabs : (overtaken[x] \/ (value # storage /\ Reads(x))) \in BOOLEAN
  OBVIOUS
<1>2. QED
  BY <1>1 DEF Store

(* The bound on clicks, reloads and expiries is kept. *)
LEMMA DeedType == ASSUME TypeOK, DEED PROVE spent' \in 0..Limit
BY LimitAssumption DEF TypeOK, DEED

(* A document that is loaded anew begins with a boot. *)
LEMMA FreshType == ASSUME TypeOK PROVE Fresh \in TabStates /\ Consistent(Fresh)
<1>1. Fresh \in TabStates
  BY DEF TypeOK, Fresh, TabStates
<1>2. Consistent(Fresh)
  BY DEF Fresh, Consistent
<1>3. QED
  BY <1>1, <1>2

(* The steps of a boot. *)
LEMMA AnswerTypes ==
  ASSUME TypeOK, NEW t \in Tabs, Answer(t)
  PROVE  TypeOK'
<1> DEFINE r == tab[t]
<1>0. r \in TabStates /\ Consistent(r)
  BY DEF TypeOK, Consistent
<1>1. CASE MeSucceeds(t)
  <2> DEFINE q == [r EXCEPT !.user = r.stored.user, !.stored = NoToken, !.boot = "over"]
  <2>1. r.stored \in Token
    BY <1>0, <1>1 DEF MeSucceeds, Accepts, TabStates
  <2>2. q \in TabStates /\ Consistent(q)
    BY <1>0, <2>1 DEF TabStates, Consistent, Token
  <2>3. tab' = [tab EXCEPT ![t] = q]
    BY <1>1 DEF MeSucceeds
  <2>4. QED
    BY <1>1, <2>2, <2>3, OneTabType DEF OneTab, MeSucceeds, TypeOK, past, Consistent
<1>2. CASE MeFails(t)
  <2>1. PICK refused \in BOOLEAN :
          tab' = [tab EXCEPT ![t].stored = NoToken, ![t].boot = "session",
                             ![t].leaving = @ \/ refused]
    BY <1>2 DEF MeFails
  <2> DEFINE q == [r EXCEPT !.stored = NoToken, !.boot = "session",
                            !.leaving = r.leaving \/ refused]
  <2>2. q \in TabStates /\ Consistent(q)
    BY <1>0 DEF TabStates, Consistent
  <2>3. tab' = [tab EXCEPT ![t] = q]
    BY <2>1
  <2>4. Store(t, NoToken, overtaken[t]) /\ overtaken[t] \in BOOLEAN
    BY <1>2 DEF MeFails, TypeOK
  <2>5. storage' \in Token \cup {NoToken} /\ overtaken' \in [Tabs -> BOOLEAN]
    BY <2>4, StoreType
  <2>6. UNCHANGED <<session, spent, came, gone>>
    BY <1>2 DEF MeFails
  <2>7. tab' \in [Tabs -> TabStates] /\ \A x \in Tabs : Consistent(tab'[x])
    BY <2>2, <2>3, OneTabType DEF OneTab
  <2>8. QED
    BY <2>5, <2>6, <2>7 DEF TypeOK, Consistent
<1>3. CASE GetSession(t)
  <2>1. [r EXCEPT !.boot = "over"] \in TabStates /\ Consistent([r EXCEPT !.boot = "over"])
    BY <1>0 DEF TabStates, Consistent
  <2>2. spent' = spent
    BY <1>3 DEF GetSession
  <2>3. CASE SessionFound(t)
    <3> DEFINE q == [Exchanging(r) EXCEPT !.boot = "exchange"]
    <3>1. session \in Accounts
      BY <2>3 DEF SessionFound, TypeOK
    <3>2. q \in TabStates /\ Consistent(q)
      BY <1>0, <3>1, NothingAssumption DEF TabStates, Consistent, Exchanging
    <3>3. tab' = [tab EXCEPT ![t] = q] /\ gone' \in BOOLEAN
      BY <2>3 DEF SessionFound, Trade, TypeOK
    <3>4. QED
      BY <2>2, <2>3, <3>2, <3>3, OneTabType DEF OneTab, SessionFound, TypeOK, Consistent
  <2>4. CASE SessionMissing(t)
    <3>1. tab' = [tab EXCEPT ![t] = [r EXCEPT !.boot = "over"]]
      BY <2>4 DEF SessionMissing
    <3>2. came' \in [Tabs -> Accounts \cup {NoUser}] /\ session' \in Accounts \cup {NoUser}
      BY <2>4 DEF SessionMissing, TypeOK
    <3>3. QED
      BY <2>1, <2>2, <2>4, <3>1, <3>2, OneTabType
      DEF OneTab, SessionMissing, TypeOK, Consistent
  <2>5. CASE SessionThrows(t)
    <3> DEFINE q == [[r EXCEPT !.boot = "over"] EXCEPT !.user = NoUser]
    <3>1. q \in TabStates /\ Consistent(q)
      BY <2>1 DEF TabStates, Consistent
    <3>2. tab' = [tab EXCEPT ![t] = q] /\ Store(t, NoToken, FALSE)
      BY <2>5 DEF SessionThrows, Clear
    <3>3. storage' \in Token \cup {NoToken} /\ overtaken' \in [Tabs -> BOOLEAN]
      BY <3>2, StoreType
    <3>4. came' \in [Tabs -> Accounts \cup {NoUser}]
      BY <2>5 DEF SessionThrows, TypeOK
    <3>5. QED
      BY <2>2, <2>5, <3>1, <3>2, <3>3, <3>4, OneTabType
      DEF OneTab, SessionThrows, TypeOK, Consistent
  <2>6. QED
    BY <1>3, <2>3, <2>4, <2>5 DEF GetSession
<1> DEFINE d == Traded(r)
<1>4. d \in TabStates /\ Consistent(d) /\ d.boot # "exchange"
      /\ (r.boot # "exchange" => d.boot = r.boot)
  BY <1>0 DEF TabStates, Consistent, Traded
<1>5. CASE ExchangeSucceeds(t)
  <2>1. r.exchange \in Accounts
    BY <1>0, <1>5 DEF ExchangeSucceeds, TabStates
  <2> DEFINE q == [d EXCEPT !.user = r.exchange]
  <2>2. q \in TabStates /\ Consistent(q)
    BY <1>4, <2>1 DEF TabStates, Consistent
  <2>3. /\ tab' = [tab EXCEPT ![t] = q]
        /\ Store(t, [user |-> r.exchange, expired |-> FALSE], d.boot = "me")
    BY <1>5 DEF ExchangeSucceeds, Adopt
  <2>4. [user |-> r.exchange, expired |-> FALSE] \in Token
    BY <2>1 DEF Token
  <2>5. storage' \in Token \cup {NoToken} /\ overtaken' \in [Tabs -> BOOLEAN]
    BY <2>3, <2>4, StoreType
  <2>6. QED
    BY <1>5, <2>2, <2>3, <2>5, OneTabType DEF OneTab, ExchangeSucceeds, TypeOK, Consistent
<1>6. CASE ExchangeFails(t)
  <2> DEFINE q == IF r.boot = "exchange" THEN [d EXCEPT !.user = NoUser] ELSE d
  <2>1. q \in TabStates /\ Consistent(q)
    BY <1>4 DEF TabStates, Consistent
  <2>2. tab' = [tab EXCEPT ![t] = q]
    BY <1>6 DEF ExchangeFails, Clear
  <2>3. storage' \in Token \cup {NoToken} /\ overtaken' \in [Tabs -> BOOLEAN]
    BY <1>6, StoreType DEF ExchangeFails, Clear, TypeOK
  <2>4. came' \in [Tabs -> Accounts \cup {NoUser}]
    BY <1>6 DEF ExchangeFails, TypeOK
  <2>5. QED
    BY <1>6, <2>1, <2>2, <2>3, <2>4, OneTabType DEF OneTab, ExchangeFails, TypeOK, Consistent
<1>7. CASE Redirected(t)
  <2>1. Load(t) /\ spent' = spent
    BY <1>7 DEF Redirected
  <2>2. overtaken' \in [Tabs -> BOOLEAN] /\ gone' \in BOOLEAN
    BY <2>1 DEF Load, TypeOK
  <2>3. QED
    BY <2>1, <2>2, FreshType, OneTabType DEF OneTab, Load, TypeOK, Consistent
<1>8. QED
  BY <1>1, <1>2, <1>3, <1>5, <1>6, <1>7 DEF Answer

(* The clicks. *)
LEMMA ClickTypes ==
  ASSUME TypeOK, NEW t \in Tabs, Click(t)
  PROVE  TypeOK'
<1> DEFINE r == tab[t]
<1>0. r \in TabStates /\ Consistent(r)
  BY DEF TypeOK, Consistent
<1>1. CASE Reload(t)
  <2>1. Load(t) /\ spent' \in 0..Limit
    BY <1>1, DeedType DEF Reload
  <2>2. overtaken' \in [Tabs -> BOOLEAN] /\ gone' \in BOOLEAN
    BY <2>1 DEF Load, TypeOK
  <2>3. QED
    BY <2>1, <2>2, FreshType, OneTabType DEF OneTab, Load, TypeOK, Consistent
<1>2. CASE Logout(t)
  <2> DEFINE q == [r EXCEPT !.signOut = TRUE, !.user = NoUser]
  <2>1. q \in TabStates /\ Consistent(q)
    BY <1>0 DEF TabStates, Consistent
  <2>2. tab' = [tab EXCEPT ![t] = q] /\ Store(t, NoToken, FALSE)
    BY <1>2 DEF Logout, Clear
  <2>3. storage' \in Token \cup {NoToken} /\ overtaken' \in [Tabs -> BOOLEAN]
    BY <2>2, StoreType
  <2>4. gone' \in BOOLEAN
    BY <1>2 DEF Logout, Quiet
  <2>5. QED
    BY <1>2, <2>1, <2>2, <2>3, <2>4, OneTabType, DeedType
    DEF OneTab, Logout, TypeOK, Consistent
<1>3. CASE Ask(t)
  <2> DEFINE q == [r EXCEPT !.ask = storage]
  <2>1. q \in TabStates /\ Consistent(q)
    <3>1. storage \in Token \cup {NoToken} /\ r.boot = "over"
      BY <1>3 DEF Ask, Member, Booting, TypeOK
    <3>2. QED
      BY <1>0, <3>1 DEF TabStates, Consistent
  <2>2. tab' = [tab EXCEPT ![t] = q]
    BY <1>3 DEF Ask
  <2>3. QED
    BY <1>3, <2>1, <2>2, OneTabType, DeedType DEF OneTab, Ask, TypeOK, past, Consistent
<1>4. ASSUME NEW u \in Accounts, Google(t, u) PROVE TypeOK'
  <2>1. overtaken' \in [Tabs -> BOOLEAN] /\ came' \in [Tabs -> Accounts \cup {NoUser}]
    BY <1>4 DEF Google, TypeOK
  <2>2. QED
    BY <1>4, <2>1, FreshType, OneTabType, DeedType DEF OneTab, Google, TypeOK, Consistent
<1>5. ASSUME NEW u \in Accounts, Submit(t, u) PROVE TypeOK'
  <2> DEFINE q == [r EXCEPT !.form = u]
  <2>1. q \in TabStates /\ Consistent(q)
    BY <1>0 DEF TabStates, Consistent
  <2>2. tab' = [tab EXCEPT ![t] = q]
    BY <1>5 DEF Submit
  <2>3. QED
    BY <1>5, <2>1, <2>2, OneTabType, DeedType DEF OneTab, Submit, TypeOK, Consistent
<1>6. QED
  BY <1>1, <1>2, <1>3, <1>4, <1>5 DEF Click

(* Supabase's events, and the answers nothing waits for.                   *)
LEMMA OtherTypes ==
  ASSUME TypeOK, NEW t \in Tabs, Other(t)
  PROVE  TypeOK'
<1> DEFINE r == tab[t]
<1>0. r \in TabStates /\ Consistent(r)
  BY DEF TypeOK, Consistent
<1>1. CASE AuthEvent(t)
  <2> DEFINE q == Exchanging(r)
  <2>1. q \in TabStates /\ Consistent(q)
    <3>1. session \in Accounts
      BY <1>1 DEF AuthEvent, TypeOK
    <3>2. QED
      BY <1>0, <3>1, NothingAssumption DEF TabStates, Consistent, Exchanging
  <2>2. tab' = [tab EXCEPT ![t] = q] /\ gone' \in BOOLEAN
    BY <1>1 DEF AuthEvent, Trade, TypeOK
  <2>3. QED
    BY <1>1, <2>1, <2>2, OneTabType DEF OneTab, AuthEvent, TypeOK, Consistent
<1>2. CASE LoginSucceeds(t)
  <2>1. r.form \in Accounts
    BY <1>0, <1>2 DEF LoginSucceeds, TabStates
  <2> DEFINE q == [r EXCEPT !.form = NoUser, !.user = r.form]
  <2>2. q \in TabStates /\ Consistent(q)
    BY <1>0, <2>1 DEF TabStates, Consistent
  <2>3. /\ tab' = [tab EXCEPT ![t] = q]
        /\ Store(t, [user |-> r.form, expired |-> FALSE], q.boot = "me")
    BY <1>2 DEF LoginSucceeds, Adopt
  <2>4. [user |-> r.form, expired |-> FALSE] \in Token
    BY <2>1 DEF Token
  <2>5. storage' \in Token \cup {NoToken} /\ overtaken' \in [Tabs -> BOOLEAN]
    BY <2>3, <2>4, StoreType
  <2>6. QED
    BY <1>2, <2>2, <2>3, <2>5, OneTabType DEF OneTab, LoginSucceeds, TypeOK, Consistent
<1>3. CASE LoginFails(t)
  <2> DEFINE q == [r EXCEPT !.form = NoUser]
  <2>1. q \in TabStates /\ Consistent(q)
    BY <1>0 DEF TabStates, Consistent
  <2>2. tab' = [tab EXCEPT ![t] = q]
    BY <1>3 DEF LoginFails
  <2>3. QED
    BY <1>3, <2>1, <2>2, OneTabType DEF OneTab, LoginFails, TypeOK, past, Consistent
<1>4. CASE SignOutSucceeds(t) \/ SignOutFails(t)
  <2> DEFINE q == [r EXCEPT !.signOut = FALSE]
  <2>1. q \in TabStates /\ Consistent(q)
    BY <1>0 DEF TabStates, Consistent
  <2>2. tab' = [tab EXCEPT ![t] = q]
    BY <1>4 DEF SignOutSucceeds, SignOutFails
  <2>3. came' \in [Tabs -> Accounts \cup {NoUser}]
    BY <1>4 DEF SignOutSucceeds, SignOutFails, TypeOK
  <2>4. QED
    BY <1>4, <2>1, <2>2, <2>3, OneTabType
    DEF OneTab, SignOutSucceeds, SignOutFails, TypeOK, Consistent
<1>5. CASE Answered(t)
  <2> DEFINE q == [r EXCEPT !.ask = NoCall]
  <2>1. q \in TabStates /\ Consistent(q)
    BY <1>0 DEF TabStates, Consistent
  <2>2. tab' = [tab EXCEPT ![t] = q]
    BY <1>5 DEF Answered
  <2>3. QED
    BY <1>5, <2>1, <2>2, OneTabType DEF OneTab, Answered, TypeOK, past, Consistent
<1>6. CASE Unauthorized(t)
  <2> DEFINE q == [r EXCEPT !.ask = NoCall, !.leaving = TRUE]
  <2>1. q \in TabStates /\ Consistent(q)
    BY <1>0 DEF TabStates, Consistent
  <2>2. tab' = [tab EXCEPT ![t] = q] /\ Store(t, NoToken, overtaken[t])
        /\ overtaken[t] \in BOOLEAN
    BY <1>6 DEF Unauthorized, TypeOK
  <2>3. storage' \in Token \cup {NoToken} /\ overtaken' \in [Tabs -> BOOLEAN]
    BY <2>2, StoreType
  <2>4. QED
    BY <1>6, <2>1, <2>2, <2>3, OneTabType DEF OneTab, Unauthorized, TypeOK, Consistent
<1>7. QED
  BY <1>1, <1>2, <1>3, <1>4, <1>5, <1>6 DEF Other

(* The token in storage that expires is a token, of the same account.      *)
LEMMA ExpireKeeps ==
  ASSUME TypeOK, Expire
  PROVE  /\ storage \in Token /\ storage' \in Token
         /\ storage'.user = storage.user
         /\ TypeOK'
<1>1. storage \in Token /\ storage' = [storage EXCEPT !.expired = TRUE]
  BY DEF Expire, Accepts, TypeOK
<1>2. storage' \in Token /\ storage'.user = storage.user
  BY <1>1 DEF Token
<1>3. QED
  BY <1>1, <1>2, DeedType DEF Expire, TypeOK, past

(* TypeOK is an invariant, whoever else has a tab open.                    *)
THEOREM TypeCorrect == Spec => []TypeOK
<1>1. Init => TypeOK
  <2> SUFFICES ASSUME Init PROVE TypeOK
    OBVIOUS
  <2>1. Fresh \in TabStates /\ Consistent(Fresh)
    BY DEF Init, Fresh, TabStates, Consistent
  <2>2. spent \in 0..Limit
    BY LimitAssumption DEF Init
  <2>3. tab \in [Tabs -> TabStates] /\ \A t \in Tabs : Consistent(tab[t])
    BY <2>1 DEF Init
  <2>4. QED
    BY <2>2, <2>3 DEF Init, TypeOK, Consistent
<1>2. TypeOK /\ [Next]_vars => TypeOK'
  <2>1. TypeOK /\ Next => TypeOK'
    BY AnswerTypes, ClickTypes, OtherTypes, ExpireKeeps DEF Next
  <2>2. TypeOK /\ UNCHANGED vars => TypeOK'
    BY DEF TypeOK, vars, past
  <2>3. QED
    BY <2>1, <2>2
<1>3. QED
  BY <1>1, <1>2, PTL DEF Spec

-----------------------------------------------------------------------------
(* A logout lasts *)

(* After a logout for good nothing is under way that signs anybody in, and *)
(* a session of Supabase's that is still there is about to end.            *)
GoneInv == gone => storage = NoToken /\ Quiet /\ (session # NoUser => Outlives)

(* Each step keeps it: by hand, or under a sign-out, gone ends. *)
LEMMA GoneStep ==
  ASSUME TypeOK, GoneInv, Next
  PROVE  GoneInv'
<1> USE DEF GoneInv, Quiet, Outlives
<1>1. CASE Expire
  BY <1>1 DEF Expire, Accepts, past
<1>2. ASSUME NEW t \in Tabs, Answer(t) PROVE GoneInv'
  <2>1. CASE MeSucceeds(t)
    BY <2>1 DEF MeSucceeds, TypeOK, TabStates, past
  <2>2. CASE MeFails(t)
    BY <2>2 DEF MeFails, Store, TypeOK, TabStates
  <2>3. CASE GetSession(t)
    <3>1. CASE SessionFound(t)
      BY <3>1 DEF SessionFound, Trade
    <3>2. CASE SessionMissing(t)
      <4>1. \A x \in Tabs : /\ tab'[x].exchange = tab[x].exchange
                            /\ tab'[x].form = tab[x].form /\ tab'[x].signOut = tab[x].signOut
        BY <3>2 DEF SessionMissing, TypeOK, TabStates
      <4>2. QED
        BY <3>2, <4>1 DEF SessionMissing
    <3>3. CASE SessionThrows(t)
      <4>1. tab' = [tab EXCEPT ![t] = [[tab[t] EXCEPT !.boot = "over"] EXCEPT !.user = NoUser]]
        BY <3>3 DEF SessionThrows, Clear
      <4>2. \A x \in Tabs : /\ tab'[x].exchange = tab[x].exchange
                            /\ tab'[x].form = tab[x].form /\ tab'[x].signOut = tab[x].signOut
        BY <4>1 DEF TypeOK, TabStates
      <4>3. storage' = NoToken /\ session' = session /\ gone' = gone
        BY <3>3 DEF SessionThrows, Clear, Store
      <4>4. QED
        BY <4>2, <4>3
    <3>4. QED
      BY <2>3, <3>1, <3>2, <3>3 DEF GetSession
  <2>4. CASE ExchangeSucceeds(t)
    BY <2>4 DEF ExchangeSucceeds
  <2>5. CASE ExchangeFails(t)
    BY <2>5 DEF ExchangeFails
  <2>6. CASE Redirected(t)
    BY <2>6 DEF Redirected, Load, Fresh, TypeOK, TabStates
  <2>7. QED
    BY <1>2, <2>1, <2>2, <2>3, <2>4, <2>5, <2>6 DEF Answer
<1>3. ASSUME NEW t \in Tabs, Click(t) PROVE GoneInv'
  <2>1. CASE Reload(t)
    BY <2>1 DEF Reload, Load, Fresh, TypeOK, TabStates
  <2>2. CASE Logout(t)
    <3>1. tab' = [tab EXCEPT ![t] = [tab[t] EXCEPT !.signOut = TRUE, !.user = NoUser]]
      BY <2>2 DEF Logout, Clear
    <3>2. /\ \A x \in Tabs : tab'[x].exchange = tab[x].exchange /\ tab'[x].form = tab[x].form
          /\ tab'[t].signOut
      BY <3>1 DEF TypeOK, TabStates
    <3>3. gone' = Quiet /\ storage' = NoToken
      BY <2>2 DEF Logout, Clear, Store
    <3>4. QED
      BY <3>2, <3>3
  <2>3. CASE Ask(t)
    BY <2>3 DEF Ask, TypeOK, TabStates, past
  <2>4. CASE \E u \in Accounts : Google(t, u) \/ Submit(t, u)
    BY <2>4 DEF Google, Submit
  <2>5. QED
    BY <1>3, <2>1, <2>2, <2>3, <2>4 DEF Click
<1>4. ASSUME NEW t \in Tabs, Other(t) PROVE GoneInv'
  <2>1. CASE AuthEvent(t)
    BY <2>1 DEF AuthEvent, Trade
  <2>2. CASE LoginSucceeds(t) \/ LoginFails(t)
    BY <2>2 DEF LoginSucceeds, LoginFails, past
  <2>3. CASE SignOutSucceeds(t)
    <3>1. \A x \in Tabs : tab'[x].exchange = tab[x].exchange /\ tab'[x].form = tab[x].form
      BY <2>3 DEF SignOutSucceeds, TypeOK, TabStates
    <3>2. QED
      BY <2>3, <3>1 DEF SignOutSucceeds
  <2>7. CASE SignOutFails(t)
    BY <2>7 DEF SignOutFails
  <2>4. CASE Answered(t)
    BY <2>4 DEF Answered, TypeOK, TabStates, past
  <2>5. CASE Unauthorized(t)
    BY <2>5 DEF Unauthorized, Store, TypeOK, TabStates
  <2>6. QED
    BY <1>4, <2>1, <2>2, <2>3, <2>4, <2>5, <2>7 DEF Other
<1>5. QED
  BY <1>1, <1>2, <1>3, <1>4 DEF Next

(* Nobody is signed in after a logout unless somebody signs in by hand, or *)
(* one of the named ways back was open: for any number of tabs.            *)
THEOREM LogoutsLast == Spec => []LogoutLasts
<1>1. Init => GoneInv
  BY DEF Init, GoneInv
<1>2. TypeOK /\ GoneInv /\ [Next]_vars => GoneInv'
  <2>1. TypeOK /\ GoneInv /\ UNCHANGED vars => GoneInv'
    BY DEF GoneInv, Quiet, Outlives, vars, past
  <2>2. QED
    BY <2>1, GoneStep
<1>3. GoneInv => LogoutLasts
  BY DEF GoneInv, LogoutLasts
<1>4. QED
  BY <1>1, <1>2, <1>3, TypeCorrect, PTL DEF Spec

-----------------------------------------------------------------------------
(* The account shown is the account used *)

(* As long as nobody else changed it, the token in storage is of the       *)
(* account the tab shows, or is asking about.                              *)
Holds(u) == storage # NoToken /\ storage.user = u
TabUsed(r) ==
  /\ r.user # NoUser /\ ~r.leaving => Holds(r.user)
  /\ r.boot = "me" => Holds(r.stored.user) /\ r.user = NoUser
UsedInv == \A t \in Tabs : ~overtaken[t] => TabUsed(tab[t])

(* A write marks the other tabs that go by what it replaces.               *)
LEMMA OthersUsed ==
  ASSUME TypeOK, UsedInv, NEW t \in Tabs, NEW value, NEW mine, Store(t, value, mine),
         \A x \in Tabs \ {t} : tab'[x] = tab[x]
  PROVE  \A x \in Tabs \ {t} : ~overtaken'[x] => TabUsed(tab[x])'
<1> SUFFICES ASSUME NEW x \in Tabs \ {t}, ~overtaken'[x] PROVE TabUsed(tab[x])'
  OBVIOUS
<1>1. ~overtaken[x] /\ (value = storage \/ ~Reads(x)) /\ storage' = value
  BY DEF Store
<1>2. TabUsed(tab[x]) /\ tab'[x] = tab[x]
  BY <1>1 DEF UsedInv
<1>3. CASE value = storage
  BY <1>1, <1>2, <1>3 DEF TabUsed, Holds
<1>4. CASE ~Reads(x)
  BY <1>2, <1>4 DEF TabUsed, Reads, TypeOK
<1>5. QED
  BY <1>1, <1>3, <1>4

(* A step that leaves storage alone and every other tab. *)
LEMMA QuietUsed ==
  ASSUME TypeOK, UsedInv, NEW t \in Tabs, storage' = storage, overtaken' = overtaken,
         \A x \in Tabs \ {t} : tab'[x] = tab[x],
         ~overtaken[t] /\ TabUsed(tab[t]) => TabUsed(tab[t])'
  PROVE  UsedInv'
<1> SUFFICES ASSUME NEW x \in Tabs, ~overtaken'[x] PROVE TabUsed(tab[x])'
  BY DEF UsedInv
<1>1. ~overtaken[x] /\ TabUsed(tab[x])
  BY DEF UsedInv
<1>2. CASE x = t
  BY <1>1, <1>2
<1>3. CASE x # t
  BY <1>1, <1>3 DEF TabUsed, Holds
<1>4. QED
  BY <1>2, <1>3

(* A new document reads the storage it finds. *)
LEMMA FreshUsed ==
  ASSUME TypeOK, UsedInv, NEW t \in Tabs, storage' = storage,
         tab' = [tab EXCEPT ![t] = Fresh], overtaken' = [overtaken EXCEPT ![t] = FALSE]
  PROVE  UsedInv'
<1> SUFFICES ASSUME NEW x \in Tabs, ~overtaken'[x] PROVE TabUsed(tab[x])'
  BY DEF UsedInv
<1>1. CASE x = t
  <2>1. tab'[x] = Fresh
    BY <1>1 DEF TypeOK
  <2>2. QED
    BY <2>1 DEF TabUsed, Holds, Fresh
<1>2. CASE x # t
  <2>1. tab'[x] = tab[x] /\ ~overtaken[x]
    BY <1>2 DEF TypeOK
  <2>2. QED
    BY <2>1 DEF UsedInv, TabUsed, Holds
<1>3. QED
  BY <1>1, <1>2

(* A token that was just handed out is in storage and on screen. *)
LEMMA AdoptUsed ==
  ASSUME TypeOK, UsedInv, NEW t \in Tabs, NEW u \in Accounts, NEW r \in TabStates,
         Adopt(t, u, r)
  PROVE  UsedInv'
<1> DEFINE k == [user |-> u, expired |-> FALSE]
           q == [r EXCEPT !.user = u]
<1>1. Store(t, k, r.boot = "me") /\ tab' = [tab EXCEPT ![t] = q]
  BY DEF Adopt
<1>2. \A x \in Tabs \ {t} : tab'[x] = tab[x]
  BY <1>1 DEF TypeOK
<1>3. \A x \in Tabs \ {t} : ~overtaken'[x] => TabUsed(tab[x])'
  BY <1>1, <1>2, OthersUsed
<1>4. ~overtaken'[t] => TabUsed(tab[t])'
  <2>1. k # NoToken /\ k.user = u
    <3>1. k \in Token
      BY DEF Token
    <3>2. QED
      BY <3>1, NothingAssumption
  <2>2. tab'[t] = q /\ q.user = u /\ q.boot = r.boot
    BY <1>1 DEF TypeOK, TabStates
  <2>3. storage' = k /\ (overtaken'[t] <=> r.boot = "me")
    BY <1>1 DEF Store
  <2>4. QED
    BY <2>1, <2>2, <2>3 DEF TabUsed, Holds
<1>5. QED
  BY <1>3, <1>4 DEF UsedInv

(* A tab that drops the token shows nobody, or is about to load anew.      *)
LEMMA DropUsed ==
  ASSUME TypeOK, UsedInv, NEW t \in Tabs, NEW mine, Store(t, NoToken, mine),
         \A x \in Tabs \ {t} : tab'[x] = tab[x],
         ~mine => tab'[t].boot # "me" /\ (tab'[t].user = NoUser \/ tab'[t].leaving)
  PROVE  UsedInv'
<1>1. \A x \in Tabs \ {t} : ~overtaken'[x] => TabUsed(tab[x])'
  BY OthersUsed
<1>2. overtaken'[t] = mine
  BY DEF Store
<1>3. ~overtaken'[t] => TabUsed(tab[t])'
  BY <1>2 DEF TabUsed
<1>4. QED
  BY <1>1, <1>3 DEF UsedInv

(* Every step is one of these kinds. *)
LEMMA UsedStep ==
  ASSUME TypeOK, UsedInv, Next
  PROVE  UsedInv'
<1>1. CASE Expire
  <2>1. storage \in Token /\ storage' \in Token /\ storage'.user = storage.user
    BY <1>1, ExpireKeeps
  <2>2. tab' = tab /\ overtaken' = overtaken
    BY <1>1 DEF Expire, past
  <2>3. QED
    BY <2>1, <2>2, NothingAssumption DEF UsedInv, TabUsed, Holds
<1>2. ASSUME NEW t \in Tabs, Answer(t) PROVE UsedInv'
  <2>0. tab[t] \in TabStates
    BY DEF TypeOK
  <2>1. CASE MeSucceeds(t)
    <3>1. tab' = [tab EXCEPT ![t] = [tab[t] EXCEPT !.user = tab[t].stored.user,
                                                   !.stored = NoToken, !.boot = "over"]]
      BY <2>1 DEF MeSucceeds
    <3>2. tab'[t].user = tab[t].stored.user /\ tab'[t].boot = "over"
      BY <2>0, <3>1 DEF TypeOK, TabStates
    <3>3. \A x \in Tabs \ {t} : tab'[x] = tab[x]
      BY <3>1 DEF TypeOK
    <3>4. TabUsed(tab[t]) => TabUsed(tab[t])'
      BY <2>1, <3>2 DEF MeSucceeds, TabUsed, Holds
    <3>5. QED
      BY <2>1, <3>3, <3>4, QuietUsed DEF MeSucceeds, past
  <2>2. CASE MeFails(t)
    <3>1. /\ \A x \in Tabs \ {t} : tab'[x] = tab[x]
          /\ tab'[t].boot = "session" /\ tab'[t].user = tab[t].user
      BY <2>0, <2>2 DEF MeFails, TypeOK, TabStates
    <3>2. ~overtaken[t] => tab[t].user = NoUser
      BY <2>2 DEF MeFails, UsedInv, TabUsed
    <3>3. Store(t, NoToken, overtaken[t])
      BY <2>2 DEF MeFails
    <3>4. QED
      BY <3>1, <3>2, <3>3, DropUsed
  <2>3. CASE GetSession(t)
    <3>1. CASE SessionFound(t) \/ SessionMissing(t)
      <4>1. PICK q \in {[tab[t] EXCEPT !.boot = "over"],
                       [Exchanging(tab[t]) EXCEPT !.boot = "exchange"]} :
              tab' = [tab EXCEPT ![t] = q]
        BY <3>1 DEF SessionFound, SessionMissing
      <4>2. q.boot # "me" /\ q.user = tab[t].user /\ q.leaving = tab[t].leaving
        BY <2>0 DEF Exchanging, TabStates
      <4>3. tab'[t] = q /\ \A x \in Tabs \ {t} : tab'[x] = tab[x]
        BY <4>1 DEF TypeOK
      <4>4. storage' = storage /\ overtaken' = overtaken
        BY <3>1 DEF SessionFound, SessionMissing
      <4>5. QED
        BY <4>2, <4>3, <4>4, QuietUsed DEF TabUsed, Holds
    <3>2. CASE SessionThrows(t)
      <4>1. /\ tab' = [tab EXCEPT ![t] = [[tab[t] EXCEPT !.boot = "over"] EXCEPT !.user = NoUser]]
            /\ Store(t, NoToken, FALSE)
        BY <3>2 DEF SessionThrows, Clear
      <4>2. /\ \A x \in Tabs \ {t} : tab'[x] = tab[x]
            /\ tab'[t].boot # "me" /\ tab'[t].user = NoUser
        BY <2>0, <4>1 DEF TypeOK, TabStates
      <4>3. QED
        BY <4>1, <4>2, DropUsed
    <3>3. QED
      BY <2>3, <3>1, <3>2 DEF GetSession
  <2>4. CASE ExchangeSucceeds(t)
    <3>1. tab[t].exchange \in Accounts /\ Traded(tab[t]) \in TabStates
      BY <2>0, <2>4 DEF ExchangeSucceeds, TabStates, Traded
    <3>2. QED
      BY <2>4, <3>1, AdoptUsed DEF ExchangeSucceeds
  <2>5. CASE ExchangeFails(t)
    <3>1. CASE tab[t].boot = "exchange"
      <4>1. /\ tab' = [tab EXCEPT ![t] = [Traded(tab[t]) EXCEPT !.user = NoUser]]
            /\ Store(t, NoToken, FALSE)
        BY <2>5, <3>1 DEF ExchangeFails, Clear
      <4>2. /\ \A x \in Tabs \ {t} : tab'[x] = tab[x]
            /\ tab'[t].boot # "me" /\ tab'[t].user = NoUser
        BY <2>0, <3>1, <4>1 DEF Traded, TypeOK, TabStates
      <4>3. QED
        BY <4>1, <4>2, DropUsed
    <3>2. CASE tab[t].boot # "exchange"
      <4>1. /\ tab' = [tab EXCEPT ![t] = Traded(tab[t])]
            /\ storage' = storage /\ overtaken' = overtaken
        BY <2>5, <3>2 DEF ExchangeFails
      <4>2. /\ \A x \in Tabs \ {t} : tab'[x] = tab[x]
            /\ tab'[t].boot = tab[t].boot /\ tab'[t].user = tab[t].user
            /\ tab'[t].leaving = tab[t].leaving /\ tab'[t].stored = tab[t].stored
        BY <2>0, <3>2, <4>1 DEF Traded, TypeOK, TabStates
      <4>3. QED
        BY <4>1, <4>2, QuietUsed DEF TabUsed, Holds
    <3>3. QED
      BY <3>1, <3>2
  <2>6. CASE Redirected(t)
    BY <2>6, FreshUsed DEF Redirected, Load
  <2>7. QED
    BY <1>2, <2>1, <2>2, <2>3, <2>4, <2>5, <2>6 DEF Answer
<1>3. ASSUME NEW t \in Tabs, Click(t) PROVE UsedInv'
  <2>0. tab[t] \in TabStates
    BY DEF TypeOK
  <2>1. CASE Reload(t) \/ \E u \in Accounts : Google(t, u)
    BY <2>1, FreshUsed DEF Reload, Load, Google
  <2>2. CASE Logout(t)
    <3>1. /\ tab' = [tab EXCEPT ![t] = [tab[t] EXCEPT !.signOut = TRUE, !.user = NoUser]]
          /\ Store(t, NoToken, FALSE) /\ tab[t].boot = "over"
      BY <2>2 DEF Logout, Clear, Member, Booting
    <3>2. /\ \A x \in Tabs \ {t} : tab'[x] = tab[x]
          /\ tab'[t].boot # "me" /\ tab'[t].user = NoUser
      BY <2>0, <3>1 DEF TypeOK, TabStates
    <3>3. QED
      BY <3>1, <3>2, DropUsed
  <2>3. CASE Ask(t) \/ \E u \in Accounts : Submit(t, u)
    <3>1. /\ \A x \in Tabs \ {t} : tab'[x] = tab[x]
          /\ tab'[t].boot = tab[t].boot /\ tab'[t].user = tab[t].user
          /\ tab'[t].leaving = tab[t].leaving /\ tab'[t].stored = tab[t].stored
      BY <2>0, <2>3 DEF Ask, Submit, TypeOK, TabStates
    <3>2. storage' = storage /\ overtaken' = overtaken
      BY <2>3 DEF Ask, Submit, past
    <3>3. QED
      BY <3>1, <3>2, QuietUsed DEF TabUsed, Holds
  <2>4. QED
    BY <1>3, <2>1, <2>2, <2>3 DEF Click
<1>4. ASSUME NEW t \in Tabs, Other(t) PROVE UsedInv'
  <2>0. tab[t] \in TabStates
    BY DEF TypeOK
  <2>1. CASE LoginSucceeds(t)
    <3>1. tab[t].form \in Accounts /\ [tab[t] EXCEPT !.form = NoUser] \in TabStates
      BY <2>0, <2>1 DEF LoginSucceeds, TabStates
    <3>2. QED
      BY <2>1, <3>1, AdoptUsed DEF LoginSucceeds
  <2>2. CASE Unauthorized(t)
    <3>1. tab[t].boot # "me"
      BY <2>2 DEF Unauthorized, TypeOK
    <3>2. /\ \A x \in Tabs \ {t} : tab'[x] = tab[x]
          /\ tab'[t].boot = tab[t].boot /\ tab'[t].leaving
      BY <2>0, <2>2 DEF Unauthorized, TypeOK, TabStates
    <3>3. QED
      BY <2>2, <3>1, <3>2, DropUsed DEF Unauthorized
  <2>3. CASE AuthEvent(t) \/ LoginFails(t) \/ SignOutSucceeds(t) \/ SignOutFails(t) \/ Answered(t)
    <3>1. /\ \A x \in Tabs \ {t} : tab'[x] = tab[x]
          /\ tab'[t].boot = tab[t].boot /\ tab'[t].user = tab[t].user
          /\ tab'[t].leaving = tab[t].leaving /\ tab'[t].stored = tab[t].stored
      BY <2>0, <2>3
      DEF AuthEvent, Exchanging, LoginFails, SignOutSucceeds, SignOutFails, Answered,
          TypeOK, TabStates
    <3>2. storage' = storage /\ overtaken' = overtaken
      BY <2>3 DEF AuthEvent, LoginFails, SignOutSucceeds, SignOutFails, Answered, past
    <3>3. QED
      BY <3>1, <3>2, QuietUsed DEF TabUsed, Holds
  <2>4. QED
    BY <1>4, <2>1, <2>2, <2>3 DEF Other
<1>5. QED
  BY <1>1, <1>2, <1>3, <1>4 DEF Next

(* What a tab shows is what its calls are made as, until another tab       *)
(* changes the token or an exchange overtakes the question who it is of.   *)
THEOREM ShownAccountIsUsed == Spec => []ShownIsUsed
<1>1. Init => UsedInv
  BY DEF Init, UsedInv, TabUsed, Holds, Fresh
<1>2. TypeOK /\ UsedInv /\ [Next]_vars => UsedInv'
  <2>1. TypeOK /\ UsedInv /\ UNCHANGED vars => UsedInv'
    BY DEF UsedInv, TabUsed, Holds, vars, past
  <2>2. QED
    BY <2>1, UsedStep
<1>3. UsedInv => ShownIsUsed
  BY DEF UsedInv, TabUsed, Holds, ShownIsUsed, Member
<1>4. QED
  BY <1>1, <1>2, <1>3, TypeCorrect, PTL DEF Spec

-----------------------------------------------------------------------------
(* Coming back from Google *)

(* As long as a tab is to be signed in as the account it came back with,   *)
(* that is whose session is in localStorage, and whose the tab trades.     *)
CameInv ==
  \A t \in Tabs :
    came[t] # NoUser =>
      session = came[t] /\ tab[t].exchange \in {NoUser, came[t]}

(* What a step of one tab has to keep: the other tabs are as they were, or *)
(* have come from nowhere, and this one keeps its part.                    *)
LEMMA CameKept ==
  ASSUME TypeOK, CameInv, NEW t \in Tabs,
         \A x \in Tabs \ {t} : tab'[x] = tab[x] /\ came'[x] \in {came[x], NoUser},
         session' = session \/ \A x \in Tabs \ {t} : came'[x] = NoUser,
         came'[t] # NoUser =>
           session' = came'[t] /\ tab'[t].exchange \in {NoUser, came'[t]}
  PROVE  CameInv'
BY DEF CameInv

(* A boot that ends other than by /auth/me shows whom the tab came back as. *)
Arrived ==
  \A t \in Tabs :
    /\ Booting(t) /\ ~Booting(t)'
    /\ tab[t].boot # "me"
    /\ came'[t] # NoUser
    => tab'[t].user = came'[t]

(* A document loaded anew has traded nothing yet, and its boot begins.     *)
LEMMA LoadCame ==
  ASSUME TypeOK, CameInv, NEW t \in Tabs, Load(t)
  PROVE  CameInv' /\ Arrived
<1>1. /\ \A x \in Tabs \ {t} : tab'[x] = tab[x]
      /\ tab'[t] = Fresh /\ session' = session /\ came' = came
  BY DEF Load, TypeOK
<1>2. Fresh.exchange = NoUser /\ Fresh.boot # "over"
  BY DEF Fresh
<1>3. QED
  BY <1>1, <1>2, CameKept DEF Booting, Arrived, CameInv

(* Each step keeps the session with those who came, and ends a boot well. *)
LEMMA CameStep ==
  ASSUME TypeOK, CameInv, Next
  PROVE  CameInv' /\ Arrived
<1>1. CASE Expire
  BY <1>1 DEF Expire, past, CameInv, Booting, Arrived
<1>2. ASSUME NEW t \in Tabs, Answer(t) PROVE CameInv' /\ Arrived
  <2> DEFINE r == tab[t]
             q == tab'[t]
  <2>0. r \in TabStates
    BY DEF TypeOK
  <2>1. CASE MeSucceeds(t)
    <3>1. /\ \A x \in Tabs \ {t} : tab'[x] = tab[x]
          /\ q.exchange = r.exchange /\ r.boot = "me"
      BY <2>0, <2>1 DEF MeSucceeds, TypeOK, TabStates
    <3>2. session' = session /\ came' = came
      BY <2>1 DEF MeSucceeds, past
    <3>3. QED
      BY <3>1, <3>2, CameKept DEF Booting, Arrived, CameInv
  <2>2. CASE MeFails(t)
    <3>1. /\ \A x \in Tabs \ {t} : tab'[x] = tab[x]
          /\ q.exchange = r.exchange /\ r.boot = "me"
      BY <2>0, <2>2 DEF MeFails, TypeOK, TabStates
    <3>2. session' = session /\ came' = came
      BY <2>2 DEF MeFails
    <3>3. QED
      BY <3>1, <3>2, CameKept DEF Booting, Arrived, CameInv
  <2>3. CASE GetSession(t)
    <3>1. CASE SessionFound(t)
      <4>1. tab' = [tab EXCEPT ![t] = [Exchanging(r) EXCEPT !.boot = "exchange"]]
        BY <3>1 DEF SessionFound
      <4>2. /\ q.boot = "exchange" /\ q.exchange \in {r.exchange, session}
            /\ \A x \in Tabs \ {t} : tab'[x] = tab[x]
        BY <2>0, <4>1 DEF TypeOK, TabStates, Exchanging
      <4>3. session' = session /\ came' = came
        BY <3>1 DEF SessionFound
      <4>4. QED
        BY <4>2, <4>3, CameKept DEF Booting, Arrived, CameInv
    <3>2. CASE SessionMissing(t) \/ SessionThrows(t)
      <4>1. \A x \in Tabs \ {t} : tab'[x] = tab[x]
        BY <3>2 DEF SessionMissing, SessionThrows, Clear, TypeOK
      <4>2. /\ came'[t] = NoUser
            /\ \A x \in Tabs \ {t} : came'[x] \in {came[x], NoUser}
            /\ session' = session \/ \A x \in Tabs \ {t} : came'[x] = NoUser
        BY <3>2 DEF SessionMissing, SessionThrows, TypeOK
      <4>3. QED
        BY <4>1, <4>2, CameKept DEF Booting, Arrived
    <3>3. QED
      BY <2>3, <3>1, <3>2 DEF GetSession
  <2>4. CASE ExchangeSucceeds(t)
    <3>1. tab' = [tab EXCEPT ![t] = [Traded(r) EXCEPT !.user = r.exchange]]
      BY <2>4 DEF ExchangeSucceeds, Adopt
    <3>2. /\ q.exchange = NoUser /\ q.user = r.exchange /\ q.boot \in {r.boot, "over"}
          /\ r.boot # "exchange" => q.boot = r.boot
          /\ \A x \in Tabs \ {t} : tab'[x] = tab[x]
      BY <2>0, <3>1 DEF Traded, TypeOK, TabStates
    <3>3. session' = session /\ came' = came /\ r.exchange # NoUser
      BY <2>4 DEF ExchangeSucceeds
    <3>4. QED
      BY <3>2, <3>3, CameKept DEF Booting, Arrived, CameInv
  <2>5. CASE ExchangeFails(t)
    <3>1. \A x \in Tabs \ {t} : tab'[x] = tab[x]
      BY <2>5 DEF ExchangeFails, Clear, TypeOK
    <3>2. session' = session
      BY <2>5 DEF ExchangeFails
    <3>3. CASE r.boot = "exchange"
      <4>1. came'[t] = NoUser /\ \A x \in Tabs \ {t} : came'[x] = came[x]
        BY <2>5, <3>3 DEF ExchangeFails, TypeOK
      <4>2. QED
        BY <3>1, <3>2, <4>1, CameKept DEF Booting, Arrived
    <3>4. CASE r.boot # "exchange"
      <4>1. tab' = [tab EXCEPT ![t] = Traded(r)] /\ came' = came
        BY <2>5, <3>4 DEF ExchangeFails
      <4>2. q.exchange = NoUser /\ q.boot = r.boot
        BY <2>0, <3>4, <4>1 DEF Traded, TypeOK, TabStates
      <4>3. QED
        BY <3>1, <3>2, <4>1, <4>2, CameKept DEF Booting, Arrived, CameInv
    <3>5. QED
      BY <3>3, <3>4
  <2>6. CASE Redirected(t)
    <3>1. Load(t)
      BY <2>6 DEF Redirected
    <3>2. QED
      BY <3>1, LoadCame
  <2>7. QED
    BY <1>2, <2>1, <2>2, <2>3, <2>4, <2>5, <2>6 DEF Answer
<1>3. ASSUME NEW t \in Tabs, Click(t) PROVE CameInv' /\ Arrived
  <2>0. tab[t] \in TabStates
    BY DEF TypeOK
  <2>1. CASE Reload(t)
    <3>1. Load(t)
      BY <2>1 DEF Reload
    <3>2. QED
      BY <3>1, LoadCame
  <2>2. ASSUME NEW u \in Accounts, Google(t, u) PROVE CameInv' /\ Arrived
    <3>1. /\ \A x \in Tabs \ {t} : tab'[x] = tab[x] /\ came'[x] = NoUser
          /\ tab'[t] = Fresh /\ session' = u
          /\ came'[t] = u
      BY <2>2 DEF Google, TypeOK
    <3>2. Fresh.exchange = NoUser
      BY DEF Fresh
    <3>3. CameInv'
      BY <3>1, <3>2, CameKept
    <3>4. ~Booting(t)
      BY <2>2 DEF Google, Visitor
    <3>5. QED
      BY <3>1, <3>3, <3>4 DEF Booting, Arrived
  <2>3. CASE Logout(t) \/ Ask(t) \/ \E u \in Accounts : Submit(t, u)
    <3>1. tab[t].boot = "over"
      BY <2>3 DEF Logout, Ask, Submit, Member, Visitor, Booting
    <3>2. \A x \in Tabs \ {t} : tab'[x] = tab[x]
      BY <2>3 DEF Logout, Clear, Ask, Submit, TypeOK
    <3>3. tab'[t].exchange = tab[t].exchange
      <4>1. CASE Logout(t)
        BY <2>0, <4>1 DEF Logout, Clear, TypeOK, TabStates
      <4>2. CASE Ask(t)
        BY <2>0, <4>2 DEF Ask, TypeOK, TabStates
      <4>3. CASE \E u \in Accounts : Submit(t, u)
        BY <2>0, <4>3 DEF Submit, TypeOK, TabStates
      <4>4. QED
        BY <2>3, <4>1, <4>2, <4>3
    <3>4. session' = session /\ came' = came
      BY <2>3 DEF Logout, Ask, Submit, past
    <3>5. QED
      BY <3>1, <3>2, <3>3, <3>4, CameKept DEF Booting, Arrived, CameInv
  <2>4. QED
    BY <1>3, <2>1, <2>2, <2>3 DEF Click
<1>4. ASSUME NEW t \in Tabs, Other(t) PROVE CameInv' /\ Arrived
  <2>0. tab[t] \in TabStates
    BY DEF TypeOK
  <2>1. CASE AuthEvent(t)
    <3>1. tab' = [tab EXCEPT ![t] = [tab[t] EXCEPT !.exchange = session]]
      BY <2>1 DEF AuthEvent, Exchanging
    <3>2. /\ \A x \in Tabs \ {t} : tab'[x] = tab[x]
          /\ tab'[t].boot = tab[t].boot /\ tab'[t].exchange = session
      BY <2>0, <3>1 DEF TypeOK, TabStates
    <3>3. session' = session /\ came' = came
      BY <2>1 DEF AuthEvent
    <3>4. QED
      BY <3>2, <3>3, CameKept DEF Booting, Arrived, CameInv
  <2>2. CASE LoginSucceeds(t) \/ LoginFails(t) \/ SignOutFails(t) \/ Answered(t) \/ Unauthorized(t)
    <3>1. \A x \in Tabs \ {t} : tab'[x] = tab[x]
      BY <2>2 DEF LoginSucceeds, Adopt, LoginFails, SignOutFails, Answered, Unauthorized, TypeOK
    <3>2. tab'[t].boot = tab[t].boot /\ tab'[t].exchange = tab[t].exchange
      <4>1. CASE LoginSucceeds(t)
        BY <2>0, <4>1 DEF LoginSucceeds, Adopt, TypeOK, TabStates
      <4>2. CASE LoginFails(t) \/ SignOutFails(t) \/ Answered(t)
        BY <2>0, <4>2 DEF LoginFails, SignOutFails, Answered, TypeOK, TabStates
      <4>3. CASE Unauthorized(t)
        BY <2>0, <4>3 DEF Unauthorized, TypeOK, TabStates
      <4>4. QED
        BY <2>2, <4>1, <4>2, <4>3
    <3>3. session' = session /\ came' = came
      BY <2>2 DEF LoginSucceeds, LoginFails, SignOutFails, Answered, Unauthorized, past
    <3>4. QED
      BY <3>1, <3>2, <3>3, CameKept DEF Booting, Arrived, CameInv
  <2>3. CASE SignOutSucceeds(t)
    <3>1. \A x \in Tabs : came'[x] = NoUser
      BY <2>3 DEF SignOutSucceeds
    <3>2. QED
      BY <3>1 DEF CameInv, Arrived
  <2>4. QED
    BY <1>4, <2>1, <2>2, <2>3 DEF Other
<1>5. QED
  BY <1>1, <1>2, <1>3, <1>4 DEF Next

(* A sign-in with Google arrives, however boot and listener interleave and *)
(* over reloads, unless a token in storage comes first, Supabase does not  *)
(* give the session out, its exchange fails, or another tab ends or        *)
(* replaces the session.                                                   *)
THEOREM GoogleArrives == Spec => GoogleSignsIn
<1>1. Init => CameInv
  BY DEF Init, CameInv
<1>2. TypeOK /\ CameInv /\ [Next]_vars => CameInv'
  <2>1. TypeOK /\ CameInv /\ UNCHANGED vars => CameInv'
    BY DEF CameInv, vars, past
  <2>2. QED
    BY <2>1, CameStep
<1>3. TypeOK /\ CameInv /\ [Next]_vars => [Arrived]_vars
  BY CameStep
<1>4. Arrived <=> \A t \in Tabs :
                    /\ Booting(t) /\ ~Booting(t)'
                    /\ tab[t].boot # "me"
                    /\ came'[t] # NoUser
                    => tab'[t].user = came'[t]
  BY DEF Arrived
<1>5. QED
  BY <1>1, <1>2, <1>3, <1>4, TypeCorrect, PTL DEF Spec, GoogleSignsIn, Arrived

=============================================================================
