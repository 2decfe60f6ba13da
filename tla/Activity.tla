------------------------------ MODULE Activity ------------------------------
(***************************************************************************)
(* The activity log of one user: rows written from goroutines that outlive *)
(* the request, throttled through a key in Redis, and swept when old.      *)
(*                                                                         *)
(* Time is counted in whole ticks.  The clocks of the server, of Redis and *)
(* of the database are taken to agree.                                     *)
(***************************************************************************)
EXTENDS Integers

CONSTANTS
  Jobs,          \* goroutines of RecordAsync at a time
  Window,        \* activeWindow
  WriteTimeout,  \* activityWriteTimeout
  Retention,     \* activityRetention
  Interval,      \* activityCleanupInterval
  MaxTime,       \* bound: the ticks counted
  MaxEvents      \* bound: the events recorded

ASSUME TimesAssumption ==
  /\ {Window, Interval, MaxTime} \subseteq Nat \ {0}
  /\ {WriteTimeout, Retention, MaxEvents} \subseteq Nat
  /\ WriteTimeout < Window /\ 2 * Window <= Retention

VARIABLES
  now,
  key,           \* when the user's throttle key expires
  rows,          \* the user's rows; id stands for the key of the table
  job,           \* what each goroutine is doing
  up,            \* the server runs
  due,           \* when the next sweep is
  events,        \* events so far
  \* History variables, read by properties only.
  answered,      \* when Redis last answered a request of the user, or -1
  unwritten,     \* no row came of the last claim, for some failure
  evicted,       \* Redis has lost the key before its time
  unswept        \* the last sweep failed

vars == <<now, key, rows, job, up, due, events, answered, unwritten, evicted, unswept>>
seen == <<answered, unwritten, evicted>>

Idle == [at |-> "done", id |-> 0, event |-> "active", deadline |-> 0]
At(j, label) == job[j].at = label
Done(j) == job' = [job EXCEPT ![j] = Idle]

Active == {r \in rows : r.event = "active"}

-----------------------------------------------------------------------------
(* RecordAsync: AuthMiddleware calls it on every request with a valid      *)
(* token, the sign-in handlers on every success.                           *)
RecordAsync(j) ==
  /\ up /\ At(j, "done") /\ events < MaxEvents
  /\ events' = events + 1
  /\ \E event \in {"active", "login"} :
       job' = [job EXCEPT ![j] =
         [id |-> events', event |-> event, deadline |-> now + WriteTimeout,
          at |-> IF event = "active" THEN "allow" ELSE "insert"]]
  /\ UNCHANGED <<now, key, rows, up, due, seen, unswept>>

(* Mutant of Allow: every request prolongs the window. *)
AllowSliding(j) ==
  /\ At(j, "allow")
  /\ key' = now + Window
  /\ answered' = now
  /\ IF key <= now THEN job' = [job EXCEPT ![j].at = "insert"] /\ unwritten' = FALSE
                   ELSE Done(j) /\ UNCHANGED unwritten
  /\ UNCHANGED <<now, rows, up, due, events, evicted, unswept>>

(* RedisThrottle.Allow, one SET NX with an expiry. *)
Allow(j) ==
  /\ At(j, "allow")
  /\ answered' = now
  /\ IF key <= now
     THEN /\ key' = now + Window
          /\ job' = [job EXCEPT ![j].at = "insert"]
          /\ unwritten' = FALSE
     ELSE Done(j) /\ UNCHANGED <<key, unwritten>>
  /\ UNCHANGED <<now, rows, up, due, events, evicted, unswept>>

(* Mutant of Outage: no answer counts as yes. *)
OutageOpens(j) ==
  /\ At(j, "allow")
  /\ job' = [job EXCEPT ![j].at = "insert"]
  /\ UNCHANGED <<now, key, rows, up, due, events, seen, unswept>>

(* Redis fails or the time is up: not allowed, although the key may be     *)
(* there by now.                                                           *)
Outage(j) ==
  /\ At(j, "allow")
  /\ Done(j)
  /\ \/ UNCHANGED <<key, seen>>
     \/ /\ key <= now
        /\ key' = now + Window /\ answered' = now /\ unwritten' = TRUE
        /\ UNCHANGED evicted
  /\ UNCHANGED <<now, rows, up, due, events, unswept>>

(* The row job j is about to write; created_at is the time of the statement. *)
Row(j) == [id |-> job[j].id, at |-> now, event |-> job[j].event]

(* Mutant of Insert: a statement without an answer is sent again.          *)
InsertRetries(j) ==
  /\ At(j, "insert")
  /\ rows' = rows \cup {Row(j)}
  /\ Done(j) \/ UNCHANGED job
  /\ UNCHANGED <<now, key, up, due, events, seen, unswept>>

(* ActivityRepository.Insert. *)
Insert(j) ==
  /\ At(j, "insert")
  /\ rows' = rows \cup {Row(j)}
  /\ Done(j)
  /\ UNCHANGED <<now, key, up, due, events, seen, unswept>>

(* The statement fails or the time is up: a line in the log, no more. *)
InsertFails(j) ==
  /\ At(j, "insert")
  /\ Done(j)
  /\ unwritten' = (unwritten \/ job[j].event = "active")
  /\ UNCHANGED <<now, key, rows, up, due, events, answered, evicted, unswept>>

(* Redis restarts without its data, or evicts the key. *)
Evict ==
  /\ key > now
  /\ key' = now /\ evicted' = TRUE
  /\ UNCHANGED <<now, rows, job, up, due, events, answered, unwritten, unswept>>

-----------------------------------------------------------------------------
(* What DeleteOlderThan(activityRetention) leaves. *)
Kept == {r \in rows : r.at >= now - Retention}

(* One run of StartCleanup's loop; an error is logged and that is all. *)
Sweep ==
  /\ up /\ due = now
  /\ due' = now + Interval
  /\ \/ rows' = Kept /\ unswept' = FALSE
     \/ UNCHANGED rows /\ unswept' = TRUE
  /\ UNCHANGED <<now, key, job, up, events, seen>>

(* The process stops; nothing waits for the goroutines. *)
Stop ==
  /\ up /\ up' = FALSE
  /\ job' = [j \in Jobs |-> Idle]
  /\ unwritten' = (unwritten \/ \E j \in Jobs : At(j, "insert") /\ job[j].event = "active")
  /\ UNCHANGED <<now, key, rows, due, events, answered, evicted, unswept>>

(* Mutant of Start: the first sweep waits for the ticker. *)
StartLate ==
  /\ ~up /\ up' = TRUE
  /\ due' = now + Interval
  /\ UNCHANGED <<now, key, rows, job, events, seen, unswept>>

(* main starts the server, and StartCleanup sweeps at once. *)
Start ==
  /\ ~up /\ up' = TRUE
  /\ due' = now
  /\ UNCHANGED <<now, key, rows, job, events, seen, unswept>>

(* Time passes, though not past the deadline of a goroutine's context nor  *)
(* past a sweep that is due.                                               *)
Tick ==
  /\ now < MaxTime
  /\ \A j \in Jobs : At(j, "done") \/ now < job[j].deadline
  /\ up => now < due
  /\ now' = now + 1
  /\ UNCHANGED <<key, rows, job, up, due, events, seen, unswept>>

Init ==
  /\ now = 0 /\ key = 0 /\ rows = {}
  /\ job = [j \in Jobs |-> Idle]
  /\ up = TRUE /\ due = 0 /\ events = 0
  /\ answered = -1
  /\ unwritten = FALSE /\ evicted = FALSE /\ unswept = FALSE

Next ==
  \/ \E j \in Jobs :
       RecordAsync(j) \/ Allow(j) \/ Outage(j) \/ Insert(j) \/ InsertFails(j)
  \/ Evict \/ Sweep \/ Stop \/ Start \/ Tick

Spec == Init /\ [][Next]_vars
-----------------------------------------------------------------------------
(* Properties. *)

(* Every variable has its type, the throttle never holds the user back for *)
(* longer than a window, a goroutine is done by its deadline, and an event *)
(* is written once.                                                        *)
TypeOK ==
  /\ now \in 0..MaxTime
  /\ key \in 0..(now + Window)
  /\ events \in Nat
  /\ rows \subseteq [id : 1..events, at : 0..now, event : {"active", "login"}]
  /\ \A r, q \in rows : r.id = q.id => r = q
  /\ job \in [Jobs -> [at : {"done", "allow", "insert"}, id : 0..events,
                       event : {"active", "login"}, deadline : 0..(now + WriteTimeout)]]
  /\ \A j \in Jobs : ~At(j, "done") => now <= job[j].deadline
  /\ up \in BOOLEAN /\ due \in 0..(now + Interval)
  /\ answered \in -1..now
  /\ {unwritten, evicted, unswept} \subseteq BOOLEAN

(* "One row per user per activeWindow": two active rows are a window apart *)
(* but for the time the first one took to be written, as long as Redis     *)
(* keeps the key, and whatever fails or restarts.                          *)
OneRowPerWindow ==
  ~evicted =>
    \A r, q \in Active : r # q /\ r.at <= q.at => q.at >= r.at + Window - WriteTimeout

(* A user who was answered by Redis within the last window has a row that  *)
(* was younger than a window then: the one their request wrote, or the one *)
(* that kept it from writing, unless that one could not be written.        *)
SeenWithinWindow ==
  (answered >= 0 /\ now < answered + Window /\ ~unwritten /\ \A j \in Jobs : ~At(j, "insert"))
    => \E r \in rows : r.at > answered - Window

(* "Retention survives a container restart": while the server runs and its *)
(* last sweep worked, no row outlives the retention by more than the time  *)
(* between two sweeps.                                                     *)
RetentionHolds ==
  up /\ now < due /\ ~unswept => \A r \in rows : now - r.at < Retention + Interval
=============================================================================
