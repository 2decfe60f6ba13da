---------------------------- MODULE ActivityProofs ----------------------------
(* Theorems about Activity, for any number of goroutines and events and    *)
(* any times that keep TimesAssumption.                                    *)
EXTENDS Activity, TLAPS

(* The assumptions on the spans of time, taken apart. *)
LEMMA Times ==
  /\ Window \in Nat /\ Interval \in Nat /\ MaxTime \in Nat
  /\ WriteTimeout \in Nat /\ Retention \in Nat /\ MaxEvents \in Nat
  /\ Window > 0 /\ Interval > 0 /\ WriteTimeout < Window /\ 2 * Window <= Retention
BY TimesAssumption

-----------------------------------------------------------------------------
(* Types. *)

Events == {"active", "login"}
Job == [at : {"done", "allow", "insert"}, id : 0..events, event : Events,
        deadline : 0..(now + WriteTimeout)]

(* What a goroutine knows: an event of its own that no row tells of yet,   *)
(* and a throttle to ask only if it is about activity.                     *)
JobsOK ==
  /\ \A j \in Jobs : ~At(j, "done") => /\ job[j].id \in 1..events
                                       /\ \A r \in rows : r.id # job[j].id
  /\ \A j, k \in Jobs : j # k /\ ~At(j, "done") /\ ~At(k, "done") => job[j].id # job[k].id
  /\ \A j \in Jobs : At(j, "allow") => job[j].event = "active"

TypeInv == TypeOK /\ JobsOK

(* A goroutine that is done, or that goes on as it is. *)
JobsCalm ==
  /\ job' \in [Jobs -> Job']
  /\ \A j \in Jobs : \/ job'[j] = Idle
                     \/ /\ job'[j].id = job[j].id /\ job'[j].event = job[j].event
                        /\ job'[j].deadline = job[j].deadline /\ ~At(j, "done")
                        /\ job'[j].at \in {job[j].at, "insert"}
                     \/ job'[j] = job[j]

(* The types of what goroutines, rows and clocks hold. *)
LEMMA JobFields ==
  ASSUME TypeInv
  PROVE  /\ job \in [Jobs -> Job]
         /\ \A j \in Jobs : /\ job[j].at \in {"done", "allow", "insert"}
                            /\ job[j].id \in 0..events /\ job[j].event \in Events
                            /\ job[j].deadline \in 0..(now + WriteTimeout)
                            /\ job[j].deadline \in Int
         /\ now \in Nat /\ key \in Nat /\ events \in Nat /\ answered \in Int /\ due \in Nat
         /\ \A r \in rows : r.at \in 0..now /\ r.at \in Nat
BY Times DEF TypeInv, TypeOK, Job, Events

(* A goroutine at rest is well typed. *)
LEMMA IdleType == Idle.at = "done" /\ (TypeInv => Idle \in Job)
BY Times DEF Idle, Job, Events, TypeInv, TypeOK

(* A goroutine that ends leaves the others as they are. *)
LEMMA DoneCalm ==
  ASSUME TypeInv, NEW j \in Jobs, Done(j), now' = now, events' = events
  PROVE  /\ JobsCalm /\ job'[j] = Idle
         /\ \A k \in Jobs : k # j => job'[k] = job[k]
<1>1. job \in [Jobs -> Job] /\ Idle \in Job
  BY JobFields, IdleType
<1>2. job' \in [Jobs -> Job] /\ Job' = Job
  BY <1>1 DEF Done, Job
<1>3. QED
  BY <1>1, <1>2 DEF Done, JobsCalm

(* A goroutine let through goes on to write its row. *)
LEMMA InsertLabel ==
  ASSUME TypeInv, NEW j \in Jobs, At(j, "allow"), now' = now, events' = events,
         job' = [job EXCEPT ![j].at = "insert"]
  PROVE  /\ JobsCalm /\ job'[j].at = "insert" /\ job'[j].event = "active"
         /\ job'[j].deadline = job[j].deadline
         /\ \A k \in Jobs : k # j => job'[k] = job[k]
<1>1. job \in [Jobs -> Job] /\ job[j].event = "active"
  BY JobFields DEF TypeInv, JobsOK
<1>2. /\ job'[j] \in Job /\ job'[j].at = "insert" /\ job'[j].event = "active"
      /\ job'[j].deadline = job[j].deadline /\ job'[j].id = job[j].id
      /\ \A k \in Jobs : k # j => job'[k] = job[k]
  BY <1>1 DEF Job
<1>3. job' \in [Jobs -> Job] /\ Job' = Job
  BY <1>1, <1>2 DEF Job
<1>4. QED
  BY <1>2, <1>3 DEF JobsCalm, At

(* Calm goroutines stay in order, while no row is added. *)
LEMMA CalmOK ==
  ASSUME TypeInv, JobsCalm, rows' \subseteq rows, events' = events, now' = now
  PROVE  /\ JobsOK' /\ job' \in [Jobs -> Job']
         /\ \A j \in Jobs : ~At(j, "done")' => now' <= job'[j].deadline
<1>1. \A j \in Jobs : ~At(j, "done")' =>
        /\ ~At(j, "done") /\ job'[j].id = job[j].id /\ job'[j].event = job[j].event
        /\ job'[j].deadline = job[j].deadline
  BY IdleType DEF JobsCalm, At
<1>2. \A j \in Jobs : At(j, "allow")' => At(j, "allow")
  BY IdleType DEF JobsCalm, At
<1>3. JobsOK'
  <2>1. \A j \in Jobs : ~At(j, "done")' => /\ job'[j].id \in 1..events'
                                           /\ \A r \in rows' : r.id # job'[j].id
    BY <1>1 DEF TypeInv, JobsOK
  <2>2. \A j, k \in Jobs : j # k /\ ~At(j, "done")' /\ ~At(k, "done")' => job'[j].id # job'[k].id
    BY <1>1 DEF TypeInv, JobsOK
  <2>3. \A j \in Jobs : At(j, "allow")' => job'[j].event = "active"
    <3>1. \A j \in Jobs : At(j, "allow")' => ~At(j, "done")'
      BY DEF At
    <3>2. QED
      BY <1>1, <1>2, <3>1 DEF TypeInv, JobsOK
  <2>4. QED
    BY <2>1, <2>2, <2>3 DEF JobsOK
<1>4. \A j \in Jobs : ~At(j, "done")' => now' <= job'[j].deadline
  BY <1>1 DEF TypeInv, TypeOK
<1>5. QED
  BY <1>3, <1>4 DEF JobsCalm

(* What the steps that only touch goroutines leave. *)
LEMMA CalmTypes ==
  ASSUME TypeInv, JobsCalm, now' = now, events' = events, up' = up, due' = due,
         rows' = rows, unswept' = unswept,
         key' \in 0..(now + Window), answered' \in -1..now,
         unwritten' \in BOOLEAN, evicted' \in BOOLEAN
  PROVE  TypeInv'
<1>1. JobsOK' /\ job' \in [Jobs -> Job']
  BY CalmOK
<1>2. \A j \in Jobs : ~At(j, "done")' => now' <= job'[j].deadline
  BY CalmOK
<1>3. TypeOK'
  BY <1>1, <1>2 DEF TypeInv, TypeOK, Job, Events
<1>4. QED
  BY <1>1, <1>3 DEF TypeInv

(* A new goroutine keeps the types. *)
LEMMA RecordAsyncTypes == ASSUME TypeInv, NEW j \in Jobs, RecordAsync(j) PROVE TypeInv'
<1>1. PICK event \in Events :
        job' = [job EXCEPT ![j] =
          [id |-> events', event |-> event, deadline |-> now + WriteTimeout,
           at |-> IF event = "active" THEN "allow" ELSE "insert"]]
  BY DEF RecordAsync, Events
<1> DEFINE new == [id |-> events', event |-> event, deadline |-> now + WriteTimeout,
                   at |-> IF event = "active" THEN "allow" ELSE "insert"]
<1>2. events' = events + 1 /\ events' \in Nat /\ events' \in 1..events' /\ now' = now
  BY JobFields DEF RecordAsync
<1>3. new \in Job' /\ ~(new.at = "done") /\ (new.at = "allow" => new.event = "active")
  BY <1>2, JobFields, Times DEF Job, Events
<1>4. \A k \in Jobs : job[k] \in Job'
  BY <1>2, JobFields DEF Job
<1>5. job' = [job EXCEPT ![j] = new]
  BY <1>1
<1> HIDE DEF new
<1>6. job' \in [Jobs -> Job'] /\ job'[j] = new /\ \A k \in Jobs : k # j => job'[k] = job[k]
  BY <1>3, <1>4, <1>5, JobFields
<1>7. new.id = events' /\ new.deadline = now + WriteTimeout
  BY DEF new
<1>8. \A r \in rows : r.id \in 1..events
  BY DEF TypeInv, TypeOK
<1>9. JobsOK'
  <2>1. rows' = rows
    BY DEF RecordAsync
  <2>2. \A k \in Jobs : ~At(k, "done")' => /\ job'[k].id \in 1..events'
                                           /\ \A r \in rows' : r.id # job'[k].id
    BY <1>2, <1>6, <1>7, <1>8, <2>1, JobFields DEF TypeInv, JobsOK, At
  <2>3. \A k \in Jobs : job[k].id # events'
    BY <1>2, JobFields
  <2>4. \A k, l \in Jobs : k # l /\ ~At(k, "done")' /\ ~At(l, "done")' => job'[k].id # job'[l].id
    BY <1>6, <1>7, <2>3 DEF TypeInv, JobsOK, At
  <2>5. \A k \in Jobs : At(k, "allow")' => job'[k].event = "active"
    BY <1>3, <1>6 DEF TypeInv, JobsOK, At
  <2>6. QED
    BY <2>2, <2>4, <2>5 DEF JobsOK
<1>10. \A k \in Jobs : ~At(k, "done")' => now' <= job'[k].deadline
  BY <1>2, <1>6, <1>7, JobFields, Times DEF TypeInv, TypeOK, At
<1>11. TypeOK'
  <2>1. rows' \subseteq [id : 1..events', at : 0..now', event : Events]
    BY <1>2 DEF RecordAsync, TypeInv, TypeOK, Events
  <2>2. QED
    BY <1>2, <1>6, <1>10, <2>1 DEF RecordAsync, TypeInv, TypeOK, Job, Events, seen
<1>12. QED
  BY <1>9, <1>11 DEF TypeInv

(* Asking the throttle keeps the types. *)
LEMMA AllowTypes == ASSUME TypeInv, NEW j \in Jobs, Allow(j) PROVE TypeInv'
<1>1. now' = now /\ events' = events /\ answered' = now
  BY DEF Allow
<1>2. JobsCalm
  BY <1>1, DoneCalm, InsertLabel DEF Allow
<1>3. key' \in 0..(now + Window) /\ answered' \in -1..now
  BY <1>1, JobFields, Times DEF Allow, TypeInv, TypeOK
<1>4. unwritten' \in BOOLEAN /\ evicted' \in BOOLEAN
  BY DEF Allow, TypeInv, TypeOK
<1>5. QED
  BY <1>1, <1>2, <1>3, <1>4, CalmTypes DEF Allow

(* A failing Redis keeps the types. *)
LEMMA OutageTypes == ASSUME TypeInv, NEW j \in Jobs, Outage(j) PROVE TypeInv'
<1>1. now' = now /\ events' = events
  BY DEF Outage
<1>2. JobsCalm
  BY <1>1, DoneCalm DEF Outage
<1>3. key' \in 0..(now + Window) /\ answered' \in -1..now
  BY <1>1, JobFields, Times DEF Outage, seen, TypeInv, TypeOK
<1>4. unwritten' \in BOOLEAN /\ evicted' \in BOOLEAN
  BY DEF Outage, seen, TypeInv, TypeOK
<1>5. QED
  BY <1>1, <1>2, <1>3, <1>4, CalmTypes DEF Outage

(* A new row keeps the types, and no other has its id. *)
LEMMA InsertTypes == ASSUME TypeInv, NEW j \in Jobs, Insert(j) PROVE TypeInv'
<1>1. now' = now /\ events' = events /\ Done(j) /\ At(j, "insert") /\ rows' = rows \cup {Row(j)}
  BY DEF Insert
<1>2. JobsCalm /\ job'[j] = Idle /\ \A k \in Jobs : k # j => job'[k] = job[k]
  BY <1>1, DoneCalm
<1>3. /\ job[j].id \in 1..events /\ \A r \in rows : r.id # job[j].id
      /\ \A k \in Jobs : k # j /\ ~At(k, "done") => job[k].id # job[j].id
  BY <1>1 DEF TypeInv, JobsOK, At
<1>4. Row(j) \in [id : 1..events, at : 0..now, event : Events] /\ Row(j).id = job[j].id
  BY <1>3, JobFields DEF Row
<1>5. \A r, q \in rows' : r.id = q.id => r = q
  BY <1>1, <1>3, <1>4 DEF TypeInv, TypeOK
<1>6. rows' \subseteq [id : 1..events', at : 0..now', event : Events]
  BY <1>1, <1>4 DEF TypeInv, TypeOK, Events
<1>7. job' \in [Jobs -> Job']
  BY <1>2 DEF JobsCalm
<1>8. JobsOK'
  <2>1. \A k \in Jobs : ~At(k, "done")' => k # j /\ ~At(k, "done") /\ job'[k] = job[k]
    BY <1>2, IdleType DEF At
  <2>2. \A k \in Jobs : ~At(k, "done")' => /\ job'[k].id \in 1..events'
                                           /\ \A r \in rows' : r.id # job'[k].id
    BY <1>1, <1>3, <1>4, <2>1 DEF TypeInv, JobsOK
  <2>3. \A k, l \in Jobs : k # l /\ ~At(k, "done")' /\ ~At(l, "done")' => job'[k].id # job'[l].id
    BY <2>1 DEF TypeInv, JobsOK
  <2>4. \A k \in Jobs : At(k, "allow")' => job'[k].event = "active"
    BY <2>1 DEF TypeInv, JobsOK, At
  <2>5. QED
    BY <2>2, <2>3, <2>4 DEF JobsOK
<1>9. \A k \in Jobs : ~At(k, "done")' => now' <= job'[k].deadline
  BY <1>1, <1>2, IdleType DEF TypeInv, TypeOK, At
<1>10. TypeOK'
  BY <1>1, <1>5, <1>6, <1>7, <1>9 DEF Insert, seen, TypeInv, TypeOK, Job, Events
<1>11. QED
  BY <1>8, <1>10 DEF TypeInv

(* A failed write keeps the types. *)
LEMMA InsertFailsTypes == ASSUME TypeInv, NEW j \in Jobs, InsertFails(j) PROVE TypeInv'
<1>1. now' = now /\ events' = events /\ key' = key /\ answered' = answered
  BY DEF InsertFails
<1>2. JobsCalm
  BY <1>1, DoneCalm DEF InsertFails
<1>3. key' \in 0..(now + Window) /\ answered' \in -1..now
  BY <1>1 DEF TypeInv, TypeOK
<1>4. unwritten' \in BOOLEAN /\ evicted' \in BOOLEAN
  BY DEF InsertFails, TypeInv, TypeOK
<1>5. QED
  BY <1>1, <1>2, <1>3, <1>4, CalmTypes DEF InsertFails

(* A key Redis drops keeps the types. *)
LEMMA EvictTypes == ASSUME TypeInv, Evict PROVE TypeInv'
<1>1. now' = now /\ events' = events /\ job' = job
  BY DEF Evict
<1>2. JobsCalm
  BY <1>1, JobFields DEF JobsCalm, Job
<1>3. key' \in 0..(now + Window) /\ answered' \in -1..now
  BY JobFields, Times DEF Evict, TypeInv, TypeOK
<1>4. unwritten' \in BOOLEAN /\ evicted' \in BOOLEAN
  BY DEF Evict, TypeInv, TypeOK
<1>5. QED
  BY <1>1, <1>2, <1>3, <1>4, CalmTypes DEF Evict

(* The sweep keeps the types. *)
LEMMA SweepTypes == ASSUME TypeInv, Sweep PROVE TypeInv'
<1>1. now' = now /\ events' = events /\ job' = job /\ rows' \subseteq rows
  BY DEF Sweep, Kept
<1>2. JobsCalm
  BY <1>1, JobFields DEF JobsCalm, Job
<1>3. JobsOK' /\ \A j \in Jobs : ~At(j, "done")' => now' <= job'[j].deadline
  BY <1>1, <1>2, CalmOK
<1>4. due' \in 0..(now + Interval) /\ unswept' \in BOOLEAN
  <2>1. due' = now + Interval /\ (unswept' = FALSE \/ unswept' = TRUE)
    BY DEF Sweep
  <2>2. due' \in 0..(now + Interval)
    BY <2>1, JobFields, Times
  <2>3. unswept' \in BOOLEAN
    BY <2>1
  <2>4. QED
    BY <2>2, <2>3
<1>5. /\ rows' \subseteq [id : 1..events', at : 0..now', event : {"active", "login"}]
      /\ \A r, q \in rows' : r.id = q.id => r = q
  BY <1>1 DEF TypeInv, TypeOK
<1>6. TypeOK'
  BY <1>1, <1>3, <1>4, <1>5 DEF Sweep, seen, TypeInv, TypeOK
<1>7. QED
  BY <1>3, <1>6 DEF TypeInv

(* A stop keeps the types. *)
LEMMA StopTypes == ASSUME TypeInv, Stop PROVE TypeInv'
<1>1. now' = now /\ events' = events /\ job' = [j \in Jobs |-> Idle]
  BY DEF Stop
<1>2. JobsCalm
  BY <1>1, IdleType DEF JobsCalm, Job
<1>3. JobsOK' /\ job' \in [Jobs -> Job'] /\ \A j \in Jobs : ~At(j, "done")' => now' <= job'[j].deadline
  BY <1>1, <1>2, CalmOK DEF Stop
<1>4. unwritten' \in BOOLEAN
  BY DEF Stop, TypeInv, TypeOK
<1>5. TypeOK'
  BY <1>1, <1>3, <1>4 DEF Stop, TypeInv, TypeOK, Job, Events
<1>6. QED
  BY <1>3, <1>5 DEF TypeInv

(* A start keeps the types. *)
LEMMA StartTypes == ASSUME TypeInv, Start PROVE TypeInv'
<1>1. JobsOK'
  BY DEF Start, TypeInv, JobsOK, At
<1>2. due' \in 0..(now' + Interval)
  BY JobFields, Times DEF Start
<1>3. TypeOK'
  BY <1>2 DEF Start, seen, TypeInv, TypeOK, At
<1>4. QED
  BY <1>1, <1>3 DEF TypeInv

(* Time does not pass the deadline of a goroutine. *)
LEMMA TickTypes == ASSUME TypeInv, Tick PROVE TypeInv'
<1>1. JobsOK'
  BY DEF Tick, TypeInv, JobsOK, At
<1>2. now' = now + 1 /\ now' \in 0..MaxTime /\ now \in Nat
  BY JobFields, Times DEF Tick
<1>3. key' \in 0..(now' + Window) /\ due' \in 0..(now' + Interval) /\ answered' \in -1..now'
  BY <1>2, Times DEF Tick, seen, TypeInv, TypeOK
<1>4. rows' \subseteq [id : 1..events', at : 0..now', event : Events]
  <2>1. \A r \in rows : r \in [id : 1..events, at : 0..now', event : Events]
    BY <1>2 DEF TypeInv, TypeOK, Events
  <2>2. QED
    BY <2>1 DEF Tick
<1>5. job' \in [Jobs -> Job']
  <2>1. \A j \in Jobs : job[j] \in Job'
    BY <1>2, JobFields, Times DEF Tick, Job, Events
  <2>2. QED
    BY <2>1, JobFields DEF Tick
<1>6. \A j \in Jobs : ~At(j, "done")' => now' <= job'[j].deadline
  BY <1>2, JobFields DEF Tick, At
<1>7. TypeOK'
  BY <1>2, <1>3, <1>4, <1>5, <1>6 DEF Tick, seen, TypeInv, TypeOK, Job, Events
<1>8. QED
  BY <1>1, <1>7 DEF TypeInv

(* The types hold at the start. *)
LEMMA InitTypes == ASSUME Init PROVE TypeInv
<1>1. Idle \in [at : {"done", "allow", "insert"}, id : 0..events, event : {"active", "login"},
                deadline : 0..(now + WriteTimeout)]
  BY Times DEF Init, Idle
<1>2. \A j \in Jobs : At(j, "done") /\ ~At(j, "allow")
  BY DEF Init, At, Idle
<1>3. TypeOK
  <2>1. /\ now \in 0..MaxTime /\ key \in 0..(now + Window) /\ events \in Nat
        /\ due \in 0..(now + Interval) /\ answered \in -1..now
    BY Times DEF Init
  <2>2. up \in BOOLEAN /\ {unwritten, evicted, unswept} \subseteq BOOLEAN
    BY DEF Init
  <2>3. rows = {} /\ job = [j \in Jobs |-> Idle]
    BY DEF Init
  <2>4. QED
    BY <1>1, <1>2, <2>1, <2>2, <2>3 DEF TypeOK
<1>4. JobsOK
  BY <1>2 DEF JobsOK
<1>5. QED
  BY <1>3, <1>4 DEF TypeInv

(* Every step keeps the types. *)
LEMMA StepTypes == ASSUME TypeInv, [Next]_vars PROVE TypeInv'
<1>1. CASE UNCHANGED vars
  <2>1. TypeOK' /\ JobsOK'
    BY <1>1 DEF vars, TypeInv, TypeOK, JobsOK, At
  <2>2. QED
    BY <2>1 DEF TypeInv
<1>2. CASE \E j \in Jobs : RecordAsync(j) \/ Allow(j) \/ Outage(j) \/ Insert(j) \/ InsertFails(j)
  BY <1>2, RecordAsyncTypes, AllowTypes, OutageTypes, InsertTypes, InsertFailsTypes
<1>3. CASE Evict \/ Sweep \/ Stop \/ Start \/ Tick
  BY <1>3, EvictTypes, SweepTypes, StopTypes, StartTypes, TickTypes
<1>4. QED
  BY <1>1, <1>2, <1>3 DEF Next

(* Every variable has its type, the throttle never holds a user back for   *)
(* longer than a window, a goroutine is done by its deadline, and an event *)
(* is written once: no step that follows a write, a failure or a restart   *)
(* writes it again.                                                        *)
THEOREM TypeCorrect == Spec => []TypeOK
<1>1. Init => TypeInv
  BY InitTypes
<1>2. TypeInv /\ [Next]_vars => TypeInv'
  BY StepTypes
<1>3. TypeInv => TypeOK
  BY DEF TypeInv
<1>4. QED
  BY <1>1, <1>2, <1>3, PTL DEF Spec

(* TypeInv is an invariant. *)
LEMMA TypesAlways == Spec => []TypeInv
<1>1. Init => TypeInv
  BY InitTypes
<1>2. TypeInv /\ [Next]_vars => TypeInv'
  BY StepTypes
<1>3. QED
  BY <1>1, <1>2, PTL DEF Spec

-----------------------------------------------------------------------------
(* Retention. *)

(* What the last sweep left, and all that was written since. *)
Swept == up /\ ~unswept /\ now < due => \A r \in rows : r.at >= due - Interval - Retention

(* Every step keeps the rows within the last sweep's reach. *)
LEMMA StepSwept == ASSUME TypeInv, Swept, [Next]_vars PROVE Swept'
<1> USE Times, JobFields
<1>1. CASE Sweep
  <2>1. CASE rows' = Kept
    BY <1>1, <2>1 DEF Sweep, Swept, Kept
  <2>2. CASE unswept' = TRUE
    BY <2>2 DEF Swept
  <2>3. QED
    BY <1>1, <2>1, <2>2 DEF Sweep
<1>2. ASSUME NEW j \in Jobs, Insert(j) PROVE Swept'
  <2>1. rows' = rows \cup {Row(j)} /\ Row(j).at = now /\ UNCHANGED <<now, up, due, unswept>>
    BY <1>2 DEF Insert, Row
  <2>2. now >= due - Interval - Retention
    BY DEF TypeInv, TypeOK
  <2>3. QED
    BY <2>1, <2>2 DEF Swept
<1>3. CASE Tick
  BY <1>3 DEF Tick, Swept
<1>4. CASE Start \/ Stop
  <2>1. ~(up' /\ now' < due')
    BY <1>4 DEF Start, Stop
  <2>2. QED
    BY <2>1 DEF Swept
<1>5. CASE UNCHANGED <<now, rows, up, due, unswept>>
  BY <1>5 DEF Swept
<1>6. ASSUME NEW j \in Jobs, RecordAsync(j) \/ Allow(j) \/ Outage(j) \/ InsertFails(j)
      PROVE  UNCHANGED <<now, rows, up, due, unswept>>
  BY <1>6 DEF RecordAsync, Allow, Outage, InsertFails
<1>7. Evict \/ UNCHANGED vars => UNCHANGED <<now, rows, up, due, unswept>>
  BY DEF Evict, vars
<1>8. QED
  BY <1>1, <1>2, <1>3, <1>4, <1>5, <1>6, <1>7 DEF Next

(* "Retention survives a container restart": while the server runs and its *)
(* last sweep worked, no row outlives the retention by more than the time  *)
(* between two sweeps, however often and whenever the server restarts.     *)
THEOREM RetentionKept == Spec => []RetentionHolds
<1>1. Init => Swept
  BY DEF Init, Swept
<1>2. TypeInv /\ Swept /\ [Next]_vars => Swept'
  BY StepSwept
<1>3. TypeInv /\ Swept => RetentionHolds
  BY Times, JobFields DEF Swept, RetentionHolds
<1>4. QED
  BY <1>1, <1>2, <1>3, TypesAlways, PTL DEF Spec

-----------------------------------------------------------------------------
(* The throttle's claims. *)

(* A goroutine that was given the window and has yet to write its row. *)
Claiming(j) == At(j, "insert") /\ job[j].event = "active"

(* Only an answer of Redis makes a claim, and only the one who made it ends it. *)
LEMMA OthersGoOn ==
  ASSUME TypeInv, NEW j \in Jobs,
         RecordAsync(j) \/ Allow(j) \/ Outage(j) \/ Insert(j) \/ InsertFails(j)
  PROVE  \A k \in Jobs : k # j => job'[k] = job[k]
BY JobFields DEF RecordAsync, Allow, Outage, Insert, InsertFails, Done

(* A goroutine that has ended claims no window. *)
LEMMA DoneClaimsNothing ==
  ASSUME TypeInv, NEW j \in Jobs, Done(j)
  PROVE  ~Claiming(j)'
<1>1. job'[j] = Idle
  BY JobFields DEF Done
<1>2. QED
  BY <1>1, IdleType DEF Claiming, At

(* Only a goroutine let through by the throttle claims a window. *)
LEMMA NoClaim ==
  ASSUME TypeInv, NEW j \in Jobs
  PROVE  /\ Insert(j) \/ InsertFails(j) => ~Claiming(j)'
         /\ RecordAsync(j) \/ Outage(j) => ~Claiming(j) /\ ~Claiming(j)'
         /\ Allow(j) => ~Claiming(j)
         /\ Allow(j) /\ ~(key <= now) => ~Claiming(j)'
         /\ Allow(j) /\ key <= now => Claiming(j)' /\ job'[j].deadline = job[j].deadline
<1>1. Insert(j) \/ InsertFails(j) => ~Claiming(j)'
  BY DoneClaimsNothing DEF Insert, InsertFails
<1>2. Outage(j) => ~Claiming(j) /\ ~Claiming(j)'
  <2>1. Outage(j) => Done(j) /\ At(j, "allow")
    BY DEF Outage
  <2>2. QED
    BY <2>1, DoneClaimsNothing DEF Claiming, At
<1>3. RecordAsync(j) => ~Claiming(j) /\ ~Claiming(j)'
  BY JobFields DEF RecordAsync, Claiming, At
<1>4. Allow(j) => ~Claiming(j)
  BY DEF Allow, Claiming, At
<1>5. Allow(j) /\ ~(key <= now) => ~Claiming(j)'
  <2>1. Allow(j) /\ ~(key <= now) => Done(j)
    BY DEF Allow
  <2>2. QED
    BY <2>1, DoneClaimsNothing
<1>6. Allow(j) /\ key <= now => Claiming(j)' /\ job'[j].deadline = job[j].deadline
  BY InsertLabel DEF Allow, Claiming, At
<1>7. QED
  BY <1>1, <1>2, <1>3, <1>4, <1>5, <1>6

(* A stop ends every claim. *)
LEMMA StopEndsClaims == ASSUME Stop PROVE \A j \in Jobs : ~Claiming(j)'
BY DEF Stop, Claiming, At, Idle

-----------------------------------------------------------------------------
(* One row per window. *)

(* A row that is there was written long before the key runs out. *)
Written == \A r \in Active : r.at + Window - WriteTimeout <= key

(* There is one claim at most, it is the window the key tells of, and it   *)
(* ends with its write timeout. *)
Claimed ==
  /\ \A j, k \in Jobs : Claiming(j) /\ Claiming(k) => j = k
  /\ \A j \in Jobs : Claiming(j) =>
       /\ job[j].deadline <= key - Window + WriteTimeout
       /\ key - Window <= now
       /\ \A r \in Active : r.at + Window - WriteTimeout <= key - Window

OneInv == evicted \/ (Written /\ Claimed /\ OneRowPerWindow)

(* Steps that write no row and end or keep a claim, the key unchanged. *)
LEMMA QuietOne ==
  ASSUME TypeInv, TypeInv', OneInv, ~evicted', evicted' = evicted,
         rows' \subseteq rows, key' = key, now' >= now,
         \A j \in Jobs : Claiming(j)' => Claiming(j) /\ job'[j].deadline = job[j].deadline
  PROVE  OneInv'
<1>1. /\ key \in Nat /\ now \in Nat /\ now' \in Nat
      /\ Window \in Nat /\ WriteTimeout \in Nat
  BY Times DEF TypeInv, TypeOK
<1>2. Active' \subseteq Active
  BY DEF Active
<1>3. Written'
  BY <1>2 DEF OneInv, Written
<1>4. Claimed'
  <2>1. \A j, k \in Jobs : Claiming(j)' /\ Claiming(k)' => j = k
    BY DEF OneInv, Claimed
  <2>2. ASSUME NEW j \in Jobs, Claiming(j)'
        PROVE  /\ job'[j].deadline <= key' - Window + WriteTimeout
               /\ key' - Window <= now'
               /\ \A r \in Active' : r.at + Window - WriteTimeout <= key' - Window
    <3>1. Claiming(j) /\ job'[j].deadline = job[j].deadline
      BY <2>2
    <3>2. QED
      BY <1>1, <1>2, <3>1 DEF OneInv, Claimed
  <2>3. QED
    BY <2>1, <2>2 DEF Claimed
<1>5. OneRowPerWindow'
  BY <1>2 DEF OneInv, OneRowPerWindow
<1>6. QED
  BY <1>3, <1>4, <1>5 DEF OneInv

(* A claim of an earlier window has run out when a new one is made. *)
LEMMA FormerClaims ==
  ASSUME TypeInv, OneInv, ~evicted, key <= now, NEW j \in Jobs, Claiming(j)
  PROVE  FALSE
<1>1. job[j].deadline <= key - Window + WriteTimeout
  BY DEF OneInv, Claimed
<1>2. now <= job[j].deadline
  BY DEF Claiming, At, TypeInv, TypeOK
<1>3. QED
  BY <1>1, <1>2, JobFields, Times

(* A window begins, claimed by goroutine j or, if Redis was not heard, by none. *)
LEMMA NewWindow ==
  ASSUME TypeInv, TypeInv', OneInv, ~evicted, ~evicted', NEW j \in Jobs,
         key <= now, key' = now + Window, now' = now, rows' = rows,
         \A k \in Jobs : Claiming(k)' => /\ k = j \/ Claiming(k)
                                         /\ job'[k].deadline = job[k].deadline
  PROVE  OneInv'
<1>1. \A k \in Jobs : ~Claiming(k)
  BY FormerClaims
<1>2. /\ key \in Nat /\ now \in Nat /\ \A r \in Active : r.at \in Nat
      /\ Window \in Nat /\ WriteTimeout \in Nat /\ WriteTimeout < Window
  BY JobFields, Times DEF Active
<1>3. Active' = Active
  BY DEF Active
<1>4. \A r \in Active : r.at + Window - WriteTimeout <= now
  BY <1>2 DEF OneInv, Written
<1>5. Written'
  BY <1>2, <1>3, <1>4 DEF Written
<1>6. Claimed'
  <2>1. \A k \in Jobs : Claiming(k)' => k = j /\ job'[k].deadline = job[k].deadline
    BY <1>1
  <2>2. \A k \in Jobs : job[k].deadline \in Int /\ job[k].deadline <= now + WriteTimeout
    BY <1>2, JobFields
  <2>3. key' - Window = now
    BY <1>2
  <2>4. QED
    BY <1>2, <1>3, <1>4, <2>1, <2>2, <2>3 DEF Claimed
<1>7. OneRowPerWindow'
  BY <1>3 DEF OneInv, OneRowPerWindow
<1>8. QED
  BY <1>5, <1>6, <1>7 DEF OneInv

(* The row of a claim is a window away from the rows before it. *)
LEMMA InsertOne ==
  ASSUME TypeInv, TypeInv', OneInv, NEW j \in Jobs, Insert(j)
  PROVE  OneInv'
<1>1. /\ rows' = rows \cup {Row(j)} /\ Row(j).at = now /\ Row(j).event = job[j].event
      /\ UNCHANGED <<now, key, evicted>>
  BY DEF Insert, Row, seen
<1>2. \A k \in Jobs : Claiming(k)' => k # j /\ Claiming(k) /\ job'[k] = job[k]
  BY OthersGoOn, NoClaim DEF Claiming, At
<1>3. /\ key \in Nat /\ now \in Nat /\ \A r \in Active : r.at \in Nat
      /\ Window \in Nat /\ WriteTimeout \in Nat /\ WriteTimeout < Window
  BY JobFields, Times DEF Active
<1>4. CASE ~evicted /\ ~Claiming(j)
  <2>1. Active' = Active
    BY <1>1, <1>4 DEF Insert, Active, Claiming
  <2>2. Written' /\ OneRowPerWindow'
    BY <1>1, <1>4, <2>1 DEF OneInv, Written, OneRowPerWindow
  <2>3. Claimed'
    BY <1>1, <1>2, <1>4, <2>1 DEF OneInv, Claimed
  <2>4. QED
    BY <2>2, <2>3 DEF OneInv
<1>5. CASE ~evicted /\ Claiming(j)
  <2>1. Active' = Active \cup {Row(j)}
    BY <1>1, <1>5 DEF Active, Claiming
  <2>2. \A k \in Jobs : ~Claiming(k)'
    BY <1>2, <1>5 DEF OneInv, Claimed
  <2>3. job[j].deadline <= key - Window + WriteTimeout /\ key - Window <= now
    BY <1>5 DEF OneInv, Claimed
  <2>4. now <= job[j].deadline /\ job[j].deadline \in Int
    BY <1>5, JobFields DEF Claiming, At, TypeInv, TypeOK
  <2>5. \A r \in Active : r.at + Window - WriteTimeout <= key - Window
    BY <1>5 DEF OneInv, Claimed
  <2>6. now + Window - WriteTimeout <= key
    BY <1>3, <2>3, <2>4
  <2>7. Written'
    BY <1>1, <1>5, <2>1, <2>6 DEF OneInv, Written
  <2>8. \A r \in Active : r.at + Window - WriteTimeout <= now /\ r.at < now
    BY <1>3, <2>3, <2>5
  <2>9. OneRowPerWindow'
    BY <1>1, <1>3, <1>5, <2>1, <2>8 DEF OneInv, OneRowPerWindow
  <2>10. QED
    BY <2>2, <2>7, <2>9 DEF OneInv, Claimed
<1>6. QED
  BY <1>1, <1>4, <1>5 DEF OneInv

(* Every step keeps two active rows a window apart. *)
LEMMA StepOne == ASSUME TypeInv, TypeInv', OneInv, [Next]_vars PROVE OneInv'
<1>1. now \in Nat /\ key \in Nat
  BY JobFields
<1> DEFINE Quiet == /\ evicted' = evicted /\ rows' \subseteq rows /\ key' = key /\ now' >= now
                    /\ \A j \in Jobs : Claiming(j)' =>
                         Claiming(j) /\ job'[j].deadline = job[j].deadline
<1>2. Quiet => OneInv'
  BY QuietOne DEF OneInv
<1>3. ASSUME NEW j \in Jobs, RecordAsync(j) \/ InsertFails(j) PROVE Quiet
  <2>1. evicted' = evicted /\ rows' = rows /\ key' = key /\ now' = now
    BY <1>3 DEF RecordAsync, InsertFails, seen
  <2>2. \A k \in Jobs : Claiming(k)' => k # j /\ job'[k] = job[k]
    BY <1>3, NoClaim, OthersGoOn
  <2>3. QED
    BY <1>1, <2>1, <2>2 DEF Claiming, At
<1>4. ASSUME NEW j \in Jobs, Allow(j) PROVE OneInv'
  <2>1. evicted' = evicted /\ rows' = rows /\ now' = now
    BY <1>4 DEF Allow
  <2>2. \A k \in Jobs : k # j => job'[k] = job[k]
    BY <1>4, OthersGoOn
  <2>3. CASE key <= now
    <3>1. key' = now + Window
      BY <1>4, <2>3 DEF Allow
    <3>2. \A k \in Jobs : Claiming(k)' => /\ k = j \/ Claiming(k)
                                          /\ job'[k].deadline = job[k].deadline
      BY <1>4, <2>2, <2>3, NoClaim DEF Claiming, At
    <3>3. CASE ~evicted
      BY <2>1, <2>3, <3>1, <3>2, <3>3, NewWindow
    <3>4. CASE evicted
      BY <2>1, <3>4 DEF OneInv
    <3>5. QED
      BY <3>3, <3>4
  <2>4. CASE ~(key <= now)
    <3>1. key' = key
      BY <1>4, <2>4 DEF Allow
    <3>2. \A k \in Jobs : Claiming(k)' => k # j
      BY <1>4, <2>4, NoClaim
    <3>3. Quiet
      BY <1>1, <2>1, <2>2, <3>1, <3>2 DEF Claiming, At
    <3>4. QED
      BY <1>2, <3>3
  <2>5. QED
    BY <2>3, <2>4
<1>5. ASSUME NEW j \in Jobs, Outage(j) PROVE OneInv'
  <2>1. evicted' = evicted /\ rows' = rows /\ now' = now
    BY <1>5 DEF Outage, seen
  <2>2. \A k \in Jobs : Claiming(k)' => /\ Claiming(k) /\ k # j /\ job'[k] = job[k]
    <3>1. \A k \in Jobs : Claiming(k)' => k # j
      BY <1>5, NoClaim
    <3>2. QED
      BY <1>5, <3>1, OthersGoOn DEF Claiming, At
  <2>3. CASE key' = key
    BY <1>1, <1>2, <2>1, <2>2, <2>3
  <2>4. CASE key <= now /\ key' = now + Window
    <3>1. CASE ~evicted
      BY <2>1, <2>2, <2>4, <3>1, NewWindow
    <3>2. CASE evicted
      BY <2>1, <3>2 DEF OneInv
    <3>3. QED
      BY <3>1, <3>2
  <2>5. QED
    BY <1>5, <2>3, <2>4 DEF Outage
<1>6. CASE Evict
  BY <1>6 DEF Evict, OneInv
<1>7. CASE Sweep \/ Start \/ Tick \/ UNCHANGED vars
  <2>1. evicted' = evicted /\ rows' \subseteq rows /\ key' = key /\ job' = job
    BY <1>7 DEF Sweep, Kept, Start, Tick, vars, seen
  <2>2. now' >= now
    BY <1>1, <1>7 DEF Sweep, Start, Tick, vars
  <2>3. Quiet
    BY <2>1, <2>2 DEF Claiming, At
  <2>4. QED
    BY <1>2, <2>3
<1>8. CASE Stop
  <2>1. evicted' = evicted /\ rows' = rows /\ key' = key /\ now' = now
    BY <1>8 DEF Stop
  <2>2. Quiet
    BY <1>1, <1>8, <2>1, StopEndsClaims
  <2>3. QED
    BY <1>2, <2>2
<1>9. QED
  BY <1>2, <1>3, <1>4, <1>5, <1>6, <1>7, <1>8, InsertOne DEF Next

(* "One row per user per activeWindow": two active rows are a window apart *)
(* but for the time the first one took to be written, as long as Redis     *)
(* keeps the key, whatever fails or restarts, however many requests run.   *)
THEOREM OneRowAlways == Spec => []OneRowPerWindow
<1>1. Init => OneInv
  <2>1. Init => \A j \in Jobs : ~Claiming(j)
    <3>1. Init => job = [j \in Jobs |-> Idle]
      BY DEF Init
    <3>2. QED
      BY <3>1, IdleType DEF Claiming, At
  <2>2. Init => Active = {}
    BY DEF Init, Active
  <2>3. QED
    BY <2>1, <2>2 DEF OneInv, Written, Claimed, OneRowPerWindow
<1>2. TypeInv /\ TypeInv' /\ OneInv /\ [Next]_vars => OneInv'
  BY StepOne
<1>3. OneInv => OneRowPerWindow
  BY DEF OneInv, OneRowPerWindow
<1>4. QED
  BY <1>1, <1>2, <1>3, TypesAlways, PTL DEF Spec

-----------------------------------------------------------------------------
(* A row within the last window. *)

Claim == \E j \in Jobs : Claiming(j)

(* While the key holds, its row is there or about to be written, *)
Held == ~unwritten /\ key > now => Claim \/ \E r \in rows : r.at >= key - Window

(* and so is one that was younger than a window at the last answer. *)
Fresh ==
  ~unwritten /\ answered >= 0 /\ now < answered + Window
    => Claim \/ \E r \in rows : r.at > answered - Window

SeenInv == Held /\ Fresh

(* Steps that end no claim and keep the rows of two windows. *)
LEMMA QuietSeen ==
  ASSUME TypeInv, TypeInv', SeenInv, key' = key, answered' = answered, now' >= now,
         unwritten' \/ ~unwritten, ~unwritten' /\ Claim => Claim',
         \A r \in rows : r.at >= now - Retention => r \in rows'
  PROVE  SeenInv'
<1>1. /\ key \in Nat /\ answered \in Int /\ now \in Nat /\ now' \in Nat
      /\ Window \in Nat /\ Retention \in Nat /\ 2 * Window <= Retention
      /\ \A r \in rows : r.at \in Nat
  BY Times, JobFields DEF TypeInv, TypeOK
<1>2. ASSUME ~unwritten', key' > now' PROVE Claim' \/ \E r \in rows' : r.at >= key' - Window
  <2>1. Claim \/ \E r \in rows : r.at >= key - Window
    BY <1>1, <1>2 DEF SeenInv, Held
  <2>2. \A r \in rows : r.at >= key - Window => r.at >= now - Retention
    BY <1>1, <1>2
  <2>3. QED
    BY <1>2, <2>1, <2>2
<1>3. ASSUME ~unwritten', answered' >= 0, now' < answered' + Window
      PROVE  Claim' \/ \E r \in rows' : r.at > answered' - Window
  <2>1. Claim \/ \E r \in rows : r.at > answered - Window
    BY <1>1, <1>3 DEF SeenInv, Fresh
  <2>2. \A r \in rows : r.at > answered - Window => r.at >= now - Retention
    BY <1>1, <1>3
  <2>3. QED
    BY <1>3, <2>1, <2>2
<1>4. QED
  BY <1>2, <1>3 DEF SeenInv, Held, Fresh

(* Every step keeps an answered user's row young. *)
LEMMA StepSeen == ASSUME TypeInv, TypeInv', SeenInv, [Next]_vars PROVE SeenInv'
<1>1. /\ key \in Nat /\ answered \in Int /\ now \in Nat /\ key <= now + Window /\ answered <= now
      /\ Window \in Nat /\ Retention \in Nat /\ Window > 0 /\ 2 * Window <= Retention
      /\ \A r \in rows : r.at \in Nat
  BY Times, JobFields DEF TypeInv, TypeOK
<1> DEFINE Quiet == /\ key' = key /\ answered' = answered /\ now' >= now
                    /\ unwritten' \/ ~unwritten
                    /\ ~unwritten' /\ Claim => Claim'
                    /\ \A r \in rows : r.at >= now - Retention => r \in rows'
<1>2. Quiet => SeenInv'
  BY QuietSeen
<1>3. ASSUME NEW j \in Jobs, RecordAsync(j) \/ Outage(j)
      PROVE  Claim => Claim'
  <2>1. \A k \in Jobs : Claiming(k) => k # j
    BY <1>3, NoClaim
  <2>2. QED
    BY <1>3, <2>1, OthersGoOn DEF Claim, Claiming, At
<1>4. ASSUME NEW j \in Jobs, RecordAsync(j) PROVE SeenInv'
  <2>1. key' = key /\ answered' = answered /\ now' = now /\ rows' = rows
    BY <1>4 DEF RecordAsync, seen
  <2>2. unwritten' = unwritten
    BY <1>4 DEF RecordAsync, seen
  <2>3. QED
    BY <1>1, <1>2, <1>3, <1>4, <2>1, <2>2
<1>5. ASSUME NEW j \in Jobs, Outage(j) PROVE SeenInv'
  <2>1. CASE unwritten'
    BY <2>1 DEF SeenInv, Held, Fresh
  <2>2. CASE UNCHANGED <<key, seen>>
    <3>1. key' = key /\ answered' = answered /\ now' = now /\ rows' = rows
      BY <1>5, <2>2 DEF Outage, seen
    <3>2. unwritten' = unwritten
      BY <2>2 DEF seen
    <3>3. QED
      BY <1>1, <1>2, <1>3, <1>5, <3>1, <3>2
  <2>3. QED
    BY <1>5, <2>1, <2>2 DEF Outage
<1>6. ASSUME NEW j \in Jobs, Allow(j) PROVE SeenInv'
  <2>1. answered' = now /\ now' = now /\ rows' = rows
    BY <1>6 DEF Allow
  <2>2. CASE key <= now
    <3>1. Claiming(j)'
      BY <1>6, <2>2, NoClaim
    <3>2. Claim'
      BY <3>1 DEF Claim
    <3>3. QED
      BY <3>2 DEF SeenInv, Held, Fresh
  <2>3. CASE ~(key <= now)
    <3>1. key' = key
      BY <1>6, <2>3 DEF Allow
    <3>2. unwritten' = unwritten
      BY <1>6, <2>3 DEF Allow
    <3>3. \A k \in Jobs : Claiming(k) => k # j
      BY <1>6, NoClaim
    <3>4. Claim => Claim'
      BY <1>6, <3>3, OthersGoOn DEF Claim, Claiming, At
    <3>5. ~unwritten => Claim \/ \E r \in rows : r.at >= key - Window
      BY <1>1, <2>3 DEF SeenInv, Held
    <3>6. Held'
      BY <2>1, <3>1, <3>2, <3>4, <3>5 DEF Held
    <3>7. \A r \in rows : r.at >= key - Window => r.at > answered' - Window
      BY <1>1, <2>1, <2>3
    <3>8. Fresh'
      BY <2>1, <3>2, <3>4, <3>5, <3>7 DEF Fresh
    <3>9. QED
      BY <3>6, <3>8 DEF SeenInv
  <2>4. QED
    BY <2>2, <2>3
<1>7. ASSUME NEW j \in Jobs, Insert(j) PROVE SeenInv'
  <2>1. /\ key' = key /\ answered' = answered /\ now' = now
        /\ rows' = rows \cup {Row(j)} /\ Row(j).at = now
    BY <1>7 DEF Insert, Row, seen
  <2>2. \E r \in rows' : r.at = now
    BY <2>1
  <2>3. now >= key - Window /\ now > answered - Window
    BY <1>1
  <2>4. Held' /\ Fresh'
    BY <2>1, <2>2, <2>3 DEF Held, Fresh
  <2>5. QED
    BY <2>4 DEF SeenInv
<1>8. ASSUME NEW j \in Jobs, InsertFails(j) PROVE SeenInv'
  <2>1. key' = key /\ answered' = answered /\ now' = now /\ rows' = rows
    BY <1>8 DEF InsertFails
  <2>2. unwritten' = (unwritten \/ job[j].event = "active")
    BY <1>8 DEF InsertFails
  <2>3. unwritten' \/ ~unwritten
    BY <2>2
  <2>4. ~unwritten' => ~Claiming(j)
    BY <2>2 DEF Claiming
  <2>5. ~unwritten' /\ Claim => Claim'
    BY <1>8, <2>4, OthersGoOn DEF Claim, Claiming, At
  <2>6. QED
    BY <1>1, <1>2, <2>1, <2>3, <2>5
<1>9. CASE Stop
  <2>1. key' = key /\ answered' = answered /\ now' = now /\ rows' = rows
    BY <1>9 DEF Stop
  <2>2. unwritten' = (unwritten \/ Claim)
    BY <1>9 DEF Stop, Claim, Claiming
  <2>3. unwritten' \/ ~unwritten
    BY <2>2
  <2>4. ~unwritten' /\ Claim => Claim'
    BY <2>2
  <2>5. QED
    BY <1>1, <1>2, <2>1, <2>3, <2>4
<1>10. CASE Evict
  <2>1. key' = now /\ answered' = answered /\ now' = now /\ rows' = rows /\ job' = job
    BY <1>10 DEF Evict
  <2>2. unwritten' = unwritten
    BY <1>10 DEF Evict
  <2>3. Claim => Claim'
    BY <2>1 DEF Claim, Claiming, At
  <2>4. Held'
    BY <1>1, <2>1 DEF Held
  <2>5. Fresh'
    BY <2>1, <2>2, <2>3 DEF SeenInv, Fresh
  <2>6. QED
    BY <2>4, <2>5 DEF SeenInv
<1>11. CASE Sweep \/ Start \/ Tick \/ UNCHANGED vars
  <2>1. key' = key /\ answered' = answered /\ job' = job
    BY <1>11 DEF Sweep, Start, Tick, vars, seen
  <2>2. unwritten' = unwritten
    BY <1>11 DEF Sweep, Start, Tick, vars, seen
  <2>3. now' >= now
    BY <1>1, <1>11 DEF Sweep, Start, Tick, vars
  <2>4. \A r \in rows : r.at >= now - Retention => r \in rows'
    BY <1>11 DEF Sweep, Kept, Start, Tick, vars
  <2>5. Claim => Claim'
    BY <2>1 DEF Claim, Claiming, At
  <2>6. QED
    BY <1>2, <2>1, <2>2, <2>3, <2>4, <2>5
<1>12. QED
  BY <1>4, <1>5, <1>6, <1>7, <1>8, <1>9, <1>10, <1>11 DEF Next

(* A user who was answered by Redis within the last window has a row that  *)
(* was younger than a window then, unless the row of the last claim could  *)
(* not be written: neither the sweep nor an overlapping request takes the  *)
(* user off the admin page sooner.                                         *)
THEOREM SeenAlways == Spec => []SeenWithinWindow
<1>1. Init => SeenInv
  BY DEF Init, SeenInv, Held, Fresh
<1>2. TypeInv /\ TypeInv' /\ SeenInv /\ [Next]_vars => SeenInv'
  BY StepSeen
<1>3. SeenInv => SeenWithinWindow
  BY DEF SeenInv, Fresh, Claim, Claiming, SeenWithinWindow
<1>4. QED
  BY <1>1, <1>2, <1>3, TypesAlways, PTL DEF Spec

=============================================================================
