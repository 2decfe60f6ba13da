# Verification of mbaca-buku

mbaca-buku is a small ebook library: a Go server (gin, Postgres, Redis, Cloudflare R2) and a React
client. This directory holds TLA+ models of the server and of the pages of its client, TLC
configurations that check them on small instances, and TLAPS proofs of all the runs check but liveness.

## 1. The system

Files of the server are under `backend/`, of the client under `frontend/src/`; the lines each definition
stands for are in `PROJECT.json` under `map`.

| Component | State | Operations |
|---|---|---|
| Reading progress (`reading_service.go`, `progress_repo.go`, `history_repo.go`) | `reading_progress` rows (last page, status), Redis keys `user:R:book:E:last_page` with a 24 h TTL, `history` rows | OpenBook, GetProgress, UpdateProgress, SetStatus, the flusher (30 s), FlushAll at shutdown |
| `fixpagecounts` (`cmd/fixpagecounts`) | `ebooks.total_pages`, `reading_progress` | recount every PDF, then cap the saved progress |
| Accounts and sign-in (`auth_service.go`, `admin_user_service.go`, `user_repo.go`, `middleware/`) | `users`, the JWTs that are out | Register, Login, OAuthLogin, ChangePassword; Create, Update, ResetPassword, Delete of the admin; the seed at start |
| Ebook library (`ebook_service.go`, `ebook_repo.go`, `storage/r2.go`) | `ebooks`, the objects in the bucket | Upload, Update, Delete, lists, presigned links |
| Activity log (`activity_service.go`, `cache/throttle.go`, `activity_repo.go`) | `user_activity_logs`, one throttle key per user in Redis | RecordAsync, the throttle, the retention sweep |
| Search, paging, history (`ebook_repo.go`, `history_repo.go`) | none of their own | the two listings, each a count and a page in two statements |
| Bookmarks (`bookmark_repo.go`, `BookmarkButton.tsx`) | `bookmarks`, the list the button loaded last | create, delete, list; one statement each |
| Reader page (`ReaderPage.tsx`, `useDebouncedCallback.ts`) | page on screen, waiting save, completion | open, turn, save, complete, leave, unload |
| List pages (`EbookListPage.tsx`, `HistoryPage.tsx`) | the URL, the rows on screen, the search box | filter, search, page, Back and Forward, refresh |
| Session in the browser (`AuthContext.tsx`, `client.ts`) | token and Supabase session in localStorage; per tab the user, boot, the exchange under way | boot, sign in by form or Google, log out, react to a 401 |
| Verifier, PDF counting, user agents, HTTP plumbing, layout | none | pure functions, I/O |

How they interact. Every handler works through repositories on shared tables, one statement at a
time; the server uses no transaction that spans two statements and no lock, so that whatever a
handler has read may be out of date when it writes. Reading progress shares its row between
requests, the ticker's flush and `FlushAll`. The command `fixpagecounts` writes the same tables from
another process, and knows nothing of Redis. Deleting a user or an ebook cascades through foreign
keys into tables other handlers are about to write. The authentication middleware starts an activity
goroutine for every request. The pages of the client send calls without waiting for earlier ones; the
list pages take their question from the URL, the reader page saves a page turn three seconds late, and
all tabs share one token in localStorage beside the session Supabase keeps there. `main` starts the
flusher, the sweep and the server, and on SIGTERM cancels the goroutines, drains requests and calls
`FlushAll`, under one deadline of ten seconds.

What is hard here: two requests about the same row; the flusher's read-then-write; cache and row
that disagree; calls that fail half-way through a handler, or whose error is dropped; crashes of the
server, a Redis that comes back empty; tokens that outlive what they say; a book that lives in a
table and in a bucket; answers that arrive in another order than their questions; callbacks that
still see the state of an earlier render; a tab that closes at any time, or changes the token under
another. `PROJECT.json` lists these hazards line by line.

What makes each component correct:

* Reading progress: a page within the document; only the reader's own turns move them; completion is
  the reader's decision and survives everything else; a cached page reaches the database.
* fixpagecounts: what it capped stays within the document, and running it again changes nothing.
* Accounts: somebody stays admin; a role, a password and an email are what was last decided, however
  stale the writer; a deleted account stays deleted; tokens say what the table said.
* Library: every row has its file; nothing leaks but what broke off; privacy changes only on request.
* Activity: at most one row per window, at least one for an active user, and old rows go.
* Listings: pages partition what the user may see, whatever the filter; the authors offered are theirs.
* List pages: what is on screen answers the URL; no page past the end stays; every page comes to rest.
* Session: who is shown is who acts; a logout lasts; a sign-in with Google arrives; no endless reloads.
* Reader page: the server ends with the page last turned to; the two buttons tell the server's state.

## 2. Modules

| Module | Stands for |
|---|---|
| `ReadingService` | the reading service, its flusher and its process, call by call |
| `Bookshelf` | the abstract promise of reading progress: one position per reader and book |
| `FixPageCounts` | extends `ReadingService` with the command, a second process on the same tables |
| `Accounts` | users, tokens, the check-then-write handlers and the seed |
| `Library` | ebooks and the bucket, beside the deletion of accounts |
| `Activity` | throttle, goroutines and retention of one user's log, in discrete time |
| `Catalogue` | what the two listings answer, as operators: visibility, filter, order, paging |
| `ListPage` | extends `Catalogue` with the two list pages: URL, requests, answers, search box |
| `ReaderPage` | the reader page and the bookmark button, over the handlers and the flusher, call by call, for one user and book |
| `Session` | the AuthProviders of several tabs, their calls, and the localStorage they share |
| `ReadingServiceProofs`, `FixPageCountsProofs`, `AccountsProofs`, `LibraryProofs`, `ActivityProofs`, `ListPageProofs`, `ReaderPageProofs`, `SessionProofs` | theorems about the module they are named for |
| `MC*` | the values of the constants and the symmetries for TLC |

Correspondence. In every request-handling module a *slot* is a goroutine serving a request:
`request[s]` holds its operation, where it is (`at`) and the handler's local variables. Each label is
the next call to Postgres, Redis or the bucket; the action of that label is the call together with
the code up to the next one, early returns included. A failed call is a disjunct of its action where
the handler goes on after the error (`FAULT` in `ReadingService`), and `Abandon` where the handler
replies at once, which also stands for a client that went away and so cancelled the request's
context. Values are abstracted to what the properties tell apart: names, titles, hashes and device
columns are gone, a JWT is its id and role, checking a hash is comparing.

`ReadingService`. `cache` is Redis, `progress` the table. `FindEbook` ... `StorePage` are the steps of
the four operations; `ListKeys`, `FlushGet`, `FlushReadRow`, `FlushWrite` and `EndFlush` those of
`flushToDB`, run by two flushers: `ticker` while the server is up, `final` for `FlushAll`. `Signal`,
`Drained`, `Deadline`, `Crash` and `Boot` are the life of the process; a write of the cancelled ticker
may be under way and land late (`FlushWrite` out of its phase) or never (`WriteCancelled`). `Expire`,
`LoseCache`, `DeleteEbook`, `DeleteUser` are the stores'. A key expires 24 hours after its last Set, whether
its page is stored or not: `Expire` takes a stored one at any time, since a pass every 30 seconds has stored
it by then, and an unstored one after a stop or a failed call, each of which stands for as many as fill 24
hours (a server that stood still, upserts that kept failing). The second is a loss, like a restart of Redis. A read that fails returns a zero
`ReadingProgress` that is not nil: a flush then stores the status `''` (`Unread`).

`FixPageCounts`. `ListAll`, `Recount`, `UpdateTotalPages`, `ClampToTotalPages` per ebook of the list made
at the start; `Kill` stops it between any two statements, and it may be started again.
An overlong page may still be in Redis after a recount, for the command knows nothing of the cache, and a
flush then writes it back over the capped row; `FixHolds` therefore speaks of the time from which every copy
lies within.

`Accounts`. `ById`, `Count`, `EmailFree` and `ByEmail` are the reads with the checks that follow them;
`InsertRow`, `UpdateRow` (every column but the password), `SetPassword` and `DeleteRow` the writes.
`UpdateRow` writes back the row that was read. `Restart` ends all requests and seeds. Requests start as
`Sign` (by email, nobody signed in or an admin creating an account) or `Ask` (by id, with a token).

`Library`. `PutFile` then `InsertRow` is an upload; `Read` then `UpdateRow` an edit; `Read`, `ReadAgain`,
`DeleteRow`, `RemoveFile` a delete. Row and object have one name, since each upload makes both names
fresh. `DeleteAccount` sets `uploaded_by` to NULL, which no read of the row can scan (`Readable`).

`Activity`. `RecordAsync` starts a goroutine with a deadline; `Allow` is the SET NX; `Insert` the row;
`Sweep` one run of the cleanup. `rows` is a set of records whose id stands for the row's UUID and tells
which event it is of. `Tick` does not pass the deadline of a running context, nor a sweep
that is due. The three clocks involved are taken to agree.

`Catalogue`. `Listed` is the WHERE clause, `Before` the ORDER BY, `Slice` LIMIT and OFFSET. The history
listing has no tie-breaker, so `HistoryPages` is a set: every page its order leaves open. Titles and
times are places in their order, a keyword search is membership in the words of a title, and `Trim` is
a function on the few author names there are.

`ListPage`. One visit of one of the two pages. A step is an event of the browser with all React does
before the next one: the render and the effects, which see the state of that render. `GoTo` is a change
of the URL with the effects that load, step back from a page past the end, and fill the search box;
`Serve` one of the two statements of a listing; `Deliver` and `Fail` the end of a request. `Manage` keeps
the view a handler closed over, which `Managed` then refreshes. `torn` marks an answer between whose
statements rows changed, `outdated` a newest request that asks an earlier view's question.

`ReaderPage`. `Open`, `Turn`, `TimerFires`, `Toggle`, `Mark`, `Back` and `Unload` are the reader's and the
timer's; `Deliver` and `Fail` what the page does when a call ends. A call belongs to a visit: a promise
outlives its page, and its end is ignored, but for a failed open, which navigates home wherever the reader
is by then. An unload keeps any part of the calls the server is at work on.
The server's part is `ReadingService` once more, for this user and book (`row`, `key`, `flush`), and it
promises no `Bookshelf` here, because the page's calls overlap. `Serve` is one step of a handler: OpenBook is
`OpenReadRow`, `OpenCreate`, `OpenReadKey`, `OpenFill`; SetStatus is `StatusReadKey`, `StatusReadRow`,
`StatusFill`, `StatusWrite`; UpdateProgress is one Set (`ServeSave`), and the bookmark handlers are one
statement each. `Background` is the flusher (`FlushGet`, `FlushReadRow`, `FlushWrite`) and a key that expires
or goes with Redis (`DropKey`). A failed call is a `FAULT` where the handler goes on, and `Fail` where the page
hears of it, after which the handler may still be at work (`Without`). Three history variables mark
what the server does to place and status by itself: `moved`, `undone`, and `behind` of an open that brings
a place that may be an older one. LogOpen and the book's own row are left out: the book stays, and its count is
the file's. So is the list page's OpenBook on the Read button, which is awaited before this page is mounted.

`Session`. An action is a callback of one tab with everything it does before the next await. `Fresh` is
a new document, whose boot asks `/auth/me` about the token it finds (`MeSucceeds`, `MeFails`) or
Supabase for its session (`GetSession`: found, `null`, or thrown, and `null` also with a session in storage
that Supabase could not renew), and trades that for a token (`ExchangeSucceeds`,
`ExchangeFails`). `AuthEvent` is the listener, which shares an exchange under way; `Submit`, `Google`,
`Logout` are the user's; `Ask` is any call of a page, which carries the token then in storage, and
`Unauthorized` its 401, after which the document lives on (`leaving`) until `Redirected` loads the login
page. A token is its account and whether it has expired; tab's `token` and `user` change together, so
the user stands for both. Supabase's client is external: it keeps one session in localStorage, forgets
it when a sign-out succeeds, and reports a session whenever it likes. The production build is modelled:
in development StrictMode mounts twice.

## 3. What the runs check

| Run | Bounds | Shows |
|---|---|---|
| `Reading` | 1 reader, 1 book of 2 pages, pages 1-3, 2 slots that may overlap, 3 requests, 1 fault, 1 loss of Redis, 1 deletion, 1 stop | `PageWithinDocument`, `CompletionWasAsked`, `StatusIsLastAsked`, `GracefulExitFlushes` |
| `ReadingRefinement` | 2 books in the same pass, 1 slot, 2 requests, 1 fault, 1 deletion, 1 stop, pages 1-3 | until a call fails or Redis loses a page every step implements `Bookshelf`; a cached page reaches the database |
| `FixPages` | 1 book whose stored count is 0 to 3 and whose PDF has 2 pages, 2 requests, 1 fault, 1 deletion, 2 runs of the command | `FixHolds`, `CappedOnce` |
| `Accounts` | 2 admins, a free id, 3 emails, 2 passwords, 2 slots, 3 requests, restarts | roles, passwords, emails, the last admin |
| `Library` | 2 uploaders, 1 admin, 2 books, 2 slots, 4 requests, restarts, deleted accounts | `FileOfEveryBook`, `FilesAccountedFor`, `PrivacyChangesOnRequest`, `DeletedStaysDeleted` |
| `Activity` | 10 ticks, window 3, write timeout 1, retention 6, sweep every 2, 2 goroutines, 3 events | `OneRowPerWindow`, `SeenWithinWindow`, `RetentionHolds` |
| `ListPage` | either page, 3 rows, 1 row per page, 4 filters or 2 tabs, 2 moves, 1 event (a change by others, a failure, an edit of one's own), opened after Back and a reload with a page to go forward to | `ShownIsAsked`, `EmptyMeansNone`, `BoxTellsQuery`, `PagesPartition`, `AuthorsListed`, `Settles` |
| `ReaderPage` | 3 pages, any row to start with, turns and completion or bookmarks, 5 deeds, flushes and failures in all | `PlaceKept`, `ButtonTellsStatus`, `BookmarksKnown`, `ComesToRest` |
| `Session` | 2 tabs, 2 accounts, any token and session left by an earlier visit, 3 clicks, reloads or expiries | `ShownIsUsed`, `LogoutLasts`, `GoogleSignsIn`, `ComesToRest` |

Three more runs are expected to end in a violation, each of one statement found in the repository:

* `FlushUncompletes`: the design note of 2026-07-31 (lines 55-56) says that background flushes cannot
  un-complete a book. A flush that read the row before a SetStatus writes the old status over it.
* `LastAdmin`: two overlapping removals both count two admins and leave none.
* `DeleteUploader`: once an uploader's account is deleted, `uploaded_by` is NULL and the list fails for
  everybody who may see one of their books.

Why the bounds are enough. Every property relates at most two actors and a store: two overlapping
requests, or a request and a flush, or a request and a process that stops. Two slots and three
requests let a first request prepare the state that the two racing ones disturb; pages 1-3 with a
document of two cover below, at and past the end; one fault, loss, deletion and stop each may hit
every single call. Where two books matter (one pass must not skip a key because of another) there
are two. On the list page one row per page and three rows give pages before, at and past the end, two
books share a title and a time, and one may turn private; on the reader page five deeds are two visits
with a turn or a click each and a flush or a failure between them, and three pages let the page on screen,
the cached one and the stored one all differ (`Habits` keeps page turns and completion from bookmarks, with which
they share only the page, so that a story has its five deeds for one of the two). In `Session` one tab is shown an account while the other changes the
token; a state of `Init` is whatever any number of earlier visits left, so three clicks are all a single
story needs (a sign-in, a logout, a reload that undoes it). In `Accounts` two admins are the least number
for a race about the last one, and a free id lets an account be created or seeded; in `Activity` ten ticks
hold three windows and a row that outlives its retention. The counters (`Limit`, `MaxRequests`,
`MaxEvents`, `MaxTime`, `MaxRuns`) exist only to make the state space finite.

What is excepted, and why it must be. `raced` collects the pairs whose last SetStatus landed inside
somebody else's read-then-write of the row; `overtaken` the accounts whose role was changed by a request
that had read before another change; `late` the pairs a cancelled ticker wrote during shutdown; `lost`
the files of uploads and deletes that broke off; `unwritten` and `evicted` the throttle windows that
failed. `Unharmed` ends `ImplementsBookshelf` at the first failed call, and at the first page Redis loses: with
a restart, or with a key whose 24 hours end before a server that is down, or that cannot write, has stored
its page. Each exception is a behaviour of the code, not of the model; outside it the property holds
whatever else interleaves. A pair leaves `raced` with its next
SetStatus that lands outside such a window, and `unwritten` ends with the next claim.

In the pages the exceptions are where the code does less than a comment or a plan says, and each is as
narrow as the run allows:

* `outdated` (`ShownIsAsked`): after an upload, edit or delete `refresh()` asks the question of the view the
  handler was started in, and as the newest request it wins, although only the answer to the view at
  hand should (`EbookListPage.tsx`, lines 113-115).
* `torn` (`EmptyMeansNone`): rows that change between count and page give a total that does not fit.
* A name with blanks around it (`AuthorsListed`): the filter is an "exact author match"
  (`ebook_repo.go`, line 27) of a trimmed name, so such an author is offered and lists nothing.
* The history page (`ShownIsAsked` is about the ebook page): it takes every answer, the last one wins
  whichever tab it is about. Its order has no tie-breaker, so of a tab of the history `PagesPartition`
  speaks while no two of its books were opened at one instant. A row whose status a failed flush made
  `''` is in neither tab.
* `early` and `behind` (`PlaceKept`): a tab closed while the book is loading saves page 1, and one
  opened before the last save had landed saves the page it opened at. The plan of 2026-07-24 (line 4777)
  has "Close tab, reopen → same page resumes".
* `applied = lastSave` (`PlaceKept`): nobody waits for a save, and the server numbers none, so a newest save
  that is lost, or overtaken by an older one, is not where the reader was.
* `moved` (`PlaceKept`): the server moves the place by itself. On a miss OpenBook and GetProgress fill the
  key with the page they read before, over a save that landed in between (`reading_service.go`, lines 81 and
  128); a key goes before its page is stored, or while somebody holds an older one; OpenBook takes a row it
  could not read for a missing one and stores page 1 (line 70). It ends with the next save applied.
* `doubt` (`ButtonTellsStatus`): two clicks overlap, an applied click's answer is lost, or the book was
  opened before an earlier click had landed. `unseen` (`BookmarksKnown`): a change whose answer nobody
  hears.
* `undone` (`ButtonTellsStatus`): the status was stored while a flush or an open stood between reading the
  row and writing it (the race of `FlushUncompletes`), or one of them could not read it. It ends with the next
  status stored with nobody in between.
* `overtaken` of `Session` (`ShownIsUsed`; not the variable of that name in `Accounts`): another tab changed
  the token, or an exchange ended while the boot still asked `/auth/me` about an older one. A page that a
  401 has sent to the login page (`leaving`) is not looked at either. `LogoutLasts`
  starts, with `gone`, only at a logout that leaves no sign-in under way, and excepts a Supabase session
  that outlived it.
* `came` (`GoogleSignsIn`) is the account of the way back from Google until Supabase gives the session not
  out, the exchange the boot waits for fails, or another tab ends or replaces the session. A boot that
  `/auth/me` ends is excepted: a token in storage by then, another tab's say, is preferred to the session
  (`AuthContext.tsx`, lines 75-84), and its account is shown. When it is refused, the boot goes on to the session,
  and so does the boot of the login page the 401 leads to.

Fairness. Four properties need it.

* `PageReachesDatabase`: weak fairness of each flusher's next step. The ticker is a goroutine whose loop
  blocks only on its timer, no other step disables a step of a running pass, and every call it makes
  returns or fails. Nothing is assumed of requests, faults, or of the process's end.
* `Settles`: weak fairness of the newest listing's next step and of `CommitSearch`. The server works on
  every request, and a timer fires; older requests may stay unanswered for ever, and users are free.
* `ComesToRest` of `ReaderPage`: weak fairness of `TimerFires`, and of the steps that serve and answer
  calls. Failures and the reader are free.
* `ComesToRest` of `Session`: weak fairness, per tab, of the end of `/auth/me`, of `getSession` and of an
  exchange (it is answered or fails), and of the redirect, a navigation the browser carries out. Users,
  Supabase's events and the calls of pages are free. A page's call is a click to the model, and so bounded
  by `Limit`: what the run shows ends are the loops of a boot's own calls, `/auth/me` and the exchange.

`ListPage`, `ReaderPage` and `Session` turn the deadlock check off, because a page whose user does nothing
more does come to rest.

## 4. What is proved

Every theorem holds for all values of the constants that satisfy the assumptions named in the modules
(page counts are naturals, the bounds are naturals, a write timeout is shorter than a window, and the
like); what else a theorem assumes is in its statement. Each module proves an inductive invariant by a
lemma per action or group of actions, and derives the properties from it.

`ReadingServiceProofs`:

* `TypeCorrect`. `TypeOK` is inductive: besides the types it says that whoever is about to write knows a
  pair and a page to write.
* `PagesAreTheReaders`: no step makes a page up. Whatever overlaps and whatever fails, each page stored
  or held for a pair was so before the step, or is page 1 or none, or is the clamp of a page turn of that
  very pair (`NoPageMadeUp`). Its lemma `StepIn` says so of any set that has these (`PagesIn`), and serves
  the next theorem and `CopiesStayWithin` with the pages of the document as that set.
* `PagesStayWithinDocument`. The property speaks of the two stores only and is not inductive: a flush or a
  cache fill writes a page it read earlier. `PagesInv` adds that every page held by a request past its
  clamp, and by a flusher, lies within the document too.
* `CompletionIsExplicit` and `StatusIsKept`. Both follow from `CarryInv`: a status that a flusher, or an
  OpenBook about to create a row, carries is the status last asked for, unless the pair is in `raced`
  from now on. What makes it inductive is that `SaveStatus` puts a pair into `raced` exactly when
  somebody carries an older status. The second theorem needs, besides, that the fault counter never goes
  down, and that a row nobody asked anything about reads `reading`.

From the same invariant follows `OnlyARaceUncompletes`, the exact reach of the disagreement the run
`FlushUncompletes` shows: without failed calls a flush un-completes a book only if the pair is in `raced`,
that is if the reader completed it between a read of the row and the write that followed.

It also proves `ReadingIsABookshelf`: if requests of a pair do not overlap (`~Overlap`), then
`Spec => ImplementsBookshelf`, the initial states and every step until a call fails or Redis loses a page. The
invariant `CopiesInv` says that a pair has one request, that its label fits its operation, and, as long as
neither has happened (`Unharmed`), that where there is no key everybody
who holds a page of the pair holds its position, and that a key a request has missed is still missing.
So a fill, a flush, the expiry of a stored key never changes what is visible, and the steps that remain are those of the
shelf: `ShelfAsks`, `ShelfChecks`, `ShelfTurns`, `ShelfDrops`, `ShelfRemoves`, or none (`ShelfRests`).

It also proves `GracefulExitLeavesNothing`. `ShutdownInv` says that no handler runs beside `FlushAll`, and
that while it runs each cached page of a live pair is stored, or in its hand, or still on its list;
what it has in hand is the cached page unless the key is gone.

`FixPageCountsProofs`: `CapsOnce`, from `CappedInv`: the count of a capped ebook is right, in the table
and in every list taken since, and the ebook at hand is no capped one and not named again by the list.
`CopiesStayWithin`, pair by pair: the server takes every page it writes from a copy, from page 1 or from
the clamp (`StepIn`), and the command only lowers pages.

`AccountsProofs`: `TypeCorrect`; `EmailsStayUnique`; `PasswordsAreKept`; `DeletedAccountsStayDeleted`;
`TokensTellStoredRoles` (whoever is admin has been one); `RolesAreAsDecided` and `AnAdminRemains`
together, from `RoleInv`: the role in the hand of a request not marked stale is the stored one (`Seen`),
and a request let through to lower an admin has another admin beside it (`Others`).

`LibraryProofs`: `TypeCorrect`; `BooksHaveFiles`, from `FileInv` (a request about to insert has stored
its file under a name nobody else uses, and one about to remove a file has no row left);
`NothingElseLeaks`; and the action properties `PrivacyIsAsked` and `DeletedBooksStayDeleted`.

`ActivityProofs`: `TypeCorrect`, which includes that an event is written once; `OneRowAlways` (every
active row was written at least a window less a write timeout before the key ends, and there is one
claim at most); `SeenAlways` (while a key lives its row is there or about to be); `RetentionKept` (rows
lie within the reach of the last sweep that worked).

`ReaderPageProofs`, for books of any length:

* `TypeCorrect`, from `TypeInv` (what a call is at each stage of its handler) and `Opens` (a page that loads has one open
  of its own).
* `PlaceIsKept`, from `PlaceInv`: the page on screen, the one that waits and the newest save are the page last
  turned to, but for the exceptions (`Seen`, `Waits`, `Saves`); an open that knows the newest save brings that page
  (`Opening`). What makes it inductive is `Synced`: where no key hides the row, and the server has not moved the
  place, every step that has read a page and will write it holds the stored one, so that no write moves it.
* `ButtonTells`, from `ButtonInv`: who is about to write a status back carries the stored one, unless `undone`
  (`Carried`); the button is ahead of the server by the one click that is not served yet (`Told`); and an open that
  has read the row tells what is stored, if no click was left for the server to see then (`Telling`).
* `BookmarksAreKnown`, from `MarksInv`: the newest list, on screen or on its way, is right unless a change is still to
  be heard of.
* `NeverStuck`, from `Awaiting`: a page that loads has the open of its own visit under way, and the end of that open
  ends the loading.

`ListPageProofs`: `TypeCorrect`, that every page asked for exists, also where it is computed of a total;
`ShownAnswersUrl`, from `AskedInv` (a number is of one request, the newest asks for what is in the URL,
and while nothing loads there is no request of that number left); `BoxTells`, from `BoxInv` (the box shows
the query in force or the one about to be). Further:

* `PagesHoldEachRow`. Induction over data is out of reach, so the paging is argued by counting. In a total
  order the number of rows ahead of a row is below the number of rows, and no two rows have the same
  (`PlacesDistinct`); an injection of a finite set into one of its size is onto, so each place from 0 on is
  taken by one row (`PlacesAllTaken`). A page is an interval of `PerPage` places, and the intervals of the
  pages that a list has are disjoint, all but the last full, and cover every place (`SlicesPartition`). For
  the ebooks `Before` is total because ids differ; the history's order exists for any rows
  (`HistoryOrder`), and is the only one while no two rows were opened at one instant (`OneOrder`), since a
  row's place is the number of rows ahead of it (`PlaceIsRank`).
* `EmptyIsEmpty`, from `EmptyInv`. An answer is two statements, so the invariant says what a request
  knows between them, unless rows changed: the total, or the rows, that the table has now (`Consistent`).
  `AtPage` adds that a page which does not load is one the list had.
* `AuthorsAreListed`. Authors and listing share the rule of who may see what, and a name that is already
  trimmed is found by the filter that trims it.
* `NeverStuck`. A page that loads has its newest request under way; each request can be answered, since an
  order of the rows always exists; and `AtPage`.

The assumptions say that a row keeps its id, that there are finitely many rows, that ids, titles and times
are in an order each, that a filter has the fields the page writes into the URL, that any query may be
typed beside any filter, and that trimming a name twice, or no name, changes nothing more.

`SessionProofs`, for any number of tabs: `TypeCorrect`; `ShownAccountIsUsed`, from `UsedInv` (a tab nobody
overtook has the token of its user in storage, or is asking about the one that is there); `LogoutsLast`,
from `GoneInv` (after a logout for good nothing is under way that signs in, and a Supabase session still
there is about to end); `GoogleArrives`, from `CameInv` (as long as a tab is owed the account it came back
as, the session in storage and any exchange of the tab are of that account).

Stated by the theorem only, with no run: `TokenRoleWasStored`, `NoPageMadeUp`, `FlushKeepsUnraced`, both
`NeverStuck`, and the `TypeOK` of `Session`.

Only model-checked: the liveness properties `PageReachesDatabase`, `Settles` and both `ComesToRest`,
since fairness speaks of ENABLED, which the prover cannot expand. Of the last three a theorem has the
part that is safety: what a page or a boot waits for is always under way (`NeverStuck` twice, and in
`Session` the `TypeOK`: a boot that waits for an exchange has one). Every other property of a passing run
is stated by a theorem.

## 5. Not modelled

* Of the list pages, `UsersPage`, whose list has no filter and no page, and the unpaged history of the
  dashboard, which is one read.
* The Supabase verifier, PDF parsing, user agents, routing, CORS, configuration, migrations and
  layout: pure functions or I/O without state of their own; where their answer matters it is a
  nondeterministic choice in the module that asks.
* Accounts are keyed by the exact email: the same Google account in another spelling is another account
  (`auth_service.go`, line 174). The model's emails are equal or not, so it cannot tell the two.
* Within the modelled parts: presigned links, which keep working for an hour whatever happens to the
  book; the log-rate limiter; the cascade of an account's deletion into its activity rows; the zoom, the
  spread and the PDF of the reader page (the spread only makes the button visible one page early); the
  note of a bookmark, which the button leaves empty.

## 6. Plan

1. `ReadingService`, `Bookshelf`, `FixPageCounts`, `Accounts`, `Library`, `Activity`: modelled, checked,
   proved.
2. `ReaderPage`, `Session`: modelled, checked, proved.
3. `Catalogue`, `ListPage`: modelled, checked, proved.
4. Still worth having: a session whose page unmounts in the middle of an exchange as StrictMode does it
   in development, and the presigned links with the hour they live.
