# Pdd.ir in TLA+

Pdd.ir is a company website with an admin panel: a Blazor WebAssembly client
(`Pdd.ir.Client`), an ASP.NET Core server (`Pdd.ir.Server`), a layer of business
services (`Pdd.ir.Business`) and SQL Server behind Dapper (`Pdd.ir.Data`). This
directory holds TLA+ models of the parts where concurrency, time and failure
meet, the TLC runs that check them, and proofs for TLAPS. All paths below are
relative to the root of the repository.

    tlc -workers 2 -config MCTokenBucket.cfg MCTokenBucket    # a run
    tlapm TokenBucketProofs.tla                               # a proof

`PROJECT.json` lists every run, the lines each definition models, the mutants
that each property rejects, the hazards, the findings and the theorems.

## 1. Inventory

### The server

| Component | State | Operations | What makes it hard | What makes it correct |
|---|---|---|---|---|
| Rate limiter (`Services/TokenBucket.cs`) | balance, time of the last refill, one per client | `TryConsume` under a lock | the clock is a wall clock and may be set back | admissions are bounded in every window; nobody is locked out for good |
| Session service (`Services/AuthService.cs`, `SessionAuthAttribute.cs`) | dictionary of used nonces with a timer for each, rate limiters, table `AuthSessions` | handshake, header validation | two threads with the same message, timers against stalled threads, an UPDATE and an INSERT without a transaction, restarts | a message passes once; a client has one session, its newest, until it expires |
| Script engine (`Services/ScriptExecutor.cs`, `wwwroot/resource/*.sql`) | table `ResurceExecute`, the tables themselves | run what is not recorded OK, at each start | batches outside transactions, any call may fail, a crash between effect and record | OK means built; order; no rerun of OK; users' changes are undone by reruns of unrecorded scripts only; the start ends |
| Socket endpoint (`WebSocket/WebSocketHandler.cs`, `Services/ConnectionManager.cs`) | open connections | a task per message: decrypt, validate, dispatch, answer | tasks of one connection run side by side and outlive it; errors inside the error handler | an answer per request, with its id, to its own connection |
| Body encryption (`AesKeyStore`, two middlewares, `CryptoJsService`) | a key per user, in memory | set at login, tried on every body | keys replaced by a second login, lost by a restart; two sides choose keys by different rules | what one side sealed the other can open |
| Business services (`Pdd.ir.Business/Services`) | the database | mostly one statement per call; a few of several | read-then-write toggles, delete-all-then-insert, uploads beside rows | no lost update, no half-replaced set |
| Controllers (`Controllers/*.cs`) | none | one service call per route | routes must agree with the socket's actions | a URL means the same over both transports |

### The client

Blazor WebAssembly has one thread: a method runs without interruption from one
`await` to the next, and everything interleaves at the awaits.

| Component | State | Operations | What makes it hard | What makes it correct |
|---|---|---|---|---|
| Link to the server (`Services/CommunicationService.cs`) | socket, link flag, reconnect attempts and timer, receive loop, pending requests | start, connect, reconnect, receive, request over socket or HTTP | three callers of `ConnectAsync` overlap, loops outlive their sockets, late answers, losses in any window | one socket; a client that is down is on its way up; every request returns |
| Session (`Services/SecurityService.cs`) | token, expiry, handshake in progress | handshake, fresh header per request | concurrent handshakes, expiry compared across time zones, a retry after 401 | a header is made under a live token |
| Login state (`Services/AuthService.cs`, `Authorization/AuthStateProvider.cs`) | user, tokens, key; copies in localStorage | login, logout, load | a key that is not stored with the token; several tabs | state and storage agree |
| Dialogs (`Services/ModalService.cs`, `Modal.razor`) | one task, one current dialog, the dialogs on the page | show, close, cross, backdrop | a dialog opens another, a save ends late | an opener gets its own dialog's answer |
| Translations (`Services/TranslateService.cs`) | language, dictionary; copy in localStorage | load | two loads overlap, the storage fails | texts, direction and storage are those of the language shown |
| Alerts (`Services/AlertService.cs`, `wwwroot/js/alertManager.js`) | a container, alerts with timers | show, hide, click | first calls overlap; a click races the timer | one container; an alert stays, or goes, as it was asked to |
| Text editor (`CKEditorBlazor.razor`, `wwwroot/js/CKEditorInterop.js`) | a map of editors in an object that scripts replace, uploads | load, create, destroy, upload, abort | scripts loaded again, a dialog closed early, abort against answer | the editor of a closed dialog is destroyed; an aborted image is not inserted |
| Start screen (`index.html`, `dismissSplash` of `interop.js`) | the element, timers | dismiss | four callers and two timers in any order | it goes, and the page scrolls |
| Layout (`MainLayout.razor`, `interop.js`) | theme, sidebar, icons | toggle | two buttons, other tabs, a sidebar built anew | flags agree with the page |
| Home page (`Home.razor`, `interop.js`) | slider and its timers; loops of glow and particles with one handle each | mount, leave, tick, resize | leaving races loading and the next visit | effects live with their page |
| Scroll effects (`gsap-animations.js`) | one list of triggers; timelines; Lenis | init, dispose, scroll | a dispose that kills everything, calls on the way up | what is hidden can be revealed; what shines at either end does not depend on the way |
| Pointer effects (`gsap-animations.js`) | a throttle per effect | move, enter, leave | the last move is dropped | a light ends as its effect has it, and is at a spot of its own card |
| Dropdowns (`wwwroot/js/clickOutside.js`) | one handler | add, remove | a second dropdown takes its place | an open dropdown is told of clicks |
| Tables, calendar, pickers, other pages | view state | markup events | little | paging and calendar arithmetic |

`ConnectionService` and `ApiClient` are an older link that no page uses.
`splash.js` is not among the scripts of `index.html`, and `SplashOverlay.razor` is on
no page and never shows its container: the splash overlay is not modelled.
Nor are `ParallaxScrolling` and `ArchitectureStorytelling` on a page at this commit;
`AnimationService` is injected nowhere, so nobody calls `initSmoothScroll`,
`initTiltEffect` and their like; `clickOutside.js` has no caller. These are modelled, as
their code says they are used, but they are on no list of hazards of the running
program. In use are `initScrollAnimations` (five public pages), `initCounters`
(`About.razor`), and of the effects of the pointer the product rows of the home page.

### How they interact

A page calls `CommunicationService`, which takes the open socket or HTTP; either
way `SecurityService` seals a fresh header with time stamp and nonce. On the
server the header passes the replay guard and is looked up in `AuthSessions`; the
call then reaches one business service. Headers exist once a handshake (over
HTTP, before the socket is opened) has put a session into that table, through the
same kind of guard and through the rate limiter. At login the client gets a key
for its bodies and reconnects its socket. The script engine runs before any of
this, while the server starts.

## 2. Modules

| Module | Models | Checked by | Proofs |
|---|---|---|---|
| `TokenBucket` | the rate limiter | `MCTokenBucket` | `TokenBucketProofs` |
| `ReplayGuard` | the anti-replay protocol shared by handshakes and headers | `MCReplayGuard` | `ReplayGuardProofs` |
| `SessionServer` | the session service: two instances of `ReplayGuard`, rate limiters, the table, restarts | `MCSessionServer` | `SessionServerProofs` |
| `CommClient` | the client's link | `MCCommClient` | `CommClientProofs` |
| `BodyKeys` | which key seals a body, which keys are tried; logins, reloads, restarts | `MCBodyKeys` | `BodyKeysProofs` |
| `Migration` | the script engine over the database | `MCMigration` | `MigrationProofs` |
| `WsServer` | the server's end of the link, with its clients and the network around it | `MCWsServer` | `WsServerProofs` |
| `RemoteCalls` | what that end promises (abstract; `WsServer` implements it) | `MCWsServer` | `WsServerProofs` |
| `StartScreen` | the start screen of `index.html` | `MCClientPage` | `ClientPageProofs` |
| `Translations`, `Appearance` | language; theme and sidebar | `MCClientPage` | `ClientPageProofs` |
| `HomeEffects`, `HomeSlider` | the home page: loops of animation frames; slider and timers | `MCClientPage` | `ClientPageProofs` |
| `ScrollEffects`, `SmoothScroll`, `PointerEffects` | `gsap-animations.js` | `MCClientPage` | `ClientPageProofs` |
| `Editors`, `Modals`, `Alerts`, `ClickOutside` | text editors and uploads; dialogs; toasts; dropdowns | `MCClientPage` | `ClientPageProofs` |
| `ClientPage` | composes the twelve modules of the page | `MCClientPage` | `ClientPageProofs` |

Mutants stand beside the definition they change and are used by no specification;
they are the plausible bugs that each property is shown to reject.

### TokenBucket

`tokens`, `lastRefill` are the fields of the class, in units of one tick of
refill, so that the refill of a fraction of a token is exact (the code uses
`double`; rounding is not modelled). `TryConsume` is the whole method, `Recreate`
the new bucket made after a restart of the server (the dictionary of buckets is
static memory), `ClockShows` sets the clock to any time, back as well as forward,
since `DateTime.UtcNow` follows the machine's clock. `OpenWindow` belongs to the
observer: it lets `WindowBound` speak of every window, not just of those that
begin at the start. `WouldAllow` is the code's private test and is part of
`TryConsume` in the model.

### ReplayGuard

One message per nonce. `Check` is the time check, `Pass` and `Refuse` the two
answers of `TryAdd`, `Expire` the timer's callback. A thread may stall between
`Check` and `TryAdd` for up to `MaxStall`. A message may be delivered at any time
to any number of threads; `Restart` empties the dictionary. `Lead[m]` is how far the
clock of the sender of `m` may lead the server's: any number. The header guard keeps a
nonce for 60 seconds and accepts stamps from 30 seconds ahead to 30 behind, so with a
stamp a full 30 seconds ahead nothing is left for the stall, and the code may pass it
twice. `Timely` is the set of messages for which the constants suffice: all, if the
nonce outlives the whole window and a stall, as for handshakes (5 + 60 < 120, which
leaves room for a stall of up to 54 seconds); for headers, those whose sender's clock
leads by less than 30 seconds minus the longest stall. `PassedOnce` speaks of timely
messages and assumes nothing of the others. A dictionary that is emptied by a
restart forgets its nonces; `PassedOnce` is therefore stated per lifetime of the
process.

### SessionServer

The steps of a handshake are those numbered in the code: time check, `TryAdd`,
rate limit, UPDATE, INSERT; `hStage` says which comes next. `DatabaseFails` is the
catch block. A header goes through the time check, `TryAdd` and one SELECT.
Sending (`SendHandshake`, `SendHeader`) is the client's part. A message whose
decryption, fields or HMAC are wrong changes nothing on the server and is left
out. `Restart` drops memory and keeps the table. `overlap` and `broken` are
history variables that name the two exceptions the code makes to "one session,
the newest": handshakes of one client that overlap between UPDATE and INSERT, and
a handshake that broke off between them. `CleanupExpiredAsync` has no caller, so
rows are never deleted. The server's clock and the database's `GETUTCDATE()` are
taken as one. `HLead` and `ALead` are the leads of the two guards; `HandshakesTimely`
is the inequality of the handshake's constants, `ServedOnce` is about timely headers.

### CommClient

Sockets are numbered in order of creation. `conn[s]` is where the `ConnectAsync`
that created socket `s` stands: awaiting, its await over but its continuation not
yet run, returned. That distinction matters, since between the two another
handler may run. Receive loops are numbered by the `ConnectAsync` that started
them; `on` is the socket a loop receives from, read from `_ws` anew at the top of
each round (`LoopTop`), `cts` the loop whose token is live. A request is registered,
prepared (two awaits), sent on the socket `_ws` holds by then (`Send`), and waits;
its answer races its timeout. The server (`Answer`) answers once, on the socket the
request came by, or never. Left out: `SendHandshakeAsync`, whose request is
registered nowhere and whose answer is dropped; `DisposeAsync`, the end of the
page; what the HTTP helpers do (one step each, with or without a result).

### BodyKeys

The two sides choose keys by different rules. A page seals with the key it was
given at login and falls back to the shared key; the socket handler tries the
shared key and then every key of `AesKeyStore`, the HTTP middleware only the
shared key; answers on the socket are sealed with the shared key, HTTP answers
with the key of the user named in `X-Username`. A key is the number of the login
that made it, 0 the shared key. `StoreKey` is the server's half of a login,
`LoginReturns` the page's; logins of a page may overlap. `Load` is
`LoadFromStorageAsync`: the token comes back after a reload, the key does not.
A request is sealed (`Seal`, an await), sent with the headers the page has by
then (`Send`), opened or not on the server (`Readings`, `Arrive`), answered under
the key looked up before its handler runs, and received (`Receive`) with the key
the page has by then. `Unauthorized` is the one retry after 401. `Reload`,
`Restart` and `Lost` may come anywhere. `forgotten` (keys the store held once)
and `changed` (requests whose page logged in or out since) are history variables
that name the exceptions. Left out: the fallback from the socket to HTTP and the
reconnect after a login, which are in `CommClient`; requests without a body, whose
answers are treated alike; names typed in another spelling than the database's.

### Migration

A script is a sequence of batches, a batch one of the four forms that the scripts
have. Of a table the model keeps whether it exists and whether its rows are the seed
rows, changed by users, or none; "cleared" is a table that its users emptied, which no
batch can tell from one not filled yet. A batch that reports an error may have
done nothing, half (`Halfway`: `CREATE TABLE` done, the INSERT in the same batch
not) or all of its work with the reply lost. `Throws` is the outer catch block.
`Crash` stops the process at any step. `Edit` is the site's users while it serves.

### WsServer and RemoteCalls

`RemoteCalls` is the promise: a call is carried out at most once and only after it
was asked, success is told only of one that was carried out, a refusal only of one
that never will be, and a caller may give up at any time. `WsServer` is
`WebSocketHandler.cs`: `loop[c]` says where `HandleAsync` of a connection stands,
`step[r]` where `ProcessMessageAsync` of a call stands. The handler starts that
method without awaiting it, so calls of one connection overlap and outlive it.
`ReceiveMessage`, `ReceivePart` and `ReceiveRest`, `ReceiveClose` are the three
outcomes of `ReceiveAsync`; `Process`, `SessionChecked`, `Dispatch`, `Serve`,
`Send` the way of a call; `EndHandler` the `finally` block, reached by `Closed` and
`Breaks`; `Restart` keeps what the database has. A call comes whole, in more than
one part, as no JSON or without an action; it is a handshake, or for a method that
fits, one that is missing (`InsertAsync` where the service has `CreateAsync`) or one
that takes other arguments (`UpdateAsync(int, ...)`). The refinement mapping is the
identity on `told` and `done`: the rest of the state is hidden. The clients are an
environment that hears answers, gives up after ten seconds, closes and vanishes;
`CommClient` models the client in detail. Two concurrent `SendAsync` on one socket
are serialised by .NET's implementation, which the model relies on.

### The page: ClientPage and its twelve modules

The browser has one thread: a callback runs to its end, and everything interleaves
between callbacks, at awaits, timers and frames. Each module has one action per
callback, handler, timer or continuation. Timers expire at any time after they are
set, since a busy thread delays them without bound.

The components share no variable. `ClientPage` therefore checks them one at a time:
`focus` is the component whose behaviour this is, and the others rest in their
initial state. A property of one component that is violated when all of them
interleave is violated by the projection of that behaviour on the component, which
is one of those checked. It keeps the state space a sum instead of a product. The
fairness of a resting component asks nothing, as its fair actions are all disabled in
its initial state.

- `StartScreen`: `dismissSplash` of `interop.js` replaces the function of the same
  name in `index.html`; both callers of it and both timers are actions.
- `Translations`: a load is `fetch`, `save`, `turn`, with an await between any two;
  the home page saves and turns once more. `disturbed` says that loads overlapped or
  the storage failed.
- `Appearance`: `stale` icons are those whose theme the other button changed.
- `HomeEffects`: a visit mounts and leaves in steps; `tangled` visits are those
  whose mount met another's end, or their own.
- `HomeSlider`: `Slide` is `NextSlide` and `PrevSlide`, division by zero included: the
  component handles the next click all the same.
- `ScrollEffects`: a trigger is a pair of a visit and an effect; disposing of a
  component kills them all. `StoryCalls` is the table of the calls of the timeline,
  which run in both directions; `far` is the most of them passed at once, which is what
  shines when the user is back at the top.
- `SmoothScroll`: callbacks of the clock are never removed and call whatever
  instance there is.
- `PointerEffects`: six effects that share a shape. They differ in who listens and
  in what a card does when the pointer leaves: tilted cards and rows go plain, mouseGlow
  puts out the others with its next move, cardGlow and heroGlow keep their light.
- `Editors`: each component appends the scripts again. A copy of
  `CKEditorInterop.js` that runs replaces the object, map of editors included;
  `interop.copy` says which copy an editor was asked of. CKEditor is external.
- `Alerts`, `ClickOutside`: as their scripts are.
- `Modals`: `tcs` and `current` are the two fields of the service. `mixed` dialogs
  are those that were not alone, from their own opening to the end of their saves.

The conditions on history variables (`disturbed`, `tangled`, `stale`,
`early`, `killed`, `mixed`, ...) are no excuses of the model: each names a case in
which the code does go wrong, and the comment of the property says how. The
property shows that nothing else does.

## 3. Runs

| Run | Instance | Shows |
|---|---|---|
| `bucket` | two tokens, two ticks each, clock 0..5 moving freely, 5 admissions | the rate limit in every window (`WindowBound`), and no lasting debt, under any adjustment of the clock |
| `guard` | two messages, two threads; early 3, late 3, lifetime 6, lag 1, stall 1, leads 1 and 3; time to 9 | a timely message passes once; the other, which leads by all that is accepted, may pass twice |
| `sessions` | two clients, three handshakes, two threads | one session per client, the newest stays usable; one session per message and a table that grows within the rate (`CreationsJustified`) |
| `headers` | one client, two handshakes, one header on two threads, a restart, sessions that expire; early 2, late 1, lifetime 3, lead 1; time to 4 | a timely header is served once per lifetime, never under a superseded session |
| `client` | four sockets, two attempts, a login at any time, two requests of which one is HTTP only | one socket and no leaked entry (`BooksKept`); no deaf client and no lost link unnoticed (`LinkWatched`); a client that is down retries; every request returns |
| `client_fallback` | one request | violated: the documented fallback to HTTP is not made for a request accepted for the socket |
| `bodykeys` | two pages, two users, two logins, one request over either transport | page and store agree on a key unless it was replaced or lost; bodies on the socket are opened; answers can be opened |
| `bodykeys_http` | one page, one login, one request | violated: the middleware does not open bodies sealed after a login |
| `migration` | three scripts with all kinds of batches, three starts | OK means built, order, errors retried, OK is final, what a start may undo of its users' changes and how (`EditsSurvive`), starts end |
| `migration_reruns` | the same, two starts | violated: a script that is run again undoes edits |
| `page` | two loads, visits, pages, editors, alerts and dialogs; three slides and instances of Lenis | what each component of the page starts it ends: one safety property per component; what begins by itself (`EffectsEnd`) and what the user asks for (`RequestsEnd`) comes to its end |
| `wsserver` | two calls, one of any kind, on two connections | `WsServer` implements `RemoteCalls` (`ServesAsPromised`); answers stay on their connection and the dictionary is exact (`ConnectionsSafe`); calls settle and handlers end (`WsSettles`) |

Most properties a run checks are conjunctions: the type invariant of the module and
its named parts, each with a comment of its own (`ModalSafe` is `ModalTypeOK`,
`ModalOwnAnswer` and `ModalButtonsWork`). Where a property has several parts, there is
a mutant of the code for each. The type invariants of
`TokenBucket`, `ReplayGuard`, `Migration`, `BodyKeys`, `SessionServer` and `CommClient`
and the auxiliary invariants of section 5 are proved and not listed in the runs.

**Bounds.** Windows and lifetimes are scaled to a few ticks with the inequalities
between them kept: those are all that the guards compare. `guard` runs to time 9,
past the lifetime of a nonce and the validity of any stamp, so nonces are dropped
and replays tried after. In `sessions`, three handshakes of two clients are what it
takes for two to overlap while a third, of another client, runs; time reaches 1,
which is enough for an expiry (`SessionTtl` 1), a nonce's removal is the business
of `headers` and `guard`. `headers` keeps the proportions of the code's constants, a
lifetime equal to the window and a lead just below what is accepted; time reaches 4,
past the lifetime of a nonce added at 0 or 1, and sessions expire from 3 on.
`Full` 3 with `Cost` 2 makes the limiter refuse. In
`client`, four sockets allow the start, a login and two timers; three calls of
`ConnectAsync` overlap already with three. `MaxAttempts` is 2 instead of 10: the
cases are "some left" and "none left". In `bodykeys`, two logins are what it takes to
replace a key, to answer in the wrong order, or to log in as another user; a third
would only repeat one of these, and the proofs cover any number. Three starts in `migration` are a failed one, a
retry and one after the retry succeeded. In `page`, two of each are what it takes for
one to meet its successor, and a third meets the second as the second met the first;
three slides distinguish a ring from a line; three instances of Lenis let one be made
after a dispose and one before. In `wsserver`, the first call is of any kind but those
whose way equals that of a kind that is kept (`MCAskable` names them), the second is
served, so that each kind overlaps with one that changes the database; a second
connection is what it takes for an answer to go astray, and for a reconnect.

**Symmetry** is used for threads, messages and requests that are
interchangeable, and only in runs without liveness.

**Deadlock** is not checked where models stop for a good reason: bounded time,
bounded starts, bounded sockets.

**Fairness.** `CommClient` assumes that a continuation which is due is run: a
prepared request is sent or fails, its ten-second timer fires, an HTTP call ends
(`HttpClient` has a timeout). Nothing is assumed of the network, the server or the
reconnect timer. `Migration` assumes that database calls return or time out, as
`SqlCommand` does; a crash may end any start. `WsServer` assumes that loops and calls
go on and that what has arrived is heard, and nothing of clients and connections. The
page assumes that timers expire, frames come, scripts load or fail, requests end, and
nothing of the user or of Blazor's start; each module says so above its `Fair`.

## 4. Findings

- `client_fallback`: the rule above `GetAsync` sends all requests over HTTP when
  the socket is not connected. A request that was accepted for the socket and finds it
  gone at `SendAsync` goes nowhere: it returns `default`.
- `bodykeys_http`: the comment of `RequestDecryptionMiddleware` says that an encrypted
  body is decrypted and replaced. After a login the client seals with the key of the
  user, the middleware tries the shared key only and hands the body on as it came.
- `migration_reruns`: README.md calls the scripts run-once and guarded. A script not
  recorded OK is run again, and the password script is an unguarded UPDATE.

A rerun of a script not recorded OK has a second effect, which `EditsSurvive` states as
the code has it: `202607241000_Create_Clients_Clean.sql:31` inserts its rows whenever the
table is empty, so that a table which its users emptied is filled again.

Also worth a look, stated as exceptions inside properties: overlapping handshakes
leave a client two live sessions (`overlap`); a failed INSERT leaves it none
(`broken`); a socket lost while a message is being handled ends the receive loop
without anyone scheduling a reconnect (`unnoticed`). The dispatch of the socket finds
methods by name: `Product`, `Blog`, `Portfolio`, `Page`, `Role` and `Permission` create
with `CreateAsync` where it looks for `InsertAsync`, and `UpdateAsync(int, request)`
fails before it is invoked, so these saves are refused over the socket
(`WebSocketHandler.cs:304`, `:325`; kinds "absent" and "mismatched" of `WsServer`).
`BlogDialog.razor:29` binds `CurrentValue`, which `CKEditorBlazor` does not have. A
page left early keeps its timers (`early`), a dialog that opens a dialog loses its own
buttons (`mixed`), a disposed component leaves the page around it invisible
(`killed`), a reloaded script forgets its editors ("outdated"). No text in the
repository promises otherwise, so they are not findings.

## 5. Proofs

Every theorem holds for all values of the constants that satisfy the assumption
named in the module.

**TokenBucketProofs** (`BucketAssumption`: a token costs at least one unit and
no more than a full bucket). `AdmissionBound` and `NoLastingDebt` are inductive together
with type correctness. `WindowBound` is not: it needs the invariant that, since the
window opened, admissions plus balance are at most a full bucket plus the time
from the opening to the last refill. The proofs use one step per action.

**ReplayGuardProofs** (`GuardAssumption`). `PassedOnce` is not inductive: from a
state where a nonce has been dropped and a thread holds the same message, `Pass`
would break it. The strengthening says that (1) a thread on its way read the clock
no longer than `MaxStall` ago and found its message fresh then, (2) a message passes
while its nonce is in the dictionary or, once that is gone, is dead
(`DroppedIsDead`, for timely messages), and (3) stamps lead by no more than their
sender's `Lead`, nor by more than is accepted. `GuardAssumption` only gives the types of
the constants. `Expire` is the step that uses `Timely`: when the timer fires, the stamp
of a timely message is older than the window and any stall.

**MigrationProofs** (`MigrationAssumption`: any list of scripts). `EngineInv` adds to
the properties where the loop stands (`AtScript`), that batches up to the current
one have built their tables as long as `hasError` is false (`BuiltSoFar`), that all
scripts before the current one have a result (`EarlierRecorded`), that those
recorded OK will be skipped (`OkSkipped`), that only those are (`ExecutedOk`) and that
the script being run is none of them (`NotYetOk`).
`OkIsFinal` is an action property and follows from the invariant by `Begin`.
`ErrorsAlwaysRetried` follows from `EarlierRecorded` and `ExecutedOk`: at the end of a
start a script that is not OK was begun in it and has its error on record.
`EditsAlwaysSurvive` is an action property too: in a start only `RunBatch` touches rows,
and of its batches only an UPDATE changes rows that users edited and only a test for rows
takes a table they emptied for a new one; `NotYetOk` adds that the script is not
recorded OK.

**BodyKeysProofs** (`BodyKeysAssumption`: any pages, users, requests and number of
logins). None of the three properties is inductive. `KeysInv` adds that an answered
login's key is its user's or forgotten (`LoginsStored`), that any key in use is in the
store or was there once (`KeysKnown`: this is why a body left sealed on the socket
means a forgotten key), that a body not yet sent has not been read (`Unread`), and
that a request under way under a name comes from a page with that name's key
(`AskedAgrees`), from which `Arrive` gets `AnswersOpenable`. Only `StoreKey` and
`Restart` change the store, and both put the keys they remove into `forgotten`.

**SessionServerProofs** (`SessionAssumption`; `GuardsAssumption`, the types of the two
guards' constants; `HandshakesTimely`, so that all handshakes are timely).
What `ReplayGuardProofs` shows is
carried over by two instances of it, one for handshakes and one for headers: each step
of the service is, for each guard, a step of `ReplayGuard` or none, and keeps its
`GuardInv`. On top of that, `HandshakesOnce` says that a handshake which made a session
or is about to has passed its guard, and is at one place only; `HeadersOnce` the same of
headers. With `PassedOnce` they make `OneSessionPerHandshake` and `ServedOnce` inductive;
`ServedOnce` is about timely headers, whatever the clocks of other clients show.
`SingleSessionUnlessOverlap` and `NewestUsable` need that a request between UPDATE and
INSERT is alone and finds no active session, unless handshakes overlapped
(`InsertsLone`), that ids number the rows (`TableNumbered`), and that an active session
is the newest (`ActiveNewest`). The rate in `CreationsJustified` is `BucketsPaid`: what a
client created and was admitted to create costs no more than a full bucket and the
refill since the start of the process, less the balance. `SupersededNeverServed` is an
action property: the SELECT finds active rows only.

**CommClientProofs** (`CommAssumption`: any requests, at least one attempt and one
socket). `CommInv` adds three small facts: the timer is armed only while attempts are
left, a loop receives from some socket, and the socket whose `ConnectAsync` is awaited is
the one in `_ws` (`AwaitsCurrent`). The last is why `OneOpenSocket` is inductive although
three callers create sockets: whoever creates one replaces the other before it opens.

**WsServerProofs** (`WsAssumption`). `WsInv` says that a call is on the wire of one
connection, once and unprocessed (`OnWireOnce`), that a call which was not made is
nowhere, that nothing is carried out before the service is called (`NotYetDone`), that
nobody is told of a call in progress (`NotYetTold`), and that replies, made or on their
way, are true (`AnswersTruthful`). `ServedAdmissible` (a call at the service was not
refused) makes `RefusedSessionServesNothing` inductive. The refinement
`WsServerServesAsPromised` is proved step by step: under `WsInv` each step is one of
`RemoteCalls` or changes neither `told` nor `done`. `RemoteCalls` states no fairness, so
this is the whole of the promise.

**ClientPageProofs** (each bound a natural number; the first culture is a culture). Each
component has its own inductive invariant, proved from its own `Next`; `PageSteps` shows
that a step of the page is, for each component, a step of it or none, so that
`PageInvariant` is their conjunction and holds with or without `focus`. What the
invariants add to the properties:

- `StartScreen`: a timer of the dismissal means that the page can be scrolled.
  `Appearance`: outside the admin pages the sidebar's flag is down unless it is left over.
- `Translations` (`LangInOrder`): a load that is alone is the last one, and each of its
  steps leaves behind what the later ones build on.
- `HomeEffects` (`HomeShown`, `HomeHandles`): without tangled visits a loop is the one
  its handle names. `HomeSlider` (`SliderWaits`): who leaves before the timers are
  created leaves early.
- `ScrollEffects` (`ScrollOrder`): each call of the timeline leaves the nodes as the next
  needs them, in both directions. `SmoothScroll` (`SmoothKept`): the instance kept is the
  only one unless another was made over it. `PointerEffects` (`PointerOneLight`).
- `Editors` (`EditorOrder`, `EditorCopies`): the map knows the living editors; each
  component appends the script once, which bounds the copies that ran (a counting
  argument over finite sets).
- `Alerts` (`AlertOrder`): what timers will touch was asked for; only what hides is
  removed. `ClickOutside` needs nothing more.
- `Modals` (`ModalShown`, `ModalAlone`, `ModalAnswers`): a dialog that is alone is the
  only one that may still call the service, and the task in the field is its own.

**Only model-checked**: the liveness properties `BootEnds`, `EveryRequestReturns`,
`WsSettles`, `EffectsEnd` and `RequestsEnd`. They hold under fairness, and liveness under
fairness and ENABLED are out of this prover's reach. Every invariant and every action
property of the passing runs is proved.

## 6. Plan

What is left, in this order:

1. **SecurityClient**: token, expiry and handshake guard on the client, composed
   with `SessionServer`; the retry after 401.
2. **DataServices**: operations of several statements on one database
   (`SetPermissionsAsync`, `SetManyAsync`, toggles, uploads beside rows).

### Not modelled

Markup, string helpers, password hashing, token signing, the ciphers (`CryptoUtils`
and `CryptoJsService` are taken as correct: what is sealed with a key is opened with
it and with no other), the vendored libraries (GSAP, Lenis, CKEditor, CryptoJS, which
the modules of the page meet as their environment). Of `gsap-animations.js`,
`animations.js` and `interop.js`: tweens that run once and keep nothing
(`heroAnimation`, `staggerReveal`, `countUp`, `pulseElement`, `initAnimations`), the
functions that place a dropdown, and functions without a caller
(`initTypewriterEffect`, `home.init` with `architectureStory` and `toolbarScroll`).
`PROJECT.json` gives the reason for each component.
