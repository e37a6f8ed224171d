# schoolsoft-agent in TLA+

Specifications of schoolsoft-agent: the parts where order, time and failure
decide what happens, the configurations that model-check them with TLC, and
theorems that TLAPS checks. Source paths are relative to
`src/src` of the repository unless they begin with `docs/` or `test/`;
`core` is the vendor-neutral core, `providers/schoolsoft` the only provider,
`http` the self-hosted connector, `cli` and `mcp` the local surfaces.

## 1. The system

| Part | State it keeps | Operations | What makes it correct |
| --- | --- | --- | --- |
| Request budget (`core/budget`) | breaker (closed, open, half open; pauses, failures, cool-down), token bucket, slots, FIFO queue, one timer | `run`, cancel, timer, `snapshot` | slots never leak, one probe at a time, pauses bind, no more starts than burst and rate, nobody waits for ever |
| Session lifecycle (`core/session/session-manager.ts`, `providers/schoolsoft/auth`) | the session in memory, the stored one, what the portal has issued and exchanged | `login`, `ensureSession`, `reauthenticate`, `renew`, `focusChild`, `logout` | no refresh token twice, a rotated pair is saved at once, an outage costs no session, a logout is final |
| Keepalive (`core/keepalive`) | one slot per job: timer, failures, state, generation | `start`, `resume`, `stop`, timer, end of a run | one life per task, runs spaced, failures slow it down, a task that may run does |
| Recovery and read cache (`core/portal`, `core/cache`, `core/wiring.ts`) | cache entries, epoch, the child in focus in three places | a read or the one write through cache, observer, recovery and the provider's back ends | no child's page under another's name, a write once, the answer about the child asked for |
| Provider net (`providers/schoolsoft/net.ts`) | one chain of redirects | `budgetedFetch` | stays at the portal, writes are not repeated |
| Connector authorization server (`http/oauth.ts`, `http/storage.ts`) | clients, pending requests, codes, grants, tokens; a persisted copy | register, authorize, approve, deny, exchange, refresh, verify, revoke, prune | what is honoured is on disk, pairs form a chain, revocation is final, floods displace nobody in use |
| Connector runtime (`http/runtime.ts` with `http/server.ts`, `rest.ts`, `overview.ts`) | the pinned guardian, the task queue, one sign-in, outstanding calls | `beginLogin`, callback, `cancelLogin`, `execute`, `status`, `logout`, `close`, keepalive tick | only the pinned guardian's session, only permitted children, an abandoned login leaves nothing, the limit neither leaks nor locks out |
| Owner's sign-in (`http/owner-session.ts`) | sessions by cookie, limiters | sign in, check, sign out | an ended sign-in opens nothing; strangers cannot lock the owner out |
| Write confirmations, probe server (`http/probe`) | prepared writes; MCP sessions, pages and elicitations | preview, confirm; open, call, complete, evict, revoke | a write once, as shown, to its caller; a revoked grant is cut off |
| Login in the browser (`core/auth/callback-server.ts`, `core/session/pending-login.ts`, `login-state.ts`) | a listener on one port, a marker file | listen, callback, time out, cancel; mark, clear | a code goes to its own login, the port is returned, a dead login's marker blocks for a while only |
| Web login and browser reads (`core/browser`) | a window and its polls; a headless browser per visit | `webLogin`, `withPage` | no window or browser outlives its call; only pages are read, never a gate or login page |
| Files (`core/private-files.ts`, `core/versioned.ts`, `core/session/store.ts`, `sealed.ts`, `core/accounts.ts`) | one sealed document with an entry per account, a key, temporary files | load, save, clear, migrate | an answered write survives a power cut, other accounts' entries stay, a newer format is not damaged |
| Session history (`core/session/history.ts`) | per account: sessions, uses, losses; a plain file of earlier builds | record, read, migrate | a loss once, ages add up, the plain record goes to one account and goes last |
| Configuration (`core/config.ts`, `core/accounts.ts`, `shared/bootstrap.ts`) | the configuration file, flags, environment | load, `configure`, edit | settings of one school are never used for another, writes need an explicit yes |
| Guided setup, doctor, verification (`cli/guide`, `cli/commands/doctor.ts`, `core/operations/verify.ts`) | where the guide is; files being moved; the child in focus | `setup`, `doctor --fix`, `doctor --verify` | "ready" and "ok" are true, a repair can be stopped anywhere, the focus is put back |
| Operations (`core/operations`) | none | `report_absence`, reads by week | what is sent is what was shown; this week is this week |
| REST surface (`http/rest.ts`, `http/problem.ts`, `http/routes.ts`) | rate limits | authorize, read, classify an error | "sign in again" only when the login was lost, Retry-After is enough |
| Typed client (`client/index.ts`) | a pair, its store, one renewal in flight | call, load, renew, forget | no spent token, the store holds the newest pair, every call ends |
| Reference page (`http/reference/app.ts`) | one tab and its session storage | sign in, load, move, choose, reload, disconnect | the week shown is the week chosen; a page that disconnected is disconnected |
| Page capture (`providers/schoolsoft/capture`) | captured pages, a manifest | capture, redact, promote | no name gets out, all or nothing is promoted |
| Surfaces (`cli`, `mcp`, `http/server.ts`) | none of their own | parse, dispatch, render | |

How they interact. A surface calls an operation, the operation a portal object;
the portal object is cache over recovery over observer over back end, and each
request of a back end passes the request budget. Recovery and keepalive call
the session manager, which calls the provider's strategy under one lock and
saves what the strategy has changed; it announces login, refresh and logout to
keepalive, cache and history. In the connector the runtime serializes all of it
in one queue and asks the authorization server before each read. Several
processes (a terminal, an assistant's server, the connector) share a state
directory and know of each other through its files only.

What is hard here. One process runs one callback at a time, but every `await`
lets the others in, so a verdict read before an await may be stale after it.
Refresh tokens are used once: the portal honours a token until it is exchanged,
so a lost answer or a late save costs the session. The portal pushes back, times
out and answers late. A write must not be sent twice. Revocation, expiry and
cancellation race what is under way. Which child a page is about is state of
the session, not of the request. Processes stop between two system calls.

## 2. The modules

| Module | Models | Kind |
| --- | --- | --- |
| `Breaker`, `Limiter` | `core/budget/breaker.ts`, `limiter.ts` | state as one record, each method an operator that returns the record after the call |
| `RequestBudget` | `core/budget/budget.ts` over the two | state machine |
| `PortalGate` | what the budget promises | abstract specification, implemented by `RequestBudget` |
| `RequestBudgetTrace` | the budget with history variables | extends `RequestBudget` |
| `SessionManager` | `session-manager.ts` driving `providers/schoolsoft/auth` over the store | state machine |
| `KeepaliveScheduler` | `core/keepalive/scheduler.ts` with the tasks and wiring | state machine |
| `PortalReads` | `core/portal`, `core/cache`, the provider's back ends and sessions | state machine |
| `PortalFetch` | `providers/schoolsoft/net.ts` | state machine |
| `ConnectorOAuth` | `http/oauth.ts` over `http/storage.ts` | state machine |
| `Connections` | what the authorization server promises of each connection | abstract specification, implemented by `ConnectorOAuth` |
| `Connector` | `http/runtime.ts` under its routes | state machine |
| `OwnerSessions` | `http/owner-session.ts` and the limiters of `server.ts` | state machine |
| `Confirmations` | `http/probe/confirmations.ts` | state machine |
| `HostProbe` | `http/probe/app.ts`, `tools.ts`, `web.ts` | state machine |
| `LoginFlow` | callback server, pending marker, login half of the manager | state machine, several processes |
| `WebSession` | `core/browser/web-login.ts`, `SessionManager.webLogin` | state machine, several processes |
| `BrowserSession` | `core/browser/playwright.ts`, `portal/browser-portal.ts`, `core/portal/verify.ts` | state machine |
| `AccountFiles` | sealed and versioned account files | state machine, one action per system call |
| `SessionHistory` | `core/session/history.ts` | state machine, several processes |
| `Configuration` | `core/config.ts`, `core/accounts.ts`, `shared/bootstrap.ts` | state machine over pure operators |
| `GuidedSetup`, `Doctor`, `ReadVerification` | the guide, the repair, the check of reads | state machines |
| `AbsenceReport` | `report-absence.ts`, `_absence-window.ts`, `absence-api.ts` | state machine |
| `Weeks` | `core/domain/time.ts`, `_week.ts`, `_calendar-range.ts` and who calls them | pure operators against a reference, and a clock |
| `RestAnswers` | `http/rest.ts`, `http/problem.ts`, `http/overview.ts`, and for one request a turn of `http/runtime.ts` with the restore and the child switch of `session-manager.ts` | state machine over a classification |
| `TypedClient` | `client/index.ts` | state machine |
| `ReferencePage` | `http/reference/app.ts` | state machine |
| `Capture` | `providers/schoolsoft/capture` | state machine over the redactor |
| `RequestBudgetProofs`, `SessionManagerProofs`, `KeepaliveProofs`, `ConnectorProofs` | the module of that name, the budget's with `PortalGate` and `RequestBudgetTrace` | theorems |
| `ConnectorOAuthProofs` | who is let in: `ConnectorOAuth` with `Connections`, `TypedClient`, `HostProbe`, `OwnerSessions` | theorems |
| `PortalReadsProofs` | `PortalReads`, `BrowserSession` | theorems |
| `WriteProofs` | `AbsenceReport`, `Confirmations`, `PortalFetch` | theorems |
| `SharedStateProofs` | what processes share: `AccountFiles`, `LoginFlow`, `SessionHistory`, `WebSession` | theorems |
| `MC*` | instances, views and symmetry for TLC | |

JavaScript runs one callback at a time, so an action is the code between two
awaits, and everything that is ready may run in between. Cancellation, timers
and the portal's answers are actions of their own. Definitions whose comment
begins with "Wrong:" are not used by any specification: each stands beside the
definition it is a plausible slip of, and shows which property such a slip
would break (`PROJECT.json`, "mutants").

### Request budget

`Breaker` and `Limiter` hold the fields of the two classes; the methods that
the classes close with (`state()`, `pump()`) are part of every operator whose
method calls them. `RequestBudget` adds the clock, and for each request where
it stands in `run()`: `Start` and `Wake` are one turn of the loop in `admit()`,
`Enqueue` is `acquire()`, `Send` the call of the transport, `AnswerWell` and
`AnswerPushback` the settling of the call with what it tells the breaker and the
limiter, `Reject` the catch of a failed `acquire()`, `Abort` the caller's
signal with the listener that it runs at once.

Two counters are represented otherwise than in the code. The breaker's
`consecutive` is kept as the pause it yields. Tokens are fractions in the code;
here a token is `Minute` credits and a unit of time adds `PerMinute` of them,
which makes rounding exact. `parseRetryAfter` is reduced to its result, a number
or none.

`PortalGate` knows no clock, token or queue. It says that only an answer shuts
or reopens the gate, that behind a shut gate one user's read at a time tests the
water, and that a request is sent once or not at all. The refinement mapping
(`RequestBudget!Gate`) reads the gate from the breaker's state, the prober from
the requests whose local variable `probe` is set, and calls everything between
the first look at the breaker and the departure of the request "waiting".

### Session manager

A session object is a cell: the token pair it holds and whether it has cookies.
`reset()` drops the manager's reference (`object`) but not those that calls
under way have taken (`task[c].obj`, `signIn.obj`), which is where this code is
delicate. Token pairs are numbered in the order of issue; the portal's side
(`issued`, `spent`, `expired`) is part of the model. `lock` is the promise chain
that serializes restores and renewals; its head runs. Requests to the portal
are a step for the departure and one for each outcome. `establish()` reads the
profile and then exchanges the token for cookies; only the second changes state,
so it is one step. `noteRefresh()` is part of the answer to a refresh, because
it runs without an await between.

Left out here: the school and provider in the saved data (a mismatch counts as
no saved session), a token answer without a refresh token, and `status()`, which
changes nothing. The web session and the marker have modules of their own.

### Keepalive

A job is a timer and then the run it starts. A slot remembers the handle of the
timer it set last. The code tells an outdated run by a generation counter; here
`stale` is the result of that comparison. Time is counted in multiples of
`MIN_DELAY_MS`; the jitter takes up to a tenth off a pause. The events are the
ones `createKeepalive()` listens to: login, web login, logout, and the refresh
that moves the next renewal. The gate of the budget is `pushing` and `pause`,
the quiet hours of the night `quiet`.

### Reads through cache and recovery

`PortalReads` has one call per caller. `Start` looks for the child in focus and
into the cache, `Restore` is `ensureSession` or the recovery's `reauthenticate`
under the manager's lock, `Aim` the child switch or the header that a back end
sends, `Request` one request of a back end, with each outcome an action
(`Answered`, `Rejected`, `Unavailable`), and storing the answer is part of the
last. Cookies are bound to a child; a request is about whoever its cookies are
bound to when the portal reads it, and the web login's session has a selection
of its own that the guardian can change from another tab. `host` tells the two
ways the portal objects are built: once for a process (stdio), and for each turn
of the connector's queue. `epoch` is the cache's counter of switches, reduced to
the calls that began in the present one. The cache is a set of entries, and `used` the
order in which they were last used, which decides what a full cache drops.

`PortalFetch` is one `budgetedFetch`: each hop is a request with a method, a
body, and an origin, and the answer may redirect anywhere with any status.

### Connector authorization server

The methods of `ConnectorOAuthProvider` contain no await that matters, so each
is one action. `state` is the field of that name and `disk` the encrypted file,
both as one record of tables. What can come between and inside the actions is
failure: `save()` changes memory before it writes, `issue()` writes before it
changes memory, and a write can fail before the file is replaced ("write") or
after, when the flush of its directory fails ("sync"). A restart reads the file.
Every lifetime may end at any moment (`RunsOut`); what is over stays in the
tables until `prune()` meets it, as in the code.

An access token and the refresh token issued with it are one pair `<<g, n>>`, the
grant and the rotation counter that the refresh token carries; `<<g, 0>>` is the
authorization code. `held` is what reached the app, so that an app presents only
what it was given, in any order and as often as it likes. The requester of a
consent request is its network and the process that received it: the key of the
pseudonyms is random in each process, so after a restart the same network
counts as another. Redirect addresses, PKCE challenges, the resource address and
the children of a grant do not change and are left out, as are stored addresses
of older builds.

`born`, `revoked`, `spent` and `unsure` are history: grants that have been on
disk, revocations a write has confirmed, what has been exchanged, and the grants
of which the app missed a pair.

`Connections` forgets all of it but the life of a grant ("new", "live" while it
is on disk, "ended") and the number of the newest pair its app has got.

### Connector runtime and the owner

`Connector` has the queue as a sequence of turns (a login, a read, a status, a
tick, a logout) of which only the head runs, step by step where its code awaits.
A person is a guardian: the first who signs in is pinned, and a later login may
bring anybody. An answer of the portal is a set of pairs, whose session it was
read with and whom it is about, so that a property can speak of both. Admission
(`Arrives`, `Room`), the checks after every wait (`Permitted`, `Answer`),
clients that hang up, revocations, children that leave the account, sessions
that the portal rejects, and the stop of the process are actions of their own.
`Restored` stands for the session manager, which has its own module.

`OwnerSessions` counts requests per limiter and window; strangers may come from
the owner's own address. `Confirmations` keeps the table as a set of records;
their numbers say which is the oldest. `HostProbe` has grants of one client,
sessions with the grant that was seen last, the elicitation a call waits for,
and pages that are made, opened, completed and told of.

### Logins, windows and browsers

A login of `LoginFlow` is a number that stands for its `state`, code and
verifier; a tab belongs to a login and may call the port back late, twice, with
a code or an error, whoever listens there now. `server` is the listener of a
login, which lingers after its answer. The marker carries the pid of its
process; a process may stop and its pid be given to another program
(`dead`, `reused`). `WebSession` numbers web logins; a process has one in memory
(`web`) and shares the store with the others. `BrowserSession` follows each visit
through launch, page, navigation and close; all operations share the one field
`browser`. The history variable `left` has the browsers that no close can reach
any more: the field names another one, or `newContext()` threw. `verify` runs
alone in its process; opening a page's menu item is part of the check of that page,
and `hasWebSession` is the one of the session it began with (`had`).

### Files and history

`AccountFiles` has one action for each system call of a save: read, temporary
file, fill, flush, rename, flush of the directory; a stop or a power cut can come
between any two. A document has a version and entries by account; bytes are a
document sealed with a key, garbage, or empty. `moved` marks a process under
which somebody else replaced the file, the window nothing locks. `SessionHistory`
reads, applies the event, reads again, writes and removes the plain file in that
order, one action each.

### Configuration and guides

`Configuration` keeps the file as a version, top-level settings (as earlier
builds wrote them) and entries by account; `resolve` is the order flag,
environment, account, top. `GuidedSetup`, `Doctor` and `ReadVerification` follow
their programs by a program counter; what a person, the portal or the directory
answers is a choice.

### Operations and the REST surface

`AbsenceReport` is the preview and the confirmed call, with the child picked by
id, by first name or by focus, the clock passing midnight, and the outcomes of
the backend. `Weeks` counts days since Monday 1 January 2001 and hours of UTC,
so that ISO weeks and Stockholm's summer time are arithmetic; `SameWeek` sends a
week's number from the overview or the page to the operation and compares the
Mondays. `RestAnswers` has an error as a record of class, kind and key;
`classify` is the table of `problem.ts`. A turn restores in its single requests
(profile, with the tokens where they are due; cookies; verify) and switches the
child with one more exchange, and so does a recovery; the portal may change
between any two of them. Each section of an overview begins as an operation does,
with the session and the child, and `validateFocus()` ends the reads. `reader`
says what a restore is for, and whether the portal of the turn reads with the
object the manager has.

### Apps

`TypedClient` says where each call waits: for `load()`, for the renewal under
way, for an answer, for the one retry. Its connector hands out pairs by number,
and the store is slower than memory. `ReferencePage` has loads that are current
or stale, one thread per read in each, the token request under way, and what is
on the screen. `Capture` looks at a page as one text and one identifier, and at
a text by its place and look.

## 3. What the runs check

| Run | Question | Bounds |
| --- | --- | --- |
| `request_budget` | slots, queue and timer agree; pauses hold; cancelled requests are not sent; the whole is the gate | two reads, a write, a keepalive request; two slots, a burst of two, threshold two |
| `session_restores` | restores and renewals with restarts never lose the saved session, present a spent token or hang | two callers, two objects, three pairs |
| `session_logout` | nothing of an ended login comes back to disk, with every call and fault | two callers, four objects, two pairs |
| `keepalive` | one timer or run for each scheduled task, none for a stopped one; runs are spaced, failures slow a task down, a task that may run does | two tasks, three jobs, two events, two failures |
| `oauth_grants` | one grant with every failure: what is honoured is on disk, pairs form one chain, revocations hold, scopes only narrow; the server implements `Connections` | one grant, one place in each table, two rotations, two scopes, two processes, every lifetime |
| `connector` | only the pinned guardian's session and only permitted children are read; a login that was given up leaves nothing; the limit counts exactly the calls under way | two requests over one place, one approval, one login by either of two guardians, logout, keepalive, stop, restart |
| `parts` | the parts that run on their own, below | each part's line in `MCParts` |
| `waits` | every wait ends, below | each part's line in `MCWaits` |
| `session_focus_race`, `session_poll_login`, `session_failed_login`, `portal_stale_session` | what the documentation says and the code does not do (section 5) | the smallest that shows it |

### One run for many parts

`MCParts` instantiates twenty-odd modules. A behaviour is one of one part,
named by `part`, which no step changes; the parts share the variables `x1` to
`x16`, and those a part does not use stay `Nil`. Each property says the
corresponding thing of every part:

- `TypeOK`: each module's type invariant.
- `WritesAreMeant`: a confirmation is spent once (`Confirmations`), a report of
  absence is sent as it was shown and its outcome told (`AbsenceReport`), no
  redirect repeats a write or leaves the portal (`PortalFetch`).
- `StateIsKept`: a moved session still opens (`Doctor`), an answered write lasts
  (`AccountFiles`), losses are counted once and lifetimes add up
  (`SessionHistory`), captures name nobody and are whole (`Capture`).
- `LoginsAreTheirOwn`: codes go to their own login (`LoginFlow`), web sessions
  stay or go as they should (`WebSession`), a registration in use stays
  (`ConnectorOAuth`), the owner is neither impersonated nor shut out
  (`OwnerSessions`), a revoked grant is cut off (`HostProbe`), the store has the
  newest pair (`TypedClient`), a disconnected page stays so (`ReferencePage`).
- `ToldTruly`: what a person or agent is told is so (`GuidedSetup`,
  `ReadVerification`, `Doctor`, `Configuration`, `BrowserSession`, `RestAnswers`,
  `Weeks`, `ReferencePage`, `LoginFlow`, `HostProbe`). Of `RestAnswers` it says that
  "sign in again" is told only of a session that was gone or rejected, except
  for the two cases in which the code tells an outage so: a cookie exchange
  that failed, and an overview in which a section kept a restore's failure
  (section 5).
- `CacheTellsTruth`, `WrittenOnce`, `AnswersTheChildAsked`: reads and the write
  under recovery (`PortalReads`), with two calls at once and with one call
  through three API objects. On the stdio server the cache is answered for where
  the portal had the manager's session object when the page was kept (`own`);
  what it may read with another one is what `portal_stale_session` shows.
- `RateBound`, `RetryAfterHonoured`, `ClosedMeansFreshCoolDown`: the budget with
  its history (`RequestBudgetTrace`) and with a breaker that every push-back
  opens.
- `StepsKeepTheirWord`: what no step may do. The modules state these as action
  formulas; `MCParts` boxes their conjunction. One of them is that an outage costs
  no session in a restore (`RestAnswers`), whichever of its requests it meets,
  except the cookie exchange. A token endpoint or an exchange whose answer changed
  shape counts as a rejection too (section 5).

`MCWaits` does the same under fairness for eight parts in which somebody waits:
a budget, calls through recovery, logins over one port, a login window, the
guided setup, a connector, an app's calls and the reference page.
`EveryWaitEnds` says that each wait ends, a blocked login does not stay blocked,
and the page does not say "Loading" for good. It excuses two things nothing in
the code can end: a portal that accepts a renewed session and rejects the next
request again and again, and a parent who reloads for ever.

### Why the bounds are enough

In the budget, the constants are chosen so that each limit is reached inside the
clock's range: with a threshold of two and a window of two, push-backs can open
the breaker, age out of the window, or follow a probe; cool-down one and longest
cool-down two show doubling and its cap; two tokens with two per three units
make a token's arrival fall between two ticks, where rounding matters; a hint of
four against a longest Retry-After of three is clamped. No request starts after
`MaxTime`, but the clock goes on for a timer that is pending, so nothing ends
only because the bound was reached.

In the session manager every hazard is a race of two calls over one object, so
two callers suffice for the safety runs; four objects are as many as two
callers, a login and the manager can hold. `session_restores` needs three pairs
for two rotations in a row. The `View` of the logout run leaves out what is in
objects that nobody references: `getSession()` makes them anew before anyone
reads them. Symmetry is used only in runs without liveness properties.

In the keepalive, three jobs let a task have an outdated run beside its own,
while the other task has one too.

In the authorization server the grants do not share anything but the size of
their tables, so one grant shows what failures do to it; the theorems cover any
number. With one place in each table, the second registration and the second
approval are turned away. The part `consents` of `MCParts` fills the table of
requests from two networks. There the lifetimes of one registration and one request
may end, since all of them behave alike. The `View` leaves out that something is
over that is in no table any more.

In the connector a request waits behind another, or is turned away, with two
requests and one place; one login suffices for a stranger to come, be cancelled,
expire or race a logout; the guardians share one child, so that only the
session's owner tells an answer apart.

For the parts the bound that matters is the number of actors in the race: two
processes over a file, a port, a store or a history; two calls over one portal
object; two loads of a page; one more client, session or preview than fits. The
world changes twice during a REST request: once to fail a restore, once to let the
next section succeed. Five browsers let two calls overlap through two visits each.
Files
have one fault in the run; the theorems allow any number (section 4 says what a
second one can do). `Weeks` looks at four days and nights every five hours around the turn of
a year of 53 weeks, the middle of a year and both changes of the clock, and asks
for every week up to half a year away. Half a year is where a week's number
stops naming one year (section 5).

Deadlock is not checked where the system may rest: a budget whose requests have
ended, a scheduler whose tasks are stopped, apps that have used up their
identifiers, parts that are done. It is checked in the session and connector
runs.

### Fairness

The event loop runs what is ready, timers fire, time passes, and the portal or
the transport's own timeout answers every request: weak fairness of exactly
these steps (`Fairness` in each module). The exception is `PortalReads`, which has
strong fairness for each call's next step: the manager's lock is a chain of
promises, first come first served, and the model has a lock that any waiting
call may take. Nothing is assumed of callers, of people, of browser tabs, of
cancellation, or of how the portal answers. `KeepsAlive` is conditional on
nights and push-back ending, which nothing in the code can bring about.

## 4. What is proved

All theorems hold for every value of the constants allowed by the named
assumptions (`BreakerAssumption`, `LimiterAssumption`, `BudgetAssumption`,
`SessionAssumption`, `KeepaliveAssumption`, `OAuthAssumption`,
`ConnectorAssumption`, `KindsDiffer`); TLC evaluates each assumption on its instances.

In the modules that the runs only instantiate, what is asked of the constants is a
hypothesis of the theorem, and the parts of `MCParts` satisfy it: `Fit` in
`PortalReadsProofs` (a value that stands for no child or no caller is none of
them, there is an object, the hosts are the two there are), `Family` (children
are finitely many, "nobody" is no child and no answer) and `Bounded` (bounds are
natural numbers) in `WriteProofs`, `Fit` (each process has an account and a build
that is the current or the next one, the two words for a missing and an empty key
are no keys) and `Bounded` in `SharedStateProofs`. Where one proof module is about
several components, the first is extended and the others are instances
(`Client`, `Probe`, `Owner`, `History`, `Web`, `Browser`) with constants and
variables of their own, so that no theorem says anything of two of them at once.
Their hypotheses are named too: `Room` (there is a first pair), `Limits` and
`OwnerBounds` (bounds are numbers, and there is room for one), `HistoryFits`
(also, what stands for no value or no document is neither), `EmptyIsNone`,
`Operations` (the operations are the ones that read pages). Two hypotheses
say more than that, and each is needed: `Undisturbed` for sessions and
`OneProcess` for the web login.

**Request budget.** `TypeCorrect`, `SlotsNeverLeak`, `AtMostOneProbe`,
`ClosingResets`, `WaitersAreTimed`, `SlotsAreHandedOutInTime`, `RateIsBounded`,
`RetryAfterBinds`, `BudgetIsGate`. `SlotsAccounted` is inductive once the queue
is known to name each waiter once and the count of requests in flight never
passes the limit (`Balanced`): without the first, withdrawing a cancelled waiter
would leave a second entry behind, without the second `release()` could go below
zero. `OneProbe` needs where a prober may stand and that nobody probes while the
gate is open (`Probing`). The refinement uses both: each action of the budget is
a step of the gate or leaves it alone. `Timed` carries the wake-up properties: a
timer is armed exactly while a slot is free and somebody waits, and not for an
instant before the pause or the next token ends; the limiter's hold covers the
breaker's pause; nobody cancelled is queued. `InTime` is what a step may do with
the slots: at most one pump, nothing in front of a pause, an empty queue when
the breaker opens, no cancelled request sent. The rate is a sum that is
inductive only together with the bucket (`Rated`): what was granted since any
instant, plus what is in the bucket, is paid by a full bucket and the time
since. `Remembered` says that the limiter's hold still knows a Retry-After that
the breaker has dropped.

**Session manager.** `SessionTypeCorrect`, `LogoutIsFinal` for all calls and
faults; `SpentIsNeverPresented`, `RotationAlwaysSaved` and `SavedSessionSurvives`
under the hypothesis `Undisturbed`: the callers only restore and renew, and the
only fault is a restart, at any point except while the portal's answer to a
refresh is on its way (that answer would be lost with the process, and no code on
this side can save what it never received). The hypothesis is needed, since with child switches or
logins the last property fails (section 5). The invariants: `LockOK` (only the
head of the chain works, and a call that works holds an object), `Known` (every
pair anywhere has been issued), `Forgetting` (neither the saved pair, nor the one
in the manager's object, nor one about to be adopted into it belongs to a login
that was ended; the objects that `reset()` let go may hold one), `Fresh` (nobody
logs in, a call under way presents and holds what it loaded or its successor, and
a saved pair is spent only while its successor is under way).

**Keepalive.** `KeepaliveTypeCorrect`, `TasksHaveOneLife`, `RunsAreSpaced`,
`FailuresSlowDown`.
`Handles` says that a slot's handle and its armed timer know each other and an
armed timer is never outdated, `Lives` that a scheduled task has exactly one job
that is not outdated and a stopped one none, `Spacing` that an armed timer still
has the shortest delay to run unless the last run is that long ago. The
assumption that powers of two are natural numbers is there because the prover
knows no exponentiation. `FailuresSlowDown` is about a step, and needs of the
invariant only the types; it supposes that no task's own interval is beyond the
longest pause, since the settings allow one for which it is false (section 5).

**Authorization server.** `RevocationStands`, `HonouredTokensAreStored`,
`NewestPairIsGood`, `PairsAreOneChain`, `ScopesOnlyNarrow`, and
`OAuthIsConnections`, with every fault. None of them is inductive: after a restart
the file is all there is, so whatever is said of memory must have been true of
the file before. `Follows(s)` says of a document, memory or file alike, that the
counter of a grant is at least that of any pair its app holds, that its code is
unused exactly while the counter is zero, and, unless an answer was lost, that
the app holds the newest pair and has exchanged all before it. `Rooted` says
that a grant in memory is on disk or has never been there, which is what makes
an ended connection stay ended; `Narrowed` that the file has no wider scopes than
memory; `Admitted` is the first half of `HonouredIsStored`. Most actions only
make the documents thinner (`Thinner`, `ThinStep`); approving, issuing and
restarting have lemmas of their own.

**The client of an app.** `StoreIsNewest`, `SpentStaysSpent`, for any calls and
renewals, with every fault. In `Held`, `Carried` says which pair may be on its
way where, `SpentIsOld` that a spent pair is older than what is in memory and than
what a renewal presents, and `Agrees` how store, memory and connector are related
at each step of a renewal as long as no answer was lost. `Young` is what the
rest hangs on: while the connection is good no call is refused, since what it
repeats a request with has just been issued, so nothing makes the app forget.

**Host probe.** `RevokedStaysCut`, `RoomIsMadeByTheOldest`, `PagesAreToldOnce`,
`PassesAreForPages`, for any number of clients, grants, sessions and pages.
`Hosted` says that every open session is of the client of its grant and follows
one that its owner has not revoked, was used by now, and that no more are open
than may be; `Answered` that telling and having told of a page come to one at
most, and only of a page that is done, and that a session passed no more often
than it has completed pages besides the one it has yet to pass with. That a full
table makes room rests on a least element: the model picks one of the sessions
that were used longest ago, and that there is one follows from the natural
numbers being well-founded (`Smallest`).

**Owner's sign-in.** `EndedSignInsStayEnded`, `OwnerIsNeverShutOut`, for any number
of browsers, tokens and requests. `SignedOut` adds that an ended token was issued
and has no entry, so that a token is never issued again, and that the limiter of
the portal logins has counted what the owner began and nothing else.

**Connector runtime.** `EveryPlaceIsAccountedFor`, `OneGuardianPerConnector`,
`NoSessionOfAnEndedLogin`, `ClientsGetWhatWasPermitted`, for any number of
requests, approvals, guardians and logins. The invariant `Kept` adds to the
properties who may be where: a login or request under way has the turn
(`InTurn`); an established session is the saved one and one guardian's
(`OwnSession`); what a request holds was read with the pinned guardian's session
and is about children its approval names (`Meant`), which is what every check
after an await is for. Each step is of one of four kinds, with a lemma for each:
asked from outside, of the login, logout or tick in its turn, of a request in its
turn, of a request without one.

**Reads.** `ReportsLeaveOnce`, `CachedForTheRightChild`,
`TurnsAnswerForTheirChild`, for any number of calls, children, cache entries and
session objects, in both hosts. `Sound` ties the cookies of the live object, the
child in focus and the child a restore under way will bind to one child. A read
may be kept only while that holds for the child it claims (`Keepable`), and in a
turn of the connector's queue it holds from the choice of the child to the answer
(`Aimed`). Outside a turn it does not, which is why the answer about the right
child is promised there for the cache alone (section 5, two callers that undo
each other's switch). On the connector each turn builds its portal over the
manager's object, and the theorem is about every entry; on the stdio server it is
about the entries that were kept while the portal had that object (`own`),
however many logins, logouts and failed restores came before or after. For the
others it cannot hold: after a reset nobody keeps the portal's object and the
manager's child together (`portal_stale_session`, section 5).

**Browser reads.** `BrowsersAreClosed` holds with calls that overlap, launches and
contexts that fail, and every other fault: when no call runs, the browsers that
are still open are the ones that were abandoned at a known line (`left`), by an
overlapping launch that replaced the field or by a `newContext()` that threw
(section 5). `Tidy` says that any other browser that runs is the one the field
names and that a call which has yet to close it is under way. `PagesAreAnsweredFor`:
a check reports every page of its plan, an operation goes on after a read only.

**Writes.** `ReportsAreMeant`, `OutcomesAreTold` (the report of absence),
`SendsAtMostOnce`, `SendsAsShown` (its confirmation), `NeverLeavesThePortal`,
`WritesLeaveOnce`, `ReadingStaysReading` (the request that carries it). `Honest`
says that from the choice on everything a call says fits exactly one child, and
that the portal knows of no call that was not sent; `Kept` that a number is held
once, as it was shown, and was not sent while it is held unsent; `Chain` that
once a chain of redirects reads it goes on reading, and that a write is not
redirected at all.

**Shared state.** `OthersAreKept`, `UnreadFilesStay`, `WrittenFilesOpen`,
`FilesAreWhole`, `AnsweredWritesSurvive` (the file of sessions and its key) and
`LoginsExchangeTheirOwn`, `PortComesBack`, `MarkersTellOfLogins` (the logins over
one port and one marker), for any number of processes, accounts and faults.
`Sound` says that one process makes the first key (`OneKey`), that what a process
has sealed is a document and, unless somebody replaced the file meanwhile, sealed
with the key in use (`Sealing`), and that under the same condition what it has
read is what is in the file (`Reading`). `Kept` does the same for logins: a login
under way has a number of its own, and the code it is about to exchange is its.

**Session history.** `HistoriesAreTyped`, `LossesAreToldOnce`,
`LifetimesAlwaysAddUp`, `LegacyIsClaimedOnce`, `PlainAlwaysGoesLast`, for any number
of processes, accounts and stops. `HistoryKept` says that the sealed document is
missing, damaged, of a later build or sane, that is, each history in it fits the
spans there were and names none twice; and what each process has at hand
(`AtHand`): the event applied to a sane history, and, if nobody replaced the file
meanwhile, the document that is still there but for its own account.

**Web login.** `WindowsYieldThePortal` for any number of processes;
`WebLoginsStand` for one. With two it is false: each saves the web session it has
in memory, so one can bring back what the other has ended or logged out of
(section 5). `Remembered` says that a forgotten login is neither in the store nor in
memory, and that the one that was told as done is in both until it ends.

Trying to prove them has changed three things in the model. `NeverHalfAFile` held
with the one fault of the run and not with two: a damaged file that was written
over can come back when the power fails before the directory is flushed. It now
names that case and excludes every other. A `CASE` whose conditions overlap
leaves the choice open in TLA+, although TLC takes the first; `AccountFiles`,
`SessionHistory` and `RestAnswers` now state the order the code has. And the
cache and the table of confirmations are sets with an order instead of
sequences, since the prover knows nothing of `SelectSeq`.

Only model-checked:

- Liveness (`EveryRequestEnds`, `CallsReturn`, `KeepsAlive`, `EveryWaitEnds`),
  which needs fairness and ENABLED.
- `ClientsInUseStay` and `OnlyRequestStays`, where it matters who is the oldest in
  a table: the tables are filtered with `SelectSeq`.
- The parts without a theorem: `Configuration`, `GuidedSetup`, `Doctor`,
  `ReadVerification`, `Weeks`, `RestAnswers`, `ReferencePage`, `Capture`. `Configuration`
  and `RestAnswers` are tables over small fixed sets and `Weeks` is arithmetic on
  days, which TLC enumerates.
- That two components together keep a property: the theorems are each about one
  module, and the interfaces between them are read off the code.

The properties of `MCParts` collect formulas of the modules under `part = ...`; the
theorems are about the formulas in the modules themselves.

## 5. Where the code departs from what is said of it

The runs with an expected violation show, each by a counterexample:

- `session_focus_race`: a child switch persists the manager's object of the
  moment; if a restore of another caller failed transiently meanwhile, that is
  an empty one, and the saved session is gone.
- `session_poll_login`: a restore that fails during a background login leaves
  the login working on an object that is no longer the manager's.
- `session_failed_login`: a login that ends without tokens overwrites what was
  saved, because the serializer always returns its keys.
- `portal_stale_session`: the stdio server's portal is built with the session
  object of one moment (`core/wiring.ts:285`); after the manager has reset it the
  portal reads with an object that nobody renews, until the process restarts.

More that was met while modelling, and that no run singles out. The properties
named are stated so that they hold with it.

Request budget and keepalive

- `core/budget/breaker.ts:94-98`: a Retry-After that arrives while the breaker is
  half open is dropped, and the probe may leave before it ends.
- `core/budget/limiter.ts:82`: a request already queued waits out a pause longer
  than `maxWaitMs`, although `policy.ts:38-39` says that a longer pause fails at
  once.
- `core/keepalive/scheduler.ts:160`: with a web interval above the longest pause
  after failures, which the settings allow, a failure brings the next touch
  forward, against "slower after a transient failure" (`scheduler.ts:4-5`).

Session and recovery

- `session-manager.ts:345`: `restoreSaved()` sets `established` after awaiting
  `verify()`; a logout meanwhile leaves a manager that claims a live session over
  an empty object. Nothing is saved by it (`LogoutForgets` holds).
- `session-exchange.ts:92`: the cookie exchange does not look at the status, so an
  unavailable portal counts as a rejected session and clears the store, although
  `docs/development/architecture.md:209` says that transient failures never do.
  `SessionManager` has it as the fault "unavailable"; with it `SessionSurvives`
  fails in one restore. `RestAnswers` has it in every restore and child switch:
  a switch that meets it (`http/runtime.ts:417`, `:429`) is told as "sign in
  again" over a session that lives. A token endpoint that answers without a token
  (`oauth.ts:84` of the provider) costs the session as well.
- `session-manager.ts:179` and `:433`: a renewal writes the web session of the
  store and every other save the one in memory, so two processes can bring back
  a web session the other has ended; `webLogin()` without a saved app session
  keeps its cookies in memory only; a former guardian's web session is saved
  with the next login.
- `core/cache/cached.ts`: a slow older read can overwrite an entry that a later
  `fresh` read has set.
- `portal/api/webview-api.ts`: when one request of a group is rejected its
  siblings are still under way during the recovery, and a section that failed is
  cached as empty.
- `portal/api/web-session-api.ts`: the question which child is in focus can itself
  be rejected; that recovery is in vain and ends as `session_rejected_twice`.
- Two callers of the stdio server can undo each other's child switch while the
  portal rejects; after a login inside the process, reads have no cookies until
  it restarts.

Logins and the connector

- `http/runtime.ts`: a login that is cancelled or expires, and a stop with a login
  that is only queued, forget the session that worked before; a stop between
  saving the session of a cancelled login and settling it leaves that session
  behind for the next start.
- `http/oauth.ts:459`: a revocation whose write failed has left memory, so
  repeating it finds nothing, saves nothing and answers success; after a restart
  the grant is back. `RevocationIsFinal` counts revocations that a write confirmed.
- `http/oauth.ts:404` calls failed issuance retryable. If the file was replaced
  and only the flush of its directory failed, that is so until a restart; then
  the retry presents a token that the file has seen exchanged, and the grant is
  withdrawn. `NewestIsGood` leaves such grants out (`unsure`).
- `http/oauth.ts:211-213` says that a single request survives a flood unless it
  comes from more networks than the table has places. When every network has one
  request and the table is full, a second one by any of them displaces the
  oldest, so as many networks as places (with the single one among them) are
  enough.
- Anyone who shares the owner's address can spend the budget of
  `/schoolsoft/callback` (`http/server.ts`).
- `core/auth/callback-server.ts`: a late tab or an error of an earlier login rejects
  the one that listens now; the listener lingers after its answer, so the next
  login may find the port busy; a right callback after an error page still shows
  "Inloggad".
- `pending-login.ts`: a save that throws leaves the marker "running" for up to
  six minutes; a login that takes longer looks abandoned; two logins that start
  at once cross; `startLogin` reports `login_started` for a strategy it does not
  know. A login window that its user closes is noticed at the end of its five
  minutes only.
- `core/browser/playwright.ts:117-119`: overlapping calls share one field, so one
  can close another's browser; `newContext()` that throws leaves its browser open;
  these are the browsers `left` remembers. `browser verify` does not repeat a
  failed switch of child.

Operations and answers

- `core/operations/get-assignments.ts:24-25`: without arguments the week is
  Stockholm's ISO week and the year `new Date().getFullYear()`, the calendar year
  in the server's zone. From 29 December on, when those days are in week 1, and
  to 3 January, when those are in week 52 or 53, that is another week than the
  "current week" its description promises (`:10`); `_week.ts` takes the ISO year
  for exactly this.
- `_week.ts`: a week half a year away is refused or not with the clock, an overview
  asked near midnight at that distance can mean two years, and the page shows
  "Nothing listed" for weeks from about the 26th on.
- `report-absence.ts:57-60`: without a date the day is the one on which the call
  runs, so a preview before midnight and its confirmation after it speak of two
  days. `absence-api.ts`: a redirect is told as `absence_rejected`.
- `http/problem.ts`: a session rejected twice is told as "sign in again"; a bug or
  a 404 during a restore costs the saved session.
- `http/overview.ts:49-52` keeps the failure of a section that must not cost the
  others. When that failure is of a restore, the manager is left without an
  established session, and unless a later section restores it,
  `reader.validateFocus()` (`http/runtime.ts:323`) fails the whole overview with
  `schoolsoft-session` although the saved session is there. The portal of the
  turn (`:420`) also keeps the object that the failed restore reset, so a later
  section may be rejected twice.
- `core/operations/verify.ts`: the last switch of child may throw, and then the
  whole report is lost; a check that is stopped leaves the child it was reading.

Files

- `core/session/file-store.ts:57-60`: a file that a newer build writes between the
  read and the rename is overwritten; `store.ts:113-117`: in the same window other
  accounts' entries are lost, which
  `docs/planning/specs/2026-09-26-accounts-by-school.md:129` admits.
  `KeepsTheOthers` and `UnreadStays` leave out a process under which the file was
  replaced (`moved`).
- `core/private-files.ts`: a stop while the key is created leaves an empty `key.bin`;
  a damaged file that a save has replaced is back after a power cut before the flush
  of the directory.
- `core/session/history.ts`: two processes that overlap can each claim the record of
  an earlier build.
- `cli/commands/doctor.ts`: a former `key.bin` that is moved over a current one makes
  what that one sealed unreadable; a login during `--fix` can be overwritten;
  `:230` exits with 1 when something is not well, although `core/errors/index.ts:29`
  reserves 1 for bugs.
- `core/config.ts`: two providers of one school, or a school by flag with an `orgId` by
  environment, mix settings; `setup --query` saves the chosen school and goes on
  with the one of `SCHOOLSOFT_SCHOOL`.

Apps and captures

- `client/index.ts:259`: the new access token is used before its pair is saved;
  `:228-238` takes every answer of the token endpoint that is not well for a
  revocation and clears the pair; `:325` does not claim a renewal whose token is
  already over; a `load()` that fails is remembered for ever.
- `http/reference/app.ts`: a token request under way when the parent disconnects
  saves its old snapshot again, or writes over a sign-in that has begun; the page
  says "no longer lists this page" although the revocation failed; the error of
  an older load is shown over the newer one.
- `providers/schoolsoft/capture`: a stop between the files and the manifest, or
  within a promotion, leaves half of it; ids, names and classes of elements keep
  a known name (`redact.ts:204` against `:7-8`), and a single lower-case word
  stays; a failed switch of child is not repeated (`capture.ts:86-89`).

## 6. What could come next

- Two processes that refresh one stored token (`SessionManager` has one process
  with restarts; `docs/development/architecture.md:213` documents the limit), and
  the manager with its web session and marker in one composition.
- A proof that a registration in use and a lone request stay in their tables,
  with tables as sets and an order of arrival; proofs of `ReferencePage`, `Doctor` and
  `GuidedSetup`.
- The connector over `ConnectorOAuth` and `SessionManager` themselves instead of
  what they amount to.

## 7. What is not modelled, and why

- Text: rendering of answers, help and pages, schemas and OpenAPI, argument
  parsing, the extractors of web pages and the parsers of the portal's JSON keep
  no state; their inputs are unbounded and their results are wording.
- Generated code: `client/api.gen.ts` is types, `scripts` writes documentation and
  metadata at build time.
- The installation of the browser and the identity provider's pages: what a
  user and other programs do there is any answer, at any time, or none.
- The cipher: a sealed document opens with the key it was closed with and with no
  other.
- Two processes refreshing one token, as said above.

The portal is modelled by what the code in `providers` expects of it: tokens
that are exchanged once, and answers that succeed, fail, redirect or never come.
`PROJECT.json` says for each component what it leaves out.
