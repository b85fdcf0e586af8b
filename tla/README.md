# TLA+ models of Discorsair

Discorsair is an unattended client of a Discourse forum: it visits topics,
posts reading times, stores what it reads, forwards notifications, runs
plugins, and can be driven over HTTP (`serve`). These modules model the parts
of it where several threads, a remote server, failures and restarts meet. Paths
below are relative to `src/discorsair/` of the repository.

## 1. The system

| Component | State | Operations | Interacts with |
|---|---|---|---|
| Request queue (`core/request_queue.py`, `discourse/queued_client.py`) | ready and delayed heap, cooldown per method, running count, stop event, one worker thread, a future per call | `submit`, `stop`, the worker's `_next_item` and `_run`, `_call` with its timeout | every other component sends its requests through it; the worker calls the Discourse client |
| Discourse client (`discourse/client.py`) | CSRF token | one method per endpoint, one retry on a bad token | requester |
| Requester and session (`core/requester.py`, `session.py`, `cookies.py`) | cookies, clearance cache, attempt counters, the token that may be persisted | `request` with challenge solving through FlareSolverr, login retries, `update_auth_cookie` | runtime state (persist callback) |
| Watch cycle (`flows/watch.py`) | local variables of a cycle and of a visit | `watch`, `_touch_topic`, `_post_timings`, `_poll_notifications`, schedule | queued client, store, plugins, notifier, stop event |
| Store (`storage/sqlite_store.py`, `postgres_store.py`) | posts, topics, crawl state, cycles, dedupe, statistics, plugin tables | one commit per call | watch cycle, plugins |
| Watch controller and HTTP server (`server/http_server.py`, `runtime/commands/serve.py`) | current thread and stop event, settings, error counts, blocked reason | start, configure, stop, cookie update, handling of login and challenge failures, crash handling | watch cycle, runtime state, queued client |
| Runtime state (`runtime/state.py`) | `auth` section in memory and in `*.state.json` | mark ok or failed, save cookie, recover, disable | controller, requester |
| Crawl lock and services (`runtime/crawl_lock.py`, `factory.py`) | a lock file per site, a lock per process | acquire, release, close | command line |
| Plugins (`plugins/manager.py`, `backend.py`, `validation.py`) | failure counts, daily counts, once keys, pending changes of a cycle | hooks with a timeout, `reply`, `like`, dispatch | queued client, store |
| Export and import (`storage/transfer.py`) | a bundle directory, a database | `export_backend`, `import_backend`, validation | store |
| Configuration, command line, one-shot flows, helpers | none that lasts | parse, validate, call | everything |

Behaviours that are hard to test, with their lines, are listed under `hazards`
in `PROJECT.json`: futures cancelled without the queue's lock, a stop that races
submits and retries, cooldowns written outside the lock, two watch threads,
failures handled outside the controller's lock while it is restarted, crashes
between storing posts and recording progress, refused requests in the middle of
a visit, hooks that go on after their time, a database connection whose
transaction several threads share, messages sent before they are recorded, and
processes that share a lock file, a store, a bundle and a state file.

What makes each component correct:

* Queue: no call is lost or answered twice, one request runs at a time, rate
  limits and priorities are kept, `stop` leaves nobody waiting, every call is
  answered.
* Controller: one watcher at most, a failed login stops whatever watch runs,
  settings reported are settings in use, limits on crashes, stops end.
* Crawl: progress is never ahead of the store, the budget bounds a cycle, all
  posts are stored in the end.
* Session: only a token that the server has taken is stored, a cookie update is
  not undone, and the retry after a bad CSRF token has a good one.
* Plugins: once keys and daily limits hold across threads, days and restarts,
  a hook that hangs neither stops the watch nor piles up threads, and a late or
  failed hook leaves no trace in the cycle.
* Stores: a call is carried out whole or raises, a read is current, and a call
  ends, whoever else uses the connection or the file.
* Watch loop: a notification is sent at least once and twice only when a failure
  kept the first from being recorded, only what was sent is marked as read, cycles
  and statistics agree, and the loop sleeps up to the next window.
* Commands: one process at a time crawls, exports or imports; a bundle and a
  store are consistent and an import can be repeated; no save of the state file
  undoes another's, but for what the environment overrides.

## 2. Modules

| Module | Contents |
|---|---|
| `SerialService` | abstract specification of the queue: ask, take on while waited for, serve one at a time, final answers |
| `RequestQueue` | the queue with callers, worker and `stop()`; refines `SerialService` |
| `RequestQueueProofs` | its theorems |
| `WatchController` | the controller, handler threads and generations of watch threads |
| `WatchControllerProofs` | its theorems |
| `CrawlSync` | cycles and visits of the watch loop with the store and the server |
| `CrawlSyncProofs` | its theorems |
| `RequesterSession` | the retry loop, the login token and the CSRF token, and the handlers that replace and store the login |
| `RequesterSessionProofs` | its theorems |
| `PluginHooks` | hooks of plugins in their threads, the watch thread that waits for them, once keys and daily counts |
| `PluginHooksProofs` | its theorems |
| `StoreTables` | the tables of both stores, SQL statements on them, and what each call of the store comes to |
| `LeftoverStore` | abstract specification of the SQLite store: a write that returns is carried out whole and at once; one that raises commits nothing, but may leave a first part of itself to the next commit |
| `DoubtfulStore` | the same for a store that loses its connection: a call cut off at its commit may have been carried out although it raises |
| `StoreConnection` | what both backends have: a connection, its transaction and the threads that share it |
| `SqliteContract` | the state `SqliteStore` adds, and what is asked of it (`Implements`, `ClosedBetweenCalls`) |
| `SqliteStore` | the calls statement by statement on one locked connection, beside another process; refines `LeftoverStore` |
| `PostgresStore` | the same calls on a connection that threads share without a lock; refines `DoubtfulStore` while they do not overlap |
| `StoreProofs` | theorems about both stores |
| `WatchSchedule` | windows, the delay of the loop and the next run reported, and what the windows mean |
| `WatchLoop` | the loop with its schedule, the record of cycles and the notifications |
| `WatchLoopProofs` | its theorems |
| `AuthFile` | the paths of the state file, loading, and what a save makes of the file |
| `Transfer` | the files of a bundle and the three import modes |
| `Commands` | processes that watch, serve, act, export and import, with crawl lock, store, bundle and state file |
| `CommandsProofs` | its theorems |
| `MC*` | values of the constants for TLC |

Operators commented `Fault:` are plausible mistakes in the definition that
follows; `PROJECT.json` pairs each with the property that it breaks. They are
not used by the specifications.

### RequestQueue

`ready` and `delayed` are the two heaps, as sets: a heap pops its least element
by `<<priority, seq>>`, which `Beats` states. `due` is the first component of
the delayed entries. `fut[r]` is the future of the call, `caller[r]` the place
of its thread in `_call`, `worker` and `item` the place of the worker in
`_run`/`_next_item` and what it holds.

A section under `_cv` is one action (`Submit`, `Pick`, `Wait`, `Requeue`,
`Finish`, `Drain`). Outside the lock an action ends wherever another thread can
see or change the state: `fut.cancel()` (`Cancel`) can fall between `TimeOut`
and anything else, between the worker's tests of the future and the stop event
(`Begin`, 85-90) and the section that counts it and calls `fn()` (`Enter`,
92-94), between `CheckBeforeError` and `DeliverError`, and into the loop of
`stop()` (`DrainInterrupted`). The cooldown is written without the lock
(`RecordCooldown`), one step before the retry (`Requeue`). What `fn()` does is a
choice of `Return` and `ReturnLimited`. The clock is an integer; the two
readings of one locked section are taken as one. A cancel that hits `set_result`
or the refusal of a stopped worker has the same outcome as a cancel one step
before and has no action of its own.

The instance `Service` maps the calls that have a future to `asked`, the item of
a worker past its `Begin` to `claimed` and past its `Enter` to `serving`, and the
futures to answers (`full` and `stopped` are both refusals). The service promises
that a request is taken on only while it is waited for; that it is served only
while it is waited for is not true of the code and not promised: a caller that
gives up between `Begin` and `Enter`, while the worker waits for `_cv`, is
answered, and its request is sent all the same. `stop()` in that window lets it be
sent too, and its caller gets the result.

### WatchController

Processes are handler threads (`Handlers`) and watch threads (`Gens`, one per
start). `pc` is where each is, `lock` the owner of `_control_lock` between two
steps; a method that neither waits nor calls out under the lock is one step.
`gen` stands for `_runtime.thread` and `_runtime.stop_event`. `Running` is
`thread.is_alive()`.

The handling of a login or challenge failure is three steps, taken by whoever
met it and without the lock: `MarkFail` (runtime state), `Block`
(`_start_blocked_reason`), `Finalize` (`_finalize_stop`, which sets the event of
the generation that is current by then); between `Block` and `Finalize` the code
sends a notification. `POST /auth/cookie` is `UpdateCookie` and `Unblock`, with
`update_auth_cookie` waiting for the request in flight in between.
Reconfiguration is `Configure` (tell the thread to stop), then
`ConfigureTimeout` or `ConfigureJoined`, all with the lock held. Refusals change
nothing and are no steps. The schedule flag, status fields and messages are left
out.

### CrawlSync

The server's topics are streams of post numbers; replies append, any post but
the last can be deleted. `stored` and `synced` are the tables `posts` and
`topic_crawl_state`, changed in the order of the code's commits. A visit is
`EnterTopic` (`get_topic` and its posts stored), `StopVisit`, `UpToDate` or
`Plan` (the decisions up to the list of missing posts), `FetchBatch` per batch,
`RecordProgress`. A request can be refused by a full queue, which is the
`TimeoutError` a watch call can meet: `SkipTopic` for `get_topic`,
`TimingsRefused`, `FetchRefused`. The last keeps `remaining` as it was before
the visit, as the code does. `Crash` is a process death or an exception that
ends the cycle; `Restart` begins a new thread. `spent`, `refused` and `cut` are
history variables.

### RequesterSession

One thread sends requests (the worker of the queue); `pc` is where it is in
`_ensure_csrf_token`, `get_csrf` and the loop of `request`, and the requester's
`_lock` is held in `wait`, `solve` and `resent`. What a server or FlareSolverr
does is a choice of action: `NoAnswer`, `Challenged`, `Solved`, `LoggedOut`,
`StillChallenged`, `RateLimited`, `Busy`, `Success`, `Refused`, `BadCsrf`. Any
answer may bring a new login token (`Merge`). `kind` tells a call from the two
ways to fetch a CSRF token.

A login token is the cookie it descends from (`login`) and a serial number. Of
the other cookies only what they mean for CSRF tokens is kept: a token is good
with the present cookies or stale. `saved` is `auth.cookie` in memory and in the
state file at once, since `save_cookie_header` writes under its lock and takes
the change back when the write fails (`NotStored`). Handlers do
`Recover`, `Apply`, `Forget` (`POST /auth/cookie`: the state file, the requester
under its lock, the client's token after it) and `ReadCandidate`,
`SaveCandidate` (`save_cookies` after an action or at the end of the watch).
`Restart` begins with what the file holds. The spacing of requests, the user
agent and `cf_clearance` are left out.

### PluginHooks

`hook` are the threads of `_invoke_with_timeout`, the late ones included, up to
`NSlots` at once; `phase` is where the watch thread is in `dispatch` and
`_run_plugin_hook`. A hook acts at most once. `TestOnce`, `TestLimit`, `Request`,
`Recheck`, `Count` and `MarkDone` are the places of `reply` between which other
threads run; `like` has the same steps around another request, and its once key
is asked for and set by the plugin (the recipe of
`docs/plugin-development.md:511`); a trigger is a limit and a count. A hook looks
at its flag (`Active`) exactly where the code calls `_ensure_hook_active`, so one
that is late after `Recheck` goes on to count. What is noted about topics is
applied by `JoinOk`, unless the store refuses the log of it first: that exception
comes from outside the `try` of `_run_plugin_hook`, so `CommitFails` ends the
dispatch and the cycle with nothing applied, though the hook counts as a success
already. `GiveUp` is the join that returns and `Cancel` the flag and
the exception: the hook may end in between. The backend is the memory's or the
store's: the second survives `Restart` and can fail. The history `kept` counts
requests per once key and `today` per day, those that were broken off left out: a
hook that is cancelled, fails or is killed between its request and the record of
it has made a request nothing remembers, which the code cannot avoid.

### StoreTables, LeftoverStore, DoubtfulStore, SqliteStore, PostgresStore

A table is a function from keys to numbers, and a statement a set of cells that
it writes at once, each once, as `INSERT`, `ON CONFLICT` or `UPDATE` would.
`Effect` says what each call of `storage/base.py` comes to and `Reply` what a read
returns; the two stores give
the statements of each write and the answer of each read in their own dialect, in
the order of the code: `inc_stat` is four statements, a list of ids is one
statement per id, the version of a topic's last snapshot is read before the
transaction (`ReadKey`). Dates are numbers up to `LastDay`, so that "the total is
the sum of the days" can be said by partial sums (`AddsUpTo`). `WellFormed` says
what the flows and plugins pass; that only the watch thread writes topics (and
statistics, which matters where no lock is held) is assumed from
`flows/watch.py:231`, `152`, `322`, `390`, `424`.

`SqliteStore` has the RLock, the transaction that Python opens before the first
write and leaves open when it is refused (`"begun"`), the snapshot a later read
takes in it, and the other process, which makes a write fail while it holds the
lock and for good when it commits after such a read. `_with_retry` begins again
with the first statement and raises at the third refusal. `Unstorable` is any other
exception, a value that cannot be bound (an integer beyond 64 bits, a lone
surrogate), at whatever row of a list or statement: nothing is rolled back
(`sqlite_store.py:367`), so that what was executed before stays in the open
transaction, is read by every later call of the process, and is written by the
next commit of any thread, or lost when the process ends first. The history
`settled` is what is committed and left together. The refinement to
`LeftoverStore` maps the database to the committed tables and what calls find to
`settled`: a write takes place at its commit, on top of what was left, a read when
it is executed, and a call that raises leaves nothing or one of the parts that
`Left` lists. `Carried` says what a whole call comes to: `Effect`, but for
`upsert_topic_detail`, which takes a snapshot only when the row it finds has another
version. After an exception between its two statements the row has the version
already, and its snapshot is never taken. The exceptions after which SQLite itself
rolls back (a full disk, an I/O error) are left out.

`PostgresStore` has no lock and one transaction for the connection: `Commit` and
`Rollback` end whatever all threads have executed. A failed command aborts the
transaction on the server, a lost connection stays lost. So it is no atomic store;
what it promises is stated in two parts. `WholeUnlessMixedAndFailed` speaks of the
tables once all calls have ended. `AtomicWhileAlone` holds it against `DoubtfulStore`
as long as no two calls have been under way at once (`mixed`): the committed tables
are those of the abstract store, a thread in `CutOff` (the connection was lost at its
commit) is one whose caller cannot know whether the call was carried out, and
`Outcome` differs from `Effect` in that a watch cycle that is there keeps its end
(SQLite replaces the row).

### WatchSchedule and WatchLoop

A day has `HoursPerDay * MinutesPerHour` minutes. `DelaySecs` and `NextRunLocal`
translate the two functions; `Allowed` and `FirstAllowed` state independently
what windows mean, walking round the clock. `WatchLoop` places them in the loop:
it falls asleep at one minute and wakes at another (`nap`), and time stands still
while it is awake unless the host was suspended, which counts as a failure.
Without a schedule the clock is left out.

Notifications are numbered as they arrive. A poll is `GetNotifications` (a page,
its unread ones and those known), a `Send` for each, `Record`, `CountSent`, and
the request to mark all as read, which takes effect on the site later or never
(`SiteMarks`, `MarkFails`). `open` and `counted` stand for the rows of
`watch_cycles`. Failures end the poll (`PollTimesOut`), the cycle with its
`finally` clause (`RequestFails`, `StoreFails`) or the process (`Crash`). After
`Start` the controller of the same process has called `watch()` again, with the
ids it remembers; `StartProcess` is a new process (the `watch` command, or the
service started anew), which begins with an empty set. `cut` counts deliveries
that could not be recorded and those whose only record, the memory of a process
without a store, ended with it: `discorsair watch` without a store that delivered a
note, ended on a failed request and is started again delivers it again. What the
cycle does with topics is one step here.

### AuthFile, Transfer, Commands

Each command is a process: `Start` reads the configuration, then come the crawl
lock (`TakeLock`, `FindLocked`), the services (`Open`), the work, and in steps of
their own the closing of the store and the release of the lock (`CloseStore`,
`Release`); daily, like and reply (`"act"`) take no lock. A command that could
not build its services closes what it has built and then records the failure
(`RecordFailure`); one that fails later records it before it closes (`Finish`).
`serve` does not look at what `wait_until_stopped` returns (`serve.py:73`), so
its watch thread may go on while the services are closed (`Works`): it writes to
the store till `CloseStore`, and raises after that. `Crash` ends a process
anywhere; the system then frees its locks.

A save of the state file is two steps under both locks: `BeginSave` changes the
memory and reads the file, `EndSave` replaces the file by `Payload`, or
`SaveFails` takes the change back where the code does. `PathsToWrite` and
`Overridden` say which paths it sets: those it is about, all of them when the
file was missing or unreadable. A path that the environment of the process sets
is not set but removed from the file, by every save (`state.py:177-178`).
`latest` holds what the last save about a path set it to, `removed` the paths that
were removed in this way and not set since.

`Transfer` has one table per import mode. An export reads in one transaction and
writes a file per table and, when its connection is closed, `meta.json`; an import checks the bundle before
and after it has the lock, writes all tables in one transaction, and a new
database beside its place. Meanwhile a crawler stores versions of a topic with
their snapshots, or log rows.

Assumed: crawling is enabled, the backend is SQLite, one account crawls a site
(`docs/schema.md:329`), and the operator does not edit the state file between the
two steps of a save.

## 3. Runs

| Run | Result | Bounds | Shows |
|---|---|---|---|
| `queue_safety` | passes | 3 calls on 2 methods (one urgent and impatient), size 2, waits of 1, clock up to 1 | `HeldOnce`, `CooldownRespected`, `NothingLeftBehind`, `PriorityRespected`, `AcceptedNeverRejected`, refinement of `SerialService` |
| `queue_liveness` | passes | 2 patient calls of one method, clock up to 3 | `CallsAnswered`, `StopEndsWorker` |
| `controller` | passes | 2 handlers, 2 settings, 2 errors, 2 generations, limits 1 and 2 | `AtMostOneWatcher`, `BlockedMeansStopping`, `RunsCurrentConfig`, `CrashLimits`, `StopsEventually`, `RequestsEnd` |
| `crawl_safety` | passes | 2 topics of up to 3 posts, page and batch 1, budget 2 | `SyncedMeansStored`, `BudgetBound` |
| `crawl_liveness` | passes | 1 topic of up to 3 posts, budget 1 | `PostsStoredEventually` |
| `crawl_cut` | violated | 1 topic, budget 1 | progress advances past posts that the budget cut |
| `session` | passes | 2 handlers, 1 supplied cookie, 1 rotation, 1 retry | `StoredWasVerified`, `LoginFollowsUpdate`, `RetryHasFreshToken`, `UpdateApplied` |
| `plugins` | passes | 2 plugins, 1 topic, 2 hooks alive, limit 1, breaker at 2, backend with a store | `OnceKept`, `LimitKept`, `LateHooksBounded`, `SkipsOfEndedHooks`, `HookWaitEnds` |
| `sqlite` | passes | 2 threads, 3 calls of 21 kinds, 4 of them with data that may not be bound, another writer | `ClosedBetweenCalls`, `CallsEnd`, refinement of `LeftoverStore` (`Implements`) |
| `postgres` | passes | 2 threads, 3 calls of the same kinds | `WholeUnlessMixedAndFailed`, refinement of `DoubtfulStore` by calls that do not overlap (`AtomicWhileAlone`) |
| `watch` | passes | a day of 4 minutes, 3 schedules, 3 settings, 2 notifications, 2 failures | `DeliveredOncePerCut`, `MarkedWereDelivered`, `CyclesAddUp`, `WakesAtNextWindow`, `NotesDelivered` |
| `commands` | passes | 2 processes, one with a cookie in its environment; 4 commands with transfers or 3 with saves, 1 mishap | `StoreAlone`, `SnapshotWithTopic`, `ImportConverges`, `NoSaveLost` |

Why these bounds reach the interesting cases. Queue: three calls are needed for
a pop that shunts one request, takes a second and leaves a third; two of them
share a method so that a cooldown hits a request that is ready; size 2 is both
reached and exceeded by a retry; one clock step separates before and after a
cooldown. Controller: two handlers can overlap in any section, two generations
give a predecessor and a successor, equal errors and restarts both reach their
limits; the safety properties are proved for any number. Crawl: a topic of three
posts with pages and batches of one needs two batches, so that a stop, a
refusal, a crash, a reply or a deletion falls between them, and a budget of one
or two runs out in the middle. Session: an update and a save by another handler
can overlap each other and any request; one rotation makes the token sent, the
session's and the candidate differ; with one retry every branch of the loop is
taken both with an attempt left and without, and the limit on unresolved
challenges (2 for the code's 3) is met at the last attempt.

Plugins: one plugin acts on posts and one orders topics; two hooks alive are a
late one and its successor, with the same once key and limit; with a breaker at
two the second late hook cuts the plugin off. A limit of one and a single topic
are the tightest: any second request is one too many. Likes take the same path as
replies but for `Marked` and are not in the instance. Stores: three calls are two
that mix or a refused one with a predecessor and a successor; a write of two rows
can be cut in the middle, and what it leaves be read, committed, repeated or lost by
the next; a snapshot key can be stale; with PostgreSQL two days make a sum.
Watch: a window over midnight, a window of one minute and none; a page smaller
than the notifications; two failures so that one can hit the recovery from the
other. Commands: two processes contend for each lock and file, and a third
command (or fourth) comes after a crash; version 3 and two log rows belong to the
bundle brought from elsewhere, so that imports meet newer and older rows.

`MaxTime`, `MaxGen`, `MaxPosts`, `MaxLogins`, `MaxTokens`, `NSlots`, `MaxCalls`,
`MaxNotes`, `MaxFailures` of the loop, `MaxVersion`, `MaxLogs` and `Budgets` are
the only artificial bounds. At them the clock, starts, replies, updates, calls and
so on cease, so the systems may stop and deadlock is not checked there; besides, a
stopped queue or a watch that was told to end has nothing left to do. `plugins`
and `watch` can always go on, and TLC checks that they do.

The type invariants (`TypeOK` of each component's module) were checked by TLC when the
modules were written, are proved for every value of the constants (section 4), and are
no properties of runs.

### Disagreements

`crawl_cut` is violated: with a positive budget that cuts a topic's missing posts,
the progress advances past the posts that were cut off, which are not looked for
until the topic grows; a test of the repository states the rule and tries it with
a budget of 0 only.

The following formulas state what documents or comments say and are defined in
the modules; the code does not satisfy them, and no run lists them.

* `RequestQueue!MaxSizeLimitsReadyAndRunning` (`README.md:65`, `docs/usage.md:49`:
  `maxsize` limits the ready and running requests). The worker pops a request
  under `_cv` (`request_queue.py:148`) and counts it as running in a later section
  (92-93): a submit in between makes it one too many.
* `RequestQueue!CallsAnswered` holds for callers without a timeout beside others
  that have none. With a caller that gives up (`Timed = {r2}`), its `cancel` can
  fall between the worker's test of the future and `set_exception`
  (`request_queue.py:132-133`); the exception ends the worker, and nobody is
  answered any more.
* `WatchController!DisabledMeansBlocked` (`docs/usage.md:72-73`: a login failure
  blocks the watch and disables the account). A cookie update or a start that
  overlaps the handling of the failure leaves the account disabled and the watch
  not blocked.
* `CrawlSync!BudgetPerCycle` (`docs/cli.md:66`: the largest number of posts that
  one cycle backfills). A batch refused by a full queue makes `watch` forget what
  the visit had spent. `BudgetBound` is what remains.
* `RequesterSession!UpdateStaysStored` (`README.md:62`: `POST /auth/cookie`
  updates the token). The token is stored before the requester's lock is waited
  for; a save of the old candidate in between puts the old token back into the
  file, while the process goes on with the new one.
* `SnapshotWithTopic` without `mixed`: an export into an older bundle that is
  interrupted leaves the old `meta.json` with tables of two exports, which
  `validate_import_bundle` accepts.

No disagreement, but a limit of `NoSaveLost`: a save of a process with
`DISCORSAIR_AUTH_COOKIE` removes the cookie that another process has saved, and a
command without that variable then starts from the cookie of `app.json`. The
removal is meant (`tests/test_cli_runtime.py:349`), so the property allows it and
follows it with `removed`.

No disagreement either, but what `Implements` lets happen: after an exception in the
middle of a write of the SQLite store the next write of the process, of whichever
thread, commits the half; and a topic whose row was left without its snapshot gets
none when the same version is stored again. No document or test promises otherwise.

### Fairness

Safety does not depend on fairness. `RequestQueue!Fairness`: the worker thread
runs (in particular `fn()` returns: every request has a timeout,
`requester.py:616` and `:746`), time passes, callers inside `_call` proceed, a
stop that was begun goes on. Nobody has to call, to give up or to stop.
`WatchController!Fairness`: handler and watch threads proceed, a join times out,
the loop looks at its event between requests and in its sleeps; strong fairness
only for `Unblock`, which competes for a lock that is released again and again.
Cycles need not succeed and clients need not send anything.
`RequesterSession!Fairness`: the thread that sends requests proceeds, and a
handler that waits for the requester's lock gets it if it is released again and
again. `MaxRetries` is positive in the run: with 0 (no limit) and a server that
never answers the lock is kept for ever, and an update waits for ever.
`PluginHooks!FairSpec`: the watch thread takes its own steps; a join that has a
timeout returns. Nothing is assumed of hooks, which may hang for ever.
`SqliteStore!FairSpec`: a thread that can go on does. The other process may keep
its lock: `busy_timeout` and three attempts end the call.
`WatchLoop!FairSpec`: the loop goes on, the site answers, time passes, and the
loop is started again after it has ended, by the controller's restart or by an
operator; without a restart nobody polls. Failures are not fair: they stop at
their bound, as a notification is delivered only when failures let it.
`CrawlSync!Fairness` is an assumption on the environment: a refusal, stop or
crash may hit any visit, but of the visits of a topic infinitely many get past
each step; cycles recur and list each topic again and again. Without it no
client can fetch everything. The code adds that a stopped loop is started again
only by an operator, which `WF(Restart)` grants.

## 4. Proofs

TLAPS checks the following for every value of the constants that satisfies the
named assumption of the module.

* `RequestQueueProofs` (`QueueAssumption`). `Inv` joins `TypeOK`, `HeldOnce` and
  `CooldownRespected` with `WorkerInv` (the running count and the item follow
  from where the worker is), `TicketInv` (a call without a place in the queue is
  in no heap) and `StopInv` (after the drain the heaps are empty and stopped
  holds). The safety invariants alone are not inductive: that a retry does not
  double a request needs to know that the item is in no heap, and that nothing
  enters a drained queue needs to know that the stop event is set. One lemma per
  action; `PlaceLemma` and `RefuseLemma` say once what `submit` does to the
  heaps. The action properties and the refinement use the same invariant;
  `StutterStep`, `ReleaseStep` and `DismissStep` say which changes of the
  concrete state map to which abstract action. Why calls are answered:
  `NoWakeupLost` (the worker waits without a timeout only while the heaps are
  empty) is inductive, and as long as nobody gives up (`Timed = {}`, as in the run
  `queue_liveness`) `Patient` says that the request in the worker's hands waits for
  its answer, so that no `InvalidStateError` ends the thread; together a call that
  waits has the worker at work or `stop()` about to refuse it (`WaitingIsServed`).
  The hypothesis is needed: a call that gives up can kill the worker
  (section 3, Disagreements).
* `WatchControllerProofs` (`ControllerAssumption`). `Inv` adds to `TypeOK` and
  the properties that a thread of an older generation has ended, that whoever is
  in a section under the control lock holds it, and that the restart count of a
  thread in its loop is within the limit. `HandlerInv` and `ThreadInv` carry what
  all steps of a handler and of a watch thread have in common, so that each
  action only shows what is particular to it. The heart is `FinalizeInv`: the
  event that is set belongs to the only thread that can be alive. Two more results
  are what requests and stops end by: `LockInUse`, the converse of `LockInv` (a lock
  that is held has its holder in the section), and `ToldWindsDown`, an action
  property with a measure, `WindDown`: nothing takes a stop back, and each step of a
  thread that was told to stop brings it nearer to its end.
* `CrawlSyncProofs` (`CrawlAssumption`). `Inv` adds to `SyncedMeansStored` the
  types it needs (`Shape`), `Bounded` (posts and progress are at most `highest`,
  so that a reply is always above the progress) and `VisitInv`: what a visit saw
  of the stream up to the number it saw is all there is, and while it fetches,
  every post it saw that still exists is stored, is still in `missing`, or
  belongs to a topic the budget cut. `BudgetHolds` has an account of its own,
  `BudgetInv`: what was spent and what is left of a visit are within the
  allowance, and a refused topic is neither visited again nor listed in the
  cycle, so that a refusal adds one budget at most. `FirstOfFew` bounds what
  `FirstOf` takes, by the greatest element of a set (`GreatestOf`). `TypesHold` takes
  the types from `Inv`, and those of the budget, when there is one, from `BudgetInv`:
  that what is left is never negative is a fact of the account. Why posts arrive:
  nothing stored is lost and no progress is taken back (`ProgressGrows`, which
  rests on `Newer`: while a visit fetches, the progress of its topic is behind what
  it saw), a post that is missing is never hidden by the progress
  (`NothingIsHidden`, from `Inv`), and every batch is of some posts, so that a visit
  runs out of them (`VisitsEnd`, with the least element of a set, `LeastOf`).
* `RequesterSessionProofs` (`SessionAssumption`). `Inv` adds `Held` (a token sent
  has the login in use, a handler holds verified tokens), `Fresh` and `RetryInv`
  (in a call that nothing disturbed, no hint is stale and the retry has a good
  CSRF token from the answer to the headers). One lemma per part, one step per
  action. That an answer cannot undo an update rests on `Held`: updates need the
  lock, which a request keeps from sending to merging the answer. That it does not
  keep it for ever is `RequestsAdvance` and `RetriesBounded`: inside the lock each
  step ends the request, is a counted attempt, or goes from the request to the
  challenge and on to the request that is sent again; attempts are bounded when
  `max_retries` is not 0. `AttemptStep` goes through all the ways out of the loop.

* `PluginHooksProofs` (`PluginAssumption`). `OnceKept` and `LimitKept` compare a
  history with what the backend holds, so the invariant says how far the backend
  may lag: `OnlyCurrent` (the one hook that was not told to stop is the one that
  is waited for), `Sound` (what a hook is about to do it may do), `KeptInv` (a
  request is in `done`, or the hook that made it owes the record) and `LimitInv`
  (a count is at most one behind, by the request of one hook). Two hooks alive
  cannot both owe, which is why reading before and writing after a request is
  enough. `ForfeitInv` and `MoveInv` are the two kinds of step. `LateHooksBounded`
  has an invariant of its own: late hooks since the last restart are at most the
  failures counted (`LateInv`), and a plugin that is waited for is below the
  breaker (`BreakerInv`).
  `TypesHold` needs that a history count does not fall below zero when a request is
  written off (`OwedInv`: a hook that owes a record has made a request that counts).
  `SortedIsOrder` says that the sorted list exists and is what `sort_topics` returns,
  for any number of topics: the place of a topic is the number of those ahead of it,
  places differ, and an injection of a finite set into as many numbers is onto, so no
  induction is needed. `TopicsInOrder` states it of the steps.
* `CommandsProofs` (`CommandsAssumption`, `AuthAssumption`, `TransferAssumption`). `LockInv`: a command
  from `TakeLock` to `Release` holds the crawl lock. `SaveInv`: a save that has
  begun holds the lock of the state file, and the file is as it was read; then
  `EndInv` says that what is written is what the saves have set path by path,
  without what was removed. One lemma per kind of step (`QuietStep`, `BeginStep`, `LeaveStep`).
  `ImportConverges` needs no invariant: each mode is idempotent.
  `SnapshotsStay` is about a store that several processes write and a bundle that
  an interrupted export leaves in pieces. `BundleInv` says of whatever holds tables,
  the store (`RowsInv`), the bundle (`DirInv`), an export under way (`ExportInv`) and
  an import under way (`ImportInv`), that no topic is without its snapshot: what was
  written so far of a bundle that is not `mixed` is what one transaction read, and
  each import mode preserves it. `TypesHold` splits the types by who writes them
  (`LifeTyped`, `FilesTyped`, `RowsTyped`, `DirTyped`); the types of what an import makes
  rest on `ImportInv`, and those of what a save writes on `SaveInv`.
* `WatchLoopProofs` (`LoopAssumption`). `NapInv`: the loop sleeps until what
  `DelaySecs` said, no window opens before, and the loop is outside of all of them.
  That needs what the arithmetic of windows means: `AllowedIsInside`,
  `NextStartBounds`, `NothingMissed` and `SleepIsRight` go from the minutes of
  `_next_window_start` to `Allowed` and `FirstAllowed`, which walk round the clock,
  for any length of an hour and of a day and any set of windows of the form that
  `utils/config.py:354` lets pass. `DeliveryInv`: what a poll holds is unread on
  the site and in order, so that a note is sent again only when the failure that
  kept it from being recorded, or the process whose memory held the only record,
  was counted; whatever the site marks was sent.
  `CycleInv`: the open record and the rows closed add up to what was sent.
  `NoneForgotten` adds `PollInv`, which says where each notification of a page is
  while a poll has met no failure: sent before, to be sent, or sent.
* `StoreProofs` (`TablesAssumption`, `PostgresAssumption`, `SqliteAssumption`). The
  module extends `PostgresStore` and `SqliteContract` and instantiates `SqliteStore`, so
  that the lemmas on tables and statements (`OneCell`, `TwoCells`, `RowCells`: what a
  statement makes of each cell) serve both; a theorem about one of them says nothing
  of the other, they share variables in name only.
  PostgreSQL: a call can be seen half-way by threads that share its transaction, so
  `Inv` says what holds of the view after each statement: `Books` (what the total is
  ahead of the days is what the `inc_stat` under way still owes them), `Shelf` (only
  the topic of the `upsert_topic_detail` under way may lack its snapshot) and
  `ViewKeys` (the version a thread has seen is still there). `AloneInv` says that
  without mixing an open transaction is that of one call; with a failure and mixing
  a half can be committed, which `WholeUnlessMixedAndFailed` excepts because the code
  lets it happen. One lemma per action.
  SQLite: `After(c, i, ..)` says what the first i statements of a call make of each
  cell. `SqliteWork` says that the open transaction is what is `settled` after the
  statements of the one call that has the lock, through refusals and retries, and
  `SqliteTxn` that without such a call it is what is settled. `CarriedIsAfter`: all
  statements of a call come to what it is to carry out, for a list of any length;
  `LeftIsAfter`: those before the last come to one of the parts it may leave. For the
  topics both need that the version seen before the transaction is the call's own
  exactly when the row's is (`SeesRow`, `SeenVersion`), which no other thread's
  statements, committed or left, can change (`WorkOnTopics`). The refinement follows:
  a commit is `Write`, a query `Read`, the last refusal or an unstorable value
  `Raised`, and every other step stutters (`AtomicStep`). `HolderRuns` and
  `CallsAdvance` are what `CallsEnd` rests on: the lock has a holder that is in a
  call, and a call goes on with its next statement or is refused at its first, so
  that a retry repeats nothing.
  PostgreSQL again, while calls do not overlap (`PostgresIsAtomicAlone`): `Halfway`
  says what the first statements of a call make of each cell, as `After` does, and
  `OutcomeIsHalfway` that all of them come to its `Outcome`. `SoloInv` says that, unless
  calls have overlapped, the open transaction holds the committed tables after the
  statements of the one call under way (`SoloCall`), that the version seen is the one
  committed, and that nothing is under way in an aborted or lost transaction but what
  will fail. Then a commit is `Write`, a query `Read`, the exception `Fail`, a loss of
  the connection at the commit `CutOff` (`SoloCutOff`), and the rest stutters.
  `AbortedTransactionsEnd` is about overlapping calls too: a failure that aborts the
  shared transaction has a thread that will roll it back.
  The types of both need that the table of topics holds versions, blanks or nothing
  (`Typed`, which every statement preserves), for what a call reads there is a
  variable (`key`); that a call is not tried a fourth time follows from the guards.

Only model-checked: the properties under fairness and ENABLED, which the prover
does not reach (`CallsAnswered`, `StopEndsWorker`, `StopsEventually`,
`RequestsEnd`, `PostsStoredEventually`, `UpdateApplied`, `HookWaitEnds`,
`CallsEnd`, `NotesDelivered`). For most of them the part that is safety is proved,
and only the step from there to "eventually" is TLC's: `WorkerSleepsIdle` and
`WaitingIsServed` for `CallsAnswered`, `ToldThreadsEnd` for `StopsEventually`,
`LockHeldInUse` for `RequestsEnd`, `ProgressGrows`, `NothingIsHidden` and
`VisitsEnd` for `PostsStoredEventually`, `RetriesBounded` and `RequestsAdvance` for
`UpdateApplied`, `NoneForgotten` for `NotesDelivered`, `SqliteLockInUse` and
`SqliteRetriesRepeatNothing` for `CallsEnd`. Every safety invariant, action property and
refinement of a passing run is proved, and so is the `TypeOK` of every component.

## 5. Not modelled, and the plan

Not modelled for good: parsing of arguments, requests and configuration but for
what section 2 names; logging, messages and text formatting; bodies of the
forum's answers; loading and validating plugins; the status document and the
counts and lists behind it; the one-shot flows, which are one or two calls each.

Left out of modelled components: the spacing of requests, proxies and
`cf_clearance`; which timings are posted; `on_load` and hooks without a topic;
key-value data of plugins beyond the stores' calls; errors in single rows of a
bundle and transfers of a PostgreSQL database; several threads of one process
that take the crawl lock; fatal errors that end the server.

Next: a composition of controller, crawl and queue.
