# Bitcoin Experimental Engine: a TLA+ model

BEE runs machine-learning experiments on BTCUSDT candles. A Flask API stores an
experiment in PostgreSQL and puts a job on a Redis/RQ queue; a worker process
takes the job, trains and backtests one model per parameter permutation, and
writes logs and a status; the API lists, cancels, retries and deletes
experiments while all of this happens. A Next.js site drives the API: wizards
that compose an experiment or a blueprint, pages that show what comes of them,
and the administration. This directory models both sides and checks and proves
what must hold of them.

Paths below are relative to `src/backend/app/` or, when they begin with `views/`,
`lib/`, `components/` or `app/` followed by a `.ts` or `.tsx` file, to
`src/frontend/`.

## 1. Inventory

| Component | State | Operations | Interacts with | What makes it correct |
| --- | --- | --- | --- | --- |
| Job queue (`infrastructure/redis/job_queue.py`, `services/queue_service.py`, `services/job_metadata_service.py`) | RQ lists, registries and job hashes; `experiment_job:<id>` keys | enqueue, remove, stop, look up, list active jobs, expiry | API (calls), worker (through RQ) | a job executes at most once and never after its removal; a lookup does not miss a live job |
| Worker (`workers/experiment_worker.py`) | the job and the control point of a process | validate, mark running, execute, mark completed or failed | queue, repository, executor | it only runs committed experiments; its marks respect what the owner did |
| Executor (`executors/`) | permutation index | pipeline, `check_cancelled`, `persist_logs` | repository | a completed run has all its logs; a cancelled one stops soon |
| Experiment API (`controllers/experiment_controller.py`, `job_controller.py`, `strategies/experiment_cancellation_handler.py`) | what each request has read | create, list/detail refresh, cancel (two routes), retry, delete | queue, repository | no decision on a stale read does damage |
| Repository and unit of work (`repositories/`, `infrastructure/database/`) | rows, transactions | `mark_*`, add, delete | PostgreSQL | a deleted or rolled back row never returns |
| Market-data catch-up (`controllers/market_data_controller.py`) | thread, stop event, status, lock | start, stop, clear, run | cache service | one thread at a time; a stop is honoured; the final status is true |
| Market-data cache (`services/market_data_service.py`, `infrastructure/binance/kline_client.py`, `repositories/market_data_repository.py`) | candle rows | refresh, page, discover gaps, upsert | Binance | gaps are exactly the missing minutes; paging skips nothing |
| Blueprint lifecycle (`services/versioning_service.py`, `controllers/blueprint*_controller.py`) | blueprints, versions, approval state | create, edit in place or as a copy, submit, approve, reject, disapprove | repository, the blueprint pages | no submission is undone; lineages have no gaps; what was submitted stays as it was |
| Accounts (`controllers/user_controller.py`, `authentication_controller.py`, `services/session_service.py`, `access_control_service.py`) | users, roles, sessions | register, login, logout, change role, disable, delete | Redis, repository, the pages | nobody changes an account without the right to it as it was when the endpoint read it |
| Settings (`services/system_settings_service.py`, `controllers/system_controller.py`) | stored values, ring of events | read, save, record | system page | a save is whole or nothing |
| Compiler, validator, splits, trading strategy | none (functions) | compile, split, backtest | executor, API | agree with their definitions at the boundaries |
| Indicators, targets, metrics, exports | none of interest | numeric code, queries | | outside a model checker's reach |
| Experiment wizard (`views/ExperimentWizardView.tsx`) | a draft, its messages, answers under way | nine steps of edits, checks, a submission; a list and two dialogs | experiments, blueprints, market data, model endpoints | what is sent was checked, and is what was shown |
| Blueprint wizard (`views/BlueprintWizardView.tsx`) | a configuration, two catalogues | toggles, edits, four checked steps, creation | blueprints, catalogue endpoints | the same |
| Experiment page (`views/ExperimentDetailView.tsx`) | the last answer, a terminal, a leaderboard | poll, cancel, retry, delete, page, sort, select | experiment endpoints | what is selected stays in view when rows come and go |
| Lists and rankings (`views/ExperimentListView.tsx`, `PublicHubView.tsx`, `BlueprintsLibraryView.tsx`, `ModelsRankingsView.tsx`, `FavoritesLibraryView.tsx`, `DashboardView.tsx`, ...) | a query, rows, loads under way | filter, sort, turn pages, build rules, star | list endpoints | rows are those of the query; a star is the server's |
| Pages that decide (`views/BlueprintDetailView.tsx`, `BlueprintModerationView.tsx`, `JobListView.tsx`, `JobDetailView.tsx`) | a state shown, requests | submit, approve, reject, disapprove, cancel | approval and job endpoints | no state is shown that never was |
| Price chart (`components/charts/`) | candles, a drawn series | reload, load older, change interval, redraw in place | market data endpoints | the series is the candles |
| Administration (`views/SystemManagementView.tsx`, `UserManagementView.tsx`) | inputs, rows, dialogs, two timers | save, start, stop, clear; change accounts | settings, catch-up, account endpoints | as above |
| Sign-in and navigation (`lib/auth/`, `lib/routes/nav.ts`, `views/LoginView.tsx`, `RegistrationView.tsx`) | the user shown, the page, forms | ask, log in and out, register, go to a page | authentication endpoints | the user shown is signed in; links lead where they say |
| Documentation, model page (`views/DocumentationView.tsx`, `ModelDetailView.tsx`) | a document's blocks; a model | search, read; work figures out | | no line is lost; figures agree |
| Theme, landing page, breadcrumbs, widgets | none of interest | drawing | | not modelled |

What is hard here: jobs become visible before the row they name is committed;
handlers read a status, talk to Redis for several calls, and write without
reading again; the worker overwrites whatever status it finds; processes die;
a stop command is not acknowledged; keys expire; retries reset a row after the
new job is already in the queue. On the site: answers come in any order, to
questions that the page no longer asks; a form is checked before it changes
again; what a page shows, and the buttons it offers, are older than the server;
effects and timers overlap with clicks. `PROJECT.json` lists each hazard at its line.

`src/archive` and `src/docs/fyp2` hold reports and an older prototype; they are not
part of the program.

## 2. Modules

| Module | Models |
| --- | --- |
| `JobQueue` | `RedisJobQueue` and the RQ records behind it: `job` (status and payload of each RQ job), `mapping` (the `experiment_job:<id>` keys), `stopping` (stop commands under way). |
| `ExperimentLifecycle` | extends `JobQueue`: `row` (status and logged permutations of each Experiment row), `worker` (job, control point and loop index of each process), `req` (what each API request has read). One action per step of `handle_experiment_job`, of the executor's loop and of each route. |
| `AtMostOnceExecution` | the abstract promise: a job waits, is executed at most once by one worker, and is settled for good. |
| `LifecycleProperties` | safety, the inductive invariant, fairness, liveness, the refinement mapping, and the claims of docs and tests that fail. |
| `RunProperties`, `LookupProperties` | the same system with observer variables that no action reads (late permutations, deleted logs, undisturbed experiments; jobs visible throughout a lookup). |
| `LifecycleProofs`, `RunProofs` | the machine-checked proofs: of the lifecycle, and of the properties with observers. |
| `MCLifecycle`, `MCRuns`, `MCLookup` | instances for TLC. |
| `CatchUp` | the catch-up of the candle cache: `thread` (`_run_catch_up_until_current` and its locals), `status`, `stop`, `cache` (the minutes with a row) and `clearing` (a clear request between its check and its deletion). |
| `CatchUpProperties`, `MCCatchUp` | its properties with two observers, how its scan is a `Survey`, and the instance of the claims. |
| `GapDiscovery` | the loops of `discover_missing_btcusdt_1m_ranges` and `_merge_ranges` over a cache that changes between two queries: what `CatchUp` takes for a set of minutes. |
| `GapProperties` | its properties with an observer of what each query found missing, and the refinement of `Survey`. |
| `Survey` | the abstract promise of a discovery: look at the time asked for from beginning to end, then tell the minutes that lacked a candle when they were looked at. |
| `KlineFetch` | `refresh_btcusdt_1m`: the pages of `fetch_klines`, their retries, and the upsert, while the market trades. |
| `MCMarketData` | the three parts of the candle cache, of which a behaviour follows one, as an instance for TLC. |
| `MarketDataProofs` | the proofs about all three. |
| `BlueprintVersions` | `row` (one owner's blueprints: content, state, version, parent) and `req` (what each edit, submission or decision has read). |
| `VersionsProofs`, `MCVersions` | its proofs, and the instances for TLC. |
| `ExperimentWizard`, `BlueprintPicker`, `TargetPreview` | the experiment wizard: the draft with its steps, checks, late answers and submission; the list and the preview of the blueprint step; the target dialog. |
| `BlueprintWizard` | the configuration of a blueprint, its checks against a catalogue that may be replaced, and its creation. |
| `ExperimentPage` | loads of one experiment read and answered at different times, the user's actions, the terminal, leaderboard, risk chart and round log. |
| `PageLists`, `RankingFilters`, `Favourites` | ten pages and cards that load rows; the filter builder and what the server makes of its rules; favourite buttons. |
| `DecisionPages` | the blueprint, moderation and job pages against a server that checks, then writes, and that others change. |
| `PriceChart` | the chart's requests and the series drawn in place. |
| `SystemPage`, `UsersPage` | the administration with the settings service and the account endpoints. |
| `Registration`, `Session` | opening an account; the provider, guards, navigation, login and logout. |
| `Documentation`, `ModelPage` | the document reader, line by line; the figures of a model. |
| `Pages`, `MCPages` | the site: one page is open, every other state rests. Its instance for TLC. |
| `Maps` | two operators on functions: one overriding another, and one entry put. |
| `UsersProofs`, `AnswersProofs`, `FormsProofs` | the proofs about user management and the session; about pages that show answers (lists, chart, stars, decisions, documents, results); about pages that send what was composed (wizards, dialogs, filters, settings). |
| `PagesProofs` | the site implements each of these pages, and so has their properties. |

**How a step is chosen.** A step is one transaction (`UnitOfWork`) or one Redis
call. PostgreSQL runs at READ COMMITTED and no query locks rows, so a handler
that reads in one transaction and acts in the next is several steps and keeps
what it read in `req`. A `mark_*` method loads a row and writes `Status` if it
differs; it linearises at the write (or, when nothing changes, at the load) and
is one step. Retry's transaction spans its Redis calls: the read, the enqueue
and the mapping are steps of their own, and the statements after them (delete
the logs, reset the row, commit) are one step; a log committed between that
DELETE and the COMMIT would survive in the database and is wiped in the model.

**What RQ does** is external and modelled from how the repository uses it: a
worker takes a job off its list (`Dequeue`), then registers it as started
(`Register`); between the two the job is on neither. A handler that returns
files the job as finished; one that raises has retries left the first time
(`Retry(max=2, interval=[30, 120])`), so the job is scheduled; a stopped job is
not retried; a job whose worker died stays registered until RQ's clean-up
schedules it. `worker.work()` in `run_worker` starts no scheduler, nothing else
in the repository does, and a scheduled job therefore never returns to a list
(with a scheduler, it would execute up to three times). For the same reason an
RQ status of "failed" is never reached. A stop command for a job that no longer
executes raises, and that request ends in an error. The three priority lists
are one set: no property depends on which waiting job comes first, and which of
several jobs a scan meets first is left open. The status word is taken as the
plain word the repository's test double returns.

**Correspondence with the code.** Each definition's lines are in `PROJECT.json`
under `map`. The control points of a worker (`WorkerPC`) are the statements of
`handle_experiment_job`: `validate` is `_validate_experiment_payload`, `mark` is
`mark_running`, `check` and `persist` are the top and the end of a turn of the
permutation loop, `complete`, `fail`, `return` and `raise` are the ways out, and `result` is what
follows the commit of `mark_completed` inside the handler's `try`: an exception
there, such as RQ's job timeout, still gets to `mark_failed`, and a run that is
Completed becomes Failed. The
control points of a request (`RequestPC`) are the places between two database
or Redis calls of a route: `map_get` ... `fetch` is `_find_experiment_queue_job`,
`reconcile` is `_reconcile_experiment_state`, `act` ... `mark_cancelled` is what
the two cancel routes do with the job they found.

**The catch-up** (`CatchUp`). The start and stop routes hold `_catch_up_lock`
throughout and are one step each; the clear route releases it after its check,
and is two. The thread's steps are the points where it touches something
shared: one query of a discovery, the look at the stop event, the upsert of a
batch, a status report. Minutes are numbered from `DEFAULT_BTCUSDT_1M_START`;
a list of ranges is the set of minutes it covers, since `_merge_ranges` joins
ranges that touch and the loop takes them in ascending order. The exchange may
answer a batch with any candles of it, both ends included, or fail. A thread
that has made its last report is alive until `run()` has returned (`exiting`).

**The cache.** `GapDiscovery` and `KlineFetch` measure time in ticks, so that a
discovery may begin and end, and a chunk end, inside a minute: a discovery ends
"now". A turn of each loop is a step. In `KlineFetch` the candle of a minute is
there from the first trade in it, changes until the minute is over, and is
never there if nothing was traded; its prices are "provisional" until then,
"final" afterwards. All pages of a refresh are stored in one transaction, or
none. Several refreshes share only the cache.

**Blueprints** (`BlueprintVersions`). A handler reads a row and checks it
(`BeginEdit`, `BeginMove`), then writes in the same transaction; the commit is
the step that writes, since rows are locked from the write on and the unique key
is checked there. SQLAlchemy keeps rows by weak references, so `update()` finds
the row that was checked or reads it again (`Reread` may happen or not), and it
writes the columns that differ from what it found (`Flushed`): two requests write
different columns of one row without undoing each other. A new row whose key is
taken rolls the request back (`RollBack`). The only way from one owner to
another's blueprints is the role of a moderator, so one owner's suffice.

**The pages.** A handler, an effect that runs, a timer that fires, and the
continuation of a request are one action each: JavaScript runs each to its end,
and effects that a change of state triggers belong to the action that makes the
change. A request is a record in a set, with what it asks for, whether the page
still owns it (`live`: the clean-up of an effect, or an unmounted page, disowns
it) and how far it has come; answers, failures and lost answers take it out in
any order. The server's part of a request is a step of its own: endpoints that
read and then write in separate statements of one transaction are one step where
nothing else may come between that the property would see, and two where another
user's decision may (`CheckMove`, `WriteMove`; `ServeUserCall`, `CommitUserCall`).
User management reads an account without a lock, checks its role, hashes a password
perhaps, and writes the column that it changes (`Unwritten`, `After`); between the two
an administrator may promote the account. An UPDATE that finds no row, and an INSERT
whose name is taken by then, fail (`Collides`). The server sends the first models of the leaderboard only, and the
page's tables and charts take theirs from there (`Leaderboard`), while what it counts
and names best is of all of them. The shares of the split bar are floating-point
percents: `Unit` of them make one percent, and each sum and difference is rounded by
`Nearest`, of which no more is assumed than that it errs by `Rounding` at most and
keeps to its side of a whole percent (`FloatAssumption`). Operands of a filter are made
into values where the server can (`Legible`), and into nothing where it cannot.
Texts are sets of tokens, dates and candles are numbers, rows are sets of queries answered: what the
properties tell apart. The steps that the server or other users make on their
own (`Work`, `Elsewhere`, `ElsewhereAdministered`, `CacheGrows`, `ThreadEnds`)
allow what the modules of the backend allow, reduced to what the page can see.
Nothing passes from one page to another but through the server, so `Pages` lets
one page run and proves nothing by leaving others out: each starts in every
initial state it has.

**Left out** of the backend: authentication and ownership checks of the experiment routes (they read only), the
progress, stage and timestamp columns, what training computes, Redis errors
while a lookup is under way (list swallows them, cancel answers with an error;
neither changes state), and console logs. `JobMetadataService` caches for one
request only, and so is not state. `max_concurrent_jobs` only refuses creations and retries
before they change anything.

## 3. What is checked

| Run | Instance | Shows |
| --- | --- | --- |
| `Runs` | 1 experiment, 2 jobs, 2 workers, 1 request slot, 2 permutations, all endpoints | `LifecycleInv` (with `TypeOK`), `RunsHaveCommittedRows`, `CancelBoundsWork`, `UndisturbedRunIsWhole`, `NoResurrection`, `UndisturbedPath`, and the refinement `ExecutesAtMostOnce` |
| `Lookup` | 1 experiment, 2 jobs, 2 workers, 2 request slots, 1 permutation, retry/refresh | `ReconcileOnlyAfterGap` |
| `Liveness` | 1 experiment, 2 jobs, 1 worker, 1 request slot, all endpoints, no symmetry | `EventuallySettled` |
| `ClaimCancelled`, `ClaimJobCancel`, `ClaimRetry` | the smallest instance | each a claim of a document or test that the code breaks |
| `MarketData`, catch-up | 4 minutes, chunks of 3, batches of 2, any initial cache | `TypeOK`, `StopBoundsBatches`, `CompletedIsWhole`, `WorkIsReported`, `CatchUpEnds` |
| `MarketData`, discovery | 6 minutes of 2 ticks, chunks of 4 ticks, any initial cache, any two bounds, stores and clearings at any point | the refinement `SurveysTheCache`, `RangesAreApart`, `TotalIsExact` |
| `MarketData`, refresh | 1 refresh at a time, 4 minutes of 2 ticks, pages of 2, 2 attempts | `FetchTypeOK`, `FetchedIsWhole`, `RefreshesEnd`, `RefreshRepairs` |
| `ClaimStopping`, `ClaimClear` | 1 minute | each a message of the code that the code breaks |
| `Versions` | 3 blueprints, 2 names, 2 requests at a time | `SubmittedUnlessDraft`, `LineageIsComplete`, `DisapprovedHasDraft`, `NeverDraftAgain` |
| `ClaimDisapprove` | 3 blueprints, 1 request at a time | a disapproval that a test asserts fails for good |
| `Pages` | every page on a small instance (`MCPages`) | 15 properties, below |

**The properties.**
`RunsHaveCommittedRows`: although a job is visible before its experiment is
committed, no run gets past validation without the commit. `NoResurrection`:
late workers, cancellations, retries and reconciliations never bring back a
deleted or rolled back row. `CancelBoundsWork`: a run persists at most one
permutation while its row stays Cancelled. `UndisturbedRunIsWhole`: a run that
reaches `mark_completed` has logs for every permutation unless a retry or a
deletion removed some meanwhile. `UndisturbedPath`: an experiment nobody
cancels, retries, deletes or reconciles moves Queued, Running, then Completed
or Failed; one that is Completed may become Failed after all, by an exception of its
own run between the commit and the end of the handler, and then has all its logs. `ExecutesAtMostOnce`: the system implements
`AtMostOnceExecution`; a withdrawn job is never executed. `ReconcileOnlyAfterGap`:
the list route fails an experiment for want of a job only if at some moment
since it began to look there was none queued or started: the order of the two
passes of `get_active_jobs` (lists first, registries second) is what makes it
true. `EventuallySettled`: no experiment stays Queued or Running for ever.

Of the catch-up: `StopBoundsBatches`: after a stop request at most the batch
under way is written, although the next report overwrites "stopping" with
"running". `CompletedIsWhole`: when "completed" is reported, no minute of the
range lacks a candle, unless the cache was cleared since the start.
`WorkIsReported`: a thread with work to do shows as running. `CatchUpEnds`: the
thread ends, although what the exchange did not deliver is missing again in the
next pass.

Of the cache: `SurveysTheCache`: a discovery implements `Survey`, so that the ranges it
returns hold a minute exactly if it had no candle when its chunk was read. `RangesAreApart`: none is empty,
outside what was asked for, or touches the next. `TotalIsExact`: the number of
cached minutes reported with them counts each once. `FetchedIsWhole`: paging ends
with every candle the exchange then has in the range, each fetched once. `RefreshesEnd`: every refresh ends, although candles arrive while
it pages. `RefreshRepairs`: what was stored of a minute still under way is put
right by a refresh that begins after the minute.

Of blueprints: `SubmittedUnlessDraft`: the two columns that decide on an edit in
place never disagree, whichever requests wrote them. `LineageIsComplete`: versions
count up from 1 along parents, and a version is made only from a submitted one.
`DisapprovedHasDraft`: whoever's blueprint was disapproved has its next draft.
`NeverDraftAgain`: no submission is undone by a request that read the draft.
That what was submitted never changes, and that a blueprint only makes moves which the
handlers allow, does not hold: an edit that read a draft before its submission
committed changes it in place afterwards; two moderators who both read Pending both
succeed, and the blueprint goes from Approved to Rejected or back, a move the handler
refuses. Section 4 proves that a request which was overtaken so between its check and
its write is the only way to either.

Of the pages, some properties join named parts of several views.
`ChangesWereChecked`: `SubmissionIsChecked` (no way back and forth, and no late
answer, gets an unchecked draft sent), `CreatedWasChecked` (a blueprint created was
checked against a catalogue), `SavesAreWhole` (settings change together or not at
all). `SentIsShown`: `SplitsStayLegal` (boundaries dragged past each other leave
training and test shares that the server accepts; with the two as near as they go,
`(train + 10) - train` may be rounded to less than 10, which the step refuses though it
shows 10, and which is therefore never sent), `LoadedParametersAreItsOwn` (nothing of a
blueprint selected before is sent with the next, and what the review shows is what is
sent; but a next blueprint that has no fields to show is sent with those of the one
before, since the effects at `views/ExperimentWizardView.tsx:1121` and `:1137` return
early), `FiltersAreAsShown` (the server filters by exactly what the inputs show, as far
as it can read it).
`AnswersFitTogether`: `PickerShowsWhatWasAsked` (late lists and previews are not
taken for current ones), `QuietDialogShowsResult` (the target dialog never ends
without a preview or an error), `ResultsStayInView` (rows that a late answer or a
retry takes away leave no empty page or dead selection; the leaderboard has as many
rows as the overview counts, up to its limit of 20, and begins with the model that the
card names best, unless that one's return is exactly zero, which
`controllers/experiment_controller.py:675` sorts as missing, and it did not get in).
`StatesShownWereReal`: `ShownWasReal` (a state shown is one the thing has had) and
`JobGoesForward` (a job never goes back on its page). `ReadingIsFaithful`:
`NoLineIsLost` (each line of a document is in one block) and `FiguresFit` (figures
worked out agree with those they come from: F1 lies between precision and recall, full
accuracy has no false counts, a rate of 0 means no false alarm).
On the lists: `RowsAreOfQuery`: rows are those last asked for.
`EveryLoadingEnds`: "loading" always has the request that ends it.
`StarsAreServers`: with clicks on several items under way, refused and answered in any
order, and the library read again meanwhile, a star whose own request is over is the
server's.
On the chart: `ChartIsOnThePage`: the chart object lives only while its element
does. `SeriesHasTheCandles`: drawn in place or anew, it has the candles.
In administration: `DeedsWereAllowed`: however old the rows and buttons are, what a
moderator's request changes was a user's account when the endpoint read it, and keeps its
role. It may be one of the staff's when it is written: nothing keeps an administrator
from promoting it between the check and the write (`controllers/user_controller.py:281`
and `:311`), and then a moderator disables a moderator, or sets their password. `AuditIsOfTarget`: no trail under another's name.
Signing in: `SignedInIsReal`: a user shown, with all answered, has the session.
`NavigationFits`: a view is rendered for those its requests are answered for, and
no link leads to a page that turns its visitor away. `PagesTypeOK` is the type
invariant of whichever page is open; it also says that the two maps of a blueprint
agree, and that each terminal line appears once.
Exceptions are part of the statements, in the comments above them: the experiment
list hands its flag to `load` by value and so may keep an answer to an earlier
filter; the library catches no failure; a rule with one bound that was an
"equals" is read by its hidden operand, and its second input by nobody; a second click
before an answer, an answer lost after the server acted, and a list that the library
reads between a click and the server's act, leave a star unknown; in the rankings a
failed click puts back the whole list of its moment (`views/ModelsRankingsView.tsx:191`),
and with it items clicked meanwhile, or without items that failed meanwhile: those, and
only those, may be shown wrongly; an expired session is
noticed at the next reload; the moderation page opens for every user; values of
one per cent and less are taken for fractions.

**Findings** (violated on purpose, details in `PROJECT.json`):
1. `CancelledStaysStopped`: `mark_running` and `mark_completed` overwrite
   Cancelled, so a cancelled experiment may run or complete without a retry.
2. `JobCancelMarksRow`: `POST /jobs/{id}/cancel` adds a log with `ModelID` 0 in
   the transaction that marks the row; PostgreSQL's foreign key rejects it and
   the status is lost after the job was already removed.
3. `FailedAttemptIsRetried`: retries are requested and never executed.
4. `StoppingEnds`: a stop request that finds the thread alive after its last
   report leaves "stopping" behind for ever.
5. `ClearWaitsForThread`: a catch-up started between a clear request's check
   and its deletion has its candles deleted under it.
6. `DisapprovalGoesThrough`: once its owner has edited an approved blueprint
   without renaming it, the version that a disapproval would create exists,
   the unique key refuses it, and the blueprint can never be disapproved.

`Registration` has two more disagreements, which no run states: a form turned back
for a fault cannot be sent again when it is corrected (the button is disabled while
messages are shown, and only a submission clears them), and the page takes usernames
of 3 to 32 characters where the server and the documents take 6 to 12.

**Bounds.** One experiment suffices: no two experiments share a row, a mapping
key or a job, and the proofs cover any number. Two jobs are the created one and
a retried one, enough for an old run to overlap a new one, and with two workers
for both to execute at once. Two permutations distinguish the first check of
the loop from the later ones. One slot with two workers (`Runs`)
covers a request against runs, two slots (`Lookup`) requests against each other; the
requests of a slot are sequential, so any mix of routes follows one another.
`Endpoints` names the operations clients call in an instance. Job identifiers
are used up, and Redis keys only expire, so every instance of the lifecycle stops:
`CHECK_DEADLOCK FALSE`. Symmetry (jobs, workers, slots; in `Pages` the items that can
be favourites) is used in safety runs only.
`Lookup` leaves the cancel routes out: a removal
makes a job invisible, which its `watch` observer notices, and the deletion
of a mapping key is the same step as its expiry, which the run has.
Four minutes in chunks of three and batches of two give a gap across a chunk
boundary, a range of more than one batch, two separate ranges and a short last
chunk. One clear request at a time is enough: a second one deletes what the
first deletes.

The discovery has chunks of two minutes and every pair of bounds: a discovery that begins
inside a minute has all its chunks end inside one; six minutes give three gaps and
three chunks, the last one short. It ends, and a refresh may be the last: `CHECK_DEADLOCK FALSE`. The refresh has
ranges of less than a page, of a full page, and of two pages, in the past, across
now and in the future, and minutes without a trade anywhere. It has one refresh at
a time: two would share nothing but the cache, and the rows that a second one
overwrites are a hazard that no document speaks of. `Versions` has three
blueprints because a lineage in which a parent, its copy and the copy of that copy
meet needs three, and two requests because each conflict is between two; it has
one content, which none of its properties reads.

Of the pages (`MCPages`, `Pages.cfg`): two requests under way (three previews of a
target) suffice for an answer to overtake another, and `MaxFetches`, `MaxLoads`,
`MaxListLoads` and the like name that bound. `Token`, `Count`, `Percent` hold a
legal value, an illegal one and those at the limits; `Unit` and `MCNearest` make a
floating point of few digits, in which two boundaries ten percent apart are rounded
nearer; the leaderboard has room for two of three models, one of them with a return of
zero (`LeaderboardSize`, `Zero`); `MCLegible` has an operand that is a number and one that is
a date; `Configs` two blueprints that
permit different values of one parameter, one of them with parameters the other lacks; `MCPagesOf` filters with none, one and
two pages of results; `MaxTime` and `PageLen` candles of one answer and a half, so
that older pages meet a chart; `MCModels` figures from logs, metrics, both and neither,
at 0, at the limit of the units, and above; `MaxLines` three lines, the longest
construct (a table with its separator) and one more. Some parts of a page do not meet:
a behaviour follows one of them (`editing` in the wizard, `watched` on the experiment
page, `card`, `duty`, `desk`, `shelf`), and every one is an initial state. A wizard is
followed until its experiment exists (`MaxSubmits`) and is not edited while its
submission is under way (the page shows a busy button, the draft is already
copied); on the experiment page one of the user's actions at a time is followed, and a retry
beside the risk chart only (`MCRetries`), where the empty list meets filters and a
selection; late answers take rows away from the other parts too. `MaxRules` is 1: no rule
reads another. Two of
the five settings stand for all: one whose range begins at 0, where a blank input
lands, and one whose does not and that has one legal value. `Entry` names the pages a visit may begin with.
Requests and clicks are bounded and some pages come to rest: `CHECK_DEADLOCK FALSE`.

**Fairness** (`Fairness` in `LifecycleProperties`). Weak fairness of a worker
taking jobs and of its steps (`worker.work()` loops for ever), of a request
that was accepted, of key expiry (`ex=result_ttl_seconds`) and of RQ's registry
clean-up. Strong fairness of the refresh of an active experiment:
`src/frontend/views/ExperimentDetailView.tsx` reloads every three seconds
while it is active, and the refresh needs a free request slot, which comes and
goes. Crashes, exceptions, stop commands, deletions and all other requests are
never assumed to happen. Without an open view nothing fails a lost experiment:
the code has no other reconciliation. The catch-up's thread is scheduled and its
calls return or raise (weak fairness of `ThreadStep`); no request, failure,
script or restart is assumed. A refresh (`FairFetchSpec` in `KlineFetch`) is carried
on in the same way: its call answers, fails or is made again. The pages have safety properties only and assume no
fairness: an answer may never come.

## 4. What is proved

`LifecycleProofs` proves, for any sets of jobs, experiments, workers, requests
and endpoints and any number of permutations (assuming only that `NoJob` and
`NoExperiment` are not identifiers and that there is at least one permutation,
which `generate_parameter_permutations` guarantees):

| Theorem | Statement |
| --- | --- |
| `LifecycleInvariant` | `Spec => []LifecycleInv` |
| `TypeCorrect` | `Spec => []TypeOK` |
| `RunsOnCommittedRows` | `Spec => []RunsHaveCommittedRows` |
| `DeletedStaysDeleted` | `Spec => NoResurrection` |
| `ImplementsAtMostOnce` | `Spec => ExecutesAtMostOnce` |

`RunsHaveCommittedRows` is not inductive. A running worker's row keeps its
status only if nobody else may set it to a status without a row, and the only
step that does is the roll back of an open creation: `CreatesAreOpen` says that
such a request works on a row that is still uncommitted, and that it is the
only one. That a worker's job names a row at all needs `JobsNameExperiments`,
and that requests do, `RequestsHaveTargets`. The refinement needs
`WorkersHoldTheirJobs`: a busy worker's job is registered, and no other worker
has it. `LifecycleInv` conjoins these with `TypeOK`; it is preserved by every
action, is also checked by TLC (`Runs`), and gives the theorems. The proof has
one lemma per action or group of actions; the refinement maps a taken, then
registered job to `Execute`, a removed job to `Withdraw`, the end of an attempt
(return, failure, stop, crash) to `Settle`, and everything else to a stutter.

`RunProofs` proves, with the observers in the induction:

| Theorem | Statement |
| --- | --- |
| `CancelBoundsWorkAlways` | `RunSpec => []CancelBoundsWork` |
| `UndisturbedRunIsWholeAlways` | `RunSpec => []UndisturbedRunIsWhole` |
| `UndisturbedPathAlways` | `RunSpec => UndisturbedPath` |
| `ReconcileOnlyAfterGapAlways` | `LookupSpec => []ReconcileOnlyAfterGap` |

`RunInv` adds to `LifecycleInv`: `LateRunsStop` (a run that persisted under a
cancellation stands before its next check, which it will not pass, or has left the
loop), `RunsLogInOrder` (the permutations before the current one are logged unless
logs were deleted under the run), and `CalmRunsFit`: while an experiment is left alone
it has one job, and its status is the place of that job's run; without "one job" another
run could move the status. `CalmRunsAreWhole`: such a run is not without a log, so that one
that fails after its commit has them all. `LookupInv` says that a job visible all the time is among those
seen, or is where the lookup has yet to look (`LookupsSeeAll`): a job leaves the lists
before it enters a registry, the order in which they are read.

`MarketDataProofs` proves, for every length of the range, of a chunk, of a batch and of a
page, any minutes at least a step apart and any contents of the cache (`CatchUpAssumption`,
`GapAssumption`, `FetchAssumption`: the lengths are positive):

| Theorem | Statement |
| --- | --- |
| `CatchUpTypeCorrect` | `ObservedSpec => []TypeOK` |
| `StopBoundsBatchesAlways` | `ObservedSpec => []StopBoundsBatches` |
| `CompletedIsWholeAlways` | `ObservedSpec => []CompletedIsWhole` |
| `WorkIsReportedAlways` | `ObservedSpec => []WorkIsReported` |
| `GapsTypeCorrect` | `ObservedGapSpec => []GapTypeOK` |
| `GapsAreExactAlways` | `ObservedGapSpec => []GapsAreExact` |
| `DiscoveryImplementsSurvey` | `ObservedGapSpec => SurveysTheCache` |
| `CatchUpScansAsSurvey` | `ObservedSpec => ScansAreSurveys` |
| `RangesAreApartAlways` | `ObservedGapSpec => []RangesAreApart` |
| `TotalIsExactAlways` | `ObservedGapSpec => []TotalIsExact` |
| `FetchTypeCorrect` | `FetchSpec => []FetchTypeOK` |
| `FetchedIsWholeAlways`, `RefreshRepairsAlways` | `FetchSpec => FetchedIsWhole`, `FetchSpec => RefreshRepairs` |
| `StoresOnlyAskedAlways` | `FetchSpec => StoresOnlyAsked` |

`CatchUpInv` adds what an induction needs. `BatchHasWork`: a batch under way
has a minute to refresh and is in the first two passes; with the lemma that a
non-empty set of naturals has a least element it bounds the batch. `Discovered`:
in the third pass, what lies before the cursor and is not listed as missing has
a candle; no step but a clear takes it away. `StopSeen`: a batch that is about to
be written has none written after the stop request.

The properties of a discovery hold of its result only, so `GapInv` says what holds before
it: `Scanned` that minutes before `next` are covered exactly if they were missing, and
that those between `next` and the cursor await their turn or were missing; `Merging`
that the merged and the unmerged ranges cover the missing minutes between them, the
former before the latter; `Counted` that the count is that of the minutes read. That
the scan's ranges never touch makes the merge a copy; it is proved of the merge as it stands.

**From ticks and loops to sets of minutes.** `CatchUp` takes a query of a discovery as one
`Scan` that adds the missing minutes of a chunk to a set, and a refresh as a step that
stores some minutes of the batch. Three theorems say that this is what stands behind it.
`DiscoveryImplementsSurvey`: a chunk that `GapDiscovery` reads is a `Look`, the turns of its loops
are stutters, its return is a `Tell` of exactly the minutes the merged ranges hold, and
what others do to the cache is a `Change`; `Counted` gives that it returns at the end of what it
was asked for, `Merged` that the ranges hold what was missing.
`CatchUpScansAsSurvey`: a `Scan` is a `Look` of the same module. It needs that a
pass that scans has not come to its end (`ScanGoesOn`), or a look could be at nothing.
`StoresOnlyAskedAlways`: a refresh writes no row outside its range, since it never has one
and its cursor never lies before the range (`KeepsToRange`), as `CatchUp` has it of its batches. `GapsAreExact` and these two step properties
hold by the proofs; the run has `SurveysTheCache`, which says the first.

`FetchInv` says where a refresh is: every row it has lies before the cursor, every candle
that the exchange has before the cursor has a row (`Paged`), also at the end for the
minutes that were over when it began (`Fetched`),
rows of minutes that were over when it began are final, and the count is the number of rows,
which needs the cardinality of a disjoint union at each page.

`VersionsProofs` proves, for any blueprints, names, contents and requests under way
(assuming only that `NoParent` is no identity):

| Theorem | Statement |
| --- | --- |
| `SubmittedUnlessDraftAlways` | `Spec => []SubmittedUnlessDraft` |
| `LineageIsCompleteAlways` | `Spec => []LineageIsComplete` |
| `DisapprovedHasDraftAlways` | `Spec => []DisapprovedHasDraft` |
| `NeverDraftAgainAlways` | `Spec => NeverDraftAgain` |
| `MovesAreLegalUnlessOvertakenAlways` | `Spec => MovesAreLegalUnlessOvertaken` |
| `SubmittedIsImmutableUnlessOvertakenAlways` | `Spec => SubmittedIsImmutableUnlessOvertaken` |

What a request has read may be old, so the invariant cannot say that it is the
table's; `ReadIsBehind` says how far apart they may be: the version is the
table's, and what was seen submitted still is. This is enough because columns are
written one by one. The last two theorems say of every step what overlapping requests may do
at worst: a move that the handlers refuse, or a change of what was submitted, is made by
a request that had checked the blueprint in another state than it is in by then
(`Overtaken`), an edit one that had seen a draft. They need that a request to move a blueprint
has seen it in a state that allows the move (`MovesWereChecked`).

**The site.** `PagesProofs` proves that the site implements the specification of each of
sixteen pages (`PagesImplementUsers`, `...Lists`, `...Chart`, `...Favourites`, `...Decisions`,
`...Session`, `...Wizard`, `...Filters`, `...Blueprint`, `...System`, `...Picker`,
`...Preview`, `...Results`, `...Registration`, `...Docs`, `...Model`): a step of the site is a step of that page or
leaves it alone. What is proved of a page by itself therefore holds of the site, for any
accounts, filters, results, candles, items, blueprints, catalogues, models and documents
and any number of requests under way:

| Theorem about the page | On the site | Property |
| --- | --- | --- |
| `DeedsWereAllowedAlways` | `PagesDeedsWereAllowed` | `DeedsWereAllowed` |
| `AuditIsOfTargetAlways` | | `AuditIsOfTarget` |
| `SignedInIsRealAlways` | `PagesShowRealUser` | `SignedInIsReal` |
| `NavigationFitsAlways` | `PagesNavigationFits` | `NavigationFits` |
| `RowsAreOfQueryAlways` | `PagesShowRowsOfQuery` | `RowsAreOfQuery` |
| `LoadingEndsAlways` | `EveryLoadingEndsAlways` | `EveryLoadingEnds` |
| `ChartIsOnThePageAlways`, `SeriesHasTheCandlesAlways` | | `ChartIsOnThePage`, `SeriesHasTheCandles` |
| `StarsAreServersAlways` | `PagesShowServersStars` | `StarsAreServers` |
| `DecisionsShownWereReal` | `PagesStatesShownWereReal` | `StatesShownWereReal` |
| `PickerShowsWhatWasAskedAlways`, `QuietDialogShowsResultAlways`, `ResultsStayInViewAlways` | `PagesShowLatestAnswers` | `AnswersFitTogether` |
| `SplitsStayLegalAlways`, `LoadedParametersAreItsOwnAlways`, `FiltersAreAsShownAlways` | `PagesSendWhatIsShown` | `SentIsShown`, under `ReuseIsOfBlueprint` |
| `SubmissionIsCheckedAlways`, `CreatedWasCheckedAlways`, `SavesAreWholeAlways` | `PagesChangesWereChecked` | `ChangesWereChecked`, under `MarketSpans` |
| `NoLineIsLostAlways`, `FiguresFitAlways` | `PagesReadFaithfully` | `ReadingIsFaithful` |
| `UsersTypeOKAlways`, `SessionTypeOKAlways`, `RegistrationTypeOKAlways`, and one for each other page | `PagesTypeOKAlways` | `PagesTypeOK` |
| `SettingsStayLegal` | | each setting stays in its range |

None of these is inductive. What each induction needs is a statement about the requests
under way, since any of them may be the next to be answered:
- `UsersInv` ties the rights a request was found to have, and the account as it was read, to
  what was checked of them (`RightsOK`), and the account a live trail is for (`TrailOK`) to the request. `SessionInv`: unless requests raced (`shaken`), one
  is under way at a time, and an answer about the session on its way is still true (`Calm`).
- `ListsInv` adds `OwnedIsWanted`: a load that the page still owns is for what it wants,
  because every change of what is wanted disowns the loads before it; hence only a right
  answer is ever taken (`AnswerIsWanted`). `PickerInv` says the same of searches and
  previews (`PickRequestOK`), and that the option chosen is the blueprint chosen unless
  a reused model is still asked for (`ChoiceOK`).
- `ChartInv` remembers that the candles of the last drawing are those held (`SeriesOK`);
  the lemma `DrawnOverOK` then takes the cases of drawing in place. Its `OneCurrent` and
  `LoadingIsEmpty` give that a reload that is answered is the one that began the loading.
- `FavInv`: until a click is answered the page shows what was asked for and the server has
  what the stage of the request says (`UnderWay`); the list the rankings would put back
  is right about every item but those whose requests were under way with the failed one
  (`OldListIsRight`, `TheyCross`), so that undoing one click can spoil no other item; and the list on its way
  to the library is right about every item that was not being asked about (`ReadIsRight`).
- `DecisionInv`: what an answer brings has been so, and the page of a job, the answer on its
  way to it, and the job are in this order (`JobLags`), which needs that this page asks one
  question at a time (`JobAsksOnce`).
- `ResultsInv`: the page number is within the pages of the rows shown, and the risk chart has
  an active row as soon as there are rows. Its work is in the lemmas: `FirstIsBest`, that the ranking
  has all of the models it is given and begins with the best, that the leaderboard has as many as there
  are, or as it may have, and with them the best unless zeros stand last, and that what a later answer removes
  leaves a page that exists.
- `ReadingInv`: blocks hold lines already read, no two the same line, and no line read is
  missing but the blank ones, fences and separators. The lines that one construct takes end
  at the first line that is not its own, which exists by well-foundedness (`WFMin`): the
  induction over a list that the prover does not offer is replaced by a least element.
- `WizardInv`: a step beyond a check has what the check demands, whatever was edited before
  coming back; `SplitOK`: no
  rounding takes a share further from its bounds than the assumption lets it; `OwnFields`: with
  the configuration of the blueprint there, the parameters are its own, and `Lent`: in any case they
  are of one blueprint. `BlueprintInv` is the same for the other wizard, where a catalogue may be
  replaced between a check and the creation: each field is permitted by one of the two.
  `FiltersInv` says that a rule has an operator of its column, `PreviewInv` that an open
  dialog that waits for nothing has a preview or an error.

`PagesTypeOK` is a theorem of each page first, then of the site: which page is open does not change
(`ViewStays`), and all sixteen keep to their kinds (`EachTypeOK`).
What it says beyond kinds is what took work. A page has no more requests under way than
its bound, a count of a set that actions add to and take from. A line of an experiment's
terminal is printed once: the lines kept are among those seen and only unseen ones are
added, so they are as many as their set, also when the oldest are dropped. The terminal of the
administration shows the newest events as they were at one time, none left out, though the log
grows while an answer is on its way. Of the lists and previews of the blueprint step, the page
owns at most one request each. The two maps of a blueprint have the same keys, whatever is
ticked, dropped and replaced by a catalogue.

`FiguresFit` is proved of the lookups as they stand: the figure found is the first that is
there over the sources in order, so it is of one of them, and its unit is told by its
size. `FiguresOK` says what sources hold: counts are naturals, percentages lie in 0 to 100, fractions in
0 to 1, in hundredths. A logged fraction is excluded (`ModelAssumption`): the worker logs percentages.
The F1 lies between its parts since `2pr` lies between `p(p+r)` and
`r(p+r)`, bounds that an integer division keeps (`HarmonicBetween`); a share is whole only if
nothing is missing of it (`WholeShare`), and one that is rounded up is 0 only if it is nothing (`RoundedUpShare`).

**Hypotheses.** Two theorems have one beside the assumptions on the constants, and the
proofs do not go through without them for a reason:
- `MarketSpans`: the cache has more than one candle. With exactly one, a "Use defaults" whose answer
  comes after the check of the second step sets start and end to the same minute, and an
  experiment with an empty range passes the later steps; the server then refuses it
  (`validators/experiment_validator.py:59`).
- `ReuseIsOfBlueprint`: the parameters of a reused model are parameters of its blueprint.
  `experiment_compiler.py:140-143` takes any override key where the blueprint
  constrains nothing, so a stored model might have one that the page does not know.

Both hold in the instance that TLC checks. The assumptions on constants say what the code's
tables have (`Ranking` orders the executed models, a model with a
positive return before the others, rounding is as described in section 2, an empty
search finds a document, there is a blank form, the wizard's default strategy is one of
the strategies, a reused model is of an option of the list or of none, inputs can be
empty, answers have codes of HTTP, documents have finitely many lines, other accounts are finitely many) and are
evaluated by TLC with every run that extends them.

**Written so that it can be proved.** `Ranked` (the leaderboard's order) is stated as the model that has
i models up to its place instead of as a filtered sequence, `Over` and `Put` take the
place of nested overrides, and dispatches on a kind are IF chains where the arms of a CASE
would overlap: TLC takes the first arm, the logic leaves it open.

`FalsePositiveRate` is rounded up to a hundredth (only limits from above are set on it): rounded
down, one false positive among more than ten thousand negatives would be a rate of 0, which the page,
whose division is not rounded, does not show.

**Only model-checked.** Every invariant and every safety property of a passing run is a theorem, the
ones about the site for any number of accounts, rows, lines and requests. What TLC alone checks:
- Liveness (`EventuallySettled`, `CatchUpEnds`, `RefreshesEnd`): beyond the proof system. The
  fairness they assume is in section 3.
- The six claims that the code breaks: a counterexample is their proof.
- What the hypotheses above exclude: TLC checks `SentIsShown` and `ChangesWereChecked` in an
  instance that satisfies them, and no more.

## 5. Plan

In order of importance; each with an abstract statement of what it promises.

1. *Done:* `JobQueue`, `ExperimentLifecycle` and their proofs.
2. *Done:* proofs of the properties with observers.
3. *Done:* the market data (`CatchUp`, `GapDiscovery`, `KlineFetch`) and its proofs.
4. *Done:* the pages, their composition, and the proofs of every safety property they have,
   the type invariants among them.
5. *Done:* `BlueprintVersions` with its proofs.
6. *Done:* `Survey`, the abstract discovery, implemented by `GapDiscovery` and taken by `CatchUp`.
7. Open: a list and the picker as one register that shows the last question's answer.
8. Open: `RowColumns`, the columns of one row under concurrent transactions.
9. Open: pure algorithms (trading strategy, splits, compiler permutations).

**Not modelled.** Indicators, targets, scaling, architectures and metrics: floating
point and libraries. Exports and the queries behind the lists: they read and format.
Theme, landing page, breadcrumbs, navigation bar, tables, charts' drawing and all
markup: they show what the modelled state says. `src/archive` (a prototype that
nothing of the program imports) and the scripts of the container images. Two registrations meeting at a
unique key on the page that registers, and the last administrator's demotion: the code leaves the
one to the database and does not treat the other.
