# AEGIS Mission Control: TLA+ specifications

AEGIS Mission Control is a Qt 6 desktop program: QML views, controllers on the
GUI thread, and services that talk to files, child processes, HTTP servers, the
keychain and libgit2.  This directory models the parts of it whose correctness
depends on order: what happens when calls, replies, timers, cancellations and
crashes interleave.  Every action is one handler of the source;
`PROJECT.json` names, for each definition, the lines it stands for.

1. [The system](#1-the-system)  
2. [The modules](#2-the-modules)  
3. [The runs](#3-the-runs)  
4. [Fairness](#4-fairness)  
5. [The proofs](#5-the-proofs)  
6. [Where code and documents disagree](#6-where-code-and-documents-disagree)  
7. [What is left out](#7-what-is-left-out)  
8. [Plan](#8-plan)

## 1. The system

Two kinds of concurrency exist.  The **GUI thread** runs an event loop: slots,
continuations (`QFuture::then(this, ...)`), timers and network signals each run
to the end before the next one starts, and a signal between two objects of that
thread is a direct call.  The **global thread pool** runs what services pass to
`async::run`; it shares memory with the GUI thread and needs locks.  Everything
else is the outside world: replies, processes, the keychain, other programs.

| Component | State | Operations | Interacts through | Hard behaviour | Correct when |
|---|---|---|---|---|---|
| Calendar store, controller, atomic file | a JSON file; `mutex_`; `loading_`, the list model, `pendingDeleteId_` | load, create, update, remove; refresh, confirm delete | pool workers, queued `changed`, continuations | concurrent read-edit-write, write errors, kill between steps, refresh dropped while loading | no write lost, damaged file never replaced, each call answered, the list catches up |
| Provider quotas (`ProviderManager`, seven fetchers, `UsageController`) | `m_cache`, `m_fetchedAt`, `m_pending`; per fetcher counters; `loading_` | refresh, done/failed, each reply | direct signals; replies and a CLI in any order | count-down with exactly one report per fetch, joins, caching, a process without deadline | a round ends and is published whole |
| `HttpClient` (`RequestOperation`) | attempt number, buffer, forced error, three timers, promise | request, abort, retry, finish | reply signals, timers | timers against late replies, retry against stale state, the byte cap | the body is whole or an error, in bounded time |
| `GatewayService` | connection state; per stream reply, buffers, `cancelledStreams_`, forced errors | get, beginStream, cancelStream, postJson | keychain, HTTP client, signals | cancel while waiting for the credential, overlapping status requests | one end for each stream; the state is not stuck |
| `CreativeService`, `CreativeController` | `results_`, `gatewayRequestIds_`, `cancelledRequests_`, Ollama tables; `busy_`, `requestId_`, `output_`, `outputBuffers_` | generate, cancel, chunks, finished, failed | gateway signals, queued start | replacing a running request, cancellation at every stage | one end each, no stale text, nothing left over |
| `SecretStore` | keychain jobs | read, write, erase, has | asynchronous jobs | late answers, a locked keychain | a flag shows what is stored |
| `ConfigService`, `SettingsController` | an INI file; the pending edits; two access flags | getters that reset invalid values, setValue, save, reset | pool worker for the save; keychain for credentials; `settingsApplied` | getters that write, a save on another thread, restart, partial save | nothing invalid is kept, an applied save is stored whole and followed |
| `MemoryController`, `MemoryService` | roots, list, selected file | setRoot, selectFile, refresh, reconfigureRoots | pool workers | answers without an identity overtake each other | what is shown belongs to what is selected |
| `GitController`, `GitService` | `busy_`, status, pending confirmation; the repository | status, stage, unstage, commit, pull, push | pool, keychain, confirmations | staged set re-checked before the commit, pull in steps | only what was confirmed is committed |
| `OpenClawCli`, agent, cron and model controllers | `loading_`, lists | run, listAgents (two joined calls), toggle, runNow, setActive | child processes with deadlines | refresh dropped, mutation against refresh | no view goes back to an older list, every spinner stops |
| Packages | `loading_`, list, filter | refresh, filterBy | child process | the same | the same |
| Samplers (vitals, containers, processes), `SystemStats` | a running sample, the previous counters, a timer | start, stop, tick, refresh | pool, processes | single flight against a timer that keeps ticking | one sample at a time, rates from consecutive samples |
| `AgentRoster`, `ContainerList` | polled lists | refresh, setSource | HTTP replies, a child process | overlapping polls, a runtime that hangs | what is shown is an answer that came |
| `PathGuard` | none | create, resolve | file system | links that leave the root | every result is inside the root when it is resolved |
| `AppContext`, `AppController` | owners, the 30 s health timer | wiring, refreshAll | signals | overlapping health checks | |
| DTOs, models, QML, errors, logging, `MonitorConfig` | values | conversions, presentation | | | |

The hazards this gives rise to are listed in `PROJECT.json`, each at its line,
with the properties that would notice it going wrong.

## 2. The modules

    AtomicCalendar  <-- refinement --  Calendar    <- MCCalendar, CalendarProofs
    Rounds          <-- refinement --  Usage       <- MCUsage, UsageProofs
                                       HttpRequest <- HttpRequestProofs
    CreativeRequests <- refinement --  Creative    <- CreativeProofs
    AtomicGit       <-- refinement --  Git         <- MCGit, GitProofs
    Settings <- extended by --         Memory      <- MCMemory, MemoryProofs
       ^-- SettingsProofs, used by MemoryProofs
    Snapshots       <-- refinement --  Lists
    Parts <- Lists, Samplers, Access <- composed -- Dashboard <- MCDashboard, DashboardProofs

### Calendar (`calendar_store.cpp`, `calendar_controller.cpp`, `atomic_file.cpp`, `async.h`)

A mutating call goes `free -> queued -> editing -> returned -> posted -> settled`.

| Action | Code |
|---|---|
| `CreateEvent`, `UpdateEvent`, `DeleteEvent`, `ConfirmDeleteEvent`, `Refresh` | the controller's invokables; `Queue` is `async::run` |
| `ReadForEdit` | take `mutex_`, `loadLocked`, cap or lookup, validation, edit the copy |
| `Reject` | any early return before the write; `Readable` is the success of `loadLocked`, `Accepts` the cap or the lookup; validation is data and may fail for any draft |
| `WriteBack`, `WriteFails` | the two ends of `AtomicFile::write`; on success `changed` is queued while the mutex is still held |
| `PostAnswer`, `PostLoaded` | the future finishes and its continuation is queued, which is later than `changed` |
| `ReadForView` | `load()`, one critical section |
| `OnChanged`, `OnLoaded`, `OnAnswer` | the GUI thread takes the head of its queue |
| `CrashRestart` | the process is killed; only the file survives |

The mutex shows in the split between `ReadForEdit` and `WriteBack`: other calls,
the view and a crash may come between.  An event is represented by the call that
last wrote it, because all properties ask only *whose* write is visible.
`Weight` gives each text a size, so the file's size can differ from the number
of events.  `DeleteEvent` takes any id, as the code does: the view asks only for ids it shows, the
invokable does not check.

`AtomicCalendar` is what the store promises: a map from ids to writers, changed
by whole calls.  `Calendar` refines it with `applied <- {c : ok[c]}`; a read taken outside the
mutex, a write without a temporary file or a second effect of one call is not a
behaviour of it.

### Usage (`provider_manager.cpp`, `usage_controller.cpp`, `services/providers/*`)

A fetcher is modelled by its *style*: how many replies or processes it waits for
and in what order.  `Refresh` is `UsageController::refresh` with all of
`ProviderManager::refresh`, including the fetchers that answer inside `fetch()`
(no credentials, or xAI's local files).  `ReplyFinished`, `TokenFinished`,
`JoinLegFinished` and `CliExited` are the `finished` slots, each with the manager
slot and the publication it leads to.  `left` is Xiaomi's own counter and is
kept apart from the number of open replies, so that the two can disagree.
`age` counts clock ticks and saturates at `Lifetime` (five minutes).

`Rounds` is what the page promises whatever the fetchers do: a round asks every provider that
is due and no other, each answers once, the cards change only with the last answer
and all at once, and no round begins in another.  `Usage` refines it with
`held <- cache`, `waiting <- pending`; the counters, legs and styles are not seen there.

### HttpRequest (`http_client.cpp`)

One `RequestOperation`.  `StartAttempt` is `startAttempt`, `HandleFinished` is
`handleFinished` with the retry decision, and `MetaDataChanged`, `ReadyRead`,
`Finished` and `TimedOut` are the slots.  `QNetworkReply::abort()` emits
`finished` before it returns, so an abort runs `handleFinished` in the same step.
The clock restarts with each set of timers, `elapsed` does not.  A due timer
fires before the next tick.  `Destroy` deletes the client: the promise is
dropped, which finishes the future as cancelled without a result.

### Creative (`creative_controller.cpp`, `creative_service.cpp`, `gateway_service.cpp`, `app_context.cpp`)

A request goes `new -> queued -> (token ->) open -> over`, or `new -> refused ->
over`.  Because signals between these objects are direct calls, an action is one
event of the loop with the whole chain it starts: `End` drops the request from
the service's tables and runs the controller's slot (`OnEnd`) in the same step.
`Generate` includes the `cancel()` it makes when the controller is busy.  The
gateway's own table of streams is indexed by stream ids that stand one to one
for requests, so the request names both.  Configuration getters reset an invalid
key and still fail that once, which decides whether a stream can start; `badKeys`
are the keys that are invalid now.  `Check`, `CheckToken` and `CheckDone` are the
status request that AppContext sends every 30 s, overlapping if it is slow.

`CreativeRequests` is the promise to whoever holds a request id (SPEC.md:725):
chunks, then exactly one of `finished` and `failed`, silence after an accepted
cancellation, and `cancelled` as its only end.

### Git (`git_controller.cpp`, `git_service.cpp`, `git_file_model.cpp`)

Stage, unstage, commit, pull and push each run on a pool worker over a repository they
open themselves, without a mutex, so every read and every write of shared
state is a step of its own.

| Action | Code |
|---|---|
| `Refresh`, `StagePath`, `UnstagePath`, `ConfirmCommit`, `ConfirmRemote` | the controller's invokables; `RefreshAt` is the test of `busy_` |
| `LoadIndex`, `WriteIndex` | stage and unstage: read and change a private index, write the whole file |
| `CheckStaged`, `WriteTree`, `ReadParent`, `CreateCommit` | `GitService::commit` from the comparison with the declared paths to `git_commit_create` |
| `Fetch`, `UpToDate` or `FastForward`, `MoveBranch`, `Checkout` | `GitService::pull`; the branch moves before the files are checked out |
| `Send` | `GitService::push` |
| `Refuse`, `Fail` | every early return: at the remote or the keychain, or locally |
| `ReadStatus`, `OnStatus`, `OnChanged`, `OnAnswer` | the status call, its continuation, `repoChanged`, and the continuations of the calls |

A branch is the sequence of its commits, a file one of the contents a
property can tell apart.  libgit2 is external and modelled by what it promises:
`git_reference_set_target` and `git_commit_create` refuse if the branch is no
longer what the caller read, a safe checkout may write any of the clean files and none
of the others, and a push without `+` only moves the remote branch forward.
`repoChanged` of a call reaches the controller before its answer.  A status is read
in one step, and whether it failed is decided when it is delivered.  An unstage takes
its tree from the branch in the step that reads the index.

`AtomicGit` is what the two branches promise: commits, pulls and pushes come one at a
time.  A commit puts one commit on the tip and a push delivers the whole branch, each in the moment
it succeeds and at most once; a pull moves the branch forward to something the server has, and
succeeds only with all the server had when it asked.  That the branch may move although the
pull fails (at the checkout) is part of it, because the code does that.  `fetched`, in both modules,
is history: the server's branch when a pull asked.

### Settings (`config_service.cpp`, `settings_controller.cpp`)

The process has one map of the INI file: every `QSettings` object of it, on
whatever thread, reads and writes that map, and any `sync` writes all of it.  So a
save on the pool (`Validate`, then `WriteKey` once for each key in the order of
`SettingsSnapshot::values()`, then `Sync`) is seen key by key by the getters of
the GUI thread.  A getter that refuses a value resets it in a second access:
`Refuse` and `InvalidAndReset` are two steps, the worker may write in between,
and the GUI thread does nothing else (`GuiFree`).  A value is the default,
another valid one or bad; a value of `openclaw.binary` or
`packages.queryCommand` is valid while the program it names is installed, which
changes (`Install`).  `Restart` ends the program at any point, rereads the file,
in which a boolean has become text, and resets what the getters refuse.

### Memory (`memory_controller.cpp`, `memory_service.cpp`, `path_guard.cpp`, part of `app_context.cpp`)

Extends `Settings`.  A call takes the root's directory from the settings when it
is made, goes `queued -> listed | failed` or `queued -> resolved -> opened -> read | failed`
on a pool thread and is answered in any order; `OnAnswer` applies it to whatever is selected by
then, as the code does.  An entry is a name in a directory, and `target` says which canonical file it
leads to *now*: others move links, remove a file or put a link in its place (`Exchange`), and
append to it (`Grow`).  `Resolve` is `PathGuard::resolve`; `Open` is `QFile::open`, which looks the path up again
and may find nothing, or something else; `ReadAll` measures what was read.  `moved` is history:
that the file a call had resolved was exchanged before it was opened, the window that
REVIEW_FROZONE.md:150-156 (W3) describes.  `SetRoot` reads the roots twice, for the check and for the list, and a
save may write them in between (`Between`).  `Listing` matches the entries' own names, as `QDirIterator`
does, not those of what they lead to.  `Announce` is the whole slot chain of a save's
answer: `settingsApplied`, `reconfigureRoots` and the restart of the vitals timer.
`switch` and `alone` are history: that a call is the first of a newly chosen root,
and that nothing else was outstanding then.

### Dashboard (`Parts`, `Lists`, `Samplers`, `Access`)

What AppContext puts side by side.  A behaviour has the parts of one of `Setups`;
`Spend` bounds what users and the outside do to them.

* `Lists`: agents, cron jobs, models and packages.  A call runs one child, or two
  (listing agents, choosing a model): `Start`, then the child's own steps `Act`,
  `Emit` and `Exit`, and the reading loop's `Collect`, `Deadline` and `Finish`; the
  continuations are `Malformed`, `NextLeg`, `OnActive`, `OnListed` and `OnAsked`.  A
  list stands for the version of the world its rows were read from and that of the state they show.  Both
  children of listing agents look outside: the first lists them, and what the second one reads of the sessions
  overwrites status, `activeSessions` and `lastSeen` (`applyAgentSessions`), so the two versions may differ.
  `Snapshots` is what a view promises: one request at a time, and the list shown next was outside at some moment
  between the request and its answer; for a view in `Halved` (the agents) the rows are of one such moment and the
  state of the same or a later one.  `asked` is history, the version outside at the request.
* `Samplers`: `Tick` and `RefreshSample` start a sample unless one is running,
  `TakeSample` is the worker (`Counted`, `Missing`, `Unreadable`), `Deliver` the
  slot.  A counter has lives: an interface that is created again, a process
  id that is given away.  `since` is history, what was really counted.
* `Access`: the keychain's queue, the two access flags, `has()` asked again after
  a successful update.
* `Dashboard`: all of them together with `RefreshAll`.

## 3. The runs

| Run | Instance | Question |
|---|---|---|
| `calendar` | 2 calls, one with a longer text, 1 stored event, cap 2, limit 2, 1 crash | Is a write ever lost, an unreadable file replaced, a call unanswered, the list wrong for ever? |
| `calendar_lost_refresh` | 2 calls, texts of one unit, no crash | Does each completed write lead to a list that shows it? (No.) |
| `calendar_too_large` | texts of two units, limit 3 | Can the program always read what it wrote? (No.) |
| `usage` | MiniMax, Xiaomi, Gemini, xAI; lifetime 2 | Does the count-down match what is running; is a round whole; are fresh entries left alone; does a refresh end? |
| `usage_hung_cli` | three fetchers, no fairness for the CLI | Do the code's own deadlines end every fetch? (No.) |
| `http` | timeouts 1 and 3, delay 2, cap 3, 2 retries, chunks up to 4 | Are bodies whole, timers fair and the total time bounded? |
| `http_total_deadline` | 1 retry | Is the total timer a deadline for the call? (No.) |
| `git` | 1 file, 2 calls of any kind, 1 push by somebody else, index as checked out | Is a commit or an edit lost, an answer untrue, the view left busy? |
| `git_undeclared` | 2 files, 2 calls | Does a commit contain only what was confirmed? (No.) |
| `settings` | roots, vitals interval, package command and reduceMotion; 1 initial file, edited by hand; 3 acts of users and the outside; 2 roots; 3 layouts of 3 entries | Does a bad value stay, a save lie, the browser show what it must not, a service stay behind, a save hang? |
| `dashboard` | each list, sampler and the keychain alone or in pairs; 2 or 3 acts; output up to 2 with a cap of 1; counters modulo 8 | Is output cut, a rate wrong, a list put back, a view left waiting? |
| `creative` | 2 requests, stream cap 2, 2 overlapping status requests, flawed configuration | One end each, nothing left over, only the current text, no stuck state? |

**What the properties say.**  `HolderIsCurrent`: the holder of the store mutex is
about to write its own edit of what is on disk *now*.  `UnreadableKept`: the store
is changed only while it can be read, neither malformed nor above the read limit.  `AtomicStore`: the refinement.  `EveryCallSettles`:
every queued call is answered, also on error paths and after a kill.
`LookingShowsFile`: given a user who refreshes now and then, the list cannot differ from
a readable file for ever.
`PendingIsRunning` ties `loading_`, `m_pending`, the open replies and Xiaomi's
counter together; `QuotasComeInRounds` is the refinement of `Rounds`; `FreshLeftAlone`
says that an entry younger than the lifetime, errors included, is not fetched or changed.
`WholeBody`: a delivered body has all bytes of one successful attempt and no
more than the cap.  `OnlyLateIsCut`: a timer aborts only what is late by its own
attempt's clock.  `TimeBounded`: `(MaxRetries + 1) * TotalTimeout + MaxRetries *
RetryDelay`.  `NoLeftovers`: each table holds exactly the requests at the stage
it is about.  `ShownIsCurrent` and `BusyWithCurrent`: the output is all of the
current request's text and nothing else, and busy lasts exactly until its end.
`ConnectingEnds`: a state left at "connecting" is corrected by a later status request.
`AtomicBranches`: the refinement of `AtomicGit`; with it neither branch ever loses a commit.
`NoEditLost`: an edited file is overwritten only if some commit of the branch holds the edit.
`AnswersTrue`: a commit is on the branch exactly if it was reported, a
successful pull has brought in what it fetched, a successful push has delivered.
`BusyEnds` and `LocalCallsSettle`: what still ends while a server says nothing.
`ValidStored`: after the start no stored value is one its getter would refuse, programs aside.
`AppliedIsStored`: a save that answers success has each field, as it was at the click, in
the map and in the file, whatever getters and the user did meanwhile; programs aside, whose values a getter
may overwrite (`config_service.cpp:397`).
`NoSilentDivergence` (violated): a `changed` that was posted leads to a list that is the file, if it can be read.
`ServicesFollow`: after such a save the browser's root and the vitals timer are those stored.
`ShownWithinRules`: content was within the cap *when it was read*, also if the file grew after it had been checked,
and is that of a Markdown file inside its root wherever links are pointed between the click and the read.  The
one exception is a call marked `moved`: without it TLC finds the exchange of W3 (`SelectFile`, `Resolve`, `Exchange`, `Open`,
`ReadAll`, `OnAnswer`).  `CleanSwitch`: after a change of root made while nothing
was outstanding no answer of another root shows; the condition is needed, since answers
carry no mark.  `SaveEnds`: every save is answered.
`WholeOutput`: a call succeeds only with all its child printed, within the cap.  `RateTrue`: a
process shows what *this* process has used since it was last sampled, an interface never more than
that; `SystemStats` subtracts unsigned without looking for a restart, so the property says of it
only what holds without one.  `ListsAreSnapshots`: the refinement of `Snapshots`; with it a view
never goes back: the next list was read after all of the one before.
`ViewsSettle`: every spinner stops, and a token that is stored is shown as stored.

**Bounds.**  Two mutating calls are enough for a lost update, a lost refresh
(load, write, dropped signal) and the cap (one stored event and two creates);
the crash can fall between any two steps.  One provider of each style covers all
pairs of styles; a single-reply fetcher is a MiniMax without a token.  A cap of
three units and chunks of up to four reach every side of the cap test, before and
after a first chunk; two retries give an attempt that is neither first nor last.
Two requests give every order of a replaced and a current one, and a chunk cap
of two gives a text that has grown when it is cut.  Two git calls are every pair of
kinds at every stage of each other; `MaxReads` is one more than the calls, and
each status call but the first needs the answer of a call to start, so the bound is never met.
`MCGit` (`IndexedSpec`) starts from an index that agrees with the files, edited or not (staged from the start or
clean); other starts are reached by `EditFile` and an unstage, and `GitProofs` has
no such restriction.  (Three requests pass as
well, at ten times the states.)
Three acts in `settings` are enough for an edit, a save and one more of anything: a second
save, a restart, a click, a file that grows or is exchanged.  Four keys give one of each sort and the
order of writing; the file of `MCFiles` is configured in one key and has bad values in the others, and a
reset that is saved gives the fresh one.  Each root has a file, and one of them a link: `MCLayouts`
points the link within the root and out of it, or puts a link in place of the file itself.  All entries are
Markdown files there, so the clause about Markdown is left to the theorem.  A text that is longer in
`calendar` puts a file of two events on each side of the read limit.  The parts of `dashboard` share
only the event loop, so they are looked at one or two at a time;
two clicks on a list with changes make up to four overlapping calls, and `Cap` below `MaxOutput`
puts an output on each side of the cap.  Three acts on a sampler are growth, a restart
and growth again, between samples that may succeed, fail or miss it.  The histories `asked` and
`fetched` follow from the steps and bound nothing.  The theorems of section 5 remove these bounds
for the safety properties.

Deadlock checking is off in `http`, `creative`, `git`, `settings` and `dashboard`: a request that is over
stays over, and after the last request, check, call or act nothing has to happen.  Each property
of a passing run has a mutant, a plausible slip in one definition under which
TLC finds that property violated.

## 4. Fairness

* `Calendar!FairSpec`: weak fairness of each worker, the loader and the event
  loop.  The pool has at least four threads and runs every task; every path
  through a critical section frees the mutex (this is what `EveryCallSettles`
  tests); the GUI loop turns.  `LookingSpec` adds weak fairness of `Refresh`:
  the user looks again.  Users and crashes owe nothing else.
* `Usage!TimedSpec`: weak fairness of each network reply only, because
  `IProviderFetcher` arms an abort after 10 s for each of them.  `FairSpec`
  adds the CLI, an assumption about a foreign program; `usage_hung_cli` runs
  without it.
* `HttpRequest!FairSpec`: timers fire and time passes.  The network has no fairness
  at all: it may be silent for ever.
* `Creative!FairSpec`: queued lambdas run, the keychain answers, the 300 s
  timer of a stream fires (`TimedOut`), and status requests go on (AppContext's
  timer, and the bounded time of `HttpRequest`).  Frames and successful ends are not fair.
* `Git!FairSpec`: the workers' local steps, status calls and the event loop.  The keychain and
  the server owe nothing, because `GitService` sets no deadline; that local calls go
  on while others wait relies on a free pool thread (two calls, at least four threads).

* `Memory!FairMemorySpec`: the save's worker and a getter's second access go on.  Strong fairness of
  `Announce`: the watcher's slot is a posted event, the loop takes events in order, and a getter that
  another event runs in between only delays it.  Users, files and programs owe nothing.
* `Dashboard!FairSpec`: pool workers (with the deadline of `OpenClawCli::run` and `PackageService`,
  without which a silent child would hang), the slots, `TakeSample`, `Deliver`, and the keychain's
  jobs.  Children, timers and users owe nothing: a spinner stops also when no timer ever fires.

## 5. The proofs

TLAPS checks these for every value of the constants that satisfies the module's
named assumption.

| Theorem | Says |
|---|---|
| `CalendarProofs`: `TypeCorrect`, `NoLostUpdate`, `UnreadableIsKept`, `Refinement`, `NothingIsForgotten`, `OnlyBytesStopTheStore` | `Spec` implies `[]TypeOK`, `[]HolderIsCurrent`, `UnreadableKept`, `AtomicStore`, `[]NothingForgotten` and `[]OnlyBytesStop` for any number of calls, stored events, crashes, any cap and any text sizes |
| `HttpRequestProofs`: `TypeCorrect`, `BodyIsWhole`, `RequestTimeBounded`, `TimersCutOnlyLate` | `[]TypeOK` (with it the cap), `[]WholeBody`, `[]TimeBounded`, `OnlyLateIsCut` for any timeouts, cap, retries |
| `CreativeProofs`: `TypeCorrect`, `NothingLeftOver`, `CurrentIsShown`, `BusyIsCurrent`, `Refinement` | `[]TypeOK`, `[]NoLeftovers`, `[]ShownIsCurrent`, `[]BusyWithCurrent`, `PromiseKept` for any number of requests and overlapping checks, any cap and any flawed keys |
| `GitProofs`: `TypeCorrect`, `NoCommitIsLost`, `AnswersAreTrue`, `NoEditIsLost`, `Refinement`, `BusyAlwaysOwed` | `[]TypeOK`, `NoCommitLost`, `[]AnswersTrue`, `NoEditLost`, `AtomicBranches`, `[]BusyIsOwed` for any number of files, calls and foreign commits, and any initial index |
| `UsageProofs`: `UsageTypes`, `PendingRuns`, `RoundIsWhole`, `FreshIsLeftAlone`, `Refinement` | `[]TypeOK`, `[]PendingIsRunning`, `[]PublishedWhole`, `FreshLeftAlone`, `QuotasComeInRounds` for any providers of any styles and any lifetime |
| `SettingsProofs`: `SettingsTypes`, `StoredIsValid`, `AppliedIsInFile` | `[]TypeOK`, `[]ValidStored`, `[]AppliedIsStored` for any keys, orders of writing, initial files and numbers of acts |
| `MemoryProofs`: `MemoryTypes`, `MemoryStoredIsValid`, `MemoryAppliedIsStored`, `ShownIsWithinRules`, `ServicesDoFollow`, `SwitchIsClean`, `SettingsRunAlone` | the same two of `MemorySpec`, `SettingsAsAlone`, and `[]MemoryTypeOK`, `[]ShownWithinRules`, `[]ServicesFollow`, `[]CleanSwitch` for any roots, trees, ways in which others rearrange them, and numbers of calls |
| `DashboardProofs`: `DashboardTypes`, `OutputIsWhole`, `RatesAreTrue`, `ViewsNeverGoBack`, `Refinement`, `NoLostSpinner` | `[]DashboardTypeOK`, `[]WholeOutput`, `[]RateTrue`, `NeverOlder`, `ListsAreSnapshots`, `[]SpinnersAreOwed` for any setups, budgets, caps, outputs and word size |

Each proof module follows the same line: an inductive invariant `IInv`, one
lemma per action (or group of actions) that preserves it, `IInvHolds` by
induction over steps, and the theorems as consequences.  Why `IInv` is more than
the property:

* **Calendar.**  The refinement needs that a create's id is new, hence that every id
  on disk came with the file or from a call that already succeeded, that a
  call in the middle of an edit has passed its cap check or lookup *on the
  present file*, and that it has no result yet.  The last holds because the mutex
  excludes other writers, which is `HolderIsCurrent`.  `UnreadableKept` needs besides that a store an edit was
  read from can still be read when the edit is written (`EditsReadable`).
* **HttpRequest.**  `TimeBounded` needs the time spent by earlier attempts:
  with `attempt` attempts made, `elapsed` is at most the full cost of those before
  plus the running attempt's clock, which stays within the active timer's deadline.
  `WholeBody` needs that buffer and delivered bytes agree while no error is forced.
* **Creative.**  The mapped steps need the tables and the stages to agree
  (`NoLeftovers`), the controller's buffer to hold what the service's result
  holds, and the requests to be made in order, so that a new one has neither a mark
  nor an end.
* **Git.**  `Fits`: the stage of a worker fits its call.  `Reported`: a commit found on any
  branch, wherever it was copied to, was reported as made.  `Landed`: what a call has
  put on a branch is still there; it holds because branches only grow, which is in
  turn proved from the order of a pull's two ends.  `NoEditIsLost` then follows because a clean
  file's content is in the commit the checkout started from.

* **Usage.**  Each provider's open replies fit its style, and Xiaomi's `left` is their number
  (`LegsFit`); a pending provider is not fresh, so no answer touches a fresh entry; cards are there for all
  providers or none, and in a round everybody who is not pending has an entry (`WholeInv`).
* **Settings.**  While a save writes, what it has written is in the map, and a getter
  that is between its two accesses has refused a program key: no other stored value is ever
  invalid, so its reset cannot meet the worker's write.  That is why `AppliedIsStored` holds for the
  other keys and not for program keys.
* **Memory.**  The settings' invariant, because `ServicesFollow` needs the stored roots to be valid; `AloneIsDone`,
  that a call made alone has only answered calls before it.  Then all answers that may still
  come after a clean change of root are of its directory.  `ShownWithinRules` needs what a call has
  established at each stage (`CallFits`): a resolved path is that of a Markdown file in the root and leads to
  itself, because it is canonical, until it is exchanged; so what `Open` finds there is that file or the
  call is marked.  Links that move do not matter to it, which is what resolving first and opening the canonical path
  buys, and what opening the path asked for (`OpenAsked`) loses.
* **Dashboard.**  `OneList`: a view has at most one list running, exactly while it loads, which gives
  `NeverOlder` together with the fact that what a view shows when it asks is not younger than what the answer has seen.
  `SinceLast`: the counter is what was kept of the last sample plus what was counted since, in the same
  life, or just what was counted, in a new one.

**Refinements.**  Five detailed specifications implement an abstract one: `Calendar` (`AtomicCalendar`),
`Creative` (`CreativeRequests`), `Git` (`AtomicGit`), `Usage` (`Rounds`) and `Lists` (`Snapshots`).  Each proof has
the same three parts: initial states map to initial states; under the inductive invariant each step
maps to a step or a stutter, by one lemma per group of actions; the two are combined over `[][Next]_vars`.
What the steps need of the invariant:

* **Git.**  `CreateCommit` appends to *the branch there is*, because libgit2 compares the parent the worker read;
  `MoveBranch` goes forward, because the branch is still the one the merge analysis saw; a pull that is up to date,
  and one whose checkout ends long after it moved the branch, still has all it fetched (`Landed`).
  A call succeeds at most once because its phase has left `queued`.
* **Usage.**  A report is an `Answer` only because a provider whose leg ends is pending (`LegsFit`), and the last
  answer shows all cards only because everybody not pending has an entry (`WholeInv`).  A refresh is one `Begin`
  whatever part of the fetchers answers inside `fetch()`.
* **Lists.**  An answer lies between request and present because every child of it looked outside after
  the call was made, the second not before the first (`CallFits`), and the request is the one the view waits for
  because of `OneList`.

**What liveness rests on.**  The provers cannot do liveness, but the step that usually breaks it is a safety
property, and those are proved: `NothingForgotten` (a mutex is held only by a call that will write, a
queued answer is in the queue exactly once, so nobody waits for nothing), `BusyIsOwed` (a busy view has a status
call or a confirmed call outstanding), `SpinnersAreOwed` (a view that waits has exactly a list call, a sampler's
controller a sample) and `PendingIsRunning`.  What is left to TLC is that what is owed comes.

`OnlyBytesStop` is the other side of the finding `calendar_too_large`: a store that
was not damaged from outside is unreadable *only* above the read limit.  Its proof needs no sum over the events
(`Bytes` is a fold, about which nothing can be proved by induction here), only that every write keeps the number of events
within the cap, by the cardinality lemmas of the library.
`SettingsAsAlone` says that the composition with the memory browser and the timer gives the settings no
behaviour they do not have alone; what is proved of `Settings` is carried over by it.

**Which are also checked by TLC.**  Every theorem whose statement is a property of a run is marked so in
`PROJECT.json` (`property`).  `NeverOlder`, `NoCommitLost` and `PublishedWhole` follow from the refinements that the
runs check in their place.  `NothingForgotten`, `OnlyBytesStop`, `BusyIsOwed`, `SpinnersAreOwed` and `SettingsAsAlone` were checked
on the instances of `Calendar.cfg`, `CalendarTooLarge.cfg`, `Git.cfg`, `Dashboard.cfg` and `Memory.cfg` before they were
proved; no run repeats that.

**Only model-checked.**  The liveness properties (`EveryCallSettles`, `LookingShowsFile`, `RefreshEnds`,
`RequestSettles`, `RequestsEnd`, `ConnectingEnds`, `BusyEnds`, `LocalCallsSettle`, `SaveEnds`,
`ViewsSettle`): liveness under fairness, and with it `ENABLED`, is out of this prover's reach, and so is
what a fold such as `Bytes` computes for every input.  Every invariant, action property and refinement of a passing run is proved.

## 6. Where code and documents disagree

| Run | Code | Document |
|---|---|---|
| `calendar_lost_refresh` | `calendar_controller.cpp:8` drops the refresh that `changed` asks for while a load is running; if that load had read the file before the write, the list stays behind.  A `refresh` that remembered the request and loaded again would keep the property: it holds of `Calendar` changed in that way | SPEC.md:772 "Controllers await results, surface failures, no silent divergence." |
| `calendar_too_large` | `calendar_store.cpp:146` refuses a file above 32 MiB, which 10,000 valid events can exceed; after that every call fails | SPEC.md:325 "Array size cap on the whole store (default 10,000 events) and per-field length caps." |
| `usage_hung_cli` | `gemini_fetcher.cpp:56` starts a process without a timer; if it hangs, so does every refresh | SPEC.md:100 "every `QProcess` call has a kill-after deadline" |
| `http_total_deadline` | `http_client.cpp:125` starts the total timer anew for each attempt | SPEC.md:100 "every network call has a connect timeout and a total-deadline `QTimer`" |
| `git_undeclared` | `git_service.cpp:346` compares the staged set first and reads the index for the tree later; a stage that ends in between is committed unconfirmed | qml/views/GitView.qml:56 "Only the explicitly staged paths will be committed", git_service.h:30 |

Met while modelling and already known to the repository, so not checked again:
two stage clicks that each rewrite the index can drop one path
(REVIEW_FROZONE.md:160), fetch and push have no deadline (SPEC.md:950 promises one), and a memory file can be
exchanged between the check of its path and its opening (REVIEW_FROZONE.md:150-156), which is the exception
`ShownWithinRules` states.
Met as well, where no document says otherwise: a saved reduceMotion is reset at each start
(`config_service.cpp:262` refuses the text an INI file gives back; `Reread`), two selected files, or a change of root that
leaves a call behind, are shown in the order their answers come (`memory_controller.cpp:41`), and a
container runtime that hangs ends the polling of `ContainerList` (`container_list.cpp:57`, the omission
of `usage_hung_cli` once more).

## 7. What is left out

* **Other programs writing the calendar file.**  The mutex is the program's own; there is one
  data root per run of the program.
* **`GatewayService::postJson`** has no caller.  `confirmDeleteEvent` is modelled although no
  view calls it, because it is an invokable; the creative classes are, though in
  this repository only a test constructs them.
* **Chunk slots that call back** into `cancel()`: the line loops of both services hold
  a reference into a table that the abort would change
  (`gateway_service.cpp:306`, `creative_service.cpp:221`).  No slot of the repository does this.
* **The null-manager branch of `startAttempt`**: the first attempt is started by the manager's
  owner, and the retry timer is bound to the manager.
* **Bytes, frames, numbers, texts**: parsing decides between a few outcomes, and
  the models choose among those outcomes.  Keychain answers may come in any order, which
  is more than the keychain's queue allows.
* **Git**: an unborn or detached HEAD, an unconfigured repository, untracked files, an
  empty message (`Fail`), and the window of an unstage between reading the branch's
  tree and the index.  The confirmed calls are modelled as the invokables they are, although no
  view calls them.  Another git program in the same worktree is not modelled.
* **Settings**: the field formats (addresses, numbers, paths) are valid or not.  `memory.maxFileBytes` does not
  change while the program runs: a file is within it or not.  Other programs writing the INI file are not modelled,
  nor is the secret store's `erase`, which has no caller.  `setValue` is called only by `persistValues` and
  by tests.
* **Memory**: path syntax (absolute paths, `..`, NUL) and entries in subdirectories: an entry is one component.
  The look-ups inside one `PathGuard::resolve`, and those of all the entries of one list, are one step each; `list`
  opens nothing and shows names only.  A file that is being read has one size.
* **Lists**: what the lists contain, `filterBy`, and the texts of errors; parsing succeeds or not (`Malformed`, `Finish`).
  A limit or program that is refused is a call that fails at `Start`.
* **Samplers**: values that need no earlier sample (temperature, memory, disks, GPU), and the elapsed
  time a difference is divided by, which is the same for all counters of a sample.  An interval that the settings refuse makes
  `VitalsService::start` do nothing.
* **CodexBar** is compiled but registered by no manager.  **`AgentRoster`** and **`ContainerList`**
  are pollers whose state is the last answer: nothing relates one answer to another, and no document promises an order.
  **`MonitorConfig`** only reads.  **DTOs, item models, QML, errors and logging** are conversions and presentation.

## 8. Plan

Done: the calendar store, the provider quotas, the HTTP client, the creative
requests, Git, the settings with the memory browser, and the dashboard's lists, samplers and
keychain flags, each with its proofs.

What would add most next, in this order:

1. `AgentRoster` and `ContainerList` as a part of `Dashboard`: overlapping polls, the
   rotation through runtimes and a runtime that hangs.
2. `Lists` over a shared deadline clock instead of a nondeterministic `Deadline`, to bound how long a spinner lasts.
3. A refinement of `Memory` to a browser whose answers carry the call they belong to: what such a mark would
   buy, stated as the abstract specification of the panel.
4. The window between the reads of an unstage, and an unborn or detached HEAD, in `Git`.
