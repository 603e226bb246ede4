# Verification of GoExample

GoExample is a Go service framework (`Framework/`) with two services built on it
(`Solutions/Example`, `Services/Billing`), a Next.js management console
(`MSFront/`), and the scripts that test, release and document all of it
(`scripts/`). State that is hard to get right is found in three places:

- in the framework: concurrent request handling, consumer workers, and data that
  several processes share through Redis or a message broker;
- in the console: files and tables that several requests change at once, and
  pages on which clicks, timers, answers and the browser's history interleave;
- in the scripts: directories of evidence, releases and generated clients that
  are written by processes which may stop anywhere, and believed later.

This directory models these parts in TLA+, model-checks them with TLC and proves
with TLAPS the central invariants of the framework's components, of the console's
JSON stores, access management and project repository, and, in the browser, of its
loading displays, session, filters, tabs, project catalog, appearance settings and
administration pages, of the publication of generated clients, of the release of
the server, of the release evidence, and of the contract gate.

Contents: [inventory](#inventory), [modules](#modules-and-the-code),
[runs](#runs), [fairness](#fairness), [proofs](#proofs),
[findings](#findings), [limits](#what-is-only-model-checked-and-what-is-left-out),
[plan](#plan). `PROJECT.json` maps every definition to the lines it models, and
lists each component, modelled or not.

## Inventory

### Outbound calls

| Component | State | Operations | Hard behaviour | Correct when |
| --- | --- | --- | --- | --- |
| Circuit breaker, `httpclient/circuit_breaker.go` | failure count, open time, trial flag, generation | `allow`, `record` around each round trip | answers arrive after the breaker has changed mode | one trial at a time; late answers change nothing; an open breaker can close again |
| Retry transport, `httpclient/retry.go` | none between requests | replay of safe requests with backoff | cancellation during backoff, body replay | attempts bounded, only safe requests repeated |
| SQL client, `sqlclient/client.go` | pool | transactions, retry of serialization failures | commit whose outcome is unknown, failed rollback | no second attempt unless the first one is undone |

A request passes retry transport → breaker → network.

### Queue consumption

| Component | State | Operations | Hard behaviour | Correct when |
| --- | --- | --- | --- | --- |
| Worker group, `queueclient/worker.go` | state word, cancel function, first error, done channel | `Start`, `Shutdown`, `Wait`, `Err`, worker loop, `fail`, closing goroutine | all of them concurrent | one launch, one verdict, nobody released while a callback runs, stop requests stop |
| Reliable delivery, `worker.go`, `natsjetstream/adapter.go` | one delivery per worker, its extender and settlement callback; broker: leases, acknowledgements, dead letters, duplicate window | receive, handle, back off, extend, plan, settle, quarantine | crash between publish and ack, settlement timeout racing the broker, redelivery while the first worker still runs | no message lost, the observer tells the truth, no settlement after a lost lease |
| Lease budget, `MinimumDeliveryLease`, `PreflightConsumer` | a configuration | computation of the least acknowledgement wait | rounding, jitter and timers that restart late | a delivery within its deadlines never outlives its lease |

The worker loop calls the adapter; the adapter owns the settlement callbacks;
the lease budget is the contract between the two.

### State shared through Redis

| Component | State | Operations | Hard behaviour | Correct when |
| --- | --- | --- | --- | --- |
| Lock, `sharedstate/redis.go` | gates with reference counts, owner records; the leased key | `Lock`, `Unlock` | commands late, lost or repeated; lease expiry; crash | a holder owns the key until its lease ends; unlock never frees somebody else |
| Idempotency, `httpapi/middleware.go`, `idempotency_fingerprint.go` | binding of a key, stored response, lock | bind, replay, execute, save | two records with different lifetimes, two lock sections per request | one execution at a time, no response for a different request |
| Refresh families, `auth/session.go`, `sharedstate/session_store.go` | family hashes, used tokens, token mappings, two indexes | start, rotate, revoke family, revoke user, count | replays, repeated commands, old clock readings, lazy cleanup | single-use token chains, a replay ends the family, limits hold |
| Browser sessions, `auth/browser_session.go`, `sharedstate/browser_session_store.go` | session, id, metadata and two indexes | create, read, delete, list, rename, delete all | five keys that expire separately | revoked sessions stay revoked, limits hold |
| Authorization requests, `auth/oidc_flow.go`, `sharedstate/authorization_request_store.go` | one record per state, an index | create, consume | concurrent callbacks | handed out once |
| Rate limit, `Take` in `sharedstate/redis.go` | counter with a time to live | increment | lost expiry, window boundary | at most the limit per window |

Idempotency uses the lock; the OIDC browser adapter (`httpapi/oidc_browser.go`)
calls authorization requests, the verifier and browser sessions in turn.

### Serving

| Component | State | Operations | Hard behaviour | Correct when |
| --- | --- | --- | --- | --- |
| Readiness, `health/checker.go` | cached report, revision, draining, refresh in flight | `Register`, `SetDraining`, `Readiness`, refresh goroutine | refresh that finishes after an invalidation | no report older than the last change is served as fresh |
| Server, `server/http.go` | listener, connections, hijacked set | run, drain, shutdown, forced close | hijack during the final sweep, one budget for all steps | returns, and leaves no connection open |
| Request lifetimes, `httpapi/event_stream.go` | registry of cancel functions | register, replace, unregister, cancel all | stream takes over its request during shutdown | every live request is cancelled at shutdown |
| Key cache, `auth/jwks.go` | keys, time of refresh, refresh gate | lookup, refresh | many requests wait at the gate | no fetch storm, keys replaced as a whole |
| Audit chain, `httpapi/security_audit_chain.go` | sequence, last hash | append, rotate key, verify | a writer that fails after writing | what is accepted verifies |

The server sets draining on the checker, the admission middleware reads it, and
application shutdown cancels the registered lifetimes.

### The console's server, `MSFront/lib/server`

| Component | State | Operations | Hard behaviour | Correct when |
| --- | --- | --- | --- | --- |
| JSON stores, `system-*-repository.ts` | six files: users, roles, menus, policies, APIs and the source of the APIs | create, update, delete, grant, copy, synchronise | a load and a later replacement of the whole file, nothing locks: one request can overwrite what another has just saved, and nothing prevents or reports it | each file by itself keeps its promises, whoever interleaves |
| Access management, `access-management-repository.ts` | roles, users with the permissions stored on them | role and user changes, batch assignment | READ COMMITTED transactions of several statements | a user's permissions follow his roles |
| Projects, `project-repository.ts` | file or table, five-second cache with a shared read | list, summaries, create, update, delete | a read that ends after the write that cleared the cache; a statement that runs although its caller was told it failed | codes unique, a list is stale only where calls overlapped or such a statement ran |

### The console in the browser

| Component | State | Operations | Hard behaviour | Correct when |
| --- | --- | --- | --- | --- |
| Administration pages, `system-*-page.tsx`, `use-fna-list-load.ts` | lists, searches, dialogs, selections, busy flags | the handlers of five pages | answers out of order, a second click during a request, failures half way | a page at rest shows what the server holds |
| Overlay, progress bar, page leave, `fna-page-loading.ts`, `fna-route-progress.ts`, `app-shell` | counters, timers, frames, clones | requests begin and end, navigations begin, commit and end | timers of an earlier navigation firing in the next | nothing stays up for good |
| Tabs, `tags-view.tsx` | open tabs, drag, suppressed paths | visit, close in five ways, drag, reload | the closed tab is still the router's page | tabs follow visits |
| Filters, `use-url-filter-history.ts` and four pages | filters, the address, the browser's history | change, clear, back, forth, load, copy | a flag set by an event and taken by an effect | the address leads to what is shown |
| Project catalog and editor, `project-provider.tsx`, `use-project-management-console-controller.ts` | catalog, selection, what is remembered, drafts | save, delete, choose, refresh | a handler that goes on with the render it was clicked in | the catalog at rest is the server's |
| Session, `auth-provider.tsx`, login form | user, cookie, requests in flight | check, login, logout, refresh, redirection | an answer for an earlier path or user | who is shown is who is logged in |
| Appearance, `fna-shell-settings.ts`, `fna-setting-drawer.tsx`, theme hooks | settings in local storage, theme, drawer, presets, file being read | change, preset, import, reset, theme | several windows, storage events, the system's preference | every window shows the stored settings |

### Releasing, `scripts/`

| Component | State | Operations | Hard behaviour | Correct when |
| --- | --- | --- | --- | --- |
| Evidence, `*-evidence.mjs`, `evidence-verify.mjs`, `evidence-manifest.mjs` | a directory of reports, logs and digests; a manifest | run, verify, record | runs stopped anywhere, runs over the files of earlier ones, edits | accepted evidence is of one run and of the present sources |
| Server release, `server-release.mjs` and its verifiers | release directory, tree, HEAD, attestation | build, verify, reproduce, attest | edits and commits between the steps | a release is of the sources and the commit it names |
| Contract gate, `openapi-compat.mjs` | baseline and edited document | compare, release | compatibility over a chain of releases | old clients are served |
| SDK, `lib/sdk-generation.mjs`, `sdk-release.mjs`, `lib/project-contracts.mjs` | pin, document cache, two generated files, manifest | generate, check, release | the second write fails, edits between the steps | all or nothing; a manifest names one document |

The administration pages call the JSON stores: `AdminPages` extends
`SystemStore`, so each of its requests is a request of that module. The evidence
manifest vouches for the directory that a runner filled and a verifier accepted;
the server's release is one of the things it names.

The remaining parts keep no shared state of their own or are not part of the
running system; `PROJECT.json` lists each with its reason.

## Modules and the code

A component has a module and, where there are theorems, a `Proofs` module. `MC`
modules hold the model values; six of them (`MCClients`, `MCServing`, `MCMiddleware`,
`MCTooling`, `MCFrontend`, `MCClient`) compose parts that share no state. There the variable
`focus`, chosen once, says which part moves, and the others stay in an initial
state: exploring their product would show nothing more.
A definition whose comment begins with
`Fault:` is a deliberately wrong variant of the definition that follows it, kept
to show that a property is sensitive to that mistake; no specification uses it.

**`CircuitBreaker`, `BreakerContract`.** `failures`, `open`, `probeInFlight` and
`generation` are the fields of the breaker; `sinceOpened` is the age of
`openedAt`, saturating at the timeout. `Allow*` and `Record` are the two
critical sections; `phase` and `permit` are the caller's local state between
them. `BreakerContract` is the three-mode breaker as its observer sees it.

**`WorkerGroup`.** One step per atomic access: the compare-and-swap and the
installation of the cancel function are two steps of `Start`, and the check,
the read of the cancel function and the cancellation are steps of `Shutdown`.
A turn of a worker's loop only has an outcome here.

**`ReliableDelivery`, `AtLeastOnce`.** What a turn does. A worker's record holds
its delivery, attempt, plan, settlement callback and extender, which move
independently. Broker calls are sent to `wire`; a caller that gives up leaves
its call there, to be executed later or never. `Crash` empties the workers and
leaves the broker. The broker itself is external and modelled from the
adapter's use of it: leases, deliveries counted against the consumer's
`MaxDeliver`, double acknowledgement, a duplicate window. `AtLeastOnce` is the promise to the application: a message is still kept by the
broker, or was handled, or is stored as a dead letter.

**`DeliveryLease`.** `deliveryBackoff`, jitter and `MinimumDeliveryLease` as
functions of a configuration, and one delivery on a discrete clock whose
handlers, waits and callbacks take any time their deadline allows, under a lease
of exactly the computed length. `MaxDuration` stands for the largest
`time.Duration`; sums beyond it are refused as in the code.

**`RedisLock`, `LeaseLock`.** One key. Gates are addresses that may be allocated
again once unreachable. `SetNX` and the unlock script are commands on `wire`;
a command may be executed after its caller gave up or a second time. A lease may
expire at any moment, so nothing depends on durations. `LeaseLock` is an
exclusive lease that always passes through a moment without holder.

**`Idempotency`.** One key of one route. Lock, binding and stored response count
down; requests have a deadline. The middleware of the web framework is external
and modelled from its configuration and use: look up, lock, look up again,
execute, save, unlock. The lock is represented by what `LeaseLock` promises.

**`RefreshSessions`, `SessionFamilies`.** Each Lua script is one action, taken on
behalf of a command that carries the clock reading of its caller. Keys die at the
time the script gave them; the two sorted sets do not die. An action either
answers its command or leaves it to be repeated. `SessionFamilies` says what a
token chain is: one current token, replaced by a token never seen, and no return
from the end.

**`HealthChecker`.** `revision` and `draining` are atomics that change without the
cache's mutex; a step is one of their loads or stores, or what happens under the
mutex between two of them. `register`, `drainer`, `at` and `refresh` are the places
reached by `Register`, `SetDraining`, each `Readiness` call and the one refresh
goroutine. Checks are external: each succeeds, fails, or hangs until its context
ends.

**`AuditChain`.** `sequence` and `previous` are the sink's fields, `holder` its
gate. The writer below is external: a write may fail after none, some or all bytes
of the line have reached `log`. A digest is the sequence of what went into it.
`Accepts` is the verifier, with the keys it is given.

**`EvidenceFiles`, `SpawnedEvidence`, `CollectedEvidence`, `EvidencePipeline`.**
The first is the vocabulary of the evidence scripts: a directory is a function
from names to contents, a content knows the run that wrote it and whether it was
cut short, a digest is the content. The next two say for each of seventeen
contracts what its runner does, as a list of steps, what its report is built
from, and what its verifier accepts. `EvidencePipeline` runs those lists: a run
executes one step at a time and may stop after any of them (`Crash` also cuts the
file being written), the repository is edited (`EditSource` and others), and the
manifest is written and verified. Which tests a report counts and what a log says
is one bit: the test's result and its report satisfy the contract or not.

**`ServerRelease`.** A task (build, check, reproduce, attest, verify) is a list
of steps over the same tree, HEAD and release directory. Two tasks follow each
other; edits and commits come between any two steps.

**`OpenAPICompat`.** A document is one operation with a parameter, a body, a
response and its credentials. `SchemaCompatible` and its parts are the comparison
in the script; `Valid`, `ValidObject` and `ValidList` are a reference
definition of what a schema means, which is not in the code. The property
relates the two over chains of releases, while the gate compares neighbours.

**`SDKPublication`.** Two processes, each a generator, a check, a release or a
verification, with one variable for every file they share. Git and the file
system may fail; a generation that fails restores what it snapshotted.

**`SystemStore`.** A request is a list of changes. `Load` reads a file and works
the change out, a later step replaces the file; everything in between may
interleave. The operators named after the repository's functions are the
changes.

**`AccessManagement`.** A transaction holds its own writes until it commits. A
statement sees committed rows and its own; writing a row that another open
transaction wrote waits, and `RollbackTransaction` stands for every way to fail,
also for two that wait for one another. The histories `named` and `raced` are
there for the property alone.

**`ProjectRepository`.** Every `await` is a point where the calls interleave. The
cache and its shared read are the module variables of the repository; `late` is
history: a read that ended after a write cleared the cache. A call that fails while
a statement of its own may be on its way (`Writing`) leaves that statement `adrift`;
the database may carry it out at any later time (`StrayWrite`) or never, and a list
read before that is marked `untold`, since nobody will clear it.

**`AdminPages`.** One page at a time. `list` and `view` are what the components
keep in `useState` and refs; `pending` holds the handlers that have not
returned, each with what its closure captured. A load is one request for each of
the page's lists, answered in any order; an effect's cleanup disregards it.

**`PageLoading`.** Module variables of the three helpers and one set of armed
timers and frames, which fire in any order: delays are abstracted, the
generation numbers that tell an old callback from a new one are not. `trip` is where
the router is: a navigation on its way, one that ended on a new path (`over`) or on
the path it began on (`stayed`), or the shell left (`out`). Only a change of the path
ends the bar.

**`TagsView`.** Tabs are paths. Closing the current tab pushes another page; the
router moves later, and the effect that adds a tab for the current page may run
in between.

**`UrlFilters`.** The history is a sequence of entries. A click, a key or a
`popstate` event runs its effect before the next event; the effect of any other
render is `due` for a while, as React leaves it.

**`ProjectConsole`.** The provider, its selection and the editor. A handler keeps
the target, list and catalog of the render in which it was clicked.

**`ClientSession`.** `flights` are the requests of the shell, which carry the
cookie of the moment they were sent; a request whose effect was cleaned up is
answered without being heard. The proxy's redirections are taken from
`proxy.ts`.

**`ShellSettings`.** One record per window beside what local storage holds. A
click runs the handler, the render and its effects in one step, as React does;
storage events, the reading of a file and the commit of a theme come later. Of
the settings those that influence one another are kept. Stored settings can be ones
that do not parse (`Unreadable`) or that have `null` for their header or menu; a
window that renders or paints with such settings is `failed` (it renders without end
and the error page takes its place) or `dead` (the theme's effect threw, and the whole
page with it). `spoilt` is history: such settings have been stored.

## Runs

States are distinct states of the stated configuration, counted by TLC.

| Run | Specification and bounds | Shows |
| --- | --- | --- |
| `clients` | the breaker with 3 callers, threshold 2, timeout 2, generations up to 6; or the delivery of a good and a malformed message by 2 workers, 2 attempts, 2 faults, a delivery limit or none, or of one message with lease extension and 3 faults; or one delivery under a computed lease, all small configurations; 745 thousand states | one trial on the wire, the breaker's contract, an open breaker closes once trials succeed; at most one dead-letter copy within the duplicate window, no settlement without lease, at least once, every message settles after the last fault unless the delivery limit gave it up, which takes a fault for each delivery; the computed lease outlives the slowest delivery |
| `serving` | 2 workers, 2 `Start`, 2 `Shutdown`, 1 `Wait`, 2 errors; or 2 `Readiness` calls, one check that is registered, 2 calls of `SetDraining`; 229 thousand states | one final verdict, a failure or a `Shutdown` that found the cancel function stops the group; whoever is told ready is told so by every registered check and not while draining, and every call is answered |
| `workers_shutdown_race` | 1 of each caller | violation, see findings |
| `lease_margin` | smaller positive margins | violation, see findings |
| `lock` | 2 goroutines of one process and 1 of another, one call each, 3 gate addresses; 194 thousand states | holder owns the key, gates reclaimed, `LeaseLock` implemented |
| `middleware` | a request, its retry, a different request; lifetime 3, overlap 2, timeout 2; or 3 audit writers, one of them refused, 2 keys, 3 lines; 2.3 million states | one execution at a time, own binding outlives the response; an accepted log holds what was acknowledged and at most the line of one failed write |
| `idempotency_replay` | same | violation, see findings |
| `sessions` | 2 families of one user, limit 1, 4 tokens each, history of 2, 2 commands under way, clock to 2, delay 1; 5.1 million states | replay ends the family, limit holds, integrity tests never reject an intact store, `SessionFamilies` implemented |
| `sessions_revoke_user` | inventory limit 1 | violation, see findings |
| `tooling` | any of 17 kinds of evidence with 2 runs and 1 change of the repository, then the manifest; 2 server tasks with 1 edit and 2 commits; 3 contract edits and a chain of 3 baselines; 2 SDK tasks with 2 edits and 2 failing writes; 4.9 million states | accepted evidence is one finished run of the present sources; a verified or signed release is of its sources and commit; releases serve old clients; a failed publication leaves the old files; a manifest names one document |
| `frontend_server` | 2 requests on the files; 3 transactions of 2 administrators with 2 roles, 2 permissions and a user; 2 callers of the project repository, 3 calls, 3 codes of which two have one slug; 2.5 million states | every file intact, permissions follow roles, projects unique, lists stale only by overlap or after a write whose caller was told that it failed |
| `client` | 2 handlers and 1 failing request per administration page; 2 navigations with 3 requests; 4 moves among 3 tabs; 4 actions on a filter page; 2 clicks in the project console; 3 deeds of 2 users; 2 windows with 2 changes, stored settings readable or not; 3.4 million states | a page, a tab bar, an address, a catalog, a session and a window at rest are true; nothing stays up for good |

Why the bounds are enough to meet the interesting cases:

- Three callers let a late answer and a trial overlap with a third call; six
  generations cover opening, a failed trial, a successful trial and an opening
  again, with permits of several generations still out.
- Two workers and two callers of each kind give every pair of racing calls; a
  third adds no new pair.
- Two faults cover a crash or a lost answer during the recovery from another;
  the run with extension has three. A second worker is needed for redelivery
  while the first one still runs. A delivery limit of two (`MCDeliveryLimits`) is
  the least the preflight accepts, and two faults use it up.
- Two `Readiness` calls share one refresh or find the cache between two; two calls
  of `SetDraining` (`MaxDrains`) are the second that runs past the first, and one
  registration falls anywhere in a refresh.
- Three audit writers are one acknowledged, one whose write fails in between and
  one that comes after the damage; three lines (`MaxLines`) hold them all.
- Three gate addresses allow a gate to be dropped and its address used again
  while another goroutine waits; one call each is enough because a second call
  meets the same registry states, and the theorems have no bound.
- A lifetime of 3 with a timeout of 2 leaves room for a retry late in a
  binding's life, before and after the response has gone.
- With a limit of one, the second family can only start after the first is
  pruned; a history of two and four tokens allow two exchanges, a replay in
  between and the end of the history.
- Two runs of an evidence script give a run over the files of a stopped, failed
  or passed one (`MaxRuns`); one change (`MaxEdits`) falls before, between or
  after their steps, and all seventeen kinds are explored.
- Two server tasks (`MaxTasks`) are a build and whatever verifies it, or one
  build over another; an edit and two commits (`MaxTreeEdits`, `MaxCommits`)
  separate tree, HEAD and binary pairwise. Three baselines (`MaxReleases`) are the
  shortest chain on which a relation between neighbours could fail to be
  transitive. Two failing writes (`MaxWriteFailures`) include one during the
  rollback of the other.
- Two requests (`MaxRequests`) on a file give every load-save interleaving of a
  pair; a file's own promises involve two rows. Three calls (`MaxCalls`) put a
  write and its invalidation inside a read, with a third that reads the result.
- Two handlers (`MaxHandlers`) on a page overlap each other and the loads that
  both ask for; the failing request (`MaxFaults`) may be any of theirs. On the
  roles and menus pages, whose loads are the largest, no request fails, and on
  the roles page no dialog opens that the bound would not let be sent.
- Two navigations with three requests (`MaxNavigations`, `MaxFetches`) let every
  timer of the first fire in the second. Four moves over three tabs (`MaxMoves`)
  contain a close, an overtaken navigation and a return. Four actions (`MaxActs`)
  contain two changes, a step back and a change after it. Two clicks
  (`MaxClicks`) with two renderings or failures (`MaxSteps`) overlap two
  handlers. Three deeds (`MaxDeeds`) are a login, a logout and a login as
  somebody else. Two touches (`MaxTouches`) are one in each window, or an import
  with a change while the file is read.

`CHECK_DEADLOCK FALSE` is used where the system stops on its own: a worker group
whose calls have all returned, a delivery that was settled, goroutines that have
used up their calls, families after the last tick, and the tooling and console
runs, whose tasks, requests and clicks are used up.

Symmetry is used on goroutines of one process, the request and its retry,
families, and on requests, administrators, permissions and callers of the
console's server; never together with a liveness property.

## Fairness

- `CircuitBreaker`: time passes, an admitted call is eventually recorded (every
  request has a timeout), a trial is eventually attempted while callers keep
  calling, and a trial repeated for ever is answered successfully at some time
  (strong fairness of the answer: it is the hypothesis "once the dependency has
  recovered", not a promise of the code).
- `WorkerGroup`: each goroutine that can take its next step does (weak fairness
  per goroutine, as the Go scheduler gives), including the return of a callback,
  whose context carries a deadline. No fairness on the callers' decision to call.
- `ReliableDelivery`: weak fairness for workers and for calls a live worker
  still waits for. The extender gets strong fairness for noticing that it was
  stopped: both cases of its `select` are ready again and again and Go chooses
  among ready cases at random. Faults are bounded, crashed processes are
  restarted, and calls whose caller has gone need not be executed.
- `HealthChecker`: weak fairness for what a goroutine does without waiting, strong
  fairness for taking the cache's mutex (a starved waiter of a Go mutex is handed
  it). A check may hang; `runChecks` gives it a context that ends
  (`ChecksTimeOut`). `CallsAreAnswered` excepts a report that expires again and
  again before anybody reads it.
- `AuditChain`, `Idempotency`, `RedisLock`, `RefreshSessions`, `DeliveryLease`: only
  safety is claimed, without fairness.
- The scripts and the console have no fairness and no liveness properties: that
  nothing stays up for good on a page is stated as a safety property, namely that
  a timer, a frame or an answer that ends it is outstanding (`NothingStaysForGood`).
  A browser that throttles timers fires them late, which the models allow.

## Proofs

TLAPS proves the following for every value of the constants that meets the
module's `ASSUME`s.

**Breaker** (`OutboundProofs`). `TypeOK`, `OneProbeOnTheWire`,
`ProbeFlagExact`, `CurrentPermitsMatchMode` and the refinement of
`BreakerContract`. The invariants are inductive together with
`ProbesAreCurrent`: a trial holds its generation until it is recorded. Without
it, a step of a stale caller could clear the flag of a running trial. The
refinement uses the same invariant, action by action (`StepSimulation`).

**Worker group** (`ServingProofs`). `TypeOK`, `VerdictIsFinal`,
`ReturnMeansQuiet`, `LaunchedOnce`, and `FirstFailureKept` as an action property.
`IInv` ties the closing goroutine to the rest (`CloserInv`): past `wg.Wait` every
worker is gone, so nobody can call `fail` and what `Wait` reads is final.
`StartInv` says that a claimed group is launched by its claimant only.

**Readiness checker** (`ServingProofs`). `HealthTypeOK` and `ReadyMeansCurrent`.
The revision is what ties a refresh to the registrations: a refresh that still has
the present revision copied the checks after every `Register` that has counted up
(`RefreshInv`). `Register` and `SetDraining` return only after they have cleared the
cache under the mutex, so a cached report covers everyone who has returned
(`CacheInv`), and who saw draining off under the mutex knows that no `SetDraining`
has returned (`DrainInv`, `MutexInv`).

**Reliable delivery** (`OutboundProofs`). `DeliveryTypeOK`, `OneDeadLetterCopy`,
`NoSettlementWithoutLease` and the refinement of `AtLeastOnce`, for any workers,
messages and number of faults. `Sound` is what a worker's record tells: a settlement
begins only when the extender has ended well, an acknowledgement is planned only
for a handled message, a callback that has published has its copy stored. Calls on
the wire outlive their callers, so the evidence is needed for them too: an
acknowledgement under way, whoever sent it, is for a handled or buried message
(`AcksInv`), and a call with a caller is the one that caller waits for
(`CallsInv`). `CopiesInv` says that every stored copy is in the duplicate window or
its window has passed. The refinement follows action by action from these.

`GivenUpOnlyByFaults`, for any delivery limit, needs a count (`CountInv`): a message
that is offered was delivered at most as often as there were faults that ended a
delivery (`Spent`), and a message that is leased once more than that only while a
worker holds it and the group runs. A worker that failed pays only when its group
goes down, which ends the deliveries of the other workers as well; that is why a
fault whose group still runs is not counted yet (`Failing`).

**Lease budget** (`OutboundProofs`). With lease extension, and a margin of at least
the extension timeout (`Covered`), a lease of the computed length outlives the
delivery, for every configuration. `WorthInv` is the least worth of the lease at
each point: while the extender waits, while it calls, and at the start of a
settlement. Without the hypothesis the claim is false: finding 2.

**Lock** (`RedisLockProofs`). `TypeOK`, `HolderOwnsLease`, `OneInsidePerProcess`,
`UnlockFindsOwnRecord`, `GatesReclaimed` and the refinement of `LeaseLock`. The
first half, `GateInv`, is about one process: the reference count is the number of
goroutines that use the registered gate (`RefsExact`, with cardinalities of
finite sets), so a gate in use is never replaced. The second half, `LeaseInv`, is
about Redis: unlock commands under way carry tokens of calls that have already
given the lock up (`UnlocksAreLate`), so none deletes a holder's key.

**Idempotency** (`MiddlewareProofs`). `TypeOK`, `ExecutionExclusive`,
`OwnBindingOutlivesResponse`. `Guard` consists of: the lease of a request inside
outlasts its deadline (`LeaseInv`, from `LockTTL > RequestTimeout`, which the
configuration enforces); what it read under the lock stays true (`ReadInv`); only
a request past the binding has written it (`FreshInv`); a request that wrote the
binding can still store a response under it (`BindInv`); a stored response is
covered (`CoverInv`). The last two need `RequestTimeout <= Overlap`
(`OverlapAssumption`), which the one-minute overlap satisfies for the default
timeouts but the configuration loader does not enforce.

**Audit chain** (`MiddlewareProofs`). `AuditTypeOK` and `LogTellsAcknowledged`, for
any requests, keys and failures of the writer. `ChainInv` has three cases: until a
failed write has left bytes, the log is the acknowledged records and the sink stands
where the last left it (`Clean`); one line more may follow (`Trailing`); and
whatever comes after that line, or joins it, leaves an unreadable line or one with
the wrong number for good (`Broken`), since the sink counts from what was
acknowledged.

**Refresh families** (`RefreshSessionsProofs`). `TheftEndsFamily`,
`LiveFamiliesBounded`, `StoreStaysIntact` and the refinement of `SessionFamilies`,
for any families, tokens, limits and delays below the absolute lifetime. A repeated
or late command is the difficulty: `Harmless` says what each command on the wire can
still do (a creation that would bring a family back is too old, a rotation to a token
already seen finds its own token spent), and `WireInv` that no two rotations bring
the same token. `Honest` relates a family to the tokens it ever had; `Intact` says
that until its absolute end it is in both indexes and all its tokens lead to it.
That the live families stay below the limit is about cardinalities: a creation
counts the index after it has pruned it.

**Project repository** (`FrontendProofs`). `ProjectsStayUnique` and
`StaleListsAreExplained`, for any callers, codes and page size, and for any
function from codes to identifiers. `WriteInv` says that the list a call is about
to write to the file was checked when it was worked out, so that it stays unique
although the store has changed since; `ReadInv` that a list being read is the
stored one, or a write has finished or is about to clear the cache since it was
read, or a statement that had lost its caller was carried out since; `CountInv` that a page is selected with the count of the rows it was counted
on. `SafePageHasRows` is the arithmetic of pages, for every page asked for.

**JSON stores** (`FrontendProofs`). `StoreIntact`, for any number of requests and any
finite inventory. What a request is about to save was worked out from a file that has
been replaced since, so `StoreInv` keeps the promises of the lists being saved as well
as of the files (`Sound`), and says whose rows are in them: a row is named after the
request that adds it, no list names a request that has yet to add its row (`Unseen`),
and no two requests have one name (`Apart`). The changes themselves have a lemma
each: from a good list they work out a good one. Orders of siblings and next free
numbers are about finite sets of numbers; that such a set has a least and a greatest
member is proved from the well-founded order of the naturals (`SmallestMember`,
`LargestMember`), which needs no induction theorem.

**Access management** (`FrontendProofs`). `PermissionsFollowRoles`, for any
administrators, roles, users and permissions. A transaction works in several
statements, and only the last of them publishes. `AccessInv` says of each open
transaction that what it has read is still what is there and that what it is about to
write fits it, until two changes of access overlap: from then on the property promises
nothing, because under READ COMMITTED a change can be worked out from rows that another
has replaced since.

**Loading displays** (`ClientProofs`). `NothingStaysForGood`, for any number of
requests and navigations. `ShellInv` says for each display which timers and frames
may be armed in each state. The bar's part turns on its generation: a bar that is up
without a navigation has a frame or a timer of its own generation, whatever frames of
earlier ones remain (`BarOK`); after a change of the path it is no longer running, and
what runs belongs to a navigation on its way or to one that stayed on its path.

**Session in the browser** (`ClientProofs`). `SessionIsShown`, for any users and number
of requests. A request that still counts (neither cancelled nor of an earlier session)
and is for the path that is shown will bring the cookie's user if his account is
active (`Truthful`, `FlightInv`); the login page has cancelled or aged all that could
bring one (`LoginInv`); another page shows the cookie's user or waits for a check
(`PageInv`); a spinner has its answer under way (`SpinnerInv`).

**Filters in the address** (`ClientProofs`). `AddressShowsView`, and
`MovesKeepHistory` as an action property, which no run needs to check beside the
proof, for any ids, any typed address and any number of acts. `UrlInv` relates the three that may disagree for a while: the filters that are
shown, the address, and the one the hook committed last. The address leads where the
committed one leads (`Matched`), the committed one is of the filters unless an effect is
due, and while the flag of a move is set the address already leads to the filters.
`Effected` is what the hook's effect leaves, whatever it found. The exceptions named
below are the cases in which the flag swallows an effect.

**Project console** (`ClientProofs`). `QuietCatalogIsTrue`, for any ids and number of
clicks. A handler loads the catalog again after the server has answered it, and its
answer may come when the project it is about has gone. `CatalogInv` says
how each handler and load stands (`Told`); that the remembered project is one of the
list or somebody on his way will choose one (`WillChoose`); that without overlap one
request at most is under way (`Alone`), so that what it has listed is the server's
catalog, and what is shown is too, unless it has yet to be listed (`Shows`).

**Tabs** (`ClientProofs`). `TabsFollowVisits`, for any paths and number of moves. The
difficulty is the list of suppressed paths, which keeps the effect of the page from
adding the tab that was just closed. `TabsInv`: a closed tab on whose page the router
still is, is suppressed; what is suppressed was closed, or came back with the drop of a
drag that began while its tab was there; the home tab is in every stored list and
first in what is shown; a drag began from a list that has every suppressed tab that is
shown. `TagsView` selects from lists with quantified definitions
and not with `SelectSeq`, whose recursive definition the provers cannot expand.

**Appearance** (`ClientProofs`). `SettingsReachWindows`, for any windows, colours and
number of changes. `SettingsInv`: a window's cache is the normal form of what it last
read, and a normal form is its own normal form; a window that has heard of every change
is painted with the stored settings; its shade follows its theme, and its theme the
scheme that was chosen last; a window is lost only when `spoilt`, and a window on the
dashboard has seen only settings that can be shown. The lemmas go along the steps of a click, since the handler,
the render and its effects each read what the one before has stored.

**Administration pages** (`ClientProofs`). `BusyIsExact`, on all five pages and for
any store, number of handlers and faults. `BusyInv`: the handlers that save and are
not over are one while the flag is up and none while it is down. Every step is a look
(the page changes, its handlers do not), the sending of a form, a request that goes
on, or the end of a handler; each kind has its lemma, and a handler that failed and
left requests to the server no longer counts.

`QuietPageIsTrue`, under the same conditions, uses that invariant and `QuietInv`. While
nothing has gone wrong since the last list was asked for, each list that is shown, and
each answer a running load already has, is what the server would answer now, unless a
handler is waiting that will load the lists again (`Truth`, `Excuses`). That is true at
every step and gives the property once nobody waits. To keep it:

- at most one load is under way, and it is the latest, with the search that is
  applied (`ListOK`, `LoadOK`): this is what the cleanup of the effect provides;
- every handler that loads nothing when it ends sends only requests that touch none of
  the lists (`DoOK`, `InOK`, `QOK`): a new password changes no column that is shown, and
  if it undoes somebody's change that counts as something gone wrong;
- the assignment of an API to roles is the exception: it loads nothing and shows its own
  copy of the policies. Its requests replace the policies of every role one after the
  other, so a role either has its new policies, or its request is on its way or still to
  be sent (`Still`); when none is left the file is the copy. This takes that the page
  knows all roles (`RowsOK`, since nobody changes them from this page), that one
  assignment at most is under way (`BusyInv`), and that no other handler of the page
  writes policies (`ApisOK`);
- the sets that become sequences of requests are finite (`ViewOK`, `PlanOK`).

TLC checked `QuietInv` on the five pages before it was proved. Working it out showed a
case that the history had left out: a change that reaches the file after its handler has
given up, and whose answer is then lost, counts as trouble as well (`RequestFails`).

**SDK publication** (`ToolingProofs`). `SDKIsWhole`, for any number of edits, tasks and
failing writes. `PublicationInv`: what a generator has found is still there, as far as
it has not replaced it (`Remembers`), since it is the only generator and publishes in
one order; a manifest that a process has noted down, or that is written, is of one
document and the client generated from it (`ManifestOK`). Which step a task is at
follows from the lists of steps alone (`Order`): none but the last steps of a
generator changes the client or its version.

**Server release** (`ToolingProofs`). `AcceptedReleaseIsOfItsSources`, for any number of
edits, commits and tasks. Every task is a part of the workflow (`TaskAgrees`), so the
invariant says what holds at each of the workflow's 53 steps (`Track`), in five parts:

- what a build has read (`Reads`): an edit numbers what it writes with a number that no
  source had, so that sources which are the same at both collections were the same when
  the compiler read them, and a manifest that was written to its end is of the binary
  (`ReleaseManifestOK`);
- the version (`Current`): it is loaded earlier than the sources are read, and when it
  was edited since, no manifest on file is of the sources present; so a check that
  accepts has loaded the version that it finds;
- the commit (`Cleans`): HEAD is read between a collection and the status. While HEAD has not
  moved since, what was collected is what was committed; the second witness reads it
  again, and a manifest equal to the canonical one shows that it had not (`Settled`);
- the comparison (`Copies`): the directories still hold what it remembers, and the
  witnesses' binaries are those of this task's builds;
- the attestation (`Signs`): nothing is attested on a path that failed, and gh leaves a
  status of zero only for what was attested (`Final`).

TLC confirmed the invariant first, on two tasks with one edit and two commits (718,721
states).

**Release evidence** (`ToolingProofs`). `AcceptedPassIsOneRun` and
`AcceptedEvidenceIsCurrent`, for any set of the seventeen kinds (`KindsAreKnown`) and
any number of runs and edits. What differs between the kinds is the script: a
directory is cleared at one place of it, the test runs at another and the report is
made at a third (`ClearedAt`, `TestedAt`, `ReportedAt`). `StepOK` says which steps may
stand where, and one lemma per script (`...Fits`) that it keeps to it; `BuildIsOK`
says of each kind's report that it is of the run and of the sources as they are, and
tells of a pass only when the run saw one. Over that, `EvidenceInv`:

- what is in the directory (`DirectoryOK`): all of it is of one run, and a report never
  stands beside a file that was cut, since it is made last and removed first;
- how far the script has got (`StageOK`): before the clearing everything is of earlier
  runs, after it whole and of this one, and there is no report before its place;
- the test (`EndOK`) and the report (`ReportOK`): while the sources are not edited,
  those of the test are those present; a report that can be read says no more than
  the test of its run, and names the sources of that test.

A verifier that accepts has compared the report with the sources present
(`VerifiedIsOK`), and the two theorems follow. TLC confirmed the invariant first, on
all kinds with two runs and one edit (3.86 million states).

**Contract gate** (`ToolingProofs`). `ReleasedContractsServeOldClients`, for any number of
edits and releases. The gate compares neighbours only. `CompatibleOnward` shows that the
comparison is transitive, part by part from the keywords of a scalar upwards, so every
released document compares with the last (`ServedByLast`); `CompatibleServes` shows that
what the comparison lets pass accepts the parameters, bodies and credentials of the
base's clients and answers as its document says. Both need documents that are well
formed, which edits keep (`DocumentEdited`): a schema requires only what it declares.

The assumptions are those of the modules. Most exclude a marker from the values it
must differ from. Those about the code: the thresholds, attempts and lifetimes are
positive (the configuration refuses others); `LockTTL > RequestTimeout` (enforced by
the configuration); `RequestTimeout <= Overlap` (see above); an account's name is not
empty (`AccountAssumption`); the inventory of routes is finite
(`InventoryAssumption`); there is at least one role that a new user gets
(`AccessAssumption`); no id is the empty text or one with a blank, which filters trim away
(`IdAssumption`); commands are delayed less than a family lives.

## Findings

1. `queueclient/worker.go:299`. `Start` makes the group running before it installs
   the cancel function. A `Shutdown` in between cancels nothing and waits for
   workers nobody will stop. The passing run checks the complement: a `Shutdown`
   that found the function stops the group.
2. `queueclient/worker.go:127`. With lease extension the computed lease counts the
   larger of extension and settlement timeout, but the extender restarts its
   interval only after its callback returned. With a margin below the extension
   timeout the lease can end during settlement although every deadline was kept.
   The passing run shows that a margin of at least the extension timeout is enough.
3. `httpapi/idempotency_fingerprint.go:49`. A retry that matches a stored binding
   does not renew it, and then stores a response that outlives it: a different
   request with the same key is later answered with that response. The theorem
   shows that a binding does outlive responses of the request that wrote it.
4. `sharedstate/session_store.go:198`. The index of a user's families is refused
   when it is larger than the inventory limit, but logins never remove expired
   entries from it. From then on `RevokeUser` changes nothing and answers 0.

## Named exceptions

Some properties hold only up to an exception that is the code's own behaviour; the property names it, and the models contain it:

- `SessionIsShown`: an answer of `refresh()` or of a second login that began in an
  earlier session, and a failed check or logout, are not cancelled by anything.
- `AddressShowsView`, `MovesKeepHistory`: a move between two entries with the same
  filters renders nothing, so its flag stays set and swallows the next change; an
  effect that was due when the browser moved takes the flag of the move.
- `QuietCatalogIsTrue`: two overlapping handlers may leave the catalog of the
  earlier one.
- `StaleListsAreExplained`: a read that began before a write and ended after it
  installs the old list in the cache, for five seconds. A statement whose answer is
  lost, to `query_timeout` (`database-config.ts:37`) or with the connection, may have
  changed the table, and the call that sent it clears nothing
  (`project-repository.ts:490`, `597`, `602`): a cached list then shows the old
  projects for up to five seconds.
- `TabsFollowVisits`: a tab closed while the navigation away from it is overtaken
  by one back leaves its page without a tab.
- `NothingStaysForGood`: a page without extent that replaces another during its
  leave animation leaves the list load waiting. A navigation that changes only the
  search, or is given up, starts the progress bar (`fna-page-loading.tsx:118`), whose
  end is an effect of the path (`fna-page-loading.tsx:85`): the bar stays up until the
  path changes or the progress setting is switched off. A bar that runs when the shell
  is left is not rendered; it ends when the shell is mounted again.
- `SettingsReachWindows`: stored settings that cannot be parsed make
  `readFnaShellSettings` (`fna-shell-settings.ts:647`) return a new object at each
  call, so `useSyncExternalStore` renders without end and the dashboard is replaced by
  the error page. An imported preset with a part of the wrong type, such as
  `"header": null`, passes the check of `parseImportedPreset`
  (`fna-shell-settings.ts:706`) and the normalisation, is stored, and makes
  `applyFnaShellCss` throw (`fna-shell-settings.ts:539`) in this and every later
  window: from the provider's effect, which lies outside `app/error.tsx`.
  The property says that a window is lost in no other way.
- `AcceptedEvidenceIsCurrent`: sources edited while the test runs.
- `EverythingSettles`: a consumer with a finite `MaxDeliver` (the preflight accepts
  two and more, `adapter.go:281`) gives a message up when its deliveries are used
  up; it is then neither acknowledged nor dead-lettered. `GivenUpOnlyByFaults` says
  what it takes: one fault for each delivery. Without a limit every message is
  acknowledged.
- An imported preset is laid over the settings of the render in which the file was
  chosen, so a change made while it is read is lost; the drawer offers a sidebar of
  150 and rows of 30, which the normalisation of stored settings replaces.

## What is only model-checked, and what is left out

Only model-checked:

- all liveness (`EventuallyCloses`, `GroupStops`, `CallsAreAnswered`,
  `EverythingSettles`): TLAPS has no fairness or `ENABLED`;
- the lease budget without extension, whose length is a sum over the attempts: what
  the sum is for every number of attempts needs an induction over the recursive
  function that computes it.

Abstractions, by module:

- Errors are told apart only where the code branches on them; messages, tokens,
  digests and responses are model values. Random tokens never collide.
- All processes agree on the time; they differ in how old their reading is.
- The project repository is that of one process of the console: another process has a
  cache of its own, which nobody clears but its age.
- JSON stores: that two requests do not overwrite each other's changes is claimed
  nowhere, since they can; `StoreIntact` is what each file keeps all the same.
- `ProjectConsole`: the server's refusal of a duplicate id or code
  (`project-repository.ts:387`) is one of the failures, since the handler only shows
  its message; the `projectId` query of the projects, services and integrations pages
  (`project-provider.tsx:199`) is left out.
- `AdminPages`: a request whose answer is lost has been carried out by then, or never
  is; `QuietPageIsTrue` promises nothing from such a failure until the lists are
  loaded again.
- `ServerRelease`: `AcceptEvidence`, in which the manifest's verifier looks at the
  recorded files and the tree, is one atomic step.
- `SDKPublication`: a process that is stopped between the two files leaves them apart,
  and `FailureLeavesNothing` does not speak of it; a manifest is not written from them.
- Redis executes a script atomically and keeps its data. Failover to a replica
  that has not seen the last writes is not modelled; the repository's own
  documents list it as unverified.
- Argument and format checks of the Lua scripts (hexadecimal, positive integer)
  are constant for a store that only these scripts write; the agreement checks
  between records are modelled, since they can fail by expiry.
- A panic in a transport during a trial leaves the breaker's trial flag set for
  ever, and a panic in a message handler stops each group that receives the
  message. Panics are not modelled.
- `ExtendLease` returns once `InProgress` was sent (`adapter.go:416`), without an
  answer of the broker; `DeliveryLease` (`ExtensionReturns`) takes the
  broker to have extended the lease by then. What a lost extension does is in `ReliableDelivery`, where a lease may
  expire at any time.
- In-memory variants (idempotency registry, session manager) are mutex-protected
  maps with the same protocol; the session manager is planned below.
- Text is a name: titles, messages, icons, geometry and colours are left out, and
  so are paging and sorting of lists, which lose or add no row.
- A file is replaced at once: the stores write a temporary file and rename it. The
  evidence scripts write in place, and there a stopped run leaves a cut file.
- The evidence of a contract is one bit (its report and log satisfy the verifier's
  rules or not), the archive and ELF layout of a release are left out, and schema
  references and compositions are resolved before the comparison that is modelled.
- Two generators of one SDK at a time are left out: no lock keeps them apart, and
  nothing in the repository starts two.
- The browser is one tab for everything but the appearance settings.

Not modelled: the components that `PROJECT.json` lists as `not_modelled`. Those
without shared state (request checks, rendering, dictionaries, configuration,
snapshots, generated clients, read-only monitoring) have no behaviour over time;
the others are in the plan.

## Plan

Done: outbound breaker, worker group, readiness checker, reliable delivery with its
lease budget, lock, idempotency, audit chain, refresh families; release evidence, server release, contract
gate, SDK publication; the console's three stores and seven parts of the console
in the browser.

Next modules, in order:

1. `ServerLifecycle` (drain, shutdown, forced close, hijacked connections), composed
   with `HealthChecker` and `RequestLifetimes` (registry against `cancelAll`). Abstract
   specification: a server that is ready, draining, then quiet. Theorem: no
   request survives the return of `RunHTTP`.
2. `BrowserSessions` and `AuthorizationRequests`, with an abstract single-use
   store for the latter; two sessions of one subject, two commands under way.
3. `KeyCache`: three requests, two key sets, failing fetches; at most one fetch at
   a time, no fetch within the cool-down of a successful one, keys replaced whole.
4. `RetryTransport` over `CircuitBreaker`, `RateLimit`, and the in-memory session
   manager as a second implementation of `SessionFamilies`.

Proofs: the lease budget without extension, by an induction over the finite set of
attempts; then the modules above as they are written.
