# Transit Hub in TLA+

Transit Hub is a gateway in front of AI providers: it authenticates a client by an API key or an
employee's token, checks quotas, routes the request to a pool of upstream accounts, copies the
answer back, and counts and logs what was used. This directory holds a model of the parts of it
where something can go wrong between two steps, TLC runs on small instances, and proofs for all
instances. Modules are translated from the Go source; `PROJECT.json` ("map") names the lines each
definition stands for.

    tlc -workers 2 -config MCUsageManager.cfg MCUsageManager     # a run
    tlapm UsageManagerProofs.tla                                  # the proofs of one module

## 1. Inventory

The process is one Go program with three SQLite databases. Every database is opened with one
connection, so a transaction, or a statement outside of one, is atomic with respect to the others
of the same database; handlers are goroutines and interleave everywhere else.

| Component | State | Operations | Hard behaviour | Correct when |
|---|---|---|---|---|
| **Usage manager** `store/usage_manager.go`, `usage_independent.go`, `rate_limits.go` | counters and windows in memory, dirty maps, `pendingEvents`, `usage_totals`, `usage_buckets`, `usage_windows` | `NewUsageManager`, `Bootstrap`, `Admit`, `Record`, `Flush`, `connect`, `run`, `Close` | a flush writes without `mu`, records arrive meanwhile; the database comes and goes; crashes; windows that end while requests run | no amount lost or counted twice, quotas overshot by a bounded amount only, windows persistent before use |
| **Telemetry** `store/telemetry.go` | bounded channel, batch, `request_logs`, `api_key_sessions`, counters of drops | `Enqueue`, the writer's `select`, `Flush`, `Prune`, `Close`, reports | producers never wait; a report flushes while the queue refills; failed batches; stop | every entry written once or counted as dropped once; a flush that says ok is true; flush and Close end |
| **Proxy pipeline** `gateway/proxy.go`, `credits.go` | a handler's variables, slots per key | one handler per request | reads configuration at four different moments; many exits; slow upstreams | slots exact, routed to what was in force, every request ends |
| **Registry and routing** `provider/registry.go`, `store/model_states.go`, route overrides in `store/store.go` | routes, pools, accounts of one generation; override and state rows | `Replace`, `Resolve`, `ApplyPoolOverride`, `PickAccount`, `SetRouteOverride`, `SetModelEnabled` | replaced under running requests; validation and write are separate | as above |
| **Circuit breaker** `provider/circuit.go` | state, failures, `openedAt` per account | `Allow`, `Record` | late outcomes of old requests | open exactly after the threshold of consecutive failures |
| **Keys, employees, grants** `store/store.go`, `api_keys.go`, `employee_keys.go`, `jwt_grants.go` | `api_keys`, `employee_identities`, `employee_identity_history`, `jwt_grants` | create, PATCH, delete, batch; first access, naming, re-registration; issue | a lookup in several statements; PATCH reads first and writes later; rows editable after deletion | one live record per employee; nobody admitted with another's or a long deleted record; quota of grants |
| **Administrators** `store/admin_users.go`, `gateway/admin_auth.go` | accounts, sessions | login, logout, create, PATCH, delete | check and write in separate statements | somebody can log in |
| **Quota monitor** `providerquota/monitor.go` | targets, snapshots, a timer, a wake-up signal | `Replace`, `run`, `sweep`, `queryGroup`, `Close` | a reload while queries are on their way; two reloads at once; a new account while the goroutine sleeps | the report shows what is in force, keeps the last success, and asks every account |
| **Provider files** `config/config.go`, `build` and `buildTargets` | none | `LoadProviderConfigs`, `ValidateProviderConfig` | three places resolve pools, protocols, keys and intervals again | what validation lets through can be served and watched |
| **Split migration** `store/split_migration.go`, `transit-hub-migrate` | three databases, a backup, two marks | split, verify, merge-back | ends anywhere and is repeated; two versions of the service between the commands | nothing lost, nothing counted twice, a backup before the first write |
| **Response tap** `gateway/response_tap.go`, `copyResponse` | a pipe, a decoder goroutine | `Write`, `Close` | decoder lags or fails early; body cut anywhere | the copy never waits for ever, Close returns, the parser is asked last |
| **Usage parsing** `usage/usage.go`, `mapping.go`, `tts.go` | a parser per answer | `Write`, `Finish` | chunk boundaries, oversized lines, repeated zero usage, broken streams | the observation depends on what was sent only |
| **Prices** `store/credits.go`, `gateway/credits.go` | none | `validateBilling`, `TokenCost`, `ImageUnitCost`, `CharacterCost` | overlapping counters, tiers and rules; rounding; saturation | every token charged once, at a stored rate |
| **Identity services, default policy** `issuer`, `accesskey`, `employeeauth`, `employee_policy.go` | none that changes with requests | verify, read, write | none of their own | |
| **Administration API, reports, playground, alerts, prices** `gateway/*.go`, `store/reporting.go` | none of their own | one operation of the store each | none beyond the store's | |

How they meet: `proxy` resolves a route in the registry, reads the model's state and override from
the control database, takes a slot of the key, asks the breakers of the pool, calls
`UsageManager.Admit`, sends, reports the outcome to the breaker, then calls `UsageManager.Record`
and `Telemetry.Enqueue`; between sending and recording, `copyResponse` feeds the
usage parser through the tap. A reload of the provider files goes to the registry first and to the
quota monitor second. Authentication reads the key store. Reports call `Telemetry.Flush`. The
run loops of the usage manager, of the telemetry and of the quota monitor are goroutines of their
own; `main` starts them and, on a signal, stops the server, the monitor, the usage manager and the
telemetry in this order.

The hazards of this code, each at its line and with the properties that would catch it, are listed
in `PROJECT.json` under "hazards".

## 2. Plan

Done, in this order: UsageManager with its abstract specification; Telemetry; CircuitBreaker and
Proxy; KeyStore; AdminUsers as far as its finding; QuotaMonitor with ProviderConfig; SplitMigration;
ResponseTap with UsageParser and Billing; RequestLog, the abstract specification of Telemetry. Every
safety property that a passing run checks is proved, and both refinements are.

Left: the lemmas on ranges, sequences and division are stated in more than one proof module; a module
of lemmas could hold them.

Not planned: `AdminUsers` as a passing run (what does hold of it are single statements), and a
composition of Proxy's slots with UsageManager's requests (`Arrive` and `Drop` of UsageManager say what
is needed of them).

## 3. The modules

### UsageManager, DurableUsage, MCUsageManager, UsageManagerProofs

A counter *cell* is the lifetime total of a key or one window bucket of it; the code keeps the two
in two maps and counts requests, tokens and micro-Credits side by side with the same control, here
a cell holds one saturating number. `mem` are the counters decisions read, `dirty` the deltas not
yet taken, `taken` those a flush is writing, `disk` the rows. `windows` and `diskWin` are the starts
of the 5h/7d windows in memory and in `usage_windows`.

| Code | Action |
|---|---|
| `NewUsageManager`, `Bootstrap` | `Start(connected)`, `Bootstrap` |
| `connect`: query, then install under `mu` | `ConnectRead`, `ConnectInstall`; `ConnectFail` |
| `run`, `Flush`, `takeDirty` | `FlushBegin`, `FlushCommit`, `FlushFail` (any error before the commit, with `restoreDirty`) |
| `Close` | `Shutdown`, `CloseFlush`, `CloseDatabase` |
| a request's slot and admission time, `Admit`, `Record` | `Arrive`, `Admit`, `Record`; `Drop` for every refusal |
| crash or exit | `Exit`: memory is lost, an open transaction rolled back |

`flushMu` is the conjunct `~flushing`; `mu` makes each action atomic. `DurableUsage` says what is
promised about a key's lifetime usage without flushes and copies: every request counts at most once,
a checkpoint saves something between what was saved and what is used, and the end of the process
falls back to what was saved. `KeepsUsage` is that specification under the refinement
*used = disk + taken + dirty, saved = disk*.

### Telemetry, RequestLog, MCTelemetry, TelemetryProofs

`queue` is the channel, `batch` the writer's slice, `loop` the place of the writer in its `select`
and in its inner loops, `after` where `flush()` returns to. `Enqueue` drops when the channel is full;
`WriteBatch` and `WriteFail` are the two ends of `flush()`. A report is a *caller*: `Call`,
`AcceptRequest`, `Drain`, `DrainWrite`, `DrainAgain`, `Answer`, `Query`, or `Cancel` at any time.
`lost`, `owed` and `late` are history variables that no action reads. Entries are numbered as they
are queued. The clock, what a row says and the session rows are left out, so `Prune` can only fail.

`RequestLog` says what is promised without the channel, the batch and the writer's places: entries wait
in the order they were handed over; one is refused only if as many wait as the queue holds; the first
of them, at most a batch, are logged or lost together; a report is answered when nothing of what waited
when it was taken waits any more, and with an error exactly if a batch was lost since. `KeepsLog` is
that specification under the refinement *waiting = batch and queue behind it*, a report that was
accepted being *spoiled* once `flushErr` is set.

### CircuitBreaker, Proxy, MCProxy, ProxyProofs

`CircuitBreaker` is the record and its two operations, used by `Proxy` for every account of every
generation of the registry (`Replace` builds new accounts with new breakers; requests under way keep
the old ones). `Proxy` follows a handler through `at`: routing, checking (model state), overriding
and pooling (route override), routed, picking (breakers are asked one by one, each under its own
mutex), picked, sent, copying, done. `Refuse` is any refusal by body, key, price or quota. Speech
requests are judged by their body, at the end; the others by the header. `local[r].since` remembers
what was in force since the request arrived.

### KeyStore, MCKeyStore, KeyStoreProofs

One step per transaction or statement. Administrators' PATCHes are two steps (`ReadForUpdate`,
`UpdateAPIKey`; `ReadGrantForUpdate`, `UpdateJWTGrant`). An employee's access goes through
`LookupEmployee`, `LoadEmployee`, `BackfillName`, `RegisterEmployee` or `FindRegistered`, and
`AuthoriseEmployee`; a plain key through `AuthenticateKey`. Expiry is the flag `forced`; limits and
allowed models of a record are left out, they take no part in these steps.

### AdminUsers, MCAdminUsers

Accounts, sessions and the handlers that log in and edit accounts, one step per statement.

### ProviderConfig, QuotaMonitor, MCQuotaMonitor, QuotaMonitorProofs

`ProviderConfig` says which states of the provider files are accepted (`Loads`), which the registry
can build routes from (`Builds`, `Routes`) and which accounts the monitor watches (`TargetsOf`): three
functions of the code that each resolve defaults again. `QuotaMonitor` is the goroutine (`loop`,
`timer`, `wake`), the queries of its sweep, and reloads:

| Code | Action |
|---|---|
| `run`, `nextWait`, timer and wake-up | `NextWait`, `WakeUp`, `Tick`, `SeeCancel` |
| `sweep`: grouping by request, the semaphore, the end | `Sweep`, `Fetch`, `GiveUp`, `EndSweep` |
| `queryGroup`, `fetch`, `applySuccess`, `applyError` | `Answered`, `Apply`, one account after the other |
| `reloadProviders`: files, registry, monitor, signal | `LoadProviderConfigs`, `ReplaceRoutes`, `ReplaceTargets`, `SignalWake` |
| `Close` | `Close` |

Times are read and the lock is taken in one step in `Sweep` and `ReplaceTargets`; a response renders
or it does not (templates and parser are pure); the times of attempts and the texts of errors are
left out. Accounts of one name in a pool are one target, as in the code. `crossed` remembers that two
reloads ran at the same time: there is no lock around both steps, and such reloads do leave routes and
quotas of different files in force until the next one.

### SplitMigration, MCSplitMigration, SplitMigrationProofs

Each step of a command is a transaction of one database; `Abort` ends a command between any two of
them, by an error or with the process, and it is started again at will. `control` is the database of
the old version, `usage` and `telemetry` the new ones. A request is its key; a log row is the number
of its request. `window` and `retained` are the first request of the current calendar window and of
the retention; they move on at any time. The order of the operator's manual is assumed: a command runs
only while the service is stopped, the new version starts only after a complete split, the old one
again only after a complete merge-back (`may`). Outside of that order more can go wrong: a merge-back
repeated after the old version ran overwrites what it counted, and a new version started without a
split leaves windows on which a later split fails. Within it, a split that was interrupted during the
backup is refused when repeated within the same second, because the name of the backup is the time.

### Billing, BillingProofs, UsageParser, ResponseTap, MCResponseTap, ResponseTapProofs

`Billing` holds the arithmetic of prices with every constant a parameter (the largest amount, the
number of tokens a rate is for), so that rounding, saturation and ranges are met with small numbers.
`UsageParser` reads events: a body is a sequence of events with a size, a kind, a usage object and a
weight of visible text; on the wire (`Wire`) they are units and newlines, the k-th line up to
`Ends(body)[k]`, cut into chunks by the run. The loop of the streaming `Write` takes a chunk up to its
next newline (`ReadNext`), at most once for each of its units.
`Write` and `Finish` follow the code; `Reference` says what an observation should be without chunks,
buffers or order of arrival. `ResponseTap` is the state machine: the copy loop, the pipe, the decoder
goroutine, Close, and the record. An encoded body has a unit more than its text (the checksum), and
`bad` is the unit that is corrupted; decoded text appears some time after its code was written, all of
it before an error. Left out: the filter of `Accept-Encoding`, the rewriting of `stream_options`, the
reading of multipart forms, and what `ttsCollector.write` keeps of a speech body (the string and escape
state across chunks, the limits of 4 KiB per string and 256 KiB of metadata): a body is collected as it
comes. A mapping says which standard counters are read and whether the input excludes the cache; the paths of
the fields are left out.

In every module the definitions that follow the comment "A broken variant" are not used by the
specification: each is a plausible mistake in a definition after it, kept to demonstrate that a
property notices it (`PROJECT.json`, "mutants"). So is `ValidModelInAnyPool`, which is also a part of
the definition it breaks.

## 4. The runs

| Run | Bounds | What it shows |
|---|---|---|
| `usage_safety` | one key, 3 requests, 2 slots, a 5h window and a calendar hour of 2 ticks each, clock to 2, 2 outages or restarts, charges 2 or 3, Cap 8 | `Conservation`, `NothingStranded`, `AnchoredBeforeUse`, `SoftQuota`, `WindowKeptToItsEnd`, `WindowStartsEmpty`, `LateCompletionKeepsOut`, and `KeepsUsage` (implements DurableUsage) |
| `usage_live` | 2 requests, 1 slot, charges 0 or 2, a quota on the lifetime total too | `EventuallySaved` |
| `usage_legacy` (violation) | as `usage_safety`, with a total left in the control database | `NeverOvercounted` fails: see findings |
| `telemetry` | 4 entries, queue of 2, batches of 2, 1 report, 1 failure, 1 retention tick | `OneFate`, `StopLeavesNothing`, `OkMeansWritten`, `FlushAnswered`, `CloseEnds`, and `KeepsLog` (implements RequestLog) |
| `proxy` | 2 speech requests of one key with 1 slot, the client of one of them attentive, a reload that removes the route or brings it back, 2 edits | `SlotsExact`, `RoutedAsConfigured`, `RequestsEnd` |
| `proxy_breaker` | 4 requests on one account, threshold 2, cooldown 1, clock to 3 | `TripsOnConsecutiveFailures` |
| `proxy_clients` (violation) | two clients of a speech endpoint that hang up | `OnlyUpstreamFailuresTrip` fails |
| `keys` | 2 ids, 2 employees, 2 accesses, 1 administrator, 3 edits, quota to 1 | `OneLiveRecord`, `AcceptedOnLiveRecord`, `PurgedForGood`, `IssuesWithinQuota`, `GivenNameKept` |
| `admin_users_last` (violation) | 2 accounts, 2 handlers | `SomebodyActive` fails |
| `quota_monitor` | 2 accounts that may share a query, 8 states of the files of which 5 are refused, 2 reloads, 1 query at a time, interval 1, clock to 1 | `SnapshotsCurrent`, `AcceptedInForce`, `LastSuccessKept`, `PendingAsked` |
| `split` | 3 requests of 2 keys, any number of commands, any retention | `CarriedOver`, `BackedUpFirst` |
| `response_tap` | streams of up to 2 events of each protocol (3 where one follows another), JSON, speech and image answers, 9 prices, chunks of any size, lines of up to 2 units | `ObservedAsSent`, `ChargedAsRead`, `PricedAsStored`, `TapNeverBlocks` |

Four configurations beside these answer a question about a run's property:

| Configuration | Bounds | Result |
|---|---|---|
| `MCTelemetryBusy.cfg` | 3 entries that are handed over again and again without end (`BusySpec`), otherwise as `telemetry` | passes: `FlushAnswered` needs that requests pause, not that they are few |
| `MCSplitMigrationMerged.cfg` | as `split`, 2 requests | `LogsMergedBack` fails: without `IdsAgree`, `CarriedOver` would be false |
| `MCResponseTapChat.cfg` | the chat streams of `response_tap` | `LastUsageCounts` fails: README.md:109 is not what `ObservedAsSent` promises |
| `MCResponseTapAnthropic.cfg` | its Anthropic streams | `InputFromStart` fails, likewise |

Why the bounds are enough. *Usage*: keys share no counter and no window row, so one key shows what
a key can suffer; three requests on two slots are the least with which one request outlives a window,
a second one opens the next and a third meets the quota; two ticks let a window end, two outages let
a failed flush be followed by a crash, or a start without database by a reconnection, and Cap 8 is
the first value at which three charges of 3 saturate. *Telemetry*: the queue and the batch of two
fill up and still leave an entry to be dropped or to arrive during a flush; that neither grows beyond
its capacity is part of `KeepsLog` there, and `TypeOK` is only proved. *Proxy*: one reload and two edits are the
changes that can fall between the four moments a request reads configuration; the breaker run needs
`Threshold` requests to open, one to probe and one late. *Keys*: two ids suffice for a deleted record
and its successor, the second employee and access for every race over them; three edits cover
delete, restore and rename. *Quota*: two
accounts are the least that share a query, of which one is changed while the other stays; two reloads
overlap, or undo one another while a query is under way; with one query at a time the second waits.
*Split*: of three requests one is older than the retention or the window, or both, one is served by the
new version and one by the old version after a merge-back; window and retention move independently of each
other. *Tap*: two events show a repeated, a later
smaller and a missing usage, a line too long before or after a good one and a corrupted second event;
the third is for a start, a delta and what follows; rates up to 9 with amounts up to 12 round, tie and
saturate.

Deadlock is not checked where a run's bounds (clock, outages, requests) let the instance stop;
`admin_users_last` checks it. Symmetry is declared only for interchangeable requests, entries, ids
and employees, and in no run with a liveness property.

### Fairness

* UsageManager: weak fairness of `ConnectRead`, `ConnectInstall`, `FlushBegin` and `FlushCommit`.
  The run loop is a ticker that never returns while the process serves, and it calls `connect`
  itself. There is none for requests, for failures, or for shutdown. Failures are bounded by
  `MaxOutages`: the property is about a database that works again.
* Telemetry: weak fairness of the writer's own steps, strong fairness of `AcceptRequest` and
  `SeeStop`, because Go's `select` chooses at random among ready cases. None for producers and
  reports. `FlushAnswered` has the condition `RequestsPause`, that from some moment on nothing more is
  queued. In the run `telemetry` the bound on entries makes them pause; `BusySpec` has no such bound
  (`MCTelemetryBusy.cfg`), so that there the condition is what ends production. Without it the property is
  false: see section 6.
* Proxy: weak fairness of the steps a handler takes by itself (`Handler`). Waiting for upstream ends
  because `http.Client` has a timeout (`UPSTREAM_TIMEOUT`, 10 minutes by default, `server.go`) that covers
  the body too. Reading the client's body and writing to the client (`WithClient`) wait for the client: the
  server sets only `ReadHeaderTimeout` (`main.go:121-125`), so these steps have fairness for the requests in
  `Attentive` alone. `RequestsEnd` says accordingly that every request gets from the check of the model to
  the answer or to its end, and that those of attentive clients end. A client that stalls holds its slot.
  The administrator has no fairness.
* QuotaMonitor: weak fairness of the goroutine's loop, of its queries (the HTTP client has a timeout)
  and of a reload once it has begun. None for the administrator, the clock's owner or Close.
* ResponseTap: weak fairness of the handler and of the decoder goroutine. Reading from upstream and
  writing to the client have none: `TapNeverBlocks` holds although both may stop for ever.
* KeyStore, AdminUsers and SplitMigration: safety only.

## 5. What is proved

The theorems hold for every set of keys, requests, entries, employees, accounts, files and prices, every
capacity, threshold, quota and duration, and every value of the runs' bounds. They rest on the named
assumptions of the modules, and on a hypothesis where the theorem states one (`ImplementsDurableUsage`,
`GivenNamesAreKept` and those of Billing, see below):

| Assumption | Says |
|---|---|
| `WindowAssumption`, `KeyAssumption`, `OldBucketAssumption`, `BoundAssumption` (UsageManager) | kinds of windows are disjoint and last a positive time, charges are up to Cap, old rows are of known cells |
| `TelemetryAssumption` | queue and batch hold something; nobody is not a report |
| `ProxyAssumption`, `CircuitAssumption` | every route has its default pool and a list of accounts, as `ValidateProviderConfig` and `build` make it; at least one slot, a positive threshold and cooldown |
| `KeyStoreAssumption` | ids are finite in number; "no key" and "no one" are none of the others |
| `QuotaAssumption`, `StartAssumption`, `ConfigurationAssumption`, `ConfigAssumption` | files are lists of pools of lists of accounts; the process did start with those it was given (`main` ends otherwise); an account's configuration is never the empty one |
| `MaxRequestsAssumption` (SplitMigration), `BillingAssumption` | a bound is a number; the largest amount and the units are positive, and no rate is larger than the largest amount |
| `ParserAssumption`, `AnswersAssumption` (UsageParser, ResponseTap) | a line may have a unit at least; counters, weights and sizes are numbers (what is negative or no number is read as 0); what is no stream is at most one JSON document; speech protocols are those of models of type tts; the charge of an image rule is a whole number |

TLC evaluates those of a module on every run of it. Each inductive invariant is a conjunction of named
parts, and each action is shown to keep it part by part.

**UsageManagerProofs.** `TypeCorrect`; `UsageConserved`; `NoDeltaStranded`; `WindowsAnchored`; the
action properties `WindowsKept`, `WindowsStartEmpty` and `WindowsCountTheirOwn`;
`ImplementsDurableUsage`. `Conservation` speaks of a connected
manager only, and of every counter a decision reads: the lifetime total, the 5h/7d windows in force and the
calendar windows current at the clock. One case is left out: a request that took its admission time before
the end of a calendar window, and is admitted after a connection made past that end, reads a window that is
over and that `loadUsage` did not keep. `Conservation` is not inductive: the inductive invariant `IInv` adds what holds while it is not.
`LoadParts` says what a reading in progress has in hand (a connection attempt and a flush exclude each
other, so what was read is still what is on disk); `DownParts`, that a manager without a process has
nothing in memory; `WindowsKnown` and `BoundKnown`, how windows in memory, on disk and in requests
relate; `FutureEmpty`, that no counter exists for a window that is yet to open; `Offline`, that without
a connection a counter with no row on disk is exactly what waits for a flush, which is what a
reconnection needs. For the calendar windows `UsageConserved` also takes `CalendarCounts` from the second
invariant, below (`QuotaInductive`). Saturation is
harmless because addition with a cap is commutative and associative (`PlusLaws`).
`ImplementsDurableUsage` is proved for the case that the control database holds no totals of the
old version (with them, the run `usage_legacy` shows it false).

`LimitsAreSoft`, in the second half of the module: a counter never exceeds its limit by more than what requests that
run at the same time may add. The invariant `QInv` cannot be about memory alone, because a restart or a
reconnection replaces memory: `Bounded` says it for what is counted *and* for what may be read again
(`Readable`). For that, `AnchoredCounts` and `CalendarCounts` say when memory and disk agree, the latter
only for calendar windows that are not over; `CalendarAhead` and `CalendarRead`, that nothing is counted
ahead of the clock, or of the clock as it was when a reading began (starts of calendar windows never go
back, `FixedMonotone`); `SlotsKept`, that a key has no more requests than slots.

**TelemetryProofs.** `TelemetryTyped`, `EveryEntryHasOneFate`, `FlushIsTrue`, `StopDrains`,
`ImplementsRequestLog`. `Placed` is
`OneFate` without the counter: every entry is in exactly one of queue, batch, table and losses. What the
writer may do depends on where it is: `BatchRoom` bounds the batch at each place, `Serves` says which
report a drain is for and that what it owes is in the queue, the batch or the table unless a write
failed, `Stopping` that after Close the queue holds only late entries. `Heading` is where the writer goes
on after a write, so that a write in the middle of a drain does not lose these facts. The refinement needs
of these that an accepted report is the one served, so that a failed write in a drain spoils exactly it,
and `Holding`, that the writer writes only what there is; the rest of it is that a `Take` moves an entry
from one end of a sequence to the other end of the one before it (`JoinTake`).

**ProxyProofs.** `ProxyTyped`, `SlotsAreGivenBack`, `RoutesAreInForce`, `BreakersTripOnFailures`.
`Handlers` says what a handler's variables mean at each stage (which route, asked for when, which
accounts were asked); `Aware`, that while it decides, it remembers all that is in force; `Slots`, that a
key's counter is the number of its handlers between the two places of the code that change it, and
below the limit; `Records` relates each breaker to the last outcomes recorded on it: a closed one counts
the failures since the last success, an open one has seen `Threshold` of nothing else, and
`openedAt` is the time of the last of these.

**KeyStoreProofs.** `KeyStoreTyped`, `EmployeesHaveOneLiveRecord`, `PurgedGrantsStayPurged`, and the action
properties `RequestsAreAcceptedOnLiveRecords`, `GrantsKeepTheirQuota` and `GivenNamesAreKept`.
`OneLiveRecord` needs two strengthenings: `Serving`, that a
request under way has an employee and, after its lookup, a record, so that a registration writes
a proper identity; and `EmployeeRecords`, that identities and history refer to employees' records only,
so that a fresh id is in neither. The action property rests on a third, `Remembering`: a request
remembers every record that was its own and live while it ran, and works with one of these.
`Granted` adds that the count kept in the grant's row, which issuance compares with the quota, is the number of
keys issued, and that a grant that does not exist has none. `GivenNamesAreKept` is stated with the
hypothesis `Alone`, that administrators' requests do not overlap, as in the run `keys`: without it two
PATCHes overwrite each other's names (section 6).

**QuotaMonitorProofs.** `MonitorTyped`, `ReportIsCurrent`, `ReloadsAreInForce`, and the action property
`SuccessesAreKept`. `Watched` says that the report shows what is watched, of its configuration; `Asking`,
that no two queries of a sweep ask for one account and that one that was sent was sent after what is shown
had been asked for, without which a late answer could replace a later one; `Limited`, that the semaphore
counts the queries under way; `Following`, that unless two reloads overlap, the routes are those of the
reload that is about to change the monitor's targets.

**SplitMigrationProofs.** `MigrationTyped`, `NothingLostOnTheWay`, `BacksUpFirst`. A command may end
between any two steps and is repeated from the start, so the invariant says what is true of half a copy:
`Totals`, that the usage database never has more than the truth, which is why a verification that finds it at
least as large as the control database proves it equal; `Source`, that until the copy is marked the
control database has everything and the copy nothing else; `Progress`, what each step of a split leaves
done; `Carried`, that a marked and verified copy has in the limits what the retention covers of the window and
nothing twice, and all within the retention in its tables, and that the new version runs only on such a
one; `Order`, what the manual's order allows; `Saved`, that a complete backup is one of the present state.
What the old version reports after a roll-back needs a second invariant on top of it (`ReturnInvariant`):
`Paired`, that a request has the same id wherever it has a row, and `LogsBack` and `SessionsBack`, what each
step of a merge-back has brought back.
That a retained request is then reported once has `IdsAgree` as its condition, because the code gives no
more (`MCSplitMigrationMerged.cfg`).

**BillingProofs.** Theorems about operators, for every price `validateBilling` accepts and all counters:
`ChargesStayAmounts` (a charge is between 0 and the largest amount, a free one 0), `TokensAreChargedOnce`
(hits, writes and the rest of the input add up to it, each at one rate), `LargestThresholdApplies` (the
last tier exceeded is the one with the largest threshold, as thresholds rise) and `RoundedToTheNearest`.
`EachOnce`, the conclusion of the second, is what `PricedAsStored` demands of every recorded answer;
the recorded tokens satisfy its hypothesis by `RecordsAsCharged`.
The first and the third assume `IsPrice`, that a price has the fields of `ModelPrice`, and that
`validateBilling` accepts it. All prices and counts of the run `response_tap` satisfy these hypotheses.

**ResponseTapProofs.** `MostSpecificRulePrices`, `TapProgress`, `ResponseTapTypeCorrect`,
`AnswersAreObservedAsSent`, `RecordsAsCharged`, `AnswersAreChargedAsRead`, `AnswersArePricedAsStored`:
for answers of any length, in any chunks, with any lag of the decoder, any corrupted unit, any end and
any price. The argument has four parts.

1. *Folds and recursive functions.* The library's induction takes an operator as a parameter, which the
   provers cannot instantiate. Instead, to show something of all numbers up to n, the set of those it
   is true of is shown to hold 0 and with a number the next (`UpTo`, from a least element of a set of
   naturals). A fold is a function on the sets of numbers up to n; that there is one is shown in this
   way (`FoldExists`), and its values on the sets 1 .. m are what a loop has after m rounds
   (`FoldPrefixes`). On this rest `EndsFacts` and `WireUnits` (where lines end and which unit is where),
   `TextIsSum`, `FoundIsBest` (the loop over image rules) and `RoundsExist` (the loop over a chunk).
2. *One event.* `ChatReads`, `ResponsesReads` and `AnthropicReads`: reading the next event leads from the
   reference of those before it to that with it. The parser of Anthropic's format keeps one record of
   tokens that the reference puts together from two events, so `HasRead` says what the whole record is
   and not each counter. `PartRead` and `LineRead` are about the rest of a line, of which the parser holds a prefix,
   or, if it was too long, drops it.
3. *Any chunks.* `Streamed` says that after n units the parser has read the lines that ended before and
   holds what has arrived of the next. `TurnReads` keeps it in a turn of the loop, `ParsedReads` in a
   chunk; `StreamObserved` adds what `Finish` makes of a last line without a newline.
   `DocumentObserved` does the same for one JSON document.
4. *The machine.* `TapInv` says how far the copy and the decoder are (`CopyInv`, `DecoderInv`), that the
   parser has been given `Units` of the text and no more (`ParserInv`), and what the result is made of.
   `ObservedAsSent` follows when the body is over, because then `Units` is all that can be decoded: a
   decoder stops only after it has handed over everything before the error. For the record, each function
   of `Complete` in turn keeps a predicate of its own (`IsObserved`, `IsMetered`, `IsUnbilled`,
   `ChargedFor`, `OnceFor`); `SpeechFacts` and `OneRule` bring in what `BillingRefused` settled before the
   request was sent.

Model-checked only:

* everything about liveness (`EventuallySaved`, `FlushAnswered`, `CloseEnds`, `RequestsEnd`,
  `PendingAsked`, `TapNeverBlocks`): fairness and ENABLED are out of the proof system's reach;
* AdminUsers, and the runs that expect a violation.

## 6. Findings

Each is the subject of a run that TLC ends with a trace; `PROJECT.json` ("findings") quotes the line.

* `usage_legacy`: a start without the usage database imports the control database's old totals
  again, and adds them to the stored ones once it is back.
* `proxy_clients`: clients of a speech endpoint that hang up before the answer open the breaker of a healthy
  account.
* `admin_users_last`: two simultaneous requests disable the last two active accounts.

Shown by a configuration of section 4 that is not a run:

* A merge-back inserts the new version's log rows with their ids and ignores conflicts
  (`split_migration.go:785`). When the split found no log recent enough to copy, the new ids start at 1
  again, collide with old rows and are dropped without an error. README.md:282 says the new usage and logs
  are merged back.
* README.md:109 says that Chat Completions takes the last chunk with usage. The parser keeps the counters of
  an earlier chunk if those of the last one are all zero (`usage.go:227`).
* README.md:109 says that Anthropic takes input and cache from `message_start` and the output from
  `message_delta`. A `message_delta` that reports input replaces input and cache counters (`usage.go:291`).

Read in the code and not the subject of a run:

* An entry is stamped (`CreatedAt`) before `Record`, which may wait for a lock, and queued after it.
  `writeBatch` sets `last_seen_at` to the stamp of what it writes last (`telemetry.go:258`), so it may go
  back, and retention may delete the session of a device whose last request is recent. README.md:42
  gives the retention as the time sessions are kept; the distance is that of the wait.
* `setRoutePool` accepts a pool as soon as one protocol's route of the model has it (`admin.go:373`),
  and the override is keyed by the model alone: on another protocol every request of the model is then
  refused. README.md:632 speaks of switching a public model to a pool.
* The drain of a flush (`telemetry.go:173-181`) goes on until it finds the queue empty: while requests come in
  at least as fast as it writes, a report waits until its client gives up. `FlushAnswered` holds under the condition
  that requests pause.
* The split fills the limits of the current windows from the log rows within `TELEMETRY_RETENTION`
  (`split_migration.go:452-458`), which may be any positive duration (`config.go:285,321`; 30 days by
  default). With a shorter one than a window, what the window counted before it is lost to its limit;
  `CarriedOver` promises what is retained and no more.
* docs/credits-api.md:166 has an answer that is no success count no tokens; `resolveObservedUsage`
  returns the reported tokens if there are any (it charges nothing for them, `ChargedAsRead`).
* Of an Anthropic-style usage object with cache hits but without an input counter, the cache writes are
  not part of the input (`mapping.go`, `extract`).
* Two administrators' simultaneous PATCHes of one row undo each other (the `keys` run has one at a
  time for that reason), and usage recorded by a stream that outlives `server.Shutdown`'s 10 seconds is
  lost.

## 7. What is not modelled

Signatures, claims and token formats, an employee's default policy, the words of the wire formats and
the rewriting of bodies and headers are data: pure functions that tables of tests cover, with no control
worth a state machine. Reports only read. The playground and the provider tests are an administrator's
own requests that take no slot and count no usage. Usage alerts limit a log line. Quota templates and
the parser of quota responses succeed or fail, which is all QuotaMonitor needs of them. Scripts and
deployment are not part of the program that runs.
