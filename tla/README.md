# pi-llmgates: a TLA+ verification project

pi-llmgates is an extension of the pi coding agent. It registers LLM gateways
("instances") as model providers of pi, keeps their model catalogs and prices,
lets the user edit endpoint overrides, and keeps usage statistics, the last
model and the input history across sessions. It runs inside pi's single
threaded JavaScript process; several pi processes of one user share the files
in pi's agent directory.

This directory holds TLA+ modules translated from `src/extensions`, TLC
configurations that check them on small instances, and proofs for TLAPS.

| component | module | checked by | proved in |
|---|---|---|---|
| provider of one gateway instance | `CompatProvider` (abstract: `CatalogBoard`) | `MCCompatProvider` | `CompatProviderProofs` |
| life of an instance id | `CompatLifecycle` | `MCCompatLifecycle` | `CompatLifecycleProofs` |
| usage ledger | `UsageLedger`, on `UsageObservation` (abstract: `UsageTotals`) | `MCUsage` | `UsageProofs` |
| journal and checkpoint of the usage | `UsagePersist` | `MCUsage` | `UsageProofs` |
| usage found in a session's log | `SessionRecovery` | `MCUsage`, `MCLive` | `RecoveryProofs` |
| cross-process file lock | `FileLock` | `MCFiles`, `MCLive` | `FilesProofs` |
| last model | `LastModel` | `MCFiles` | `FilesProofs` |
| input history | `InputHistory` | `MCFiles` | `FilesProofs` |
| prices | `PricingCache` | `MCFiles` | `FilesProofs` |
| session events of the status line | `TpsSession` | `MCSessions` | `SessionProofs` |
| subagents' usage | `SubagentIngest` | `MCSessions` | `IngestProofs` |
| model audit | `ModelAudit`, `SseObserver` | `MCSessions` | `SessionProofs` |
| requests and balance | `GatewayRequest` | `MCSessions`, `MCLive` | `GatewayProofs` |
| endpoint commands and overrides | `EndpointCommands` | `MCSessions`, `MCLive` | `GatewayProofs` |

Run TLC as `tlc -workers 2 -config MCX.cfg MCX` (or `MCX_y.cfg`) and the proofs as
`tlapm XProofs.tla`.

## 1. Inventory

### Gateway instance provider (`compat/provider.ts`, `catalog-store.ts`)
State: a lifecycle generation, request ids, the displayed models, the last
connection, the freshness window, a validated login catalog waiting to be
consumed, the registry entry it believes in, the commit chain. Operations:
pi's `refreshModels`, `/login`, background and `/endpoint` refreshes, pricing
syncs, `shutdown`, `beginSession`. Everything but the first lines of each
operation runs after awaits, in any order with the others, and commits through
one promise chain. pi's store handle belongs to one refresh phase and refuses
to write when pi has started another. Correct means: only the newest request
is displayed; the store never goes back; no catalog of a replaced connection or
of a closed session is displayed; an endpoint change is not undone by a refresh
that began before it; a login's catalog is not lost; shutdown returns.

### Gateway instance lifecycle (`compat/index.ts`, `compat/storage.ts`)
State: the registry `2api.json`, pi's `auth.json`, one override file per
instance, and in every process the provider map, the provider registered with
pi, a queue of transactions per id, and the logout cleanup (a loop, a watcher
on `auth.json`, a poll timer, a retry timer). Operations: login, removal,
cleanup of logged-out instances, session start and end. Each is a chain of
locked file writes with awaits between them, in several processes at once; any
write may fail and a process may end anywhere. Correct means: the four places
agree when nothing is in flight; only logged-out instances are cleaned up and
each of them is; two logins do not overwrite each other; nothing works on after
`session_shutdown`; a removed provider does not come back.

### File lock (`util.ts`)
State: per process a map from path to the tail of a promise queue; on disk the
directory `proper-lockfile` makes. Operations: `withFileLock` around a
read-modify-write, the release that swallows a compromise. Correct means:
calls are served one at a time in order, a failed call does not take its
successors with it, the map forgets a path exactly when nobody waits, no update
is lost while nobody's lock is taken over, a landed write is not reported as
failed because the release was.

### Endpoint overrides and endpoint commands
`model-overrides.ts` keeps one JSON file per instance; `endpoint.ts`,
`endpoint-setting.ts` and `llmgates-reload.ts` edit them in dialogs, wait for
the session to be idle, refresh the providers and rebind the current model.
State: an in-flight guard of the commands, the targets captured when a dialog
was built. Hard: the instance may go, the model may change, or one of several
groups may fail while the command waits. Correct means: one command at a time,
the guard is always given back, the model the user selected meanwhile is kept.

### HTTP, connection policy, balance (`http.ts`, `connection.ts`, `balance.ts`)
One request: a redirect loop with a limit, a body limit, and the race of the
caller's abort, the timeout and the answer. Which URLs and redirects are
allowed is pure. Balance probes the gateway's endpoints one after another.
Correct means: a bounded number of hops, one time and size budget for all of
them, the abort reported as an abort.

### Pricing (`model-pricing.ts`, `model-pricing-cache.ts`)
One shared cache with a time to live and one shared download in flight.
Correct means: a failed or aborted download does not poison the cache, waiters
share one download, an older answer does not replace a newer one, and a round
that downloads nothing had nothing to find.

### Last model (`last-model.ts`)
A record on disk per directory, written by several processes; restoring it at
session start while pi's own select events arrive. Correct means: the restore
does not record itself, and a choice of the user wins over it.

### Input history (`input-history.ts`, `input-history-store.ts`)
A list in memory, a persist chain, merging under the file lock, clearing.
Correct means: an entry submitted is on disk at the end of the session unless
it was cleared or pushed out, and a clear is not undone by a write in flight.

### Model audit (`model-audit/*`)
Observes the requested and answered model of concurrent turns in the response's
stream, appends mismatches to a bounded store shared by the processes, moves an
unreadable store aside. A marker in the environment tells an instance, also one
in a child process, which root session and turn it works for. Correct means: a response is compared with its own request, the
bound holds, a quarantine loses nothing that was readable.

### Usage statistics (`usage/*`, `tps.ts`, `tps-subagent*.ts`)
Observations arrive from pi's events, subagents, session files and other
extensions, duplicated and out of order; the ledger projects them to totals.
A journal and a checkpoint persist them, one writer per session tree, restored
in slices while live observations arrive. Correct means: totals depend on the
set of observations and not on their order or duplicates, a crash between
rename and truncation counts nothing twice, a subagent's result is counted once.

### The rest
`index.ts` registers the parts in order. `catalog.ts`, `compat/catalog.ts` and
`compat/types.ts` parse and map (pure). `endpoint-picker.ts`,
`endpoint-selector.ts`, `login-ui.ts`, `terminal-width.ts`, `usage/format.ts`
render.

### How they interact
A login (lifecycle) validates a catalog with the provider's code (HTTP,
connection policy), writes credential and registry entry under the file lock,
creates a provider and registers it with pi. pi then calls the provider's
`refreshModels` with a store handle and a credential. An endpoint command writes
the overrides under the file lock and asks the provider for a foreground
refresh. A provider whose refresh ends asks the lifecycle to register it with
pi again. pi's `/logout` changes `auth.json` behind everybody's back. The usage
parts only share pi's events with the rest.

`PROJECT.json` lists under "hazards" every place where an order, a failure or a
crash can break one of these promises, with the property that would show it.

## 2. The modules

### `CompatProvider` and `CatalogBoard`
A step runs from one await to the next. `task` holds the calls in flight: its
kind (`refresh`, `background`, `foreground`, `login`), the await it is at (`pc`)
and the locals it carries across. `chain` is `withCommit`'s promise chain: the
owners waiting, the head running. `pricer` holds background pricing syncs.

| code | actions |
|---|---|
| `refreshModels` | `RefreshStart`, `PersistBegin/Write/End` (registry compare-and-swap), `LegacyRead`, `Restore`, `ConsumeBegin/Write/End` (the login's catalog), `FetchDone/Fail`, `CommitBegin/Write/Apply` |
| background, `/endpoint` refresh | `BackgroundStart`, `ForegroundStart`, then the fetch and commit steps |
| `login` | `LoginStart`, `LoginAnswer`, `LoginFetched/FetchFail`, and pi's `PiStoresCredential` |
| pricing sync | `PriceSynced`, `PriceAborted`, `PriceBegin/Write/End` |
| `shutdown`, `beginSession` | `ShutdownStart`, `ShutdownEnd`, `BeginSession` |
| surroundings | `OverrideEdit`, `OtherReplaces`, `OtherLogsIn`, `TimePasses`, `PendingExpires` |

A catalog is its origin: the fetch or login that produced it, the request that
committed it, its connection and the override version it was mapped with. A
request id stands for the time of its commit; `freshSince` is the id below which
a commit is older than the five minutes of the freshness window. `foreign`,
`floor` and `lastPub` are read by properties only.

Abstractions: a fetched catalog is never empty (an empty one fails the fetch);
an abort of pi's signal is a choice at each place the code looks at it; a pi
store transaction that lands after its promise was rejected is the same as one
that lands before; one login dialog and one awaited shutdown at a time; the
synchronous price seed of a new catalog does not touch the store. `Contract`
selects the store of pi >= 0.84 (a handle per phase) or of older versions; the
steps of pi's store are taken from the stand-in the repository's tests use
(`test/helpers`) and from the checks `catalog-store.ts` makes.

`CatalogBoard` says what a reader of the catalog may rely on: requests are
numbered, only the newest is displayed and only while a session is open, what
is on disk never goes back. `ImplementsBoard` maps
`issued <- latestReq, shown <- lastPub, saved <- stored.req, open <- ~shut`.

### `FileLock`
One path (the code's map is keyed by path, so paths do not interact). A call
arrives (joins its process's queue), waits for its predecessor whatever became
of it, tries for the lock up to `MaxTries` times, reads, renames, releases, and
settles; its `finally` forgets the queue if it is still the tail. The directory
of `proper-lockfile` goes stale when its owner stops refreshing it and may then
be taken over; its update timer notices and marks the call compromised; release
removes the directory whoever made it. A process may die at any step.
A body is a read followed by a rename; bodies that call `withFileLock` for their
own path are forbidden by the comment above the function and do not occur.

### `CompatLifecycle`
One instance id. Each login makes an incarnation, a number that tells whose data
each of the four places holds. A locked read-modify-write is one step, which is
what `FileLock` justifies. A process's `queue` is its `idTransactions` entry for
the id; logins and removals are tasks in it, and so is the cleanup when it comes
to this id.

| code | actions |
|---|---|
| login (`persistValidated`) | `LoginBegin`, `LoginCheck`, `LoginAssert`, `LoginCredential`, `LoginEntry`, `LoginUndo`, `LoginRegister`, `LoginAbandon` |
| `/llmgates remove` | `RemoveBegin`, `RemoveCheck`, `RemoveUnregister`, `RemoveRegistry`, `RemoveAuth`, `RemoveOverrides` |
| `pruneOrphanedInstances` and its loop | `LoopTest`, `LoopTxn`, `LoopRetired`, `LoopRegistry`, `LoopOverrides`, `LoopEnd` |
| waking the loop | `RetryFires`, `WatchEvent`, `PollFires`, `WatcherDies` |
| session events | `Load`, `SessionStart`, `ShutdownBegin`, `ShutdownEnd`, `Exit` |
| endpoint batch | `BatchOpen`, `BatchWrite`, `BatchCancel` |
| a refresh that ends re-registers its provider | `RegisterCurrent` |
| surroundings | `Logout`, `Relogin`, `Disturb`, `OtherIdCreates` |

`world`, chosen in `Init` from the constant `Worlds` and fixed from then on, says
what the surroundings do (`Deeds`); `Watchers` says how watching `auth.json` may
turn out (not established, working, established but
silent). `loggedOut`, `late`, `early`, `partial` and `made` are read by
properties only, apart from `made` numbering the incarnations.

Abstractions: the credential always belongs to this extension's scheme; pi
stores a re-login's credential in one step; logins and removals begin only in a
running session; the rollback of a provider whose registration with pi threw at
startup is left out; other ids only appear as writers of `auth.json`.

### `UsageObservation`, `UsageTotals` and `UsageLedger`
An observation is what the ledger tells apart: its kind, whether it is
provisional or final, whose spending it accounts for (execution, call, model
partition, own or whole subtree) and how new it is (`rev`, which falls back to
the sequence number as in the code). Amounts follow from the observation.
`Beats(p, o)` says that `p` is a newer account of the same; `Projection(S)` is
what a set of observations amounts to: its final ones that no other beats.

`UsageLedger` keeps the map and its index of snapshot groups in one record,
because `ingestBatch` works on a copy of both. JavaScript does not interrupt a
batch; its loop is still one step per observation, so that a refusal in the
middle is a step of its own.

| code | actions and operators |
|---|---|
| `acceptBatch`: what the memory allows | `Fits`, `TurnDown`, `Begin` |
| the loop of `ingestBatch` on its trial copy | `TryKnown`, `TryIngest`, `Refuse`, `Commit` |
| `ingest` | `Stale`, `Known`, `Full`, `Evictions`, `Replaces`, `Put`, `Settled`, `Ingested` |
| `finishRestore`, one archived row | `Restore` |
| `dropProgressForToolCall` | `DropProgress` |
| `noteGap` with a reason that loses spending | `NoteGap` |
| `finalizedTotals`, `finalizedModelStats` and their caches | `Read`, `Finalized` |

`UsageTotals` says what a reader of the totals may rely on: unless they are
marked as a lower bound they are the projection of everything delivered, in
whatever order and however often, and what was counted is withdrawn only for a
newer account. `ImplementsTotals` maps `heard <- offered` (the observations whose
delivery has ended), `shown <- Final(ledger.records)`, `unsure <- uncounted`.
`Finalized` then leaves out accounts that a finer one covers; that step reads
one set of rows and has no history.

Two assumptions on the sources carry this. A source does not say two things
under one identity and revision, and does not call an execution running after
reporting it final. The second holds because the only provisional observations
of the repository are progress reports, under an execution id of their own
(`toolprogress:`), that never become final. A source that broke it would take a
final amount out of the totals without a mark.

Modelling showed that a live batch never evicts: `acceptBatch` compares the
union of identities, provisional ones included, with the limit and turns the
batch down first. `evictProvisional` is reached from a restore only.

Abstractions: one attempt, producer and snapshot epoch per execution; a batch is
a set that the loop takes in any order, so an observation repeated inside one
batch is left out (it is refused like any second one of its identity); archived
rows that are not in the ledger are the number `Elsewhere`; `Restore` may come at
any time and takes any observation that is not progress, where the code has
stopped restoring once it has finished. The two direct calls of `ledger.ingestBatch` that replay archived
groups (`collector.ts:192`, `collector.ts:232`) are batches like any other here, and
`ReplayEntry` of `SubagentIngest` has them in their place; the second does not look
at the outcome. Coverage rows and the sums of the single metrics
are not modelled.

### `UsagePersist`
The journal and the checkpoint of one session tree, and the collectors of the
processes that share them. A file is the set of rows a reader can parse; `tear`
says that it ends in a line without an end and what left it there. A collector
(`coll`) has its archive, the rows not yet durable, the chain of writes and how far
its restore has come. `Readable` is what the next load would read.

| code | actions |
|---|---|
| opening, `acquireWriter`, `inspectCheckpoint` | `CollectorStart`, `LeaseGoesStale`, `CheckpointDamaged` |
| `restorePersistedBatches`, `finishRestore` | `RestoreSlice`, `RestoreJournal`, `RestoreEnd` |
| `acceptBatch`, `drainOriginBackfill` | `AcceptResponse`, `AcceptSnapshot`, `Backfill` |
| `append` | `AppendRow`, `AppendFails` |
| `writeCheckpoint` | `CheckpointRename`, `CheckpointFails` (the failing `chmod` after a rename included), `JournalTruncate`, `TruncateFails` |
| `checkpointAndClose` | `CollectorClose`, `CollectorEnd` |
| the process ends anywhere | `Crash` |

Abstractions: sizes are counted in rows; rows are restored one
at a time, in any order, of the checkpoint as it was at the start and then of the
journal as it is by then; a line is written whole, in
part or not at all. Roots, their deletion and the window of the legacy form are
left out.

### `SessionRecovery`
`UsageSessionRecovery` whole. The entries of the log are numbered in the order pi
appends them and each is the parent of the next; `Owner` names the entry that
proves who launched an entry's run. `rec` holds the object's fields; `counted` and
`known` are read by properties only. A slice (`drain`) is a sequence of steps
that nothing interrupts but at an awaited task: `Drain` begins it, `DrainStep` is
one turn of its loops (live tasks, the leaf walk, the replay, deferred entries,
background tasks), and while one is under way only what may come during an
`await` is enabled.

| code | actions |
|---|---|
| `start`, its idle probe | `Initialize`, `IdleProbe` |
| `noteEntry`, `expirePending`, `boundary` | `NoteEntry`, `PendingExpires`, `Boundary`, `IntervalPasses` |
| `enqueueBatch`, `bindRun`, `reconcileSnapshot` | `Enqueue`, `BindRun`, `ReconcileSnapshot` |
| `schedule`, `drain` | `Drain`, `DrainStep` |
| `stopAndDrain` | `Stop`, `StopDrains`, `StopEnds` |
| surroundings | `AppendEntry` (pi), `SessionReplaced` |

Branches and compaction of the log are left out, and so is which numbers an entry
carries (`reconciliation.ts`, `legacy-adapter.ts`): they are the observations of
`UsageLedger`.

### `SubagentIngest`
One subagent run with two children and the sum of the run, `Aggregate`. `disk` is
when each meta file was last written and whether it tells usage; a file is named
for a directory and an index, or is of the form without one. `st` is
`SubagentIngestState`, `ledger` which way each key's row came, `archive` what a
reload finds, `queue` the tasks of the recovery.

| code | actions |
|---|---|
| events of other extensions (`tps-subagent-bridge.ts`) | `AsyncComplete`, `RunObserved` |
| the tool's result in the log | `ToolEntry`, after a reload `ReplayEntry` |
| meta files, watchers, put-off scans | `WriteMeta`, `WatcherCalls`, `ScanTimerFires`, `Settled` |
| tasks: `applySubagentRecords`, `scanSubagentMetaArtifacts` with `collectPiSubagentsMetaUsage` and `revokeAmbiguousIndexlessMeta` | `RunCompletion`, `RunScan` |
| `restoreSubagentIngestState` | `Reload` |

Selecting (`selectFreshSubagentRecords`) and collecting are operators on `st`. A
clock dates files and sessions. Toggling the source and parsing a file are left
out.

### `TpsSession`
What `tps.ts` sets up in `session_start` and takes down in `session_shutdown`.
`tps` holds the closure's variables, `call` the handlers under way with the await
each is at, `recovery` and `collector` the objects each start made, `bridges` and
`probes` the listeners the event bus really has. A generation tells overlapping
handlers apart.

| code | actions |
|---|---|
| `session_start` | `SessionStart`, `StartCloses`, `StartOvertaken`, `StartSession`, `RestoreOvertaken`, `StartDone` |
| `session_shutdown` | `SessionShutdown`, `ShutdownOvertaken`, `ShutdownSession`, `ShutdownEnds` |
| what they await | `RecoveryGoesOn`, `CollectorCloses` |
| turns | `BeforeAgentStart`, `AgentSettled`, `SettledTask` |
| the footer | `Microtask`, `RefreshTick`, `RecoveryChange` |
| events of subagents | `BridgeEvent`, `WatcherEvent`, `ScanTimer` |

pi awaits its handlers; `Overlap` lets a new event come before an older handler is
done, which is what the generation is there for. The figures drawn are left out.

### `ModelAudit` and `SseObserver`
`ModelAudit` has several instances of the extension: a process's main session,
which owns the marker in the environment while it lasts, sessions hosted
beside it, and a child process with a copy of its parent's environment. `req` holds
the requests under observation with the marker each began with, `history` the
file with its records and, per root, the counts that outlive them; `fate` and
`given` are read by properties only.

| code | actions |
|---|---|
| `sessionStart`, `beforeAgentStart`, `agentSettled`, `sessionShutdown` | `AuditStart`, `BeforeTurn`, `TurnSettled`, `AuditShutdown`, `FlushEnds` |
| `observeStream` | `ObserveStream`, `Finalize` |
| `appendModelAuditMismatch`, `clearModelAuditHistory` | `AppendWrite`, `ClearHistory` |
| surroundings | `Spawn`, `FileChanges`, `Exit` |

An update of the file is one step, which its lock justifies. A file is readable,
missing, corrupt (and moved aside by the next write) or of a newer version (and
left alone).

`SseObserver` is the parser of the stream and the tracker behind it. The stream is
a sequence of tokens: `data:`, the two line ends, and payloads that declare the
requested model, another, or the terminal one; a token counts as a character. `ChunkArrives` takes the
network's next piece, `StreamEnds` flushes. `push()` takes its piece character by
character (`Taken`), as its loop from one line end to the next comes to the same.
`Events` is a definition of a stream's events that looks neither at pieces nor at a
parser's state: split the text at its line ends, the lines at blank ones, drop what
passes the cap. `ObservedAsDeclared` compares.
Deciding whether two names are the same model (`compare.ts`) is left out.

### `LastModel`
Sessions of several processes share the record. `session` is where a restore is, what
it found, what is selected, and the queue of microtasks with its level events;
`handler` the handler of a selection event between its read and its write of the
record. `used` and `overlapped` are read by properties only.

| code | actions |
|---|---|
| `session_start`, `restoreLastModel` | `StartLast`, `SetSavedModel`, `SetSavedLevel`, `RestoreEnds` |
| `model_select`, `thinking_level_select` | `UserModel`, `UserLevel`, `LastMicrotask`, `WriteLast` |

pi is external: `Clamp`, `WithModel` and `WithLevel` are its `setModel` and
`setThinkingLevel`, which clamp a level to the model's `Ceiling`, take the level of
the settings anew with a model, and tell the level by a microtask.

### `InputHistory`
`hfile` are the files of the directory's scope and of the global one, `config` the
settings, `term` a terminal with its chain of writes, the scope its environment
forces, the commands under way and the stack of editor factories. `log` (what was
written to a file since it was last gone) and `told` are read by properties only.

| code | actions |
|---|---|
| `session_start`, `session_shutdown` | `LoadHistory`, `StartHistory`, `EndHistory`, `HistoryEnded` |
| a submitted prompt, `schedulePersist` | `Submit`, `PersistBegins`, `PersistEnds` |
| `clear`, `on`, `off`, scope | `Command`, `ClearEnds`, `SettingEnds` |
| surroundings | `FileDamaged`, `OtherEditor`, `HistoryKilled` |

An update of a file is one step under its lock; `FileLock` is the detail. Moving
in the history is the editor's.

### `PricingCache`
Sessions of several processes, each with a chain of rounds, misses that were
confirmed of late, and the values it estimates with; `price` is the shared file,
which no lock guards, `table` the public table. An item is a price or a context
window of a model; `since` says how long the table has had an entry for it, and
`best` (read by a property only) what the last round of a catalog brought.
`RefreshPricing` joins a round that waits; `RoundBegins` reads the file and decides
whether to download; `TableServed`, `LoadFails`, `RoundWrites`, `WriteFails` end it.
`Ticks`, `TableChanges`, `FileEdited` are the surroundings. How a model's name is
found in the table is left out.

### `GatewayRequest`
One request of `requestLimitedJson` and the probe of the balance that makes up to
three. A promise is settled in one step (`GatewayAnswers`, `GatewaySends`,
`TimerFires`, `CallerAborts`) and what awaits it goes on in a later one
(`FetchReturns`, `ReadReturns`), so that a signal may fire between; `BeginRequest`
starts a route. A URL is its scheme, the kind of its host and whether it
carries credentials; `Allowed` is the transport policy of `connection.ts` on these. A body
is a number of chunks. The gateway is external: it may answer anything, at any
time or never.

### `EndpointCommands`
The three commands, each from the guard to its verdict. `overrides` is the file of
each gateway, `registry` what pi's model registry shows, `current` the session's
model with the endpoint it was bound with. What a dialog returns is a choice.

| code | actions |
|---|---|
| the guard, the dialogs | `Invoke`, `PickModels`, `SelectEndpoint`, `CancelDialog` |
| `waitForIdleBounded` | `SessionIdle`, `IdleTimesOut` |
| `applyGroup`, one group after another | `WriteGroup`, `RefreshGroup`, `VerifyGroup` |
| verdict and rebinding | `MergeOutcomes`; `/llmgates-reload`: `ReloadOne`, `ReloadRebinds` |
| surroundings | `UserSelects`, `BackgroundRefresh`, `OverrideEdited`, `EndpointShutdown` |

The refresh of a catalog is `CompatProvider`'s: here it takes the file into the
registry or fails. `seen` counts what came in between and is read by the verdict's
property only.

### The composed modules
`MCUsage`, `MCFiles`, `MCSessions` and `MCLive` put components side by side that
share no variable. A behaviour has one `scene`, the component that runs, and the
others rest in their initial states: one run then checks each component as if it
were alone, with the components' own `Init`, `Next` and fairness. Where components
do interact, one models the other's effect as a step (the sections above say
which).

## 3. The runs

Deadlock checking is off everywhere: the systems stop when their bounded
inputs are used up or every process has ended.

| run | configuration | question |
|---|---|---|
| `provider_refresh` | `MCCompatProvider_refresh` | Two calls in flight out of all kinds, three requests, two phases, a restart, an override edit; or a login to another gateway in the first generation: does an endpoint change stick, is a restore ever older than what it replaces, is a login's catalog kept, is anything of an old connection displayed? |
| `provider_legacy` | `MCCompatProvider_legacy` | The old store contract with write errors, two keys of one gateway and a pricing sync between two commits: one body at a time, writes in order, the board, and the freshness window. |
| `provider_live` | `MCCompatProvider_live` | With a pricing sync and another process that replaces the entry and the credential: does shutdown return, does the commit chain move, is nothing written after shutdown has returned? |
| `lifecycle` | `MCCompatLifecycle_one` | Two transactions in one process, in each of four surroundings alone: an `auth.json` that goes missing or is half written; file and runtime operations that fail and a process that ends anywhere; endpoint batches and refreshes ending in the middle of removals and logins; re-logins while the cleanup waits. Do the four places agree, is only what was logged out cleaned up, does nothing come back or work on? |
| `lifecycle_logins` | `MCCompatLifecycle_two` | Two processes log in to and remove one id: does any login overwrite another's? |
| `lifecycle_live` | `MCCompatLifecycle_live` | With gaps in `auth.json` and transactions of other ids: is a logout cleaned up while the session lasts, whatever the watcher does; does `session_shutdown` return? |
| `usage` | `MCUsage` | The ledger: is every total that of the set delivered, in any order, batch, repetition and restore? The files: after crashes, lapsed leases and a failing disk, is what was told durable readable? The recovery: is each entry counted once, with no lost wake-up? |
| `files` | `MCFiles` | The lock with two processes, takeovers included: turns, updates kept, no false failure. The last model: is only the user's choice recorded, does it come back as it was? The history: is every prompt in its place? The prices: is no round skipped for nothing or undone by the next? |
| `sessions` | `MCSessions` | Session events that overlap: does anything leak? A subagent's usage by all its ways: counted once? The audit: right root, right counts? The stream: read the same however it is cut? A probe: bounded, obedient to its signals, told as it was? Endpoint commands: one at a time, written whole, told truly? |
| `live` | `MCLive` | Does every call of the lock return, does the recovery find every entry and stop, is the commands' guard given back, does a probe of a silent gateway end? |

All of these pass. For every property `PROJECT.json` names a mutant of a modelled
function, the kind of slip a later change could make, that the property catches.

Several properties are conjunctions of named parts, listed above each in its
module: `CommitsInTurn` (one body at a time, writes in order, freshness),
`CommitsEnd` (shutdown returns, every commit leaves the chain), `CallsInTurn`,
`LedgerIsConsistent` (index, cache, capacity), `GoneStaysGone`, and those of the
modules from `UsagePersist` on (`StorageIsSound` to `CommandsAreExact`).

### Disagreements found
Two have a run that TLC finds violated; `PROJECT.json` quotes the lines.

| run | what happens |
|---|---|
| `provider_stale` (`MCCompatProvider_v_stale`) | A lifecycle change during the provider's own registry write leaves `persistedInstance` behind; its next write takes its own entry for somebody else's and the refresh is dropped. |
| `lifecycle_recreated` (`MCCompatLifecycle_v_others`) | A missing `auth.json` is re-created empty by another id's transaction, and instances nobody logged out are removed. |

Six more behaviours surprised while modelling, but contradict no line of the
repository outright. The modules state the property each one fails, which no run lists;
adding it to the configuration named shows the behaviour.

| property | configuration | what happens |
|---|---|---|
| `EndpointChangeIsNotUndone` | `MCCompatProvider_refresh`, without its `CONSTRAINT`, with `MaxGen = 1`, `MaxReq = 2` | The catalog of a login is displayed after an endpoint change and brings the old endpoints back until the next refresh. |
| `RestoreNotOlder` | `MCCompatProvider_legacy` | pi before 0.84: a cache-only refresh restores a snapshot older than the catalog just published. |
| `MemoryOnlyIsNotFresh` | `MCCompatProvider_refresh`, with `MaxPhase = 3` | A catalog that pi refused to persist inherits the previous freshness window, which skips the refresh that would store it. |
| `OldEndpointsStayGone` (invariant) | `MCCompatLifecycle_one` | An endpoint batch answered after its instance was removed leaves overrides for the next instance of that id. |
| `EveryLogoutIsCleaned` | `MCCompatLifecycle_live` | A logout between the two writes of a login is consumed before the registry lists the id. |
| `LoggedOutProviderStops` | `MCCompatLifecycle_live`, with two processes and `Worlds <- Quiet` | After one process has taken a logged out (or removed) id out of the registry, the other keeps its provider: its cleanup no longer finds the id. |

Others show in the modules as an exception a property makes, or as an action
the properties allow; no document promises otherwise.

- Two processes that clean up one logout (`compat/index.ts:366`): between the last
  read of `auth.json` and the removal, the other may remove the id and log in to
  it again; `removeInstance` compares ids only.
- `UsagePersist`: after an append that failed with something other than a full
  disk and left part of a line, the next append is reported durable though
  it continues that line and cannot be read (`tear = "fault"`).
- `SessionRecovery`: `session-recovery.ts:315` asks for a final pass only if
  the walk processed an entry, so a pass asked for while the last, empty slice runs is
  dropped, until the idle probe. `stopAndDrain` forgets a walk under way, and the
  idle timer that a `start` sets after it is not cleared.
- `SubagentIngest`: a completed child whose meta file was once stable without
  usage and then changes is read again by every later scan. After a reload, an indexed
  file that replaces a revoked one without index only sets a baseline.
- `TpsSession`: a shutdown that overlaps a start still restoring leaves that
  start's listeners until the next `session_start`; a second `checkpointAndClose`
  returns while the first is still writing.
- `LastModel`: what a user selects during a restore is not recorded; two handlers
  at once lose one of the two fields.
- `InputHistory`: `clear` does not go through the chain, so prompts that wait make
  the file again; if another extension wraps our editor factory, installing it again prefills
  twice; without a `CustomEditor`, the notice about the global scope is not given.
- `EndpointCommands`: a command binds the model it read before its refreshes, over
  a newer choice of the user's; a batch that waits for the lock makes the file of
  a removed instance again.
- `PricingCache`: an edit of `pricing.json` during a download is lost; two catalogs
  share one age of the file, and the refresh of one puts off the other's.
- `SseObserver`: an empty piece between the two characters of a line end splits
  the event. The network does not deliver empty pieces; the model leaves them out.

### Bounds, and why they are enough
*Provider.* Two tasks and at most one pricer: every check in the code compares a
call with the newest request, the open session or the head of the chain, so a
conflict is between one call and the last that moved those. Three requests give
an older, a current and a newer one; two phases a current and a superseded store
handle; two generations a restart; one override edit a before and an after.
`MaxReq`, `MaxPhase`, `MaxGen`, `MaxOv`, `MaxNonce` guard the actions that count;
the safety theorems do not depend on their values. Connections: one where only
order matters, two keys of one URL for the legacy run, two URLs where the
connection matters. The constraint `RefreshesOrLogins` of `provider_refresh` keeps
two families out of the product: refreshes with all bounds and no login, and a
login among two requests of the first generation.
*Lifecycle.* Two transactions in one process (and two processes with one each),
two or three incarnations: the one there was, the one a login makes, and one
after a removal. `MaxStamp` bounds the changes others make to `auth.json` (a
logout, a gap and its repair fit), `MaxRetries` the retry budget. Failures, gaps,
edits and re-logins are separate values of `world` because their product is too
large and they start from independent causes; a process end is in each of them.
Tasks, and processes where there are two, are symmetric in the safety runs; the
liveness runs use no symmetry.
*Ledger.* Eight observations hold every pair the code distinguishes: two revisions
of a group of which the newer has fewer partitions, two scopes, a call whose
provisional and final accounts share no identity, a progress report. Memory for
four, of which `Elsewhere` takes one from live batches, makes batches be turned
down and restores evict; batches of up to three with `PerTick` two pass that
limit as well.
*File lock.* Two calls of one process and one of another process: a successor,
and a contender that may take the lock over. One try; more repeat the same step.
The theorems hold for any number of processes, calls and tries.
*Journal and checkpoint.* Two processes, a response and a group in two revisions
of up to two models, three accepted batches, two starts and one fault: a batch
before the checkpoint, one beside it and one after; a crash and a reload; files
that hold two rows, so that both fill up.
*Recovery.* Four entries of which one needs the first to be counted, an index of three, slices
of two: an entry is deferred, the log passes the index, and a slice ends in the
middle of each loop. One event for safety, two for liveness with two entries.
*Subagents.* A file with an index and one without in two directories, one
reload, three events, three points in time, a queue of one: each way before and
after each other, a cut scan, a dropped task.
*Session events.* Three: a third comes while the second awaits what the
first left. *Audit.* Three instances in two processes, two requests, a history
of one record, root and turn: each limit is reached by the second. The parent process
starts with a marker that cannot be read, as from an older version, to keep the
run small.
*Stream.* Every text of six tokens in pieces of one or two, with a cap of three.
*Request.* Redirects up to three hops, two chunks, all URLs over scheme, three kinds of
host and credentials. *Endpoint commands.* Two gateways that publish a model of the
same name, two commands, one thing that goes wrong or comes in between.
*Last model.* Two sessions in two processes, two models of which one has a lower ceiling,
two levels, two selections. *History.* Two terminals of one directory of which one shares
the global scope, three texts for a history of two, three prompts, two
commands, one fault. A history of two is cut at its length by the third prompt, but
cannot hold a prompt twice: that an older entry of the same text is left out of a
longer history rests on the theorem `HistoryAlwaysKept`, for every `MaxHistory`. *Prices.* Two sessions and one catalog, misses that hold for
one tick, a file for three, four ticks, one change and one fault.

### Fairness
JavaScript runs every settled promise's continuation and every due timer, so the
steps of tasks, pricers, transactions and the cleanup loop, the poll and the
retry timer are weakly fair. A fetch ends because the request has a timeout. The
user, pi's own calls, other processes' deeds and process ends are not fair, and
neither are watch events: a watcher may be silent, which is why the code polls.
`LogoutIsCleaned` therefore rests on the poll, and is stated for sessions that
keep running with a readable `auth.json`.
`EveryCallReturns` assumes a body ends and a lock attempt answers.
`RecoveryEnds` takes the idle probe and the interval as strongly fair: slices come
between, but a timer that is due again and again fires. `GuardIsFreed` assumes
that a command goes on by itself but for a dialog, which only the end of the
session closes. `ProbeReturns` assumes the runtime and the timer, and nothing of the
gateway.

## 4. The proofs

All theorems hold for every value of the constants under the named assumptions
(bounds are naturals, task and pricer slots are disjoint, `UrlOf` maps
connections to URLs, `ProcOf` maps calls to processes, `Nobody` is no call, there is a
highest thinking level and each model's ceiling is a level, catalogs are not empty,
times are positive and the clock may reach the first `Ttl`, and for the ledger the
assumptions on observations and progress described above; an entry's owner comes before
it in the log; and for the audit one main session in each process, which alone may have a
TUI, and finitely many requests).

Each state predicate and each safety or action property that a passing run checks, the
types included, is a theorem, for every value of the constants but the ones named above
and in the bullets; only liveness is left to TLC.

`CompatProviderProofs`
- `TypeCorrect`: `TypeOK`.
- `CommitBodiesExclude`: `OneBodyAtATime`. Only the head of the chain is inside a
  body, and an owner appears in the chain at most once.
- `CommitsInOrder`: `WriteOrder`, by the inductive invariant
  `CommitInv == TypeOK /\ OneBodyAtATime /\ WriteOrder`. That the store never goes
  back is not inductive: between the check and the write another body could
  write a newer catalog. `WriteOrder` says that every write in flight is at least
  as new as what is stored; it survives a write because, by `OneBodyAtATime`, no
  other write is in flight then.
- `FreshnessIsDurable`: `FreshMeansStored`, a part of the same invariant.
- `CommitsTakeTurns`: `CommitsInTurn`, the three together, as the run checks them.
- `ProviderImplementsBoard`: `CompatProvider` implements `CatalogBoard`; each step
  maps to a step or a stutter, with `CommitInv` supplying that saves move forward.
- `EndpointChangesStick`, `DisplayedForTheConnection`, `PendingIsKept`: the action
  properties of what is displayed, by `FlowInv`: what each kind of call carries from
  one await to the next. A fetch of the newest request read the overrides after the last
  endpoint command asked; a refresh of the provider's own has a connection to
  compare with as long as its session lasts; a refresh consumes the catalog of the
  login whose nonce it was called with. One lemma, `TaskMoves`, says of every step
  of a call what it may change of its locals; the invariants use nothing else.
- `RestoresAreNotOlder`: `RestoreNotOlder`, assuming `Contract = "publish"` (section 3
  shows the older contract failing it), by `SnapInv`: the snapshot of a refresh that no
  newer request made obsolete is what is stored, and every catalog or call that
  could still be written is of an earlier phase, whose handle pi refuses.
- `QuietOnceShutDown`: `QuietAfterShutdown`, by `QuietInv`: after `shutdown()` began,
  whoever is in a body is among those it waits for, and nobody enters one.

`FilesProofs`, the file lock
- `TypeCorrect`.
- `QueueIsFair`, `CallsTakeTurns`, `MapHoldsTheTail`, and `QueueInTurn` for
  `CallsInTurn`: by `QueueInv`, which adds to
  `TurnsInOrder` and `TailIsNewest` that turns are distinct, that the map's tail
  belongs to its process, and that `previous` is the latest call before one's
  own. Without the last, nothing says whom a call waits for.
- `UpdatesAreKept`: `NoLostUpdate`, by `LockInv`: while no running body lost its
  lock, a body in progress owns the directory and has read the current file.
- `CompromiseNeverReported`: `CompromiseIsQuiet`, by `OutcomeInv`: a landed update
  has passed the body, so only the release can still change its outcome.

`FilesProofs`, the last model
- `LastModelAlwaysTrue` (`LastModelIsTrue`), `LastTypesCorrect`, for any number of processes,
  sessions, models, levels and selections: by `LastInv`. The latch covers the restore's own
  events (`Latched`): one that is queued finds it up, nothing of the restore's is behind
  the microtask that drops it, and that one is not queued before the restore is over. So a handler
  runs for the user's events alone. `PutBack` says what the restore has set so far, unless
  the user came in between. And unless two handlers ever ran at once (`Tells`), the one that runs
  is about to write what it was told, and with none the record says it.

`FilesProofs`, the prices
- `PricesAlwaysAdvance` (`PricesAdvance`), `PricingTypesCorrect`, for any number of processes,
  catalogs and models: by `PricingInv`. What a process noted as missing was missing at that
  time: an entry came later if at all (`Noted`, `Loaded`), so a miss that is believed hides nothing
  older than the retry interval. The file is never ahead of the table, and the table a round got is not
  older than the file it read: what a round writes is not below either. A value that was
  brought and could not be written is kept by `BestKept`: the file still lacks
  something of that catalog, because the round went on for that reason and what is lacking is
  lacking until it is noted (`LacksStays`). So the next round cannot be skipped and finds
  the value in the table.

`FilesProofs`, the input history
- `HistoryAlwaysKept` (`HistoryIsKept`), `HistoryTypesCorrect`, for any number of terminals,
  prompts, commands and failures. The order of the entries is `RecencyInv`: each file is
  `ByRecency` of what was written to it. That survives a merge because the
  filter keeps the order of what it does not drop and drops one entry at most
  (`WithoutIs`, by induction over the entries), so that the list is cut only when full, and what is
  cut is older than what stays (`MergedIsRecent`). A prompt that is at the head already is
  written to no effect (`SameIsRecent`).
- `HistoryAlwaysDisclosed` (`HistoryIsDisclosed`, the other part of `HistoryIsKept`): by
  `HistoryInv`. Whoever may queue a prompt for the shared history, has
  noted that the notice was shown, or is writing so to the file, was preceded by the notice
  (`Disclosed`), through every reload of the settings. Only who is subscribed has a chain,
  and a session that does not wait at its end never was (`Subscribed`). `LayerPeeled` and
  `LayerAdded` are about the stack of editors: with our layer taken off, none of ours is on
  top, and so putting it back wraps none.

`FilesProofs`, the scenes
- `FilesTypesCorrect` (`FilesTypesOK`): the scene that runs keeps its component's
  invariant, and the others rest. `UsageTypesCorrect` and `SessionsTypesCorrect` are the
  same for the two other composed modules.

`UsageProofs`, the ledger
- `LedgerImplementsTotals`, `IndexAlwaysMatches`, `TypeCorrect`: by `IInv`. While no
  loss is marked, every final observation delivered is in the map or beaten by a
  row of it; the trial copy says the same of the rows it started from and of what
  it has taken. That is preserved because one `ingest` removes a final row only
  for an observation that beats it (`IngestedKeeps`), because beating is
  transitive, and because what `Stale` leaves aside is beaten by a row that is
  there, for which the index has to match. `RowsAreTheProjection` then gives the
  refinement: in an indexed map no row beats another.
- `AlwaysWithinCapacity`: each `ingest` brings a row in for one that goes, or finds
  room. When a newer revision replaces a group, the group has a row to give.
- `CacheAlwaysCurrent`: whatever changes the rows or the mark drops the cache.
- `LedgerAlwaysConsistent`: `LedgerIsConsistent`, the three invariants together.

`CompatLifecycleProofs`
- `OrderInvariant`, `TypeCorrect`, `SessionsStop` (any number of processes): `OrderInv` adds
  to the types that `queue[p]` holds each transaction of its process once, that only
  its head is past `queued`, that the cleanup is in it exactly from
  `LoopTxn` to its end, and that nothing of a stopped session can wake the loop.
- `RemovedStaysGone` (`GoneStaysGone`), `PlacesAlwaysAgree` (`PlacesAgree`),
  `CleanupAfterLogoutOnly` (`CleanupOnlyAfterLogout`), under `One`: there is one process. They do
  not hold with two (section 3, disagreements), and no document says so. `PlacesInv` tells
  for each place which transaction may be about to change it when it does not agree
  with the entry: a credential that a login may still undo or a removal will delete, a
  provider still registered because its removal is at its shutdown, overrides of a
  removal or a cleanup that has not come to them. So at rest nothing is half done. The action property
  follows because the queue keeps every other transaction away from the entry from the
  cleanup's last read on; that the credential it found missing means a logout is
  `LogoutInv`, in worlds that are `Ordinary`: no other id's transaction makes
  `auth.json` anew, and no failure of a write comes on top of a gap or a re-login.
  With the other ids TLC violates the property (`lifecycle_recreated`).
- `LoginsExclude` (`OneLoginWins`, any number of processes), by `OrderInv` and `WholeInv`, for
  worlds in which nothing takes `auth.json` away and pi stores no credential of its own, as in the
  run: with the file readable, each of a login's two writes tests under the lock that its place is
  free, and whatever else writes there empties it.

`GatewayProofs`
- `RequestSound` (`RequestIsSound`): by `RequestInv`. `hops` is one longer than the
  redirects followed, all of it allowed and of the origin of the first; while the
  probe goes on, the routes before the current one have answered, none with a failure.
- `CommandsExact` (`CommandsAreExact`): by `EndpointInv`. The guard is held by the one command
  that runs; each group of a command is either left, the one at work, or has its outcome; and as long as
  nothing went wrong or came in between (`seen = upsets`), every group done still is in
  the file, in the registry and in the session as the command left it.

`SessionProofs`, the session events
- `SessionsAlwaysEndClean` (`SessionsEndClean`), `TpsTypesCorrect`: by `TpsInv`. Two handlers
  past their generation check are not of one generation, and the generation never
  passes the number of events begun (`GenInv`); a session that is not active has
  nothing, and nobody restores for it (`RestInv`); a handler that is to close
  a collector has the one of its generation, and one that is closing has a handler waiting for
  it (`CollInv`). Without the last, nothing says that a collector overtaken in the middle of
  a restore gets closed at all.

`SessionProofs`, the model audit
- `AuditAlwaysSound` (`AuditIsSound`), `AuditTypesCorrect`, for any instances, requests, bounds,
  damages and clears: by `AuditInv`. Only a main session's own instance owns the marker of its process, and
  what it puts back is what the process was given (`MarkerInv`). A request still under
  way has the marker and a turn of the generation it began in (`RequestsInv`), so a report that comes
  when the generation is over is dropped. `CountsInv` says of each root what its entry counts: all
  that was written for it since the last clear, each turn no more than its own, and exactly its own
  until a turn is trimmed. Adding a record keeps that (`Updated`), and trimming turns or roots
  takes whole entries.

`SessionProofs`, the observer of the stream
- `ObservedAlwaysAsDeclared` (`ObservedAsDeclared`), `ObserverTypesCorrect`, for texts of any
  length, cut anywhere, and any cap. `Reads` ties the parser's fields to the
  text read so far: `line` is what stands after the last line end, `data` the data of the block
  after the last blank line, `overflow` that this block is too long already. One more character
  changes the lines, blocks and events of the reference definition in one of a few ways,
  and the parser follows in each; a piece follows by induction over its characters. The order in which the pieces
  came is gone then, which is the claim. Once the tracker concluded, nothing the rest of
  the text declares would change its verdict (`Concluded`), so that decoding no further is right.

`RecoveryProofs`
- `RecoveryIsCorrect` (`RecoveryIsSound`), `RecoveryTypesCorrect`, for any length of the log, any owners
  of its entries and any limits: by `RecoveryIInv`. Its first half is about control: what is
  left to do has its next slice scheduled, and a look at the log that is due has its timer or a slice that
  sees to it (`ControlInv`). The second is about what has been found (`Coverage`): as long as no gap was noted,
  every entry asked for has been found, or the replay, the walk from the leaf or the next look
  at the leaf will find it (`Findable`). A walk stops at the first entry that was found, and so this needs
  that below an entry that was found nothing is missing but what the walk still
  comes to (`Downward`), and that the replay goes from the oldest entry up (`Replayed`). What was
  found is counted or put off (`Remembered`), and background tasks wait until nothing is put off
  (`Retried`): that a meta file is read after the entries follows.

`IngestProofs`
- `UsageCountedByOneWay` (`CountedByOneWay`), `FinalStaysInferredGoes` (`FinalOrRevoked`),
  `IngestTypesCorrect`: by `IngestInv`. Ledger, archive and `st` say the same of
  every key after each record applied (`WorkOk`), and nothing is inferred before the
  log was replayed (`ReplayFirst`). Each step of a scan (revoking, reading, collecting, applying) has a lemma
  of what it does to `WorkOk` and to what a file has to tell that is new (`Grown`). That no
  file is stranded is then proved step by step: a scan either reads all it found, or
  arms the timer or notes a gap. This part assumes `OneFileEach`: a run writes one file for a child
  under its index (`tps-subagent.ts:451` parses run, agent and index from the name). Without it TLC finds a file left unread.

`UsageProofs`, the journal and the checkpoint
- `StorageAlwaysSound` (`StorageIsSound`), `PersistTypesCorrect`, for any number of
  collectors, starts, accepted batches, faults and crashes: by `PersistInv`. While
  no live writer has lost its lease, at most one collector writes, and one
  that may write knows all there is: every row that is readable, queued or still to
  be restored is in its archive, or a later revision of it (`RestoreOk`). Therefore a
  checkpoint drops nothing, and the journal may be emptied after it: what was renamed
  covers the journal (`TruncateOk`), so that a crash in between leaves rows twice and not
  missing. `Unique` (one content for one identity and revision) makes reading them twice harmless, and
  `WholeGroups` keeps the models of a snapshot of one revision; the journal
  holds responses only, and so a reload cannot mix two.

The theorems, but for the types of the scenes, are about the component's own
specification; in the composed modules its scene is exactly that specification.

The library's induction theorems take an operator and cannot be used here. Induction over
a text, a file or a slice is done with a set instead: a set of numbers that has 0 and with each
the next has them all (`UpTo`, from `WFMin` and `NatLessThanWellFounded`), and recursive
functions stand where the code loops.

Proving changed the models where they were wrong or hid a case:

- `UsagePersist`: an append that fails after an earlier fault spoiled the end of the
  file no longer makes that end look like the trace of a full disk. `ReloadIsSound`
  is stated while no live writer lost its lease: two writers may give one
  revision to two breakdowns, and a load then reads a mixed group (`collector.ts`,
  `restoreRow`); TLC shows it once a group has two breakdowns.
- `LastModel`: that there is a highest level, from which pi starts, had been implicit.
- `GatewayRequest`: arms of a CASE in `Probed` overlapped, so which one was
  meant was TLC's choice; now they are tried in the code's order.
- `SubagentIngest`, `SessionRecovery`: the operators of a scan and of the queue are split so
  that each can have its lemma. Assumptions that had been implicit are named
  (finite sets, bounds of at least one).
- `SessionRecovery`: `LeafSlice` sorted a set; the entries of a slice of the walk follow each
  other, so it now names them in their order.
- `ModelAudit`: that a process has one session of its own, and only that a TUI, had been
  implicit. A sum over the turns became a statement about each turn, which is
  stronger: a turn counted for another had kept the sum. `Updated` has a name for its lemma.
- `SseObserver`: `push()` was a fold over a filtered piece, its reference a chain of filters; both
  are now functions of the position. `InputHistory`: the filter of `mergeHistoryEntry` is one too, and
  the property says in what order the entries come instead of sorting the prompts.
- `MCUsage`, `MCFiles`: constants renamed that shadowed bound variables of the modules.

Only model-checked: the liveness properties `CommitsEnd`, `EveryCallReturns`,
`LogoutIsCleaned`, `ShutdownReturns`, `RecoveryEnds`, `GuardIsFreed` and `ProbeReturns`, because the prover
knows neither fairness nor ENABLED. Their safety halves are theorems where there is one: what waits has
its wakeup (`NoLostWakeup`), a queued call waits for one that was not forgotten (`PrevIsLatest`), and the guard
is held by a command that runs (`CommandsExact`).

## 5. The plan

What would come next: the liveness properties, with a prover that knows fairness; and two
processes that clean up one logout (`compat/index.ts:366`), once the repository says what
should happen there.

## 6. Not modelled

- Rendering and key handling of dialogs, formatting, messages, help texts: nothing
  in them outlives the call.
- Parsing and mapping of gateway answers (`catalog.ts`, `compat/catalog.ts`,
  `compat/types.ts`), of meta files and usage entries (`reconciliation.ts`,
  `legacy-adapter.ts`), comparing model names (`compare.ts`) and finding a name in
  the price table: pure functions of strings and numbers. A model would
  restate the code; what they return is a choice in the modules above.
- The usage inlets convert foreign events to observations without state of their
  own: what comes out is the input of `UsageLedger` and `SubagentIngest`.
- `index.ts` registers the parts in order, at load time.
- The streaming adapters belong to pi, as does what pi does with a provider
  registered after `session_shutdown`.
- The sums of the single metrics, coverage rows, the statistics of a turn: sums
  over rows whose set `UsageLedger` settles.
- The deprecated `updateInstance`, which only a test calls.
