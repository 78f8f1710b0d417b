# Ledger wallet common: a verification project

This directory holds TLA+ models of the parts of *ledger-wallet-common* (the
library shared by Ledger Live desktop, mobile and the command line) whose
correctness depends on the order in which things happen, the TLC configurations
that check them on small instances, and TLAPS proofs of their main properties
for every value of their constants. `PROJECT.json` lists the components, the
runs, the lines of the source each definition models, the mutants each property
kills, the hazards of the code, the findings and the theorems.

Paths below are relative to the repository (`src/src/...` is the library).

    tlc -workers 2 -config MCDeviceAccess.cfg MCDeviceAccess     # a run
    tlapm DeviceAccessProofs.tla                                 # a proof

## 1. Inventory

### 1.1 Parts that are modelled

| Component | Source | State it keeps | Operations | Module |
|---|---|---|---|---|
| Device access queue | `hw/deviceAccess.js` | `deviceQueues` (a promise per device), `needsCleanup` (transport ids), a closure per job (`unsubscribed`, `sub`, `finish`, the transport) | `withDevice` (subscribe, open, flush, set a priority, run, close, unsubscribe), `cancelDeviceAction`, `withDevicePolling`, `retryWhileErrors`, `genericCanRetryOnError` | `DeviceAccess` |
| Device socket | `api/socket.js` | the WebSocket, `inBulk`, `correctlyFinished`, `deviceError`, `unsubscribed`, `timeoutForAllowManager`, the handler's position | `onopen`, `onerror`, `onclose`, `onmessage` (exchange, bulk, success, error), `onDisconnect`, `onUnresponsiveDevice`, the prompt's timeout, the teardown | `DeviceSocket` |
| Access to the libcore | `libcore/access.js` | `core`, `corePromise`, `libcoreJobsCounter`, `lastFlush`, `flushTimeout`, `afterLibcoreFlushes` | `withLibcore`, `load`, `flush`, `afterLibcoreGC`, `reset` | `LibcoreAccess` |
| Applications manager | `apps/logic.js`, `apps/runner.js`, `apps/react.js` | the reducer's `State`: installed applications, install, uninstall and "update all" queues, current operation, current error | `install`, `uninstall` (forced or not), `wipe`, `updateAll`, `recover`, the runner's events, the effect of `useAppsRunner` | `AppsLogic`, `AppsManager` |
| Synchronisation of accounts | `bridge/react/BridgeSync.js` | the tasks of a priority queue, the sync state of every account, refs on the last rendered values, `skipUnderPriority` | `BACKGROUND_TICK`, `SET_SKIP_UNDER_PRIORITY`, `SYNC_ALL_ACCOUNTS`, `SYNC_ONE_ACCOUNT`, `SYNC_SOME_ACCOUNTS`, `synchronize`, the loop on pending operations | `BridgeSync` |
| Bridge transaction hook | `bridge/useBridgeTransaction.js` | the reducer's `State`, the ref `statusIsPending`, a closure per effect (`ignore`, `errorTimeout`, the call it awaits) | `setAccount`, `setTransaction`, `updateTransaction`, the effect and its clean-up, the debounce, the answers of the bridge, the retry | `BridgeTransaction` |
| History of an account | `reconciliation.js`, `bridge/jsHelpers.js`, `account/pending.js`, `libcore/syncAccount.js`, `families/ethereum/*`, `families/polkadot/js-synchronisation.js` | `operations`, `pendingOperations`, `blockHeight` of an account, the shape a synchronisation has computed and not yet applied | `minimalOperationsBuilder`, `mergeOps`, `getAccountShape`, the updater of `makeSync` and of the libcore's `sync`, `postSyncPatch`, `addPendingOperation` | `Reconciliation`, `AccountHistory` |
| Connection to an app | `hw/connectApp.js`, `hw/actions/app.js`, `apps/hw.js`, `apps/runner.js` | the position of the command, the refs of what was resolved, polling's timers and local `device`, the accumulated, debounced and shown states | `connectApp` and all its steps, `streamAppInstall`, the event and polling implementations, the reducer, the debounce, `onRetry` | `ConnectApp` |

What makes them hard, and what makes them right:

* **Device access queue.** A hardware wallet accepts one exchange at a time, so
  every use of a device is a job of a promise chain. The chain only moves if
  every path of a job (open fails, observer gone before or during the open, the
  flush, the BLE priority, the job's own error, unsubscription) resolves its
  promise, and it is only safe if none of them resolves it before the transport
  is closed. On top of it polling clients subscribe again after errors, and an
  interrupted series of APDUs leaves the device dirty for the next job.
  Right when: accesses are exclusive and first-in first-out; a cancelled job
  never starts; a job starts on a clean device; every job gets its turn.
* **Device socket.** Three parties (server, device, observer) and the network can
  end a dialogue at any await. Once a bulk of APDUs has begun the network no
  longer matters, but leaving it half-way leaves the device dirty. Right when:
  the observer gets one end; the device is marked exactly when a bulk was left;
  nothing more is sent after the end; the connection is closed; a locked device
  is only excused while the user is asked something.
* **Libcore.** A counter and a timer decide when the C++ core is garbage
  collected, between jobs that come and go. Right when: the counter is exact on
  every exit path, no collection starts while a job runs, a job waits for the
  collection in progress, garbage is eventually collected and the jobs that wait
  for a collection eventually run.
* **Applications manager.** A pure reducer turns clicks into two ordered queues;
  a React effect runs them one by one on a device that has its own opinion of
  dependencies. The user keeps clicking while it runs, and the effect runs an
  operation chosen one action ago. Right when: queues are ordered, nothing is
  forgotten, what is displayed is what is on the device, a plan made for an idle
  manager is accepted and gives what the user asked for, and the run ends.
* **Synchronisation.** A priority queue with a limited concurrency calls
  `synchronize`, which reads React state through refs that are a render late.
  Right when: slots are given back on every path, no account stays "pending",
  and the queue drains.

* **Bridge transaction hook.** The user edits while earlier edits are being
  prepared, in calls that may end late, fail or be retried, and passive effects
  run after the render that scheduled them. Right when: what the user last asked
  for is never replaced by an answer to something else; a screen that is pending
  has a call of its own; it settles.
* **History of an account.** A synchronisation reads the blockchain from the
  account as it is when it starts and is applied to the account as it has become;
  it takes shortcuts (it stops at the first known operation, it asks for what is
  new only) on a blockchain that may go back. Right when: the history is deduped
  and sorted, the shortcuts skip nothing, and an optimistic operation stays
  until it must leave and then leaves.
* **Connection to an app.** A command that may restart the device several times
  is run again and again, over events that come late, twice or not at all, and
  what it emits goes through timers and a debounce to the screen. Right when: the
  app is not said to be open before what the request asks for was done, nor
  without a device; an end stays; a ready device ends the wait.

### 1.2 How the components interact

* Everything that talks to a device goes through `withDevice`: the manager's
  `exec` and `listApps` (through `connectManager`), the firmware update
  (through `withDevicePolling` with two policies of its own, modelled as the
  policies `"all"` and `"CantOpenDevice"`), the signing of every coin family,
  `connectApp`, the scan of accounts.
* `api/socket.js` (the script runner behind installs and updates) runs *inside*
  a job, and its teardown calls `cancelDeviceAction`, which leaves a mark for
  the next job of the device. `DeviceAccess` contains that call (`Teardown`);
  `TransportJob` states what it supposes of a job (one end; a mark only with an
  end that is not a completion), and `DeviceSocket` implements it.
* Account synchronisation calls the coin bridges, which call `withLibcore` or
  an HTTP explorer, and the result is an *updater* applied to the account the
  application holds at that moment: `BridgeSync` models the queue,
  `AccountHistory` what one account becomes, `LibcoreAccess` the access to the
  core.
* `connectApp` is a job of `withDevice`; it installs what is missing with
  `streamAppInstall`, which plans with the reducer of the manager (`AppsLogic`)
  and runs the plan with `runAllWithProgress`.
* The manager's reducer is driven by `useAppsRunner` in the applications, by
  `runAll` in the command line and by `runAllWithProgress` below `connectApp`.

### 1.3 Parts that are not modelled

| Component | Source | Why, or when |
|---|---|---|
| Sub-accounts, raw account patches | `reconciliation.js`, `families/ethereum/synchronisation.js` | the same merges, once per token, and data conversions |
| Cache and promise helpers | `cache.js`, `promise.js` | candidates: `atomicQueue`, `retry`, the LRU of promises |
| Firmware update | `hw/firmwareUpdate-*.js` | candidate: recursion over bootloader and MCU stages on `withDevicePolling` |
| Other connection actions | `hw/connectManager.js`, `hw/actions/manager.js`, `hw/actions/transaction.js`, `hw/actions/init*.js` | `manager.js` repeats both implementations of `app.js` around another command; the others add one step to the hook of `app.js` |
| WalletConnect | `walletconnect/*` | a session driven by the connector's events; its handlers test little, so what could be stated is mostly what its user interface must not do |
| Add and import accounts | `account/addAccounts.js`, `cross.js`, `account/importAccounts.js` | pure classifications; candidates as algorithms |
| Serialisation, balance history, portfolio | `account/serialization.js`, `account/balanceHistoryCache.js`, `portfolio/*` | data conversions and numeric folds without state |
| Coin families, swap, sell, compound | `families/*`, `exchange/*`, `compound/*` | chain specific network and signing code; each is a sequence inside a job of `withDevice` |
| Countervalues, currencies, derivation, network, api, env, notifications, platform | `countervalues/*`, `currencies/*`, `derivation.js`, `network.js`, `api/*`, `env.js`, `notifications/*`, `platform/*` | tables, formatting, fetching: no interleaving of their own |
| Manager helpers, bot, mocks, migrations, command line | `manager/*`, `bot/*`, `mock/*`, `migrations/*`, `src/cli` | requests, test tooling, drivers |

## 2. The modules

| Module | Kind | Depends on |
|---|---|---|
| `AccessQueue` | abstract specification: an exclusive first-in first-out queue per device | |
| `DeviceAccess` | `withDevice` and `withDevicePolling` | implements `AccessQueue` |
| `DeviceAccessProofs` | theorems | `DeviceAccess`, `TLAPS` |
| `TransportJob` | abstract specification: what `DeviceAccess` takes a job to be | |
| `DeviceSocket` | `createDeviceSocket` | implements `TransportJob` |
| `DeviceSocketProofs` | theorems | `DeviceSocket`, `TLAPS` |
| `LibcoreAccess` | `libcore/access.js` | |
| `LibcoreAccessProofs` | theorems | `LibcoreAccess`, `TLAPS` |
| `Filters` | `Array.prototype.filter` by a recursive function | |
| `AppsLogic` | the manager's reducer as operators | `Filters` |
| `AppsManager` | reducer, runner, React effect, user and device | `AppsLogic` |
| `AppsManagerProofs` | theorems, and lemmas about the sequences of the reducer | `AppsManager`, `TLAPS` |
| `BridgeSync` | the synchronisation queue, its React side and the external `async/priorityQueue` | |
| `BridgeSyncProofs` | theorems | `BridgeSync`, `TLAPS` |
| `BridgeTransaction` | `useBridgeTransaction`, its user and the answers of the bridge | |
| `BridgeTransactionProofs` | theorems | `BridgeTransaction`, `TLAPS` |
| `Reconciliation` | `minimalOperationsBuilder` and `mergeOps` as operators | `Filters` |
| `AccountHistory` | an account, its synchronisations, broadcasts and an external blockchain | `Reconciliation` |
| `AccountHistoryProofs` | theorems, and lemmas about filters, merges and the builder | `AccountHistory`, `TLAPS` |
| `ConnectApp` | the command `connectApp`, the hook that runs it, an external device | |
| `ConnectAppProofs` | theorems | `ConnectApp`, `TLAPS` |
| `MC*` | constants for TLC | |

A definition whose name ends in `_Something` and whose comment begins with
"Mutant:" is not part of the model: it is a plausible bug of the definition that
follows it, and shows that the properties notice it.

### 2.1 `DeviceAccess`

A *job* is one subscription to `withDevice(deviceId)(job)`; jobs are numbered in
the order of their subscriptions, which is the order of the promise chain:
`Subscribe` reads the tail of the device's queue (`prev`) and becomes the tail
(`deviceQueues`), as lines 103-105 of the source do in one synchronous piece.
`stage` is where the job's chain of promises is:

    queued -> opening -> [flushing] -> [prioritizing] -> running -> closing -> over

Each arrow is a callback of the source: `StartOpen` (the promise of the job
before has resolved), `OpenSucceeds`/`OpenFails`, `FlushSettles`,
`PrioritySucceeds`/`PriorityFails`, `Run` (the second check of `unsubscribed`,
then `job(transport)`), `JobCompletes`/`JobFails` (`transportFinally` and
`catchError` keep the result back until the close), `CloseSettles`. What RxJS
and promises do between two asynchronous points is one action. `finished` is the
set of jobs whose `finish()` has run, `transports` the set of those whose
transport is open.

A *client* is an observer of `withDevice` (policy `"none"`) or of
`withDevicePolling` with one of the policies found in the source. It may
subscribe, unsubscribe at any time, and when an accepted error reaches it, wait
and subscribe again (`Retry`), which goes to the end of the queue.

`interrupted` is a history variable: devices left in the middle of a series of
APDUs (the teardown called `cancelDeviceAction`) and not flushed since. It is
compared with what the code knows (`needsCleanup`). Two more are for what the
code is known to lose, so that the properties can except exactly that:
`taken`, the interrupted devices whose mark was consumed by the flush of another
device, as all the transports without a string id share the mark of `""`
(`identifyTransport`); and `leaked`, the jobs that ended with their transport
open, because they threw or because `requestConnectionPriority` rejected.

Abstracted: which error (a representative of each class that
`initialErrorRemapping` and the policies distinguish), the delays, the access
hooks (only that they may throw, with the job, when `JobsMayThrow`).

### 2.2 `DeviceSocket`

`handler` is the await at which `onmessage` is suspended (a single exchange, one
that may ask the user to allow the manager, or the loop of a bulk), and
`remaining` what is left of the bulk. Each handler of the source is an action of
the same name; `exchange`/`ExchangeAnswers` and `bulk`/`BulkAnswers` are the
pieces of `onmessage` before and after an await, and `ExchangeFails` its `catch`
after a rejection or a status that is no success. `End` is `o.complete()`,
`o.error()` or the unsubscription, with the teardown they run synchronously: it
does nothing the second time, as an RxJS subscriber does. `server` is the
protocol as the code uses it: one message at a time, except for an error at any
time. `cause` is a history variable, the party that ended it.

The state `"forgotten"` of the WebSocket is a connection that was still opening
when the observer left: the teardown only closes an open one (line 219).

Abstracted: the payloads, the progress events and warnings (outputs only), the
number of exchanges of a session (`MaxExchanges`).

### 2.3 `LibcoreAccess`

A *task* is one call of `withLibcore`, a *GC job* one call of `afterLibcoreGC`.
`flushTimeout` is modelled by `timers`, the number of live timeouts, because the
code overwrites the handle: whether there can be two is a property
(`TimerOnlyWhenIdle`), not an assumption. Flushes are numbered; `lastFlush` is
the number of the one whose promise the variable holds, and `awaited` what each
task read from it. The asynchronous points are the load, the wait for the flush,
the job, `c.flush()`, each after-GC job, and `freshResetAll`; the actions are the
pieces of code between them. `garbage` is a history variable.

Abstracted: the busy subject (an output), the two timer delays, what jobs do.

### 2.4 `AppsLogic` and `AppsManager`

`AppsLogic` is the reducer as pure operators: `reducer(s, action)`, `runStart`,
`runSuccess`, `runError`, the two reorderings, `getActionPlan`, `getNextAppOp`,
`predictOptimisticState`, `initState`. Sequences keep the order the code gives
them; dependencies are a set taken in the order of the catalog, of one level
(`OneLevelAssumption`) and at most one each (`OneFamilyAssumption`), because
`polyfill.js` (17-25) builds them from families: what depends on `Bitcoin`
depends on nothing else, and `Bitcoin` on nothing. The second is needed:
if an application had two outdated dependencies, installing one of them would
reinstall the application next to the other, and TLC then refutes
`PlanIsAccepted`. `installedAvailable` is left out: `listApps` always sets
it to true. Of an installed application's data only `updated` is kept
(`outdated`); `Unknown` applications are installed ones that `appByName` does
not have, `Nameless` the one whose name is the empty string, which changes what
`uninstall` does.

`AppsManager` adds the rest of the loop. `useAppsRunner` schedules, in a passive
effect, the operation a *render* chose. Legacy React (16/17) runs pending passive
effects before the next render but after an action dispatched meanwhile is
queued: so `Dispatch(action)` applies the action first and, if an effect was
pending, starts the *old* operation afterwards. `RunEffect` is the ordinary
case. `Started` is `runAppOp` up to its first wait; an unknown application is
skipped there. The device is external: a map from applications to `absent`,
`outdated` or `updated`, which refuses an application it already has, one whose
dependencies it has not, and to remove one that another needs, the refusals that
`hw/installApp.js`, `hw/uninstallApp.js` and `api/Manager.js` turn into errors
of their own. (The mock of the repository would also refuse an installation next
to an outdated dependency, but its `throwError` is inside a `forEach`,
`mock.js:165`, and has no effect; `PlanIsAccepted` states that separately.)
`OpFails` is any refusal or failure of the transport, including one after the
device has done its work.

`disturbed` is a history variable that names what has happened to the current
plan: the user acted while it ran (`"user"`), an installation was planned next
to up to date applications that depend on outdated ones, or applications were
restored on a device with outdated ones, where the second installation may
cancel the removal the first one planned (`"mixed"`), or the
answer of a completed operation was lost (`"lost"`, for good). `PlanIsAccepted`
and `MirrorsDevice` are stated without those, and the hazards say why: in each
of these cases the code does not repair its plan.

Abstracted: sizes and free memory, progress events, the reasons of failures,
`tryUpdateAll` results other than the queue.

### 2.5 `BridgeSync`

`bridgeSyncState` is the React state as last rendered and `seenState` the same
as `synchronizeRef` holds it, which a passive effect updates (`FlushEffects`).
`setBridgeSyncState` outside a batch renders at once, and rendering first flushes
the effects of the *previous* render: so after `setAccountSyncState` the refs are
one render late. `synchronize` decides with what it sees through the ref
(`Skips`). The queue is `async` 3.2's `priorityQueue`, external, modelled as the
code uses it: tasks in the order of their priority, a new one after those of its
own (`ahead`), `remove` of the tasks of one priority, `setImmediate(process)` on push, and
a `process()` loop that runs workers while there is a slot; `processing` makes
that loop atomic with respect to the rest of the event loop. Every transition of
`useSync` is an action of the same name; the two background loops are requests
with their priorities, at any time.

`SubscriberThrows` is an exception in the subscriber's callbacks (they call
`updateAccountWithUpdater`, `recoverError`, `trackAnalytics` before `next()`):
RxJS reports it to nobody and the slot is lost. `leaked` counts those.

Abstracted: hydration of currencies, analytics, the content of an account.

### 2.6 `BridgeTransaction`

A transaction is an object: `ref` is its identity (the code compares by
reference, and a reference may be taken again once nothing holds the object),
`account` the account it was created for and `edit` the last edit of the user it
contains. `s` is the reducer's state as rendered and `effect` says that the
passive effect of that render has not run. A dispatch from a promise or a timer
renders at once and runs that effect first, which is `Render`; `effectJobs` is
what the effect does: the clean-up of the one before, then a new call. Each
element of `jobs` is the closure of an effect, at one of its awaits:
`waiting` (debounce), `prepare`, `status`, or `retry` (its timer is armed), with
its `ignore` flag. The clean-up clears the timer it can see; the timer of a call
that was already ignored is out of its reach.

`wanted` is a history variable, what the user last asked for. `raced` records
that a call ended between a render and its passive effect: its answer is then
accepted although an edit was rendered, or its timer armed after the clean-up
that should have cleared it. The window is real and the edit is lost;
`EditsSurvive` says that there is no other way to lose one.

Abstracted: the amounts and status, the sub-account and mode of a transaction,
the delays (they order steps that are free in the model).

### 2.7 `Reconciliation` and `AccountHistory`

`mergeOps` and `stepBuilder` are the functions of the same name, on sequences of
operations, newer first. An operation is an id, a date, the height of its block
and a sequence number; 0 stands for none, and for 0, as in the source, where
every test of a sequence number is a test of truth.

`AccountHistory` has one account of one of three kinds of `bridge`: `libcore`
(`minimalOperationsBuilder`, then the updater of `libcore/syncAccount.js`),
`ethereum` (incremental requests from the newest stable operation, two `mergeOps`,
`postSyncPatch`) and `js` (polkadot: requests from the newest operation,
`makeSync` alone). `Fetch` is the requests of a synchronisation: what it computes
depends on the account *then*. `Update` is the updater, on the account *now*;
between the two a broadcast, an addition or an expiration may come. `useSync`
runs one synchronisation of an account at a time, but for the races of 2.5.
The blockchain is external: transactions become known, enter blocks, the last
block may be replaced, somebody else's transaction may be forgotten.

Known and stated: `mergeOps` has no place for an operation that is no newer than
the oldest one kept (`ComesLate`). It drops it, and if it is the new version of
that oldest operation, which a reorganisation has put in another block, the old
version leaves too and the operation vanishes. Nor is it asked for again once
later operations are stable: when they have become the oldest ones kept nothing
is wrong with it any more, and it is still missing. The history variable `late`
holds the transactions of Ethereum that were told too late, for as long as they
are missing: `PendingIsReleased` excepts those, `HistoryIsExact` those and the
ones that come late now. Further, an optimistic operation with nonce 0 (the
first of an account) is dropped by the first synchronisation, because
`postSyncPatch.js:25` takes 0 for no nonce (`PendingIsPreserved` excepts it);
`minimalOperationsBuilder` does not look below an unchanged operation
(`NewsAreNewer`). `types/account.js:199` says that pending and confirmed
operations have distinct ids: they do not for accounts of the libcore, until the
retention ends, nor is the merge of `makeSync` redundant for Ethereum, as its
comment supposes, after a reorganisation.

Abstracted: amounts, fees, addresses, balances, sub-accounts, the merge of
operations of a same hash, `syncHash` (which asks for everything again when the
list of tokens changes).

### 2.8 `ConnectApp`

`cmd` is the position of the command in the pipeline of `connectApp.js`:

    opening -> version -> [quit | derive | firmware -> latest | install -> listed -> run | open]

with the arguments of `innerSub`, which its recursive calls drop (`nested`), how
many `catchError`s of `innerSub` it is still in, the plan of the installation,
and whether its transport is lost. `Open` is the end of `withDevice`'s `open`: a
device that is not there is an error (`CantOpenDevice`), and only a transport
that was opened and lost gives `disconnected`. `Emit` gives an event to the
subscriber: the reducer at once on the events of the device, `next` in polling,
with its two timers; `GoOn` is a step of the command without an event. `Reach` is
`scan` and the debounce, `Show` the end of the debounce with `takeWhile` and the
clean-up of an effect whose state is opened. `ui` is the accumulator, `shown` the
React state; both are the screen they stand for and whether `device` is set.

Three error paths decide what the screen may claim:

* **A failed installation goes on.** `runAppOp` turns the error of an operation
  into a value, the other operations of the plan are run all the same, and
  `onSuccessObs` follows whatever they gave (`RunAppOp`, `OnSuccess`; a lost
  transport is such an error). So `dependencies-resolved` is emitted, and
  remembered, with a dependency missing: this is the run `connect_failed_install`.
  `failed` is a history variable: the applications whose last installation
  failed. When the missing one is the app itself, the command opens it, is told
  that it is absent, and installs it again, as often as it fails.
* **The fallback of the old devices is everybody's.** The last `catchError` of
  `innerSub` covers all the exchanges after it, so 0x6d00 or 0x6e00 from any of
  them leads to `derivationLogic` without an application (`OldVersion`, stage
  `fallback`). What it opens, by the address only, was checked for nothing:
  `openedByAddress` is a screen of its own in the model (`opened` with no `app` in
  the code), and `OpenedIsEarned` does not speak of it.
* **Which catch it is.** A failure in the fallback itself is only caught when the
  `innerSub` is nested in another one (`catches`).

`OpenedIsEarned` therefore says: when the screen says that the app is opened (by
its name), the firmware the request asks for is the latest and the dependencies
are there, but for those whose installation failed.

Polling assigns `disconnectT` before it clears it, so its timers may outlive
their variable: `stale` counts those (at most `DisconnectTimers`, because such a
timer lives five seconds and a poll takes two). Timers fire at any time, but what
a command emitted is shown before the next poll: both delays are two seconds, and
the poll's starts last.

The device is external: it is plugged or unplugged, locked, its user changes
apps; it lacks the app or its dependencies, has the latest firmware or not, has
`getAppAndVersion` or not (`old`), `quitApp` or not. `resolved` is
`dependenciesResolvedRef` and `latestFirmwareResolvedRef`. One device is modelled:
the refs survive a change of device in the code, which is listed as a hazard.

Abstracted: wording, the amount of progress, the reasons of the other errors
(`Fail` is any of them), sizes (`app-not-installed` may be the answer to any
missing app), the upgrade warning. An application is absent or up to date: an
outdated one, which a plan removes first, is in `AppsLogic` only.

## 3. The runs

| Run | Question | Result |
|---|---|---|
| `device_access` | exclusion, order, clean start, no late start, sequential retries, progress, refinement of `AccessQueue` | pass |
| `device_job_throws` | is `finish` always called? (`FinishIsCalled`) | violated |
| `device_socket` | mark, prompt timeout, silence after the end, closed connection, refinement of `TransportJob` | pass |
| `libcore_access` | counter, timer, waiting for the last flush, garbage and after-GC jobs | pass |
| `libcore_flush_overlap` | does a job only run with no flush in progress? (`NoJobDuringFlush`) | violated |
| `apps_manager` | order of the queues, nothing forgotten, mirror of the device, acceptance, prediction, soundness, termination | pass |
| `bridge_sync` | slots, pending flags, draining | pass |
| `bridge_transaction` | no edit replaced, no pending screen without a call, settling | pass |
| `account_history` | dedup and order, exactness of the shortcuts, life of optimistic operations | pass |
| `connect_app` | nothing opened too early (failed installations excepted) or without a device, ends stay, ready devices end the wait | pass |
| `connect_failed_install` | are the dependencies resolved when the command says so? (`DependenciesAreResolved`) | violated |
| `connect_stale_disconnect` | does an event unschedule the disconnection? (`DisconnectIsUnscheduled`) | violated |

Bounds, and why they are enough:

* `device_access`: three clients, two on one device (one polls with the policy
  `"CantOpenDevice"`, one does not) and one polling alone on the other with the
  generic policy; the devices have the same transport id, `""`; three jobs. Three
  jobs are the smallest number with a job before, a job after, and a retry of
  the first behind the second. The proofs remove the bound for all the safety
  properties and for the refinement.
* `device_socket`: bulks of none, one and three APDUs (one that is over before it
  begins, one without a middle, one with), and three exchanges, so that a prompt
  can come before, between and after ordinary ones. The proofs remove the bounds
  for all the safety properties and for the refinement.
* `libcore_access`: three tasks (one before, one during and one after a flush),
  two after-GC jobs (one in a queue the other one drains) and five flushes, which
  is one more than those calls can start, so the bound never stops a
  timer and the liveness properties are not affected by it.
* `apps_manager`: an application and its two dependents, one unlisted and one
  nameless application; every mix of absent, outdated and updated that a device
  can hold; three actions of the user at any time, which is what it takes to
  plan, disturb and undo. The proofs remove the bounds for everything but
  termination.
* `bridge_sync`: two accounts, two slots, three requests. Requests beyond the
  third only lengthen the queue; two accounts are what it takes to have one
  skip the other's turn, and one account requested twice. The proofs remove the
  bounds for the slots and the pending flags.

* `bridge_transaction`: two accounts, one of them broken, three edits and one
  failing call: a call, one that replaces it and one that undoes the second, with
  a retry among them. References are as many as can be held at once. The proofs
  remove the bounds for the two invariants.
* `account_history`: four transactions, two of them sent by the account, the
  first with nonce 0, received from payers with a greater nonce and with none;
  five blocks and one thing undone (a reorganisation or an eviction), with
  `SafeReorg` at 0 so that operations become stable within those blocks. A
  history of four is what it takes to have a change below, at and above the first
  operation that is compared. They are not enough to see that a late operation
  is missing for good (that takes six blocks and an operation two dates above
  it); the proof saw it. The proofs remove the bounds for everything.
* `connect_app`: both implementations, a request for an app and a dependency, and
  one for an account with the dependency and the firmware (requests that ask for
  less are what these become once something is resolved); a device that lacks
  the app or the dependency, or an old one, in any app, with and without the
  firmware and `quitApp`; two moves of it (it leaves and comes back) and one
  retry. 560,000 states. The proofs remove the bounds for the safety properties.
* `connect_failed_install`: on the events of a device that does not move; one
  failed operation is enough.

`CHECK_DEADLOCK FALSE` everywhere: these are reactive components, and a state
where every job is over and the bound on requests is reached is not an error.

### Fairness

* `DeviceAccess`: weak fairness on each job's steps (promises that are settled
  run their callbacks; a transport's open, exchange and close, and the job's
  observable, settle). Clients have none: nobody has to subscribe, retry or
  unsubscribe.
* `DeviceSocket`: weak fairness on the end of a closing connection (the closing
  handshake has a timeout in every implementation) and on the answer of the
  device (an exchange resolves or rejects). The server, the network, the timer
  and the observer have none.
* `LibcoreAccess`: weak fairness on each task's and each flush's steps, on the
  load, on the timer and on the end of a reset. `StartTask`, `AfterGC` and
  `StartReset` have none.
* `AppsManager`: weak fairness on the effect (React runs passive effects) and on
  the end of an operation (`exec` has timeouts of its own). The user has none.
* `BridgeSync`: weak fairness on effects, immediates, the loop and the end of
  each sync, which holds because the requests of a sync time out. Requests and
  changes of the accounts have none.
* `BridgeTransaction`: weak fairness on passive effects (React runs them) and on
  the calls that are live (requests time out, timers fire). The user has none.
* `AccountHistory`: none; its temporal properties are about steps.
* `ConnectApp`: weak fairness on the exchanges of the command (a device that is
  there answers, its user decides, or the transport ends), on the debounce, the
  poll, the handling of a device change and the timers. The device, the user's
  retry and failures have none.

### What the failing runs show

Each violates a statement of the source itself, quoted in `PROJECT.json`:

1. A job or access hook that throws synchronously leaves the transport open and
   never calls `finish`: the device's queue is blocked until the application
   restarts.
2. `afterLibcoreGC` may start a flush during another; a job then waits only for
   the last one and may run during the first.
3. Polling sets `disconnectT` to null and then clears it: an event after a
   disconnection unschedules nothing, the timer fires on a device that is back
   and resets the screen.
4. A failed installation of the dependencies still emits `dependencies-resolved`;
   the hook remembers it although "after an error we can't guarantee dependencies
   are resolved", and no later run asks for the dependency again before a retry.

Three more things the models do as the code does and no run checks:
`requestConnectionPriority` that rejects gives the queue back with the transport
open (`PriorityFails`); tasks of the synchronisation queue are pushed with the
opposite of their priority and removed by comparing it with the priority itself,
so "concurrent tasks with same priority" (`BridgeSync.js:276`) are never removed,
but those of priority 0 (`schedule`); and asking for an application whose outdated dependency
waits to be removed cancels that removal and plans nothing (`install`).

`ResetRunsAlone` in `LibcoreAccess` states one more thing that is not true (a job
may start while `freshResetAll` is pending); no line of the repository promises
it, so no run checks it.

## 4. The proofs

`DeviceAccessProofs`, for any sets of devices and clients, any policies and any
number of jobs:

* `TypeCorrect`: `Spec => []TypeOK`.
* The inductive invariant `IInv` says what the promise chain is: jobs are issued
  in order; the tail of each device's queue is its last job; `prev[j]` is the job
  of the same device just before `j`; a job that has left the queue has a
  finished predecessor, hence all the jobs before it on the device are finished;
  a finished job is over. `DeviceExclusion` alone is not inductive: that the
  predecessor is finished says nothing of earlier jobs without the chain.
* `Exclusion`, `NoLateStart`, `RetryIsSequential` follow from it, the second and
  third as action properties. For the retry one needs that the current attempt
  of a client in `"delay"` is over, and that a job that is over with its
  transport open is one that leaked it (`Leaks`): the code tells its observer of
  the error all the same.
* `CleanStart` relates `interrupted` to `needsCleanup` and needs two more parts:
  a device that is interrupted has its mark or a job of its own that uses it, and
  a device in use is dirty only from its own teardown. Nothing is assumed of the
  transport ids: the exception for a device whose mark another one consumed
  (`taken`) is in the property.
* `Refinement`: `Spec => Queue!Spec`. `OpenSucceeds`, the flush and the priority
  are stutters; `StartOpen` is `Acquire`; every call of `finish` is `GiveBack`.
  Order is what needs the chain: when `prev[j]` is finished, every earlier job
  of the device is, and no later job has started.

`DeviceSocketProofs`, for bulks of any length and any number of exchanges:

* `MarkIsRight`, `PromptTimeout` and `Silence` are safety properties of the
  teardown. The inductive invariant adds what holds while the observer listens
  (`Listening`): no result and no error yet, a bulk is under way exactly when the
  handler is in its loop, with at least one APDU left and its connection closed,
  and a single exchange makes the server wait. Without the last part nothing
  says that a second exchange does not begin over a timeout that is still set.
* `SocketIsAJob`: `Spec => Job!Spec`; every step that ends the observable is one
  of the abstract job's ends, and every other one a stutter.

`LibcoreAccessProofs`, for any finite set of tasks:

* `ExactCounter` needs finiteness and the cardinality of a set with one element
  more or less; `IdleTimer` needs `ExactCounter` (a timer is only armed at zero);
  `LastFlushIsOver` needs `IdleTimer` (no flush starts while a task is between
  its read of `lastFlush` and its end) and that a running task's flush was over
  when it started and a flush never restarts.

`AppsManagerProofs`, for any catalog and dependencies that satisfy the
assumptions, any order in which a device lists its applications, any restored
applications and any number of actions of the user:

* The reducer is made of folds and of `Among`, a recursive function. The module
  first shows that such a definition has its values (a `CHOOSE` of a recursive
  equation says nothing until a solution is constructed): `RecursionExists` for
  functions on an interval, `FoldExists` and `FoldSteps` for `FoldLeft` and
  `FlattenSeq`, by a plain induction on the natural numbers that is stated of a
  set (`NatSetInduction`). Each operator of the reducer then has a lemma on what
  its result holds and in which order (`AmongFacts`, `ReorderFacts`,
  `InstallFacts`, `UninstallFacts`, `WipeFacts`, `UpdateAllFacts`,
  `RunSuccessFacts`, `InitStateFacts`), which is all the rest uses.
* `Structure` is the first inductive invariant (`Rendered`): the queues are typed
  and sorted (`Good`); the effect is what the last render chose; what is under
  way is in the catalog; an "update all" is over when the queues are empty with
  nothing under way. `TypeCorrect`, `QueuesStayInOrder` and
  `NoPlanIsForgotten` follow.
* `PlansMatchDevice` is the second (`DInv`): the device is closed under
  dependencies; unless an answer was lost the manager mirrors it (`Mirrors`); and
  unless something disturbed the plan, the plan suits the device (`Suits`):
  whatever on the device depends on an application to remove is to be removed
  too, what is to be installed is absent or removed before, and what it depends
  on is up to date and stays, or is to be installed too. `PlanIsAccepted` speaks
  of one operation, the one under way; it is not inductive, because the end of an
  operation starts the next. From `Suits` and the order of the queues, the head
  of the plan is acceptable (`HeadIsAccepted`), and the rest of the plan suits
  the device that results (`RestSuits`). That a plan suits the device when it is
  made is one lemma per action (`InstallSuits` ... `ReducerSuits`); that of
  `install` is where `OneFamilyAssumption` and the exception for `"mixed"` are
  used. `ManagerMirrorsDevice` and `UndisturbedPlanIsAccepted` follow.
* `PredictedFacts` gives the value of the prediction, by induction along the
  plan: the installed applications less those to uninstall, and those to
  install. `PredictionStaysStable` and `PlansStaySound` are action properties
  that follow from it and from `Rendered`.

`BridgeSyncProofs`, for any accounts, priorities and concurrency:

* `PendingIsReal`: an account is pending only while one of its synchronisations
  is in progress. The invariant (`SyncsOK` and `PendingIsTrue`) supposes nothing
  of the queue: whatever it pops, and however late the refs are.
* `TypeCorrect`: the queue holds known tasks in the order of their priorities.
  Without that order (`InPriorityOrder`) the place of a new task (`ahead`) is not
  defined. The number of slots in use is between none and the limit because each
  one is a synchronisation that is in progress or was lost.
* `SlotsAreAccountedFor`: the slots in use are the synchronisations in progress
  and those whose subscriber threw. A sum over accounts is stated as the
  cardinality of a set of (account, rank) pairs, which one synchronisation more
  or less changes by one (`OneMore`, `OneLess`).

`BridgeTransactionProofs`, for any accounts, references, edits and failures:

* `NoEditIsLost` and `NoPendingIsForgotten`. Neither is inductive. `IInv` adds
  that, without a race, a call that is not ignored is for the current
  transaction or its effect is about to ignore it (`LiveIsCurrent`), that a timer
  no clean-up can reach exists only after a race (`LostTimersRaced`), and that
  preparation keeps the content of what it prepares (`PreparedKeepsContent`).

`ConnectAppProofs`, for any requests, moves and retries:

* `OpeningIsEarned` needs that what is resolved is true of the device, or failed
  to be (`ResolvedIsTrue`), and what each position of a run knows (`Checked`):
  the plan holds the dependency as long as it is neither installed nor tried; a
  run that has not checked yet still asks for all that is not resolved, or is on
  the dashboard, which it cannot leave without losing its transport. Then an
  accumulated opening is earned before it is shown (`OpenedEarned`). That the set
  of what is installed or failed only grows (`Monotone`) keeps an opening earned
  while installations go on behind it. Nothing is known in the fallback, and
  nothing is claimed there.
* `OpeningHasDevice` needs that polling's local `device` and the accumulated state
  agree on what they have forgotten (`DeviceIsKnown`, `PollingTimers`): in the
  code they are reset in different callbacks.
* `EndsStay` needs that nothing of the effect is left once it has ended (`Ended`).

`AccountHistoryProofs`, for any finite set of transactions that satisfies the
assumptions, any subset of the bridges, any `SafeReorg` and any bounds:

* The base is again about operators: `Among` keeps the order (`AmongFacts` and its
  consequences), `newerFirst` lists its set, and two histories, newer first, of
  the same operations are equal (`SameHistory`). That lemma is what turns the
  equality of two sequences into the equality of two sets.
* `Merged` says what `mergeOps` keeps, as a set: the existing operations whose id
  is not among the new ones, and the new ones that are newer than the oldest
  existing one. `BuilderRuns` says the same of every step of
  `minimalOperationsBuilder`. The elementary lemmas on natural numbers and
  sequences are those of `AppsManagerProofs`, stated again because the two
  modules extend different specifications.
* `HInv` is the first inductive invariant: types, the dates and heights of what
  the blockchain holds (`ChainOK`), and that all the histories there are (of the
  account, computed, or told) are deduped, sorted and made of operations of known
  transactions (`GoodHistory`). `TypeCorrect` and `HistoryIsSorted` follow, and
  `PendingPreserved` as an action property. The latter needs that the latest
  nonce, which the code reads from the first own operation of a history sorted by
  date, is the greatest one (`LatestNonceIsLatest`, from `NonceAssumption`: an
  account numbers its transactions in the order in which it sends them).
* `HistoriesKnow` is the second (`KInv`), and the reason why incremental requests
  are enough. For polkadot: the account has every operation up to the block of
  its newest one, and none has changed (`AllFinal`). For Ethereum: up to the block
  of any of its operations, the account has the transactions of the blockchain,
  but those in `late` (`AllReached`). And a synchronisation in progress relates
  what it was told, what it has computed, and what the account has now
  (`SyncKnows`). `HistoryIsExact` and `PendingIsReleased` speak of one update and
  are not inductive: an update is right because of what earlier updates left.
* `HistoryExact` and `PendingReleased` follow, by one lemma for each bridge:
  `ExactBuilder` for the libcore (the builder stops at the first operation that
  did not change only when everything below is the same), `EthereumUpdate` and
  `JsUpdate` for the others.

That proof attempt changed the model: without `late`, the two properties excepted
operations that come late *now*, passed the run and could not be proved, because
they are false beyond its bounds; TLC then found the counterexample on a larger
instance (2.7). Both are now stated with `late`.

The only assumptions are the named `ASSUME`s of the modules, which TLC evaluates
in every run.

So every invariant and every action property of the passing runs, and both
refinements, are theorems for all values of the constants, and type correctness
is proved of every component.

Model-checked only: the nine liveness properties (`QueueAdvances`,
`ConnectionCloses`, `GarbageIsCollected`, `AfterGCJobsRun`, `RunnerDrains`,
`QueueDrains`, `PendingEnds` and the two `Settles`), since fairness and `ENABLED`
are beyond the prover, and the four runs that are violated, which are
counterexamples.

## 5. Plan

Done, the most important behaviour first: the access queue and the device
socket with their refinements, the libcore, the applications manager, the
synchronisation queue, the bridge transaction, the history of accounts, the
connection to an app, with proofs of the safety of all of them.

What would come next:

1. `promise.js` and `cache.js`: `atomicQueue` (an exclusive queue again, which can
   refine the same kind of abstract specification) and the cache of promises.
2. Firmware update stages over `withDevicePolling`.
3. `hw/actions/manager.js`, by a second command under the polling of `ConnectApp`.
4. Sub-accounts in `AccountHistory`: the same merges per token, with a parent
   whose pending operations they follow.
5. Abstract specifications of the manager (a plan that is carried out) and of the
   synchronisation queue, and proofs that the models implement them.
