# TLA+ model of the OpenHarmony DeviceProfile service

DeviceProfile (system ability 6001, `services/core`) is one process per device.
It keeps what a device knows about itself and about the devices it trusts, and
shares a part of it with them. This directory holds TLA+ modules translated
from its source, TLC configurations that check them on small instances, and
TLAPS proofs for all values of the constants.

Paths below are relative to the repository root; `core/` is short for
`services/core/src/`.

## 1. The system

### Components

| Component (source under `core/` unless said otherwise) | State | Operations | Correct when |
|---|---|---|---|
| **Service** `distributed_device_profile_service_new.cpp` | `isInited_`, `isStopped_`, `depSaIds_`, `dynamicProfileMap_`, `switchProfileMap_`, `dpInitedCallbackMap_`, `runningIpcCount_` | `OnStart`, `OnAddSystemAbility`, `PostInit`, `OnIdle`, `OnStop`, one handler per request | started once; a write acknowledged before the end of `PostInit` is in the store afterwards; each subscriber is told once |
| **Stub** `distributed_device_profile_stub_new.cpp`, `permissionmanager/` | interface table, caller table | dispatch, `IsStopped`, idle and permission gates | no request passes the gates after a stop |
| **TrustProfileManager** `trustprofilemanager/` | `access_control_table`, `accesser_table`, `accessee_table`, `trust_device_table` (RDB), `aclMutex_`, `rdbMutex_` | put, update, delete and query ACLs; notifications | keys unique, references intact, trust rows and notifications follow the ACLs |
| **DeviceProfileManager** `deviceprofilemanager/device_profile_manager.cpp` | dynamic KV store, `isFirst_`, `putTempCache_` | put, get, delete, sync profiles; user switch; repair tasks | foreground keys belong to the foreground user; nothing acknowledged is lost |
| **MultiUserManager** `multiusermanager/`, `publishcommonevent/` | foreground user | user switched, user removed | ends with the user of the last event; no lock cycle with DeviceProfileManager |
| **SwitchProfileManager, ProfileCache** | switch word of this device, caches of profiles and sync listeners | put and get switches, updates from peers | word, cache and store agree |
| **StaticProfileManager** and static capability loader, collector | static KV store | publish the shipped capabilities, sync | every sync listener is answered once |
| **ContentSensorManager** and collectors | none | write what the device says of itself | – |
| **SubscribeProfileManager, SubscribeServiceInfoManager** | subscriber sets, remote callbacks | subscribe, unsubscribe, notify, death of a subscriber | bounded sets, changes told in order |
| **KV listeners** `deviceprofilemanager/listener/` | none | data change, sync completed, death of the KV service | no event lost or reordered |
| **ServiceInfoManager, LocalServiceInfoManager** | local and synchronised service info stores; PIN-code table | put, get, delete, callbacks | both stores agree; a PIN code is used once |
| **SessionKeyManager** | keys in the asset store | put, get, update, delete, ids | an id is not given twice |
| **BusinessEventManager** | business KV store, callbacks | put, get, subscribe | – |
| **ProfileDataManager** and DAOs | device, product, icon tables | put, get, delete | one row per device |
| **Persistence adapters** `persistenceadapter/` | store handles | open, statements, recovery | a statement succeeds or fails as a whole |
| **Client SDK** `interfaces/innerkits/core` | proxy, subscriptions | load, call, retry, re-subscribe | a retry does not repeat an effect |
| **Parcels, ProfileUtils** `common/` | – | marshalling, keys, comparisons | what is written is read back |

### How they interact

* A client calls the proxy, the proxy the stub, the stub the service, the
  service one manager. The calls of different clients run on different IPC
  threads; each manager has its own mutexes, and there is no lock around a call
  as a whole.
* System-ability events (`OnAddSystemAbility`), account events (an ffrt task
  each), KV data changes (detached threads) and death recipients call the
  managers from threads of their own.
* Managers notify subscribers by one-way IPC, after their mutex is released.
* `PostInit` opens the stores once the five dependencies are up. Until then
  ACL requests are served (their RDB is opened in `Init`), writes of profiles
  are staged in the service, and everything else is refused.

### What is hard

* **No transactions.** An ACL operation is up to a dozen SQL statements. Any may
  fail, and the process may die, between any two of them.
* **Decisions made outside the lock.** The trust row, the notifications,
  `isFirst_`, the foreground user and the switch word are read in one critical
  section, or in none, and used in another.
* **Boot.** Writers, the flush, subscribers, the account thread and `OnStop` all
  meet the same few flags.
* **Two stores for one thing**, here and in ServiceInfoManager, and stores shared
  with peers.
* **Lock order** between MultiUserManager and DeviceProfileManager.

`PROJECT.json` lists these hazards one by one, each at its line.

## 2. Modules

| Module | Models | Proofs |
|---|---|---|
| `TrustProfile` | TrustProfileManager: put, update, delete of ACLs, statement by statement, with the store and the process failing | `TrustProfileProofs` |
| `ServiceLifecycle` | the life of the process: boot, staging, flush, subscribers of `OnDpInited`, stop, restart; of DeviceProfileManager what the boot needs | `ServiceLifecycleProofs` |
| `DynamicProfiles` | the dynamic store after the boot: DeviceProfileManager with MultiUserManager, account events, repairs, re-initialisation | `DynamicProfilesProofs` |
| `SwitchProfiles` | SwitchProfileManager, the switch part of ProfileCache, SwitchUpdater and DMAdapter: the switch words of this device and its peers | `SwitchProfilesProofs` |
| `Subscriptions` | SubscribeProfileManager; extended by `SwitchProfiles` and by `ProfileChanges` | with these two |
| `ProfileChanges` | KvDataChangeListener: what subscribers hear of the dynamic profiles | `ProfileSyncProofs` |
| `ProfileSync` | sync calls, sync listeners, completions, the adapter for other devices, deaths of the KV service; extends `ProfileChanges` | `ProfileSyncProofs` |
| `ServiceInfos` | ServiceInfoManager with its two stores, the change threads, SubscribeServiceInfoManager | `ServiceInfosProofs` |
| `SessionKeys` | SessionKeyManager and the ACL parties that carry its ids | `LocalStoresProofs` |
| `LocalStores` | LocalServiceInfoManager, the PIN subscribers, BusinessEventManager with its callbacks; extends `SessionKeys` | `LocalStoresProofs` |
| `ProfileData` | ProfileDataManager and its DAOs, the put of the content sensor manager | `LocalStoresProofs` |
| `Parcels` | what every class and container of `common/` writes to a parcel and reads from it | `ServiceLifecycleProofs` |
| `ProfileProxies`, `ProfileStub` | the proxies and the stubs: for each call its code, what is written and what is read; both extend `Parcels` | `ServiceLifecycleProofs` |
| `ProfileIpc` | one call across the process boundary: gates, permissions, dispatch, handler, reply, callbacks; extends the two | `ServiceLifecycleProofs` |
| `RemoteCall` | what the client promises of a request (abstract) | refined in `ClientSessionProofs` |
| `ClientSession` | DistributedDeviceProfileClient: load, retry, subscriptions and their renewal, against a service that stops and dies; implements `RemoteCall` | `ClientSessionProofs` |

The `MC` modules give the constants of these their small values; `MCLocalStores`
composes `LocalStores` and `ProfileData`, which share only the process.

What composes what: `SwitchProfiles` and `ProfileSync` run the same
`Subscriptions`; `ProfileSync` runs the data-change listener between the closing
and the opening of the stores by the death recipient; `LocalStores` runs its
announcements, the session keys and the deaths of the process together;
`ProfileIpc` runs the proxy, the stub and the gates of the service together;
`ClientSession` has the service's gates (`IsStopped`, `isInited_`) in its own
steps. In the composed modules a component's counters (`events`, `faults`) are
shared, so a run explores every division of them.

### TrustProfile

*State.* `acls`, `acers`, `acees`, `trust` are the rows of the four tables;
`open` says that `rdbStore_` is not null; `lock` is `aclMutex_`; `pc[t]`,
`job[t]`, `ret[t]` and `sent[t]` are a thread's next statement, locals, result
and sent events. `users` and `accounts` are what a subscriber that applies every
notification believes. `bound` is history: the parties every ACL id was granted
to.

*Actions.* One per SQL statement or notification. `Put` is
`PutAccessControlProfile` with its inserts and `PutAclCheck`; `Update` is
`UpdateAccessControlProfile` with `UpdateAclCheck` and `NotifyCheck`; `Remove`
is `DeleteAccessControlProfile` with its cascade
(`DeleteAccessControlProfileCheck`, `DeleteTrustDeviceCheck`); `Trust` is the
maintenance of the trust row the three end with. The first phase of a call holds
`aclMutex_`, the second does not, exactly as in the source. A statement that
fails takes the early return of the source.

*Abstractions.* Columns are grouped: a party is a record of device, user,
account and token; `attr` stands for the other identifying columns of an ACL.
Ids follow `SetAccessControlProfileId`: the largest id of the table plus one.

### ServiceLifecycle

*State.* `boot` says where the PostInit thread is; `entries` and `taken` are its
locals; `dynamicMap` and `switchMap` are the staging maps; `isFirst`, `putTemp`
and `storeOpen` are the members of DeviceProfileManager; `store` and
`switchStore` are the KV stores; `pc[t]` and `job[t]` a writer's next step and
argument; `callbacks`, `sub` and `told` the OnDpInited subscribers. `last` and
`lastSwitch` are history: the value a key was last acknowledged with.

*Actions.* `cacheMtx_` is held by the flush from `SaveSwitchProfilesFromTempCache`
to `SetInited`; a staged write takes and releases it within one action
(`CacheFree`). The two mutexes inside the flush protect one action each. A write
after the boot is two actions, because `isFirst_` is read outside any lock.
`Restart` is the death of the process at any point, or its end after `OnStop`,
and the next `OnStart`.

*Abstractions.* A profile is a key and one of a few values. Each client owns a
dynamic and a switch key. What the collectors write is one key, the same for
every collector. A subscriber subscribes and unsubscribes once per process.
The failure of a manager in `PostInit` is one disjunct per group of managers.

### DynamicProfiles

*State.* `store` is the dynamic KV store, `mine` the keys whose entry this device
wrote (`GetDeviceEntries`), `kv` whether the store object works; a key is a
profile name with a user id or none (the plain key). `fg` is `foregroundUserId_`;
`fgLock` and `storeLock` are `foregroundUserIdLock_` and `dynamicStoreMutex_`;
`pc`, `req`, `ents`, `del`, `who` and `fix` are the locals of client threads, of
account tasks and of the handler thread. `osFg` and `gone` belong to the account
service. `fresh`, `overtaken` and `upset` are history: what has come between the
steps of a repair, of a call, of user changes.

*Actions.* A put is `Put` (turn into entries, ask for the foreground user, no
store lock), `PutMore` for each further profile of a batch, and `PutStore`. A
delete takes the store lock in `Delete` and asks for the foreground user under it
in `DeleteRun`. A user switch is `SwitchBegin` (takes `foregroundUserIdLock_` and
keeps it), then the three critical sections of `OnUserChange`: `SwitchScan`,
`SwitchSave`, `SwitchClear`; a failure in any ends it with the new user in the
foreground. A removal is `RemoveScan` and `RemoveKeys`. The repair of
`FixDataOnDeviceOnline` is `DeviceOnline` (read the owner's entries), `FixLocal`,
`FixLocalKeys`, `FixPeer`, `FixPeerKeys`, one per critical section. `ReInitClose`
and `ReInitOpen` are `ReInit` on the same handler thread. `Restart` may come at
any point and leaves the startup user change of `MultiUserManager::Init` to do.

*Abstractions.* A profile is one entry although it has several properties; a value
remembers the user whose put it was. `_OH` twins of a name are names of their own.
The caches of ProfileCache in front of a get are left out, as are a delete split
over several batches and prefixes that match more than one name. What the
collectors put after a user switch is one more client put. Puts before the end of
the boot are `ServiceLifecycle`'s. What synchronisation and the adapter library
bring is `Synced` (external).

### SwitchProfiles

*State.* `store` is the word of each device in the KV layer, `len` how many
switches this device's stored word covers, `cur` is `curLocalSwitch_`, `cache` the
switch profiles in `charProfileMap_`, `parked` is `switchCacheMap_`, `mapMtx` its
mutex where it is held over several steps, `online` is `onlineDevMap_`. `tasks` are
the detached threads of announced changes and of devices that come online, `op` the
boot or the holder of `switchProfileMutex_`. `ver`, `seen` and `odd` are history:
which writing of a word was taken over last, and which devices had a word taken over
out of order.

*Actions.* A put is `PutRead`, `PutExist`, `PutSet`, `PutSwitch`, `SetCurSwitch`,
`AddPut`: the critical sections of `ProfileCache` it goes through. A batch and the
collector of the boot (`Collect`, after `Refresh`) share the later ones. A change is
`LookUp`, `ParkChange` or `HandleExist`, `HandleAdd`, `HandleTell`, `HandleCur`; a
device that comes online has `OnDeviceOnline` and `EraseParked`. A get that misses
the cache fetches the word and adds it.

*Abstractions.* A device and its network id are one value; a word is the set of the
switches that are on; a profile is its value, where 2 stands for a value that is no
switch.

### ProfileChanges and ProfileSync

*State.* `data` are the dynamic profiles under a plain and an OH name, `changes` the
announcements, `change` the one `OnChange` works on. `st` is each KV adapter, `handler`
and `running` the event handler that the stores share, `listeners` the
`syncListenerMap_` of both managers, `watched` the death recipients of ProfileCache,
`notices` the deaths still to be heard, `calls` the sync calls, `loaded` the adapter for
devices that are not OpenHarmony based. `heard`, `lost`, `late`, `answered` and `dropped`
are history and name the known exceptions.

*Actions.* `Sync` is the call up to the thread it starts, then `AddSyncListener`,
`KvSync`, and for other devices `LoadAdapter` and `SyncWithNotOHBasedDevice`. A
completion is posted (`SyncCompleted`) and run by the handler: `GetSyncListeners`,
`OnSyncCompleted`, `RemoveListeners`, each under a lock of its own. `KvServiceDies`
leaves every adapter stale; each hears of it on its own (`OnKvDied`) and posts its
re-opening. `UnInit` and `Init` are the run of that task; `UnInit` destroys the listeners
of the adapter, and with them takes tasks of the same name out of the handler.
`OnChange`, `ReadRecords` and `HandleChange` follow an announcement, kind by kind.

*Abstractions.* The KV service answers a sync once or dies. `E2ESync` is the
synchronisation of both stores that a device starts when it comes online; its answers
reach the same listeners. A characteristic that subscribers ask for by its attribute is
told whether or not its OH name is stored; `ToldVisible` leaves these keys out.

### ServiceInfos

*State.* `local` and `synced` are the two stores, `adapters` their pointers (missing,
closed, open), `reinit` where `ReInit` is; `jobs` is the bag of the threads: calls,
change threads, notifications. `listeners` is `serviceInfoMap_`, `told` what a
subscriber holds that read the list when it subscribed and applies what it hears.
`crashed` is the use of a pointer that is gone. `asked` and `tainted` are history.

*Actions.* One per critical section: a put is `PutLocal` and `PutSynced`; a delete
`FindKeys`, `DeleteLocal`, `DeleteSyncServiceInfo`; a change thread `ReadSynced` and then
the put of what it read, or `EntriesToUserInfo` and the delete; then `Notify` and one
`Told` per subscriber. The store is observed with `SUBSCRIBE_TYPE_ALL`, so a device also
hears of its own writes (the echo), once per observer.

*Abstractions.* A notification carries one key and one kind of change; ids are values.
`MaxJobs` blocks a step that would start more threads. With `MaxListeners = 0` one
subscriber fits, as the code tests with `>`. A change while no observer is registered is
not announced.

### SessionKeys, LocalStores and ProfileData

*State.* `assets` is the asset store, `parties` the ACL parties that carry a session key
id, `adding` the calls between drawing an id and storing the key. `rows` is the table of
local service infos, `table` whether it exists and has its unique index, `pins` and
`callbacks` the two callback maps, `business` the KV store of the events, `calls` the
calls under way, `queue` the event handler. In ProfileData `data` are the rows of the
three tables, `lastIds` their AUTOINCREMENT ids, `indexed` the tables with a unique
index, `opened` the store all DAOs share, `tasks` the calls. `acked`, `overlapped`, `stale`,
`clashes`, `may` and `crossed` are history: what answers stated, which keys had calls
that overlapped or were cut off, and who has subscribed again with a callback object that a
queued task still has.

*Actions.* A call is its critical sections: `LookUp` and `Write`, `StoreEvent` and
`Notify` (look for whom to tell and post), `Deliver` in the event handler. `GeneratedSessionKeyId`
draws and checks the id, `PutSessionKey` stores the key. A put of ProfileData is
`LookUpRow` and `WriteRow` for each item of the batch, before them `Merge` for the content
sensor manager; a delete is `FindRows` and a `DeleteRow` each. The process may die
between any two; what is in the stores is left.

*Abstractions.* A row of ProfileData is what the device says (`info`) and the rest (what
the cloud adds, or the model of an icon); the picture of an icon is left out, and a
profile names its user, so that the default user id is not replaced by the foreground
user. The
tables an earlier process may have left are a constant (`Stored`); calls that overlapped in a
table without its index may have left two rows of a device in it.

*What answers leave possible.* `may` follows the one answer that a batch gets. As long as a
call is `sure` to tell that all of its items are through, it has the row that each item asks
for as the item gets through. In doubt (a batch of several devices, which answers
`DP_SUCCESS` if one of them is written; an error; a look-up that fell short unnoticed) every
row of the call is either as it was or as asked (`Doubt`, `leaves`).

### Parcels, ProfileProxies, ProfileStub and ProfileIpc

*State.* A layout is the sequence of writes or reads of a call, each with the field it
belongs to; `Written` is what is in the parcel after a write failed or not. `ProfileIpc`
has `booted` (how far `PostInit` is), `stopped`, `running` (`runningIpcCount_`), and of
the one call its `phase`, what was `served` from the request, what the handler returned
(`ret`), the manager it reached and the `answer` of the proxy.

*Actions.* `Call`, `OnRemoteRequest` (gates, permission, dispatch by code, read),
`Run` (the handler), `ReturnReply` (read the reply), and the same for the callbacks, whose
stubs are in the client. `BootManager` makes one manager ready after another. The specification is
`IpcSpec`; its names differ from those of `ServiceLifecycle`, so that one module can hold the
proofs about both.

*Abstractions.* One call at a time: the stub keeps no state between calls but the count.
The value of a field is the field itself, so a reader that takes a value for another
field is seen; sizes go one past the limit; a full parcel fails one write. The error codes
of parcels are one answer.

### RemoteCall and ClientSession

*State.* The service is `alive` for the n-th time (`starts`), `isInited`, `isStopped`,
and holds the subscriptions `held`. The client has its proxy `dpProxy` (of which start),
`watched` its death recipients, `loads` the loads samgr works on, `listens` and
`announced` the listener at samgr, `cache` the callbacks it keeps, `lock` the mutexes it
holds over IPC, and `th` its threads: users and the detached re-subscription threads.

*Actions.* `GetDeviceProfileService`, `LoadDeviceProfileService`, `WakeOrTimeOut`,
`Loaded` get the proxy; `LockCallback`, `CacheListener` and `Check` are the client's part of a
subscription; `Serve` or `Refuse` and `Reply` the service's part, between which it may die
(`DP_BR_DEAD_REPLY`: the request may have been carried out); `RetryClientRequest` repeats
it. `OnAddSystemAbility` starts the re-subscription threads, `OnServiceDied` forgets the
proxy. `ReleaseResource` is its unsubscriptions.

`Remote == INSTANCE RemoteCall WITH Callers <- Users, open <- openCalls` is the
refinement: `openCalls` says which request a thread waits for, `done` counts how often
the service carried it out, `answer` is what the user got.

## 3. Runs

| Run | Question | Bounds |
|---|---|---|
| `trust_seq` | One caller: do trust rows and the notifications follow the ACLs; does an ACL keep its parties, is no ACL set inactive without a word? | 5 calls, 6 profiles over 2 peers, 3 parties on the other side, plain and LNN ACLs |
| `trust_conc` | Two callers, any update, one fault, a restart: keys, indexes, references, orphans | 3 calls, 3 profiles that share a party, 1 fault |
| `life` | Does an acknowledged write reach its store, is a subscriber told once, does PostInit end, does a put return? | 1 client, the collectors, 1 subscriber, 1 value, 2 calls, 2 attempts, 1 fault, 1 restart |
| `dyn_users` | What may the plain keys show, what is left of a removed user, what may user changes and repairs touch? | 4 calls, events, foreign entries or failures; 2 users, 1 client, 2 tasks, 6 profiles on 2 devices, a restart |
| `dyn_ends` | Does every call, event and repair end? | 3 of the above, batches of 2 |
| `ipc` | Does every handler get what was sent and every caller what was answered; does a handler find its manager ready, and is the count of running calls right? | every API and callback, 0 to 4 elements where 3 fit, empty, usual and too large icons, a change type out of range, 7 callers, 6 places where the request is full and 3 of the reply |
| `session` | Is a request carried out no more often than promised, is its answer true, and does every call return? | 1 user, one call of 5 kinds, 3 starts of the service, 2 repetitions |
| `session_subs` | Does the service hold the client's subscriptions after a restart, and no others? | 2 calls, 2 starts, a profile listener and the `OnDpInited` callback |
| `switches` | Do word, caches and subscribers agree, is no change lost, does a put keep the others' switches? | 2 switches, 1 peer, 3 events, room for one parked word |
| `sync` | Is every sync caller answered once, are the dead forgotten, are stores re-opened, what do subscribers of profiles hear? | 2 callers, 1 peer of each kind, 3 stores, 2 calls, 3 events, 2 values |
| `services` | Do the two stores and the subscribers agree about service infos? | 2 keys of this device and 1 of a peer, 2 values, 3 events, 1 fault, 4 threads, 2 observers |
| `stores` | Do the rows, the callbacks and the session keys follow the answers? | 2 users, 2 ids, 1 PIN subscriber, 2 SAs, 4 events, 1 fault; for the data tables 3 calls or deaths, 1 fault, rows of 3 devices, 2 products and 1 icon, and a table left with two rows of a device or without |

*Why the bounds are enough.* The shortest way to share, orphan or rebind a party
is three calls (two puts that share a party, one delete); four calls give an id
away again and five leave room for an update. Two threads are all an interleaving
over one mutex needs, and one fault is enough to stop a call at any statement.
In the boot two calls make a staged write and one that comes later meet, two attempts
make the flush fail once and then succeed or give up, and one restart is enough to find
stale state. The map of subscribers that is full is not reached with one subscriber; the
theorem `EachToldOnce` covers it, for any number.

In the dynamic store two users are all a switch involves, one name is enough for
clients because profiles of one kind do not meet, and two tasks reorder two
events. Four starts allow two puts, a switch and a get or a repair, or a put, a
switch, a failure and a restart. The names of each kind make the prefix scans
succeed or, when an entry is deleted, fail. `TaskSymmetry` exchanges the tasks,
which are alike; the liveness run does without.

A request has a bound of three starts because a first service may take it and die, a
second refuse it while it stops, and a third answer. Two subscriptions and a restart
let each of them meet the thread that renews the other. Two switches show that one put
changes the other's bit, and three events allow two changes and a put or a get between
them. Two sync calls of two processes let a completion be taken by the other's callback,
and the third event is the death, failure or device that disturbs them. In `services`
three events make put, delete and put of one key meet, or a put, a subscription and a
change of a peer. Four threads let a delete of two keys be announced by two observers. In
the local stores two calls overlap, a third finds what they left, and a death or a fault
comes in between.

*Bounds in the modules.* `MaxOps`, `MaxCalls`, `MaxEvents`, `MaxStarts` and
`MaxRequests` count what begins (calls, events, deaths, as each module says), `MaxFaults`
and `MaxDataFaults` failures, `MaxCrashes` restarts, `MaxJobs` threads at a time.
`MaxCallbacks`, `MaxListeners`, `MaxListenerSize`, `MaxParked`, `MaxItems`, `Retries` and
`MaxRetries` are limits of the source (`MAX_CALLBACK_LEN`, `MAX_LISTENER_SIZE`,
`MAX_SWITCH_CACHE_SIZE`, the sizes of containers, `WRTE_CACHE_PROFILE_RETRY_TIMES`,
`MAX_RETRY_TIMES`), made small. `MAX_MAP_LEN` of `putTempCache_` is not reached.
`MaxBatch`, `PutNames`, `ForeignKeys` and the sets of requests bound what is put.

*Deadlock.* Checked for `trust_seq`, `trust_conc`, where `Quiesce` is the only way to stop
(all calls made and returned), and `ipc`, which goes on for ever. The other systems stop
when their calls and events are used up, and the boot after `OnStop`; there the liveness
properties say what must not hang. DynamicProfiles really can stop: `DeleteServiceProfile`
and `DeleteCharacteristicProfile` hold `dynamicStoreMutex_` and wait for
`foregroundUserIdLock_`, a user change holds them the other way round. `LockCycle`
names exactly that state, and `AllEnd` says that nothing else hangs.

*Fairness.* In the boot `WF_vars` of the PostInit thread and of every writer: each is a
thread of its own that has nothing to wait for but `cacheMtx_`, which the flush gives
back after a bounded number of attempts. Nothing is assumed of clients, of
dependencies, of subscribers, of restarts or of OnStop. In DynamicProfiles each
thread that is inside a call has `WF_vars` of its next step: it runs on once the
mutex it waits for stays free. Nothing is assumed of the beginning of calls,
events, repairs or of failures; as `MaxStarts` ends them, no thread waits for ever
behind others that come again and again. In ClientSession each thread has `WF_vars` of its
next step: `wait_for` ends with a timeout, a handler of the service ends, and a request to
a dead process comes back with an error. Nothing is assumed of the service, which may stay
dead or never become ready, nor of samgr. `RemoteCall` asks for `WF_vars(Return)`, which
these steps amount to.

### What the properties leave out, and why

The models follow the code into behaviours that its authors may not want. Where a
property holds only without one of these, its text names the exception; here they are
with the code.

*Trust.*
* `DeleteTrustDeviceCheck` counts the ACLs of a device and deletes its trust row after
  `aclMutex_` was released (`trust_profile_manager.cpp:2153`, also `:155` of the put): of
  two callers one may lose the trust row of an ACL that is there. `TrustRowsMatch` is
  therefore checked for one caller.
* A delete that fails half-way leaves an ACL whose accessee is gone
  (`trust_profile_manager.cpp:1564`, `:741`), and the free id is given to the next party.
  `docs/trust-acl-access-control.md` describes the operations as if they were whole.
  `PartiesPresent` and `NoOrphanParty` hold until the first fault.
* `docs/01-workflows.md:100` promises `DP_DATA_EXISTS` for a duplicate ACL, and
  `PutAccessControlProfile` answers `DP_SUCCESS`.

*Boot.*
* `SubscribeDeviceProfileInited` reads `isInited_` before it takes the mutex of the map
  (`distributed_device_profile_service_new.cpp:1253`): when PostInit ends in between, the
  subscriber is in the map and is not told, although
  `docs/sync-subscription-notification.md:81` says that it is. `ToldOnce` leaves out the
  subscribers in that `window`.
* A batch with a switch and another profile is staged in `switchProfileMap_` as a whole
  (`:1149`). At the flush the other profile is refused, which is only logged
  (`profile_control_utils.cpp:192`), and the switches are written: the other profile is lost
  although it was acknowledged, the switches are not (`TakenSwitches`; `Batches` of the run
  `life` has such batches). Not modelled: more than `MAX_CHAR_SIZE` (1000) staged switches
  would be refused as a whole, and a switch whose value is neither on nor off is skipped
  like a profile that is no switch.
* A put of the collectors reads `isFirst_`, the flush ends and clears `putTempCache_`, then
  the put adds to it (`device_profile_manager.cpp:127`, `:157`): it is lost. `Flushed` is
  about clients.

*Dynamic profiles.*
* A put for user 1 finds him in the foreground, the switch to user 2 runs, the put writes
  the plain key (`device_profile_manager.cpp:121`); a get of user 2, who has no entry of his
  own, returns it. `Isolation` and `GetOwnUnlessOvertaken` name these puts.
* `FixLocalData` removes what the comment above it calls data that does not belong to the
  local device, and also a put that was acknowledged after its snapshot was read: `fresh`
  in `FixRemovesMisplaced`.

*Switches.*
* When `GetSwitch` fails, the collector goes on with a length and a flag that nothing has
  set (`switch_status_collector.cpp:142-176`). The model takes any length and any word
  (`Collect`), and leaves the device out of what follows (`odd`).
* A refresh that fails leaves `curLocalSwitch_` at 0, and the next put writes that word (`odd` too).
* A batch caches the values that `SetSwitchByProfile` refused
  (`profile_control_utils.cpp:185-201`): the value 2 of `LocalAgrees`.
* Change threads are not ordered, and a get between a change and its thread takes the news:
  the thread then sees no difference and tells nobody. Both are in `odd`.
* A word is parked after its device came online if the look-up came before; a full
  `switchCacheMap_` refuses also the newer word of a device it has; the cached switches
  of a peer are not removed when it goes offline; the old profile that subscribers are given
  equals the new one.

*Synchronisation.*
* `SyncDeviceProfile` does not look at the result of `AddSyncListener`, and leaves the
  listener behind when the sync fails. A completion, also of a sync that a device started when
  it came online, is told to all listeners of the store, and listeners are removed by the
  name of the caller, so that a second sync of a caller replaces or loses the callback of
  the first: `lost`.
* `StaticProfileManager::syncListenerDeathRecipient_` is never assigned, so a dead static
  listener stays. `DeadGone` is about ProfileCache.
* The re-openings of all stores have one task id (`kv_store_death_recipient.cpp:55`), and
  destroying one recipient removes the others' tasks, against
  `src/docs/02-verification.md:94`: a store may stay closed (`dropped`). The death of the
  business store re-opens the dynamic one, and the second adapter of ServiceInfoManager uses
  the name of the static store.
* When one of the two names of a profile is deleted, subscribers hear of a deletion
  although the other remains; changes while a store is closed are not told (`missed`).

*Service infos.*
* Every put is echoed by the change threads of both observers. An echo that overlaps a
  later put or delete brings the old value back into both stores and to the peers, and two
  overlapping puts can echo each other without end. `CopiesAgree` is about keys whose
  threads did not overlap (`tainted`).
* `DeleteServiceInfo` uses `serviceInfoKvAdapter_` in its second critical section without
  looking again (`service_info_manager.cpp:182`), and `ReInit` may have taken it away:
  `crashed`.
* A delete whose synchronised half fails cannot be repeated, because the local half finds
  nothing any more. A subscriber cannot unsubscribe and its death is not noticed. A peer's
  value that does not parse leaves the old copy.

*Session keys and local stores.*
* Ids come from a generator seeded with the clock and are only checked against the ACL
  tables, which count as empty when they cannot be read; an id drawn twice is in `clashes`.
* The results of `CreateTable` and `CreateIndex` are ignored; without the index a put whose
  look-up fails inserts a second row. `RowsAsAnswered` is about the indexed table. A result
  set that fails while it is read looks empty (`local_service_info_manager.cpp:180-192`):
  a put then meets the unique index, and a delete answers `DP_SUCCESS` with the row still
  there (`:112`). After such a delete `acked` has both outcomes; after any other call it
  has one.
* An update that meets no row is a success, and invalidates its PIN. `PutBusinessEvent`
  stores and tells separately, so overlapping puts may tell in the other order. A
  notification that cannot be posted is dropped with `DP_SUCCESS`. A second client that
  subscribes to a PIN silently replaces the first; a full map refuses even a replacement.
* `PutDeviceProfileBatch` answers `DP_SUCCESS` if one of its puts succeeded
  (`profile_data_manager.cpp:171-182`), batches of products and icons stop at the first
  failure, `DeleteDeviceProfileBatch` uses the user of its first profile for all (`:124`).
  The look-up of an icon asks for an empty model (`:237-251`), so that a second put of an
  icon with a model is refused by the unique index. An insert whose row cannot be read back
  answers an error. The first DAO's `UnInit` closes the store of all.
* A result set that fails while it is read is taken for no row here too
  (`device_profile_dao.cpp:111-125`): the content sensor manager then puts its row without
  what the cloud has put (`content_sensor_manager.cpp:116-133`) and answers `DP_SUCCESS`; a
  delete that got only some of the rows deletes these and succeeds; an icon that was read
  with its defaults is updated by an id that no row has, with `DP_SUCCESS`. A table without
  its index gets a second row. `may` then has both outcomes. What the content
  sensor manager merges may be older than what a put has written since: these keys are in
  `crossed`.

*Calls.*
* The two queries whose empty vector is refused after the error was written
  (`EmptyRefused` of `AnswerTrue`), and a second raw block in one parcel, which is lost
  (`RawTwice`; `ipc_utils.cpp:173` and `:251` say so themselves).
* Checks whose results are ignored (`ArgsCut`, `ResultsCut`). An icon above `MAX_ICON_SIZE`
  is refused before its size is written (`ipc_utils.cpp:164`) and `DeviceIconInfo` ignores
  that (`device_icon_info.cpp:144`): the reader takes what follows for the size, so the next
  element is shifted, or, after the last one, the icon is lost. A change type out of range
  is written and refused when it is read (`ipc_utils.cpp:495`), which `SubscribeInfo` ignores
  as well (`dp_subscribe_info.cpp:157`): the listener is read from the place of the next
  type, or the type is missing. An input says which elements of its vector are such
  (`IconSizes`, `InRange`); what a handler makes of a misread parcel is left open.
* The completion of a sync is the one call whose answer is not compared. Service info is
  served before its manager is initialised (`ManagerReady`).
* A call that meets `DP_SERVICE_ON_IDLE` is not repeated
  (`src/docs/02-verification.md:82` says it is), and the error of a refused caller comes
  back as an error of the transport (`:80`).

*Client.*
* `loadSystemAbilityFinish_` stays set when the load ends before the wait begins
  (`distributed_device_profile_client.cpp:80-86`), so that a later wait ends at once;
  `notify_one` wakes one of two who wait. `WakeOrTimeOut` is therefore possible at any time.
* The thread that renews the business callback may meet a service that is not yet inited, and
  is not repeated; a client with only that callback never listens at samgr at all; its
  unsubscription forgets the callback also when it fails. Nothing renews the subscription
  of service infos. `Restored` names what an error left (`failed`).
* A renewal that runs next to an unsubscription may bring back a callback, except that of a
  profile listener (`UnSubscribedStays`), whose list is locked until it is sent.
* `OnServiceDied` of an older proxy forgets the newer one. The next call asks samgr again.
* The service holds `dpInitedCallbackMapMtx_` over its callbacks, the client `dpInitedLock_`
  over its calls.


## 4. Proofs

All theorems are of the form `Spec => []P` or `Spec => [][A]_vars` (`IpcSpec` for
`ProfileIpc`), for every value of the constants that satisfies the named assumptions of the
module. The constants that bound the runs are arbitrary naturals here. The assumptions say
only that the sets of names, users and values are disjoint where the code can tell them
apart, that markers like `None` are none of them, and that limits are naturals. Of the 39
properties that the runs check, theorems state 34.

### TrustProfileProofs

1. `TypeCorrect`. The steps are split into the phase under `aclMutex_`
   (`LockedStep`) and the phase without (`UnlockedStep`); the tables stay finite,
   which the next id needs (`FiniteMax`: a finite non-empty set of naturals has a
   largest element).
2. `KeyInvariant`, the inductive invariant `KeyInv`. `KeysUnique` alone is not
   inductive: the ids are computed by a SELECT at the start of a call and used by
   an INSERT two statements later. `KeyInv` adds that the lock is held by the one
   thread inside (`MutexOK`) and that the ids in that thread's `job` are those of
   the matching row, or of no row (`PutOK`, `UpdateOK`, `DeleteOK`), and the unique indexes
   of the tables (`IndexesUnique`), which each write tests itself and which tell which row
   an identity leads to. It holds through every failure and restart. `MutualExclusion` and
   `Keys` follow.
3. `ReferenceInvariant`, the inductive invariant `RefInv`: until the first fault
   every ACL refers to stored parties and every party belongs to an ACL, except
   for the rows the thread in the critical section is about to add or has just
   freed. The delete case rests on `CountOne` (`COUNT = 1` means that no other
   ACL refers to the row). `References_Present` and `No_Orphans` follow.
4. `GrantInvariant`, for `UpdateFree = FALSE` and any number of threads: every ACL id has
   one entry in `bound`, and the party rows the ACL refers to are those of the entry,
   except for the ACL that the call inside `aclMutex_` is about to delete. It rests on
   `RefInv` (a party row goes with its last reference) and on the ties between a call's
   locals and what it read (`JobGranted`). `GrantsStable` follows; it is stated for
   `faults = 0`, since a delete that fails half-way leaves an ACL without a party.
5. `TrustInvariant`, for one thread: the trust row of a device agrees with its ACLs unless
   a call has changed one of them and is still in its second phase, and then
   `TrustOfCall` says step by step what is left to do. `TrustRows` and the action property
   `DeactivationAnnounced` follow.
6. `MirrorInvariant`, for one thread: a subscriber lacks only what the call in progress
   has still to announce. `JoinedAreGrants` turns the scan of the three tables into the
   grants, and `KeysCompared` the comparison of both orientations of an ACL into that of
   one key; the latter needs `ProfilesProper`, that the trusted device is that of one of
   the parties and not of both (a device trusts another one; the runs' profiles satisfy
   it). `SubscribersKnow` follows.

   The hypothesis of 5 and 6, one thread, is what the properties need and the run
   `trust_seq` has: the second phase runs without `aclMutex_`, so calls side by side may
   announce and write in any order (hazards at lines 155, 1450 and 1912), and then
   none of the three holds. No bound on calls, profiles or devices is assumed.

### ServiceLifecycleProofs

1. `LifeTypes`: type correctness.
2. `PostInitInvariant`: `depSaIds` is empty exactly when PostInit has been entered,
   and `isInited` implies that it has ended. `OnePostInit` follows.
3. `FlushInvariant`: until the flush has written, the last acknowledged value of a
   client's key is the staged one or, if none is staged, the stored one; the flush
   copies the staged values and none is added meanwhile; a writer past the
   `isInited_` test comes after the end of the flush and finds `isFirst_` cleared,
   so it never stages again. `AcknowledgedFlushed` follows: no acknowledged dynamic
   profile of a client is lost unless every attempt failed.
4. `SwitchInv` follows an acknowledged switch from `switchProfileMap_` into the copy
   that the flush takes of it (`taken`) and on into the store (`LatestSwitch`), also next
   to the profiles that a mixed batch has staged with it: `AcknowledgedSwitches` speaks of
   services in which no write failed, with batches of any kind.
5. `SubscriberInvariant`: before the notification nobody was told; afterwards each
   subscriber in the map was told once. `EachToldOnce` follows.

The second part of the module is about `ProfileIpc`, where the constants are the callers,
the permission file, the limit of a vector (`MaxItems`), the numbers of elements (`Sizes`),
the sizes of icons, the change types in range and the inputs. `SizesAssumption` says that these are naturals with 0 and 1 among the sizes,
`IpcAssumption` that inputs are records of the right types and that `Nil` is none of the
values whose lack it stands for.

6. `IpcInvariant`, with `IpcInv`, which adds to `ManagerReady` and `AnswerTrue` two parts.
   `CallProgress` says how far the call in progress is. `HandlerOfCall` says that what was
   `served` is the handler of the interface that was called, that the arguments had all been
   written, and that the code is one that is served before `isInited_` unless `isInited_`
   was set. Without them nothing ties the manager that a handler reaches, or the reply, to the
   request that was let in earlier.
7. `ManagersReady`: no handler reaches a manager that `Init` or `PostInit` has not made
   ready, but for the service info manager (hazard at `:267` of the stub).
   `EarlyReadyFacts` goes through the codes that are served before `isInited_`;
   `running` is one exactly while a request is served.
8. `CallsHandledAsSent` and `AnswersTrue`, for every number of elements. The handler is the
   one that was called even when the parcel was full at any write; what it is given is
   promised when the parcel had room, no second raw block was written (icons,
   `RawTwice`) and no check with an ignored result cut it (`ArgsCut`: an icon above its
   limit, a change type out of range). The same holds of the reply (`ResultsCut`), whose
   two other exceptions are `EmptyRefused`. A proxy and its stub are written apart, so there is a lemma
   for each pair, built from the layouts:
   * `Kept` and `FlattenSeq` are recursive functions: `KeptBuilt`, `FlattenBuilt` and the
     lemmas after them say what they are by induction on the length (`NatInduct`, induction
     in the form of a set, from the well-foundedness of `<`).
   * `Like(w, r)`: the reads `r` are the writes `w` item by item, words of any kind for
     words. `Plain(w)`: `w` may be read as it was written. Both go through concatenation,
     nesting, ignored parts and vectors of any length (`ConcatLike`, `InsideLike`,
     `FlattenLike`, `ElementsLike`).
   * `Understood(w, r)`: when all of `w` was written, reading `r` either fails, or gives
     every field its own value; it follows from `Like` (`UnderstoodLike`), and from a read that is
     refused at its start (`UnderstoodRefused`), which is how a vector that is empty or too
     long is turned away.
   * `Agree` is `Understood` for every size, for each class and each vector
     (`ClassesAgree`, `VectorsAgree`, `SubscriptionsAgree`, `UpdatesAgree` and others),
     `AgreeBut` the same but for the sizes that an ignored check cuts, and
     `Matched(api)` that a proxy and its stub agree on code, arguments and results:
     `CallsMatched` and `CallbacksMatched` go through all of them.
   * The reply begins with the error code: `ReplyWritten` says that this changes
     nothing about the results behind it, `ReceiveTrue` that the answer of the proxy is true.

   The run `ipc` has vectors of up to one element more than a limit of three, and parcels that
   are full at a few chosen writes; the theorems have no such bound.

### DynamicProfilesProofs

1. `TypesHold`: types, and that an entry under the key of a user is a put of that
   user. The invariant `Inv` adds that what clients are about to write is theirs
   (`Owned`), and that what a user change is about to write and to delete has plain
   keys (`SwitchOK`).
2. `UserDataKept`, an action property, from the same invariant: a step of a user
   change never touches an entry under the key of a user (`SwitchStepKeeps`), and
   no other step but a restart moves a task that is in one (`OthersKeepTasks`).
3. `RepairsBounded`, an action property. Its invariant `FixInv` says that while a
   repair runs, the entries of this device and those of the snapshot differ by
   `fresh` and by what was deleted, and that every key about to be deleted was
   misplaced with respect to the snapshot. Every other thread's step is one of four
   kinds of store step (`StoreStep`), each of which keeps it.
4. `PlainKeysIsolated`, `RemovedUsersForgotten` and `OwnProfilesRead`, from `CalmInv`.
   `Isolation` speaks only of the time between account events; its invariant follows a user
   change through its three critical sections. Whatever a plain key shows is held under the
   key of its owner as well (`Held`); outside a change the owner is the foreground user; once
   `SwitchScan` has read the store, the key is the new user's, or is among those to overwrite
   or to delete; once `SwitchSave` has written, it is the new user's or is about to be
   deleted. Puts and deletes ask for the foreground user, so they wait for
   `foregroundUserIdLock_`: between the sections only calls come that were under way when
   the change began, and these are `overtaken`. `PutsCalm` and `GetsCalm` say what a call
   that is not overtaken knows, `GoneCalm` that what is left of a removed user is about to
   be found, or found and about to be deleted. All of it is conditional on `upset = {}`,
   the condition of the properties; only the lock and the empty entries of idle clients
   hold without it. Like all of these it was checked with TLC first, here on the bounds of
   the run `dyn_users`.

### ClientSessionProofs

1. `TypeCorrect`, with `LocksOK`: each lock of the client is held by exactly the thread
   whose place in the code needs it. The other two rest on it.
2. `UnSubscribedListeners`, from `ListenersOK`. The thread that renews the profile
   subscriptions keeps the lock of the list until it has sent it (`Sending`). A
   user who unsubscribes (`Leaving`) takes the listener off the list under the same lock:
   from then on no list that is being sent has it (`Gone`), and once the service has
   answered, the service does not have it either (`Away`).
3. `CallsAsPromised`, the safety part of the refinement: every step of the client and the
   service is a step of `RemoteCall` or changes nothing it can see. `CallsOK` relates the
   place of a call to what `RemoteCall` says of it: a first attempt is not in the
   service twice, only the kinds of request that the client repeats have a second attempt,
   and the answer on its way is the one the service made.

### ProfileSyncProofs

1. `SyncTypeCorrect` and `DeadCallersGone`, from an invariant in four parts: the change of
   profiles in hand (`ChangesInv`), the listeners and who owns them (`ListenersInv`), the
   death recipients (`DeathsInv`) and the stores (`StoresInv`). `DeathsInv` is the heart of
   `DeadGone`: a listener that ProfileCache keeps is watched while its process lives, and
   when it has died either its notice is on the way or it was dead before it was registered.
2. `LastHeardIsVisible`, from `HearInv`. `FreshInv`: a subscriber whose last value is not the
   visible one has a change of a name still to come (`Coming`), and if the plain name is the
   visible one, that or the deletion of the OH name (`Leaving`), for which the listener reads
   the plain name. To keep this, `QueueInv` says that a name stored no more, but still to be
   announced as inserted or updated, is announced as deleted after that, and `RecsInv` that a
   value that was read and is out of date has been announced again. `ReadHeard` and
   `HandleHeard` are the two halves of a kind: the names are looked up in one step and paired,
   filtered and told in another, and writes come between. A characteristic key and a key of
   which an announcement was missed are not spoken of, as in the property.
3. `DeadStoresReopened`, from `ReopenInv` next to `HandlerInv`: a store that is closed or
   dead has not been told of the death, or its re-opening is posted, or runs, or was removed.
   `UnInit` removes tasks from the middle of the queue; `WithoutKeeps` says of `Without` that
   the others stay and that nothing else is there: the place of a task that stays is the
   number of those up to it, an injection into the places (`FS_Injection`). `Without` is
   written with a CHOOSE for this; the prover cannot expand `SelectSeq`.
4. `CallbacksAnswered`, from `AnswerInv`. The first half of `AnsweredOnce`, at most one call
   of a callback, needs that a callback is registered for one store at a time (`CallsInv`),
   and what the copy of the map that the handler works on has in common with the map while
   other calls change it (`CopyInv`, `HeardInv`). The second half needs `WaitInv`: an
   accepted call that was not called, and was not lost, is in the map of its store, and a
   completion of that store is under way, posted, or running and not yet past the copy.
   `DueAnswered` covers all steps that leave the map alone.

### SwitchProfilesProofs

1. `SwitchTypeCorrect`: types, the shape of the running operation (`OpShape`), and that
   `switchCacheMapMutex_` is held by one thread that handles a device
   that came online (`MutexInv`).
2. `PutsKeepOthers`. A put starts from `curLocalSwitch_`, which the threads of earlier
   changes also write. `VersionInv` says which change each thread carries and which was
   taken over last, `HolderInv` what the running operation has read, `WordInv` that the
   cached word is the stored one when no change is on the way. From this, a word that is
   written differs from the stored one only in the switches of its put.
3. `LocalSwitchesAgree`, from `BitsInv` next to `WordInv`. Between the write of a word and
   the end of its put the cache lags behind in the switches of the put (`CachedBits`). A
   change thread of the version before may still write the cache then, and `ThreadBits` says
   that it agrees with the new word elsewhere. `ChosenBits` follows a batch from the look
   into the cache to the write: it leaves a switch out only when the word has it.
4. `NoWordLost`, from `PeerInv`: for each peer, which versions of its word are on their way
   (`VersionsFit`), who may write its cached switches (`WritersFit`), which of them that
   thread has brought up to date (`WrittenFit`), and where the latest word is (`LatestFit`).
   The four are operators of the threads, the versions and the cache of one peer, with a
   lemma for each kind of step; the threads of different peers do not meet.
5. `SubscribersToldLast`, from `HeardInv`: a subscriber heard what is cached unless a thread
   that has just written the cache is about to notify. Together with `WrittenFit` no other
   thread writes the switch before that one has notified.

### ServiceInfosProofs

1. `ServiceInfosTypeCorrect`, from `IInv`: what each thread of the bag holds at its place in
   the code (`Threads`), what is stored and was told (`Stored`), the adapters and the
   re-initialisation (`State`), and the history variables (`History`).
   Beside the types it says that the local store holds only infos that parse, and that a
   subscriber is told of other devices only.
2. `CopiesAlwaysAgree` and `SubscribersHaveWhatIsStored`, from `CopiesInv` next to `IInv`.
   A key that is not tainted is in one of four situations. It was put here last: whatever is on
   its way writes what was asked for, and echoes may copy that again (`OwnWritten`). It was
   deleted here last: one thread, there once, deletes it in both stores, and the echoes find
   nothing (`OwnDeleted`). Another device wrote it, and a thread carries the new value to
   the local store and then to each subscriber that does not have it (`PeerWritten`), or
   deletes it there and tells so (`PeerDeleted`). When no thread is at work all four say that
   the copies agree. Every step moves one thread and leaves others behind with keys of its own
   (`StepReplaces`); keys that are not its own keep their situation (`StepElsewhere`), and one
   lemma for each situation says that its own do. The bag is handled through `BagMinus` and
   `BagPlus`. The argument needs that the key of an info names one info only
   (`KeysAssumption`); `IsSvrInfoValid` refuses the wildcard `DEFAULT_ID` in what is put.

### LocalStoresProofs

1. `KeysFollowOwner`, from `KeysInv`: while no id is drawn twice, all keys stored under an
   id and all parties of ACLs that carry it are of one user (`OneUser`). `KeyFound` follows:
   `GetSessionKey`, which takes the user from the ACL tables, finds the key.
2. `RowsFollowAnswers`, from `RowsInv`. A put is two statements, a look-up and a write. The
   invariant says what a call still knows when it writes (`CallsOK`), that calls on a
   key that overlap are marked as such (`Alone`), that an indexed table holds at most one row
   of a service and the one that was acknowledged if calls did not overlap (`RowsOK`), and
   that an update of a call that is alone meets its row (`UpdatesMeetRows`).
3. `SubscribersHear`, from `HeardInv` next to `RowsInv`. `Comes` says what a subscriber will
   know of a key when the tasks that are queued have been carried out; the lemmas on it say
   what a task that is carried out, tasks that are posted and a new subscription do to it.
   `EventsHeard` and `PinsHeard` state it for the keys for which no call has still to look
   for whom to tell, `TellsStored` that what such a call carries is what is stored. The
   attempt to prove it showed that the property was false as it was first stated: who
   unsubscribes and subscribes again with the same callback object while a task with it is
   queued reads the new value and then hears of the older one. It takes one call more than
   the run has. The model now keeps these subscriptions in `stale`, and the property
   leaves them out.
4. `DataFollowsAnswers`, from `DataInv` over the tables of `ProfileData`. The tables hold
   `IdsOK`: an id is never drawn twice, and an indexed table has one row of a key. A call
   that has looked rows up holds ids that are of its own keys still, or of no row
   (`FoundOK`, `RowsLast`, `IdsGrow`): this is why a stale id cannot hit the row of another
   device. Of a key whose calls do not overlap (`OneCall`) the rows that were found are
   there as they were found if the look-up was not short, what is stored is among
   what the answers allow (`KeysOK`), and among what a call leaves if its answer is in doubt
   (`InDoubt`); what is still to be written is covered by `leaves` (`PutOK`, `SureOK`). There is a lemma for each statement on the tables
   (`RowInserted`, `RowUpdated`, `RowDeleted`) and one for what a step does to the calls
   and to `may` (`DataSteps`, `ReadsKeep`). Again the attempt to prove the property showed that it was false as it
   was stated: a table without its index may have been left with two rows of a device; a
   delete of which one statement fails leaves the other row, the call answers with a
   failure, and the next process builds the index over it. `crossed` now has such
   keys, at the start and when a short look-up lets a put insert a second row, and the run `stores` starts from such a table too (`MCStored`).

### Only model-checked

Liveness: `PostInitEnds`, `PutReturns`, `AllEnd`, `AllReturn`, and the fairness part of
`RemoteCallSpec`. The prover has no rule for fairness or `ENABLED`.
All other invariants and action properties of the passing runs are theorems. The safety
part of `RemoteCallSpec` is proved in `ClientSessionProofs`.

## 5. Not modelled

* Radar, dumper and logging: output only.
* The capability files and their loader, the permission tables, the settings
  data: they are read once and only their contents matter. A permission is granted or
  refused, both are tried.
* The queries of TrustProfileManager that change nothing, beyond those its operations
  themselves make. `docs/trust-acl-access-control.md` describes their filters.
* `NotifyNotOHBaseOnline`, and of `ReleaseResource` all but its unsubscriptions.
* `DelayUnloadTask` and its timer: only its effect, `OnStop`, which may come at any time.
* Pictures of icons, and the use of the foreground user for `DEFAULT_USER_ID`.
* The order of an event handler's queue (first in, first out), which is assumed.
* External: the KV store, RDB, the asset store, the ability manager and DSoftBus. A
  statement or a batch is atomic and may fail. The restoring of a corrupt SQLite file is
  not modelled.
* Vendored and generated files, and the test code.

Worth adding: an abstract trust store whose operations are atomic, which `TrustProfile`
with one thread and no fault implements.
