-------------------------- MODULE ServiceLifecycle --------------------------
(***************************************************************************)
(* The life of the service process (distributed_device_profile_service_new *)
(* .cpp): the dependencies come up, PostInit runs, meanwhile clients       *)
(* already write.  A write before isInited_ is staged in dynamicProfileMap_*)
(* or switchProfileMap_ under cacheMtx_ and flushed by PostInitNext, which *)
(* holds cacheMtx_ from the first map to isInited_ = true.  The collectors *)
(* write through DeviceProfileManager instead, which stages in             *)
(* putTempCache_ while isFirst_ is set.  Subscribers wait for OnDpInited.  *)
(* OnStop and the death of the process may come at any point.              *)
(***************************************************************************)
EXTENDS Integers, FiniteSets

CONSTANTS
    Clients,      \* each owns a dynamic key and a switch key
    Subscribers,  \* the SAs that subscribe to OnDpInited
    DepSaIds,     \* the system abilities depSaIds_ starts with
    AccountSa,    \* SUBSYS_ACCOUNT_SYS_ABILITY_ID_BEGIN
    Boot,         \* the thread that runs PostInit
    Account,      \* the thread that runs AccountCommonEventCallback
    Values, None,
    Batches,      \* the kinds of profile one call may carry together
    Retries,      \* WRTE_CACHE_PROFILE_RETRY_TIMES
    MaxCallbacks, \* MAX_CALLBACK_LEN
    MaxOps,       \* bound: puts and user switches
    MaxFaults,    \* bound: failing writes outside the retry loop
    MaxCrashes    \* bound: deaths of the process

Collected == "collected"         \* what the collectors write, as one key
ASSUME ActorsAssumption == /\ Boot \notin Clients /\ Account \notin Clients
                           /\ Boot # Account /\ Collected \notin Clients
ASSUME ValuesAssumption == None \notin Values /\ Values # {}
ASSUME DepsAssumption == AccountSa \in DepSaIds
ASSUME BatchesAssumption == Batches \subseteq SUBSET {"dynamic", "switch"}
ASSUME RetriesAssumption == Retries \in Nat \ {0}
ASSUME LimitsAssumption == /\ MaxCallbacks \in Nat /\ MaxOps \in Nat
                           /\ MaxFaults \in Nat /\ MaxCrashes \in Nat

Writers == Clients \cup {Boot, Account}
DynamicKeys == Clients \cup {Collected}
Kinds == {"dynamic", "switch"}
Value == Values \cup {None}
Entries == [DynamicKeys -> Value]
NoEntries == [k \in DynamicKeys |-> None]
\* switchProfileMap_ has a key for every profile, of either kind.
SwitchMap == [Clients \X Kinds -> Value]
NoSwitches == [x \in Clients \X Kinds |-> None]

VARIABLES
    depSaIds, isInited, isStopped,
    boot,          \* where PostInit is
    tryTimes,      \* SavePutTempCache attempts left
    entries, taken,   \* locals of the two flushes
    dynamicMap, switchMap,      \* dynamicProfileMap_, switchProfileMap_
    isFirst, putTemp,           \* isFirst_, putTempCache_
    storeOpen, store, switchStore,
    pc, job,       \* per writer: next step and what it writes
    callbacks,     \* dpInitedCallbackMap_
    sub, told,     \* per subscriber: progress, OnDpInited calls received
    window,        \* history: subscribers whose call met the end of PostInit
    stop,          \* where OnStop is
    postInits,     \* history: PostInit calls of this process
    last, lastSwitch,  \* history: the value each key was last acknowledged
    ops, faults, crashes

flush == <<boot, tryTimes, entries, taken>>
staged == <<dynamicMap, switchMap>>
manager == <<isFirst, putTemp, storeOpen>>
stores == <<store, switchStore>>
writers == <<pc, job>>
subs == <<callbacks, sub, told, window>>
acks == <<last, lastSwitch>>
flags == <<depSaIds, isInited, isStopped, stop, postInits>>
bounds == <<ops, faults, crashes>>
vars == <<flush, staged, manager, stores, writers, subs, acks, flags, bounds>>

\* The entries of f, overridden by those of g.
Over(f, g) == [k \in DOMAIN f |-> IF g[k] # None THEN g[k] ELSE f[k]]
Empty(f) == \A k \in DOMAIN f : f[k] = None

\* cacheMtx_ as the writers see it: only PostInitNext keeps it for long.
Flushing == {"putSwitch", "copy", "recopy", "merge", "batch", "first",
             "reset", "clearTemp", "clearDynamic", "setInited"}
\* Faulty variant: a writer does not take cacheMtx_.
CacheIgnored == TRUE
CacheFree == boot \notin Flushing

\* A call returns: its locals are gone.
NoJob == [key |-> Collected, kinds |-> {}, value |-> None]
Return(t) == /\ pc' = [pc EXCEPT ![t] = "idle"]
             /\ job' = [job EXCEPT ![t] = NoJob]

Fault == faults < MaxFaults /\ faults' = faults + 1
NoFault == UNCHANGED faults
\* Once OnStop has begun the switch store may be closed.
SwitchFault == Fault \/ (stop # "run" /\ NoFault)

-----------------------------------------------------------------------------
(* Dependencies and PostInit *)

LastDep(sa) == depSaIds # {} /\ depSaIds \ {sa} = {}

\* OnAddSystemAbility: the thread that erases the last dependency runs
\* PostInit.  A system ability may be announced again when it restarts.
OnAddSystemAbility(sa) ==
    /\ ~isInited
    /\ depSaIds' = depSaIds \ {sa}
    /\ IF LastDep(sa) THEN boot' = "open" /\ postInits' = postInits + 1
                      ELSE UNCHANGED <<boot, postInits>>
    /\ UNCHANGED <<tryTimes, entries, taken, staged, manager, stores, writers,
                   subs, acks, isInited, isStopped, stop, bounds>>

\* PostInit up to DeviceProfileManager::Init.  A scan of an empty store is an
\* error, so isFirst_ is only ever cleared here.
PostInit ==
    /\ boot = "open"
    /\ \/ /\ boot' = "managers"
          /\ storeOpen' = TRUE
          /\ isFirst' = (isFirst /\ Empty(store))
       \/ /\ boot' = "failed"
          /\ UNCHANGED <<storeOpen, isFirst>>
    /\ UNCHANGED <<tryTimes, entries, taken, staged, putTemp, stores, writers,
                   subs, acks, flags, bounds>>

Collect(t) == \E v \in Values :
    /\ job' = [job EXCEPT ![t] = [key |-> Collected, kinds |-> {"dynamic"},
                                  value |-> v]]
    /\ pc' = [pc EXCEPT ![t] = "check"]

\* The other managers, then ContentSensorManager, whose thread is joined.
PostInitCollect ==
    /\ boot = "managers"
    /\ \/ boot' = "collect" /\ Collect(Boot)
       \/ boot' = "failed" /\ UNCHANGED writers
    /\ UNCHANGED <<tryTimes, entries, taken, staged, manager, stores, subs,
                   acks, flags, bounds>>

PostInitNext ==
    /\ boot = "collect" /\ pc[Boot] = "idle"
    /\ boot' \in {"lock", "failed"}
    /\ UNCHANGED <<tryTimes, entries, taken, staged, manager, stores, writers,
                   subs, acks, flags, bounds>>

\* Takes cacheMtx_; switchProfileMap_ is cleared before the write.
SaveSwitchProfilesFromTempCache ==
    /\ boot = "lock"
    /\ taken' = switchMap
    /\ switchMap' = NoSwitches
    /\ boot' = "putSwitch"
    /\ UNCHANGED <<tryTimes, entries, dynamicMap, manager, stores, writers,
                   subs, acks, flags, bounds>>

\* Faulty variant: one profile that is no switch refuses the batch, the way
\* SetSwitchByProfileBatch does.
StrictSwitches == [c \in Clients |->
                     IF \E d \in Clients : taken[<<d, "dynamic">>] # None
                     THEN None ELSE taken[<<c, "switch">>]]
\* SetSwitchByProfile refuses a profile that is no switch, which is only
\* logged: the batch goes on with the switches.
TakenSwitches == [c \in Clients |-> taken[<<c, "switch">>]]

PutSwitchBatch ==
    /\ boot = "putSwitch"
    /\ \/ /\ NoFault
          /\ switchStore' = Over(switchStore, TakenSwitches)
       \/ /\ SwitchFault /\ ~Empty(taken)
          /\ UNCHANGED switchStore
    /\ taken' = NoSwitches
    /\ boot' = "copy"
    /\ UNCHANGED <<tryTimes, entries, staged, manager, store, writers, subs,
                   acks, flags, ops, crashes>>

\* GetDynamicProfilesFromTempCache; with nothing found on a first boot, once
\* more after WAIT_BUSINESS_PUT_TIME_S.
CopyDynamicProfiles ==
    /\ boot \in {"copy", "recopy"}
    /\ entries' = Over(entries, dynamicMap)
    /\ boot' = IF boot = "copy" /\ Empty(entries') /\ isFirst THEN "recopy"
               ELSE "merge"
    /\ UNCHANGED <<tryTimes, taken, staged, manager, stores, writers, subs,
                   acks, flags, bounds>>

\* SavePutTempCache: copy putTempCache_, write, clear isFirst_, clear the cache.
\* Its two mutexes are held for one of these steps each.
SavePutTempCache ==
    /\ boot = "merge"
    /\ entries' = Over(entries, putTemp)
    /\ boot' = IF Empty(entries') THEN "first" ELSE "batch"
    /\ UNCHANGED <<tryTimes, taken, staged, manager, stores, writers, subs,
                   acks, flags, bounds>>

\* Faulty variant: a failing attempt is not counted.
RetriesKept(n) == n
RetriesLeft(n) == n - 1
GivesUp(n) == n = 0

PutTempBatch ==
    /\ boot = "batch"
    /\ \/ /\ storeOpen
          /\ store' = Over(store, entries)
          /\ boot' = "first"
          /\ UNCHANGED tryTimes
       \/ /\ tryTimes' = RetriesLeft(tryTimes)
          /\ boot' = IF GivesUp(tryTimes') THEN "reset" ELSE "merge"
          /\ UNCHANGED store
    /\ UNCHANGED <<entries, taken, staged, manager, switchStore, writers, subs,
                   acks, flags, bounds>>

ResetFirst ==
    /\ boot \in {"first", "reset"}
    /\ isFirst' = FALSE
    /\ boot' = IF boot = "first" THEN "clearTemp" ELSE "clearDynamic"
    /\ UNCHANGED <<tryTimes, entries, taken, staged, putTemp, storeOpen,
                   stores, writers, subs, acks, flags, bounds>>

ClearPutTempCache ==
    /\ boot = "clearTemp"
    /\ putTemp' = NoEntries
    /\ boot' = "clearDynamic"
    /\ UNCHANGED <<tryTimes, entries, taken, staged, isFirst, storeOpen,
                   stores, writers, subs, acks, flags, bounds>>

ClearDynamicProfileMap ==
    /\ boot = "clearDynamic"
    /\ dynamicMap' = NoEntries
    /\ entries' = NoEntries
    /\ boot' = "setInited"
    /\ UNCHANGED <<tryTimes, taken, switchMap, manager, stores, writers, subs,
                   acks, flags, bounds>>

\* isInited_ = true, and cacheMtx_ is released.
SetInited ==
    /\ boot = "setInited"
    /\ isInited' = TRUE
    /\ boot' = "notify"
    /\ window' = window \cup {s \in Subscribers : sub[s] = "store"}
    /\ UNCHANGED <<tryTimes, entries, taken, staged, manager, stores, writers,
                   callbacks, sub, told, acks, depSaIds, isStopped, stop,
                   postInits, bounds>>

NotifyDeviceProfileInited ==
    /\ boot = "notify"
    /\ told' = [s \in Subscribers |->
                  told[s] + IF s \in callbacks THEN 1 ELSE 0]
    /\ boot' = "done"
    /\ UNCHANGED <<tryTimes, entries, taken, staged, manager, stores, writers,
                   callbacks, sub, window, acks, flags, bounds>>

-----------------------------------------------------------------------------
(* Writers *)

\* A put of one or two profiles passes the IsStopped check of the stub.
PutProfiles(c, kinds, v) ==
    /\ pc[c] = "idle" /\ ~isStopped /\ ops < MaxOps
    /\ ops' = ops + 1
    /\ job' = [job EXCEPT ![c] = [key |-> c, kinds |-> kinds, value |-> v]]
    /\ pc' = [pc EXCEPT ![c] = "enter"]
    /\ UNCHANGED <<flush, staged, manager, stores, subs, acks, flags, faults,
                   crashes>>

\* AddSvrProfilesToCache, AddCharProfilesToCache: when a batch has a switch,
\* every profile of the batch goes to switchProfileMap_.
Stage(f, k, v) == [f EXCEPT ![k] = v]

AddProfilesToCache(c) ==
    /\ pc[c] = "enter" /\ CacheFree /\ ~isInited
    /\ LET j == job[c] IN
       /\ dynamicMap' = IF "dynamic" \in j.kinds
                        THEN Stage(dynamicMap, c, j.value) ELSE dynamicMap
       /\ switchMap' = IF "switch" \in j.kinds
                       THEN [x \in DOMAIN switchMap |->
                               IF x[1] = c /\ x[2] \in j.kinds THEN j.value
                               ELSE switchMap[x]]
                       ELSE switchMap
       /\ last' = IF "dynamic" \in j.kinds
                  THEN [last EXCEPT ![c] = j.value] ELSE last
       /\ lastSwitch' = IF "switch" \in j.kinds
                        THEN [lastSwitch EXCEPT ![c] = j.value]
                        ELSE lastSwitch
    /\ Return(c)
    /\ UNCHANGED <<flush, manager, stores, subs, flags, bounds>>

\* The service is inited: cacheMtx_ is released and the managers are called.
PutToManagers(c) ==
    /\ pc[c] = "enter" /\ CacheFree /\ isInited
    /\ pc' = [pc EXCEPT ![c] = IF "switch" \in job[c].kinds THEN "switch"
                               ELSE "check"]
    /\ UNCHANGED <<flush, staged, manager, stores, job, subs, acks, flags,
                   bounds>>

\* SwitchProfileManager; a failure does not keep the rest of the batch back.
PutSwitch(c) ==
    /\ pc[c] = "switch"
    /\ \/ /\ NoFault
          /\ switchStore' = [switchStore EXCEPT ![c] = job[c].value]
          /\ lastSwitch' = [lastSwitch EXCEPT ![c] = job[c].value]
       \/ /\ SwitchFault
          /\ UNCHANGED <<switchStore, lastSwitch>>
    /\ IF "dynamic" \in job[c].kinds
       THEN pc' = [pc EXCEPT ![c] = "check"] /\ UNCHANGED job
       ELSE Return(c)
    /\ UNCHANGED <<flush, staged, manager, store, subs, last, flags, ops,
                   crashes>>

\* AccountCommonEventCallback, USER_SWITCHED: the collectors run again.
AccountCommonEventCallback ==
    /\ pc[Account] = "idle" /\ AccountSa \notin depSaIds
    /\ ops < MaxOps
    /\ ops' = ops + 1
    /\ Collect(Account)
    /\ UNCHANGED <<flush, staged, manager, stores, subs, acks, flags, faults,
                   crashes>>

\* DeviceProfileManager::Put*: isFirst_ is read without a lock.
PutCheckFirst(t) ==
    /\ pc[t] = "check"
    /\ pc' = [pc EXCEPT ![t] = IF isFirst THEN "temp" ELSE "store"]
    /\ UNCHANGED <<flush, staged, manager, stores, job, subs, acks, flags,
                   bounds>>

AddToPutTempCache(t) ==
    /\ pc[t] = "temp"
    /\ putTemp' = [putTemp EXCEPT ![job[t].key] = job[t].value]
    /\ last' = [last EXCEPT ![job[t].key] = job[t].value]
    /\ Return(t)
    /\ UNCHANGED <<flush, staged, isFirst, storeOpen, stores, subs, lastSwitch,
                   flags, bounds>>

PutStore(t) ==
    /\ pc[t] = "store"
    /\ \/ /\ NoFault /\ storeOpen
          /\ store' = [store EXCEPT ![job[t].key] = job[t].value]
          /\ last' = [last EXCEPT ![job[t].key] = job[t].value]
       \/ /\ Fault \/ (~storeOpen /\ NoFault)
          /\ UNCHANGED <<store, last>>
    /\ Return(t)
    /\ UNCHANGED <<flush, staged, manager, switchStore, subs, lastSwitch,
                   flags, ops, crashes>>

-----------------------------------------------------------------------------
(* Subscribers of OnDpInited *)

\* Faulty variant: a late subscriber is only put into the map.
NotToldAtOnce == FALSE
ToldAtOnce == isInited

\* SubscribeDeviceProfileInited reads isInited_ before it takes
\* dpInitedCallbackMapMtx_; a full map refuses the call after the callback.
SubscribeDeviceProfileInited(s) ==
    /\ sub[s] = "new" /\ ~isStopped
    /\ told' = [told EXCEPT ![s] = @ + IF ToldAtOnce THEN 1 ELSE 0]
    /\ sub' = [sub EXCEPT ![s] = "store"]
    /\ window' = IF boot = "notify" THEN window \cup {s} ELSE window
    /\ UNCHANGED <<flush, staged, manager, stores, writers, callbacks, acks,
                   flags, bounds>>

SubscribeStore(s) ==
    /\ sub[s] = "store"
    /\ IF Cardinality(callbacks) > MaxCallbacks
       THEN /\ sub' = [sub EXCEPT ![s] = "refused"]
            /\ UNCHANGED callbacks
       ELSE /\ sub' = [sub EXCEPT ![s] = "in"]
            /\ callbacks' = callbacks \cup {s}
    /\ UNCHANGED <<flush, staged, manager, stores, writers, told, window, acks,
                   flags, bounds>>

UnSubscribeDeviceProfileInited(s) ==
    /\ sub[s] = "in" /\ ~isStopped
    /\ sub' = [sub EXCEPT ![s] = "out"]
    /\ callbacks' = callbacks \ {s}
    /\ UNCHANGED <<flush, staged, manager, stores, writers, told, window, acks,
                   flags, bounds>>

-----------------------------------------------------------------------------
(* Stop and restart *)

OnStop ==
    /\ stop = "run"
    /\ isStopped' = TRUE
    /\ stop' = "uninit"
    /\ UNCHANGED <<flush, staged, manager, stores, writers, subs, acks,
                   depSaIds, isInited, postInits, bounds>>

\* UnInit ends at the first manager that fails.
UnInit ==
    /\ stop = "uninit"
    /\ isInited' = FALSE
    /\ stop' \in {"store", "stopped"}
    /\ UNCHANGED <<flush, staged, manager, stores, writers, subs, acks,
                   depSaIds, isStopped, postInits, bounds>>

\* DeviceProfileManager::UnInit fails when there is no store.
UnInitStore ==
    /\ stop = "store"
    /\ storeOpen' = FALSE
    /\ stop' = IF storeOpen THEN "temp" ELSE "stopped"
    /\ UNCHANGED <<flush, staged, isFirst, putTemp, stores, writers, subs,
                   acks, depSaIds, isInited, isStopped, postInits, bounds>>

UnInitTempCache ==
    /\ stop = "temp"
    /\ putTemp' = NoEntries
    /\ stop' \in {"clear", "stopped"}
    /\ UNCHANGED <<flush, staged, isFirst, storeOpen, stores, writers, subs,
                   acks, depSaIds, isInited, isStopped, postInits, bounds>>

ClearProfileCache ==
    /\ stop = "clear"
    /\ dynamicMap' = NoEntries
    /\ switchMap' = NoSwitches
    /\ stop' = "stopped"
    /\ UNCHANGED <<flush, manager, stores, writers, subs, acks, depSaIds,
                   isInited, isStopped, postInits, bounds>>

\* The process ends, after OnStop or by a crash, and a new one starts: only
\* the stores are left.
Restart ==
    /\ crashes < MaxCrashes
    /\ crashes' = crashes + 1
    /\ depSaIds' = DepSaIds
    /\ isInited' = FALSE /\ isStopped' = FALSE
    /\ boot' = "wait" /\ tryTimes' = Retries
    /\ entries' = NoEntries /\ taken' = NoSwitches
    /\ dynamicMap' = NoEntries /\ switchMap' = NoSwitches
    /\ isFirst' = TRUE /\ putTemp' = NoEntries /\ storeOpen' = FALSE
    /\ pc' = [t \in Writers |-> "idle"]
    /\ callbacks' = {}
    /\ sub' = [s \in Subscribers |-> "new"]
    /\ told' = [s \in Subscribers |-> 0]
    /\ window' = {}
    /\ stop' = "run" /\ postInits' = 0
    /\ last' = store /\ lastSwitch' = switchStore
    /\ job' = [t \in Writers |-> NoJob]
    /\ UNCHANGED <<stores, ops, faults>>

-----------------------------------------------------------------------------
Init ==
    /\ depSaIds = DepSaIds
    /\ isInited = FALSE /\ isStopped = FALSE
    /\ boot = "wait" /\ tryTimes = Retries
    /\ entries = NoEntries /\ taken = NoSwitches
    /\ dynamicMap = NoEntries /\ switchMap = NoSwitches
    /\ isFirst = TRUE /\ putTemp = NoEntries /\ storeOpen = FALSE
    /\ store = NoEntries /\ switchStore = [c \in Clients |-> None]
    /\ pc = [t \in Writers |-> "idle"]
    /\ job = [t \in Writers |-> NoJob]
    /\ callbacks = {}
    /\ sub = [s \in Subscribers |-> "new"]
    /\ told = [s \in Subscribers |-> 0]
    /\ window = {}
    /\ stop = "run" /\ postInits = 0
    /\ last = store /\ lastSwitch = switchStore
    /\ ops = 0 /\ faults = 0 /\ crashes = 0

BootStep ==
    \/ PostInit \/ PostInitCollect \/ PostInitNext
    \/ SaveSwitchProfilesFromTempCache \/ PutSwitchBatch
    \/ CopyDynamicProfiles \/ SavePutTempCache \/ PutTempBatch \/ ResetFirst
    \/ ClearPutTempCache \/ ClearDynamicProfileMap \/ SetInited
    \/ NotifyDeviceProfileInited
ClientStep(c) == AddProfilesToCache(c) \/ PutToManagers(c) \/ PutSwitch(c)
ManagerStep(t) == PutCheckFirst(t) \/ AddToPutTempCache(t) \/ PutStore(t)
Subscription(s) == \/ SubscribeDeviceProfileInited(s) \/ SubscribeStore(s)
                   \/ UnSubscribeDeviceProfileInited(s)
StopStep == \/ OnStop \/ UnInit \/ UnInitStore \/ UnInitTempCache
            \/ ClearProfileCache

Next == \/ \E sa \in DepSaIds : OnAddSystemAbility(sa)
        \/ BootStep
        \/ \E c \in Clients, b \in Batches, v \in Values : PutProfiles(c, b, v)
        \/ \E c \in Clients : ClientStep(c)
        \/ AccountCommonEventCallback
        \/ \E t \in Writers : ManagerStep(t)
        \/ \E s \in Subscribers : Subscription(s)
        \/ StopStep
        \/ Restart

\* PostInit and a put run on threads of their own: once called they go on.
\* Nothing is assumed of clients, dependencies, subscribers or OnStop.
Fairness == /\ WF_vars(BootStep)
            /\ \A c \in Clients : WF_vars(ClientStep(c))
            /\ \A t \in Writers : WF_vars(ManagerStep(t))

Spec == Init /\ [][Next]_vars /\ Fairness

-----------------------------------------------------------------------------
(* Properties *)

BootLabels == {"wait", "open", "managers", "collect", "lock", "notify",
               "done", "failed"} \cup Flushing
Job == [key : DynamicKeys, kinds : SUBSET Kinds, value : Value]

\* The types of the state.
TypeOK ==
    /\ depSaIds \in SUBSET DepSaIds
    /\ isInited \in BOOLEAN /\ isStopped \in BOOLEAN
    /\ boot \in BootLabels /\ tryTimes \in 0..Retries
    /\ entries \in Entries /\ taken \in SwitchMap
    /\ dynamicMap \in Entries /\ switchMap \in SwitchMap
    /\ isFirst \in BOOLEAN /\ putTemp \in Entries /\ storeOpen \in BOOLEAN
    /\ store \in Entries /\ switchStore \in [Clients -> Value]
    /\ pc \in [Writers -> {"idle", "enter", "switch", "check", "temp", "store"}]
    /\ job \in [Writers -> Job]
    /\ callbacks \in SUBSET Subscribers
    /\ sub \in [Subscribers -> {"new", "store", "in", "refused", "out"}]
    /\ told \in [Subscribers -> Nat]
    /\ window \in SUBSET Subscribers
    /\ stop \in {"run", "uninit", "store", "temp", "clear", "stopped"}
    /\ postInits \in Nat
    /\ last \in Entries /\ lastSwitch \in [Clients -> Value]
    /\ ops \in Nat /\ faults \in Nat /\ crashes \in Nat

Serving == isInited /\ ~isStopped

\* However often the dependencies come and go, PostInit runs once in a process:
\* a second run would open the stores and collect again under live writers.
PostInitOnce == postInits <= 1

\* An acknowledged dynamic profile is in the store once the service is inited,
\* whether it was staged, flushed or written directly, unless all attempts to
\* flush failed.
Flushed == (Serving /\ tryTimes > 0) =>
               \A c \in Clients : store[c] = last[c]

\* The same of the switches, which are not retried.
SwitchesFlushed == (Serving /\ faults = 0) =>
                       \A c \in Clients : switchStore[c] = lastSwitch[c]

\* A subscriber in the map hears OnDpInited exactly once, and one that has left
\* it not twice, as long as its call did not meet the end of PostInit.
ToldOnce == (boot = "done" /\ Serving) =>
    \A s \in Subscribers \ window :
        /\ sub[s] = "in" => told[s] = 1
        /\ sub[s] = "out" => told[s] <= 1

\* PostInit ends: a store that keeps failing, the joined collector thread and
\* the writers do not hold it up.
PostInitEnds == depSaIds = {} ~> boot \in {"done", "failed", "wait"}

\* A put returns, also when it waits for cacheMtx_ during the flush.
PutReturns == \A c \in Clients : pc[c] # "idle" ~> pc[c] = "idle"

=============================================================================
