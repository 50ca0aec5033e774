----------------------------- MODULE ProfileSync -----------------------------
(***************************************************************************)
(* Synchronisation with other devices and the listeners it needs: the sync *)
(* calls of DeviceProfileManager and StaticProfileManager, the listeners   *)
(* that ProfileCache and StaticProfileManager keep for the callers, the    *)
(* completions that KvSyncCompletedListener posts to the one event handler *)
(* of the service, the adapter for devices that are not OpenHarmony based, *)
(* and KvDeathRecipient, that opens the stores anew after a death of the   *)
(* KV service.                                                             *)
(***************************************************************************)
EXTENDS ProfileChanges

CONSTANTS
    Callers,     \* processes that call
    OhPeers,     \* OpenHarmony based devices
    OtherPeers,  \* other devices
    Requests,    \* the lists of devices that calls name
    Adapters,    \* the KV adapters of the process
    MaxCalls,    \* bound: sync calls
    MaxEvents    \* bound: calls, failures, deaths, writes, subscriptions, devices

SyncStores == {"dynamic", "static"}
Peers == OhPeers \cup OtherPeers
ASSUME SyncAssumption ==
    /\ OhPeers \cap OtherPeers = {} /\ SyncStores \subseteq Adapters
    /\ Adapters \subseteq SyncStores \cup {"business", "service", "serviceSync"}
    /\ Requests \subseteq SUBSET Peers /\ MaxCalls \in Nat /\ MaxEvents \in Nat

Ids == 1 .. MaxCalls   \* the callbacks of the calls; 0 is none

VARIABLES
    st,        \* each KV adapter: open, stale (its service died), failed or none
    dying,     \* adapters that are yet to hear that the KV service died
    handler,   \* the tasks posted to the event handler, oldest first
    running,   \* the task it is running
    syncing,   \* how many synchronisations of a store are under way
    listeners, \* syncListenerMap_ of both managers: the callback of each caller
    watched,   \* callbacks with the death recipient of ProfileCache
    notices,   \* deaths of callbacks that are yet to be heard
    online,    \* onlineDevMap_
    calls,     \* sync calls, and their threads for other devices
    loaded,    \* the adapter for other devices, dpSyncAdapter_
    events,
    owner,     \* history: the caller of each call
    accepted,  \* history: calls that returned DP_SUCCESS, with OpenHarmony devices
    dead,      \* history: callbacks whose process died
    heard,     \* history: how often a callback heard of a completion
    lost,      \* history: callbacks that were replaced, or lost their completion
    late,      \* history: callbacks that were dead when they were registered
    answered,  \* history: other devices that a call was answered for
    dropped    \* history: adapters whose re-opening was removed from the handler

storeVars == <<st, dying, handler, running, syncing>>
listenerVars == <<listeners, watched, notices>>
callVars == <<online, calls, loaded>>
fates == <<owner, accepted, dead, heard, lost, late, answered, dropped>>
syncVars == <<storeVars, listenerVars, callVars, events, fates>>

Idle == [kind |-> "idle", store |-> "dynamic", pc |-> "idle", got |-> [c \in Callers |-> 0]]
Task(kind, s) == [Idle EXCEPT !.kind = kind, !.store = s, !.pc = "start"]

SyncInit ==
    /\ st = [a \in Adapters |-> "open"] /\ dying = {} /\ handler = <<>> /\ running = Idle
    /\ syncing = [s \in SyncStores |-> 0]
    /\ listeners = [s \in SyncStores |-> [c \in Callers |-> 0]]
    /\ watched = {} /\ notices = {}
    /\ online = Peers /\ calls = {} /\ loaded = TRUE
    /\ events = 0 /\ owner = <<>> /\ accepted = {} /\ dead = {}
    /\ heard = [i \in Ids |-> 0] /\ lost = {} /\ late = {} /\ answered = {} /\ dropped = {}
    /\ ChangesInit

Count == events < MaxEvents /\ events' = events + 1
Post(task) == handler' = Append(handler, task)
Open(s) == st[s] = "open"
Registered(s) == {i \in Ids : \E c \in Callers : listeners[s][c] = i}
-----------------------------------------------------------------------------
(* SyncDeviceProfile and SyncStaticProfile.                                *)
FilterAndGroupOnlineDevices(devs) == [oh |-> devs \cap online \cap OhPeers,
                                      other |-> devs \cap online \cap OtherPeers]

\* A call needs an OpenHarmony device for the static store, any device for the
\* dynamic one.
Sync(c, s, devs) ==
    LET id == Len(owner) + 1
        group == FilterAndGroupOnlineDevices(devs)
        other == IF s = "dynamic" THEN group.other ELSE {}
    IN /\ id \in Ids /\ Count /\ group.oh \cup other # {}
       /\ owner' = Append(owner, c)
       /\ calls' = calls \cup {[id |-> id, store |-> s, other |-> other,
                                pc |-> IF group.oh = {} THEN "thread" ELSE "add"]}
       /\ UNCHANGED <<storeVars, listenerVars, online, loaded, accepted, dead, heard, lost,
                      late, answered, dropped, dataVars, subVars>>

Goto(t, pc) == calls' = (calls \ {t}) \cup {[t EXCEPT !.pc = pc]}
End(t) == calls' = calls \ {t}

\* The callback takes the place of an earlier one of its caller.  ProfileCache
\* watches its process; StaticProfileManager hands over a recipient it never made.
NoWatch(t) == UNCHANGED watched
Watch(t) == watched' = IF t.store = "dynamic" /\ t.id \notin dead
                       THEN watched \cup {t.id} ELSE watched

\* The dynamic call goes on when the map is full, the static one returns.
AddSyncListener(t) ==
    LET s == t.store
        c == owner[t.id]
        full == Cardinality(Registered(s)) > MaxListeners
    IN /\ t.pc = "add"
       /\ IF full
          THEN /\ lost' = lost \cup {t.id}
               /\ IF s = "static" THEN End(t) ELSE Goto(t, "sync")
               /\ UNCHANGED <<listeners, watched, late>>
          ELSE /\ listeners' = [listeners EXCEPT ![s][c] = t.id]
               /\ lost' = lost \cup ({listeners[s][c]} \ {0})
               /\ late' = IF t.id \in dead THEN late \cup {t.id} ELSE late
               /\ Watch(t) /\ Goto(t, "sync")
       /\ UNCHANGED <<storeVars, notices, online, loaded, events, owner, accepted, dead,
                      heard, answered, dropped, dataVars, subVars>>

\* KVAdapter::Sync.  When it fails the call does too, and the callback stays.
KvSync(t) ==
    /\ t.pc = "sync"
    /\ \/ /\ Open(t.store)
          /\ syncing' = [syncing EXCEPT ![t.store] = @ + 1]
          /\ accepted' = accepted \cup {t.id}
          /\ IF t.other = {} THEN End(t) ELSE Goto(t, "thread")
          /\ UNCHANGED events
       \/ ~Open(t.store) /\ End(t) /\ UNCHANGED <<syncing, accepted, events>>
       \/ Open(t.store) /\ Count /\ End(t) /\ UNCHANGED <<syncing, accepted>>
    /\ UNCHANGED <<st, dying, handler, running, listenerVars, online, loaded, owner, dead,
                   heard, lost, late, answered, dropped, dataVars, subVars>>

\* The detached thread for the other devices: it loads the adapter and hands it
\* the devices one after the other; a device that fails is answered for at once.
LoadAdapter(t) ==
    /\ t.pc = "thread"
    /\ \/ loaded' = TRUE /\ Goto(t, "run") /\ UNCHANGED <<events, answered>>
       \/ /\ ~loaded /\ Count /\ End(t) /\ UNCHANGED loaded
          /\ answered' = answered \cup ({t.id} \X t.other)
    /\ UNCHANGED <<storeVars, listenerVars, online, owner, accepted, dead, heard, lost,
                   late, dropped, dataVars, subVars>>

SyncWithNotOHBasedDevice(t) ==
    /\ t.pc = "run"
    /\ \E p \in t.other :
          /\ answered' = answered \cup {<<t.id, p>>}
          /\ IF t.other = {p} THEN End(t)
             ELSE calls' = (calls \ {t}) \cup {[t EXCEPT !.other = @ \ {p}]}
    /\ UNCHANGED <<storeVars, listenerVars, online, loaded, events, owner, accepted, dead,
                   heard, lost, late, dropped, dataVars, subVars>>
-----------------------------------------------------------------------------
(* Completions.                                                            *)
\* SyncCompleted, on a thread of the KV layer.
SyncCompleted(s) ==
    /\ syncing[s] > 0 /\ Open(s)
    /\ syncing' = [syncing EXCEPT ![s] = @ - 1]
    /\ Post(Task("onSync", s))
    /\ UNCHANGED <<st, dying, running, listenerVars, callVars, events, fates, dataVars,
                   subVars>>

\* The event handler has one thread.
RunTask ==
    /\ running = Idle /\ handler # <<>>
    /\ running' = Head(handler) /\ handler' = Tail(handler)
    /\ UNCHANGED <<st, dying, syncing, listenerVars, callVars, events, fates, dataVars,
                   subVars>>

\* NotifySyncCompleted and NotifyStaticSyncCompleted copy the map, call every
\* callback in it, whoever waits for which synchronisation, and then remove the
\* callers of the copy.
GetSyncListeners ==
    /\ running.kind = "onSync" /\ running.pc = "start"
    /\ running' = [running EXCEPT !.pc = "call", !.got = listeners[running.store]]
    /\ UNCHANGED <<st, dying, handler, syncing, listenerVars, callVars, events, fates,
                   dataVars, subVars>>

OnSyncCompleted ==
    LET got == {running.got[c] : c \in Callers} \ ({0} \cup dead)
    IN /\ running.kind = "onSync" /\ running.pc = "call"
       /\ heard' = [i \in Ids |-> IF i \in got THEN heard[i] + 1 ELSE heard[i]]
       /\ running' = [running EXCEPT !.pc = "remove"]
       /\ UNCHANGED <<st, dying, handler, syncing, listenerVars, callVars, events, owner,
                      accepted, dead, lost, late, answered, dropped, dataVars, subVars>>

RemoveSyncListeners(got) == {c \in Callers : got[c] # 0}
RemoveListeners ==
    LET s == running.store
        gone == RemoveSyncListeners(running.got)
        ids == {listeners[s][c] : c \in gone} \ {0}
    IN /\ running.kind = "onSync" /\ running.pc = "remove"
       /\ listeners' = [listeners EXCEPT ![s] = [c \in Callers |->
                            IF c \in gone THEN 0 ELSE listeners[s][c]]]
       /\ watched' = IF s = "dynamic" THEN watched \ ids ELSE watched
       /\ lost' = lost \cup {i \in ids : running.got[owner[i]] # i}
       /\ running' = Idle
       /\ UNCHANGED <<st, dying, handler, syncing, notices, callVars, events, owner,
                      accepted, dead, heard, late, answered, dropped, dataVars, subVars>>

\* A process dies with its callbacks; SyncSubscriberDeathRecipient removes the
\* ones it watches.
CallerDies(c) ==
    LET ids == {i \in DOMAIN owner : owner[i] = c}
    IN /\ Count /\ ids \ dead # {}
       /\ dead' = dead \cup ids /\ notices' = notices \cup (watched \cap ids)
       /\ watched' = watched \ ids
       /\ UNCHANGED <<storeVars, listeners, callVars, owner, accepted, heard, lost, late,
                      answered, dropped, dataVars, subVars>>

RemoveByCaller(i) == [c \in Callers |-> IF c = owner[i] THEN 0 ELSE listeners["dynamic"][c]]
RemoveSyncListener(i) == [c \in Callers |-> IF listeners["dynamic"][c] = i THEN 0
                                            ELSE listeners["dynamic"][c]]
OnRemoteDied(i) ==
    /\ i \in notices /\ notices' = notices \ {i}
    /\ listeners' = [listeners EXCEPT !["dynamic"] = RemoveSyncListener(i)]
    /\ UNCHANGED <<storeVars, watched, callVars, events, fates, dataVars, subVars>>
-----------------------------------------------------------------------------
(* Devices.                                                                *)
\* A device that comes online posts a synchronisation of both stores.
DeviceOnline(d) ==
    /\ d \in Peers \ online /\ Count
    /\ online' = online \cup {d}
    /\ IF d \in OhPeers
       THEN handler' = handler \o <<Task("e2e", "dynamic"), Task("e2e", "static")>>
       ELSE UNCHANGED handler
    /\ UNCHANGED <<st, dying, running, syncing, listenerVars, calls, loaded, fates,
                   dataVars, subVars>>

DeviceOffline(d) ==
    /\ d \in online /\ Count /\ online' = online \ {d}
    /\ UNCHANGED <<storeVars, listenerVars, calls, loaded, fates, dataVars, subVars>>

E2ESync ==
    /\ running.kind = "e2e" /\ running' = Idle
    /\ syncing' = IF Open(running.store) THEN [syncing EXCEPT ![running.store] = @ + 1]
                  ELSE syncing
    /\ UNCHANGED <<st, dying, handler, listenerVars, callVars, events, fates, dataVars,
                   subVars>>
-----------------------------------------------------------------------------
(* The death of the KV service.                                            *)
\* Synchronisations under way end without an answer.
Forget(stores) ==
    /\ syncing' = [s \in SyncStores |-> IF s \in stores THEN 0 ELSE syncing[s]]
    /\ lost' = lost \cup UNION {Registered(s) : s \in stores}

KvServiceDies ==
    LET hit == {a \in Adapters : st[a] = "open"}
    IN /\ Count /\ hit # {}
       /\ st' = [a \in Adapters |-> IF a \in hit THEN "stale" ELSE st[a]]
       /\ dying' = dying \cup hit
       /\ Forget(hit \cap SyncStores)
       /\ UNCHANGED <<handler, running, listenerVars, callVars, owner, accepted, dead,
                      heard, late, answered, dropped, dataVars, subVars>>

\* KvDeathRecipient::OnRemoteDied
OnKvDied(a) ==
    /\ a \in dying /\ dying' = dying \ {a}
    /\ Post(Task("reInit", a))
    /\ UNCHANGED <<st, running, syncing, listenerVars, callVars, events, fates, dataVars,
                   subVars>>

\* What a task re-opens: the recipient of the business store names a store that
\* has a manager of its own but re-opens the dynamic one; ServiceInfoManager's
\* second adapter has the static store's name.
ReInitialised(a) == CASE a = "business" -> {"dynamic"}
                      [] a = "serviceSync" -> {"static"}
                      [] a = "service" -> {"service", "serviceSync"} \cap Adapters
                      [] OTHER -> {a}

\* What stays of the tasks, in their order, when those of some kinds are removed.
Without(tasks, kinds) ==
    LET kept == {i \in DOMAIN tasks : tasks[i].kind \notin kinds}
        Place(i) == Cardinality({j \in kept : j <= i})
    IN [n \in 1 .. Cardinality(kept) |-> tasks[CHOOSE i \in kept : Place(i) = n]]

\* UnInit destroys the listeners of the adapter: a KvSyncCompletedListener takes
\* the completions of every store from the handler, a KvDeathRecipient the
\* re-openings of every adapter.  The adapter for other devices is unloaded.
UnInit ==
    LET as == ReInitialised(running.store)
        kinds == {"reInit"} \cup IF as \cap SyncStores # {} THEN {"onSync"} ELSE {}
        removed == {handler[i] : i \in {j \in DOMAIN handler : handler[j].kind \in kinds}}
    IN /\ running.kind = "reInit" /\ running.pc = "start"
       /\ st' = [a \in Adapters |-> IF a \in as THEN "none" ELSE st[a]]
       /\ dying' = dying \ as
       /\ handler' = Without(handler, kinds)
       /\ dropped' = dropped \cup {task.store : task \in {r \in removed : r.kind = "reInit"}}
       /\ Forget((as \cap SyncStores)
                 \cup {task.store : task \in {r \in removed : r.kind = "onSync"}})
       /\ loaded' = (loaded /\ "dynamic" \notin as)
       /\ running' = [running EXCEPT !.pc = "init"]
       /\ UNCHANGED <<listenerVars, online, calls, events, owner, accepted, dead, heard,
                      late, answered, dataVars, subVars>>

InitForgets(as) == UNCHANGED st
InitStores(as) == st' = [a \in Adapters |-> IF a \in as THEN "open" ELSE st[a]]
Init ==
    LET as == ReInitialised(running.store)
    IN /\ running.kind = "reInit" /\ running.pc = "init" /\ running' = Idle
       /\ \/ /\ InitStores(as)
             /\ loaded' \in IF "dynamic" \in as THEN {TRUE, loaded} ELSE {loaded}
             /\ UNCHANGED events
          \/ /\ Count
             /\ st' = [a \in Adapters |-> IF a \in as THEN "failed" ELSE st[a]]
             /\ UNCHANGED loaded
       /\ dropped' = dropped \ as
       /\ UNCHANGED <<dying, handler, syncing, listenerVars, online, calls, owner,
                      accepted, dead, heard, lost, late, answered, dataVars, subVars>>
-----------------------------------------------------------------------------
(* Changes of the data, and their subscribers.                             *)
Write(b) == Count /\ KvWrite(b, Open("dynamic"))
            /\ UNCHANGED <<storeVars, listenerVars, callVars, fates>>
Subscribe(s, k) == /\ Count /\ s \notin SubscribersOf(k)
                   /\ SubscribeDeviceProfile(s, k, ChangeTypes)
                   /\ UNCHANGED <<storeVars, listenerVars, callVars, fates, dataVars>>
UnSubscribe(s, k) == /\ Count /\ s \in SubscribersOf(k)
                     /\ UnSubscribeDeviceProfile(s, k)
                     /\ UNCHANGED <<storeVars, listenerVars, callVars, fates, dataVars>>
DataChange == /\ OnChange \/ ReadRecords(Open("dynamic")) \/ HandleChange(Open("dynamic"))
              /\ UNCHANGED syncVars
-----------------------------------------------------------------------------
SyncCalls ==
    \/ \E c \in Callers, s \in SyncStores, devs \in Requests : Sync(c, s, devs)
    \/ \E t \in calls : \/ AddSyncListener(t) \/ KvSync(t)
                        \/ LoadAdapter(t) \/ SyncWithNotOHBasedDevice(t)
Handler == RunTask \/ GetSyncListeners \/ OnSyncCompleted \/ RemoveListeners \/ E2ESync
           \/ UnInit \/ Init
Outside ==
    \/ \E s \in SyncStores : SyncCompleted(s)
    \/ \E c \in Callers : CallerDies(c)
    \/ \E i \in Ids : OnRemoteDied(i)
    \/ \E d \in Peers : DeviceOnline(d) \/ DeviceOffline(d)
    \/ KvServiceDies \/ \E a \in Adapters : OnKvDied(a)
Changes == \/ \E b \in Batches : Write(b)
           \/ \E s \in Subscribers, k \in SubKeys : Subscribe(s, k) \/ UnSubscribe(s, k)
           \/ DataChange
SyncNext == SyncCalls \/ Handler \/ Outside \/ Changes
SyncSpec == SyncInit /\ [][SyncNext]_<<syncVars, dataVars, subVars>>
-----------------------------------------------------------------------------
SyncTypeOK ==
    /\ ChangesTypeOK
    /\ st \in [Adapters -> {"open", "stale", "failed", "none"}] /\ dying \subseteq Adapters
    /\ listeners \in [SyncStores -> [Callers -> 0 .. MaxCalls]]
    /\ \A s \in SyncStores, c \in Callers : listeners[s][c] # 0 => owner[listeners[s][c]] = c
    /\ watched \cap dead = {} /\ notices \subseteq dead
    /\ events \in 0 .. MaxEvents

Quiet == /\ handler = <<>> /\ running = Idle /\ calls = {} /\ notices = {} /\ dying = {}
         /\ \A s \in SyncStores : syncing[s] = 0

\* No callback hears of two completions, and none that waits for one is forgotten:
\* at rest each callback of a successful call was called, but for those whose
\* process died, that were replaced or did not fit, or that lost their completion
\* with the KV service or its listener.
AnsweredOnce ==
    /\ \A i \in Ids : heard[i] <= 1
    /\ Quiet => \A i \in accepted \ (dead \cup lost) : heard[i] = 1

\* At rest ProfileCache keeps no callback of a process that died, unless it had
\* died before it was registered.
DeadGone == Quiet => Registered("dynamic") \cap dead \subseteq late

\* At rest no adapter is left closed or with the dead KV service, but for those whose task
\* was removed from the handler with another's, or re-opens another store.
ReopenedUnlessDropped ==
    Quiet => \A a \in Adapters : st[a] \in {"stale", "none"} =>
                                      a \in dropped \/ a \notin ReInitialised(a)

=============================================================================
