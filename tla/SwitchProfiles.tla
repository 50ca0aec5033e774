--------------------------- MODULE SwitchProfiles ---------------------------
(***************************************************************************)
(* The distributed switches: one word per device in the KV layer, a bit    *)
(* per service.  SwitchProfileManager writes and reads the word of this    *)
(* device, ProfileCache keeps it as curLocalSwitch_ and keeps every known  *)
(* bit as a characteristic profile, and SwitchUpdater brings both up to    *)
(* date when the KV layer announces a change, each in a detached thread.   *)
(* DMAdapter says which devices are online; the word of a device that is   *)
(* not is parked in switchCacheMap_.  SubscribeProfileManager is told of   *)
(* each bit that changes.                                                  *)
(***************************************************************************)
EXTENDS Integers, FiniteSets, Subscriptions

CONSTANTS
    Local,        \* this device
    Peers,        \* the others; a device and its network id are one value
    NFlags,       \* the number of services with a switch
    Requests,     \* what clients put: functions from some flags to values
    Defaults,     \* the switches and values of the capability file
    StartWord,    \* what the KV layer has of this device's switches at the boot
    PeerWords,    \* words that peers may have
    MaxParked,    \* MAX_SWITCH_CACHE_SIZE
    MaxEvents     \* bound: changes, puts, gets, failures and subscriptions

Flags == 0 .. NFlags - 1
Devices == {Local} \cup Peers
Values == 0 .. 2            \* off, on, and a value that is no switch
Puts == UNION {[fs -> Values] : fs \in SUBSET Flags}
Words == SUBSET Flags
Bit(word, f) == IF f \in word THEN 1 ELSE 0

ASSUME SwitchAssumption ==
    /\ Local \notin Peers
    /\ None \notin Peers \cup Values /\ None \notin [word : Words, ver : Nat]
    /\ NFlags \in Nat \ {0}
    /\ SubKeys \subseteq Devices \X Flags
    /\ Requests \cup {Defaults} \subseteq Puts
    /\ \A f \in DOMAIN Defaults : Defaults[f] \in 0 .. 1
    /\ StartWord \in Words /\ PeerWords \subseteq Words
    /\ MaxParked \in Nat /\ MaxEvents \in Nat

VARIABLES
    store,   \* the word of each device in the KV layer
    len,     \* how many switches the stored word of this device covers
    cur,     \* curLocalSwitch_
    cache,   \* the switch profiles in charProfileMap_, None where there is none
    parked,  \* switchCacheMap_
    mapMtx,  \* the thread that holds switchCacheMapMutex_ over several steps
    online,  \* onlineDevMap_
    tasks,   \* the detached threads
    op,      \* the boot, and later the holder of switchProfileMutex_
    stage,   \* what the boot does next; "run" after it
    events,
    ver,     \* history: how often the word of a device was written
    seen,    \* history: the latest of these that was taken over
    odd      \* history: devices whose switches were not taken over in order

switchVars == <<store, len, cur, cache, parked, mapMtx, online, tasks, op, stage>>
switchHistory == <<ver, seen, odd>>

Idle == [name |-> "idle", pc |-> "idle", dev |-> Local, items |-> <<>>,
         todo |-> {}, word |-> {}, ver |-> 0]

SwitchInit ==
    /\ store = [d \in Devices |-> IF d = Local THEN StartWord ELSE {}]
    /\ len \in {n \in NFlags - 1 .. NFlags : StartWord \subseteq 0 .. n - 1}
    /\ cur = {} /\ cache = [d \in Devices |-> [f \in Flags |-> None]]
    /\ parked = [d \in Peers |-> None] /\ mapMtx = None
    /\ online \in SUBSET Peers /\ tasks = {} /\ op = Idle /\ stage = "refresh"
    /\ subs = [k \in SubKeys |-> [s \in Subscribers |-> {"update"}]]
    /\ told = [s \in Subscribers |-> [k \in SubKeys |-> None]]
    /\ events = 0
    /\ ver = [d \in Devices |-> 0] /\ seen = ver /\ odd = {}

Count == events < MaxEvents /\ events' = events + 1

-----------------------------------------------------------------------------
(* Taking a word over.  A write on behalf of version v of a device's word  *)
(* is out of order when a later version was taken over before it.          *)
Later(d, v) == IF v > seen[d] THEN v ELSE seen[d]
Take(d, v) == /\ seen' = [seen EXCEPT ![d] = Later(d, v)]
              /\ odd' = IF v < seen[d] THEN odd \cup {d} ELSE odd

\* AddCharProfile
AddCharProfile(d, f, val) == cache' = [cache EXCEPT ![d][f] = val]

\* The old profile that is handed over with the new one is read from the cache,
\* which has the new one already.
NotifyByDevice(d, f, val) ==
    told' = [s \in Subscribers |-> [k \in SubKeys |->
                IF k[1] = d /\ subs[k][s] # {} THEN val ELSE told[s][k]]]
NotifyCharProfileUpdate(d, f, val) == NotifyProfileChange("update", <<d, f>>, val)

-----------------------------------------------------------------------------
(* The thread that OnSwitchChange detaches.                                *)
Change(d, w, v) == [kind |-> "change", dev |-> d, word |-> w, ver |-> v,
                    pc |-> "look", flag |-> 0]
Step(t, u) == tasks' = (tasks \ {t}) \cup {u}
Known(d) == d = Local \/ d \in online

LookUp(t) ==
    /\ t.kind = "change" /\ t.pc = "look"
    /\ Step(t, [t EXCEPT !.pc = IF Known(t.dev) THEN "erase" ELSE "park"])
    /\ UNCHANGED <<store, len, cur, cache, parked, mapMtx, online, op, stage,
                   subVars, events, switchHistory>>

AddSwitchCacheMap(d, w, v) ==
    IF Cardinality({p \in Peers : parked[p] # None}) > MaxParked
    THEN /\ odd' = odd \cup {d} /\ UNCHANGED <<parked, seen>>
    ELSE /\ parked' = [parked EXCEPT ![d] = [word |-> w, ver |-> v]]
         /\ Take(d, v)

ParkChange(t) ==
    /\ t.kind = "change" /\ t.pc = "park" /\ mapMtx = None
    /\ AddSwitchCacheMap(t.dev, t.word, t.ver)
    /\ tasks' = tasks \ {t}
    /\ UNCHANGED <<store, len, cur, cache, mapMtx, online, op, stage, subVars,
                   events, ver>>

KeepSwitchCacheMap(d) == parked' = parked
EraseSwitchCacheMap(d) ==
    parked' = IF d \in Peers THEN [parked EXCEPT ![d] = None] ELSE parked

EraseParked(t) ==
    /\ t.kind = "change" /\ t.pc = "erase" /\ mapMtx = None
    /\ EraseSwitchCacheMap(t.dev)
    /\ Step(t, [t EXCEPT !.pc = "exist"])
    /\ Take(t.dev, t.ver)
    /\ UNCHANGED <<store, len, cur, cache, mapMtx, online, op, stage, subVars,
                   events, ver>>

\* The thread that DMAdapter detaches for a device that came online takes the
\* parked word under the mutex, as the latest of the device, and keeps the mutex
\* while it notifies.
OnDeviceOnline(t) ==
    /\ t.kind = "online" /\ t.pc = "look" /\ mapMtx = None
    /\ IF parked[t.dev] = None
       THEN tasks' = tasks \ {t} /\ UNCHANGED mapMtx
       ELSE LET u == [t EXCEPT !.pc = "exist", !.word = parked[t.dev].word,
                               !.ver = seen[t.dev]]
            IN Step(t, u) /\ mapMtx' = t.dev
    /\ UNCHANGED <<store, len, cur, cache, parked, online, op, stage, subVars,
                   events, switchHistory>>

\* HandleSwitchUpdateChange, bit by bit: GenerateSwitchNotify looks, adds and
\* notifies; the word of this device is then set.  The thread of a device that
\* came online at last forgets the parked word.
EndOnline(t) == IF t.kind = "online"
                THEN parked' = [parked EXCEPT ![t.dev] = None] /\ mapMtx' = None
                ELSE UNCHANGED <<parked, mapMtx>>
Advance(t) == IF t.flag + 1 < NFlags
              THEN /\ Step(t, [t EXCEPT !.pc = "exist", !.flag = @ + 1])
                   /\ UNCHANGED <<parked, mapMtx>>
              ELSE tasks' = tasks \ {t} /\ EndOnline(t)
Proceed(t) == IF t.dev = Local
              THEN Step(t, [t EXCEPT !.pc = "cur"]) /\ UNCHANGED <<parked, mapMtx>>
              ELSE Advance(t)

HandleExist(t) ==
    /\ t.pc = "exist"
    /\ LET same == cache[t.dev][t.flag] = Bit(t.word, t.flag)
       IN IF same
          THEN Proceed(t)
          ELSE Step(t, [t EXCEPT !.pc = "add"]) /\ UNCHANGED <<parked, mapMtx>>
    /\ Take(t.dev, t.ver)
    /\ UNCHANGED <<store, len, cur, cache, online, op, stage, subVars, events, ver>>

HandleAdd(t) ==
    /\ t.pc = "add"
    /\ AddCharProfile(t.dev, t.flag, Bit(t.word, t.flag))
    /\ Step(t, [t EXCEPT !.pc = "tell"])
    /\ Take(t.dev, t.ver)
    /\ UNCHANGED <<store, len, cur, parked, mapMtx, online, op, stage, subVars,
                   events, ver>>

HandleTell(t) ==
    /\ t.pc = "tell"
    /\ NotifyCharProfileUpdate(t.dev, t.flag, Bit(t.word, t.flag))
    /\ Proceed(t)
    /\ Take(t.dev, t.ver)
    /\ UNCHANGED <<store, len, cur, cache, online, op, stage, subs, events, ver>>

HandleCur(t) ==
    /\ t.pc = "cur"
    /\ cur' = t.word
    /\ Take(t.dev, t.ver)
    /\ Advance(t)
    /\ UNCHANGED <<store, len, cache, online, op, stage, subVars, events, ver>>

-----------------------------------------------------------------------------
(* What happens outside: peers change their words, devices come and go.    *)
SwitchChanged(d, w) ==
    /\ Count /\ w # store[d]
    /\ store' = [store EXCEPT ![d] = w]
    /\ ver' = [ver EXCEPT ![d] = @ + 1]
    /\ tasks' = tasks \cup {Change(d, w, ver[d] + 1)}
    /\ UNCHANGED <<len, cur, cache, parked, mapMtx, online, op, stage, subVars,
                   seen, odd>>

\* OnNodeOnline, and the detached thread.
DeviceOnline(d) ==
    /\ d \in Peers \ online /\ Count
    /\ online' = online \cup {d}
    /\ tasks' = tasks \cup {[kind |-> "online", dev |-> d, word |-> {},
                             ver |-> events, pc |-> "look", flag |-> 0]}
    /\ UNCHANGED <<store, len, cur, cache, parked, mapMtx, op, stage, subVars,
                   switchHistory>>

DeviceOffline(d) ==
    /\ d \in online /\ Count
    /\ online' = online \ {d}
    /\ UNCHANGED <<store, len, cur, cache, parked, mapMtx, tasks, op, stage,
                   subVars, switchHistory>>

SubscribeSwitch(s, k) == /\ s \notin SubscribersOf(k) /\ Count
                         /\ SubscribeDeviceProfile(s, k, {"update"})
                         /\ UNCHANGED <<switchVars, switchHistory>>
UnSubscribeSwitch(s, k) == /\ s \in SubscribersOf(k) /\ Count
                           /\ UnSubscribeDeviceProfile(s, k)
                           /\ UNCHANGED <<switchVars, switchHistory>>

-----------------------------------------------------------------------------
(* The boot and, after it, one call at a time under switchProfileMutex_.   *)
Do(pc) == op' = [op EXCEPT !.pc = pc]
Done == op' = Idle

\* RefreshLocalSwitchProfile: the stored word into the cache.  Nothing else
\* touches the switches of this device so early, so it is one step.
Refresh ==
    /\ stage = "refresh" /\ stage' = "collect"
    /\ \/ /\ cur' = store[Local]
          /\ cache' = [cache EXCEPT ![Local] = [f \in Flags |-> Bit(store[Local], f)]]
          /\ UNCHANGED <<events, odd>>
       \/ Count /\ odd' = odd \cup {Local} /\ UNCHANGED <<cur, cache>>
    /\ UNCHANGED <<store, len, parked, mapMtx, online, tasks, op, subVars, ver, seen>>

\* AddSwitchStatusToDB: nothing when the stored word covers every switch;
\* otherwise the file's switches, those that are stored with their stored value.
\* When the word cannot be read its length and bits are not initialised.
CollectedAnew(n, w) == Defaults
Collected(n, w) == [f \in DOMAIN Defaults |-> IF f < n THEN Bit(w, f) ELSE Defaults[f]]

Collect ==
    /\ stage = "collect" /\ stage' = "run"
    /\ \/ len = Cardinality(DOMAIN Defaults) /\ UNCHANGED <<op, events, odd>>
       \/ /\ len # Cardinality(DOMAIN Defaults) /\ Count
          /\ op' = [Idle EXCEPT !.name = "collect", !.pc = "read",
                    !.items = Collected(len, store[Local])]
          /\ UNCHANGED odd
       \/ /\ Count /\ odd' = odd \cup {Local}
          /\ \/ op' = Idle
             \/ \E n \in 0 .. NFlags, w \in Words :
                    op' = [Idle EXCEPT !.name = "collect", !.pc = "read",
                           !.items = Collected(n, w)]
    /\ UNCHANGED <<store, len, cur, cache, parked, mapMtx, online, tasks, subVars,
                   ver, seen>>

Ready == stage = "run" /\ op = Idle

\* A single put is for one flag; a batch is for any.
PutCharacteristicProfile(r) ==
    /\ Ready /\ Count /\ Cardinality(DOMAIN r) = 1
    /\ op' = [Idle EXCEPT !.name = "put", !.pc = "exist", !.items = r, !.todo = DOMAIN r]
    /\ UNCHANGED <<store, len, cur, cache, parked, mapMtx, online, tasks, stage,
                   subVars, switchHistory>>

PutCharacteristicProfileBatch(r) ==
    /\ Ready /\ Count
    /\ op' = [Idle EXCEPT !.name = "batch", !.pc = "read", !.items = r]
    /\ UNCHANGED <<store, len, cur, cache, parked, mapMtx, online, tasks, stage,
                   subVars, switchHistory>>

\* SetSwitchByProfile: one bit of the word; a value that is no switch is refused.
SetSwitchOnly(word, f, val) == word \cup {f}
SetSwitchByProfile(word, f, val) ==
    IF val = 0 THEN word \ {f} ELSE word \cup {f}
IsSwitchValid(val) == val \in 0 .. 1

\* GetSwitch
PutRead ==
    /\ op.pc = "read" /\ op.name \in {"put", "batch", "collect"}
    /\ op' = [op EXCEPT !.word = cur, !.pc = IF op.name = "put" THEN "set" ELSE "exist",
                        !.todo = DOMAIN op.items]
    /\ UNCHANGED <<store, len, cur, cache, parked, mapMtx, online, tasks, stage,
                   subVars, events, switchHistory>>

\* A single put that finds its profile in the cache ends with DP_CACHE_EXIST.
PutExist ==
    /\ op.name = "put" /\ op.pc = "exist"
    /\ \E f \in op.todo : IF cache[Local][f] = op.items[f] THEN Done ELSE Do("read")
    /\ UNCHANGED <<store, len, cur, cache, parked, mapMtx, online, tasks, stage,
                   subVars, events, switchHistory>>

PutSet ==
    /\ op.name = "put" /\ op.pc = "set"
    /\ \E f \in op.todo :
           IF IsSwitchValid(op.items[f])
           THEN op' = [op EXCEPT !.pc = "store",
                                 !.word = SetSwitchByProfile(@, f, op.items[f])]
           ELSE Done
    /\ UNCHANGED <<store, len, cur, cache, parked, mapMtx, online, tasks, stage,
                   subVars, events, switchHistory>>

\* A batch leaves out what the cache has, and what is no switch.
BatchExist ==
    /\ op.name \in {"batch", "collect"} /\ op.pc = "exist"
    /\ \E f \in op.todo : LET val == op.items[f] IN
       /\ \A g \in op.todo : f <= g
       /\ op' = [op EXCEPT !.todo = @ \ {f},
                           !.pc = IF op.todo = {f} THEN "store" ELSE "exist",
                           !.word = IF cache[Local][f] # val /\ IsSwitchValid(val)
                                    THEN SetSwitchByProfile(@, f, val) ELSE @]
    /\ UNCHANGED <<store, len, cur, cache, parked, mapMtx, online, tasks, stage,
                   subVars, events, switchHistory>>

\* The KV layer announces the word, to this device as well.
PutSwitch ==
    /\ op.pc = "store"
    /\ \/ /\ store' = [store EXCEPT ![Local] = op.word] /\ len' = NFlags
          /\ ver' = [ver EXCEPT ![Local] = @ + 1]
          /\ op' = [op EXCEPT !.pc = "cur", !.ver = ver[Local] + 1,
                              !.todo = DOMAIN op.items]
          /\ tasks' = IF op.word = store[Local] THEN tasks
                      ELSE tasks \cup {Change(Local, op.word, ver[Local] + 1)}
          /\ UNCHANGED events
       \/ Count /\ Done /\ UNCHANGED <<store, len, ver, tasks>>
    /\ UNCHANGED <<cur, cache, parked, mapMtx, online, stage, subVars, seen, odd>>

SetCurSwitch ==
    /\ op.pc = "cur"
    /\ cur' = op.word /\ Do("add")
    /\ Take(Local, op.ver)
    /\ UNCHANGED <<store, len, cache, parked, mapMtx, online, tasks, stage, subVars,
                   events, ver>>

AddPut ==
    /\ op.pc = "add" /\ op.name # "get"
    /\ \E f \in op.todo :
          /\ \A g \in op.todo : f <= g
          /\ AddCharProfile(Local, f, op.items[f])
          /\ op' = IF op.todo = {f} THEN Idle ELSE [op EXCEPT !.todo = @ \ {f}]
    /\ Take(Local, op.ver)
    /\ UNCHANGED <<store, len, cur, parked, mapMtx, online, tasks, stage, subVars,
                   events, ver>>

\* GetSwitchCharacteristicProfile: from the cache, or from the KV layer into it.
GetCharacteristicProfile(d, f) ==
    /\ Ready /\ Count /\ cache[d][f] = None /\ Known(d)
    /\ op' = [Idle EXCEPT !.name = "get", !.pc = "fetch", !.dev = d, !.todo = {f}]
    /\ UNCHANGED <<store, len, cur, cache, parked, mapMtx, online, tasks, stage,
                   subVars, switchHistory>>

GetFetch ==
    /\ op.name = "get" /\ op.pc = "fetch"
    /\ op' = [op EXCEPT !.pc = IF op.dev = Local THEN "keep" ELSE "add",
                        !.word = store[op.dev], !.ver = ver[op.dev]]
    /\ UNCHANGED <<store, len, cur, cache, parked, mapMtx, online, tasks, stage,
                   subVars, events, switchHistory>>

\* SetSwitchProfile keeps the word of this device.
GetKeep ==
    /\ op.name = "get" /\ op.pc = "keep"
    /\ cur' = op.word /\ Do("add")
    /\ Take(Local, op.ver)
    /\ UNCHANGED <<store, len, cache, parked, mapMtx, online, tasks, stage, subVars,
                   events, ver>>

\* A profile that came into the cache meanwhile is overwritten; the thread that
\* brings the next word may then see no change and tell nobody.
GetAdd ==
    /\ op.name = "get" /\ op.pc = "add" /\ Done
    /\ \E f \in op.todo :
          /\ AddCharProfile(op.dev, f, Bit(op.word, f))
          /\ seen' = [seen EXCEPT ![op.dev] = Later(op.dev, op.ver)]
          /\ odd' = IF op.ver < seen[op.dev] \/ cache[op.dev][f] # None
                    THEN odd \cup {op.dev} ELSE odd
    /\ UNCHANGED <<store, len, cur, parked, mapMtx, online, tasks, stage, subVars,
                   events, ver>>

-----------------------------------------------------------------------------
SwitchThreads ==
    \E t \in tasks : \/ LookUp(t) \/ ParkChange(t) \/ EraseParked(t)
                     \/ OnDeviceOnline(t) \/ HandleExist(t) \/ HandleAdd(t)
                     \/ HandleTell(t) \/ HandleCur(t)
SwitchOutside ==
    \/ \E d \in Peers : \/ DeviceOnline(d) \/ DeviceOffline(d)
                        \/ \E w \in PeerWords : SwitchChanged(d, w)
    \/ \E s \in Subscribers, k \in SubKeys : SubscribeSwitch(s, k) \/ UnSubscribeSwitch(s, k)
SwitchCalls ==
    \/ Refresh \/ Collect
    \/ \E r \in Requests : PutCharacteristicProfile(r) \/ PutCharacteristicProfileBatch(r)
    \/ PutRead \/ PutExist \/ PutSet \/ BatchExist \/ PutSwitch \/ SetCurSwitch \/ AddPut
    \/ \E d \in Devices, f \in Flags : GetCharacteristicProfile(d, f)
    \/ GetFetch \/ GetKeep \/ GetAdd
SwitchNext == SwitchThreads \/ SwitchOutside \/ SwitchCalls
SwitchSpec == SwitchInit /\ [][SwitchNext]_<<switchVars, subVars, events, switchHistory>>

-----------------------------------------------------------------------------
(* Properties.                                                             *)
SwitchTypeOK ==
    /\ store \in [Devices -> Words] /\ len \in 0 .. NFlags /\ cur \in Words
    /\ cache \in [Devices -> [Flags -> Values \cup {None}]]
    /\ parked \in [Peers -> {None} \cup [word : Words, ver : Nat]]
    /\ mapMtx \in Peers \cup {None} /\ online \subseteq Peers
    /\ \A t \in tasks : t.flag \in Flags /\ t.dev \in Devices
    /\ mapMtx # None => \E t \in tasks : t.kind = "online" /\ t.dev = mapMtx
    /\ events \in 0 .. MaxEvents

AtRest == tasks = {} /\ op = Idle /\ stage = "run"

\* When nothing is under way, the word in the cache is the stored one and every
\* bit of this device is cached as stored, but for values that are no switch and
\* a batch cached all the same; unless words were taken over out of order, or the
\* first reading failed.
LocalAgrees ==
    AtRest /\ Local \notin odd =>
        /\ cur = store[Local]
        /\ \A f \in Flags : cache[Local][f] \in {Bit(store[Local], f), 2}

\* No change of a peer gets lost: when nothing is under way, its last word is in
\* the cache or is parked until the peer comes online.
NothingLost ==
    AtRest => \A d \in Peers \ odd : ver[d] > 0 =>
        \/ parked[d] # None /\ parked[d].ver = ver[d]
        \/ \A f \in Flags : cache[d][f] = Bit(store[d], f)

\* What a subscriber heard last of a peer's switch is what the cache has.
ToldLast ==
    AtRest => \A s \in Subscribers, k \in SubKeys :
        k[1] \in Peers \ odd /\ told[s][k] # None => told[s][k] = cache[k[1]][k[2]]

\* A put, and the collector of the boot, changes no switch of another service.
\* The collector's own are those the stored word did not cover.
Own == IF op.name = "collect" THEN {f \in DOMAIN op.items : f >= len} ELSE DOMAIN op.items
PutKeepsOthers ==
    [][store'[Local] # store[Local] /\ Local \notin odd =>
           \A f \in Flags \ Own : Bit(store'[Local], f) = Bit(store[Local], f)
      ]_<<switchVars, subVars, events, switchHistory>>
=============================================================================
