--------------------------- MODULE DynamicProfiles ---------------------------
(***************************************************************************)
(* The dynamic store of DeviceProfileManager after the boot.  An entry has *)
(* a plain key, or a key that ends in a user id; the plain keys show what  *)
(* the foreground user has put.  Clients put, get and delete; account      *)
(* events (MultiUserManager) re-point the plain keys in tasks of their own *)
(* (ffrt); the handler thread repairs the store when a device comes online *)
(* and re-opens it when the KV service has died; synchronisation writes    *)
(* entries of other devices underneath.  Two mutexes guard all this:       *)
(* foregroundUserIdLock_ and dynamicStoreMutex_.                           *)
(***************************************************************************)
EXTENDS Naturals, FiniteSets

CONSTANTS
    LocalNames,    \* profiles of the local device (device, service, characteristic)
    PeerNames,     \* profiles of one other device
    Kind,          \* which of DEV_PREFIX, SVR_PREFIX, CHAR_PREFIX a name has
    OhNames,       \* the peer's names that FixRemoteDataWhenPeerIsNonOH looks for
    Users, NoUser, \* NoUser: DEFAULT_USER_ID
    Values, None,
    Clients,       \* binder threads
    Tasks,         \* ffrt tasks that run AccountCommonEventCallback
    Handler,       \* the thread of EventHandlerFactory
    PutNames,      \* bound: the names clients put, get and delete
    Before, Others,\* the entries at the start; those of them others have written
    ForeignKeys,   \* bound: the keys synchronisation may write
    MaxBatch,      \* bound: profiles of one PutServiceProfileBatch
    MayFail, MayCrash,   \* whether the KV service and the process may fail
    MaxStarts      \* bound: calls, account events, repairs, foreign entries, failures

Names == LocalNames \cup PeerNames
Kinds == {"dev", "svr", "char"}
Owners == Users \cup {NoUser}
Keys == Names \X Owners
Plain(n) == <<n, NoUser>>
\* A value remembers whose put it was.
Value == Owners \X Values
Entries == [Keys -> Value \cup {None}]
NoEntries == [k \in Keys |-> None]
Present(f) == {k \in Keys : f[k] # None}
Threads == Clients \cup Tasks \cup {Handler}
Free == "free"

ASSUME NamesAssumption == /\ LocalNames \cap PeerNames = {}
                          /\ PutNames \subseteq LocalNames /\ PutNames # {}
                          /\ OhNames \subseteq PeerNames
                          /\ Kind \in [Names -> Kinds]
ASSUME UsersAssumption == NoUser \notin Users /\ Users # {}
ASSUME ValuesAssumption == None \notin Value
ASSUME ThreadsAssumption == /\ Clients \cap Tasks = {} /\ Free \notin Threads
                            /\ Handler \notin Clients \cup Tasks
ASSUME StartAssumption == /\ Before \in Entries /\ Others \subseteq Present(Before)
                          /\ ForeignKeys \subseteq Keys
                          /\ \A k \in Present(Before) : Before[k][1] = k[2]
ASSUME BoundsAssumption == /\ MaxBatch \in Nat \ {0} /\ MaxStarts \in Nat
                           /\ MayFail \in BOOLEAN /\ MayCrash \in BOOLEAN

VARIABLES
    store,       \* dp_kv_store
    mine,        \* keys whose entry this device has written (GetDeviceEntries)
    kv,          \* deviceProfileStore_: usable, its service dead, or reset
    fg,          \* foregroundUserId_
    osFg, gone,  \* the account service: foreground user, removed users
    fgLock, storeLock,   \* foregroundUserIdLock_, dynamicStoreMutex_
    pc,
    req,         \* per client: name and user of the call
    ents,        \* per thread: the entries it is about to write
    del,         \* per thread: the keys it is about to delete
    who,         \* per task: the user of its event
    fix,         \* the handler: what kind of peer, and localDataByOwner
    fresh,       \* history: keys written since localDataByOwner was read
    overtaken,   \* history: calls during which a user change began
    upset,       \* history: what has disturbed user changes
    starts

data == <<store, mine>>
users == <<osFg, gone>>
locks == <<fgLock, storeLock>>
locals == <<ents, del>>
history == <<overtaken, upset>>
vars == <<data, kv, fg, users, locks, pc, req, locals, who, fix, fresh, history, starts>>

Goto(t, l) == pc' = [pc EXCEPT ![t] = l]
Start == starts < MaxStarts /\ starts' = starts + 1
Fault == MayFail /\ Start
NoFault == UNCHANGED starts

\* What fresh becomes when keys are written: it counts while a repair runs.
Refresh(ks) == fresh' = IF pc[Handler] = "idle" THEN fresh ELSE fresh \cup ks
Disturbed(how, when) == upset' = IF when THEN upset \cup {how} ELSE upset

\* GetCurrentForegroundUserID, called for the profile of a user: it waits for
\* foregroundUserIdLock_ and asks the account service if no user is set yet.
Foreground == IF fg = NoUser THEN osFg ELSE fg
AskForeground(u) == /\ u # NoUser => fgLock = Free
                    /\ fg' = IF u # NoUser THEN Foreground ELSE fg

\* Where the profile n of user u goes: under the key of the user, and under
\* the plain key if the user is in the foreground; without a user under the
\* plain key.
\* Faulty variant: the plain key is written for every user.
TargetsAlways(n, u) == {<<n, u>>, Plain(n)}
Targets(n, u) == {<<n, u>>} \cup (IF u = Foreground THEN {Plain(n)} ELSE {})

\* KVAdapter::PutBatch: an entry that is stored with the same value is left
\* as it is, whoever wrote it.
Changed(e) == {k \in Present(e) : store[k] # e[k]}
PutBatch(e) ==
    /\ store' = [k \in Keys |-> IF k \in Changed(e) THEN e[k] ELSE store[k]]
    /\ mine' = mine \cup Changed(e)
    /\ Refresh(Changed(e))
DeleteBatch(ks) ==
    /\ store' = [k \in Keys |-> IF k \in ks THEN None ELSE store[k]]
    /\ mine' = mine \ ks

\* GetProfilesByKeyPrefix scans three prefixes; a scan that finds nothing is
\* an error.
Scannable(names) ==
    /\ kv = "open"
    /\ \A kd \in Kinds : \E k \in Present(store) : k[1] \in names /\ Kind[k[1]] = kd
Scanned(names) == {k \in Present(store) : k[1] \in names}

-----------------------------------------------------------------------------
(* Clients *)

Calls(c) == pc[c] = "idle" /\ Start
\* A call returns: its locals are gone.
NoReq == [name |-> CHOOSE n \in Names : TRUE, user |-> NoUser]
Return(c) == /\ Goto(c, "idle")
             /\ req' = [req EXCEPT ![c] = NoReq]
             /\ overtaken' = overtaken \ {c}
Living == Owners \ gone

\* PutDeviceProfile, PutServiceProfile(Batch), PutCharacteristicProfile(Batch):
\* one profile at a time is turned into entries, before the store is locked.
Profile(c, n, u, v) ==
    /\ AskForeground(u)
    /\ ents' = [ents EXCEPT ![c] = [k \in Keys |->
                    IF k \in Targets(n, u) THEN <<u, v>> ELSE @[k]]]
    /\ req' = [req EXCEPT ![c] = [name |-> n, user |-> u]]

\* While fg is NoUser the service is not inited: puts are staged.
Put(c) ==
    /\ Calls(c) /\ fg # NoUser
    /\ \E n \in PutNames, u \in Living, v \in Values : Profile(c, n, u, v)
    /\ Goto(c, "put")
    /\ UNCHANGED <<data, kv, users, locks, del, who, fix, fresh, history>>

PutMore(c) ==
    /\ pc[c] = "put"
    /\ Cardinality({k[1] : k \in Present(ents[c])}) < MaxBatch
    /\ \E n \in PutNames, u \in Living, v \in Values :
          /\ Plain(n) \notin Present(ents[c]) /\ <<n, u>> \notin Present(ents[c])
          /\ Profile(c, n, u, v)
    /\ UNCHANGED <<data, kv, users, locks, pc, del, who, fix, fresh,
                   history, starts>>

\* The second half of a put, under dynamicStoreMutex_.
PutStore(c) ==
    /\ pc[c] = "put" /\ storeLock = Free
    /\ \/ /\ kv = "open"
          /\ PutBatch(ents[c])
          /\ Disturbed("overtaken", c \in overtaken)
          /\ NoFault
       \/ /\ IF kv = "open" THEN Fault ELSE NoFault
          /\ UNCHANGED <<data, fresh, upset>>
    /\ ents' = [ents EXCEPT ![c] = NoEntries]
    /\ Return(c)
    /\ UNCHANGED <<kv, fg, users, locks, del, who, fix>>

\* GetCharacteristicProfile and its siblings: IsMultiUserValid, then the read.
\* Faulty variant: any user may read.
IsMultiUserKnown(u) == TRUE
IsMultiUserValid(u) == u = NoUser \/ u = Foreground
Get(c) ==
    /\ Calls(c)
    /\ \E n \in PutNames, u \in Living :
          /\ AskForeground(u) /\ IsMultiUserValid(u)
          /\ req' = [req EXCEPT ![c] = [name |-> n, user |-> u]]
    /\ Goto(c, "get")
    /\ UNCHANGED <<data, kv, users, locks, locals, who, fix, fresh, history>>

\* GetProfilePropertiesMap: the entries of the user, else the plain ones.
Lookup(n, u) == IF store[<<n, u>>] # None THEN store[<<n, u>>] ELSE store[Plain(n)]
Result(c) == IF kv = "open" THEN Lookup(req[c].name, req[c].user) ELSE None
GetRead(c) ==
    /\ pc[c] = "get" /\ storeLock = Free
    /\ Return(c)
    /\ UNCHANGED <<data, kv, fg, users, locks, locals, who, fix, fresh,
                   upset, starts>>

\* DeleteServiceProfile, DeleteCharacteristicProfile: the store is locked
\* first, the foreground user is asked for under that lock.
Delete(c) ==
    /\ Calls(c)
    /\ storeLock = Free
    /\ kv # "reset"
    /\ \E n \in PutNames, u \in Living :
          req' = [req EXCEPT ![c] = [name |-> n, user |-> u]]
    /\ Goto(c, "delete") /\ storeLock' = c
    /\ UNCHANGED <<data, kv, fg, users, fgLock, locals, who, fix, fresh, history>>

\* Faulty variant: a failed delete returns with the store locked.
UnlockOnSuccess(c, ok) == storeLock' = IF ok THEN Free ELSE c
Unlock(c, ok) == storeLock' = Free
DeleteRun(c) ==
    LET n == req[c].name
        u == req[c].user
    IN /\ pc[c] = "delete"
       /\ AskForeground(u)
       /\ \/ kv = "open" /\ DeleteBatch(Targets(n, u)) /\ NoFault /\ Unlock(c, TRUE)
          \/ kv # "open" /\ UNCHANGED data /\ NoFault /\ Unlock(c, FALSE)
          \/ kv = "open" /\ UNCHANGED data /\ Fault /\ Unlock(c, FALSE)
       /\ Return(c)
       /\ UNCHANGED <<kv, users, fgLock, locals, who, fix, fresh, upset>>

-----------------------------------------------------------------------------
(* Account events.  OnReceiveEvent submits each to ffrt as a task of its   *)
(* own, so they may be carried out in another order.                       *)

Submits(t) == pc[t] = "idle" /\ Start
Busy == \E t \in Tasks : pc[t] # "idle"

\* The task has ended.
NoUserYet == CHOOSE u \in Users : TRUE
Done(t) == Goto(t, "idle") /\ who' = [who EXCEPT ![t] = NoUserYet]

UserSwitched(t) ==
    /\ Submits(t)
    /\ \E u \in Users \ (gone \cup {osFg}) :
          osFg' = u /\ who' = [who EXCEPT ![t] = u]
    /\ Goto(t, "switch")
    /\ Disturbed("reordered", Busy)
    /\ UNCHANGED <<data, kv, fg, gone, locks, req, locals, fix, fresh, overtaken>>

\* A user is removed when he is in the background.
UserRemoved(t) ==
    /\ Submits(t)
    /\ \E u \in Users \ (gone \cup {osFg}) :
          gone' = gone \cup {u} /\ who' = [who EXCEPT ![t] = u]
    /\ Goto(t, "remove")
    /\ Disturbed("reordered", Busy)
    /\ UNCHANGED <<data, kv, fg, osFg, locks, req, locals, fix, fresh, overtaken>>

\* The calls under way when a user change begins: what they have asked
\* MultiUserManager for may be out of date when they use it.
UnderWay == {c \in Clients : pc[c] \in {"put", "get"}}

\* SetCurrentForegroundUserID holds its mutex over all of OnUserChange.
SwitchBegin(t) ==
    /\ pc[t] = "switch" /\ fgLock = Free
    /\ IF who[t] = fg THEN Done(t) /\ UNCHANGED <<fgLock, overtaken>>
                      ELSE /\ Goto(t, "scan") /\ fgLock' = t
                           /\ overtaken' = overtaken \cup UnderWay
                           /\ UNCHANGED who
    /\ UNCHANGED <<data, kv, fg, users, storeLock, req, locals, fix, fresh,
                   upset, starts>>

\* OnUserChange has returned, with or without having done its work: the new
\* user is in the foreground.
SwitchEnd(t) ==
    /\ fg' = who[t] /\ fgLock' = Free
    /\ ents' = [ents EXCEPT ![t] = NoEntries]
    /\ del' = [del EXCEPT ![t] = {}]
    /\ Done(t)

\* RemoveUserIdFromDbKey of the keys of user u that a scan has found.
NamesWith(u) == {n \in LocalNames : u # NoUser /\ store[<<n, u>>] # None}
\* Faulty variant: the keys of the last user are deleted as they are.
LastKeysTagged(t) == {<<n, fg>> : n \in NamesWith(fg) \ NamesWith(who[t])}
LastKeys(t) == {Plain(n) : n \in NamesWith(fg) \ NamesWith(who[t])}

\* OnUserChange reads the profiles of both users in one critical section...
SwitchScan(t) ==
    /\ pc[t] = "scan" /\ storeLock = Free
    /\ \/ /\ Scannable(LocalNames)
          /\ ents' = [ents EXCEPT ![t] = [k \in Keys |->
                 IF k[2] = NoUser /\ k[1] \in NamesWith(who[t])
                 THEN store[<<k[1], who[t]>>] ELSE None]]
          /\ del' = [del EXCEPT ![t] = LastKeys(t)]
          /\ Goto(t, "save")
          /\ UNCHANGED <<fg, fgLock, who, upset>>
       \/ /\ ~Scannable(LocalNames)
          /\ SwitchEnd(t)
          /\ Disturbed("aborted", TRUE)
    /\ UNCHANGED <<data, kv, users, storeLock, req, fix, fresh, overtaken, starts>>

\* ... writes those of the new user in another (SaveBatchByKeys) ...
SwitchSave(t) ==
    /\ pc[t] = "save"
    /\ \/ /\ Present(ents[t]) = {}
          /\ Goto(t, "clear")
          /\ NoFault /\ UNCHANGED <<data, fg, fgLock, locals, who, fresh, upset>>
       \/ /\ Present(ents[t]) # {} /\ storeLock = Free /\ kv = "open"
          /\ PutBatch(ents[t])
          /\ Goto(t, "clear")
          /\ NoFault /\ UNCHANGED <<fg, fgLock, locals, who, upset>>
       \/ /\ Present(ents[t]) # {} /\ storeLock = Free
          /\ IF kv = "open" THEN Fault ELSE NoFault
          /\ SwitchEnd(t)
          /\ Disturbed("aborted", TRUE)
          /\ UNCHANGED <<data, fresh>>
    /\ UNCHANGED <<kv, users, storeLock, req, fix, overtaken>>

\* ... and deletes what is left of the last user in a third.
SwitchClear(t) ==
    /\ pc[t] = "clear"
    /\ SwitchEnd(t)
    /\ \/ del[t] = {} /\ NoFault /\ UNCHANGED <<data, upset>>
       \/ /\ del[t] # {} /\ storeLock = Free /\ kv = "open"
          /\ DeleteBatch(del[t])
          /\ NoFault /\ UNCHANGED upset
       \/ /\ del[t] # {} /\ storeLock = Free
          /\ IF kv = "open" THEN Fault ELSE NoFault
          /\ Disturbed("aborted", TRUE)
          /\ UNCHANGED data
    /\ UNCHANGED <<kv, users, storeLock, req, fix, fresh, overtaken>>

\* DeleteRemovedUserData.
\* Faulty variant: the plain keys of the user are taken for his.
KeysOfForeground(u) == {k \in Scanned(LocalNames) : k[2] = u /\ u = fg}
KeysOf(u) == {k \in Scanned(LocalNames) : k[2] = u}
RemoveScan(t) ==
    /\ pc[t] = "remove" /\ storeLock = Free
    /\ IF Scannable(LocalNames) /\ KeysOf(who[t]) # {}
       THEN /\ del' = [del EXCEPT ![t] = KeysOf(who[t])]
            /\ Goto(t, "removeKeys") /\ UNCHANGED who
       ELSE Done(t) /\ UNCHANGED del
    /\ Disturbed("aborted", ~Scannable(LocalNames))
    /\ overtaken' = overtaken \cup UnderWay
    /\ UNCHANGED <<data, kv, fg, users, locks, req, ents, fix, fresh, starts>>

RemoveKeys(t) ==
    /\ pc[t] = "removeKeys" /\ storeLock = Free
    /\ \/ kv = "open" /\ DeleteBatch(del[t]) /\ NoFault /\ UNCHANGED upset
       \/ /\ IF kv = "open" THEN Fault ELSE NoFault
          /\ Disturbed("aborted", TRUE)
          /\ UNCHANGED data
    /\ del' = [del EXCEPT ![t] = {}]
    /\ Done(t)
    /\ UNCHANGED <<kv, fg, users, locks, req, ents, fix, fresh, overtaken>>

-----------------------------------------------------------------------------
(* The handler thread: FixDataOnDeviceOnline and KvDeathRecipient *)

NoFix == [peer |-> "none", owned |-> {}]
FixEnd == /\ Goto(Handler, "idle") /\ fix' = NoFix
          /\ del' = [del EXCEPT ![Handler] = {}] /\ fresh' = {}

\* A device comes online: localDataByOwner is read (GetProfilesByOwner).
DeviceOnline ==
    /\ pc[Handler] = "idle" /\ Start
    /\ storeLock = Free /\ kv = "open"
    /\ \E p \in {"unknown", "oh", "nonoh"} : fix' = [peer |-> p, owned |-> mine]
    /\ Goto(Handler, "fixLocal")
    /\ UNCHANGED <<data, kv, fg, users, locks, req, locals, who, fresh, history>>

\* FixLocalData: the local device's entries that it has not written.
\* Faulty variant: the peer's entries are looked through as well.
MisplacedAnywhere == Scanned(Names) \ fix.owned
Misplaced == Scanned(LocalNames) \ fix.owned
FixLocal ==
    /\ pc[Handler] = "fixLocal" /\ storeLock = Free
    /\ IF Scannable(LocalNames) /\ fix.owned # {} /\ Misplaced # {}
       THEN del' = [del EXCEPT ![Handler] = Misplaced] /\ Goto(Handler, "fixLocalKeys")
       ELSE UNCHANGED del /\ Goto(Handler, "fixPeer")
    /\ UNCHANGED <<data, kv, fg, users, locks, req, ents, who, fix, fresh, history, starts>>

\* DeleteBatchByKeys of a repair; its failure is only logged.
FixDelete ==
    /\ storeLock = Free
    /\ \/ kv = "open" /\ DeleteBatch(del[Handler]) /\ NoFault
       \/ UNCHANGED data /\ (IF kv = "open" THEN Fault ELSE NoFault)
    /\ Disturbed("cleaned", \E k \in del[Handler] : k[2] # NoUser)

FixLocalKeys ==
    /\ pc[Handler] = "fixLocalKeys"
    /\ FixDelete
    /\ del' = [del EXCEPT ![Handler] = {}]
    /\ Goto(Handler, "fixPeer")
    /\ UNCHANGED <<kv, fg, users, locks, req, ents, who, fix, fresh, overtaken>>

\* FixRemoteDataWhenPeerIsOHBase takes what this device has written for the
\* peer from localDataByOwner; FixRemoteDataWhenPeerIsNonOH scans again.
WrittenForPeer == {k \in fix.owned : k[1] \in PeerNames}
OhEntries == {k \in Scanned(PeerNames) : k[1] \in OhNames}
FixPeer ==
    /\ pc[Handler] = "fixPeer"
    /\ fix.peer = "nonoh" => storeLock = Free
    /\ LET ks == CASE fix.peer = "oh" -> WrittenForPeer
                   [] fix.peer = "nonoh" /\ Scannable(PeerNames) -> OhEntries
                   [] OTHER -> {}
       IN IF ks = {} THEN FixEnd
          ELSE /\ del' = [del EXCEPT ![Handler] = ks]
               /\ Goto(Handler, "fixPeerKeys")
               /\ UNCHANGED <<fix, fresh>>
    /\ UNCHANGED <<data, kv, fg, users, locks, req, ents, who, history, starts>>

FixPeerKeys ==
    /\ pc[Handler] = "fixPeerKeys"
    /\ FixDelete
    /\ FixEnd
    /\ UNCHANGED <<kv, fg, users, locks, req, ents, who, overtaken>>

\* The KV service dies; OnRemoteDied posts ReInit: UnInit, then Init, which
\* leaves a store object without a store if 30 attempts fail.
KvDies ==
    /\ kv = "open" /\ Fault
    /\ kv' = "dead"
    /\ UNCHANGED <<data, fg, users, locks, pc, req, locals, who, fix, fresh, history>>
ReInitClose ==
    /\ pc[Handler] = "idle" /\ kv = "dead" /\ storeLock = Free
    /\ kv' = "reset" /\ Goto(Handler, "reopen")
    /\ UNCHANGED <<data, fg, users, locks, req, locals, who, fix, fresh, history, starts>>
ReInitOpen ==
    /\ pc[Handler] = "reopen" /\ storeLock = Free
    /\ kv' = "open" /\ Goto(Handler, "idle")
    /\ UNCHANGED <<data, fg, users, locks, req, locals, who, fix, fresh, history, starts>>

-----------------------------------------------------------------------------
(* The environment *)

\* The KV layer or the cloud brings an entry another device has written; the
\* adapter library writes an entry of a peer on this device.
Synced(k) ==
    /\ Start
    /\ k[2] \notin gone /\ kv = "open"
    /\ \E v \in Values :
          /\ store' = [store EXCEPT ![k] = <<k[2], v>>]
          /\ mine' \in {mine \ {k}} \cup (IF k[1] \in PeerNames THEN {mine \cup {k}} ELSE {})
    /\ Refresh({k})
    /\ UNCHANGED <<kv, fg, users, locks, pc, req, locals, who, fix, history>>

\* The process dies; MultiUserManager::Init of the next one makes the user
\* that is now in the foreground current, coming from DEFAULT_USER_ID.
Restart ==
    /\ MayCrash /\ Start
    /\ \E u \in Users \ gone, t \in Tasks :
          /\ osFg' = u
          /\ pc' = [x \in Threads |-> IF x = t THEN "switch" ELSE "idle"]
          /\ who' = [x \in Tasks |-> IF x = t THEN u ELSE NoUserYet]
          /\ Disturbed("restarted", u # fg \/ \E x \in Tasks : pc[x] # "idle")
    /\ fg' = NoUser /\ fgLock' = Free /\ storeLock' = Free /\ kv' = "open"
    /\ req' = [c \in Clients |-> NoReq]
    /\ ents' = [x \in Threads |-> NoEntries] /\ del' = [x \in Threads |-> {}]
    /\ fix' = NoFix /\ fresh' = {} /\ overtaken' = {}
    /\ UNCHANGED <<data, gone>>

-----------------------------------------------------------------------------
Init ==
    /\ store = Before /\ mine = Present(Before) \ Others /\ kv = "open"
    /\ fg \in Users /\ osFg = fg /\ gone = {}
    /\ fgLock = Free /\ storeLock = Free
    /\ pc = [t \in Threads |-> "idle"]
    /\ req = [c \in Clients |-> NoReq]
    /\ ents = [t \in Threads |-> NoEntries] /\ del = [t \in Threads |-> {}]
    /\ who = [t \in Tasks |-> NoUserYet]
    /\ fix = NoFix /\ fresh = {} /\ overtaken = {} /\ upset = {}
    /\ starts = 0

ClientReturns(c) == PutStore(c) \/ GetRead(c) \/ DeleteRun(c)
ClientNext(c) == Put(c) \/ PutMore(c) \/ Get(c) \/ Delete(c) \/ ClientReturns(c)
TaskRuns(t) == \/ SwitchBegin(t) \/ SwitchScan(t) \/ SwitchSave(t) \/ SwitchClear(t)
               \/ RemoveScan(t) \/ RemoveKeys(t)
TaskNext(t) == UserSwitched(t) \/ UserRemoved(t) \/ TaskRuns(t)
HandlerRuns == \/ FixLocal \/ FixLocalKeys \/ FixPeer \/ FixPeerKeys
               \/ ReInitClose \/ ReInitOpen
Next == \/ \E c \in Clients : ClientNext(c)
        \/ \E t \in Tasks : TaskNext(t)
        \/ DeviceOnline \/ HandlerRuns
        \/ KvDies \/ Restart
        \/ \E k \in ForeignKeys : Synced(k)

\* A thread that is in a call goes on once the mutex it needs stays free.
Spec == /\ Init /\ [][Next]_vars
        /\ \A c \in Clients : WF_vars(ClientReturns(c))
        /\ \A t \in Tasks : WF_vars(TaskRuns(t))
        /\ WF_vars(HandlerRuns)

-----------------------------------------------------------------------------
(* Safety *)

Pcs == {"idle", "put", "get", "delete", "switch", "scan", "save", "clear", "remove",
        "removeKeys", "fixLocal", "fixLocalKeys", "fixPeer", "fixPeerKeys", "reopen"}
Upsets == {"overtaken", "reordered", "aborted", "cleaned", "restarted"}

\* Type correctness of the whole state; an entry under the key of a user is
\* a put of that user.
TypeOK ==
    /\ store \in Entries /\ mine \subseteq Present(store)
    /\ \A k \in Present(store) : k[2] # NoUser => store[k][1] = k[2]
    /\ kv \in {"open", "dead", "reset"}
    /\ fg \in Owners /\ osFg \in Users /\ gone \subseteq Users
    /\ fgLock \in {Free} \cup Tasks /\ storeLock \in {Free} \cup Clients
    /\ pc \in [Threads -> Pcs]
    /\ req \in [Clients -> [name : Names, user : Owners]]
    /\ ents \in [Threads -> Entries] /\ del \in [Threads -> SUBSET Keys]
    /\ who \in [Tasks -> Users]
    /\ fix \in [peer : {"none", "unknown", "oh", "nonoh"}, owned : SUBSET Keys]
    /\ fresh \subseteq Keys /\ overtaken \subseteq Clients /\ upset \subseteq Upsets
    /\ starts \in Nat

\* Between account events a plain key never shows what a background user has
\* put, unless a put overtaken by a user change was written, events ran in
\* another order, a user change gave up, a repair removed a user's entry or a
\* user change was lost in a restart (OnUserChange, the Put functions).
Isolation ==
    ~Busy /\ upset = {} =>
        \A n \in LocalNames : store[Plain(n)] # None =>
            store[Plain(n)][1] \in {NoUser, osFg}

\* Nothing of a removed user is left under his keys once the event has been
\* handled, under the same conditions (DeleteRemovedUserData).
RemovedForgotten ==
    ~Busy /\ upset = {} =>
        \A u \in gone, n \in LocalNames : store[<<n, u>>] = None

\* A get for a user returns what that user has put, or what was put without a
\* user.
GetsOwn(c) == req[c].user # NoUser /\ Result(c) # None
              => Result(c)[1] \in {NoUser, req[c].user}
GetEnds(c) == pc[c] = "get" /\ pc'[c] = "idle" /\ UNCHANGED fg

\* The same for a get that no user change has overtaken, while the plain keys
\* are as Isolation has them.
GetOwnUnlessOvertaken ==
    [][\A c \in Clients :
        GetEnds(c) /\ c \notin overtaken /\ upset = {} => GetsOwn(c)]_vars

\* A user change moves plain keys only: the entries under the keys of users
\* are the same before and after each of its steps (OnUserChange).
SwitchKeepsUserData ==
    [][(\E t \in Tasks : pc[t] \in {"scan", "save", "clear"} /\ pc'[t] # pc[t])
       => \A k \in Keys : k[2] # NoUser => store'[k] = store[k]]_vars

\* The entries a repair may remove: those of the local device that it has not
\* written; of a peer, what this device has written for it if it is an
\* OpenHarmony device, and OhEntries if it is not.
Removable(k) ==
    \/ k[1] \in LocalNames /\ k \notin mine
    \/ k[1] \in PeerNames /\ fix.peer = "oh" /\ k \in mine
    \/ k[1] \in OhNames /\ fix.peer = "nonoh"
FixStep == pc[Handler] \in {"fixLocalKeys", "fixPeerKeys"} /\ pc'[Handler] # pc[Handler]
Removes(k) == store[k] # None /\ store'[k] = None

\* A repair removes nothing else, but for entries written after it had read
\* which entries are this device's (FixLocalData, FixRemoteData...).
FixRemovesMisplaced ==
    [][FixStep =>
       \A k \in Keys : Removes(k) => Removable(k) \/ k \in fresh]_vars

-----------------------------------------------------------------------------
(* Liveness *)

\* DeleteServiceProfile and OnUserChange take the two mutexes in opposite
\* order.
LockCycle == /\ storeLock # Free /\ fgLock # Free
             /\ req[storeLock].user # NoUser
             /\ \/ pc[fgLock] = "scan"
                \/ pc[fgLock] = "save" /\ Present(ents[fgLock]) # {}
                \/ pc[fgLock] = "clear" /\ del[fgLock] # {}

\* Every call, account event and repair ends, unless the two mutexes are held
\* against each other.
AllEnd == \A t \in Threads : (pc[t] # "idle") ~> (pc[t] = "idle" \/ LockCycle)
=============================================================================
