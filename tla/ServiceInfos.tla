---------------------------- MODULE ServiceInfos ----------------------------
(***************************************************************************)
(* Service infos: ServiceInfoManager, the change threads of the static     *)
(* store and SubscribeServiceInfoManager.  What this device offers is      *)
(* written to a local store and to one that the KV layer synchronises;     *)
(* what other devices offer arrives in the synchronised store, and a       *)
(* detached thread per announcement copies it into the local store, from   *)
(* which all readers are served, and tells the subscribers, each in a      *)
(* detached thread again.  The observers are registered for every change,  *)
(* so a device may also hear of its own writes.                            *)
(***************************************************************************)
EXTENDS Integers, FiniteSets, Bags

CONSTANTS
    Own,          \* the udid of this device
    Keys,         \* the keys of service infos: udid, user and service
    Infos,        \* what an info may say
    Broken,       \* a value of another device that does not parse
    UserInfos,    \* what calls ask to delete: udid, user and service, or AnyId for these two
    AnyId,        \* DEFAULT_ID
    None,
    Subscribers,
    Observers,    \* "services": of ServiceInfoManager, "static": of StaticProfileManager
    MaxListeners, \* MAX_LISTENER_SIZE
    MaxEvents,    \* bound: calls, changes of other devices, deaths of the KV service
    MaxFaults,    \* bound: store operations that fail
    MaxJobs       \* bound: threads at a time

ASSUME ServiceInfosAssumption ==
    /\ Infos \cap {Broken, None} = {} /\ Broken # None /\ None \notin {"insert", "update", "delete"}
    /\ Observers \subseteq {"services", "static"}
    /\ MaxListeners \in Nat /\ MaxEvents \in Nat /\ MaxFaults \in Nat /\ MaxJobs \in Nat

VARIABLES
    local,     \* serviceInfoKvAdapter_'s store
    synced,    \* syncServiceInfoKvAdapter_'s store
    adapters,  \* the two adapters: no pointer, a closed store, an open one
    reinit,    \* where ReInit is, "idle" when it is not running
    jobs,      \* the threads, a bag: calls, announcements, notifications
    listeners, \* serviceInfoMap_
    told,      \* what each subscriber holds: the list at its subscription, then what it hears
    crashed,
    asked,     \* history: the last write of a client of this device
    tainted,   \* history: keys with overlapping threads or a failed write since their last put
    events, faults

vars == <<local, synced, adapters, reinit, jobs, listeners, told, crashed, asked, tainted,
          events, faults>>
stores == <<local, synced>>
history == <<asked, events>>

Values == Infos \cup {None}
OwnKeys == {k \in Keys : k.udid = Own}

\* IsKeyMatch
IsKeyMatch(k, u) == /\ k.udid = u.udid
                    /\ u.userId \in {k.userId, AnyId} /\ u.serviceId \in {k.serviceId, AnyId}
Matching(u) == {k \in Keys : IsKeyMatch(k, u)}
\* IsSvrInfoValid: what is put has a user and a service, never DEFAULT_ID, so the key of an
\* info names that info only.
ASSUME KeysAssumption == \A j, k \in Keys : IsKeyMatch(j, k) => j = k
\* ParseAndValidateJSON: the local store only ever holds what passed it.
ParseAndValidateJSON(v) == v \in Infos
\* GetEntriesByKeys: no value where there is none, or while the store is closed.
GetEntriesByKeys(k) == IF adapters.sync = "open" THEN synced[k] ELSE None
GetAllServiceInfoList == local
\* GetServiceInfosByUserInfo: nothing found is an error, too.
GetServiceInfosByUserInfo(u) == {local[k] : k \in {j \in Matching(u) : local[j] # None}}

Job(pc, change, u, v) == [pc |-> pc, change |-> change, user |-> u, value |-> v, keys |-> {}, sub |-> None]

Init ==
    /\ local = [k \in Keys |-> None] /\ synced = local
    /\ adapters = [local |-> "open", sync |-> "open"] /\ reinit = "idle"
    /\ jobs = EmptyBag /\ listeners = {} /\ told = [s \in Subscribers |-> local]
    /\ crashed = FALSE
    /\ asked = local /\ tainted = {} /\ events = 0 /\ faults = 0

Count == events < MaxEvents /\ ~crashed /\ events' = events + 1
Fault == faults < MaxFaults /\ faults' = faults + 1

\* The keys that a thread has yet to read, write or tell something of.
InFlight == UNION {Matching(j.user) : j \in BagToSet(jobs)}
\* Something new begins on keys: what follows is in order only if all has come to rest.
Overlapping(keys) == keys \cap InFlight

\* storeMutex_ is held by Init from the opening of one store to that of the other.
StoreMutexFree == reinit # "initSync"

\* Threads end, go on, or go on and leave others behind.
Others(j) == jobs (-) SetToBag({j})
Ends(j) == jobs' = Others(j)
GoesOn(j, k) == jobs' = Others(j) (+) SetToBag({k})
At(j, pc) == ~crashed /\ j.pc = pc
Failed(j) == Ends(j) /\ tainted' = tainted \cup Matching(j.user)

(***************************************************************************)
(* The KV layer: every observer of the synchronised store runs a change    *)
(* thread of its own.                                                      *)
(***************************************************************************)
Registered == {o \in Observers : o = "services" => adapters.sync = "open"}
OnChange(keys, op) ==
    IF Registered = {} THEN EmptyBag
    ELSE [j \in {Job(IF op = "delete" THEN "info" ELSE "read", op, k, None) : k \in keys} |->
              Cardinality(Registered)]
Room(n) == BagCardinality(jobs) + n <= MaxJobs
Op(k, v) == IF v = None THEN "delete" ELSE IF synced[k] = None THEN "insert" ELSE "update"

\* A change by another device arrives.
PeerChange(k, v) ==
    /\ Count /\ k \notin OwnKeys /\ v # synced[k]
    /\ Room(Cardinality(Registered))
    /\ synced' = [synced EXCEPT ![k] = v]
    /\ jobs' = jobs (+) OnChange({k}, Op(k, v))
    /\ tainted' = IF v \in Infos /\ Registered # {}
                  THEN (tainted \ {k}) \cup Overlapping({k})
                  ELSE tainted \cup Overlapping({k})
                       \cup (IF v = Broken \/ Registered = {} THEN {k} ELSE {})
    /\ UNCHANGED <<local, adapters, reinit, listeners, told, crashed, asked, faults>>

(***************************************************************************)
(* Calls of clients.                                                       *)
(***************************************************************************)
PutServiceInfo(k, v) ==
    /\ Count /\ Room(1)
    /\ jobs' = jobs (+) SetToBag({Job("put", None, k, v)})
    /\ asked' = IF k \in OwnKeys THEN [asked EXCEPT ![k] = v] ELSE asked
    /\ tainted' = IF k \in OwnKeys THEN (tainted \ {k}) \cup Overlapping({k}) ELSE tainted \cup {k}
    /\ UNCHANGED <<stores, adapters, reinit, listeners, told, crashed, faults>>

DeleteServiceInfo(u) ==
    /\ Count /\ Room(1)
    /\ jobs' = jobs (+) SetToBag({Job("find", None, u, None)})
    /\ asked' = [k \in Keys |-> IF k \in Matching(u) THEN None ELSE asked[k]]
    /\ tainted' = tainted \cup (IF u.udid = Own THEN Overlapping(Matching(u)) ELSE Matching(u))
    /\ UNCHANGED <<stores, adapters, reinit, listeners, told, crashed, faults>>

\* SubscribeServiceInfo: there is no way to unsubscribe.  The subscriber has read the
\* list; threads under way may tell it what it has read already, or something older.
SubscribeServiceInfo(s) ==
    /\ Count /\ Cardinality(listeners) <= MaxListeners
    /\ listeners' = listeners \cup {s}
    /\ told' = [told EXCEPT ![s] = GetAllServiceInfoList]
    /\ tainted' = tainted \cup InFlight
    /\ UNCHANGED <<stores, adapters, reinit, jobs, crashed, asked, faults>>

(***************************************************************************)
(* The steps of the threads.  A step is a critical section.                *)
(***************************************************************************)
\* ProcessInsertOrUpdate: the value of now, which need not be the announced one.
ReadSynced(j) ==
    /\ At(j, "read")
    /\ LET k == j.user IN
       IF ParseAndValidateJSON(GetEntriesByKeys(k))
       THEN GoesOn(j, [j EXCEPT !.pc = "put", !.value = GetEntriesByKeys(k)]) /\ UNCHANGED tainted
       ELSE Failed(j)
    /\ UNCHANGED <<stores, adapters, reinit, listeners, told, crashed, history, faults>>

\* PutServiceInfo, the local store.
PutLocal(j) ==
    /\ At(j, "put") /\ StoreMutexFree
    /\ LET k == j.user IN
       \/ /\ adapters.local = "open"
          /\ local' = [local EXCEPT ![k] = j.value]
          /\ CASE k \in OwnKeys -> GoesOn(j, [j EXCEPT !.pc = "putSync"])
               [] k \notin OwnKeys /\ j.change # None -> GoesOn(j, [j EXCEPT !.pc = "tell"])
               [] OTHER -> Ends(j)
          /\ UNCHANGED <<tainted, faults>>
       \/ /\ IF adapters.local = "open" THEN Fault ELSE UNCHANGED faults
          /\ Failed(j) /\ UNCHANGED local
    /\ UNCHANGED <<synced, adapters, reinit, listeners, told, crashed, history>>

\* MUTANT: an entry that is there is taken for up to date, whatever it says.
PutSyncedOnce(j) ==
    /\ At(j, "putSync")
    /\ LET k == j.user IN
       /\ adapters.sync = "open" /\ Room(Cardinality(Registered) - 1)
       /\ IF synced[k] = None
          THEN /\ synced' = [synced EXCEPT ![k] = j.value]
               /\ jobs' = Others(j) (+) OnChange({k}, "insert")
          ELSE Ends(j) /\ UNCHANGED synced
    /\ UNCHANGED <<local, adapters, reinit, listeners, told, crashed, history, tainted, faults>>
\* PutServiceInfo, the synchronised store: an equal value is not written again.
PutSynced(j) ==
    /\ At(j, "putSync")
    /\ LET k == j.user  v == j.value IN
       \/ /\ adapters.sync = "open" /\ synced[k] # v
          /\ Room(Cardinality(Registered) - 1)
          /\ synced' = [synced EXCEPT ![k] = v]
          /\ jobs' = Others(j) (+) OnChange({k}, Op(k, v))
          /\ UNCHANGED <<tainted, faults>>
       \/ /\ adapters.sync = "open" /\ synced[k] = v
          /\ Ends(j) /\ UNCHANGED <<synced, tainted, faults>>
       \/ /\ IF adapters.sync = "open" THEN Fault ELSE UNCHANGED faults
          /\ Failed(j) /\ UNCHANGED synced
    /\ UNCHANGED <<local, adapters, reinit, listeners, told, crashed, history>>

\* ProcessDelete, EntriesToUserInfo: what is to be told of is read before it is deleted.
EntriesToUserInfo(j) ==
    /\ At(j, "info") /\ StoreMutexFree
    /\ LET found == GetServiceInfosByUserInfo(j.user) IN
       IF adapters.local # "open" THEN Failed(j)
       ELSE /\ IF found = {} THEN Ends(j)
               ELSE \E v \in found : GoesOn(j, [j EXCEPT !.pc = "find", !.value = v])
            /\ UNCHANGED tainted
    /\ UNCHANGED <<stores, adapters, reinit, listeners, told, crashed, history, faults>>

\* DeleteServiceInfo, the first critical section: a device without entries is an error.
FindKeys(j) ==
    /\ At(j, "find") /\ StoreMutexFree
    /\ LET u == j.user
           keys == {k \in Keys : k.udid = u.udid /\ local[k] # None}
       IN CASE adapters.local # "open" -> Failed(j)
            [] adapters.local = "open" /\ keys = {} -> Ends(j) /\ UNCHANGED tainted
            [] OTHER -> /\ GoesOn(j, [j EXCEPT !.pc = "del", !.keys = keys \cap Matching(u)])
                        /\ UNCHANGED tainted
    /\ UNCHANGED <<stores, adapters, reinit, listeners, told, crashed, history, faults>>

\* The second one: it does not look at the pointer again.
DeleteLocal(j) ==
    /\ At(j, "del") /\ StoreMutexFree
    /\ LET found == j.keys IN
       \/ /\ adapters.local = "none"
          /\ crashed' = TRUE /\ jobs' = EmptyBag /\ UNCHANGED <<local, tainted, faults>>
       \/ /\ adapters.local = "open" /\ found # {}
          /\ local' = [k \in Keys |-> IF k \in found THEN None ELSE local[k]]
          /\ CASE j.user.udid = Own -> GoesOn(j, [j EXCEPT !.pc = "delSync"])
               [] j.user.udid # Own /\ j.change # None ->
                      GoesOn(j, [j EXCEPT !.pc = "tell"])
               [] OTHER -> Ends(j)
          /\ UNCHANGED <<tainted, crashed, faults>>
       \/ /\ adapters.local # "none" /\ found = {}
          /\ Ends(j) /\ UNCHANGED <<local, tainted, crashed, faults>>
       \/ /\ adapters.local # "none" /\ found # {}
          /\ IF adapters.local = "open" THEN Fault ELSE UNCHANGED faults
          /\ Failed(j) /\ UNCHANGED <<local, crashed>>
    /\ UNCHANGED <<synced, adapters, reinit, listeners, told, history>>

\* DeleteSyncServiceInfo: the keys that the local store held.
DeleteSyncServiceInfo(j) ==
    /\ At(j, "delSync")
    /\ LET found == j.keys
           gone == {k \in found : synced[k] # None}
       IN
       \/ /\ adapters.sync = "open"
          /\ Room(Cardinality(gone) * Cardinality(Registered) - 1)
          /\ synced' = [k \in Keys |-> IF k \in found THEN None ELSE synced[k]]
          /\ jobs' = Others(j) (+) OnChange(gone, "delete")
          /\ UNCHANGED <<tainted, faults>>
       \/ /\ IF adapters.sync = "open" THEN Fault ELSE UNCHANGED faults
          /\ Failed(j) /\ UNCHANGED synced
    /\ UNCHANGED <<local, adapters, reinit, listeners, told, crashed, history>>

\* MUTANT: ProcessChangeOp has no case for deletions.
NotifyAddAndUpdate(j) ==
    /\ At(j, "tell") /\ Room(Cardinality(listeners) - 1)
    /\ jobs' = IF j.change = "delete" THEN Others(j)
               ELSE Others(j) (+) SetToBag({[j EXCEPT !.pc = "told", !.sub = s] : s \in listeners})
    /\ UNCHANGED <<stores, adapters, reinit, listeners, told, crashed, history, tainted, faults>>
\* NotifyServiceInfoAdd, NotifyServiceInfoUpdate, NotifyServiceInfoDelete: a thread each.
Notify(j) ==
    /\ At(j, "tell")
    /\ Room(Cardinality(listeners) - 1)
    /\ jobs' = Others(j) (+) SetToBag({[j EXCEPT !.pc = "told", !.sub = s, !.keys = {}] : s \in listeners})
    /\ UNCHANGED <<stores, adapters, reinit, listeners, told, crashed, history, tainted, faults>>

\* OnServiceInfoInsert, OnServiceInfoUpdate, OnServiceInfoDelete.
Told(j) ==
    /\ At(j, "told")
    /\ told' = [told EXCEPT ![j.sub][j.user] =
                   IF j.change = "delete" THEN None ELSE j.value]
    /\ Ends(j)
    /\ UNCHANGED <<stores, adapters, reinit, listeners, crashed, history, tainted, faults>>

(***************************************************************************)
(* The KV service dies: ReInit, in the thread of the event handler.        *)
(***************************************************************************)
Dies == /\ Count /\ reinit = "idle" /\ reinit' = "unInit"
        /\ UNCHANGED <<stores, adapters, jobs, listeners, told, crashed, asked, tainted, faults>>

\* UnInit stops at the first adapter that is not there.
UnInitLocal ==
    /\ reinit = "unInit"
    /\ reinit' = IF adapters.local = "none" THEN "init" ELSE "unInitSync"
    /\ adapters' = [adapters EXCEPT !.local = "none"]
    /\ UNCHANGED faults
UnInitSync ==
    /\ reinit = "unInitSync" /\ reinit' = "init"
    /\ adapters' = [adapters EXCEPT !.sync = "none"]
    /\ UNCHANGED faults
InitLocal ==
    /\ reinit = "init"
    /\ \/ /\ adapters' = [adapters EXCEPT !.local = "open"] /\ reinit' = "initSync"
          /\ UNCHANGED faults
       \/ /\ Fault
          /\ adapters' = [adapters EXCEPT !.local = "closed"] /\ reinit' = "idle"
InitSync ==
    /\ reinit = "initSync" /\ reinit' = "idle"
    /\ \/ adapters' = [adapters EXCEPT !.sync = "open"] /\ UNCHANGED faults
       \/ Fault /\ adapters' = [local |-> "closed", sync |-> "none"]
ReInit == /\ ~crashed /\ (UnInitLocal \/ UnInitSync \/ InitLocal \/ InitSync)
          /\ UNCHANGED <<stores, jobs, listeners, told, crashed, history, tainted>>

Step(j) == ReadSynced(j) \/ PutLocal(j) \/ PutSynced(j) \/ EntriesToUserInfo(j) \/ FindKeys(j)
           \/ DeleteLocal(j) \/ DeleteSyncServiceInfo(j) \/ Notify(j) \/ Told(j)

Next ==
    \/ \E k \in Keys, v \in Values \cup {Broken} : PeerChange(k, v)
    \/ \E k \in Keys, v \in Infos : PutServiceInfo(k, v)
    \/ \E u \in UserInfos : DeleteServiceInfo(u)
    \/ \E s \in Subscribers : SubscribeServiceInfo(s)
    \/ Dies \/ ReInit
    \/ \E j \in BagToSet(jobs) : Step(j)

ServiceInfosSpec == Init /\ [][Next]_vars

-----------------------------------------------------------------------------
(***************************************************************************)
(* Properties                                                              *)
(***************************************************************************)
\* The type invariant, with what the threads may hold at each step.
TypeOK ==
    /\ local \in [Keys -> Values] /\ synced \in [Keys -> Values \cup {Broken}]
    /\ adapters \in [local : {"none", "closed", "open"}, sync : {"none", "open"}]
    /\ reinit \in {"idle", "unInit", "unInitSync", "init", "initSync"}
    /\ \A j \in BagToSet(jobs) :
           /\ j.pc \in {"put", "putSync", "read", "info", "find", "del", "delSync", "tell", "told"}
           /\ j.pc \in {"put", "putSync", "tell", "told"} => j.value \in Infos
           /\ j.pc = "told" => j.sub \in listeners /\ j.user \notin OwnKeys
    /\ told \in [Subscribers -> [Keys -> Values]] /\ asked \in [Keys -> Values]
    /\ tainted \subseteq Keys

\* When no thread is at work on a key whose threads never overlapped or failed since it
\* was put, the local store that serves all readers holds what the synchronised store
\* holds, and for an info of this device that is what its client asked for last: the
\* echo of a put never brings back what was deleted or replaced.  PutServiceInfo,
\* DeleteServiceInfo and the change threads take the mutex of each store in turn.
CopiesAgree ==
    \A k \in Keys \ (tainted \cup InFlight) :
        ~crashed => local[k] = synced[k] /\ (k \in OwnKeys => local[k] = asked[k])

\* A subscriber that took the list when it subscribed and follows its callbacks holds the
\* infos of other devices as the local store does, although each callback comes in a
\* detached thread and every change is announced by two observers of the store.
ToldWhatIsStored ==
    \A s \in listeners, k \in Keys \ (OwnKeys \cup tainted \cup InFlight) :
        ~crashed => told[s][k] = local[k]
=============================================================================
