------------------------ MODULE ServiceLifecycleProofs ------------------------
(***************************************************************************)
(* Proofs about the life of the process and the calls it serves.           *)
(*                                                                         *)
(* ServiceLifecycle, for every set of clients, subscribers, dependencies   *)
(* and values, every retry limit and every bound: types, one PostInit per  *)
(* process, no acknowledged profile of a client lost over the flush, and   *)
(* one OnDpInited per subscriber.                                          *)
(*                                                                         *)
(* ProfileIpc, for every caller, permission file, number of elements and   *)
(* limit of a vector, and parcels that may be full at any write: a call is *)
(* handled as it was sent, by a manager that is ready, and answered with   *)
(* what its handler returned.                                              *)
(***************************************************************************)
EXTENDS ServiceLifecycle, ProfileIpc, FiniteSetTheorems, TLAPS

-----------------------------------------------------------------------------
(* Types *)

\* As long as the flush may still be tried, an attempt is left.
Trying == {"wait", "open", "managers", "collect", "lock", "putSwitch", "copy",
           "recopy", "merge", "batch"}
TypeInv == /\ TypeOK
           /\ boot \in Trying => tryTimes > 0
           /\ depSaIds # {} => boot = "wait"

\* The empty maps and the empty call are well typed.
LEMMA Empties ==
    /\ NoEntries \in Entries /\ NoSwitches \in SwitchMap /\ NoJob \in Job
    /\ [c \in Clients |-> None] \in [Clients -> Value]
PROOF
  BY DEF NoEntries, Entries, Value, NoSwitches, SwitchMap, NoJob, Job,
         DynamicKeys, Kinds

\* Overriding one map with another gives a map.
LEMMA OverTypes ==
    /\ \A f, g \in Entries : Over(f, g) \in Entries
    /\ \A f, g \in [Clients -> Value] : Over(f, g) \in [Clients -> Value]
PROOF
  BY DEF Over, Entries

\* Opening the store keeps the two flags Boolean.
LEMMA OpenTypes ==
    ASSUME isFirst \in BOOLEAN, storeOpen \in BOOLEAN, PostInit
    PROVE  isFirst' \in BOOLEAN /\ storeOpen' \in BOOLEAN
PROOF
<1>1. CASE storeOpen' = TRUE /\ isFirst' = (isFirst /\ Empty(store))
  BY <1>1, Zenon
<1>2. CASE UNCHANGED <<storeOpen, isFirst>>
  BY <1>2
<1> QED BY <1>1, <1>2, Zenon DEF PostInit

\* The steps of PostInit keep the types.
LEMMA BootTypes ==
    ASSUME TypeInv, BootStep
    PROVE  TypeInv'
PROOF
<1> USE DEF TypeInv, TypeOK, flush, staged, manager, stores, writers, subs,
            acks, flags, bounds, Trying, BootLabels, Flushing
<1> USE Empties, OverTypes, RetriesAssumption
<1>1. CASE PostInit
  <2>1. isFirst' \in BOOLEAN /\ storeOpen' \in BOOLEAN
    BY <1>1, OpenTypes
  <2>2. boot = "open" /\ boot' \in {"managers", "failed"}
    BY <1>1 DEF PostInit
  <2>3. UNCHANGED <<tryTimes, entries, taken, staged, putTemp, stores, writers,
                    subs, acks, flags, bounds>>
    BY <1>1, Zenon DEF PostInit
  <2> QED BY <2>1, <2>2, <2>3
<1>2. CASE PostInitCollect
  BY <1>2 DEF PostInitCollect, Collect, Job, Writers, DynamicKeys, Kinds, Value
<1>3. CASE PostInitNext
  BY <1>3 DEF PostInitNext
<1>4. CASE SaveSwitchProfilesFromTempCache
  BY <1>4 DEF SaveSwitchProfilesFromTempCache
<1>5. CASE PutSwitchBatch
  <2>1. TakenSwitches \in [Clients -> Value]
    BY DEF TakenSwitches, SwitchMap, Kinds
  <2>2. switchStore' \in [Clients -> Value]
    BY <1>5, <2>1 DEF PutSwitchBatch
  <2>3. faults' \in Nat
    BY <1>5 DEF PutSwitchBatch, Fault, NoFault, SwitchFault
  <2> QED BY <1>5, <2>2, <2>3 DEF PutSwitchBatch
<1>6. CASE CopyDynamicProfiles
  BY <1>6 DEF CopyDynamicProfiles
<1>7. CASE SavePutTempCache
  BY <1>7 DEF SavePutTempCache
<1>8. CASE PutTempBatch
  BY <1>8 DEF PutTempBatch, RetriesLeft, GivesUp
<1>9. CASE ResetFirst
  BY <1>9 DEF ResetFirst
<1>10. CASE ClearPutTempCache
  BY <1>10 DEF ClearPutTempCache
<1>11. CASE ClearDynamicProfileMap
  BY <1>11 DEF ClearDynamicProfileMap
<1>12. CASE SetInited
  BY <1>12 DEF SetInited
<1>13. CASE NotifyDeviceProfileInited
  BY <1>13 DEF NotifyDeviceProfileInited
<1> QED BY <1>1, <1>2, <1>3, <1>4, <1>5, <1>6, <1>7, <1>8, <1>9, <1>10, <1>11,
           <1>12, <1>13 DEF BootStep

\* The steps of the writers keep the types.
LEMMA WriterTypes ==
    ASSUME TypeInv,
           \/ \E c \in Clients, b \in Batches, v \in Values :
                 PutProfiles(c, b, v)
           \/ \E c \in Clients : ClientStep(c)
           \/ AccountCommonEventCallback
           \/ \E t \in Writers : ManagerStep(t)
    PROVE  TypeInv'
PROOF
<1> USE DEF TypeInv, TypeOK, flush, staged, manager, stores, writers, subs,
            acks, flags, bounds
<1> USE Empties
<1>1. ASSUME NEW c \in Clients, NEW b \in Batches, NEW v \in Values,
             PutProfiles(c, b, v)
      PROVE  TypeInv'
  BY <1>1, BatchesAssumption DEF PutProfiles, Job, Writers, DynamicKeys, Kinds,
           Value
<1>2. ASSUME NEW c \in Clients, AddProfilesToCache(c)
      PROVE  TypeInv'
  <2>1. job[c] \in Job /\ c \in DynamicKeys /\ c \in Writers
    BY DEF Writers, DynamicKeys
  <2>2. job[c].value \in Value
    BY <2>1 DEF Job
  <2>3. dynamicMap' \in Entries /\ switchMap' \in SwitchMap
    BY <1>2, <2>1, <2>2 DEF AddProfilesToCache, Stage, Entries, SwitchMap
  <2>4. last' \in Entries /\ lastSwitch' \in [Clients -> Value]
    BY <1>2, <2>1, <2>2 DEF AddProfilesToCache, Entries
  <2> QED BY <1>2, <2>1, <2>3, <2>4 DEF AddProfilesToCache, Return
<1>3. ASSUME NEW c \in Clients, PutToManagers(c)
      PROVE  TypeInv'
  BY <1>3 DEF PutToManagers, Writers
<1>4. ASSUME NEW c \in Clients, PutSwitch(c)
      PROVE  TypeInv'
  <2>1. job[c] \in Job /\ c \in Writers
    BY DEF Writers
  <2>2. job[c].value \in Value
    BY <2>1 DEF Job
  <2> QED BY <1>4, <2>1, <2>2 DEF PutSwitch, Return, Fault, NoFault, SwitchFault
<1>5. CASE AccountCommonEventCallback
  BY <1>5 DEF AccountCommonEventCallback, Collect, Job, Writers, DynamicKeys,
              Kinds, Value
<1>6. ASSUME NEW t \in Writers, ManagerStep(t)
      PROVE  TypeInv'
  <2>1. job[t] \in Job
    OBVIOUS
  <2>2. job[t].value \in Value /\ job[t].key \in DynamicKeys
    BY <2>1 DEF Job
  <2>3. CASE PutCheckFirst(t)
    BY <2>3 DEF PutCheckFirst
  <2>4. CASE AddToPutTempCache(t)
    BY <2>2, <2>4 DEF AddToPutTempCache, Return, Entries
  <2>5. CASE PutStore(t)
    BY <2>2, <2>5 DEF PutStore, Return, Entries, Fault, NoFault
  <2> QED BY <1>6, <2>3, <2>4, <2>5 DEF ManagerStep
<1> QED BY <1>1, <1>2, <1>3, <1>4, <1>5, <1>6 DEF ClientStep

\* The other steps keep the types.
LEMMA OtherTypes ==
    ASSUME TypeInv,
           \/ \E sa \in DepSaIds : OnAddSystemAbility(sa)
           \/ \E s \in Subscribers : Subscription(s)
           \/ StopStep \/ Restart \/ UNCHANGED vars
    PROVE  TypeInv'
PROOF
<1> USE DEF TypeInv, TypeOK, flush, staged, manager, stores, writers, subs,
            acks, flags, bounds
<1> USE Empties
<1>1. ASSUME NEW sa \in DepSaIds, OnAddSystemAbility(sa)
      PROVE  TypeInv'
  BY <1>1 DEF OnAddSystemAbility, LastDep, Trying, BootLabels
<1>2. ASSUME NEW s \in Subscribers, Subscription(s)
      PROVE  TypeInv'
  <2>1. CASE SubscribeDeviceProfileInited(s)
    <3>1. told' \in [Subscribers -> Nat]
      BY <2>1 DEF SubscribeDeviceProfileInited, ToldAtOnce
    <3> QED BY <2>1, <3>1 DEF SubscribeDeviceProfileInited
  <2>2. CASE SubscribeStore(s)
    BY <2>2 DEF SubscribeStore
  <2>3. CASE UnSubscribeDeviceProfileInited(s)
    BY <2>3 DEF UnSubscribeDeviceProfileInited
  <2> QED BY <1>2, <2>1, <2>2, <2>3 DEF Subscription
<1>3. CASE StopStep
  <2>1. CASE OnStop
    BY <2>1 DEF OnStop
  <2>2. CASE UnInit
    BY <2>2 DEF UnInit
  <2>3. CASE UnInitStore
    BY <2>3 DEF UnInitStore
  <2>4. CASE UnInitTempCache
    BY <2>4 DEF UnInitTempCache
  <2>5. CASE ClearProfileCache
    BY <2>5 DEF ClearProfileCache
  <2> QED BY <1>3, <2>1, <2>2, <2>3, <2>4, <2>5 DEF StopStep
<1>4. CASE Restart
  <2>1. /\ isInited' \in BOOLEAN /\ isStopped' \in BOOLEAN
        /\ isFirst' \in BOOLEAN /\ storeOpen' \in BOOLEAN
    BY <1>4, Zenon DEF Restart
  <2> QED BY <1>4, <2>1, RetriesAssumption DEF Restart, BootLabels
<1>5. CASE UNCHANGED vars
  BY <1>5 DEF vars
<1> QED BY <1>1, <1>2, <1>3, <1>4, <1>5

\* The process starts well typed.
LEMMA InitTypes ==
    ASSUME Init
    PROVE  TypeInv
PROOF
<1>1. /\ isInited \in BOOLEAN /\ isStopped \in BOOLEAN
      /\ isFirst \in BOOLEAN /\ storeOpen \in BOOLEAN
  BY Zenon DEF Init
<1> QED BY <1>1, Empties, RetriesAssumption
        DEF Init, TypeInv, TypeOK, BootLabels

\* Every step keeps the types.
LEMMA TypeStep ==
    ASSUME TypeInv, [Next]_vars
    PROVE  TypeInv'
PROOF
  BY BootTypes, WriterTypes, OtherTypes DEF Next

\* The state keeps its types, and an attempt is left while the flush runs.
THEOREM LifeTypeInvariant == Spec => []TypeInv
PROOF
<1>1. Init => TypeInv
  BY InitTypes
<1>2. TypeInv /\ [Next]_vars => TypeInv'
  BY TypeStep
<1> QED BY <1>1, <1>2, PTL DEF Spec

\* Every variable of the boot keeps its type.
THEOREM LifeTypes == Spec => []TypeOK
PROOF
<1>1. TypeInv => TypeOK
  BY DEF TypeInv
<1> QED BY <1>1, LifeTypeInvariant, PTL
-----------------------------------------------------------------------------
(* The phases of the boot *)

\* PostInit is entered when the last dependency is erased; isInited_ is set at
\* its end and only cleared by OnStop.
PhaseInv ==
    /\ depSaIds = {} <=> boot # "wait"
    /\ postInits = IF boot = "wait" THEN 0 ELSE 1
    /\ isInited => boot \in {"notify", "done"}
    /\ stop = "run" /\ boot \in {"notify", "done"} => isInited
    /\ ~isStopped => stop = "run"

\* A step of a thread other than PostInit and OnStop changes no phase.
LEMMA PhaseFrame ==
    ASSUME \/ \E c \in Clients, b \in Batches, v \in Values :
                 PutProfiles(c, b, v)
           \/ \E c \in Clients : ClientStep(c)
           \/ AccountCommonEventCallback
           \/ \E t \in Writers : ManagerStep(t)
           \/ \E s \in Subscribers : Subscription(s)
           \/ UNCHANGED vars
    PROVE  UNCHANGED <<boot, tryTimes, entries, flags>>
PROOF
<1> USE DEF flush, flags
<1>1. ASSUME NEW c \in Clients, NEW b \in Batches, NEW v \in Values,
             PutProfiles(c, b, v)
      PROVE  UNCHANGED <<boot, tryTimes, entries, flags>>
  BY <1>1 DEF PutProfiles
<1>2. ASSUME NEW c \in Clients, ClientStep(c)
      PROVE  UNCHANGED <<boot, tryTimes, entries, flags>>
  BY <1>2 DEF ClientStep, AddProfilesToCache, PutToManagers, PutSwitch
<1>3. CASE AccountCommonEventCallback
  BY <1>3 DEF AccountCommonEventCallback
<1>4. ASSUME NEW t \in Writers, ManagerStep(t)
      PROVE  UNCHANGED <<boot, tryTimes, entries, flags>>
  BY <1>4 DEF ManagerStep, PutCheckFirst, AddToPutTempCache, PutStore
<1>5. ASSUME NEW s \in Subscribers, Subscription(s)
      PROVE  UNCHANGED <<boot, tryTimes, entries, flags>>
  BY <1>5 DEF Subscription, SubscribeDeviceProfileInited, SubscribeStore,
              UnSubscribeDeviceProfileInited
<1>6. CASE UNCHANGED vars
  BY <1>6 DEF vars
<1> QED BY <1>1, <1>2, <1>3, <1>4, <1>5, <1>6

\* Every step keeps the phases in order.
LEMMA PhaseStep ==
    ASSUME TypeInv, PhaseInv, [Next]_vars
    PROVE  PhaseInv'
PROOF
<1> USE DEF PhaseInv
<1>1. CASE UNCHANGED <<boot, tryTimes, entries, flags>>
  BY <1>1 DEF flags
<1>2. ASSUME NEW sa \in DepSaIds, OnAddSystemAbility(sa)
      PROVE  PhaseInv'
  BY <1>2 DEF OnAddSystemAbility, LastDep
<1>3. CASE BootStep
  <2>1. CASE SetInited
    BY <2>1 DEF SetInited
  <2>2. CASE ~SetInited
    <3>1. boot # "wait" /\ boot \notin {"done", "setInited"}
      BY <1>3, <2>2 DEF BootStep, PostInit, PostInitCollect, PostInitNext,
         SaveSwitchProfilesFromTempCache, PutSwitchBatch, CopyDynamicProfiles,
         SavePutTempCache, PutTempBatch, ResetFirst, ClearPutTempCache,
         ClearDynamicProfileMap, NotifyDeviceProfileInited
    <3>2. /\ boot' # "wait" /\ UNCHANGED flags
          /\ boot = "notify" <=> boot' = "done"
          /\ boot' # "notify"
      BY <1>3, <2>2 DEF BootStep, PostInit, PostInitCollect, PostInitNext,
         SaveSwitchProfilesFromTempCache, PutSwitchBatch, CopyDynamicProfiles,
         SavePutTempCache, PutTempBatch, ResetFirst, ClearPutTempCache,
         ClearDynamicProfileMap, NotifyDeviceProfileInited, flags
    <3> QED BY <3>1, <3>2 DEF flags
  <2> QED BY <2>1, <2>2
<1>4. CASE StopStep
  <2>1. UNCHANGED <<boot, depSaIds, postInits>>
    BY <1>4 DEF StopStep, OnStop, UnInit, UnInitStore, UnInitTempCache,
                ClearProfileCache, flush, flags
  <2>2. /\ stop' # "run"
        /\ isInited' => isInited
        /\ ~isStopped' => ~isStopped /\ stop # "run"
    BY <1>4 DEF StopStep, OnStop, UnInit, UnInitStore, UnInitTempCache,
                ClearProfileCache
  <2> QED BY <2>1, <2>2
<1>5. CASE Restart
  BY <1>5, DepsAssumption DEF Restart
<1> QED BY <1>1, <1>2, <1>3, <1>4, <1>5, PhaseFrame DEF Next

\* PostInit has been entered exactly when no dependency is missing any more.
THEOREM PostInitInvariant == Spec => []PhaseInv
PROOF
<1>1. Init => PhaseInv
  BY DepsAssumption DEF Init, PhaseInv
<1>2. TypeInv /\ PhaseInv /\ [Next]_vars => PhaseInv'
  BY PhaseStep
<1> QED BY <1>1, <1>2, LifeTypeInvariant, PTL DEF Spec

\* PostInit runs at most once in the life of a process, in whatever order and
\* however often the dependencies are announced.
THEOREM OnePostInit == Spec => []PostInitOnce
PROOF
<1>1. PhaseInv => PostInitOnce
  BY DEF PhaseInv, PostInitOnce
<1> QED BY <1>1, PostInitInvariant, PTL

-----------------------------------------------------------------------------
(* Acknowledged profiles over the flush *)

Ended == {"notify", "done"}
Before == {"wait", "open", "managers", "collect", "lock", "failed",
           "putSwitch", "copy", "recopy", "merge", "batch"}
After == {"first", "reset", "clearTemp", "clearDynamic", "setInited"}
         \cup Ended

\* A client past the isInited_ test came after the flush, so it never stages in
\* putTempCache_; the other writers keep to the collected key.
WritersOK ==
    /\ \A c \in Clients :
         /\ pc[c] # "temp"
         /\ pc[c] # "idle" => job[c].key = c
         /\ pc[c] = "enter" => job[c].value # None
         /\ pc[c] \in {"switch", "check", "store"} => boot \in Ended
         /\ putTemp[c] = None
    /\ \A t \in {Boot, Account} : pc[t] # "idle" => job[t].key = Collected
    /\ boot \in {"clearTemp", "clearDynamic", "setInited"} \cup Ended => ~isFirst

\* Before the flush has written, a client's last value is the staged one, else
\* the stored one; while it writes, it has the staged values; afterwards the
\* store has the last ones, unless every attempt failed.
Latest(c) ==
    /\ boot \in Before => last[c] = IF dynamicMap[c] # None THEN dynamicMap[c]
                                   ELSE store[c]
    /\ boot \in Before \ {"merge", "batch"} => entries[c] = None
    /\ boot \in {"merge", "batch"} => entries[c] = dynamicMap[c]
    /\ boot \in After /\ tryTimes > 0 => store[c] = last[c]

FlushInv == /\ WritersOK
            /\ stop = "run" => \A c \in Clients : Latest(c)

\* The steps of the flush itself.
LEMMA FlushBootStep ==
    ASSUME TypeInv, FlushInv, BootStep
    PROVE  FlushInv'
PROOF
<1> USE DEF TypeInv, TypeOK, flush, staged, manager, stores, writers, subs,
            acks, flags, bounds, Before, After, Ended
<1>1. CASE PostInit
  <2>1. boot = "open" /\ boot' \in {"managers", "failed"}
    BY <1>1 DEF PostInit
  <2>2. UNCHANGED <<tryTimes, entries, staged, putTemp, stores, writers, acks,
                    stop>>
    BY <1>1, Zenon DEF PostInit
  <2> QED BY <2>1, <2>2 DEF FlushInv, WritersOK, Latest
<1>2. CASE PostInitCollect
  <2>1. boot = "managers" /\ boot' \in {"collect", "failed"}
    BY <1>2 DEF PostInitCollect
  <2>2. UNCHANGED <<tryTimes, entries, staged, manager, stores, acks, stop>>
    BY <1>2 DEF PostInitCollect
  <2>3. /\ \A t \in Writers \ {Boot} : pc'[t] = pc[t] /\ job'[t] = job[t]
        /\ pc'[Boot] # "idle" => job'[Boot].key = Collected
    BY <1>2 DEF PostInitCollect, Collect, FlushInv, WritersOK, Writers
  <2> QED BY <2>1, <2>2, <2>3, ActorsAssumption
          DEF FlushInv, WritersOK, Latest, Writers
<1>3. CASE PostInitNext
  BY <1>3 DEF PostInitNext, FlushInv, WritersOK, Latest
<1>4. CASE SaveSwitchProfilesFromTempCache
  BY <1>4 DEF SaveSwitchProfilesFromTempCache, FlushInv, WritersOK, Latest
<1>5. CASE PutSwitchBatch
  <2>1. /\ boot = "putSwitch" /\ boot' = "copy"
        /\ UNCHANGED <<tryTimes, entries, staged, manager, store, writers, last,
                       stop>>
    BY <1>5 DEF PutSwitchBatch
  <2> QED BY <2>1 DEF FlushInv, WritersOK, Latest
<1>6. CASE CopyDynamicProfiles
  <2>1. ASSUME NEW c \in Clients
        PROVE  /\ entries'[c] = IF dynamicMap[c] # None THEN dynamicMap[c]
                                ELSE entries[c]
               /\ boot' = "recopy" => entries'[c] = None
    BY <1>6 DEF CopyDynamicProfiles, Over, Entries, DynamicKeys, Empty
  <2> QED BY <1>6, <2>1 DEF CopyDynamicProfiles, FlushInv, WritersOK, Latest
<1>7. CASE SavePutTempCache
  <2>1. ASSUME NEW c \in Clients
        PROVE  /\ entries'[c] = entries[c]
               /\ boot' = "first" => entries[c] = None
    BY <1>7 DEF SavePutTempCache, Over, Entries, DynamicKeys, Empty, FlushInv,
                WritersOK
  <2> QED BY <1>7, <2>1 DEF SavePutTempCache, FlushInv, WritersOK, Latest
<1>8. CASE PutTempBatch
  <2>1. ASSUME NEW c \in Clients
        PROVE  boot' = "first" =>
                 store'[c] = IF entries[c] # None THEN entries[c] ELSE store[c]
    BY <1>8 DEF PutTempBatch, Over, Entries, DynamicKeys
  <2>2. /\ boot = "batch" /\ boot' \in {"first", "reset", "merge"}
        /\ boot' = "reset" => tryTimes' = 0
        /\ boot' = "merge" => UNCHANGED store
        /\ UNCHANGED <<entries, staged, manager, writers, acks, stop>>
    BY <1>8 DEF PutTempBatch, GivesUp
  <2> QED BY <2>1, <2>2 DEF FlushInv, WritersOK, Latest
<1>9. CASE ResetFirst
  BY <1>9 DEF ResetFirst, FlushInv, WritersOK, Latest
<1>10. CASE ClearPutTempCache
  BY <1>10 DEF ClearPutTempCache, FlushInv, WritersOK, Latest, NoEntries,
               DynamicKeys
<1>11. CASE ClearDynamicProfileMap
  BY <1>11 DEF ClearDynamicProfileMap, FlushInv, WritersOK, Latest
<1>12. CASE SetInited
  BY <1>12 DEF SetInited, FlushInv, WritersOK, Latest
<1>13. CASE NotifyDeviceProfileInited
  BY <1>13 DEF NotifyDeviceProfileInited, FlushInv, WritersOK, Latest
<1> QED BY <1>1, <1>2, <1>3, <1>4, <1>5, <1>6, <1>7, <1>8, <1>9, <1>10, <1>11,
           <1>12, <1>13 DEF BootStep

\* The steps of the writers: staging before the flush, writing after it.
LEMMA FlushWriterStep ==
    ASSUME TypeInv, PhaseInv, FlushInv,
           \/ \E c \in Clients, b \in Batches, v \in Values :
                 PutProfiles(c, b, v)
           \/ \E c \in Clients : ClientStep(c)
           \/ AccountCommonEventCallback
           \/ \E t \in Writers : ManagerStep(t)
    PROVE  FlushInv'
PROOF
<1> USE ActorsAssumption, ValuesAssumption
    DEF TypeInv, TypeOK, flush, staged, manager, stores, writers, subs,
        acks, flags, bounds, Writers, Ended
<1>1. ASSUME NEW c \in Clients, NEW b \in Batches, NEW v \in Values,
             PutProfiles(c, b, v)
      PROVE  FlushInv'
  BY <1>1 DEF PutProfiles, FlushInv, WritersOK, Latest
<1>2. ASSUME NEW c \in Clients, AddProfilesToCache(c)
      PROVE  FlushInv'
  <2>1. WritersOK'
    BY <1>2 DEF AddProfilesToCache, Return, FlushInv, WritersOK
  <2>2. ASSUME stop = "run" PROVE boot \in Before \ {"merge", "batch"}
    BY <1>2, <2>2 DEF AddProfilesToCache, CacheFree, Flushing, PhaseInv, Before,
                      BootLabels
  <2>3. ASSUME NEW d \in Clients, stop = "run"
        PROVE  \/ dynamicMap'[d] = dynamicMap[d] /\ last'[d] = last[d]
               \/ dynamicMap'[d] # None /\ last'[d] = dynamicMap'[d]
    <3>1. /\ dynamicMap \in Entries /\ last \in Entries
          /\ c \in DynamicKeys /\ d \in DynamicKeys /\ job[c].value # None
      BY <1>2 DEF AddProfilesToCache, FlushInv, WritersOK, DynamicKeys
    <3> QED BY <1>2, <3>1 DEF AddProfilesToCache, Stage, Entries
  <2>4. UNCHANGED <<boot, tryTimes, entries, store, stop>>
    BY <1>2 DEF AddProfilesToCache
  <2> QED BY <2>1, <2>2, <2>3, <2>4 DEF FlushInv, Latest, Before, After
<1>3. ASSUME NEW c \in Clients, PutToManagers(c)
      PROVE  FlushInv'
  BY <1>3 DEF PutToManagers, PhaseInv, FlushInv, WritersOK, Latest
<1>4. ASSUME NEW c \in Clients, PutSwitch(c)
      PROVE  FlushInv'
  BY <1>4 DEF PutSwitch, Return, FlushInv, WritersOK, Latest
<1>5. CASE AccountCommonEventCallback
  BY <1>5 DEF AccountCommonEventCallback, Collect, FlushInv, WritersOK, Latest
<1>6. ASSUME NEW t \in Writers, PutCheckFirst(t)
      PROVE  FlushInv'
  BY <1>6 DEF PutCheckFirst, FlushInv, WritersOK, Latest
<1>7. ASSUME NEW t \in Writers, AddToPutTempCache(t)
      PROVE  FlushInv'
  <2>1. t \in {Boot, Account} /\ job[t].key = Collected
    BY <1>7 DEF AddToPutTempCache, FlushInv, WritersOK
  <2>2. \A c \in Clients : putTemp'[c] = putTemp[c] /\ last'[c] = last[c]
    BY <1>7, <2>1 DEF AddToPutTempCache, Entries
  <2> QED BY <1>7, <2>1, <2>2 DEF AddToPutTempCache, Return, FlushInv, WritersOK,
             Latest
<1>8. ASSUME NEW t \in Writers, PutStore(t)
      PROVE  FlushInv'
  <2>1. job[t].key = IF t \in Clients THEN t ELSE Collected
    BY <1>8 DEF PutStore, FlushInv, WritersOK
  <2>2. t \in Clients => boot \in Ended
    BY <1>8 DEF PutStore, FlushInv, WritersOK
  <2>3. ASSUME NEW c \in Clients
        PROVE  \/ store'[c] = store[c] /\ last'[c] = last[c]
               \/ t = c /\ store'[c] = last'[c]
    BY <1>8, <2>1 DEF PutStore, Entries, DynamicKeys
  <2>4. WritersOK'
    BY <1>8 DEF PutStore, Return, FlushInv, WritersOK
  <2>5. UNCHANGED <<boot, tryTimes, entries, dynamicMap, stop>>
    BY <1>8 DEF PutStore
  <2> QED BY <2>2, <2>3, <2>4, <2>5 DEF FlushInv, Latest, Before, After
<1> QED BY <1>1, <1>2, <1>3, <1>4, <1>5, <1>6, <1>7, <1>8
        DEF ClientStep, ManagerStep

\* The other steps: dependencies, subscribers, OnStop, a new process.
LEMMA FlushOtherStep ==
    ASSUME TypeInv, PhaseInv, FlushInv,
           \/ \E sa \in DepSaIds : OnAddSystemAbility(sa)
           \/ \E s \in Subscribers : Subscription(s)
           \/ StopStep \/ Restart \/ UNCHANGED vars
    PROVE  FlushInv'
PROOF
<1> USE DEF flush, staged, manager, stores, writers, subs, acks, flags, bounds,
            FlushInv, WritersOK, Latest, Before, After, Ended
<1>1. ASSUME NEW sa \in DepSaIds, OnAddSystemAbility(sa)
      PROVE  FlushInv'
  BY <1>1 DEF OnAddSystemAbility, LastDep, PhaseInv
<1>2. ASSUME NEW s \in Subscribers, Subscription(s)
      PROVE  FlushInv'
  BY <1>2 DEF Subscription, SubscribeDeviceProfileInited, SubscribeStore,
              UnSubscribeDeviceProfileInited
<1>3. CASE StopStep
  <2>1. /\ stop' # "run"
        /\ UNCHANGED <<boot, isFirst, writers>>
        /\ putTemp' \in {putTemp, NoEntries}
    BY <1>3 DEF StopStep, OnStop, UnInit, UnInitStore, UnInitTempCache,
                ClearProfileCache
  <2> QED BY <2>1 DEF NoEntries, DynamicKeys
<1>4. CASE Restart
  BY <1>4, ActorsAssumption DEF Restart, NoEntries, DynamicKeys, Writers
<1>5. CASE UNCHANGED vars
  BY <1>5 DEF vars
<1> QED BY <1>1, <1>2, <1>3, <1>4, <1>5

\* The inductive invariant that carries an acknowledged profile from the staging
\* map through the flush into the store.
THEOREM FlushInvariant == Spec => []FlushInv
PROOF
<1>1. Init => FlushInv
  BY ActorsAssumption DEF Init, FlushInv, WritersOK, Latest, Before, After, Ended,
     NoEntries, DynamicKeys, Writers
<1>2. TypeInv /\ PhaseInv /\ FlushInv /\ [Next]_vars => FlushInv'
  BY FlushBootStep, FlushWriterStep, FlushOtherStep DEF Next
<1> QED BY <1>1, <1>2, LifeTypeInvariant, PostInitInvariant, PTL DEF Spec

\* What a client was told is put is in the store while the service serves, be it
\* staged before PostInit, flushed at its end or written directly, unless every
\* attempt to flush failed.
THEOREM AcknowledgedFlushed == Spec => []Flushed
PROOF
<1>1. PhaseInv /\ FlushInv => Flushed
  BY DEF PhaseInv, FlushInv, Flushed, Serving, Latest, After, Ended
<1> QED BY <1>1, PostInitInvariant, FlushInvariant, PTL

-----------------------------------------------------------------------------
(* Acknowledged switches over the flush *)

\* A batch of both kinds is staged in switchProfileMap_ as a whole; the flush
\* writes what is a switch of it.
SwitchOf(c) == <<c, "switch">>

\* Before the flush has taken the staged switches, a client's last switch is the
\* staged one, else the stored one; then the taken one, else the stored one; in
\* the end the stored one.
Staging == {"wait", "open", "managers", "collect", "lock", "failed"}
LatestSwitch(c) ==
    /\ boot \in Staging =>
          lastSwitch[c] = IF switchMap[SwitchOf(c)] # None
                          THEN switchMap[SwitchOf(c)] ELSE switchStore[c]
    /\ boot = "putSwitch" =>
          lastSwitch[c] = IF taken[SwitchOf(c)] # None
                          THEN taken[SwitchOf(c)] ELSE switchStore[c]
    /\ boot \notin Staging \cup {"putSwitch"} => lastSwitch[c] = switchStore[c]

SwitchInv == stop = "run" /\ faults = 0 => \A c \in Clients : LatestSwitch(c)

\* The place of a client's switch in switchProfileMap_.
LEMMA Places ==
    ASSUME NEW c \in Clients
    PROVE  /\ SwitchOf(c) \in Clients \X Kinds
           /\ SwitchOf(c)[1] = c /\ SwitchOf(c)[2] = "switch"
PROOF
  BY DEF SwitchOf, Kinds

\* The steps of the flush: the staged switches move to its local and from there
\* into the store.
LEMMA SwitchBootStep ==
    ASSUME TypeInv, SwitchInv, BootStep
    PROVE  SwitchInv'
PROOF
<1> USE DEF TypeInv, TypeOK, flush, staged, manager, stores, writers, subs,
            acks, flags, bounds
<1>1. CASE PostInitCollect
  BY <1>1 DEF PostInitCollect, SwitchInv, LatestSwitch, Staging
<1>2. CASE SaveSwitchProfilesFromTempCache
  BY <1>2 DEF SaveSwitchProfilesFromTempCache, SwitchInv, LatestSwitch, Staging
<1>3. CASE PutSwitchBatch
  <2>1. /\ boot = "putSwitch" /\ boot' = "copy"
        /\ UNCHANGED <<switchMap, lastSwitch, stop>>
    BY <1>3 DEF PutSwitchBatch
  <2>2. ASSUME stop = "run", faults' = 0, NEW c \in Clients
        PROVE  lastSwitch[c] = switchStore'[c]
    <3>1. faults = 0 /\ switchStore' = Over(switchStore, TakenSwitches)
      BY <1>3, <2>2 DEF PutSwitchBatch, SwitchFault, Fault, NoFault
    <3>2. switchStore'[c] = IF taken[SwitchOf(c)] # None
                            THEN taken[SwitchOf(c)] ELSE switchStore[c]
      BY <3>1 DEF Over, TakenSwitches, SwitchOf
    <3> QED BY <2>1, <2>2, <3>1, <3>2 DEF SwitchInv, LatestSwitch
  <2> QED BY <2>1, <2>2 DEF SwitchInv, LatestSwitch, Staging
<1>4. CASE ~(PostInitCollect \/ SaveSwitchProfilesFromTempCache \/ PutSwitchBatch)
  <2>1. /\ UNCHANGED <<switchMap, taken, switchStore, lastSwitch, stop, faults>>
        /\ \/ boot \in Staging /\ boot' \in Staging
           \/ /\ boot \notin Staging \cup {"putSwitch"}
              /\ boot' \notin Staging \cup {"putSwitch"}
    <3>1. CASE PostInit
      <4>1. boot = "open" /\ boot' \in {"managers", "failed"}
        BY <3>1 DEF PostInit
      <4>2. UNCHANGED <<switchMap, taken, switchStore, lastSwitch, stop, faults>>
        BY <3>1, Zenon DEF PostInit
      <4> QED BY <4>1, <4>2 DEF Staging
    <3>2. CASE PostInitNext
      BY <3>2 DEF PostInitNext, Staging
    <3>3. CASE CopyDynamicProfiles
      BY <3>3 DEF CopyDynamicProfiles, Staging
    <3>4. CASE SavePutTempCache
      BY <3>4 DEF SavePutTempCache, Staging
    <3>5. CASE PutTempBatch
      BY <3>5 DEF PutTempBatch, Staging
    <3>6. CASE ResetFirst
      BY <3>6 DEF ResetFirst, Staging
    <3>7. CASE ClearPutTempCache
      BY <3>7 DEF ClearPutTempCache, Staging
    <3>8. CASE ClearDynamicProfileMap
      BY <3>8 DEF ClearDynamicProfileMap, Staging
    <3>9. CASE SetInited
      BY <3>9 DEF SetInited, Staging
    <3>10. CASE NotifyDeviceProfileInited
      BY <3>10 DEF NotifyDeviceProfileInited, Staging
    <3> QED BY <1>4, <3>1, <3>2, <3>3, <3>4, <3>5, <3>6, <3>7, <3>8, <3>9, <3>10
            DEF BootStep
  <2> QED BY <2>1 DEF SwitchInv, LatestSwitch, Staging
<1> QED BY <1>1, <1>2, <1>3, <1>4

\* The steps of the writers: switches are staged before the flush and written by
\* SwitchProfileManager after it.
LEMMA SwitchWriterStep ==
    ASSUME TypeInv, PhaseInv, FlushInv, SwitchInv,
           \/ \E c \in Clients, b \in Batches, v \in Values :
                 PutProfiles(c, b, v)
           \/ \E c \in Clients : ClientStep(c)
           \/ AccountCommonEventCallback
           \/ \E t \in Writers : ManagerStep(t)
    PROVE  SwitchInv'
PROOF
<1> USE DEF TypeInv, TypeOK, flush, staged, manager, stores, writers, subs,
            acks, flags, bounds
<1> DEFINE rest == <<boot, taken, switchMap, switchStore, lastSwitch, stop>>
<1>1. ASSUME UNCHANGED rest, faults' = 0 => faults = 0
      PROVE  SwitchInv'
  BY <1>1 DEF SwitchInv, LatestSwitch
<1>2. ASSUME NEW c \in Clients, NEW b \in Batches, NEW v \in Values,
             PutProfiles(c, b, v)
      PROVE  SwitchInv'
  BY <1>1, <1>2 DEF PutProfiles
<1>3. ASSUME NEW c \in Clients, AddProfilesToCache(c)
      PROVE  SwitchInv'
  <2>1. UNCHANGED <<boot, taken, switchStore, stop, faults>>
    BY <1>3 DEF AddProfilesToCache
  <2>2. stop = "run" => boot \in Staging
    BY <1>3 DEF AddProfilesToCache, CacheFree, Flushing, PhaseInv, Staging,
                BootLabels
  <2>3. job[c].value # None
    BY <1>3 DEF AddProfilesToCache, FlushInv, WritersOK, Writers
  <2>4. ASSUME NEW d \in Clients
        PROVE  \/ /\ switchMap'[SwitchOf(d)] = switchMap[SwitchOf(d)]
                  /\ lastSwitch'[d] = lastSwitch[d]
               \/ /\ switchMap'[SwitchOf(d)] # None
                  /\ lastSwitch'[d] = switchMap'[SwitchOf(d)]
    <3>1. CASE "switch" \in job[c].kinds
      <4>1. \A x \in Clients \X Kinds :
              switchMap'[x] = IF x[1] = c /\ x[2] \in job[c].kinds
                              THEN job[c].value ELSE switchMap[x]
        BY <1>3, <3>1 DEF AddProfilesToCache, SwitchMap
      <4>2. lastSwitch'[d] = IF d = c THEN job[c].value ELSE lastSwitch[d]
        BY <1>3, <3>1 DEF AddProfilesToCache
      <4>3. switchMap'[SwitchOf(d)] = IF d = c THEN job[c].value
                                      ELSE switchMap[SwitchOf(d)]
        BY <3>1, <4>1, Places
      <4> QED BY <2>3, <4>2, <4>3
    <3>2. CASE "switch" \notin job[c].kinds
      BY <1>3, <3>2 DEF AddProfilesToCache
    <3> QED BY <3>1, <3>2
  <2> QED BY <2>1, <2>2, <2>4 DEF SwitchInv, LatestSwitch, Staging
<1>4. ASSUME NEW c \in Clients, PutToManagers(c)
      PROVE  SwitchInv'
  BY <1>1, <1>4 DEF PutToManagers
<1>5. ASSUME NEW c \in Clients, PutSwitch(c)
      PROVE  SwitchInv'
  <2>1. boot \in Ended
    BY <1>5 DEF PutSwitch, FlushInv, WritersOK
  <2>2. UNCHANGED <<boot, taken, switchMap, stop>> /\ (faults' = 0 => faults = 0)
    BY <1>5 DEF PutSwitch, Fault, NoFault, SwitchFault
  <2>3. \A d \in Clients : \/ /\ lastSwitch'[d] = lastSwitch[d]
                              /\ switchStore'[d] = switchStore[d]
                           \/ lastSwitch'[d] = switchStore'[d]
    BY <1>5 DEF PutSwitch
  <2> QED BY <2>1, <2>2, <2>3 DEF SwitchInv, LatestSwitch, Staging, Ended
<1>6. CASE AccountCommonEventCallback
  BY <1>1, <1>6 DEF AccountCommonEventCallback
<1>7. ASSUME NEW t \in Writers, ManagerStep(t)
      PROVE  SwitchInv'
  <2>1. UNCHANGED rest /\ (faults' = 0 => faults = 0)
    BY <1>7 DEF ManagerStep, PutCheckFirst, AddToPutTempCache, PutStore, Fault,
                NoFault
  <2> QED BY <1>1, <2>1
<1> QED BY <1>2, <1>3, <1>4, <1>5, <1>6, <1>7 DEF ClientStep

\* The other steps: a new process has only the store, and after OnStop nothing
\* is promised.
LEMMA SwitchOtherStep ==
    ASSUME TypeInv, PhaseInv, SwitchInv,
           \/ \E sa \in DepSaIds : OnAddSystemAbility(sa)
           \/ \E s \in Subscribers : Subscription(s)
           \/ StopStep \/ Restart \/ UNCHANGED vars
    PROVE  SwitchInv'
PROOF
<1> USE DEF flush, staged, manager, stores, writers, subs, acks, flags, bounds,
            SwitchInv, LatestSwitch, Staging
<1>1. ASSUME NEW sa \in DepSaIds, OnAddSystemAbility(sa)
      PROVE  SwitchInv'
  BY <1>1 DEF OnAddSystemAbility, LastDep, PhaseInv
<1>2. ASSUME NEW s \in Subscribers, Subscription(s)
      PROVE  SwitchInv'
  BY <1>2 DEF Subscription, SubscribeDeviceProfileInited, SubscribeStore,
              UnSubscribeDeviceProfileInited
<1>3. CASE StopStep
  BY <1>3 DEF StopStep, OnStop, UnInit, UnInitStore, UnInitTempCache,
              ClearProfileCache
<1>4. CASE Restart
  <2>1. \A c \in Clients : NoSwitches[SwitchOf(c)] = None
    BY Places DEF NoSwitches
  <2> QED BY <1>4, <2>1 DEF Restart
<1>5. CASE UNCHANGED vars
  BY <1>5 DEF vars
<1> QED BY <1>1, <1>2, <1>3, <1>4, <1>5

\* What a client was told about its switch is in the store while the service
\* serves, if no write failed, whatever profiles its batch carried besides.
THEOREM AcknowledgedSwitches == Spec => []SwitchesFlushed
PROOF
<1>1. ASSUME Init PROVE SwitchInv
  <2>1. \A c \in Clients : NoSwitches[SwitchOf(c)] = None
    BY Places DEF NoSwitches
  <2> QED BY <1>1, <2>1 DEF Init, SwitchInv, LatestSwitch, Staging
<1>2. TypeInv /\ PhaseInv /\ FlushInv /\ SwitchInv /\ [Next]_vars => SwitchInv'
  BY SwitchBootStep, SwitchWriterStep, SwitchOtherStep DEF Next
<1>3. PhaseInv /\ SwitchInv => SwitchesFlushed
  BY DEF PhaseInv, SwitchInv, SwitchesFlushed, Serving, LatestSwitch, Staging
<1> QED BY <1>1, <1>2, <1>3, LifeTypeInvariant, PostInitInvariant, FlushInvariant,
           PTL DEF Spec

-----------------------------------------------------------------------------
(* OnDpInited *)

\* How often a subscriber has been told, by where it and PostInit are.
ToldOK(s) ==
    /\ boot \notin Ended => told[s] = 0 /\ s \notin window
    /\ boot = "notify" /\ s \notin window => sub[s] # "store" /\ told[s] = 0
    /\ boot = "done" /\ s \notin window =>
          /\ sub[s] = "new" => told[s] = 0
          /\ sub[s] \in {"store", "in"} => told[s] = 1
          /\ sub[s] \in {"refused", "out"} => told[s] <= 1
SubsInv ==
    /\ \A s \in Subscribers : s \in callbacks <=> sub[s] = "in"
    /\ stop = "run" => \A s \in Subscribers : ToldOK(s)

\* Every step keeps the account of who was told.
LEMMA SubsStep ==
    ASSUME TypeInv, PhaseInv, SubsInv, [Next]_vars
    PROVE  SubsInv'
PROOF
<1> USE DEF Ended
<1>1. CASE BootStep
  <2>1. CASE SetInited
    BY <2>1 DEF SetInited, SubsInv, ToldOK, TypeInv, TypeOK, flags
  <2>2. CASE NotifyDeviceProfileInited
    BY <2>2 DEF NotifyDeviceProfileInited, SubsInv, ToldOK, TypeInv, TypeOK, flags
  <2>3. CASE ~SetInited /\ ~NotifyDeviceProfileInited
    <3>1. /\ boot \notin Ended /\ boot' \notin Ended
          /\ UNCHANGED <<subs, stop>>
      BY <1>1, <2>3 DEF BootStep, PostInit, PostInitCollect, PostInitNext,
         SaveSwitchProfilesFromTempCache, PutSwitchBatch, CopyDynamicProfiles,
         SavePutTempCache, PutTempBatch, ResetFirst, ClearPutTempCache,
         ClearDynamicProfileMap, flags
    <3> QED BY <3>1 DEF SubsInv, ToldOK, subs
  <2> QED BY <2>1, <2>2, <2>3
<1>2. ASSUME NEW sa \in DepSaIds, OnAddSystemAbility(sa)
      PROVE  SubsInv'
  BY <1>2 DEF OnAddSystemAbility, LastDep, PhaseInv, SubsInv, ToldOK, subs
<1>3. ASSUME NEW s \in Subscribers, Subscription(s)
      PROVE  SubsInv'
  <2> USE DEF TypeInv, TypeOK, PhaseInv, SubsInv, ToldOK, flush, flags
  <2>1. CASE SubscribeDeviceProfileInited(s)
    BY <2>1 DEF SubscribeDeviceProfileInited, ToldAtOnce
  <2>2. CASE SubscribeStore(s)
    BY <2>2 DEF SubscribeStore
  <2>3. CASE UnSubscribeDeviceProfileInited(s)
    BY <2>3 DEF UnSubscribeDeviceProfileInited
  <2> QED BY <1>3, <2>1, <2>2, <2>3 DEF Subscription
<1>4. CASE \/ \E c \in Clients, b \in Batches, v \in Values :
                 PutProfiles(c, b, v)
           \/ \E c \in Clients : ClientStep(c)
           \/ AccountCommonEventCallback
           \/ \E t \in Writers : ManagerStep(t)
           \/ UNCHANGED vars
  <2>1. UNCHANGED <<boot, flags>>
    BY <1>4, PhaseFrame
  <2>2. UNCHANGED subs
    BY <1>4 DEF PutProfiles, ClientStep, AddProfilesToCache, PutToManagers,
       PutSwitch, AccountCommonEventCallback, ManagerStep, PutCheckFirst,
       AddToPutTempCache, PutStore, vars
  <2> QED BY <2>1, <2>2 DEF SubsInv, ToldOK, subs, flags
<1>5. CASE StopStep
  <2>1. stop' # "run" /\ UNCHANGED subs
    BY <1>5 DEF StopStep, OnStop, UnInit, UnInitStore, UnInitTempCache,
                ClearProfileCache
  <2> QED BY <2>1 DEF SubsInv, subs
<1>6. CASE Restart
  BY <1>6 DEF Restart, SubsInv, ToldOK
<1> QED BY <1>1, <1>2, <1>3, <1>4, <1>5, <1>6 DEF Next

\* Nobody is told before the end of PostInit, and after it every subscriber in
\* the map was told once.
THEOREM SubscriberInvariant == Spec => []SubsInv
PROOF
<1>1. Init => SubsInv
  BY DEF Init, SubsInv, ToldOK, Ended
<1>2. TypeInv /\ PhaseInv /\ SubsInv /\ [Next]_vars => SubsInv'
  BY SubsStep
<1> QED BY <1>1, <1>2, LifeTypeInvariant, PostInitInvariant, PTL DEF Spec

\* Once PostInit is done a subscriber in the map has heard OnDpInited exactly
\* once, if its call did not meet the end of PostInit.
THEOREM EachToldOnce == Spec => []ToldOnce
PROOF
<1>1. PhaseInv /\ SubsInv => ToldOnce
  BY DEF PhaseInv, SubsInv, ToldOnce, ToldOK, Serving, Ended
<1> QED BY <1>1, PostInitInvariant, SubscriberInvariant, PTL

-----------------------------------------------------------------------------
(* What is kept of a layout, and vectors joined: induction on their length. *)

\* A set that has zero, and the successor of each of its numbers, has every natural number.
LEMMA NatInduct ==
    ASSUME NEW S, 0 \in S, \A n \in Nat : n \in S => n + 1 \in S
    PROVE  \A n \in Nat : n \in S
PROOF
<1> DEFINE B == Nat \ S
<1>1. SUFFICES ASSUME B # {} PROVE FALSE
  OBVIOUS
<1>2. PICK m \in B : \A b \in B : ~ (<<b, m>> \in OpToRel(<, Nat))
  BY <1>1, NatLessThanWellFounded, WFMin
<1>3. m - 1 \in Nat /\ m - 1 < m
  OBVIOUS
<1>4. m - 1 \in B
  BY <1>3
<1>5. <<m - 1, m>> \in OpToRel(<, Nat)
  BY <1>3 DEF OpToRel
<1> QED
  BY <1>2, <1>4, <1>5

\* Kept is built item by item.
Keeps(f, L, X, m) ==
    /\ f[0] = <<>>
    /\ \A i \in 1 .. m : f[i] = IF i \in X THEN f[i - 1] ELSE Append(f[i - 1], L[i])
LEMMA KeptBuilt ==
    ASSUME NEW S, NEW L \in Seq(S), NEW X
    PROVE  \E f \in [0 .. Len(L) -> Seq(S)] : Keeps(f, L, X, Len(L)) /\ Kept(L, X) = f[Len(L)]
PROOF
<1> DEFINE n == Len(L)
           P == {m \in Nat : m <= n => \E f \in [0 .. m -> Seq(S)] : Keeps(f, L, X, m)}
<1>0. n \in Nat /\ \A i \in 1 .. n : L[i] \in S
  OBVIOUS
<1>1. 0 \in P
  <2>1. [i \in 0 .. 0 |-> <<>>] \in [0 .. 0 -> Seq(S)]
    OBVIOUS
  <2>2. Keeps([i \in 0 .. 0 |-> <<>>], L, X, 0)
    BY DEF Keeps
  <2> QED
    BY <2>1, <2>2
<1>2. ASSUME NEW m \in Nat, m \in P PROVE m + 1 \in P
  <2> SUFFICES ASSUME m + 1 <= n PROVE \E f \in [0 .. (m + 1) -> Seq(S)] : Keeps(f, L, X, m + 1)
    OBVIOUS
  <2>1. PICK f \in [0 .. m -> Seq(S)] : Keeps(f, L, X, m)
    BY <1>2, <1>0
  <2> DEFINE v == IF m + 1 \in X THEN f[m] ELSE Append(f[m], L[m + 1])
             g == [i \in 0 .. (m + 1) |-> IF i = m + 1 THEN v ELSE f[i]]
  <2>2. v \in Seq(S)
    BY <1>0, <2>1
  <2> HIDE DEF v
  <2>3. g \in [0 .. (m + 1) -> Seq(S)]
    BY <2>1, <2>2
  <2>4. g[m + 1] = v /\ \A i \in 0 .. m : g[i] = f[i]
    OBVIOUS
  <2>5. Keeps(g, L, X, m + 1)
    <3>1. ASSUME NEW i \in 1 .. (m + 1) PROVE g[i] = IF i \in X THEN g[i - 1] ELSE Append(g[i - 1], L[i])
      <4>1. CASE i = m + 1
        BY <2>4, <4>1 DEF v
      <4>2. CASE i # m + 1
        <5>1. i \in 1 .. m /\ i - 1 \in 0 .. m
          BY <4>2
        <5> QED
          BY <2>1, <2>4, <5>1 DEF Keeps
      <4> QED
        BY <4>1, <4>2
    <3>2. g[0] = <<>>
      BY <2>1, <2>4 DEF Keeps
    <3> QED
      BY <3>1, <3>2 DEF Keeps
  <2> QED
    BY <2>3, <2>5
<1>3. n \in P
  <2> HIDE DEF P
  <2> QED
    BY <1>0, <1>1, <1>2, NatInduct
<1>4. PICK f \in [0 .. n -> Seq(S)] : Keeps(f, L, X, n)
  BY <1>0, <1>3
<1> DEFINE Eq(h) == h = [i \in 0 .. Len(L) |->
               IF i = 0 THEN <<>> ELSE IF i \in X THEN h[i - 1] ELSE Append(h[i - 1], L[i])]
           k == CHOOSE h : Eq(h)
<1>5. Eq(f)
  <2>1. ASSUME NEW i \in 0 .. n
        PROVE  f[i] = IF i = 0 THEN <<>> ELSE IF i \in X THEN f[i - 1] ELSE Append(f[i - 1], L[i])
    <3>1. CASE i = 0
      BY <1>4, <3>1 DEF Keeps
    <3>2. CASE i # 0
      <4>1. i \in 1 .. n
        BY <1>0, <3>2
      <4> QED
        BY <1>4, <3>2, <4>1 DEF Keeps
    <3> QED
      BY <3>1, <3>2
  <2> QED
    BY <1>4, <2>1
<1>6. Eq(k)
  <2> HIDE DEF Eq
  <2> QED
    BY <1>5
<1>7. Kept(L, X) = k[n]
  BY DEF Kept
<1> HIDE DEF k
<1>8. \A i \in 0 .. n : k[i] = IF i = 0 THEN <<>> ELSE IF i \in X THEN k[i - 1] ELSE Append(k[i - 1], L[i])
  BY <1>6
<1>9. k[0] = <<>> /\ \A i \in 1 .. n : k[i] = IF i \in X THEN k[i - 1] ELSE Append(k[i - 1], L[i])
  BY <1>8, <1>0
<1>10. DOMAIN k = 0 .. n /\ k = [i \in 0 .. n |-> k[i]]
  BY <1>6
<1>11. \A i \in Nat : i \in {j \in Nat : j <= n => k[j] \in Seq(S)}
  <2> DEFINE Q == {j \in Nat : j <= n => k[j] \in Seq(S)}
  <2>1. 0 \in Q
    <3>1. <<>> \in Seq(S)
      OBVIOUS
    <3> QED
      BY <1>9, <3>1
  <2>2. ASSUME NEW j \in Nat, j \in Q PROVE j + 1 \in Q
    <3> SUFFICES ASSUME j + 1 <= n PROVE k[j + 1] \in Seq(S)
      OBVIOUS
    <3>1. k[j] \in Seq(S) /\ j + 1 \in 1 .. n /\ (j + 1) - 1 = j /\ L[j + 1] \in S
      BY <2>2, <1>0
    <3>2. k[j + 1] = IF j + 1 \in X THEN k[j] ELSE Append(k[j], L[j + 1])
      BY <1>9, <3>1
    <3> QED
      BY <3>1, <3>2
  <2> HIDE DEF Q
  <2>3. \A j \in Nat : j \in Q
    BY <2>1, <2>2, NatInduct
  <2> QED
    BY <2>3 DEF Q
<1>12. k \in [0 .. n -> Seq(S)]
  BY <1>10, <1>11
<1> QED
  BY <1>7, <1>9, <1>12 DEF Keeps

\* What is not skipped at the front is kept as it is, if the rest is skipped.
LEMMA KeptFront ==
    ASSUME NEW S, NEW L \in Seq(S), NEW X, NEW p \in 0 .. Len(L),
           \A i \in 1 .. Len(L) : i \in X <=> i > p
    PROVE  /\ Kept(L, X) \in Seq(S) /\ Len(Kept(L, X)) = p
           /\ \A i \in 1 .. p : Kept(L, X)[i] = L[i]
PROOF
<1> DEFINE n == Len(L)
<1>0. n \in Nat /\ \A i \in 1 .. n : L[i] \in S
  OBVIOUS
<1>1. PICK f \in [0 .. n -> Seq(S)] : Keeps(f, L, X, n) /\ Kept(L, X) = f[n]
  BY KeptBuilt
<1> DEFINE P == {i \in Nat : i <= p => Len(f[i]) = i /\ \A j \in 1 .. i : f[i][j] = L[j]}
<1>2. 0 \in P
  <2>1. Len(f[0]) = 0
    BY <1>1 DEF Keeps
  <2> QED
    BY <2>1
<1>3. ASSUME NEW i \in Nat, i \in P PROVE i + 1 \in P
  <2> SUFFICES ASSUME i + 1 <= p
               PROVE  Len(f[i + 1]) = i + 1 /\ \A j \in 1 .. (i + 1) : f[i + 1][j] = L[j]
    OBVIOUS
  <2>1. i + 1 \in 1 .. n /\ i + 1 \notin X /\ (i + 1) - 1 = i /\ i \in 0 .. n
    BY <1>0
  <2>2. f[i + 1] = Append(f[i], L[i + 1])
    BY <1>1, <2>1 DEF Keeps
  <2>3. f[i] \in Seq(S) /\ Len(f[i]) = i /\ (\A j \in 1 .. i : f[i][j] = L[j]) /\ L[i + 1] \in S
    BY <1>0, <1>1, <1>3, <2>1
  <2> QED
    BY <2>2, <2>3
<1>4. p \in P
  <2> HIDE DEF P
  <2> QED
    BY <1>0, <1>2, <1>3, NatInduct
<1> DEFINE Q == {i \in Nat : p <= i /\ i <= n => f[i] = f[p]}
<1>5. 0 \in Q
  OBVIOUS
<1>6. ASSUME NEW i \in Nat, i \in Q PROVE i + 1 \in Q
  <2>1. SUFFICES ASSUME p <= i, i + 1 <= n PROVE f[i + 1] = f[p]
    OBVIOUS
  <2>2. i + 1 \in 1 .. n /\ i + 1 \in X /\ (i + 1) - 1 = i
    BY <1>0, <2>1
  <2>3. f[i + 1] = f[i]
    BY <1>1, <2>2 DEF Keeps
  <2> QED
    BY <1>0, <1>6, <2>1, <2>3
<1>7. n \in Q
  <2> HIDE DEF Q
  <2> QED
    BY <1>0, <1>5, <1>6, NatInduct
<1>8. f[n] = f[p]
  BY <1>0, <1>7
<1> QED
  BY <1>0, <1>1, <1>4, <1>8

\* What is kept is an item that is not skipped.
LEMMA KeptOf ==
    ASSUME NEW S, NEW L \in Seq(S), NEW X
    PROVE  /\ Kept(L, X) \in Seq(S)
           /\ \A k \in DOMAIN Kept(L, X) : \E i \in DOMAIN L \ X : Kept(L, X)[k] = L[i]
PROOF
<1> DEFINE n == Len(L)
<1>0. n \in Nat /\ DOMAIN L = 1 .. n /\ \A i \in 1 .. n : L[i] \in S
  OBVIOUS
<1>1. PICK f \in [0 .. n -> Seq(S)] : Keeps(f, L, X, n) /\ Kept(L, X) = f[n]
  BY KeptBuilt
<1> DEFINE P == {m \in Nat : m <= n => \A k \in 1 .. Len(f[m]) : \E i \in DOMAIN L \ X : f[m][k] = L[i]}
<1>2. 0 \in P
  <2>1. Len(f[0]) = 0
    BY <1>1 DEF Keeps
  <2> QED
    BY <2>1
<1>3. ASSUME NEW m \in Nat, m \in P PROVE m + 1 \in P
  <2> SUFFICES ASSUME m + 1 <= n, NEW k \in 1 .. Len(f[m + 1])
               PROVE  \E i \in DOMAIN L \ X : f[m + 1][k] = L[i]
    OBVIOUS
  <2>1. m + 1 \in 1 .. n /\ (m + 1) - 1 = m /\ m \in 0 .. n
    BY <1>0
  <2>2. f[m] \in Seq(S) /\ L[m + 1] \in S /\ Len(f[m]) \in Nat
    BY <1>0, <1>1, <2>1
  <2>3. CASE m + 1 \in X
    <3>1. f[m + 1] = f[m]
      BY <1>1, <2>1, <2>3 DEF Keeps
    <3> QED
      BY <1>0, <1>3, <3>1
  <2>4. CASE m + 1 \notin X
    <3>1. f[m + 1] = Append(f[m], L[m + 1])
      BY <1>1, <2>1, <2>4 DEF Keeps
    <3>2. CASE k = Len(f[m]) + 1
      <4>1. f[m + 1][k] = L[m + 1]
        BY <2>2, <3>1, <3>2
      <4> QED
        BY <1>0, <2>1, <2>4, <4>1
    <3>3. CASE k # Len(f[m]) + 1
      <4>1. k \in 1 .. Len(f[m]) /\ f[m + 1][k] = f[m][k]
        BY <2>2, <3>1, <3>3
      <4> QED
        BY <1>0, <1>3, <4>1
    <3> QED
      BY <3>2, <3>3
  <2> QED
    BY <2>3, <2>4
<1>4. n \in P
  <2> HIDE DEF P
  <2> QED
    BY <1>0, <1>2, <1>3, NatInduct
<1>5. f[n] \in Seq(S)
  BY <1>0, <1>1
<1> QED
  BY <1>0, <1>1, <1>4, <1>5

\* An item before the others.
LEMMA KeptAfter ==
    ASSUME NEW S, NEW M \in Seq(S), NEW r \in S, NEW X, NEW Y,
           1 \notin X, \A i \in 1 .. Len(M) : i + 1 \in X <=> i \in Y
    PROVE  Kept(<<r>> \o M, X) = <<r>> \o Kept(M, Y)
PROOF
<1> DEFINE n == Len(M)
           L == <<r>> \o M
<1>0. /\ n \in Nat /\ L \in Seq(S) /\ Len(L) = n + 1 /\ L[1] = r
      /\ \A i \in 1 .. n : L[i + 1] = M[i] /\ M[i] \in S
  OBVIOUS
<1> HIDE DEF L
<1>11. PICK h \in [0 .. Len(L) -> Seq(S)] : Keeps(h, L, X, Len(L)) /\ Kept(L, X) = h[Len(L)]
  BY <1>0, KeptBuilt
<1>1. PICK f \in [0 .. (n + 1) -> Seq(S)] : Keeps(f, L, X, n + 1) /\ Kept(L, X) = f[n + 1]
  BY <1>0, <1>11, Zenon
<1>2. PICK g \in [0 .. n -> Seq(S)] : Keeps(g, M, Y, n) /\ Kept(M, Y) = g[n]
  BY KeptBuilt
<1> DEFINE P == {m \in Nat : m <= n => f[m + 1] = <<r>> \o g[m]}
<1>3. 0 \in P
  <2>1. f[0] = <<>> /\ g[0] = <<>>
    BY <1>1, <1>2 DEF Keeps
  <2>2. 1 \in 1 .. (n + 1) /\ 1 - 1 = 0
    BY <1>0
  <2>3. f[1] = Append(f[0], L[1])
    BY <1>1, <2>2 DEF Keeps
  <2>4. f[1] = <<r>> \o g[0]
    BY <1>0, <2>1, <2>3
  <2> QED
    BY <2>4
<1>4. ASSUME NEW m \in Nat, m \in P PROVE m + 1 \in P
  <2> SUFFICES ASSUME m + 1 <= n PROVE f[(m + 1) + 1] = <<r>> \o g[m + 1]
    OBVIOUS
  <2> DEFINE k == m + 1
  <2>1. k \in 1 .. n /\ k - 1 = m /\ k + 1 \in 1 .. (n + 1) /\ (k + 1) - 1 = k /\ m \in 0 .. n
    BY <1>0
  <2>7. g[m] \in Seq(S)
    BY <1>2, <2>1
  <2>8. f[k] = <<r>> \o g[m]
    BY <1>4, <2>1
  <2>9. L[k + 1] = M[k] /\ M[k] \in S
    BY <1>0, <2>1
  <2>2. g[m] \in Seq(S) /\ f[k] = <<r>> \o g[m] /\ L[k + 1] = M[k] /\ M[k] \in S
    BY <2>7, <2>8, <2>9
  <2>3. k + 1 \in X <=> k \in Y
    BY <2>1
  <2>6. /\ f[k + 1] = IF k + 1 \in X THEN f[k] ELSE Append(f[k], L[k + 1])
        /\ g[k] = IF k \in Y THEN g[m] ELSE Append(g[m], M[k])
    <3> HIDE DEF k
    <3> QED
      BY <1>1, <1>2, <2>1 DEF Keeps
  <2> HIDE DEF k
  <2>4. CASE k \in Y
    <3>1. f[k + 1] = f[k] /\ g[k] = g[m]
      BY <2>3, <2>4, <2>6
    <3> QED
      BY <2>2, <3>1 DEF k
  <2>5. CASE k \notin Y
    <3>1. f[k + 1] = Append(f[k], M[k]) /\ g[k] = Append(g[m], M[k])
      BY <2>2, <2>3, <2>5, <2>6
    <3>2. Append(<<r>> \o g[m], M[k]) = <<r>> \o Append(g[m], M[k])
      BY <2>2
    <3> QED
      BY <2>2, <3>1, <3>2 DEF k
  <2> QED
    BY <2>4, <2>5
<1>5. n \in P
  <2> HIDE DEF P
  <2> QED
    BY <1>0, <1>3, <1>4, NatInduct
<1>6. f[n + 1] = <<r>> \o g[n]
  BY <1>0, <1>5
<1>7. Kept(L, X) = <<r>> \o Kept(M, Y)
  BY <1>1, <1>2, <1>6
<1> QED
  BY <1>7 DEF L

\* FlattenSeq joins one sequence after the other.
Joins(f, s, m) == f[1] = s[1] /\ \A i \in 2 .. m : f[i] = f[i - 1] \o s[i]
LEMMA FlattenBuilt ==
    ASSUME NEW S, NEW n \in Nat \ {0}, NEW s \in [1 .. n -> Seq(S)]
    PROVE  \E f \in [1 .. n -> Seq(S)] :
               Joins(f, s, n) /\ FlattenSeq(s) = f[n]
PROOF
<1> DEFINE P == {m \in Nat : 1 <= m /\ m <= n => \E f \in [1 .. m -> Seq(S)] : Joins(f, s, m)}
<1>1. 0 \in P
  OBVIOUS
<1>2. ASSUME NEW m \in Nat, m \in P PROVE m + 1 \in P
  <2> SUFFICES ASSUME m + 1 <= n PROVE \E f \in [1 .. (m + 1) -> Seq(S)] : Joins(f, s, m + 1)
    OBVIOUS
  <2>1. CASE m = 0
    <3> DEFINE g == [i \in 1 .. 1 |-> s[1]]
    <3>1. s[1] \in Seq(S) /\ 2 .. 1 = {} /\ g[1] = s[1]
      OBVIOUS
    <3>2. g \in [1 .. 1 -> Seq(S)]
      BY <3>1
    <3> HIDE DEF g
    <3>3. Joins(g, s, 1)
      BY <3>1 DEF Joins
    <3>4. m + 1 = 1
      BY <2>1
    <3> QED
      BY <3>2, <3>3, <3>4
  <2>2. CASE m # 0
    <3>1. PICK f \in [1 .. m -> Seq(S)] : Joins(f, s, m)
      BY <1>2, <2>2
    <3> DEFINE v == f[m] \o s[m + 1]
               g == [i \in 1 .. (m + 1) |-> IF i = m + 1 THEN v ELSE f[i]]
    <3>2. v \in Seq(S)
      BY <2>2, <3>1
    <3> HIDE DEF v
    <3>3. g \in [1 .. (m + 1) -> Seq(S)] /\ g[m + 1] = v /\ \A i \in 1 .. m : g[i] = f[i]
      BY <3>1, <3>2
    <3> HIDE DEF g
    <3>4. ASSUME NEW i \in 2 .. (m + 1) PROVE g[i] = g[i - 1] \o s[i]
      <4>1. CASE i = m + 1
        <5>1. g[i] = v /\ g[i - 1] = f[m]
          BY <2>2, <3>3, <4>1
        <5> QED
          BY <4>1, <5>1 DEF v
      <4>2. CASE i # m + 1
        <5>1. i \in 2 .. m /\ i \in 1 .. m /\ i - 1 \in 1 .. m
          BY <4>2
        <5> QED
          BY <3>1, <3>3, <5>1 DEF Joins
      <4> QED
        BY <4>1, <4>2
    <3>5. g[1] = s[1]
      BY <2>2, <3>1, <3>3 DEF Joins
    <3>6. Joins(g, s, m + 1)
      BY <3>4, <3>5 DEF Joins
    <3> QED
      BY <3>3, <3>6
  <2> QED
    BY <2>1, <2>2
<1>3. n \in P
  <2> HIDE DEF P
  <2> QED
    BY <1>1, <1>2, NatInduct
<1>4. PICK f \in [1 .. n -> Seq(S)] : Joins(f, s, n)
  BY <1>3
<1>5. Len(s) = n
  OBVIOUS
<1> DEFINE Eq(h) == h = [i \in 1 .. Len(s) |-> IF i = 1 THEN s[i] ELSE h[i - 1] \o s[i]]
           k == CHOOSE h : Eq(h)
<1>6. Eq(f)
  <2>1. ASSUME NEW i \in 1 .. n PROVE f[i] = IF i = 1 THEN s[i] ELSE f[i - 1] \o s[i]
    <3>1. CASE i = 1
      BY <1>4, <3>1 DEF Joins
    <3>2. CASE i # 1
      <4>1. i \in 2 .. n
        BY <3>2
      <4> QED
        BY <1>4, <3>2, <4>1 DEF Joins
    <3> QED
      BY <3>1, <3>2
  <2> QED
    BY <1>4, <1>5, <2>1
<1>7. Eq(k)
  <2> HIDE DEF Eq
  <2> QED
    BY <1>6
<1>8. FlattenSeq(s) = k[n]
  BY <1>5 DEF FlattenSeq
<1> HIDE DEF k
<1>9. \A i \in 1 .. n : k[i] = IF i = 1 THEN s[i] ELSE k[i - 1] \o s[i]
  BY <1>5, <1>7
<1> DEFINE Q == {i \in Nat : 1 <= i /\ i <= n => k[i] = f[i]}
<1>10. 0 \in Q
  OBVIOUS
<1>11. ASSUME NEW i \in Nat, i \in Q PROVE i + 1 \in Q
  <2> SUFFICES ASSUME i + 1 <= n PROVE k[i + 1] = f[i + 1]
    OBVIOUS
  <2>1. CASE i = 0
    BY <1>4, <1>9, <2>1 DEF Joins
  <2>2. CASE i # 0
    <3>1. i + 1 \in 2 .. n /\ i + 1 \in 1 .. n /\ (i + 1) - 1 = i /\ i + 1 # 1 /\ k[i] = f[i]
      BY <1>11, <2>2
    <3>2. f[i + 1] = f[i] \o s[i + 1]
      BY <1>4, <3>1 DEF Joins
    <3>3. k[i + 1] = k[i] \o s[i + 1]
      BY <1>9, <3>1
    <3> QED
      BY <3>1, <3>2, <3>3
  <2> QED
    BY <2>1, <2>2
<1>12. n \in Q
  <2> HIDE DEF Q
  <2> QED
    BY <1>10, <1>11, NatInduct
<1>13. k[n] = f[n]
  BY <1>12
<1> QED
  BY <1>4, <1>8, <1>13

-----------------------------------------------------------------------------
(* Layouts: what writers and readers are built from.                       *)

-----------------------------------------------------------------------------
\* Layouts.

IsSeq(s) == \E S : s \in Seq(S)
IsItem(x) == x = [kind |-> x.kind, at |-> x.at, part |-> x.part] /\ IsSeq(x.at) /\ IsSeq(x.part)
IsLayout(w) == IsSeq(w) /\ \A i \in 1 .. Len(w) : IsItem(w[i])

\* Two layouts without a refusal that put the same fields at the same places, as values a
\* parcel does not tell apart.
Like(w, r) ==
    /\ IsLayout(w) /\ IsLayout(r) /\ Len(w) = Len(r)
    /\ \A i \in 1 .. Len(w) :
           /\ w[i].at = r[i].at /\ Alike(w[i].kind, r[i].kind)
           /\ w[i].kind # "Refuse" /\ r[i].kind # "Refuse"
Plain(w) == Like(w, w)
\* One that is written whatever the parcel holds.
Flat(w) == IsLayout(w) /\ \A i \in 1 .. Len(w) : w[i].kind \notin {"Raw", "Refuse"}

\* The length and the domain of a sequence.
LEMMA SeqFacts ==
    ASSUME NEW s, IsSeq(s)
    PROVE  Len(s) \in Nat /\ DOMAIN s = 1 .. Len(s)
PROOF
  BY DEF IsSeq

\* A function over 1 .. n is a sequence of length n.
LEMMA SeqOfFunction ==
    ASSUME NEW f, NEW n \in Nat, f = [i \in 1 .. n |-> f[i]]
    PROVE  IsSeq(f) /\ Len(f) = n
PROOF
<1>1. f \in [1 .. n -> {f[i] : i \in 1 .. n}]
  OBVIOUS
<1> DEFINE S == {f[i] : i \in 1 .. n}
<1> HIDE DEF S
<1>2. f \in Seq(S) /\ Len(f) = n
  BY <1>1 DEF S
<1> QED
  BY <1>2 DEF IsSeq

\* The length and the items of a concatenation.
LEMMA SeqConcat ==
    ASSUME NEW a, NEW b, IsSeq(a), IsSeq(b)
    PROVE  /\ IsSeq(a \o b) /\ Len(a \o b) = Len(a) + Len(b)
           /\ \A i \in 1 .. Len(a) : (a \o b)[i] = a[i]
           /\ \A i \in 1 .. Len(b) : (a \o b)[Len(a) + i] = b[i]
           /\ \A i \in 1 .. Len(a \o b) : i \in 1 .. Len(a) \/ \E j \in 1 .. Len(b) : i = Len(a) + j
PROOF
<1>1. PICK S, T : a \in Seq(S) /\ b \in Seq(T)
  BY DEF IsSeq
<1> DEFINE U == S \cup T
<1>2. a \in Seq(U) /\ b \in Seq(U)
  BY <1>1
<1> HIDE DEF U
<1>3. /\ a \o b \in Seq(U) /\ Len(a \o b) = Len(a) + Len(b)
      /\ \A i \in 1 .. Len(a) : (a \o b)[i] = a[i]
      /\ \A i \in 1 .. Len(b) : (a \o b)[Len(a) + i] = b[i]
  BY <1>2
<1>4. ASSUME NEW i \in 1 .. (Len(a) + Len(b)), i \notin 1 .. Len(a) PROVE \E j \in 1 .. Len(b) : i = Len(a) + j
  <2>1. i - Len(a) \in 1 .. Len(b) /\ i = Len(a) + (i - Len(a))
    BY <1>2, <1>4
  <2> QED
    BY <2>1
<1> QED
  BY <1>3, <1>4 DEF IsSeq

\* A path with one more prefix is a path.
LEMMA SeqPrepend ==
    ASSUME NEW p, NEW s, IsSeq(s)
    PROVE  IsSeq(<<p>> \o s)
PROOF
<1>1. <<p>> \in Seq({p})
  OBVIOUS
<1> QED
  BY <1>1, SeqConcat DEF IsSeq

\* The fields of one kind.
LEMMA FieldsLayout ==
    ASSUME NEW kind, NEW names, Len(names) \in Nat, DOMAIN names = 1 .. Len(names)
    PROVE  /\ IsLayout(Fields(kind, names)) /\ Len(Fields(kind, names)) = Len(names)
           /\ \A i \in 1 .. Len(names) :
                  Fields(kind, names)[i] = [kind |-> kind, at |-> <<names[i]>>, part |-> <<>>]
PROOF
<1> DEFINE f == Fields(kind, names)
           n == Len(names)
<1>1. f = [i \in 1 .. n |-> [kind |-> kind, at |-> <<names[i]>>, part |-> <<>>]]
  BY DEF Fields
<1>2. \A i \in 1 .. n : f[i] = [kind |-> kind, at |-> <<names[i]>>, part |-> <<>>]
  BY <1>1
<1>3. f = [i \in 1 .. n |-> f[i]]
  BY <1>1
<1> HIDE DEF f
<1>4. IsSeq(f) /\ Len(f) = n
  BY <1>3, SeqOfFunction
<1>5. ASSUME NEW i \in 1 .. n PROVE IsItem(f[i])
  <2>1. <<names[i]>> \in Seq({names[i]}) /\ <<>> \in Seq({names[i]})
    OBVIOUS
  <2>2. /\ f[i].at = <<names[i]>> /\ f[i].part = <<>>
        /\ f[i] = [kind |-> f[i].kind, at |-> f[i].at, part |-> f[i].part]
    <3> DEFINE x == [kind |-> kind, at |-> <<names[i]>>, part |-> <<>>]
    <3>1. f[i] = x
      BY <1>2
    <3>2. x = [kind |-> x.kind, at |-> x.at, part |-> x.part] /\ x.at = <<names[i]>> /\ x.part = <<>>
      OBVIOUS
    <3> HIDE DEF x
    <3> QED
      BY <3>1, <3>2
  <2>3. IsSeq(<<names[i]>>) /\ IsSeq(<<>>)
    BY <2>1 DEF IsSeq
  <2> QED
    BY <2>2, <2>3 DEF IsItem
<1>6. IsLayout(f)
  BY <1>4, <1>5 DEF IsLayout
<1> QED
  BY <1>2, <1>4, <1>6 DEF f

\* The fields of one kind are a plain layout; an int32 and a uint32 are alike.
LEMMA FieldsPlain ==
    ASSUME NEW names, Len(names) \in Nat, DOMAIN names = 1 .. Len(names)
    PROVE  /\ Plain(Int64(names)) /\ Plain(Int32(names)) /\ Plain(Uint32(names)) /\ Plain(Word(names))
           /\ Plain(String(names)) /\ Plain(Fields("Raw", names)) /\ Plain(Fields("Remote", names))
           /\ Like(Int32(names), Uint32(names))
PROOF
<1>1. ASSUME NEW k1, NEW k2, Alike(k1, k2), k1 # "Refuse", k2 # "Refuse"
      PROVE  Like(Fields(k1, names), Fields(k2, names))
  <2> DEFINE w == Fields(k1, names)
             r == Fields(k2, names)
  <2>1. IsLayout(w) /\ IsLayout(r) /\ Len(w) = Len(names) /\ Len(r) = Len(names)
    BY FieldsLayout
  <2>2. ASSUME NEW i \in 1 .. Len(names)
        PROVE  /\ w[i].at = r[i].at /\ w[i].kind = k1 /\ r[i].kind = k2
    <3>1. w[i] = [kind |-> k1, at |-> <<names[i]>>, part |-> <<>>]
      BY FieldsLayout
    <3>2. r[i] = [kind |-> k2, at |-> <<names[i]>>, part |-> <<>>]
      BY FieldsLayout
    <3> QED
      BY <3>1, <3>2
  <2> HIDE DEF w, r
  <2>3. Like(w, r)
    BY <1>1, <2>1, <2>2 DEF Like
  <2> QED
    BY <2>3 DEF w, r
<1>2. ASSUME NEW k, k # "Refuse" PROVE Plain(Fields(k, names))
  BY <1>1, <1>2 DEF Plain, Alike
<1>3. Like(Fields("Int32", names), Fields("Uint32", names))
  BY <1>1 DEF Alike
<1> QED
  BY <1>2, <1>3 DEF Int64, Int32, Uint32, Word, String

\* Fields other than raw blocks are written whatever the parcel holds.
LEMMA FieldsFlat ==
    ASSUME NEW names, Len(names) \in Nat, DOMAIN names = 1 .. Len(names)
    PROVE  /\ Flat(Int64(names)) /\ Flat(Int32(names)) /\ Flat(Uint32(names)) /\ Flat(Word(names))
           /\ Flat(String(names))
PROOF
<1>1. ASSUME NEW k, k \notin {"Raw", "Refuse"} PROVE Flat(Fields(k, names))
  <2> DEFINE w == Fields(k, names)
  <2>1. IsLayout(w) /\ Len(w) = Len(names)
    BY FieldsLayout
  <2>2. ASSUME NEW i \in 1 .. Len(names) PROVE w[i].kind = k
    <3>1. w[i] = [kind |-> k, at |-> <<names[i]>>, part |-> <<>>]
      BY FieldsLayout
    <3> QED
      BY <3>1
  <2> HIDE DEF w
  <2>3. Flat(w)
    BY <1>1, <2>1, <2>2 DEF Flat
  <2> QED
    BY <2>3 DEF w
<1> QED
  BY <1>1 DEF Int64, Int32, Uint32, Word, String

\* One after the other.
LEMMA ConcatLayout ==
    ASSUME NEW a, NEW b, IsLayout(a), IsLayout(b)
    PROVE  IsLayout(a \o b)
PROOF
<1> DEFINE w == a \o b
<1>1. IsSeq(w)
  BY SeqConcat DEF IsLayout
<1>2. ASSUME NEW i \in 1 .. Len(w) PROVE IsItem(w[i])
  <2>1. CASE i \in 1 .. Len(a)
    <3>1. w[i] = a[i]
      BY <2>1, SeqConcat DEF IsLayout
    <3> HIDE DEF w
    <3> QED
      BY <2>1, <3>1 DEF IsLayout
  <2>2. CASE \E j \in 1 .. Len(b) : i = Len(a) + j
    <3>1. PICK j \in 1 .. Len(b) : i = Len(a) + j
      BY <2>2
    <3>2. w[i] = b[j]
      BY <3>1, SeqConcat DEF IsLayout
    <3> HIDE DEF w
    <3> QED
      BY <3>2 DEF IsLayout
  <2> QED
    BY <2>1, <2>2, SeqConcat DEF IsLayout
<1> HIDE DEF w
<1>3. IsLayout(w)
  BY <1>1, <1>2 DEF IsLayout
<1> QED
  BY <1>3 DEF w

\* Layouts that are alike piece by piece are alike.
LEMMA ConcatLike ==
    ASSUME NEW a, NEW b, NEW c, NEW d, Like(a, c), Like(b, d)
    PROVE  Like(a \o b, c \o d)
PROOF
<1>1. /\ IsLayout(a) /\ IsLayout(b) /\ IsLayout(c) /\ IsLayout(d) /\ Len(a) = Len(c) /\ Len(b) = Len(d)
      /\ IsSeq(a) /\ IsSeq(b) /\ IsSeq(c) /\ IsSeq(d)
  BY DEF Like, IsLayout
<1> DEFINE w == a \o b
           r == c \o d
<1>2. IsLayout(w) /\ IsLayout(r) /\ Len(w) = Len(r)
  BY <1>1, ConcatLayout, SeqConcat
<1>3. ASSUME NEW i \in 1 .. Len(w)
      PROVE  /\ w[i].at = r[i].at /\ Alike(w[i].kind, r[i].kind)
             /\ w[i].kind # "Refuse" /\ r[i].kind # "Refuse"
  <2>1. CASE i \in 1 .. Len(a)
    <3>1. w[i] = a[i]
      BY <1>1, <2>1, SeqConcat
    <3>2. r[i] = c[i]
      BY <1>1, <2>1, SeqConcat
    <3> HIDE DEF w, r
    <3> QED
      BY <2>1, <3>1, <3>2 DEF Like
  <2>2. CASE \E j \in 1 .. Len(b) : i = Len(a) + j
    <3>1. PICK j \in 1 .. Len(b) : i = Len(a) + j
      BY <2>2
    <3>2. w[i] = b[j]
      BY <1>1, <3>1, SeqConcat
    <3>3. r[i] = d[j]
      BY <1>1, <3>1, SeqConcat
    <3> HIDE DEF w, r
    <3> QED
      BY <3>1, <3>2, <3>3 DEF Like
  <2> QED
    BY <1>1, <2>1, <2>2, SeqConcat
<1> HIDE DEF w, r
<1>4. Like(w, r)
  BY <1>2, <1>3 DEF Like
<1> QED
  BY <1>4 DEF w, r

\* Two plain layouts make a plain one.
LEMMA ConcatPlain ==
    ASSUME NEW a, NEW b, Plain(a), Plain(b)
    PROVE  Plain(a \o b)
PROOF
  BY ConcatLike DEF Plain

\* Two flat layouts make a flat one.
LEMMA ConcatFlat ==
    ASSUME NEW a, NEW b, Flat(a), Flat(b)
    PROVE  Flat(a \o b)
PROOF
<1>1. IsLayout(a) /\ IsLayout(b) /\ IsSeq(a) /\ IsSeq(b)
  BY DEF Flat, IsLayout
<1> DEFINE w == a \o b
<1>2. IsLayout(w)
  BY <1>1, ConcatLayout
<1>3. ASSUME NEW i \in 1 .. Len(w) PROVE w[i].kind \notin {"Raw", "Refuse"}
  <2>1. CASE i \in 1 .. Len(a)
    <3>1. w[i] = a[i]
      BY <1>1, <2>1, SeqConcat
    <3> HIDE DEF w
    <3> QED
      BY <2>1, <3>1 DEF Flat
  <2>2. CASE \E j \in 1 .. Len(b) : i = Len(a) + j
    <3>1. PICK j \in 1 .. Len(b) : i = Len(a) + j
      BY <2>2
    <3>2. w[i] = b[j]
      BY <1>1, <3>1, SeqConcat
    <3> HIDE DEF w
    <3> QED
      BY <3>1, <3>2 DEF Flat
  <2> QED
    BY <1>1, <2>1, <2>2, SeqConcat
<1> HIDE DEF w
<1>4. Flat(w)
  BY <1>2, <1>3 DEF Flat
<1> QED
  BY <1>4 DEF w

\* A layout inside another.
LEMMA ItemParts ==
    ASSUME NEW k, NEW a, NEW p, IsSeq(a), IsSeq(p), NEW z, z = [kind |-> k, at |-> a, part |-> p]
    PROVE  IsItem(z) /\ z.kind = k /\ z.at = a /\ z.part = p
PROOF
<1>1. z = [kind |-> z.kind, at |-> z.at, part |-> z.part] /\ z.kind = k /\ z.at = a /\ z.part = p
  OBVIOUS
<1> QED
  BY <1>1 DEF IsItem

\* A layout whose items are changed one by one is a layout.
LEMMA MapLayout ==
    ASSUME NEW w, IsLayout(w), NEW f, f = [i \in DOMAIN w |-> f[i]], \A i \in 1 .. Len(w) : IsItem(f[i])
    PROVE  IsLayout(f) /\ Len(f) = Len(w)
PROOF
<1>1. Len(w) \in Nat /\ DOMAIN w = 1 .. Len(w)
  BY SeqFacts DEF IsLayout
<1>2. IsSeq(f) /\ Len(f) = Len(w)
  BY <1>1, SeqOfFunction
<1> QED
  BY <1>2 DEF IsLayout

\* The fields of a nested object keep their kinds and get the prefix of the object.
LEMMA Inside ==
    ASSUME NEW w, IsLayout(w), NEW prefix
    PROVE  /\ IsLayout(Nested(prefix, w)) /\ Len(Nested(prefix, w)) = Len(w)
           /\ IsLayout(Ignored(prefix, w)) /\ Len(Ignored(prefix, w)) = Len(w)
           /\ \A i \in 1 .. Len(w) :
                  /\ Nested(prefix, w)[i].at = <<prefix>> \o w[i].at
                  /\ Nested(prefix, w)[i].kind = w[i].kind
                  /\ Nested(prefix, w)[i].part = Within(prefix, w[i].part)
                  /\ Ignored(prefix, w)[i].at = <<prefix>> \o w[i].at
                  /\ Ignored(prefix, w)[i].kind = w[i].kind
PROOF
<1>1. Len(w) \in Nat /\ DOMAIN w = 1 .. Len(w)
  BY SeqFacts DEF IsLayout
<1> DEFINE f == Nested(prefix, w)
           g == Ignored(prefix, w)
<1>2. /\ f = [i \in DOMAIN w |-> f[i]] /\ g = [i \in DOMAIN w |-> g[i]]
  BY DEF Nested, Ignored
<1>3. ASSUME NEW i \in 1 .. Len(w)
      PROVE  /\ f[i] = [w[i] EXCEPT !.at = <<prefix>> \o w[i].at, !.part = Within(prefix, w[i].part)]
             /\ g[i] = [w[i] EXCEPT !.at = <<prefix>> \o w[i].at, !.part = <<prefix>> \o w[i].part]
  BY <1>1 DEF Nested, Ignored
<1> HIDE DEF f, g
<1>4. ASSUME NEW i \in 1 .. Len(w)
      PROVE  /\ IsItem(f[i]) /\ f[i].kind = w[i].kind /\ f[i].at = <<prefix>> \o w[i].at
             /\ f[i].part = Within(prefix, w[i].part)
             /\ IsItem(g[i]) /\ g[i].kind = w[i].kind /\ g[i].at = <<prefix>> \o w[i].at
  <2> DEFINE a == <<prefix>> \o w[i].at
             p == <<prefix>> \o w[i].part
             q == Within(prefix, w[i].part)
             x == w[i]
  <2>1. IsItem(x) /\ IsSeq(x.at) /\ IsSeq(x.part)
    BY DEF IsLayout, IsItem
  <2>2. IsSeq(a) /\ IsSeq(p)
    BY <2>1, SeqPrepend
  <2>3. IsSeq(q)
    BY <2>1, <2>2 DEF Within
  <2>4. PICK k, b, c : x = [kind |-> k, at |-> b, part |-> c] /\ x.kind = k
    BY <2>1 DEF IsItem
  <2>5. f[i] = [x EXCEPT !.at = a, !.part = q] /\ g[i] = [x EXCEPT !.at = a, !.part = p]
    BY <1>3
  <2> HIDE DEF a, p, q, x
  <2>6. f[i] = [kind |-> k, at |-> a, part |-> q] /\ g[i] = [kind |-> k, at |-> a, part |-> p]
    BY <2>4, <2>5
  <2>7. IsItem(f[i]) /\ f[i].kind = k /\ f[i].at = a /\ f[i].part = q
    BY <2>2, <2>3, <2>6, ItemParts
  <2>8. IsItem(g[i]) /\ g[i].kind = k /\ g[i].at = a
    BY <2>2, <2>6, ItemParts
  <2> QED
    BY <2>4, <2>7, <2>8 DEF a, q, x
<1>5. IsLayout(f) /\ Len(f) = Len(w)
  BY <1>2, <1>4, MapLayout
<1>6. IsLayout(g) /\ Len(g) = Len(w)
  BY <1>2, <1>4, MapLayout
<1> QED
  BY <1>4, <1>5, <1>6 DEF f, g

\* Reads without a check keep their kinds and fields.
LEMMA Uncheck ==
    ASSUME NEW w, IsLayout(w)
    PROVE  /\ IsLayout(Unchecked(w)) /\ Len(Unchecked(w)) = Len(w)
           /\ \A i \in 1 .. Len(w) : Unchecked(w)[i].at = w[i].at /\ Unchecked(w)[i].kind = w[i].kind
PROOF
<1>1. Len(w) \in Nat /\ DOMAIN w = 1 .. Len(w)
  BY SeqFacts DEF IsLayout
<1> DEFINE f == Unchecked(w)
<1>2. f = [i \in DOMAIN w |-> f[i]]
  BY DEF Unchecked
<1>3. ASSUME NEW i \in 1 .. Len(w) PROVE f[i] = [w[i] EXCEPT !.part = w[i].at]
  BY <1>1 DEF Unchecked
<1> HIDE DEF f
<1>4. ASSUME NEW i \in 1 .. Len(w)
      PROVE  IsItem(f[i]) /\ f[i].kind = w[i].kind /\ f[i].at = w[i].at
  <2> DEFINE x == w[i]
             z == [kind |-> x.kind, at |-> x.at, part |-> x.at]
  <2>1. IsItem(x)
    BY DEF IsLayout
  <2>2. f[i] = [x EXCEPT !.part = x.at]
    BY <1>3
  <2> HIDE DEF x
  <2>3. f[i] = z
    BY <2>1, <2>2 DEF IsItem
  <2>4. z = [kind |-> z.kind, at |-> z.at, part |-> z.part] /\ z.kind = x.kind /\ z.at = x.at /\ z.part = x.at
    OBVIOUS
  <2> HIDE DEF z
  <2> QED
    BY <2>1, <2>3, <2>4 DEF IsItem, x
<1>5. IsLayout(f) /\ Len(f) = Len(w)
  BY <1>2, <1>4, MapLayout
<1> QED
  BY <1>4, <1>5 DEF f

\* Objects that are alike remain so when nested, checked or not, or when read without a check.
LEMMA InsideLike ==
    ASSUME NEW w, NEW r, NEW prefix, Like(w, r)
    PROVE  /\ Like(Nested(prefix, w), Nested(prefix, r)) /\ Like(Ignored(prefix, w), Ignored(prefix, r))
           /\ Like(Ignored(prefix, w), Nested(prefix, r)) /\ Like(w, Unchecked(r))
PROOF
<1>1. IsLayout(w) /\ IsLayout(r) /\ Len(w) = Len(r)
  BY DEF Like
<1> DEFINE A(f) == /\ IsLayout(f) /\ Len(f) = Len(w)
                   /\ \A i \in 1 .. Len(w) : f[i].at = <<prefix>> \o w[i].at /\ f[i].kind = w[i].kind
           B(g) == /\ IsLayout(g) /\ Len(g) = Len(r)
                   /\ \A i \in 1 .. Len(r) : g[i].at = <<prefix>> \o r[i].at /\ g[i].kind = r[i].kind
<1>2. ASSUME NEW f, NEW g, A(f), B(g) PROVE Like(f, g)
  <2>1. ASSUME NEW i \in 1 .. Len(w)
        PROVE  /\ w[i].at = r[i].at /\ Alike(w[i].kind, r[i].kind)
               /\ w[i].kind # "Refuse" /\ r[i].kind # "Refuse"
    BY DEF Like
  <2> QED
    BY <1>1, <1>2, <2>1 DEF Like
<1>3. A(Nested(prefix, w)) /\ A(Ignored(prefix, w)) /\ B(Nested(prefix, r)) /\ B(Ignored(prefix, r))
  BY <1>1, Inside
<1>4. Like(w, Unchecked(r))
  <2>1. IsLayout(Unchecked(r)) /\ Len(Unchecked(r)) = Len(r)
        /\ \A i \in 1 .. Len(r) : Unchecked(r)[i].at = r[i].at /\ Unchecked(r)[i].kind = r[i].kind
    BY <1>1, Uncheck
  <2> QED
    BY <1>1, <2>1 DEF Like
<1> HIDE DEF A, B
<1> QED
  BY <1>2, <1>3, <1>4

\* The elements of a vector.
LEMMA FlattenNothing ==
    ASSUME NEW s, s = <<>>
    PROVE  FlattenSeq(s) = <<>>
PROOF
  BY DEF FlattenSeq

\* Sequences of layouts that are alike one by one are alike when joined.
LEMMA FlattenLike ==
    ASSUME NEW n \in Nat, NEW s, NEW t, s = [i \in 1 .. n |-> s[i]], t = [i \in 1 .. n |-> t[i]],
           \A i \in 1 .. n : Like(s[i], t[i])
    PROVE  Like(FlattenSeq(s), FlattenSeq(t))
PROOF
<1>1. CASE n = 0
  <2>1. s = <<>> /\ t = <<>>
    BY <1>1
  <2>2. Like(<<>>, <<>>)
    <3>1. <<>> \in Seq({}) /\ Len(<<>>) = 0
      OBVIOUS
    <3> QED
      BY <3>1 DEF Like, IsLayout, IsSeq
  <2> QED
    BY <2>1, <2>2, FlattenNothing
<1>2. CASE n # 0
  <2> DEFINE Spots(u) == {u[k][i] : k \in 1 .. n, i \in Nat}
  <2>1. ASSUME NEW u, u = [i \in 1 .. n |-> u[i]], \A i \in 1 .. n : IsSeq(u[i])
        PROVE  \E S : u \in [1 .. n -> Seq(S)]
    <3> DEFINE S == UNION {{u[k][i] : i \in 1 .. Len(u[k])} : k \in 1 .. n}
    <3>1. ASSUME NEW k \in 1 .. n PROVE u[k] \in Seq(S)
      <4>1. PICK T : u[k] \in Seq(T)
        BY <2>1 DEF IsSeq
      <4>2. ASSUME NEW i \in 1 .. Len(u[k]) PROVE u[k][i] \in S
        OBVIOUS
      <4> HIDE DEF S
      <4> QED
        BY <4>1, <4>2
    <3> HIDE DEF S
    <3>2. u \in [1 .. n -> Seq(S)]
      BY <2>1, <3>1
    <3> QED
      BY <3>2
  <2>2. ASSUME NEW i \in 1 .. n PROVE IsSeq(s[i]) /\ IsSeq(t[i])
    BY DEF Like, IsLayout
  <2>3. PICK S : s \in [1 .. n -> Seq(S)]
    BY <2>1, <2>2
  <2>4. PICK T : t \in [1 .. n -> Seq(T)]
    BY <2>1, <2>2
  <2>5. n \in Nat \ {0}
    BY <1>2
  <2>6. PICK f \in [1 .. n -> Seq(S)] : Joins(f, s, n) /\ FlattenSeq(s) = f[n]
    BY <2>3, <2>5, FlattenBuilt
  <2>7. PICK g \in [1 .. n -> Seq(T)] : Joins(g, t, n) /\ FlattenSeq(t) = g[n]
    BY <2>4, <2>5, FlattenBuilt
  <2> DEFINE P == {m \in Nat : 1 <= m /\ m <= n => Like(f[m], g[m])}
  <2>8. 0 \in P
    OBVIOUS
  <2>9. ASSUME NEW m \in Nat, m \in P PROVE m + 1 \in P
    <3> SUFFICES ASSUME m + 1 <= n PROVE Like(f[m + 1], g[m + 1])
      OBVIOUS
    <3>1. m + 1 \in 1 .. n /\ Like(s[m + 1], t[m + 1])
      BY <2>5
    <3>2. CASE m = 0
      <4>1. f[1] = s[1] /\ g[1] = t[1] /\ m + 1 = 1
        BY <2>6, <2>7, <3>2 DEF Joins
      <4> QED
        BY <3>1, <4>1
    <3>3. CASE m # 0
      <4>1. m + 1 \in 2 .. n /\ (m + 1) - 1 = m
        BY <2>5, <3>1, <3>3
      <4>2. f[m + 1] = f[m] \o s[m + 1] /\ g[m + 1] = g[m] \o t[m + 1]
        BY <2>6, <2>7, <4>1 DEF Joins
      <4>3. Like(f[m], g[m])
        BY <2>9, <3>3, <4>1
      <4> QED
        BY <3>1, <4>2, <4>3, ConcatLike
    <3> QED
      BY <3>2, <3>3
  <2>10. n \in P
    <3> HIDE DEF P
    <3> QED
      BY <2>8, <2>9, NatInduct
  <2> QED
    BY <2>5, <2>6, <2>7, <2>10
<1> QED
  BY <1>1, <1>2

\* Layouts that are joined are a layout.
LEMMA FlattenLayout ==
    ASSUME NEW n \in Nat, NEW s, s = [i \in 1 .. n |-> s[i]], \A i \in 1 .. n : IsLayout(s[i])
    PROVE  IsLayout(FlattenSeq(s))
PROOF
<1>1. CASE n = 0
  <2>1. s = <<>>
    BY <1>1
  <2>2. IsLayout(<<>>)
    <3>1. <<>> \in Seq({}) /\ Len(<<>>) = 0
      OBVIOUS
    <3> QED
      BY <3>1 DEF IsLayout, IsSeq
  <2> QED
    BY <2>1, <2>2, FlattenNothing
<1>2. CASE n # 0
  <2> DEFINE S == UNION {{s[k][i] : i \in 1 .. Len(s[k])} : k \in 1 .. n}
  <2>1. ASSUME NEW k \in 1 .. n PROVE s[k] \in Seq(S)
    <3>1. PICK T : s[k] \in Seq(T)
      BY DEF IsLayout, IsSeq
    <3>2. ASSUME NEW i \in 1 .. Len(s[k]) PROVE s[k][i] \in S
      OBVIOUS
    <3> HIDE DEF S
    <3> QED
      BY <3>1, <3>2
  <2> HIDE DEF S
  <2>2. s \in [1 .. n -> Seq(S)]
    BY <2>1
  <2>3. n \in Nat \ {0}
    BY <1>2
  <2>4. PICK f \in [1 .. n -> Seq(S)] : Joins(f, s, n) /\ FlattenSeq(s) = f[n]
    BY <2>2, <2>3, FlattenBuilt
  <2> DEFINE P == {m \in Nat : 1 <= m /\ m <= n => IsLayout(f[m])}
  <2>5. 0 \in P
    OBVIOUS
  <2>6. ASSUME NEW m \in Nat, m \in P PROVE m + 1 \in P
    <3> SUFFICES ASSUME m + 1 <= n PROVE IsLayout(f[m + 1])
      OBVIOUS
    <3>1. m + 1 \in 1 .. n /\ IsLayout(s[m + 1])
      BY <2>3
    <3>2. CASE m = 0
      <4>1. f[1] = s[1] /\ m + 1 = 1
        BY <2>4, <3>2 DEF Joins
      <4> QED
        BY <3>1, <4>1
    <3>3. CASE m # 0
      <4>1. m + 1 \in 2 .. n /\ (m + 1) - 1 = m
        BY <2>3, <3>1, <3>3
      <4>2. f[m + 1] = f[m] \o s[m + 1]
        BY <2>4, <4>1 DEF Joins
      <4>3. IsLayout(f[m])
        BY <2>6, <3>3, <4>1
      <4> QED
        BY <3>1, <4>2, <4>3, ConcatLayout
    <3> QED
      BY <3>2, <3>3
  <2>7. n \in P
    <3> HIDE DEF P
    <3> QED
      BY <2>5, <2>6, NatInduct
  <2> QED
    BY <2>3, <2>4, <2>7
<1> QED
  BY <1>1, <1>2

\* Vectors of objects that are alike are alike.
LEMMA ElementsLike ==
    ASSUME NEW n \in Nat, NEW w, NEW r, Like(w, r)
    PROVE  Like(Elements(n, w), Elements(n, r)) /\ Like(ElementsIgnored(n, w), Elements(n, r))
PROOF
<1> DEFINE f == [i \in 1 .. n |-> Nested(ToString(i), w)]
           g == [i \in 1 .. n |-> Nested(ToString(i), r)]
           h == [i \in 1 .. n |-> Ignored(ToString(i), w)]
<1>1. ASSUME NEW i \in 1 .. n PROVE Like(f[i], g[i]) /\ Like(h[i], g[i])
  BY InsideLike
<1>2. f = [i \in 1 .. n |-> f[i]] /\ g = [i \in 1 .. n |-> g[i]] /\ h = [i \in 1 .. n |-> h[i]]
  OBVIOUS
<1>3. Elements(n, w) = FlattenSeq(f) /\ Elements(n, r) = FlattenSeq(g) /\ ElementsIgnored(n, w) = FlattenSeq(h)
  BY DEF Elements, ElementsIgnored
<1> HIDE DEF f, g, h
<1>4. Like(FlattenSeq(f), FlattenSeq(g))
  BY <1>1, <1>2, FlattenLike
<1>5. Like(FlattenSeq(h), FlattenSeq(g))
  BY <1>1, <1>2, FlattenLike
<1> QED
  BY <1>3, <1>4, <1>5

\* A vector of no elements writes no element.
LEMMA ElementsNothing == \A w : Elements(0, w) = <<>> /\ ElementsIgnored(0, w) = <<>>
PROOF
<1> SUFFICES ASSUME NEW w PROVE Elements(0, w) = <<>> /\ ElementsIgnored(0, w) = <<>>
  OBVIOUS
<1>1. [i \in 1 .. 0 |-> Nested(ToString(i), w)] = <<>> /\ [i \in 1 .. 0 |-> Ignored(ToString(i), w)] = <<>>
  OBVIOUS
<1> QED
  BY <1>1, FlattenNothing DEF Elements, ElementsIgnored

-----------------------------------------------------------------------------
(* When a reader understands what a writer wrote.                          *)

\* What is written as w and is whole is read as r: every read meets a value of its kind, and
\* every field gets its own value unless the reader refuses.
Understood(w, r) ==
    ~RawTwice(w) /\ WriteOk(w, 0) =>
        /\ Fits(Expected(w), r)
        /\ ReadOk(r) => Got(Expected(w), r) = Meant(Expected(w))

\* The path of the call itself is a prefix of every part.
LEMMA PrefixFacts ==
    ASSUME NEW p, IsSeq(p)
    PROVE  IsPrefix(p, p) /\ IsPrefix(<<>>, p)
PROOF
<1>1. PICK S : p \in Seq(S)
  BY DEF IsSeq
<1>2. SubSeq(p, 1, 0) = <<>> /\ SubSeq(<<>>, 1, 0) = <<>> /\ Len(<<>>) = 0
  BY <1>1
<1> QED
  BY <1>1, <1>2 DEF IsPrefix

\* What both sides do alike is understood, the refusals included.
LEMMA UnderstoodSame ==
    ASSUME NEW w, IsLayout(w)
    PROVE  Understood(w, w)
PROOF
<1>1. PICK S : w \in Seq(S)
  BY DEF IsLayout, IsSeq
<1> DEFINE X == Skipped(w, 0)
           e == Kept(w, X)
<1>2. e \in Seq(S) /\ \A k \in DOMAIN e : \E i \in DOMAIN w \ X : e[k] = w[i]
  BY <1>1, KeptOf
<1>3. Expected(w) = e
  BY DEF Expected, Written
<1>4. ASSUME NEW i \in DOMAIN w, w[i].kind = "Refuse" PROVE i \in X
  <2>1. i \in Nat /\ i \in 1 .. Len(w)
    BY <1>1
  <2>4. IsSeq(w[i].part)
    BY <2>1 DEF IsLayout, IsItem
  <2>2. i \in Fails(w, 0)
    BY <1>4 DEF Fails
  <2>3. IsPrefix(w[i].part, w[i].part)
    BY <2>4, PrefixFacts
  <2> QED
    BY <2>1, <2>2, <2>3 DEF Skipped
<1> HIDE DEF X, e
<1>5. \A k \in DOMAIN e : e[k].kind # "Refuse"
  BY <1>2, <1>4
<1>6. Fits(e, w)
  BY <1>2, <1>3 DEF Fits, Alike
<1>7. Got(e, w) = Meant(e)
  BY <1>3, <1>5 DEF Got, Meant
<1> QED
  BY <1>3, <1>6, <1>7 DEF Understood

\* A layout without a refusal and without a second raw block is written whole.
LEMMA WrittenWhole ==
    ASSUME NEW w, IsLayout(w), \A i \in 1 .. Len(w) : w[i].kind # "Refuse", ~RawTwice(w)
    PROVE  /\ Fails(w, 0) = {} /\ IsSeq(Expected(w)) /\ Len(Expected(w)) = Len(w)
           /\ \A i \in 1 .. Len(w) : Expected(w)[i] = w[i]
PROOF
<1>1. PICK S : w \in Seq(S)
  BY DEF IsLayout, IsSeq
<1>2. DOMAIN w = 1 .. Len(w) /\ Len(w) \in Nat
  BY <1>1
<1>3. ASSUME NEW i \in Fails(w, 0) PROVE FALSE
  <2>1. i \in 1 .. Len(w) /\ i # 0
    BY <1>2, <1>3 DEF Fails
  <2>2. PICK j \in DOMAIN w : j < i /\ w[j].kind = "Raw" /\ w[i].kind = "Raw"
    BY <2>1, <1>3 DEF Fails
  <2> QED
    BY <1>2, <2>1, <2>2 DEF RawTwice
<1>4. Fails(w, 0) = {}
  BY <1>3
<1>5. Skipped(w, 0) = {}
  BY <1>4 DEF Skipped
<1> DEFINE e == Kept(w, {})
<1>6. Expected(w) = e
  BY <1>5 DEF Expected, Written
<1> DEFINE none == {}
<1>7. \A i \in 1 .. Len(w) : i \in none <=> i > Len(w)
  BY <1>2
<1>8. Len(w) \in 0 .. Len(w)
  BY <1>2
<1>9. e \in Seq(S) /\ Len(e) = Len(w) /\ \A i \in 1 .. Len(w) : e[i] = w[i]
  <2>1. e = Kept(w, none)
    OBVIOUS
  <2> HIDE DEF e, none
  <2> QED
    BY <1>1, <1>7, <1>8, <2>1, KeptFront
<1> QED
  BY <1>4, <1>6, <1>9 DEF IsSeq

\* A reader that agrees with the writer until it refuses, or to the end.
LEMMA UnderstoodFront ==
    ASSUME NEW w, Plain(w), NEW r, IsLayout(r),
           NEW m \in Nat, m = Len(w), NEW n \in Nat, n = Len(r), NEW p \in Nat, p <= m, p <= n,
           \A i \in 1 .. p : w[i].at = r[i].at /\ Alike(w[i].kind, r[i].kind) /\ r[i].kind # "Refuse",
           p = n => p = m,
           p < n => r[p + 1].kind = "Refuse" /\ r[p + 1].part = <<>>
    PROVE  Understood(w, r)
PROOF
<1> SUFFICES ASSUME ~RawTwice(w)
             PROVE  Fits(Expected(w), r) /\ (ReadOk(r) => Got(Expected(w), r) = Meant(Expected(w)))
  BY DEF Understood
<1>1. IsLayout(w) /\ \A i \in 1 .. m : w[i].kind # "Refuse"
  BY DEF Plain, Like
<1>2. /\ IsSeq(Expected(w)) /\ Len(Expected(w)) = m
      /\ \A i \in 1 .. m : Expected(w)[i] = w[i]
  BY <1>1, WrittenWhole
<1>3. PICK S : r \in Seq(S)
  BY DEF IsLayout, IsSeq
<1>4. /\ DOMAIN r = 1 .. n /\ DOMAIN w = 1 .. m
      /\ \A i \in 1 .. n : IsSeq(r[i].part)
  BY <1>1, <1>3, SeqFacts DEF IsLayout, IsItem
<1>5. ASSUME NEW i \in 1 .. p PROVE i \notin Fails(r, 0)
  <2> SUFFICES ASSUME i \in Fails(r, 0) PROVE FALSE
    OBVIOUS
  <2>1. i # 0 /\ r[i].kind # "Refuse"
    OBVIOUS
  <2>2. PICK j \in DOMAIN r : j < i /\ r[j].kind = "Raw" /\ r[i].kind = "Raw"
    BY <2>1 DEF Fails
  <2>3. j \in 1 .. p /\ i \in DOMAIN w /\ j \in DOMAIN w
    BY <1>4, <2>2
  <2>4. w[i].kind = "Raw" /\ w[j].kind = "Raw"
    BY <2>2, <2>3 DEF Alike
  <2> QED
    BY <2>2, <2>3, <2>4 DEF RawTwice
<1>6. ASSUME p < n PROVE p + 1 \in Fails(r, 0)
  BY <1>4, <1>6 DEF Fails
<1>7. ASSUME NEW i \in 1 .. n PROVE i \in Skipped(r, 0) <=> i > p
  <2>1. CASE i > p
    <3>1. p + 1 \in Fails(r, 0) /\ p + 1 <= i /\ r[p + 1].part = <<>>
      BY <1>4, <1>6, <2>1
    <3>2. IsPrefix(r[p + 1].part, r[i].part)
      BY <1>4, <3>1, PrefixFacts
    <3> QED
      BY <1>4, <2>1, <3>1, <3>2 DEF Skipped
  <2>2. CASE ~(i > p)
    <3> SUFFICES ASSUME i \in Skipped(r, 0) PROVE FALSE
      BY <2>2
    <3>1. PICK j \in Fails(r, 0) : j <= i
      BY DEF Skipped
    <3>2. j \in 1 .. p
      BY <1>4, <2>2, <3>1 DEF Fails
    <3> QED
      BY <1>5, <3>1, <3>2
  <2> QED
    BY <2>1, <2>2
<1> DEFINE X == Skipped(r, 0)
           e == Kept(r, X)
           d == Expected(w)
<1>8. Expected(r) = e
  BY DEF Expected, Written
<1>9. \A i \in 1 .. n : i \in X <=> i > p
  BY <1>7
<1> HIDE DEF X
<1>10. p \in 0 .. n
  BY <1>4
<1>11. e \in Seq(S) /\ Len(e) = p /\ \A i \in 1 .. p : e[i] = r[i]
  BY <1>3, <1>9, <1>10, KeptFront
<1>12. DOMAIN e = 1 .. p /\ DOMAIN d = 1 .. m
  BY <1>2, <1>11, SeqFacts
<1> HIDE DEF e, d
<1>13. Fits(d, r)
  <2>1. ASSUME NEW i \in 1 .. p PROVE Alike(d[i].kind, e[i].kind)
    <3>1. i \in 1 .. m
      BY <1>4
    <3>2. d[i] = w[i] /\ e[i] = r[i]
      BY <1>2, <1>11, <3>1 DEF d
    <3> QED
      BY <3>2
  <2>2. Len(d) = m
    BY <1>2 DEF d
  <2> QED
    BY <1>8, <1>11, <1>12, <2>1, <2>2 DEF Fits
<1>14. ASSUME ReadOk(r) PROVE Got(d, r) = Meant(d)
  <2>1. ~(p < n)
    BY <1>6, <1>14 DEF ReadOk, WriteOk
  <2>2. p = n /\ p = m
    BY <1>4, <2>1
  <2>3. ASSUME NEW i \in 1 .. p PROVE d[i].kind # "Refuse" /\ e[i].at = d[i].at
    <3>1. d[i] = w[i] /\ e[i] = r[i] /\ w[i].kind # "Refuse"
      BY <1>1, <1>2, <1>11, <2>2 DEF d
    <3> QED
      BY <3>1
  <2>4. Got(d, r) = {<<e[i].at, d[i].at>> : i \in 1 .. p}
    BY <1>8, <1>12 DEF Got
  <2>5. Meant(d) = {<<d[i].at, d[i].at>> : i \in 1 .. p}
    BY <1>12, <2>2, <2>3 DEF Meant
  <2> QED
    BY <2>3, <2>4, <2>5
<1> QED
  BY <1>13, <1>14 DEF d

\* A layout is understood by one that is like it.
LEMMA UnderstoodLike ==
    ASSUME NEW w, NEW r, Like(w, r)
    PROVE  Understood(w, r)
PROOF
<1>1. IsLayout(w) /\ IsLayout(r) /\ Len(w) = Len(r) /\ Len(w) \in Nat
  BY SeqFacts DEF Like, IsLayout
<1>2. Plain(w)
  <2>1. ASSUME NEW i \in 1 .. Len(w) PROVE w[i].kind # "Refuse"
    BY DEF Like
  <2> QED
    BY <1>1, <2>1 DEF Plain, Like, Alike
<1>3. \A i \in 1 .. Len(w) : w[i].at = r[i].at /\ Alike(w[i].kind, r[i].kind) /\ r[i].kind # "Refuse"
  BY DEF Like
<1> QED
  BY <1>1, <1>2, <1>3, UnderstoodFront

Refusing(x) == IsLayout(x) /\ Len(x) >= 1 /\ x[1].kind = "Refuse" /\ x[1].part = <<>>
\* What is read before a refusal is understood.
LEMMA UnderstoodRefused ==
    ASSUME NEW a, NEW b, NEW x, Plain(a), Plain(b), Refusing(x)
    PROVE  Understood(a \o b, a \o x)
PROOF
<1>1. IsLayout(a) /\ IsLayout(b) /\ IsLayout(x) /\ IsSeq(a) /\ IsSeq(b) /\ IsSeq(x)
  BY DEF Plain, Like, Refusing, IsLayout
<1> DEFINE w == a \o b
           r == a \o x
           p == Len(a)
<1>2. Plain(w) /\ IsLayout(r)
  BY <1>1, ConcatPlain, ConcatLayout
<1>3. p \in Nat /\ Len(b) \in Nat /\ Len(x) \in Nat /\ 1 <= Len(x)
  BY <1>1, SeqFacts DEF Refusing
<1>4. Len(w) = p + Len(b) /\ Len(r) = p + Len(x)
  BY <1>1, SeqConcat
<1>5. ASSUME NEW i \in 1 .. p
      PROVE  w[i].at = r[i].at /\ Alike(w[i].kind, r[i].kind) /\ r[i].kind # "Refuse"
  <2>1. w[i] = a[i]
    BY <1>1, SeqConcat
  <2>2. r[i] = a[i]
    BY <1>1, SeqConcat
  <2>3. a[i].kind # "Refuse"
    BY DEF Plain, Like
  <2> HIDE DEF w, r
  <2> QED
    BY <2>1, <2>2, <2>3 DEF Alike
<1>6. r[p + 1] = x[1]
  <2>1. 1 \in 1 .. Len(x)
    BY <1>3
  <2> QED
    BY <1>1, <2>1, SeqConcat
<1> HIDE DEF w, r, p
<1>7. r[p + 1].kind = "Refuse" /\ r[p + 1].part = <<>>
  BY <1>6 DEF Refusing
<1>8. p <= Len(w) /\ p <= Len(r) /\ p # Len(r)
  BY <1>3, <1>4
<1>9. Understood(w, r)
  BY <1>2, <1>3, <1>5, <1>7, <1>8, UnderstoodFront
<1> QED
  BY <1>9 DEF w, r, p

\* A refusal refuses, also with something after it and in a checked nested object.
LEMMA RefuseRefusing ==
    /\ Refusing(Refuse) /\ IsLayout(Refuse) /\ ~WriteOk(Refuse, 0)
    /\ \A x, y : Refusing(x) /\ IsLayout(y) => Refusing(x \o y)
    /\ \A x, prefix : Refusing(x) => Refusing(Nested(prefix, x))
PROOF
<1>1. /\ IsLayout(Refuse) /\ Len(Refuse) = 1
      /\ Refuse[1] = [kind |-> "Refuse", at |-> <<"refused">>, part |-> <<>>]
  <2>1. Len(<<"refused">>) = 1 /\ DOMAIN <<"refused">> = 1 .. 1 /\ <<"refused">>[1] = "refused"
    OBVIOUS
  <2> DEFINE names == <<"refused">>
  <2>2. Len(names) = 1 /\ DOMAIN names = 1 .. 1 /\ names[1] = "refused" /\ Refuse = Fields("Refuse", names)
    BY <2>1 DEF Refuse
  <2> HIDE DEF names
  <2>3. 1 \in 1 .. Len(names) /\ Len(names) \in Nat /\ DOMAIN names = 1 .. Len(names)
    BY <2>2
  <2> QED
    BY <2>2, <2>3, FieldsLayout
<1>2. Refuse[1].kind = "Refuse" /\ Refuse[1].part = <<>>
  BY <1>1
<1>3. Refusing(Refuse)
  BY <1>1, <1>2 DEF Refusing
<1>4. ~WriteOk(Refuse, 0)
  <2>1. DOMAIN Refuse = 1 .. 1
    BY <1>1, SeqFacts DEF IsLayout
  <2>2. 1 \in Fails(Refuse, 0)
    BY <1>2, <2>1 DEF Fails
  <2> QED
    BY <1>2, <2>2 DEF WriteOk
<1>5. ASSUME NEW x, NEW y, Refusing(x), IsLayout(y) PROVE Refusing(x \o y)
  <2>1. IsSeq(x) /\ IsSeq(y) /\ Len(x) \in Nat /\ Len(y) \in Nat /\ IsLayout(x) /\ 1 \in 1 .. Len(x)
    BY <1>5, SeqFacts DEF Refusing, IsLayout
  <2>2. IsLayout(x \o y) /\ Len(x \o y) = Len(x) + Len(y) /\ (x \o y)[1] = x[1]
    BY <1>5, <2>1, ConcatLayout, SeqConcat
  <2> QED
    BY <1>5, <2>1, <2>2 DEF Refusing
<1>6. ASSUME NEW x, NEW prefix, Refusing(x) PROVE Refusing(Nested(prefix, x))
  <2>1. IsLayout(x) /\ Len(x) \in Nat /\ 1 \in 1 .. Len(x)
    BY <1>6, SeqFacts DEF Refusing, IsLayout
  <2> DEFINE y == Nested(prefix, x)
  <2>2. /\ IsLayout(y) /\ Len(y) = Len(x)
        /\ \A i \in 1 .. Len(x) : y[i].kind = x[i].kind /\ y[i].part = Within(prefix, x[i].part)
    BY <2>1, Inside
  <2> HIDE DEF y
  <2>3. Within(prefix, <<>>) = <<>>
    BY DEF Within
  <2>4. Refusing(y)
    BY <1>6, <2>1, <2>2, <2>3 DEF Refusing
  <2> QED
    BY <2>4 DEF y
<1> QED
  BY <1>1, <1>3, <1>4, <1>5, <1>6

\* What ends in a refusal is not written.
LEMMA RefusedEnd ==
    ASSUME NEW a, NEW x, IsLayout(a), Refusing(x)
    PROVE  IsLayout(a \o x) /\ ~WriteOk(a \o x, 0)
PROOF
<1>1. IsSeq(a) /\ IsSeq(x) /\ Len(a) \in Nat /\ Len(x) \in Nat /\ IsLayout(x) /\ 1 \in 1 .. Len(x)
  BY SeqFacts DEF Refusing, IsLayout
<1> DEFINE w == a \o x
           p == Len(a) + 1
<1>2. IsLayout(w) /\ Len(w) = Len(a) + Len(x) /\ w[p] = x[1]
  BY <1>1, ConcatLayout, SeqConcat
<1>3. p \in 1 .. Len(w)
  BY <1>1, <1>2
<1> HIDE DEF w, p
<1>4. DOMAIN w = 1 .. Len(w)
  BY <1>2, SeqFacts DEF IsLayout
<1>5. w[p].kind = "Refuse" /\ w[p].part = <<>>
  BY <1>2 DEF Refusing
<1>6. p \in Fails(w, 0)
  BY <1>3, <1>4, <1>5 DEF Fails
<1>7. ~WriteOk(w, 0)
  BY <1>5, <1>6 DEF WriteOk
<1> QED
  BY <1>2, <1>7 DEF w

-----------------------------------------------------------------------------
(* The classes.                                                            *)

-----------------------------------------------------------------------------
\* The classes.

\* The empty layout is plain and flat.
LEMMA EmptyPlain == Plain(<<>>) /\ Flat(<<>>)
PROOF
<1>1. <<>> \in Seq({}) /\ Len(<<>>) = 0
  OBVIOUS
<1> QED
  BY <1>1 DEF Plain, Like, Flat, IsLayout, IsSeq

\* Nothing is appended by the empty sequence.
LEMMA SeqEmpty ==
    ASSUME NEW a, IsSeq(a)
    PROVE  a \o <<>> = a
PROOF
  BY DEF IsSeq

\* Concatenation is associative; the parts are named for the provers.
LEMMA SeqAssociative ==
    ASSUME NEW a, NEW b, NEW c, IsSeq(a), IsSeq(b), IsSeq(c), NEW ab, ab = a \o b, NEW bc, bc = b \o c
    PROVE  ab \o c = a \o bc
PROOF
<1>1. PICK A, B, C : a \in Seq(A) /\ b \in Seq(B) /\ c \in Seq(C)
  BY DEF IsSeq
<1> DEFINE U == A \cup B \cup C
           n == Len(a) + Len(b) + Len(c)
           At(i) == IF i <= Len(a) THEN a[i] ELSE IF i <= Len(a) + Len(b) THEN b[i - Len(a)]
                    ELSE c[i - (Len(a) + Len(b))]
<1>2. a \in Seq(U) /\ b \in Seq(U) /\ c \in Seq(U)
  BY <1>1
<1> HIDE DEF U
<1>3. ASSUME NEW p \in Seq(U), NEW q \in Seq(U)
      PROVE  /\ p \o q \in Seq(U) /\ Len(p \o q) = Len(p) + Len(q)
             /\ \A i \in 1 .. (Len(p) + Len(q)) : (p \o q)[i] = IF i <= Len(p) THEN p[i] ELSE q[i - Len(p)]
  OBVIOUS
<1> DEFINE x == ab \o c
           y == a \o bc
<1>4. /\ ab \in Seq(U) /\ Len(ab) = Len(a) + Len(b) /\ bc \in Seq(U) /\ Len(bc) = Len(b) + Len(c)
      /\ \A i \in 1 .. (Len(a) + Len(b)) : ab[i] = IF i <= Len(a) THEN a[i] ELSE b[i - Len(a)]
      /\ \A i \in 1 .. (Len(b) + Len(c)) : bc[i] = IF i <= Len(b) THEN b[i] ELSE c[i - Len(b)]
  BY <1>2, <1>3
<1>5. /\ x \in Seq(U) /\ Len(x) = Len(ab) + Len(c) /\ y \in Seq(U) /\ Len(y) = Len(a) + Len(bc)
      /\ \A i \in 1 .. (Len(ab) + Len(c)) : x[i] = IF i <= Len(ab) THEN ab[i] ELSE c[i - Len(ab)]
      /\ \A i \in 1 .. (Len(a) + Len(bc)) : y[i] = IF i <= Len(a) THEN a[i] ELSE bc[i - Len(a)]
  BY <1>2, <1>3, <1>4
<1> HIDE DEF x, y
<1>6. Len(a) \in Nat /\ Len(b) \in Nat /\ Len(c) \in Nat
  BY <1>2
<1>7. Len(x) = n /\ Len(y) = n
  BY <1>4, <1>5, <1>6
<1>8. ASSUME NEW i \in 1 .. n PROVE x[i] = At(i) /\ y[i] = At(i)
  <2>1. x[i] = At(i)
    <3>1. i \in 1 .. (Len(ab) + Len(c))
      BY <1>4, <1>6
    <3>2. CASE i <= Len(ab)
      <4>1. x[i] = ab[i] /\ i \in 1 .. (Len(a) + Len(b))
        BY <1>4, <1>5, <1>6, <3>1, <3>2
      <4> QED
        BY <1>4, <1>6, <4>1
    <3>3. CASE ~(i <= Len(ab))
      <4>1. x[i] = c[i - Len(ab)]
        BY <1>5, <3>1, <3>3
      <4> QED
        BY <1>4, <1>6, <3>3, <4>1
    <3> QED
      BY <3>2, <3>3
  <2>2. y[i] = At(i)
    <3>1. i \in 1 .. (Len(a) + Len(bc))
      BY <1>4, <1>6
    <3>2. CASE i <= Len(a)
      BY <1>5, <3>1, <3>2
    <3>3. CASE ~(i <= Len(a))
      <4>1. y[i] = bc[i - Len(a)] /\ i - Len(a) \in 1 .. (Len(b) + Len(c))
        BY <1>4, <1>5, <1>6, <3>1, <3>3
      <4>2. bc[i - Len(a)] = IF i - Len(a) <= Len(b) THEN b[i - Len(a)] ELSE c[(i - Len(a)) - Len(b)]
        BY <1>4, <4>1
      <4>3. (i - Len(a)) - Len(b) = i - (Len(a) + Len(b)) /\ (i - Len(a) <= Len(b) <=> i <= Len(a) + Len(b))
        BY <1>6
      <4> QED
        BY <3>3, <4>1, <4>2, <4>3
    <3> QED
      BY <3>2, <3>3
  <2> QED
    BY <2>1, <2>2
<1> HIDE DEF At, n
<1>9. x = y
  <2>1. \A i \in 1 .. n : x[i] = y[i]
    BY <1>8
  <2>2. x = [i \in 1 .. n |-> x[i]] /\ y = [i \in 1 .. n |-> y[i]]
    BY <1>5, <1>7
  <2> QED
    BY <2>1, <2>2
<1> QED
  BY <1>9 DEF x, y

\* Nesting a concatenation nests its parts.
LEMMA NestedConcat ==
    ASSUME NEW prefix, NEW a, NEW b, IsLayout(a), IsLayout(b)
    PROVE  Nested(prefix, a \o b) = Nested(prefix, a) \o Nested(prefix, b)
PROOF
<1> DEFINE w == a \o b
           f == Nested(prefix, a)
           g == Nested(prefix, b)
           x == Nested(prefix, w)
           y == f \o g
           Item(u) == [u EXCEPT !.at = <<prefix>> \o u.at, !.part = Within(prefix, u.part)]
<1>1. IsSeq(a) /\ IsSeq(b) /\ IsLayout(w)
  BY ConcatLayout DEF IsLayout
<1>2. IsSeq(f) /\ IsSeq(g) /\ Len(f) = Len(a) /\ Len(g) = Len(b) /\ IsSeq(x) /\ Len(x) = Len(w)
  BY <1>1, Inside DEF IsLayout
<1>3. Len(w) = Len(a) + Len(b) /\ IsSeq(y) /\ Len(y) = Len(a) + Len(b)
  <2>1. Len(w) = Len(a) + Len(b)
    BY <1>1, SeqConcat
  <2> HIDE DEF f, g, w
  <2>2. IsSeq(y) /\ Len(y) = Len(f) + Len(g)
    BY <1>2, SeqConcat
  <2> QED
    BY <1>2, <2>1, <2>2
<1>4. ASSUME NEW u, IsSeq(u), NEW i \in 1 .. Len(u) PROVE Nested(prefix, u)[i] = Item(u[i])
  <2>1. i \in DOMAIN u
    BY <1>4, SeqFacts
  <2> QED
    BY <2>1 DEF Nested
<1> HIDE DEF Item
<1>5. ASSUME NEW i \in 1 .. Len(w) PROVE x[i] = y[i]
  <2>0. IsSeq(w)
    BY <1>1 DEF IsLayout
  <2>1. x[i] = Item(w[i])
    BY <1>4, <2>0
  <2>2. CASE i \in 1 .. Len(a)
    <3>1. w[i] = a[i] /\ f[i] = Item(a[i])
      BY <1>1, <1>4, <2>2, SeqConcat
    <3>2. y[i] = f[i]
      BY <1>2, <2>2, SeqConcat
    <3> QED
      BY <2>1, <3>1, <3>2
  <2>3. CASE \E j \in 1 .. Len(b) : i = Len(a) + j
    <3>1. PICK j \in 1 .. Len(b) : i = Len(a) + j
      BY <2>3
    <3>2. w[i] = b[j] /\ g[j] = Item(b[j])
      BY <1>1, <1>4, <3>1, SeqConcat
    <3>3. y[i] = g[j]
      BY <1>2, <3>1, SeqConcat
    <3> QED
      BY <2>1, <3>2, <3>3
  <2>4. i \in 1 .. Len(a) \/ \E j \in 1 .. Len(b) : i = Len(a) + j
    BY <1>1, SeqConcat
  <2> QED
    BY <2>2, <2>3, <2>4
<1>6. DOMAIN x = 1 .. Len(x) /\ DOMAIN y = 1 .. Len(y) /\ Len(x) = Len(y)
  BY <1>2, <1>3, SeqFacts
<1> HIDE DEF x, y
<1>7. x = [i \in DOMAIN x |-> x[i]] /\ y = [i \in DOMAIN y |-> y[i]]
  <2>1. IsSeq(x) /\ IsSeq(y)
    BY <1>2, <1>3
  <2> QED
    BY <2>1 DEF IsSeq
<1>8. x = y
  BY <1>2, <1>3, <1>5, <1>6, <1>7
<1> QED
  BY <1>8 DEF x, y

\* A plain object is plain when nested and as the element of a vector.
LEMMA InsidePlain ==
    ASSUME NEW w, Plain(w), NEW prefix, NEW n \in Nat
    PROVE  /\ IsLayout(w) /\ Plain(Nested(prefix, w)) /\ Plain(Ignored(prefix, w)) /\ Plain(Elements(n, w))
           /\ Like(w, Unchecked(w)) /\ Like(ElementsIgnored(n, w), Elements(n, w))
PROOF
<1>1. Like(w, w) /\ IsLayout(w)
  BY DEF Plain, Like
<1> QED
  BY <1>1, InsideLike, ElementsLike DEF Plain

\* The layouts of the classes are plain.
LEMMA ProfilesPlain ==
    /\ Plain(AccesserMarshalling) /\ Plain(AccesseeMarshalling) /\ Plain(AccessControlProfileMarshalling)
    /\ Plain(ServiceInfoMarshalling) /\ Plain(LocalServiceInfoMarshalling)
    /\ Plain(ServiceProfileMarshalling) /\ Plain(CharacteristicProfileMarshalling)
    /\ Plain(ProductInfoMarshalling) /\ Plain(TrustedDeviceInfoMarshalling) /\ Plain(UserInfoMarshalling)
    /\ Plain(BusinessEventMarshalling) /\ Plain(Size)
PROOF
<1>1. Plain(AccesserMarshalling)
  BY FieldsPlain, ConcatPlain DEF AccesserMarshalling
<1>2. Plain(AccesseeMarshalling)
  BY FieldsPlain, ConcatPlain DEF AccesseeMarshalling
<1>3. Plain(AccessControlProfileMarshalling)
  <2>1. Plain(Ignored("accesser", AccesserMarshalling)) /\ Plain(Ignored("accessee", AccesseeMarshalling))
    BY <1>1, <1>2, InsidePlain
  <2> QED
    BY <2>1, FieldsPlain, ConcatPlain DEF AccessControlProfileMarshalling
<1>4. Plain(ServiceInfoMarshalling)
  BY FieldsPlain, ConcatPlain, SMTT(60) DEF ServiceInfoMarshalling
<1>5. /\ Plain(LocalServiceInfoMarshalling) /\ Plain(ServiceProfileMarshalling)
      /\ Plain(CharacteristicProfileMarshalling)
  <2>1. Plain(LocalServiceInfoMarshalling)
    BY FieldsPlain, ConcatPlain DEF LocalServiceInfoMarshalling
  <2>2. Plain(ServiceProfileMarshalling)
    BY FieldsPlain, ConcatPlain DEF ServiceProfileMarshalling
  <2>3. Plain(CharacteristicProfileMarshalling)
    BY FieldsPlain, ConcatPlain DEF CharacteristicProfileMarshalling
  <2> QED
    BY <2>1, <2>2, <2>3
<1>6. /\ Plain(ProductInfoMarshalling) /\ Plain(TrustedDeviceInfoMarshalling)
      /\ Plain(UserInfoMarshalling) /\ Plain(BusinessEventMarshalling) /\ Plain(Size)
  <2>1. Plain(ProductInfoMarshalling) /\ Plain(BusinessEventMarshalling) /\ Plain(Size)
    BY FieldsPlain DEF ProductInfoMarshalling, BusinessEventMarshalling, Size
  <2>2. Plain(TrustedDeviceInfoMarshalling)
    BY FieldsPlain, ConcatPlain DEF TrustedDeviceInfoMarshalling
  <2>3. Plain(UserInfoMarshalling)
    BY FieldsPlain, ConcatPlain DEF UserInfoMarshalling
  <2> QED
    BY <2>1, <2>2, <2>3
<1> QED
  BY <1>1, <1>2, <1>3, <1>4, <1>5, <1>6

\* So is that of a device profile.
LEMMA DeviceProfilePlain == Plain(DeviceProfileMarshalling)
PROOF
<1>1. /\ Plain(String(<<"devType", "manu", "sn", "productId", "productName", "subProductId", "hiv", "mac",
                        "fwv", "hwv", "swv">>))
      /\ Plain(String(<<"wiseUserId", "wiseDeviceId", "registerTime", "modifyTime", "shareTime", "accountId",
                        "internalModel", "bleMac", "brMac", "sleMac">>))
      /\ Plain(String(<<"deviceId", "deviceName", "manufactureName", "deviceModel">>))
  BY FieldsPlain
<1> QED
  BY <1>1, FieldsPlain, ConcatPlain DEF DeviceProfileMarshalling

\* Bytes within the limit are plain and are read as they are written; above it they are
\* refused, and with an icon of any size an icon info is a layout.
LEMMA BytesPlain ==
    ASSUME NEW n \in Sizes
    PROVE  /\ IsLayout(BytesMarshalling[n]) /\ IsLayout(DeviceIconInfoMarshalling[n])
           /\ ~(n > MaxItems) => /\ Plain(BytesMarshalling[n]) /\ Plain(DeviceIconInfoMarshalling[n])
                                 /\ BytesUnMarshalling[n] = BytesMarshalling[n]
                                 /\ DeviceIconInfoUnMarshalling[n] = DeviceIconInfoMarshalling[n]
           /\ n > MaxItems => BytesMarshalling[n] = Refuse
PROOF
<1> DEFINE b == BytesMarshalling[n]
           names == String(<<"productId", "internalModel", "subProductId", "imageType", "specName", "version",
                             "wiseVersion", "url">>) \o Int64(<<"modifyTime">>)
<1>1. n > MaxItems => b = Refuse
  BY DEF BytesMarshalling
<1>2. ASSUME ~(n > MaxItems) PROVE Plain(b) /\ BytesUnMarshalling[n] = b
  <2>1. Plain(Fields("Raw", <<"data">>))
    BY FieldsPlain
  <2>2. b = Size \o IF n = 0 THEN <<>> ELSE Fields("Raw", <<"data">>)
    BY <1>2 DEF BytesMarshalling
  <2>3. Plain(b)
    BY <2>1, <2>2, ProfilesPlain, EmptyPlain, ConcatPlain
  <2> QED
    BY <1>2, <2>2, <2>3 DEF BytesUnMarshalling
<1>3. Plain(names)
  BY FieldsPlain, ConcatPlain
<1>4. /\ DeviceIconInfoMarshalling[n] = names \o Ignored("icon", b)
      /\ DeviceIconInfoUnMarshalling[n] = names \o Ignored("icon", BytesUnMarshalling[n])
  BY DEF DeviceIconInfoMarshalling, DeviceIconInfoUnMarshalling
<1> HIDE DEF b, names
<1>5. ASSUME NEW w, Plain(w) PROVE IsLayout(w)
  BY <1>5 DEF Plain, Like
<1>6. IsLayout(b)
  BY <1>1, <1>2, <1>5, RefuseRefusing
<1>7. IsLayout(Ignored("icon", b))
  BY <1>6, Inside
<1>8. IsLayout(names \o Ignored("icon", b))
  BY <1>3, <1>5, <1>7, ConcatLayout
<1>9. ASSUME Plain(b) PROVE Plain(names \o Ignored("icon", b))
  <2>1. 0 \in Nat
    OBVIOUS
  <2>2. Plain(Ignored("icon", b))
    BY <1>9, <2>1, InsidePlain
  <2> QED
    BY <1>3, <2>2, ConcatPlain
<1> QED
  BY <1>1, <1>2, <1>4, <1>6, <1>8, <1>9 DEF b

\* The results of the queries of one object are written whatever the parcel holds.
LEMMA ProfilesFlat ==
    /\ Flat(LocalServiceInfoMarshalling) /\ Flat(ServiceProfileMarshalling)
    /\ Flat(CharacteristicProfileMarshalling) /\ Flat(DeviceProfileMarshalling)
    /\ Flat(BusinessEventMarshalling) /\ Flat(Size)
PROOF
<1>1. /\ Flat(LocalServiceInfoMarshalling) /\ Flat(ServiceProfileMarshalling)
      /\ Flat(CharacteristicProfileMarshalling) /\ Flat(BusinessEventMarshalling) /\ Flat(Size)
  <2>1. Flat(LocalServiceInfoMarshalling)
    BY FieldsFlat, ConcatFlat DEF LocalServiceInfoMarshalling
  <2>2. Flat(ServiceProfileMarshalling)
    BY FieldsFlat, ConcatFlat DEF ServiceProfileMarshalling
  <2>3. Flat(CharacteristicProfileMarshalling)
    BY FieldsFlat, ConcatFlat DEF CharacteristicProfileMarshalling
  <2>4. Flat(BusinessEventMarshalling) /\ Flat(Size)
    BY FieldsFlat DEF BusinessEventMarshalling, Size
  <2> QED
    BY <2>1, <2>2, <2>3, <2>4
<1>2. /\ Flat(String(<<"devType", "manu", "sn", "productId", "productName", "subProductId", "hiv", "mac",
                       "fwv", "hwv", "swv">>))
      /\ Flat(String(<<"wiseUserId", "wiseDeviceId", "registerTime", "modifyTime", "shareTime", "accountId",
                       "internalModel", "bleMac", "brMac", "sleMac">>))
      /\ Flat(String(<<"deviceId", "deviceName", "manufactureName", "deviceModel">>))
  BY FieldsFlat
<1>3. Flat(DeviceProfileMarshalling)
  BY <1>2, FieldsFlat, ConcatFlat DEF DeviceProfileMarshalling
<1> QED
  BY <1>1, <1>3

\* Both sides of a class name the same fields in the same order.
LEMMA BothSides ==
    /\ AccessControlProfileUnMarshalling = AccessControlProfileMarshalling
    /\ ServiceInfoUnMarshalling = ServiceInfoMarshalling
    /\ LocalServiceInfoUnMarshalling = LocalServiceInfoMarshalling
    /\ DeviceProfileUnMarshalling = DeviceProfileMarshalling
    /\ ServiceProfileUnMarshalling = ServiceProfileMarshalling
    /\ CharacteristicProfileUnMarshalling = CharacteristicProfileMarshalling
    /\ ProductInfoUnMarshalling = ProductInfoMarshalling
    /\ TrustedDeviceInfoUnMarshalling = TrustedDeviceInfoMarshalling
    /\ UserInfoUnMarshalling = UserInfoMarshalling
    /\ Like(BusinessEventMarshalling, BusinessEventUnMarshalling)
PROOF
<1>1. AccesserUnMarshalling = AccesserMarshalling /\ AccesseeUnMarshalling = AccesseeMarshalling
  BY DEF AccesserMarshalling, AccesserUnMarshalling, AccesseeMarshalling, AccesseeUnMarshalling
<1>2. AccessControlProfileUnMarshalling = AccessControlProfileMarshalling
  BY <1>1 DEF AccessControlProfileMarshalling, AccessControlProfileUnMarshalling
<1>3. /\ ServiceInfoUnMarshalling = ServiceInfoMarshalling
      /\ LocalServiceInfoUnMarshalling = LocalServiceInfoMarshalling
  BY DEF ServiceInfoMarshalling, ServiceInfoUnMarshalling, LocalServiceInfoMarshalling,
         LocalServiceInfoUnMarshalling
<1>4. DeviceProfileUnMarshalling = DeviceProfileMarshalling
  BY DEF DeviceProfileMarshalling, DeviceProfileUnMarshalling
<1>5. /\ ServiceProfileUnMarshalling = ServiceProfileMarshalling
      /\ CharacteristicProfileUnMarshalling = CharacteristicProfileMarshalling
      /\ ProductInfoUnMarshalling = ProductInfoMarshalling
  BY DEF ServiceProfileMarshalling, ServiceProfileUnMarshalling, CharacteristicProfileMarshalling,
         CharacteristicProfileUnMarshalling, ProductInfoMarshalling, ProductInfoUnMarshalling
<1>6. /\ TrustedDeviceInfoUnMarshalling = TrustedDeviceInfoMarshalling
      /\ UserInfoUnMarshalling = UserInfoMarshalling
  BY DEF TrustedDeviceInfoMarshalling, TrustedDeviceInfoUnMarshalling, UserInfoMarshalling, UserInfoUnMarshalling
<1>7. Like(BusinessEventMarshalling, BusinessEventUnMarshalling)
  <2>1. BusinessEventUnMarshalling = Unchecked(BusinessEventMarshalling)
    BY DEF BusinessEventMarshalling, BusinessEventUnMarshalling
  <2>2. 0 \in Nat
    OBVIOUS
  <2> QED
    BY <2>1, <2>2, ProfilesPlain, InsidePlain
<1> QED
  BY <1>2, <1>3, <1>4, <1>5, <1>6, <1>7

-----------------------------------------------------------------------------
(* Vectors of any number of elements.                                      *)

-----------------------------------------------------------------------------
\* The vectors, and the layouts of a call.

Agree(f, g) == \A n \in Sizes : IsLayout(f[n]) /\ Understood(f[n], g[n])
AgreeBut(f, g, cut) == \A n \in Sizes : IsLayout(f[n]) /\ (n \notin cut => Understood(f[n], g[n]))

\* Who agree for every number of elements agree for some.
LEMMA AgreeSome == \A f, g, cut : Agree(f, g) => AgreeBut(f, g, cut)
PROOF
  BY DEF Agree, AgreeBut

\* A number of elements is a natural number.
LEMMA SizesNat == \A n \in Sizes : n \in Nat
PROOF
  BY SizesAssumption

\* What is alike is a layout.
LEMMA LikeLayout ==
    ASSUME NEW w, NEW r, Like(w, r)
    PROVE  IsLayout(w) /\ IsLayout(r) /\ IsSeq(w) /\ IsSeq(r)
PROOF
  BY DEF Like, IsLayout

\* The size of a vector, and a refusal, are layouts.
LEMMA SizeLayout ==
    /\ Plain(Size) /\ IsLayout(Size) /\ IsSeq(Size) /\ IsLayout(Refuse) /\ IsLayout(Size \o Refuse)
    /\ Size \o <<>> = Size
PROOF
<1>1. Plain(Size)
  BY ProfilesPlain
<1>2. IsLayout(Size) /\ IsSeq(Size)
  BY <1>1, LikeLayout DEF Plain
<1> QED
  BY <1>1, <1>2, RefuseRefusing, ConcatLayout, SeqEmpty

\* A vector that both sides refuse when it is empty or too large.
LEMMA NonEmptyUnderstood ==
    ASSUME NEW n \in Nat, NEW a, NEW b, n # 0 /\ ~(n > MaxItems) => Like(a, b)
    PROVE  /\ IsLayout(NonEmpty(n, a)) /\ Understood(NonEmpty(n, a), NonEmpty(n, b))
           /\ NonEmpty(n, a) = NonEmpty(n, b) \/ Like(NonEmpty(n, a), NonEmpty(n, b))
PROOF
<1>1. CASE n = 0 \/ n > MaxItems
  <2>1. NonEmpty(n, a) = Size \o Refuse /\ NonEmpty(n, b) = Size \o Refuse
    BY <1>1 DEF NonEmpty
  <2> QED
    BY <2>1, SizeLayout, UnderstoodSame
<1>2. CASE n # 0 /\ ~(n > MaxItems)
  <2>1. NonEmpty(n, a) = Size \o a /\ NonEmpty(n, b) = Size \o b
    BY <1>2 DEF NonEmpty
  <2>2. Like(Size \o a, Size \o b)
    BY <1>2, SizeLayout, ConcatLike DEF Plain
  <2> QED
    BY <2>1, <2>2, LikeLayout, UnderstoodLike
<1> QED
  BY <1>1, <1>2

\* A vector that only the reader refuses when it is empty.
LEMMA MaybeEmptyUnderstood ==
    ASSUME NEW n \in Nat, NEW a, NEW b, ~(n > MaxItems) => Like(a, b), n = 0 => a = <<>>
    PROVE  /\ IsLayout(MaybeEmpty(n, a)) /\ Understood(MaybeEmpty(n, a), NonEmpty(n, b))
           /\ Understood(MaybeEmpty(n, a), MaybeEmpty(n, b))
PROOF
<1>0. MaxItems \in Nat
  BY SizesAssumption
<1>1. CASE n > MaxItems
  <2>1. MaybeEmpty(n, a) = Size \o Refuse /\ NonEmpty(n, b) = Size \o Refuse /\ MaybeEmpty(n, b) = Size \o Refuse
    BY <1>1 DEF NonEmpty, MaybeEmpty
  <2> QED
    BY <2>1, SizeLayout, UnderstoodSame
<1>2. CASE ~(n > MaxItems)
  <2>1. MaybeEmpty(n, a) = Size \o a /\ MaybeEmpty(n, b) = Size \o b
    BY <1>2 DEF MaybeEmpty
  <2>2. Like(Size \o a, Size \o b)
    BY <1>2, SizeLayout, ConcatLike DEF Plain
  <2>3. IsLayout(MaybeEmpty(n, a)) /\ Understood(MaybeEmpty(n, a), MaybeEmpty(n, b))
    BY <2>1, <2>2, LikeLayout, UnderstoodLike
  <2>4. CASE n = 0
    <3>1. NonEmpty(n, b) = Size \o Refuse /\ MaybeEmpty(n, a) = Size \o <<>>
      BY <2>1, <2>4 DEF NonEmpty
    <3>2. Understood(Size \o <<>>, Size \o Refuse)
      BY SizeLayout, EmptyPlain, RefuseRefusing, UnderstoodRefused
    <3> QED
      BY <2>3, <3>1, <3>2
  <2>5. CASE n # 0
    <3>1. NonEmpty(n, b) = Size \o b
      BY <1>2, <2>5 DEF NonEmpty
    <3> QED
      BY <2>1, <2>2, <2>3, <3>1, UnderstoodLike
  <2> QED
    BY <2>4, <2>5
<1> QED
  BY <1>1, <1>2

\* A vector of which only the reader limits the number.
LEMMA LimitUnderstood ==
    ASSUME NEW p, NEW a, NEW t, NEW u, Plain(p), Plain(a), Like(t, u)
    PROVE  /\ IsLayout((p \o a) \o t) /\ Understood((p \o a) \o t, (p \o Refuse) \o u)
           /\ IsLayout(p \o a) /\ Understood(p \o a, p \o Refuse)
PROOF
<1>1. /\ IsSeq(p) /\ IsSeq(a) /\ IsSeq(t) /\ IsSeq(u) /\ IsSeq(Refuse)
      /\ IsLayout(p) /\ IsLayout(a) /\ IsLayout(t) /\ IsLayout(u) /\ IsLayout(Refuse)
  BY LikeLayout, SizeLayout DEF Plain, IsLayout
<1> DEFINE pa == p \o a
           at == a \o t
           pr == p \o Refuse
           ru == Refuse \o u
<1>2. pa \o t = p \o at /\ pr \o u = p \o ru
  <2>1. pa = p \o a /\ at = a \o t /\ pr = p \o Refuse /\ ru = Refuse \o u
    OBVIOUS
  <2> HIDE DEF pa, at, pr, ru
  <2>2. pa \o t = p \o at
    BY <1>1, <2>1, SeqAssociative
  <2>3. pr \o u = p \o ru
    BY <1>1, <2>1, SeqAssociative
  <2> QED
    BY <2>2, <2>3
<1>3. Plain(t)
  <2>1. \A i \in 1 .. Len(t) : t[i].kind # "Refuse"
    BY DEF Like
  <2> QED
    BY <1>1, <2>1 DEF Plain, Like, Alike
<1>4. Plain(at) /\ Refusing(ru) /\ Refusing(Refuse) /\ Plain(pa) /\ IsLayout(pa)
  BY <1>1, <1>3, ConcatPlain, ConcatLayout, RefuseRefusing
<1>5. Understood(pa, pr) /\ Understood(p \o at, p \o ru)
  BY <1>4, UnderstoodRefused
<1> HIDE DEF pa, at, pr, ru
<1>6. IsLayout(pa \o t) /\ Understood(pa \o t, pr \o u)
  BY <1>1, <1>2, <1>4, <1>5, ConcatLayout
<1> QED
  BY <1>4, <1>5, <1>6 DEF pa, pr

\* Writers and readers that are equal or alike for every number of elements agree.
LEMMA Agreed ==
    ASSUME NEW f, NEW g, \A n \in Sizes : IsLayout(f[n]) /\ (f[n] = g[n] \/ Like(f[n], g[n]))
    PROVE  Agree(f, g)
PROOF
  BY UnderstoodSame, UnderstoodLike DEF Agree

\* So do those that do not depend on it.
LEMMA SameAgree ==
    ASSUME NEW w, NEW r, Like(w, r)
    PROVE  Agree(Same(w), Same(r))
PROOF
  BY LikeLayout, UnderstoodLike DEF Agree, Same

\* A call without arguments or results is understood.
LEMMA NothingAgree == Agree(Nothing, Nothing)
PROOF
  BY EmptyPlain, SameAgree DEF Nothing, Plain

\* The vectors of IpcUtils: both sides agree for every number of elements.
LEMMA VectorsAgree ==
    /\ Agree(DeviceProfilesMarshalling, DeviceProfilesUnMarshalling)
    /\ Agree(ProductInfosMarshalling, ProductInfosUnMarshalling)
    /\ Agree(ServiceProfilesMarshalling, ServiceProfilesUnMarshalling)
    /\ Agree(ParamsMarshalling, ParamsUnMarshalling)
    /\ Agree(CharProfilesMarshalling, CharProfilesUnMarshalling)
    /\ Agree(TrustedDevicesMarshalling, TrustedDevicesUnMarshalling)
    /\ Agree(AclProfilesMarshalling, AclProfilesUnMarshalling)
PROOF
<1>1. ASSUME NEW n \in Nat, NEW w, Plain(w)
      PROVE  /\ IsLayout(NonEmpty(n, Elements(n, w)))
             /\ Understood(NonEmpty(n, Elements(n, w)), NonEmpty(n, Elements(n, w)))
             /\ IsLayout(NonEmpty(n, ElementsIgnored(n, w)))
             /\ Understood(NonEmpty(n, ElementsIgnored(n, w)), NonEmpty(n, Elements(n, w)))
             /\ IsLayout(MaybeEmpty(n, Elements(n, w)))
             /\ Understood(MaybeEmpty(n, Elements(n, w)), NonEmpty(n, Elements(n, w)))
             /\ IsLayout(MaybeEmpty(n, ElementsIgnored(n, w)))
             /\ Understood(MaybeEmpty(n, ElementsIgnored(n, w)), NonEmpty(n, Elements(n, w)))
  <2>1. Like(Elements(n, w), Elements(n, w)) /\ Like(ElementsIgnored(n, w), Elements(n, w))
    BY <1>1, InsidePlain DEF Plain
  <2>2. n = 0 => Elements(n, w) = <<>> /\ ElementsIgnored(n, w) = <<>>
    BY ElementsNothing
  <2> QED
    BY <2>1, <2>2, NonEmptyUnderstood, MaybeEmptyUnderstood
<1>2. Plain(String(<<"key#value">>))
  BY FieldsPlain
<1>3. Agree(DeviceProfilesMarshalling, DeviceProfilesUnMarshalling)
  BY <1>1, SizesNat, DeviceProfilePlain, BothSides
     DEF Agree, DeviceProfilesMarshalling, DeviceProfilesUnMarshalling
<1>4. Agree(ProductInfosMarshalling, ProductInfosUnMarshalling)
  BY <1>1, SizesNat, ProfilesPlain, BothSides DEF Agree, ProductInfosMarshalling, ProductInfosUnMarshalling
<1>5. Agree(ServiceProfilesMarshalling, ServiceProfilesUnMarshalling)
  BY <1>1, SizesNat, ProfilesPlain, BothSides DEF Agree, ServiceProfilesMarshalling, ServiceProfilesUnMarshalling
<1>6. Agree(ParamsMarshalling, ParamsUnMarshalling)
  BY <1>1, <1>2, SizesNat DEF Agree, ParamsMarshalling, ParamsUnMarshalling
<1>7. Agree(CharProfilesMarshalling, CharProfilesUnMarshalling)
  BY <1>1, SizesNat, ProfilesPlain, BothSides DEF Agree, CharProfilesMarshalling, CharProfilesUnMarshalling
<1>8. Agree(TrustedDevicesMarshalling, TrustedDevicesUnMarshalling)
  BY <1>1, SizesNat, ProfilesPlain, BothSides DEF Agree, TrustedDevicesMarshalling, TrustedDevicesUnMarshalling
<1>9. Agree(AclProfilesMarshalling, AclProfilesUnMarshalling)
  BY <1>1, SizesNat, ProfilesPlain, BothSides DEF Agree, AclProfilesMarshalling, AclProfilesUnMarshalling
<1> QED
  BY <1>3, <1>4, <1>5, <1>6, <1>7, <1>8, <1>9

\* The vectors of icon infos none of whose icons is too large.
LEMMA IconInfosAgree ==
    ASSUME NEW cut, \A n \in Sizes : Oversized(n) => n \in cut
    PROVE  AgreeBut(IconInfosMarshalling, IconInfosUnMarshalling, cut)
PROOF
<1> SUFFICES ASSUME NEW n \in Sizes
             PROVE  /\ IsLayout(IconInfosMarshalling[n])
                    /\ ~Oversized(n) => Understood(IconInfosMarshalling[n], IconInfosUnMarshalling[n])
  BY DEF AgreeBut
<1> DEFINE f == [i \in 1 .. n |-> Ignored(ToString(i), DeviceIconInfoMarshalling[IconSizes[n][i]])]
           g == [i \in 1 .. n |-> Nested(ToString(i), DeviceIconInfoUnMarshalling[IconSizes[n][i]])]
           a == FlattenSeq(f)
           b == FlattenSeq(g)
<1>0. n \in Nat
  BY SizesNat
<1>1. IconInfosMarshalling[n] = MaybeEmpty(n, a) /\ IconInfosUnMarshalling[n] = NonEmpty(n, b)
  BY DEF IconInfosMarshalling, IconInfosUnMarshalling
<1>2. ASSUME NEW i \in 1 .. n PROVE IsLayout(f[i]) /\ (~Oversized(n) => Like(f[i], g[i]))
  <2> DEFINE k == IconSizes[n][i]
             d == DeviceIconInfoMarshalling[k]
             e == DeviceIconInfoUnMarshalling[k]
  <2>1. k \in Sizes
    BY SizesAssumption
  <2>2. ~Oversized(n) => ~(k > MaxItems)
    BY DEF Oversized
  <2>3. f[i] = Ignored(ToString(i), d) /\ g[i] = Nested(ToString(i), e)
    OBVIOUS
  <2> HIDE DEF k, f, g
  <2>4. IsLayout(d) /\ (~Oversized(n) => Plain(d) /\ e = d)
    BY <2>1, <2>2, BytesPlain
  <2> HIDE DEF d, e
  <2>5. IsLayout(Ignored(ToString(i), d))
    BY <2>4, Inside
  <2>6. ~Oversized(n) => Like(Ignored(ToString(i), d), Nested(ToString(i), e))
    BY <2>4, InsideLike DEF Plain
  <2> QED
    BY <2>3, <2>5, <2>6
<1>3. f = [i \in 1 .. n |-> f[i]] /\ g = [i \in 1 .. n |-> g[i]]
  OBVIOUS
<1>4. n = 0 => f = <<>>
  OBVIOUS
<1> HIDE DEF f, g
<1>5. IsLayout(a) /\ (n = 0 => a = <<>>)
  BY <1>0, <1>2, <1>3, <1>4, FlattenLayout, FlattenNothing
<1>6. ~Oversized(n) => Like(a, b)
  BY <1>0, <1>2, <1>3, FlattenLike
<1> HIDE DEF a, b
<1>7. IsLayout(MaybeEmpty(n, a))
  BY <1>5, SizeLayout, ConcatLayout DEF MaybeEmpty
<1>8. ~Oversized(n) => Understood(MaybeEmpty(n, a), NonEmpty(n, b))
  BY <1>0, <1>5, <1>6, MaybeEmptyUnderstood
<1> QED
  BY <1>1, <1>7, <1>8

\* The vector of service infos, whose writer refuses before it writes the size.
LEMMA ServiceInfosAgree == Agree(ServiceInfosMarshalling, ServiceInfosUnMarshalling)
PROOF
<1> SUFFICES ASSUME NEW n \in Sizes
             PROVE  /\ IsLayout(ServiceInfosMarshalling[n])
                    /\ Understood(ServiceInfosMarshalling[n], ServiceInfosUnMarshalling[n])
  BY DEF Agree
<1> DEFINE e == Elements(n, ServiceInfoMarshalling)
<1>1. Plain(e)
  BY SizesNat, ProfilesPlain, InsidePlain
<1>2. /\ ServiceInfosMarshalling[n] = IF n > MaxItems THEN Refuse ELSE Size \o e
      /\ ServiceInfosUnMarshalling[n] = Size \o IF n > MaxItems THEN Refuse ELSE e
  BY BothSides DEF ServiceInfosMarshalling, ServiceInfosUnMarshalling, MaybeEmpty
<1>3. Like(Size \o e, Size \o e)
  BY <1>1, SizeLayout, ConcatPlain DEF Plain
<1> HIDE DEF e
<1>4. CASE n > MaxItems
  BY <1>2, <1>4, RefuseRefusing DEF Understood
<1>5. CASE ~(n > MaxItems)
  BY <1>2, <1>3, <1>5, LikeLayout, UnderstoodLike
<1> QED
  BY <1>4, <1>5

\* A trusted device with too many service ids is written and refused by the reader, also twice.
LEMMA TrustDeviceProfileUnderstood ==
    ASSUME NEW n \in Sizes
    PROVE  LET w == TrustDeviceProfileMarshalling[n]
               r == TrustDeviceProfileUnMarshalling[n]
           IN  /\ Plain(w) /\ Understood(w, r)
               /\ Understood(Nested("old", w) \o Nested("new", w), Nested("old", r) \o Nested("new", r))
               /\ ~(n > MaxItems) => w = r
PROOF
<1> DEFINE w == TrustDeviceProfileMarshalling[n]
           r == TrustDeviceProfileUnMarshalling[n]
           p == String(<<"deviceId">>) \o Uint32(<<"deviceIdType">>) \o String(<<"deviceIdHash">>)
                \o Int32(<<"status">>) \o Uint32(<<"bindType">>) \o Int32(<<"peerUserId", "localUserId">>)
                \o String(<<"peerAccountId", "localAccountId">>)
                \o Size
           e == Elements(n, Int64(<<"serviceId">>))
<1>1. w = p \o e /\ r = p \o (IF n > MaxItems THEN Refuse ELSE e)
  BY DEF TrustDeviceProfileMarshalling, TrustDeviceProfileUnMarshalling
<1>2. Plain(p)
  BY FieldsPlain, ConcatPlain, ProfilesPlain
<1>3. Plain(e)
  <2>1. Plain(Int64(<<"serviceId">>))
    BY FieldsPlain
  <2> QED
    BY <2>1, SizesNat, InsidePlain
<1> HIDE DEF w, r, p, e
<1>4. Plain(w)
  BY <1>1, <1>2, <1>3, ConcatPlain
<1>5. Plain(Nested("old", w)) /\ Plain(Nested("new", w)) /\ Plain(Nested("old", p)) /\ Plain(Nested("old", e))
  BY <1>2, <1>3, <1>4, SizesNat, InsidePlain
<1>6. CASE n > MaxItems
  <2>1. r = p \o Refuse
    BY <1>1, <1>6
  <2>2. IsLayout(p) /\ IsLayout(e) /\ IsLayout(Refuse) /\ IsLayout(r)
    BY <1>2, <1>3, <2>1, LikeLayout, SizeLayout, ConcatLayout DEF Plain
  <2>3. Understood(w, r)
    BY <1>1, <1>2, <1>3, <2>1, RefuseRefusing, UnderstoodRefused
  <2> DEFINE q == Nested("old", p)
             f == Nested("old", e)
             x == Nested("old", Refuse)
             y == Nested("new", w)
             z == Nested("new", r)
  <2>4. Nested("old", w) = q \o f /\ Nested("old", r) = q \o x
    <3>1. w = p \o e
      BY <1>1
    <3>2. Nested("old", p \o e) = q \o f
      BY <2>2, NestedConcat
    <3>3. Nested("old", p \o Refuse) = q \o x
      BY <2>2, NestedConcat
    <3> QED
      BY <2>1, <3>1, <3>2, <3>3
  <2>5. Refusing(x) /\ IsLayout(z)
    BY <2>2, RefuseRefusing, Inside
  <2>6. Plain(q) /\ Plain(f) /\ Plain(y)
    BY <1>5
  <2> HIDE DEF q, f, x, y, z
  <2>7. IsSeq(q) /\ IsSeq(f) /\ IsSeq(x) /\ IsSeq(y) /\ IsSeq(z)
    BY <2>5, <2>6, LikeLayout DEF Plain, Refusing, IsLayout
  <2> DEFINE qf == q \o f
             fy == f \o y
             qx == q \o x
             xz == x \o z
  <2>8. qf \o y = q \o fy /\ qx \o z = q \o xz
    <3>1. qf = q \o f /\ fy = f \o y /\ qx = q \o x /\ xz = x \o z
      OBVIOUS
    <3> HIDE DEF qf, fy, qx, xz
    <3>2. qf \o y = q \o fy
      BY <2>7, <3>1, SeqAssociative
    <3>3. qx \o z = q \o xz
      BY <2>7, <3>1, SeqAssociative
    <3> QED
      BY <3>2, <3>3
  <2>9. Plain(fy) /\ Refusing(xz)
    BY <2>5, <2>6, ConcatPlain, RefuseRefusing
  <2> HIDE DEF qf, fy, qx, xz
  <2>11. Understood(q \o fy, q \o xz)
    <3>1. fy = f \o y /\ xz = x \o z
      BY DEF fy, xz
    <3> QED
      BY <2>6, <2>9, UnderstoodRefused
  <2>10. Understood(qf \o y, qx \o z)
    BY <2>8, <2>11
  <2> QED
    BY <1>4, <1>6, <2>3, <2>4, <2>10 DEF w, r, y, z, qf, qx
<1>7. CASE ~(n > MaxItems)
  <2>1. w = r
    BY <1>1, <1>7
  <2>2. Plain(Nested("old", w) \o Nested("new", w))
    BY <1>5, ConcatPlain
  <2> QED
    BY <1>4, <2>1, <2>2, UnderstoodLike DEF w, r, Plain
<1> QED
  BY <1>6, <1>7

\* Trusted devices, alone, as the old and the new one of an update, and as a vector.
LEMMA TrustDeviceProfilesAgree ==
    /\ Agree(TrustDeviceProfileMarshalling, TrustDeviceProfileUnMarshalling)
    /\ Agree(OldAndNew(TrustDeviceProfileMarshalling), OldAndNew(TrustDeviceProfileUnMarshalling))
    /\ Agree(TrustDeviceProfilesMarshalling, TrustDeviceProfilesUnMarshalling)
PROOF
<1>1. Agree(TrustDeviceProfileMarshalling, TrustDeviceProfileUnMarshalling)
  BY TrustDeviceProfileUnderstood, LikeLayout DEF Agree, Plain
<1>2. Agree(OldAndNew(TrustDeviceProfileMarshalling), OldAndNew(TrustDeviceProfileUnMarshalling))
  <2> SUFFICES ASSUME NEW n \in Sizes
               PROVE  LET w == TrustDeviceProfileMarshalling[n]
                          r == TrustDeviceProfileUnMarshalling[n]
                      IN  /\ IsLayout(Nested("old", w) \o Nested("new", w))
                          /\ Understood(Nested("old", w) \o Nested("new", w), Nested("old", r) \o Nested("new", r))
    BY DEF Agree, OldAndNew
  <2> DEFINE w == TrustDeviceProfileMarshalling[n]
  <2>1. Plain(w)
    BY TrustDeviceProfileUnderstood
  <2> HIDE DEF w
  <2>2. IsLayout(Nested("old", w)) /\ IsLayout(Nested("new", w))
    BY <2>1, LikeLayout, Inside DEF Plain
  <2>3. IsLayout(Nested("old", w) \o Nested("new", w))
    BY <2>2, ConcatLayout
  <2> QED
    BY <2>3, TrustDeviceProfileUnderstood DEF w
<1>3. Agree(TrustDeviceProfilesMarshalling, TrustDeviceProfilesUnMarshalling)
  <2> SUFFICES ASSUME NEW n \in Sizes
               PROVE  /\ IsLayout(TrustDeviceProfilesMarshalling[n])
                      /\ Understood(TrustDeviceProfilesMarshalling[n], TrustDeviceProfilesUnMarshalling[n])
    BY DEF Agree
  <2> DEFINE w == TrustDeviceProfileMarshalling[n]
             r == TrustDeviceProfileUnMarshalling[n]
  <2>1. n \in Nat /\ Plain(w) /\ (~(n > MaxItems) => w = r)
    BY SizesNat, TrustDeviceProfileUnderstood
  <2>2. /\ TrustDeviceProfilesMarshalling[n] = NonEmpty(n, Elements(n, w))
        /\ TrustDeviceProfilesUnMarshalling[n] = NonEmpty(n, Elements(n, r))
    BY DEF TrustDeviceProfilesMarshalling, TrustDeviceProfilesUnMarshalling
  <2> HIDE DEF w, r
  <2>3. ~(n > MaxItems) => Like(Elements(n, w), Elements(n, r))
    BY <2>1, InsidePlain DEF Plain
  <2> QED
    BY <2>1, <2>2, <2>3, NonEmptyUnderstood
<1> QED
  BY <1>1, <1>2, <1>3

-----------------------------------------------------------------------------
(* Filters, subscriptions, synchronisation, session keys.                  *)

\* A plain layout agrees with itself.
LEMMA SamePlain ==
    ASSUME NEW w, Plain(w)
    PROVE  Agree(Same(w), Same(w)) /\ IsLayout(w)
PROOF
  BY SameAgree, LikeLayout DEF Plain

\* Both sides of every class agree.
LEMMA ClassesAgree ==
    /\ Agree(Same(AccessControlProfileMarshalling), Same(AccessControlProfileUnMarshalling))
    /\ Agree(Same(ServiceInfoMarshalling), Same(ServiceInfoUnMarshalling))
    /\ Agree(Same(LocalServiceInfoMarshalling), Same(LocalServiceInfoUnMarshalling))
    /\ Agree(Same(DeviceProfileMarshalling), Same(DeviceProfileUnMarshalling))
    /\ Agree(Same(ServiceProfileMarshalling), Same(ServiceProfileUnMarshalling))
    /\ Agree(Same(CharacteristicProfileMarshalling), Same(CharacteristicProfileUnMarshalling))
    /\ Agree(Same(UserInfoMarshalling), Same(UserInfoUnMarshalling))
    /\ Agree(Same(BusinessEventMarshalling), Same(BusinessEventUnMarshalling))
    /\ Agree(BytesMarshalling, BytesUnMarshalling)
PROOF
<1>1. ASSUME NEW n \in Sizes
      PROVE  IsLayout(BytesMarshalling[n]) /\ Understood(BytesMarshalling[n], BytesUnMarshalling[n])
  <2>1. CASE n > MaxItems
    BY <2>1, BytesPlain, RefuseRefusing DEF Understood
  <2>2. CASE ~(n > MaxItems)
    BY <2>2, BytesPlain, UnderstoodSame
  <2> QED
    BY <2>1, <2>2
<1>2. Agree(BytesMarshalling, BytesUnMarshalling)
  BY <1>1 DEF Agree
<1> QED
  BY <1>2, BothSides, ProfilesPlain, DeviceProfilePlain, SamePlain, SameAgree

\* Both sides of the notification of an update agree.
LEMMA OldAndNewAgree ==
    ASSUME NEW w, Plain(w)
    PROVE  Agree(OldAndNew(Same(w)), OldAndNew(Same(w)))
PROOF
<1>1. Plain(Nested("old", w) \o Nested("new", w))
  BY SizesNat, InsideLike, ConcatPlain DEF Plain
<1>2. ASSUME NEW n \in Sizes PROVE OldAndNew(Same(w))[n] = Nested("old", w) \o Nested("new", w)
  BY DEF OldAndNew, Same
<1> QED
  BY <1>1, <1>2, SamePlain, Agreed

\* The vectors of a filter are read as they are written.
LEMMA StringsLayout ==
    ASSUME NEW n \in Sizes
    PROVE  /\ IsLayout(StringsMarshalling[n]) /\ StringsUnMarshalling[n] = StringsMarshalling[n]
           /\ IsLayout(Int32sMarshalling[n]) /\ Int32sUnMarshalling[n] = Int32sMarshalling[n]
PROOF
<1>1. Plain(String(<<"item">>)) /\ Plain(Int32(<<"item">>))
  BY FieldsPlain
<1>2. ASSUME NEW w, Plain(w) PROVE IsLayout(MaybeEmpty(n, Elements(n, w)))
  <2>1. Like(Elements(n, w), Elements(n, w)) /\ (n = 0 => Elements(n, w) = <<>>)
    BY <1>2, SizesNat, InsidePlain, ElementsNothing DEF Plain
  <2> QED
    BY <2>1, SizesNat, MaybeEmptyUnderstood
<1> QED
  BY <1>1, <1>2 DEF StringsMarshalling, StringsUnMarshalling, Int32sMarshalling, Int32sUnMarshalling

\* Both sides of the filters agree.
LEMMA FiltersAgree ==
    /\ Agree(IconFilterMarshalling, IconFilterUnMarshalling)
    /\ Agree(DeviceProfileFilterMarshalling, DeviceProfileFilterUnMarshalling)
PROOF
<1>1. ASSUME NEW n \in Sizes
      PROVE  IsLayout(IconFilterMarshalling[n]) /\ IconFilterUnMarshalling[n] = IconFilterMarshalling[n]
  <2>1. IsLayout(Ignored("productIds", StringsMarshalling[n]))
    BY StringsLayout, Inside
  <2>2. IsLayout(String(<<"internalModel", "subProductId", "imageType", "specName">>))
    BY FieldsPlain, SamePlain
  <2> QED
    BY <2>1, <2>2, StringsLayout, ConcatLayout DEF IconFilterMarshalling, IconFilterUnMarshalling
<1>2. ASSUME NEW n \in Sizes
      PROVE  /\ IsLayout(DeviceProfileFilterMarshalling[n])
             /\ DeviceProfileFilterUnMarshalling[n] = DeviceProfileFilterMarshalling[n]
  <2>1. /\ IsLayout(Ignored("deviceIds", StringsMarshalling[n]))
        /\ IsLayout(Ignored("wiseDeviceIds", StringsMarshalling[n]))
        /\ IsLayout(Ignored("deviceProfileIds", Int32sMarshalling[n]))
    BY StringsLayout, Inside
  <2>2. IsLayout(Int32(<<"userId">>)) /\ IsLayout(String(<<"accountId">>))
    BY FieldsPlain, SamePlain
  <2>3. DeviceProfileFilterMarshalling[n] =
            Int32(<<"userId">>) \o String(<<"accountId">>) \o Ignored("deviceIds", StringsMarshalling[n])
            \o Ignored("wiseDeviceIds", StringsMarshalling[n]) \o Ignored("deviceProfileIds", Int32sMarshalling[n])
    BY DEF DeviceProfileFilterMarshalling
  <2>4. DeviceProfileFilterUnMarshalling[n] = DeviceProfileFilterMarshalling[n]
    BY StringsLayout DEF DeviceProfileFilterMarshalling, DeviceProfileFilterUnMarshalling
  <2> QED
    BY <2>1, <2>2, <2>3, <2>4, ConcatLayout
<1> QED
  BY <1>1, <1>2, Agreed

\* A subscription is read as it is written, its change types as unsigned numbers.
LEMMA SubscribeInfoAlike ==
    ASSUME NEW n \in Sizes
    PROVE  LET w == SubscribeInfoMarshalling[n]
               r == SubscribeInfoUnMarshalling[n]
           IN  /\ IsLayout(w) /\ (~OutOfRange(n) => w = r \/ Like(w, r))
               /\ n # 0 /\ ~(n > MaxItems) => Like(w, w) /\ (~OutOfRange(n) => Like(w, r))
PROOF
<1> DEFINE c == ChangeTypesMarshalling[n]
           d == ChangeTypesUnMarshalling[n]
           a == Int32(<<"saId">>) \o String(<<"subscribeKey">>)
           z == Remote("listener")
           w == a \o Ignored("types", c) \o z
           r == a \o Ignored("types", d) \o z
           x == Elements(n, Int32(<<"type">>))
           y == Elements(n, Uint32(<<"type">>))
           u == FlattenSeq([i \in 1 .. n |->
                    Nested(ToString(i), Uint32(<<"type">>) \o IF i \in InRange[n] THEN <<>> ELSE Refuse)])
<1>1. SubscribeInfoMarshalling[n] = w /\ SubscribeInfoUnMarshalling[n] = r
  BY DEF SubscribeInfoMarshalling, SubscribeInfoUnMarshalling
<1>2. c = NonEmpty(n, x) /\ d = NonEmpty(n, u)
  BY DEF ChangeTypesMarshalling, ChangeTypesUnMarshalling
<1>3. ~OutOfRange(n) => u = y
  <2> SUFFICES ASSUME ~OutOfRange(n) PROVE u = y
    OBVIOUS
  <2> DEFINE t == Uint32(<<"type">>)
  <2>1. t \o <<>> = t
    BY FieldsPlain, LikeLayout, SeqEmpty DEF Plain
  <2> HIDE DEF t
  <2>2. \A i \in 1 .. n : (t \o IF i \in InRange[n] THEN <<>> ELSE Refuse) = t
    BY <2>1 DEF OutOfRange
  <2>3. [i \in 1 .. n |-> Nested(ToString(i), t \o IF i \in InRange[n] THEN <<>> ELSE Refuse)]
            = [i \in 1 .. n |-> Nested(ToString(i), t)]
    BY <2>2
  <2> QED
    BY <2>3 DEF Elements, t
<1>4. Like(x, y) /\ Like(x, x)
  <2>1. Like(Int32(<<"type">>), Uint32(<<"type">>)) /\ Like(Int32(<<"type">>), Int32(<<"type">>))
    BY FieldsPlain DEF Plain
  <2> QED
    BY <2>1, SizesNat, ElementsLike
<1>5. IsLayout(c) /\ (~OutOfRange(n) => c = d \/ Like(c, d))
  <2> HIDE DEF c, d, x, y, u
  <2> QED
    BY <1>2, <1>3, <1>4, SizesNat, NonEmptyUnderstood
<1>6. n # 0 /\ ~(n > MaxItems) => Like(c, c) /\ (~OutOfRange(n) => Like(c, d))
  <2> HIDE DEF c, d, x, y, u
  <2>1. n # 0 /\ ~(n > MaxItems) => c = Size \o x /\ d = Size \o u
    BY <1>2 DEF NonEmpty
  <2> QED
    BY <1>3, <1>4, <2>1, SizeLayout, ConcatLike DEF Plain
<1>7. Plain(a) /\ Plain(z)
  BY FieldsPlain, ConcatPlain DEF Remote
<1> HIDE DEF c, d, a, z, x, y, u
<1>8. IsLayout(w)
  BY <1>5, <1>7, SamePlain, Inside, ConcatLayout
<1>9. ASSUME NEW e, NEW f, Like(e, f)
      PROVE  Like(a \o Ignored("types", e) \o z, a \o Ignored("types", f) \o z)
  <2>1. Like(Ignored("types", e), Ignored("types", f))
    BY <1>9, InsideLike
  <2> QED
    BY <1>7, <2>1, ConcatLike DEF Plain
<1> QED
  BY <1>1, <1>5, <1>6, <1>8, <1>9

\* Both sides of a subscription and of the map of the listeners agree when every change type
\* is in range.
LEMMA SubscriptionsAgree ==
    ASSUME NEW cut, \A n \in Sizes : OutOfRange(n) => n \in cut
    PROVE  /\ AgreeBut(SubscribeInfoMarshalling, SubscribeInfoUnMarshalling, cut)
           /\ AgreeBut(ListenerMapMarshalling, ListenerMapUnMarshalling, cut)
PROOF
<1>1. AgreeBut(SubscribeInfoMarshalling, SubscribeInfoUnMarshalling, cut)
  BY SubscribeInfoAlike, UnderstoodSame, UnderstoodLike DEF AgreeBut
<1>2. AgreeBut(ListenerMapMarshalling, ListenerMapUnMarshalling, cut)
  <2> SUFFICES ASSUME NEW n \in Sizes
               PROVE  /\ IsLayout(ListenerMapMarshalling[n])
                      /\ ~OutOfRange(n) => Understood(ListenerMapMarshalling[n], ListenerMapUnMarshalling[n])
    BY DEF AgreeBut
  <2> DEFINE w == SubscribeInfoMarshalling[n]
             r == SubscribeInfoUnMarshalling[n]
  <2>1. n # 0 /\ ~(n > MaxItems) => Like(w, w) /\ (~OutOfRange(n) => Like(w, r))
    BY SubscribeInfoAlike
  <2>2. /\ ListenerMapMarshalling[n] = NonEmpty(n, Elements(n, w))
        /\ ListenerMapUnMarshalling[n] = NonEmpty(n, Elements(n, r))
    BY DEF ListenerMapMarshalling, ListenerMapUnMarshalling
  <2> HIDE DEF w, r
  <2>3. n # 0 /\ ~(n > MaxItems) =>
            /\ Like(Elements(n, w), Elements(n, w))
            /\ ~OutOfRange(n) => Like(Elements(n, w), Elements(n, r))
    BY <2>1, SizesNat, ElementsLike
  <2>4. IsLayout(NonEmpty(n, Elements(n, w)))
    BY <2>3, SizesNat, NonEmptyUnderstood
  <2>5. ~OutOfRange(n) => Understood(NonEmpty(n, Elements(n, w)), NonEmpty(n, Elements(n, r)))
    BY <2>3, SizesNat, NonEmptyUnderstood
  <2> QED
    BY <2>2, <2>4, <2>5
<1> QED
  BY <1>1, <1>2

\* Both sides of a synchronisation, of whose devices only the reader limits the number.
LEMMA SyncAgree ==
    /\ Agree([n \in Sizes |-> SyncOptionsMarshalling[n] \o Remote("syncCompletedCallback")],
             [n \in Sizes |-> SyncOptionsUnMarshalling[n] \o Unchecked(Remote("syncCompletedCallback"))])
    /\ Agree(SyncResultsMarshalling, SyncResultsUnMarshalling)
PROOF
<1>0. \A n \in Sizes : n \in Nat
  BY SizesNat
<1>1. ASSUME NEW n \in Sizes
      PROVE  LET w == SyncOptionsMarshalling[n] \o Remote("syncCompletedCallback")
                 r == SyncOptionsUnMarshalling[n] \o Unchecked(Remote("syncCompletedCallback"))
             IN  IsLayout(w) /\ Understood(w, r)
  <2> DEFINE p == Int32(<<"syncMode">>)
             q == p \o Size
             e == Elements(n, String(<<"deviceId">>))
             t == Remote("syncCompletedCallback")
             u == Unchecked(t)
             m == MaybeEmpty(n, e)
             o == SyncOptionsMarshalling[n]
             v == SyncOptionsUnMarshalling[n]
  <2>1. o = q \o e /\ v = p \o m
    BY DEF SyncOptionsMarshalling, SyncOptionsUnMarshalling
  <2>2. Plain(p) /\ Plain(q) /\ Plain(t) /\ Plain(String(<<"deviceId">>))
    BY FieldsPlain, ConcatPlain, SizeLayout DEF Remote
  <2>3. Plain(e) /\ Like(t, u)
    BY <1>0, <2>2, InsidePlain
  <2>4. m = Size \o (IF n > MaxItems THEN Refuse ELSE e)
    BY DEF MaybeEmpty
  <2>7. q = p \o Size
    OBVIOUS
  <2>8. IsSeq(p) /\ IsSeq(Size) /\ IsSeq(e) /\ IsSeq(Refuse)
    BY <2>2, <2>3, SizeLayout, LikeLayout DEF Plain, IsLayout
  <2> HIDE DEF p, q, e, t, u, m, o, v
  <2>5. CASE n > MaxItems
    <3>1. m = Size \o Refuse
      BY <2>4, <2>5
    <3>2. v = q \o Refuse
      BY <2>1, <2>7, <2>8, <3>1, SeqAssociative
    <3>3. IsLayout((q \o e) \o t) /\ Understood((q \o e) \o t, (q \o Refuse) \o u)
      BY <2>2, <2>3, LimitUnderstood
    <3> QED
      BY <2>1, <3>2, <3>3 DEF o, v, t, u
  <2>6. CASE ~(n > MaxItems)
    <3>1. m = Size \o e
      BY <2>4, <2>6
    <3>2. v = q \o e
      BY <2>1, <2>7, <2>8, <3>1, SeqAssociative
    <3>3. Plain(q \o e)
      BY <2>2, <2>3, ConcatPlain
    <3>4. Like(o \o t, v \o u)
      BY <2>1, <2>3, <3>2, <3>3, ConcatLike DEF Plain
    <3>5. IsLayout(o \o t) /\ Understood(o \o t, v \o u)
      BY <3>4, LikeLayout, UnderstoodLike
    <3> QED
      BY <3>5 DEF o, v, t, u
  <2> QED
    BY <2>5, <2>6
<1>2. Agree([n \in Sizes |-> SyncOptionsMarshalling[n] \o Remote("syncCompletedCallback")],
             [n \in Sizes |-> SyncOptionsUnMarshalling[n] \o Unchecked(Remote("syncCompletedCallback"))])
  BY <1>1 DEF Agree
<1>3. ASSUME NEW n \in Sizes
      PROVE  IsLayout(SyncResultsMarshalling[n]) /\ Understood(SyncResultsMarshalling[n], SyncResultsUnMarshalling[n])
  <2> DEFINE e == Elements(n, String(<<"deviceId">>) \o Int32(<<"status">>))
             u == Unchecked(e)
             w == SyncResultsMarshalling[n]
             r == SyncResultsUnMarshalling[n]
  <2>1. w = Size \o e /\ r = Size \o (IF n = 0 \/ n > MaxItems THEN Refuse ELSE u)
    BY DEF SyncResultsMarshalling, SyncResultsUnMarshalling, NonEmpty
  <2>2. Plain(String(<<"deviceId">>) \o Int32(<<"status">>))
    BY FieldsPlain, ConcatPlain
  <2>3. Plain(e)
    BY <1>0, <2>2, InsidePlain
  <2>4. Like(e, u)
    BY <1>0, <2>3, InsidePlain
  <2> HIDE DEF e, u, w, r
  <2>5. CASE n = 0 \/ n > MaxItems
    <3>1. r = Size \o Refuse
      BY <2>1, <2>5
    <3>2. Plain(Size) /\ Refusing(Refuse)
      BY SizeLayout, RefuseRefusing
    <3> QED
      BY <2>1, <2>3, <3>1, <3>2, UnderstoodRefused, ConcatPlain, SamePlain DEF w, r
  <2>6. CASE ~(n = 0 \/ n > MaxItems)
    <3>1. r = Size \o u
      BY <2>1, <2>6
    <3>2. Like(Size \o e, Size \o u)
      BY <2>4, SizeLayout, ConcatLike DEF Plain
    <3> QED
      BY <2>1, <3>1, <3>2, LikeLayout, UnderstoodLike DEF w, r
  <2> QED
    BY <2>5, <2>6
<1> QED
  BY <1>2, <1>3 DEF Agree

\* Both sides of a session key and its owner.
LEMMA SessionKeysAgree ==
    /\ Agree([n \in Sizes |-> Uint32(<<"userId">>) \o BytesMarshalling[n]],
             [n \in Sizes |-> Uint32(<<"userId">>) \o BytesUnMarshalling[n]])
    /\ Agree([n \in Sizes |-> Uint32(<<"userId">>) \o Int32(<<"sessionKeyId">>) \o BytesMarshalling[n]],
             [n \in Sizes |-> Uint32(<<"userId">>) \o Int32(<<"sessionKeyId">>) \o BytesUnMarshalling[n]])
PROOF
<1>1. ASSUME NEW n \in Sizes, NEW a, Plain(a)
      PROVE  IsLayout(a \o BytesMarshalling[n]) /\ Understood(a \o BytesMarshalling[n], a \o BytesUnMarshalling[n])
  <2>1. IsLayout(a)
    BY <1>1 DEF Plain, Like
  <2>2. CASE n > MaxItems
    <3>1. BytesMarshalling[n] = Refuse
      BY <2>2, BytesPlain
    <3>2. IsLayout(a \o Refuse) /\ ~WriteOk(a \o Refuse, 0)
      BY <2>1, RefuseRefusing, RefusedEnd
    <3> QED
      BY <3>1, <3>2 DEF Understood
  <2>3. CASE ~(n > MaxItems)
    <3>1. BytesUnMarshalling[n] = BytesMarshalling[n] /\ IsLayout(a \o BytesMarshalling[n])
      BY <2>1, <2>3, BytesPlain, ConcatLayout
    <3> QED
      BY <3>1, UnderstoodSame
  <2> QED
    BY <2>2, <2>3
<1>2. Plain(Uint32(<<"userId">>)) /\ Plain(Uint32(<<"userId">>) \o Int32(<<"sessionKeyId">>))
  BY FieldsPlain, ConcatPlain
<1> QED
  BY <1>1, <1>2 DEF Agree

-----------------------------------------------------------------------------
(* Every call and callback is understood.                                  *)

\* Arguments and results that are single values.
LEMMA ValuesAgree ==
    /\ Agree(Same(Int32(<<"accessControlId">>)), Same(Int32(<<"accessControlId">>)))
    /\ Agree(Same(Int32(<<"saId">>) \o Remote("dpInitedCallback")),
             Same(Int32(<<"saId">>) \o Remote("dpInitedCallback")))
    /\ Agree(Same(Int32(<<"saId">>) \o Remote("listener")),
             Same(Int32(<<"saId">>) \o Remote("listener")))
    /\ Agree(Same(Int32(<<"saId">>)), Same(Int32(<<"saId">>)))
    /\ Agree(Same(Int32(<<"sessionKeyId">>)), Same(Int32(<<"sessionKeyId">>)))
    /\ Agree(Same(String(<<"bundleName">>)
                \o Int32(<<"pinExchangeType">>) \o Remote("pinCodeCallback")),
             Same(String(<<"bundleName">>)
                \o Int32(<<"pinExchangeType">>) \o Remote("pinCodeCallback")))
    /\ Agree(Same(String(<<"bundleName">>) \o Int32(<<"pinExchangeType">>)),
             Same(String(<<"bundleName">>) \o Int32(<<"pinExchangeType">>)))
    /\ Agree(Same(String(<<"deviceId", "serviceName", "characteristicKey">>) \o Word(<<"isMultiUser">>)
                \o Int32(<<"userId">>)),
             Same(String(<<"deviceId", "serviceName", "characteristicKey">>) \o Word(<<"isMultiUser">>)
                \o Int32(<<"userId">>)))
    /\ Agree(Same(String(<<"deviceId", "serviceName">>) \o Word(<<"isMultiUser">>)
                \o Int32(<<"userId">>)),
             Same(String(<<"deviceId", "serviceName">>) \o Word(<<"isMultiUser">>)
                \o Int32(<<"userId">>)))
    /\ Agree(Same(String(<<"deviceId">>) \o Word(<<"isMultiUser">>) \o Int32(<<"userId">>)),
             Same(String(<<"deviceId">>) \o Word(<<"isMultiUser">>) \o Int32(<<"userId">>)))
    /\ Agree(Same(String(<<"deviceId">>)), Same(String(<<"deviceId">>)))
    /\ Agree(Same(String(<<"saId", "businessKey">>) \o Remote("businessCallback")),
             Same(String(<<"saId", "businessKey">>) \o Remote("businessCallback")))
    /\ Agree(Same(String(<<"saId", "businessKey">>)), Same(String(<<"saId", "businessKey">>)))
    /\ Agree(Same(Uint32(<<"userId">>) \o Int32(<<"sessionKeyId">>)),
             Same(Uint32(<<"userId">>) \o Int32(<<"sessionKeyId">>)))
PROOF
<1>1. Plain(Int32(<<"accessControlId">>))
  BY FieldsPlain, ConcatPlain DEF Remote
<1>2. Plain(Int32(<<"saId">>) \o Remote("dpInitedCallback"))
  BY FieldsPlain, ConcatPlain DEF Remote
<1>3. Plain(Int32(<<"saId">>) \o Remote("listener"))
  BY FieldsPlain, ConcatPlain DEF Remote
<1>4. Plain(Int32(<<"saId">>))
  BY FieldsPlain, ConcatPlain DEF Remote
<1>5. Plain(Int32(<<"sessionKeyId">>))
  BY FieldsPlain, ConcatPlain DEF Remote
<1>6. Plain(String(<<"bundleName">>) \o Int32(<<"pinExchangeType">>) \o Remote("pinCodeCallback"))
  BY FieldsPlain, ConcatPlain DEF Remote
<1>7. Plain(String(<<"bundleName">>) \o Int32(<<"pinExchangeType">>))
  BY FieldsPlain, ConcatPlain DEF Remote
<1>8. Plain(String(<<"deviceId", "serviceName", "characteristicKey">>) \o Word(<<"isMultiUser">>)
          \o Int32(<<"userId">>))
  BY FieldsPlain, ConcatPlain DEF Remote
<1>9. Plain(String(<<"deviceId", "serviceName">>) \o Word(<<"isMultiUser">>) \o Int32(<<"userId">>))
  BY FieldsPlain, ConcatPlain DEF Remote
<1>10. Plain(String(<<"deviceId">>) \o Word(<<"isMultiUser">>) \o Int32(<<"userId">>))
  BY FieldsPlain, ConcatPlain DEF Remote
<1>11. Plain(String(<<"deviceId">>))
  BY FieldsPlain, ConcatPlain DEF Remote
<1>12. Plain(String(<<"saId", "businessKey">>) \o Remote("businessCallback"))
  BY FieldsPlain, ConcatPlain DEF Remote
<1>13. Plain(String(<<"saId", "businessKey">>))
  BY FieldsPlain, ConcatPlain DEF Remote
<1>14. Plain(Uint32(<<"userId">>) \o Int32(<<"sessionKeyId">>))
  BY FieldsPlain, ConcatPlain DEF Remote
<1> QED
  BY <1>1, <1>2, <1>3, <1>4, <1>5, <1>6, <1>7, <1>8, <1>9, <1>10, <1>11, <1>12, <1>13, <1>14,
     SamePlain

\* The notifications of the updates of profiles.
LEMMA UpdatesAgree ==
    /\ Agree(OldAndNew(Same(CharacteristicProfileMarshalling)), OldAndNew(Same(CharacteristicProfileUnMarshalling)))
    /\ Agree(OldAndNew(Same(DeviceProfileMarshalling)), OldAndNew(Same(DeviceProfileUnMarshalling)))
    /\ Agree(OldAndNew(Same(ServiceProfileMarshalling)), OldAndNew(Same(ServiceProfileUnMarshalling)))
PROOF
  BY BothSides, ProfilesPlain, DeviceProfilePlain, OldAndNewAgree

\* A flat layout is written whatever the parcel holds.
LEMMA FlatWritten ==
    ASSUME NEW w, Flat(w)
    PROVE  WriteOk(w, 0)
PROOF
<1>1. DOMAIN w = 1 .. Len(w) /\ 0 \notin 1 .. Len(w)
  BY SeqFacts DEF Flat, IsLayout
<1>2. \A i \in Fails(w, 0) : FALSE
  BY <1>1 DEF Fails, Flat
<1> QED
  BY <1>2 DEF WriteOk

\* Without elements every vector that may be empty, and every class, is written.
LEMMA EmptyWritten ==
    /\ WriteOk(Nothing[0], 0) /\ WriteOk(Same(Int32(<<"sessionKeyId">>))[0], 0)
    /\ WriteOk(BytesMarshalling[0], 0) /\ WriteOk(TrustDeviceProfileMarshalling[0], 0)
    /\ WriteOk(AclProfilesMarshalling[0], 0) /\ WriteOk(IconInfosMarshalling[0], 0)
    /\ WriteOk(ServiceInfosMarshalling[0], 0) /\ WriteOk(Same(BusinessEventMarshalling)[0], 0)
    /\ WriteOk(Same(CharacteristicProfileMarshalling)[0], 0) /\ WriteOk(Same(DeviceProfileMarshalling)[0], 0)
    /\ WriteOk(Same(LocalServiceInfoMarshalling)[0], 0) /\ WriteOk(Same(ServiceProfileMarshalling)[0], 0)
PROOF
<1>1. 0 \in Sizes /\ ~(0 > MaxItems)
  BY SizesAssumption
<1>2. ASSUME NEW w, Flat(w) PROVE WriteOk(Same(w)[0], 0)
  BY <1>1, <1>2, FlatWritten DEF Same
<1>3. Flat(Int32(<<"sessionKeyId">>)) /\ Flat(<<>>)
  BY FieldsFlat, EmptyPlain
<1>4. WriteOk(Size, 0)
  BY ProfilesFlat, FlatWritten
<1>5. BytesMarshalling[0] = Size
  BY <1>1, SizeLayout DEF BytesMarshalling
<1>6. WriteOk(TrustDeviceProfileMarshalling[0], 0)
  <2> DEFINE a == String(<<"deviceId">>) \o Uint32(<<"deviceIdType">>) \o String(<<"deviceIdHash">>)
                      \o Int32(<<"status">>) \o Uint32(<<"bindType">>) \o Int32(<<"peerUserId", "localUserId">>)
                      \o String(<<"peerAccountId", "localAccountId">>) \o Size
  <2>1. Flat(a)
    BY FieldsFlat, ProfilesFlat, ConcatFlat
  <2>2. TrustDeviceProfileMarshalling[0] = a \o Elements(0, Int64(<<"serviceId">>))
    BY <1>1 DEF TrustDeviceProfileMarshalling
  <2> HIDE DEF a
  <2>3. TrustDeviceProfileMarshalling[0] = a \o <<>>
    BY <2>2, ElementsNothing
  <2> QED
    BY <2>1, <2>3, <1>3, ConcatFlat, FlatWritten
<1>7. AclProfilesMarshalling[0] = Size /\ IconInfosMarshalling[0] = Size
  <2>1. AclProfilesMarshalling[0] = Size
    BY <1>1, SizeLayout, ElementsNothing DEF AclProfilesMarshalling, MaybeEmpty
  <2>2. [i \in 1 .. 0 |-> Ignored(ToString(i), DeviceIconInfoMarshalling[IconSizes[0][i]])] = <<>>
    OBVIOUS
  <2>3. IconInfosMarshalling[0] = Size \o <<>>
    BY <1>1, <2>2, FlattenNothing DEF IconInfosMarshalling, MaybeEmpty
  <2> QED
    BY <2>1, <2>3, SizeLayout
<1>8. ServiceInfosMarshalling[0] = Size
  BY <1>1, SizeLayout, ElementsNothing DEF ServiceInfosMarshalling
<1> QED
  BY <1>2, <1>3, <1>4, <1>5, <1>6, <1>7, <1>8, ProfilesFlat DEF Nothing

\* A call is understood: the stub has the handler of its code and reads what the proxy writes,
\* and the proxy reads what the stub writes, unless an ignored check has cut it.
Matched(api) ==
    /\ InnerOf(api).handler = api
    /\ AgreeBut(ProxyOf(api).args, InnerOf(api).args, {n \in Sizes : ArgsCut(api, n)})
    /\ AgreeBut(InnerOf(api).results, ProxyOf(api).results, {n \in Sizes : ResultsCut(api, n)})
    /\ api \notin EmptyRefused => WriteOk(InnerOf(api).results[0], 0)

\* The names of the calls and of the callbacks.
LEMMA ApiNames ==
    /\ DOMAIN Proxies =
           {"PutAccessControlProfile", "UpdateAccessControlProfile", "GetTrustDeviceProfile",
            "GetAllTrustDeviceProfile", "GetAccessControlProfile", "GetAllAccessControlProfile",
            "GetAllAclIncludeLnnAcl", "DeleteAccessControlProfile", "PutSessionKey",
            "GetSessionKey", "GetSessionKeyBySessionKeyId", "UpdateSessionKey", "DeleteSessionKey",
            "SubscribeDeviceProfile", "UnSubscribeDeviceProfile", "SendSubscribeInfos",
            "PutServiceProfile", "PutServiceProfileBatch", "PutCharacteristicProfile",
            "PutCharacteristicProfileBatch", "SubscribeDeviceProfileInited",
            "UnSubscribeDeviceProfileInited", "PutAllTrustedDevices", "PutDeviceProfileBatch",
            "GetDeviceProfiles", "GetDeviceIconInfos", "PutDeviceIconInfoBatch",
            "PutProductInfoBatch", "DeleteDeviceProfileBatch", "SubscribePinCodeInvalid",
            "UnSubscribePinCodeInvalid", "SubscribeAllServiceInfo", "PutServiceInfo",
            "DeleteServiceInfo", "GetAllServiceInfoList", "GetServiceInfosByUserInfo",
            "GetDeviceProfile", "GetServiceProfile", "GetCharacteristicProfile",
            "DeleteServiceProfile", "DeleteCharacteristicProfile", "SyncDeviceProfile",
            "SyncStaticProfile", "PutLocalServiceInfo", "UpdateLocalServiceInfo",
            "GetLocalServiceInfoByBundleAndPinType", "DeleteLocalServiceInfo",
            "RegisterBusinessCallback", "UnRegisterBusinessCallback", "PutBusinessEvent",
            "GetBusinessEvent"}
    /\ DOMAIN CallbackProxies =
           {"OnTrustDeviceProfileAdd", "OnTrustDeviceProfileDelete", "OnTrustDeviceProfileUpdate",
            "OnTrustDeviceProfileActive", "OnTrustDeviceProfileInactive",
            "OnDeviceAclInactiveByDelete", "OnDeviceAclInactiveByUpdate", "OnAccountAclDelete",
            "OnAccountAclInactive", "OnAccountAclAdd", "OnAccountAclActive", "OnDeviceProfileAdd",
            "OnDeviceProfileDelete", "OnDeviceProfileUpdate", "OnServiceProfileAdd",
            "OnServiceProfileDelete", "OnServiceProfileUpdate", "OnCharacteristicProfileAdd",
            "OnCharacteristicProfileDelete", "OnCharacteristicProfileUpdate", "OnDpInited",
            "OnPincodeInvalid", "OnServiceInfoInsert", "OnServiceInfoUpdate", "OnServiceInfoDelete",
            "OnSyncCompleted"}
PROOF
  BY DEF Proxies, CallbackProxies

\* Every callback is understood by its stub.
LEMMA CallbacksMatched ==
    \A api \in DOMAIN CallbackProxies : Matched(api)
PROOF
<1>1. Matched("OnTrustDeviceProfileAdd")
  <2>1. ProxyOf("OnTrustDeviceProfileAdd") = ProxyOnTrustDeviceProfileAdd
    BY ApiNames DEF ProxyOf, IsCallback, CallbackProxies
  <2>2. InnerOf("OnTrustDeviceProfileAdd") = OnTrustDeviceProfileAddInner
    BY ApiNames DEF InnerOf, IsCallback, CallbackInners
  <2> QED
    BY <2>1, <2>2, NothingAgree, TrustDeviceProfilesAgree, EmptyWritten, AgreeSome
       DEF Matched, EmptyRefused, ProxyOnTrustDeviceProfileAdd, OnTrustDeviceProfileAddInner, Request, Serve
<1>2. Matched("OnTrustDeviceProfileDelete")
  <2>1. ProxyOf("OnTrustDeviceProfileDelete") = ProxyOnTrustDeviceProfileDelete
    BY ApiNames DEF ProxyOf, IsCallback, CallbackProxies
  <2>2. InnerOf("OnTrustDeviceProfileDelete") = OnTrustDeviceProfileDeleteInner
    BY ApiNames DEF InnerOf, IsCallback, CallbackInners
  <2> QED
    BY <2>1, <2>2, NothingAgree, TrustDeviceProfilesAgree, EmptyWritten, AgreeSome
       DEF Matched, EmptyRefused, ProxyOnTrustDeviceProfileDelete, OnTrustDeviceProfileDeleteInner, Request, Serve
<1>3. Matched("OnTrustDeviceProfileUpdate")
  <2>1. ProxyOf("OnTrustDeviceProfileUpdate") = ProxyOnTrustDeviceProfileUpdate
    BY ApiNames DEF ProxyOf, IsCallback, CallbackProxies
  <2>2. InnerOf("OnTrustDeviceProfileUpdate") = OnTrustDeviceProfileUpdateInner
    BY ApiNames DEF InnerOf, IsCallback, CallbackInners
  <2> QED
    BY <2>1, <2>2, NothingAgree, TrustDeviceProfilesAgree, EmptyWritten, AgreeSome
       DEF Matched, EmptyRefused, ProxyOnTrustDeviceProfileUpdate, OnTrustDeviceProfileUpdateInner, Request, Serve
<1>4. Matched("OnTrustDeviceProfileActive")
  <2>1. ProxyOf("OnTrustDeviceProfileActive") = ProxyOnTrustDeviceProfileActive
    BY ApiNames DEF ProxyOf, IsCallback, CallbackProxies
  <2>2. InnerOf("OnTrustDeviceProfileActive") = OnTrustDeviceProfileActiveInner
    BY ApiNames DEF InnerOf, IsCallback, CallbackInners
  <2> QED
    BY <2>1, <2>2, NothingAgree, TrustDeviceProfilesAgree, EmptyWritten, AgreeSome
       DEF Matched, EmptyRefused, ProxyOnTrustDeviceProfileActive, OnTrustDeviceProfileActiveInner, Request, Serve
<1>5. Matched("OnTrustDeviceProfileInactive")
  <2>1. ProxyOf("OnTrustDeviceProfileInactive") = ProxyOnTrustDeviceProfileInactive
    BY ApiNames DEF ProxyOf, IsCallback, CallbackProxies
  <2>2. InnerOf("OnTrustDeviceProfileInactive") = OnTrustDeviceProfileInactiveInner
    BY ApiNames DEF InnerOf, IsCallback, CallbackInners
  <2> QED
    BY <2>1, <2>2, NothingAgree, TrustDeviceProfilesAgree, EmptyWritten, AgreeSome
       DEF Matched, EmptyRefused, ProxyOnTrustDeviceProfileInactive, OnTrustDeviceProfileInactiveInner, Request, Serve
<1>6. Matched("OnDeviceAclInactiveByDelete")
  <2>1. ProxyOf("OnDeviceAclInactiveByDelete") = ProxyOnDeviceAclInactiveByDelete
    BY ApiNames DEF ProxyOf, IsCallback, CallbackProxies
  <2>2. InnerOf("OnDeviceAclInactiveByDelete") = OnDeviceAclInactiveByDeleteInner
    BY ApiNames DEF InnerOf, IsCallback, CallbackInners
  <2> QED
    BY <2>1, <2>2, NothingAgree, TrustDeviceProfilesAgree, EmptyWritten, AgreeSome
       DEF Matched, EmptyRefused, ProxyOnDeviceAclInactiveByDelete, OnDeviceAclInactiveByDeleteInner, Request, Serve
<1>7. Matched("OnDeviceAclInactiveByUpdate")
  <2>1. ProxyOf("OnDeviceAclInactiveByUpdate") = ProxyOnDeviceAclInactiveByUpdate
    BY ApiNames DEF ProxyOf, IsCallback, CallbackProxies
  <2>2. InnerOf("OnDeviceAclInactiveByUpdate") = OnDeviceAclInactiveByUpdateInner
    BY ApiNames DEF InnerOf, IsCallback, CallbackInners
  <2> QED
    BY <2>1, <2>2, NothingAgree, TrustDeviceProfilesAgree, EmptyWritten, AgreeSome
       DEF Matched, EmptyRefused, ProxyOnDeviceAclInactiveByUpdate, OnDeviceAclInactiveByUpdateInner, Request, Serve
<1>8. Matched("OnAccountAclDelete")
  <2>1. ProxyOf("OnAccountAclDelete") = ProxyOnAccountAclDelete
    BY ApiNames DEF ProxyOf, IsCallback, CallbackProxies
  <2>2. InnerOf("OnAccountAclDelete") = OnAccountAclDeleteInner
    BY ApiNames DEF InnerOf, IsCallback, CallbackInners
  <2> QED
    BY <2>1, <2>2, NothingAgree, TrustDeviceProfilesAgree, EmptyWritten, AgreeSome
       DEF Matched, EmptyRefused, ProxyOnAccountAclDelete, OnAccountAclDeleteInner, Request, Serve
<1>9. Matched("OnAccountAclInactive")
  <2>1. ProxyOf("OnAccountAclInactive") = ProxyOnAccountAclInactive
    BY ApiNames DEF ProxyOf, IsCallback, CallbackProxies
  <2>2. InnerOf("OnAccountAclInactive") = OnAccountAclInactiveInner
    BY ApiNames DEF InnerOf, IsCallback, CallbackInners
  <2> QED
    BY <2>1, <2>2, NothingAgree, TrustDeviceProfilesAgree, EmptyWritten, AgreeSome
       DEF Matched, EmptyRefused, ProxyOnAccountAclInactive, OnAccountAclInactiveInner, Request, Serve
<1>10. Matched("OnAccountAclAdd")
  <2>1. ProxyOf("OnAccountAclAdd") = ProxyOnAccountAclAdd
    BY ApiNames DEF ProxyOf, IsCallback, CallbackProxies
  <2>2. InnerOf("OnAccountAclAdd") = OnAccountAclAddInner
    BY ApiNames DEF InnerOf, IsCallback, CallbackInners
  <2> QED
    BY <2>1, <2>2, NothingAgree, TrustDeviceProfilesAgree, EmptyWritten, AgreeSome
       DEF Matched, EmptyRefused, ProxyOnAccountAclAdd, OnAccountAclAddInner, Request, Serve
<1>11. Matched("OnAccountAclActive")
  <2>1. ProxyOf("OnAccountAclActive") = ProxyOnAccountAclActive
    BY ApiNames DEF ProxyOf, IsCallback, CallbackProxies
  <2>2. InnerOf("OnAccountAclActive") = OnAccountAclActiveInner
    BY ApiNames DEF InnerOf, IsCallback, CallbackInners
  <2> QED
    BY <2>1, <2>2, NothingAgree, TrustDeviceProfilesAgree, EmptyWritten, AgreeSome
       DEF Matched, EmptyRefused, ProxyOnAccountAclActive, OnAccountAclActiveInner, Request, Serve
<1>12. Matched("OnDeviceProfileAdd")
  <2>1. ProxyOf("OnDeviceProfileAdd") = ProxyOnDeviceProfileAdd
    BY ApiNames DEF ProxyOf, IsCallback, CallbackProxies
  <2>2. InnerOf("OnDeviceProfileAdd") = OnDeviceProfileAddInner
    BY ApiNames DEF InnerOf, IsCallback, CallbackInners
  <2> QED
    BY <2>1, <2>2, ClassesAgree, NothingAgree, EmptyWritten, AgreeSome
       DEF Matched, EmptyRefused, ProxyOnDeviceProfileAdd, OnDeviceProfileAddInner, Request, Serve
<1>13. Matched("OnDeviceProfileDelete")
  <2>1. ProxyOf("OnDeviceProfileDelete") = ProxyOnDeviceProfileDelete
    BY ApiNames DEF ProxyOf, IsCallback, CallbackProxies
  <2>2. InnerOf("OnDeviceProfileDelete") = OnDeviceProfileDeleteInner
    BY ApiNames DEF InnerOf, IsCallback, CallbackInners
  <2> QED
    BY <2>1, <2>2, ClassesAgree, NothingAgree, EmptyWritten, AgreeSome
       DEF Matched, EmptyRefused, ProxyOnDeviceProfileDelete, OnDeviceProfileDeleteInner, Request, Serve
<1>14. Matched("OnDeviceProfileUpdate")
  <2>1. ProxyOf("OnDeviceProfileUpdate") = ProxyOnDeviceProfileUpdate
    BY ApiNames DEF ProxyOf, IsCallback, CallbackProxies
  <2>2. InnerOf("OnDeviceProfileUpdate") = OnDeviceProfileUpdateInner
    BY ApiNames DEF InnerOf, IsCallback, CallbackInners
  <2> QED
    BY <2>1, <2>2, NothingAgree, UpdatesAgree, EmptyWritten, AgreeSome
       DEF Matched, EmptyRefused, ProxyOnDeviceProfileUpdate, OnDeviceProfileUpdateInner, Request, Serve
<1>15. Matched("OnServiceProfileAdd")
  <2>1. ProxyOf("OnServiceProfileAdd") = ProxyOnServiceProfileAdd
    BY ApiNames DEF ProxyOf, IsCallback, CallbackProxies
  <2>2. InnerOf("OnServiceProfileAdd") = OnServiceProfileAddInner
    BY ApiNames DEF InnerOf, IsCallback, CallbackInners
  <2> QED
    BY <2>1, <2>2, ClassesAgree, NothingAgree, EmptyWritten, AgreeSome
       DEF Matched, EmptyRefused, ProxyOnServiceProfileAdd, OnServiceProfileAddInner, Request, Serve
<1>16. Matched("OnServiceProfileDelete")
  <2>1. ProxyOf("OnServiceProfileDelete") = ProxyOnServiceProfileDelete
    BY ApiNames DEF ProxyOf, IsCallback, CallbackProxies
  <2>2. InnerOf("OnServiceProfileDelete") = OnServiceProfileDeleteInner
    BY ApiNames DEF InnerOf, IsCallback, CallbackInners
  <2> QED
    BY <2>1, <2>2, ClassesAgree, NothingAgree, EmptyWritten, AgreeSome
       DEF Matched, EmptyRefused, ProxyOnServiceProfileDelete, OnServiceProfileDeleteInner, Request, Serve
<1>17. Matched("OnServiceProfileUpdate")
  <2>1. ProxyOf("OnServiceProfileUpdate") = ProxyOnServiceProfileUpdate
    BY ApiNames DEF ProxyOf, IsCallback, CallbackProxies
  <2>2. InnerOf("OnServiceProfileUpdate") = OnServiceProfileUpdateInner
    BY ApiNames DEF InnerOf, IsCallback, CallbackInners
  <2> QED
    BY <2>1, <2>2, NothingAgree, UpdatesAgree, EmptyWritten, AgreeSome
       DEF Matched, EmptyRefused, ProxyOnServiceProfileUpdate, OnServiceProfileUpdateInner, Request, Serve
<1>18. Matched("OnCharacteristicProfileAdd")
  <2>1. ProxyOf("OnCharacteristicProfileAdd") = ProxyOnCharacteristicProfileAdd
    BY ApiNames DEF ProxyOf, IsCallback, CallbackProxies
  <2>2. InnerOf("OnCharacteristicProfileAdd") = OnCharacteristicProfileAddInner
    BY ApiNames DEF InnerOf, IsCallback, CallbackInners
  <2> QED
    BY <2>1, <2>2, ClassesAgree, NothingAgree, EmptyWritten, AgreeSome
       DEF Matched, EmptyRefused, ProxyOnCharacteristicProfileAdd, OnCharacteristicProfileAddInner, Request, Serve
<1>19. Matched("OnCharacteristicProfileDelete")
  <2>1. ProxyOf("OnCharacteristicProfileDelete") = ProxyOnCharacteristicProfileDelete
    BY ApiNames DEF ProxyOf, IsCallback, CallbackProxies
  <2>2. InnerOf("OnCharacteristicProfileDelete") = OnCharacteristicProfileDeleteInner
    BY ApiNames DEF InnerOf, IsCallback, CallbackInners
  <2> QED
    BY <2>1, <2>2, ClassesAgree, NothingAgree, EmptyWritten, AgreeSome
       DEF Matched, EmptyRefused, ProxyOnCharacteristicProfileDelete, OnCharacteristicProfileDeleteInner, Request, Serve
<1>20. Matched("OnCharacteristicProfileUpdate")
  <2>1. ProxyOf("OnCharacteristicProfileUpdate") = ProxyOnCharacteristicProfileUpdate
    BY ApiNames DEF ProxyOf, IsCallback, CallbackProxies
  <2>2. InnerOf("OnCharacteristicProfileUpdate") = OnCharacteristicProfileUpdateInner
    BY ApiNames DEF InnerOf, IsCallback, CallbackInners
  <2> QED
    BY <2>1, <2>2, NothingAgree, UpdatesAgree, EmptyWritten, AgreeSome
       DEF Matched, EmptyRefused, ProxyOnCharacteristicProfileUpdate, OnCharacteristicProfileUpdateInner, Request, Serve
<1>21. Matched("OnDpInited")
  <2>1. ProxyOf("OnDpInited") = ProxyOnDpInited
    BY ApiNames DEF ProxyOf, IsCallback, CallbackProxies
  <2>2. InnerOf("OnDpInited") = OnDpInitedInner
    BY ApiNames DEF InnerOf, IsCallback, CallbackInners
  <2> QED
    BY <2>1, <2>2, NothingAgree, EmptyWritten, AgreeSome
       DEF Matched, EmptyRefused, ProxyOnDpInited, OnDpInitedInner, Request, Serve
<1>22. Matched("OnPincodeInvalid")
  <2>1. ProxyOf("OnPincodeInvalid") = ProxyOnPincodeInvalid
    BY ApiNames DEF ProxyOf, IsCallback, CallbackProxies
  <2>2. InnerOf("OnPincodeInvalid") = OnPincodeInvalidInner
    BY ApiNames DEF InnerOf, IsCallback, CallbackInners
  <2> QED
    BY <2>1, <2>2, ClassesAgree, NothingAgree, EmptyWritten, AgreeSome
       DEF Matched, EmptyRefused, ProxyOnPincodeInvalid, OnPincodeInvalidInner, Request, Serve
<1>23. Matched("OnServiceInfoInsert")
  <2>1. ProxyOf("OnServiceInfoInsert") = ProxyOnServiceInfoInsert
    BY ApiNames DEF ProxyOf, IsCallback, CallbackProxies
  <2>2. InnerOf("OnServiceInfoInsert") = OnServiceInfoInsertInner
    BY ApiNames DEF InnerOf, IsCallback, CallbackInners
  <2> QED
    BY <2>1, <2>2, NothingAgree, ServiceInfosAgree, EmptyWritten, AgreeSome
       DEF Matched, EmptyRefused, ProxyOnServiceInfoInsert, OnServiceInfoInsertInner, Request, Serve
<1>24. Matched("OnServiceInfoUpdate")
  <2>1. ProxyOf("OnServiceInfoUpdate") = ProxyOnServiceInfoUpdate
    BY ApiNames DEF ProxyOf, IsCallback, CallbackProxies
  <2>2. InnerOf("OnServiceInfoUpdate") = OnServiceInfoUpdateInner
    BY ApiNames DEF InnerOf, IsCallback, CallbackInners
  <2> QED
    BY <2>1, <2>2, NothingAgree, ServiceInfosAgree, EmptyWritten, AgreeSome
       DEF Matched, EmptyRefused, ProxyOnServiceInfoUpdate, OnServiceInfoUpdateInner, Request, Serve
<1>25. Matched("OnServiceInfoDelete")
  <2>1. ProxyOf("OnServiceInfoDelete") = ProxyOnServiceInfoDelete
    BY ApiNames DEF ProxyOf, IsCallback, CallbackProxies
  <2>2. InnerOf("OnServiceInfoDelete") = OnServiceInfoDeleteInner
    BY ApiNames DEF InnerOf, IsCallback, CallbackInners
  <2> QED
    BY <2>1, <2>2, NothingAgree, ServiceInfosAgree, EmptyWritten, AgreeSome
       DEF Matched, EmptyRefused, ProxyOnServiceInfoDelete, OnServiceInfoDeleteInner, Request, Serve
<1>26. Matched("OnSyncCompleted")
  <2>1. ProxyOf("OnSyncCompleted") = ProxyOnSyncCompleted
    BY ApiNames DEF ProxyOf, IsCallback, CallbackProxies
  <2>2. InnerOf("OnSyncCompleted") = OnSyncCompletedInner
    BY ApiNames DEF InnerOf, IsCallback, CallbackInners
  <2> QED
    BY <2>1, <2>2, NothingAgree, SyncAgree, EmptyWritten, AgreeSome
       DEF Matched, EmptyRefused, ProxyOnSyncCompleted, OnSyncCompletedInner, Request, Serve
<1> QED
  BY <1>1, <1>2, <1>3, <1>4, <1>5, <1>6, <1>7, <1>8, <1>9, <1>10, <1>11, <1>12, <1>13, <1>14,
     <1>15, <1>16, <1>17, <1>18, <1>19, <1>20, <1>21, <1>22, <1>23, <1>24, <1>25, <1>26,
     ApiNames

\* Every call is understood by the stub of the service, and its results by the proxy.
LEMMA CallsMatched ==
    \A api \in DOMAIN Proxies : Matched(api)
PROOF
<1>1. Matched("PutAccessControlProfile")
  <2>1. ProxyOf("PutAccessControlProfile") = ProxyPutAccessControlProfile
    BY ApiNames DEF ProxyOf, IsCallback, Proxies
  <2>2. InnerOf("PutAccessControlProfile") = Dispatch("PUT_ACL_PROFILE")
    BY <2>1, ApiNames DEF InnerOf, ProxyOf, IsCallback, ProxyPutAccessControlProfile, Request
  <2>3. Dispatch("PUT_ACL_PROFILE") = PutAccessControlProfileInner
    BY DEF Dispatch, aclAndSubscribeFuncs, NotifyAclEventInner
  <2> QED
    BY <2>1, <2>2, <2>3, ClassesAgree, NothingAgree, EmptyWritten, AgreeSome
       DEF Matched, EmptyRefused, ProxyPutAccessControlProfile, PutAccessControlProfileInner, Request, Serve
<1>2. Matched("UpdateAccessControlProfile")
  <2>1. ProxyOf("UpdateAccessControlProfile") = ProxyUpdateAccessControlProfile
    BY ApiNames DEF ProxyOf, IsCallback, Proxies
  <2>2. InnerOf("UpdateAccessControlProfile") = Dispatch("UPDATE_ACL_PROFILE")
    BY <2>1, ApiNames DEF InnerOf, ProxyOf, IsCallback, ProxyUpdateAccessControlProfile, Request
  <2>3. Dispatch("UPDATE_ACL_PROFILE") = UpdateAccessControlProfileInner
    BY DEF Dispatch, aclAndSubscribeFuncs, NotifyAclEventInner
  <2> QED
    BY <2>1, <2>2, <2>3, ClassesAgree, NothingAgree, EmptyWritten, AgreeSome
       DEF Matched, EmptyRefused, ProxyUpdateAccessControlProfile, UpdateAccessControlProfileInner, Request, Serve
<1>3. Matched("GetTrustDeviceProfile")
  <2>1. ProxyOf("GetTrustDeviceProfile") = ProxyGetTrustDeviceProfile
    BY ApiNames DEF ProxyOf, IsCallback, Proxies
  <2>2. InnerOf("GetTrustDeviceProfile") = Dispatch("GET_TRUST_DEVICE_PROFILE")
    BY <2>1, ApiNames DEF InnerOf, ProxyOf, IsCallback, ProxyGetTrustDeviceProfile, Request
  <2>3. Dispatch("GET_TRUST_DEVICE_PROFILE") = GetTrustDeviceProfileInner
    BY DEF Dispatch, aclAndSubscribeFuncs, NotifyAclEventInner
  <2> QED
    BY <2>1, <2>2, <2>3, TrustDeviceProfilesAgree, ValuesAgree, EmptyWritten, AgreeSome
       DEF Matched, EmptyRefused, ProxyGetTrustDeviceProfile, GetTrustDeviceProfileInner, Request, Serve
<1>4. Matched("GetAllTrustDeviceProfile")
  <2>1. ProxyOf("GetAllTrustDeviceProfile") = ProxyGetAllTrustDeviceProfile
    BY ApiNames DEF ProxyOf, IsCallback, Proxies
  <2>2. InnerOf("GetAllTrustDeviceProfile") = Dispatch("GET_ALL_TRUST_DEVICE_PROFILE")
    BY <2>1, ApiNames DEF InnerOf, ProxyOf, IsCallback, ProxyGetAllTrustDeviceProfile, Request
  <2>3. Dispatch("GET_ALL_TRUST_DEVICE_PROFILE") = GetAllTrustDeviceProfileInner
    BY DEF Dispatch, aclAndSubscribeFuncs, NotifyAclEventInner
  <2> QED
    BY <2>1, <2>2, <2>3, NothingAgree, TrustDeviceProfilesAgree, EmptyWritten, AgreeSome
       DEF Matched, EmptyRefused, ProxyGetAllTrustDeviceProfile, GetAllTrustDeviceProfileInner, Request, Serve
<1>5. Matched("GetAccessControlProfile")
  <2>1. ProxyOf("GetAccessControlProfile") = ProxyGetAccessControlProfile
    BY ApiNames DEF ProxyOf, IsCallback, Proxies
  <2>2. InnerOf("GetAccessControlProfile") = Dispatch("GET_ACL_PROFILE")
    BY <2>1, ApiNames DEF InnerOf, ProxyOf, IsCallback, ProxyGetAccessControlProfile, Request
  <2>3. Dispatch("GET_ACL_PROFILE") = GetAccessControlProfileInner
    BY DEF Dispatch, aclAndSubscribeFuncs, NotifyAclEventInner
  <2> QED
    BY <2>1, <2>2, <2>3, VectorsAgree, EmptyWritten, AgreeSome
       DEF Matched, EmptyRefused, ProxyGetAccessControlProfile, GetAccessControlProfileInner, Request, Serve
<1>6. Matched("GetAllAccessControlProfile")
  <2>1. ProxyOf("GetAllAccessControlProfile") = ProxyGetAllAccessControlProfile
    BY ApiNames DEF ProxyOf, IsCallback, Proxies
  <2>2. InnerOf("GetAllAccessControlProfile") = Dispatch("GET_ALL_ACL_PROFILE")
    BY <2>1, ApiNames DEF InnerOf, ProxyOf, IsCallback, ProxyGetAllAccessControlProfile, Request
  <2>3. Dispatch("GET_ALL_ACL_PROFILE") = GetAllAccessControlProfileInner
    BY DEF Dispatch, aclAndSubscribeFuncs, NotifyAclEventInner
  <2> QED
    BY <2>1, <2>2, <2>3, NothingAgree, VectorsAgree, EmptyWritten, AgreeSome
       DEF Matched, EmptyRefused, ProxyGetAllAccessControlProfile, GetAllAccessControlProfileInner, Request, Serve
<1>7. Matched("GetAllAclIncludeLnnAcl")
  <2>1. ProxyOf("GetAllAclIncludeLnnAcl") = ProxyGetAllAclIncludeLnnAcl
    BY ApiNames DEF ProxyOf, IsCallback, Proxies
  <2>2. InnerOf("GetAllAclIncludeLnnAcl") = Dispatch("GET_ALL_ACL_INCLUDE_LNN_ACL")
    BY <2>1, ApiNames DEF InnerOf, ProxyOf, IsCallback, ProxyGetAllAclIncludeLnnAcl, Request
  <2>3. Dispatch("GET_ALL_ACL_INCLUDE_LNN_ACL") = GetAllAclIncludeLnnAclInner
    BY DEF Dispatch, aclAndSubscribeFuncs, NotifyAclEventInner
  <2> QED
    BY <2>1, <2>2, <2>3, NothingAgree, VectorsAgree, EmptyWritten, AgreeSome
       DEF Matched, EmptyRefused, ProxyGetAllAclIncludeLnnAcl, GetAllAclIncludeLnnAclInner, Request, Serve
<1>8. Matched("DeleteAccessControlProfile")
  <2>1. ProxyOf("DeleteAccessControlProfile") = ProxyDeleteAccessControlProfile
    BY ApiNames DEF ProxyOf, IsCallback, Proxies
  <2>2. InnerOf("DeleteAccessControlProfile") = Dispatch("DELETE_ACL_PROFILE")
    BY <2>1, ApiNames DEF InnerOf, ProxyOf, IsCallback, ProxyDeleteAccessControlProfile, Request
  <2>3. Dispatch("DELETE_ACL_PROFILE") = DeleteAccessControlProfileInner
    BY DEF Dispatch, aclAndSubscribeFuncs, NotifyAclEventInner
  <2> QED
    BY <2>1, <2>2, <2>3, NothingAgree, ValuesAgree, EmptyWritten, AgreeSome
       DEF Matched, EmptyRefused, ProxyDeleteAccessControlProfile, DeleteAccessControlProfileInner, Request, Serve
<1>9. Matched("PutSessionKey")
  <2>1. ProxyOf("PutSessionKey") = ProxyPutSessionKey
    BY ApiNames DEF ProxyOf, IsCallback, Proxies
  <2>2. InnerOf("PutSessionKey") = Dispatch("PUT_SESSION_KEY")
    BY <2>1, ApiNames DEF InnerOf, ProxyOf, IsCallback, ProxyPutSessionKey, Request
  <2>3. Dispatch("PUT_SESSION_KEY") = PutSessionKeyInner
    BY DEF Dispatch, aclAndSubscribeFuncs, NotifyAclEventInner
  <2>4. Agree(ProxyPutSessionKey.args, PutSessionKeyInner.args)
    BY SessionKeysAgree DEF Agree, ProxyPutSessionKey, PutSessionKeyInner, Request, Serve
  <2>5. Agree(PutSessionKeyInner.results, ProxyPutSessionKey.results)
    BY ValuesAgree DEF ProxyPutSessionKey, PutSessionKeyInner, Request, Serve
  <2>6. PutSessionKeyInner.handler = "PutSessionKey" /\ WriteOk(PutSessionKeyInner.results[0], 0)
    BY EmptyWritten DEF PutSessionKeyInner, Serve
  <2> QED
    BY <2>1, <2>2, <2>3, <2>4, <2>5, <2>6, AgreeSome DEF Matched
<1>10. Matched("GetSessionKey")
  <2>1. ProxyOf("GetSessionKey") = ProxyGetSessionKey
    BY ApiNames DEF ProxyOf, IsCallback, Proxies
  <2>2. InnerOf("GetSessionKey") = Dispatch("GET_SESSION_KEY")
    BY <2>1, ApiNames DEF InnerOf, ProxyOf, IsCallback, ProxyGetSessionKey, Request
  <2>3. Dispatch("GET_SESSION_KEY") = GetSessionKeyInner
    BY DEF Dispatch, aclAndSubscribeFuncs, NotifyAclEventInner
  <2> QED
    BY <2>1, <2>2, <2>3, ClassesAgree, ValuesAgree, EmptyWritten, AgreeSome
       DEF Matched, EmptyRefused, ProxyGetSessionKey, GetSessionKeyInner, Request, Serve
<1>11. Matched("GetSessionKeyBySessionKeyId")
  <2>1. ProxyOf("GetSessionKeyBySessionKeyId") = ProxyGetSessionKeyBySessionKeyId
    BY ApiNames DEF ProxyOf, IsCallback, Proxies
  <2>2. InnerOf("GetSessionKeyBySessionKeyId") = Dispatch("GET_SESSION_KEY_BY_SESSIONKEYID")
    BY <2>1, ApiNames DEF InnerOf, ProxyOf, IsCallback, ProxyGetSessionKeyBySessionKeyId, Request
  <2>3. Dispatch("GET_SESSION_KEY_BY_SESSIONKEYID") = GetSessionKeyBySessionKeyIdInner
    BY DEF Dispatch, aclAndSubscribeFuncs, NotifyAclEventInner
  <2> QED
    BY <2>1, <2>2, <2>3, ClassesAgree, ValuesAgree, EmptyWritten, AgreeSome
       DEF Matched, EmptyRefused, ProxyGetSessionKeyBySessionKeyId, GetSessionKeyBySessionKeyIdInner, Request, Serve
<1>12. Matched("UpdateSessionKey")
  <2>1. ProxyOf("UpdateSessionKey") = ProxyUpdateSessionKey
    BY ApiNames DEF ProxyOf, IsCallback, Proxies
  <2>2. InnerOf("UpdateSessionKey") = Dispatch("UPDATE_SESSION_KEY")
    BY <2>1, ApiNames DEF InnerOf, ProxyOf, IsCallback, ProxyUpdateSessionKey, Request
  <2>3. Dispatch("UPDATE_SESSION_KEY") = UpdateSessionKeyInner
    BY DEF Dispatch, aclAndSubscribeFuncs, NotifyAclEventInner
  <2>4. Agree(ProxyUpdateSessionKey.args, UpdateSessionKeyInner.args)
    BY SessionKeysAgree DEF Agree, ProxyUpdateSessionKey, UpdateSessionKeyInner, Request, Serve
  <2>5. Agree(UpdateSessionKeyInner.results, ProxyUpdateSessionKey.results)
    BY NothingAgree DEF ProxyUpdateSessionKey, UpdateSessionKeyInner, Request, Serve
  <2>6. UpdateSessionKeyInner.handler = "UpdateSessionKey" /\ WriteOk(UpdateSessionKeyInner.results[0], 0)
    BY EmptyWritten DEF UpdateSessionKeyInner, Serve
  <2> QED
    BY <2>1, <2>2, <2>3, <2>4, <2>5, <2>6, AgreeSome DEF Matched
<1>13. Matched("DeleteSessionKey")
  <2>1. ProxyOf("DeleteSessionKey") = ProxyDeleteSessionKey
    BY ApiNames DEF ProxyOf, IsCallback, Proxies
  <2>2. InnerOf("DeleteSessionKey") = Dispatch("DELETE_SESSION_KEY")
    BY <2>1, ApiNames DEF InnerOf, ProxyOf, IsCallback, ProxyDeleteSessionKey, Request
  <2>3. Dispatch("DELETE_SESSION_KEY") = DeleteSessionKeyInner
    BY DEF Dispatch, aclAndSubscribeFuncs, NotifyAclEventInner
  <2> QED
    BY <2>1, <2>2, <2>3, NothingAgree, ValuesAgree, EmptyWritten, AgreeSome
       DEF Matched, EmptyRefused, ProxyDeleteSessionKey, DeleteSessionKeyInner, Request, Serve
<1>14. Matched("SubscribeDeviceProfile")
  <2>1. ProxyOf("SubscribeDeviceProfile") = ProxySubscribeDeviceProfile
    BY ApiNames DEF ProxyOf, IsCallback, Proxies
  <2>2. InnerOf("SubscribeDeviceProfile") = Dispatch("SUBSCRIBE_DEVICE_PROFILE")
    BY <2>1, ApiNames DEF InnerOf, ProxyOf, IsCallback, ProxySubscribeDeviceProfile, Request
  <2>3. Dispatch("SUBSCRIBE_DEVICE_PROFILE") = SubscribeDeviceProfileInner
    BY DEF Dispatch, aclAndSubscribeFuncs, NotifyAclEventInner, NotifyProfileDataEventInner
  <2>4. \A n \in Sizes : OutOfRange(n) => n \in {k \in Sizes : ArgsCut("SubscribeDeviceProfile", k)}
    BY DEF ArgsCut
  <2> QED
    BY <2>1, <2>2, <2>3, <2>4, NothingAgree, SubscriptionsAgree, EmptyWritten, AgreeSome
       DEF Matched, EmptyRefused, ProxySubscribeDeviceProfile, SubscribeDeviceProfileInner, Request, Serve
<1>15. Matched("UnSubscribeDeviceProfile")
  <2>1. ProxyOf("UnSubscribeDeviceProfile") = ProxyUnSubscribeDeviceProfile
    BY ApiNames DEF ProxyOf, IsCallback, Proxies
  <2>2. InnerOf("UnSubscribeDeviceProfile") = Dispatch("UNSUBSCRIBE_DEVICE_PROFILE")
    BY <2>1, ApiNames DEF InnerOf, ProxyOf, IsCallback, ProxyUnSubscribeDeviceProfile, Request
  <2>3. Dispatch("UNSUBSCRIBE_DEVICE_PROFILE") = UnSubscribeDeviceProfileInner
    BY DEF Dispatch, aclAndSubscribeFuncs, NotifyAclEventInner, NotifyProfileDataEventInner
  <2>4. \A n \in Sizes : OutOfRange(n) => n \in {k \in Sizes : ArgsCut("UnSubscribeDeviceProfile", k)}
    BY DEF ArgsCut
  <2> QED
    BY <2>1, <2>2, <2>3, <2>4, NothingAgree, SubscriptionsAgree, EmptyWritten, AgreeSome
       DEF Matched, EmptyRefused, ProxyUnSubscribeDeviceProfile, UnSubscribeDeviceProfileInner, Request, Serve
<1>16. Matched("SendSubscribeInfos")
  <2>1. ProxyOf("SendSubscribeInfos") = ProxySendSubscribeInfos
    BY ApiNames DEF ProxyOf, IsCallback, Proxies
  <2>2. InnerOf("SendSubscribeInfos") = Dispatch("SEND_SUBSCRIBE_INFOS")
    BY <2>1, ApiNames DEF InnerOf, ProxyOf, IsCallback, ProxySendSubscribeInfos, Request
  <2>3. Dispatch("SEND_SUBSCRIBE_INFOS") = SendSubscribeInfosInner
    BY DEF Dispatch, aclAndSubscribeFuncs, NotifyAclEventInner, NotifyProfileDataEventInner
  <2>4. \A n \in Sizes : OutOfRange(n) => n \in {k \in Sizes : ArgsCut("SendSubscribeInfos", k)}
    BY DEF ArgsCut
  <2> QED
    BY <2>1, <2>2, <2>3, <2>4, NothingAgree, SubscriptionsAgree, EmptyWritten, AgreeSome
       DEF Matched, EmptyRefused, ProxySendSubscribeInfos, SendSubscribeInfosInner, Request, Serve
<1>17. Matched("PutServiceProfile")
  <2>1. ProxyOf("PutServiceProfile") = ProxyPutServiceProfile
    BY ApiNames DEF ProxyOf, IsCallback, Proxies
  <2>2. InnerOf("PutServiceProfile") = Dispatch("PUT_SERVICE_PROFILE")
    BY <2>1, ApiNames DEF InnerOf, ProxyOf, IsCallback, ProxyPutServiceProfile, Request
  <2>3. Dispatch("PUT_SERVICE_PROFILE") = PutServiceProfileInner
    BY DEF Dispatch, aclAndSubscribeFuncs, NotifyAclEventInner, NotifyProfileDataEventInner
  <2> QED
    BY <2>1, <2>2, <2>3, ClassesAgree, NothingAgree, EmptyWritten, AgreeSome
       DEF Matched, EmptyRefused, ProxyPutServiceProfile, PutServiceProfileInner, Request, Serve
<1>18. Matched("PutServiceProfileBatch")
  <2>1. ProxyOf("PutServiceProfileBatch") = ProxyPutServiceProfileBatch
    BY ApiNames DEF ProxyOf, IsCallback, Proxies
  <2>2. InnerOf("PutServiceProfileBatch") = Dispatch("PUT_SERVICE_PROFILE_BATCH")
    BY <2>1, ApiNames DEF InnerOf, ProxyOf, IsCallback, ProxyPutServiceProfileBatch, Request
  <2>3. Dispatch("PUT_SERVICE_PROFILE_BATCH") = PutServiceProfileBatchInner
    BY DEF Dispatch, aclAndSubscribeFuncs, NotifyAclEventInner, NotifyProfileDataEventInner
  <2> QED
    BY <2>1, <2>2, <2>3, NothingAgree, VectorsAgree, EmptyWritten, AgreeSome
       DEF Matched, EmptyRefused, ProxyPutServiceProfileBatch, PutServiceProfileBatchInner, Request, Serve
<1>19. Matched("PutCharacteristicProfile")
  <2>1. ProxyOf("PutCharacteristicProfile") = ProxyPutCharacteristicProfile
    BY ApiNames DEF ProxyOf, IsCallback, Proxies
  <2>2. InnerOf("PutCharacteristicProfile") = Dispatch("PUT_CHAR_PROFILE")
    BY <2>1, ApiNames DEF InnerOf, ProxyOf, IsCallback, ProxyPutCharacteristicProfile, Request
  <2>3. Dispatch("PUT_CHAR_PROFILE") = PutCharacteristicProfileInner
    BY DEF Dispatch, aclAndSubscribeFuncs, NotifyAclEventInner, NotifyProfileDataEventInner
  <2> QED
    BY <2>1, <2>2, <2>3, ClassesAgree, NothingAgree, EmptyWritten, AgreeSome
       DEF Matched, EmptyRefused, ProxyPutCharacteristicProfile, PutCharacteristicProfileInner, Request, Serve
<1>20. Matched("PutCharacteristicProfileBatch")
  <2>1. ProxyOf("PutCharacteristicProfileBatch") = ProxyPutCharacteristicProfileBatch
    BY ApiNames DEF ProxyOf, IsCallback, Proxies
  <2>2. InnerOf("PutCharacteristicProfileBatch") = Dispatch("PUT_CHAR_PROFILE_BATCH")
    BY <2>1, ApiNames DEF InnerOf, ProxyOf, IsCallback, ProxyPutCharacteristicProfileBatch, Request
  <2>3. Dispatch("PUT_CHAR_PROFILE_BATCH") = PutCharacteristicProfileBatchInner
    BY DEF Dispatch, aclAndSubscribeFuncs, NotifyAclEventInner, NotifyProfileDataEventInner
  <2> QED
    BY <2>1, <2>2, <2>3, NothingAgree, VectorsAgree, EmptyWritten, AgreeSome
       DEF Matched, EmptyRefused, ProxyPutCharacteristicProfileBatch, PutCharacteristicProfileBatchInner, Request, Serve
<1>21. Matched("SubscribeDeviceProfileInited")
  <2>1. ProxyOf("SubscribeDeviceProfileInited") = ProxySubscribeDeviceProfileInited
    BY ApiNames DEF ProxyOf, IsCallback, Proxies
  <2>2. InnerOf("SubscribeDeviceProfileInited") = Dispatch("SUBSCRIBE_DEVICE_PROFILE_INITED")
    BY <2>1, ApiNames DEF InnerOf, ProxyOf, IsCallback, ProxySubscribeDeviceProfileInited, Request
  <2>3. Dispatch("SUBSCRIBE_DEVICE_PROFILE_INITED") = SubscribeDeviceProfileInitedInner
    BY DEF Dispatch, aclAndSubscribeFuncs, NotifyAclEventInner, NotifyProfileDataEventInner
  <2> QED
    BY <2>1, <2>2, <2>3, NothingAgree, ValuesAgree, EmptyWritten, AgreeSome
       DEF Matched, EmptyRefused, ProxySubscribeDeviceProfileInited, SubscribeDeviceProfileInitedInner, Request, Serve
<1>22. Matched("UnSubscribeDeviceProfileInited")
  <2>1. ProxyOf("UnSubscribeDeviceProfileInited") = ProxyUnSubscribeDeviceProfileInited
    BY ApiNames DEF ProxyOf, IsCallback, Proxies
  <2>2. InnerOf("UnSubscribeDeviceProfileInited") = Dispatch("UNSUBSCRIBE_DEVICE_PROFILE_INITED")
    BY <2>1, ApiNames DEF InnerOf, ProxyOf, IsCallback, ProxyUnSubscribeDeviceProfileInited, Request
  <2>3. Dispatch("UNSUBSCRIBE_DEVICE_PROFILE_INITED") = UnSubscribeDeviceProfileInitedInner
    BY DEF Dispatch, aclAndSubscribeFuncs, NotifyAclEventInner, NotifyProfileDataEventInner
  <2> QED
    BY <2>1, <2>2, <2>3, NothingAgree, ValuesAgree, EmptyWritten, AgreeSome
       DEF Matched, EmptyRefused, ProxyUnSubscribeDeviceProfileInited, UnSubscribeDeviceProfileInitedInner, Request, Serve
<1>23. Matched("PutAllTrustedDevices")
  <2>1. ProxyOf("PutAllTrustedDevices") = ProxyPutAllTrustedDevices
    BY ApiNames DEF ProxyOf, IsCallback, Proxies
  <2>2. InnerOf("PutAllTrustedDevices") = Dispatch("PUT_ALL_TRUSTED_DEVICES")
    BY <2>1, ApiNames DEF InnerOf, ProxyOf, IsCallback, ProxyPutAllTrustedDevices, Request
  <2>3. Dispatch("PUT_ALL_TRUSTED_DEVICES") = PutAllTrustedDevicesInner
    BY DEF Dispatch, aclAndSubscribeFuncs, NotifyAclEventInner, NotifyProfileDataEventInner
  <2> QED
    BY <2>1, <2>2, <2>3, NothingAgree, VectorsAgree, EmptyWritten, AgreeSome
       DEF Matched, EmptyRefused, ProxyPutAllTrustedDevices, PutAllTrustedDevicesInner, Request, Serve
<1>24. Matched("PutDeviceProfileBatch")
  <2>1. ProxyOf("PutDeviceProfileBatch") = ProxyPutDeviceProfileBatch
    BY ApiNames DEF ProxyOf, IsCallback, Proxies
  <2>2. InnerOf("PutDeviceProfileBatch") = Dispatch("PUT_DEVICE_PROFILE_BATCH")
    BY <2>1, ApiNames DEF InnerOf, ProxyOf, IsCallback, ProxyPutDeviceProfileBatch, Request
  <2>3. Dispatch("PUT_DEVICE_PROFILE_BATCH") = PutDeviceProfileBatchInner
    BY DEF Dispatch, aclAndSubscribeFuncs, NotifyAclEventInner, NotifyProfileDataEventInner
  <2> QED
    BY <2>1, <2>2, <2>3, NothingAgree, VectorsAgree, EmptyWritten, AgreeSome
       DEF Matched, EmptyRefused, ProxyPutDeviceProfileBatch, PutDeviceProfileBatchInner, Request, Serve
<1>25. Matched("GetDeviceProfiles")
  <2>1. ProxyOf("GetDeviceProfiles") = ProxyGetDeviceProfiles
    BY ApiNames DEF ProxyOf, IsCallback, Proxies
  <2>2. InnerOf("GetDeviceProfiles") = Dispatch("GET_DEVICE_PROFILES")
    BY <2>1, ApiNames DEF InnerOf, ProxyOf, IsCallback, ProxyGetDeviceProfiles, Request
  <2>3. Dispatch("GET_DEVICE_PROFILES") = GetDeviceProfilesInner
    BY DEF Dispatch, aclAndSubscribeFuncs, NotifyAclEventInner, NotifyProfileDataEventInner
  <2> QED
    BY <2>1, <2>2, <2>3, FiltersAgree, VectorsAgree, EmptyWritten, AgreeSome
       DEF Matched, EmptyRefused, ProxyGetDeviceProfiles, GetDeviceProfilesInner, Request, Serve
<1>26. Matched("GetDeviceIconInfos")
  <2>1. ProxyOf("GetDeviceIconInfos") = ProxyGetDeviceIconInfos
    BY ApiNames DEF ProxyOf, IsCallback, Proxies
  <2>2. InnerOf("GetDeviceIconInfos") = Dispatch("GET_DEVICE_ICON_INFOS")
    BY <2>1, ApiNames DEF InnerOf, ProxyOf, IsCallback, ProxyGetDeviceIconInfos, Request
  <2>3. Dispatch("GET_DEVICE_ICON_INFOS") = GetDeviceIconInfosInner
    BY DEF Dispatch, aclAndSubscribeFuncs, NotifyAclEventInner, NotifyProfileDataEventInner
  <2>4. \A n \in Sizes : Oversized(n) => n \in {k \in Sizes : ResultsCut("GetDeviceIconInfos", k)}
    BY DEF ResultsCut
  <2> QED
    BY <2>1, <2>2, <2>3, <2>4, FiltersAgree, IconInfosAgree, EmptyWritten, AgreeSome
       DEF Matched, EmptyRefused, ProxyGetDeviceIconInfos, GetDeviceIconInfosInner, Request, Serve
<1>27. Matched("PutDeviceIconInfoBatch")
  <2>1. ProxyOf("PutDeviceIconInfoBatch") = ProxyPutDeviceIconInfoBatch
    BY ApiNames DEF ProxyOf, IsCallback, Proxies
  <2>2. InnerOf("PutDeviceIconInfoBatch") = Dispatch("PUT_DEVICE_ICON_INFO_BATCH")
    BY <2>1, ApiNames DEF InnerOf, ProxyOf, IsCallback, ProxyPutDeviceIconInfoBatch, Request
  <2>3. Dispatch("PUT_DEVICE_ICON_INFO_BATCH") = PutDeviceIconInfoBatchInner
    BY DEF Dispatch, aclAndSubscribeFuncs, NotifyAclEventInner, NotifyProfileDataEventInner
  <2>4. \A n \in Sizes : Oversized(n) => n \in {k \in Sizes : ArgsCut("PutDeviceIconInfoBatch", k)}
    BY DEF ArgsCut
  <2> QED
    BY <2>1, <2>2, <2>3, <2>4, NothingAgree, IconInfosAgree, EmptyWritten, AgreeSome
       DEF Matched, EmptyRefused, ProxyPutDeviceIconInfoBatch, PutDeviceIconInfoBatchInner, Request, Serve
<1>28. Matched("PutProductInfoBatch")
  <2>1. ProxyOf("PutProductInfoBatch") = ProxyPutProductInfoBatch
    BY ApiNames DEF ProxyOf, IsCallback, Proxies
  <2>2. InnerOf("PutProductInfoBatch") = Dispatch("PUT_PRODUCT_INFO_BATCH")
    BY <2>1, ApiNames DEF InnerOf, ProxyOf, IsCallback, ProxyPutProductInfoBatch, Request
  <2>3. Dispatch("PUT_PRODUCT_INFO_BATCH") = PutProductInfoBatchInner
    BY DEF Dispatch, aclAndSubscribeFuncs, NotifyAclEventInner, NotifyProfileDataEventInner
  <2> QED
    BY <2>1, <2>2, <2>3, NothingAgree, VectorsAgree, EmptyWritten, AgreeSome
       DEF Matched, EmptyRefused, ProxyPutProductInfoBatch, PutProductInfoBatchInner, Request, Serve
<1>29. Matched("DeleteDeviceProfileBatch")
  <2>1. ProxyOf("DeleteDeviceProfileBatch") = ProxyDeleteDeviceProfileBatch
    BY ApiNames DEF ProxyOf, IsCallback, Proxies
  <2>2. InnerOf("DeleteDeviceProfileBatch") = Dispatch("DELETE_DEVICE_PROFILE_BATCH")
    BY <2>1, ApiNames DEF InnerOf, ProxyOf, IsCallback, ProxyDeleteDeviceProfileBatch, Request
  <2>3. Dispatch("DELETE_DEVICE_PROFILE_BATCH") = DeleteDeviceProfileBatchInner
    BY DEF Dispatch, aclAndSubscribeFuncs, NotifyAclEventInner, NotifyProfileDataEventInner
  <2> QED
    BY <2>1, <2>2, <2>3, NothingAgree, VectorsAgree, EmptyWritten, AgreeSome
       DEF Matched, EmptyRefused, ProxyDeleteDeviceProfileBatch, DeleteDeviceProfileBatchInner, Request, Serve
<1>30. Matched("SubscribePinCodeInvalid")
  <2>1. ProxyOf("SubscribePinCodeInvalid") = ProxySubscribePinCodeInvalid
    BY ApiNames DEF ProxyOf, IsCallback, Proxies
  <2>2. InnerOf("SubscribePinCodeInvalid") = Dispatch("SUBSCRIBE_PINCODE_INVALID")
    BY <2>1, ApiNames DEF InnerOf, ProxyOf, IsCallback, ProxySubscribePinCodeInvalid, Request
  <2>3. Dispatch("SUBSCRIBE_PINCODE_INVALID") = SubscribePinCodeInvalidInner
    BY DEF Dispatch, aclAndSubscribeFuncs, NotifyAclEventInner, NotifyProfileDataEventInner
  <2> QED
    BY <2>1, <2>2, <2>3, NothingAgree, ValuesAgree, EmptyWritten, AgreeSome
       DEF Matched, EmptyRefused, ProxySubscribePinCodeInvalid, SubscribePinCodeInvalidInner, Request, Serve
<1>31. Matched("UnSubscribePinCodeInvalid")
  <2>1. ProxyOf("UnSubscribePinCodeInvalid") = ProxyUnSubscribePinCodeInvalid
    BY ApiNames DEF ProxyOf, IsCallback, Proxies
  <2>2. InnerOf("UnSubscribePinCodeInvalid") = Dispatch("UNSUBSCRIBE_PINCODE_INVALID")
    BY <2>1, ApiNames DEF InnerOf, ProxyOf, IsCallback, ProxyUnSubscribePinCodeInvalid, Request
  <2>3. Dispatch("UNSUBSCRIBE_PINCODE_INVALID") = UnSubscribePinCodeInvalidInner
    BY DEF Dispatch, aclAndSubscribeFuncs, NotifyAclEventInner, NotifyProfileDataEventInner
  <2> QED
    BY <2>1, <2>2, <2>3, NothingAgree, ValuesAgree, EmptyWritten, AgreeSome
       DEF Matched, EmptyRefused, ProxyUnSubscribePinCodeInvalid, UnSubscribePinCodeInvalidInner, Request, Serve
<1>32. Matched("SubscribeAllServiceInfo")
  <2>1. ProxyOf("SubscribeAllServiceInfo") = ProxySubscribeAllServiceInfo
    BY ApiNames DEF ProxyOf, IsCallback, Proxies
  <2>2. InnerOf("SubscribeAllServiceInfo") = Dispatch("SUBSCRIBE_SERVICE_INFO_CALLBACK")
    BY <2>1, ApiNames DEF InnerOf, ProxyOf, IsCallback, ProxySubscribeAllServiceInfo, Request
  <2>3. Dispatch("SUBSCRIBE_SERVICE_INFO_CALLBACK") = SubscribeAllServiceInfoInner
    BY DEF Dispatch, aclAndSubscribeFuncs, NotifyAclEventInner, NotifyProfileDataEventInner, NotifyServiceInfoEventInner
  <2> QED
    BY <2>1, <2>2, <2>3, NothingAgree, ValuesAgree, EmptyWritten, AgreeSome
       DEF Matched, EmptyRefused, ProxySubscribeAllServiceInfo, SubscribeAllServiceInfoInner, Request, Serve
<1>33. Matched("PutServiceInfo")
  <2>1. ProxyOf("PutServiceInfo") = ProxyPutServiceInfo
    BY ApiNames DEF ProxyOf, IsCallback, Proxies
  <2>2. InnerOf("PutServiceInfo") = Dispatch("PUT_SERVICE_INFO")
    BY <2>1, ApiNames DEF InnerOf, ProxyOf, IsCallback, ProxyPutServiceInfo, Request
  <2>3. Dispatch("PUT_SERVICE_INFO") = PutServiceInfoInner
    BY DEF Dispatch, aclAndSubscribeFuncs, NotifyAclEventInner, NotifyProfileDataEventInner, NotifyServiceInfoEventInner
  <2> QED
    BY <2>1, <2>2, <2>3, ClassesAgree, NothingAgree, EmptyWritten, AgreeSome
       DEF Matched, EmptyRefused, ProxyPutServiceInfo, PutServiceInfoInner, Request, Serve
<1>34. Matched("DeleteServiceInfo")
  <2>1. ProxyOf("DeleteServiceInfo") = ProxyDeleteServiceInfo
    BY ApiNames DEF ProxyOf, IsCallback, Proxies
  <2>2. InnerOf("DeleteServiceInfo") = Dispatch("DELETE_SERVICE_INFO")
    BY <2>1, ApiNames DEF InnerOf, ProxyOf, IsCallback, ProxyDeleteServiceInfo, Request
  <2>3. Dispatch("DELETE_SERVICE_INFO") = DeleteServiceInfoInner
    BY DEF Dispatch, aclAndSubscribeFuncs, NotifyAclEventInner, NotifyProfileDataEventInner, NotifyServiceInfoEventInner
  <2> QED
    BY <2>1, <2>2, <2>3, ClassesAgree, NothingAgree, EmptyWritten, AgreeSome
       DEF Matched, EmptyRefused, ProxyDeleteServiceInfo, DeleteServiceInfoInner, Request, Serve
<1>35. Matched("GetAllServiceInfoList")
  <2>1. ProxyOf("GetAllServiceInfoList") = ProxyGetAllServiceInfoList
    BY ApiNames DEF ProxyOf, IsCallback, Proxies
  <2>2. InnerOf("GetAllServiceInfoList") = Dispatch("GET_ALL_SERVICE_INFO_LIST")
    BY <2>1, ApiNames DEF InnerOf, ProxyOf, IsCallback, ProxyGetAllServiceInfoList, Request
  <2>3. Dispatch("GET_ALL_SERVICE_INFO_LIST") = GetAllServiceInfoListInner
    BY DEF Dispatch, aclAndSubscribeFuncs, NotifyAclEventInner, NotifyProfileDataEventInner, NotifyServiceInfoEventInner
  <2> QED
    BY <2>1, <2>2, <2>3, NothingAgree, ServiceInfosAgree, EmptyWritten, AgreeSome
       DEF Matched, EmptyRefused, ProxyGetAllServiceInfoList, GetAllServiceInfoListInner, Request, Serve
<1>36. Matched("GetServiceInfosByUserInfo")
  <2>1. ProxyOf("GetServiceInfosByUserInfo") = ProxyGetServiceInfosByUserInfo
    BY ApiNames DEF ProxyOf, IsCallback, Proxies
  <2>2. InnerOf("GetServiceInfosByUserInfo") = Dispatch("GET_SERVICE_INFO_BY_USER_INFO")
    BY <2>1, ApiNames DEF InnerOf, ProxyOf, IsCallback, ProxyGetServiceInfosByUserInfo, Request
  <2>3. Dispatch("GET_SERVICE_INFO_BY_USER_INFO") = GetServiceInfosByUserInfoInner
    BY DEF Dispatch, aclAndSubscribeFuncs, NotifyAclEventInner, NotifyProfileDataEventInner, NotifyServiceInfoEventInner
  <2> QED
    BY <2>1, <2>2, <2>3, ClassesAgree, ServiceInfosAgree, EmptyWritten, AgreeSome
       DEF Matched, EmptyRefused, ProxyGetServiceInfosByUserInfo, GetServiceInfosByUserInfoInner, Request, Serve
<1>37. Matched("GetDeviceProfile")
  <2>1. ProxyOf("GetDeviceProfile") = ProxyGetDeviceProfile
    BY ApiNames DEF ProxyOf, IsCallback, Proxies
  <2>2. InnerOf("GetDeviceProfile") = Dispatch("GET_DEVICE_PROFILE_NEW")
    BY <2>1, ApiNames DEF InnerOf, ProxyOf, IsCallback, ProxyGetDeviceProfile, Request
  <2>3. Dispatch("GET_DEVICE_PROFILE_NEW") = GetDeviceProfileInner
    BY DEF Dispatch, aclAndSubscribeFuncs, NotifyEventInner
  <2> QED
    BY <2>1, <2>2, <2>3, ClassesAgree, ValuesAgree, EmptyWritten, AgreeSome
       DEF Matched, EmptyRefused, ProxyGetDeviceProfile, GetDeviceProfileInner, Request, Serve
<1>38. Matched("GetServiceProfile")
  <2>1. ProxyOf("GetServiceProfile") = ProxyGetServiceProfile
    BY ApiNames DEF ProxyOf, IsCallback, Proxies
  <2>2. InnerOf("GetServiceProfile") = Dispatch("GET_SERVICE_PROFILE")
    BY <2>1, ApiNames DEF InnerOf, ProxyOf, IsCallback, ProxyGetServiceProfile, Request
  <2>3. Dispatch("GET_SERVICE_PROFILE") = GetServiceProfileInner
    BY DEF Dispatch, aclAndSubscribeFuncs, NotifyEventInner
  <2> QED
    BY <2>1, <2>2, <2>3, ClassesAgree, ValuesAgree, EmptyWritten, AgreeSome
       DEF Matched, EmptyRefused, ProxyGetServiceProfile, GetServiceProfileInner, Request, Serve
<1>39. Matched("GetCharacteristicProfile")
  <2>1. ProxyOf("GetCharacteristicProfile") = ProxyGetCharacteristicProfile
    BY ApiNames DEF ProxyOf, IsCallback, Proxies
  <2>2. InnerOf("GetCharacteristicProfile") = Dispatch("GET_CHAR_PROFILE")
    BY <2>1, ApiNames DEF InnerOf, ProxyOf, IsCallback, ProxyGetCharacteristicProfile, Request
  <2>3. Dispatch("GET_CHAR_PROFILE") = GetCharacteristicProfileInner
    BY DEF Dispatch, aclAndSubscribeFuncs, NotifyEventInner
  <2> QED
    BY <2>1, <2>2, <2>3, ClassesAgree, ValuesAgree, EmptyWritten, AgreeSome
       DEF Matched, EmptyRefused, ProxyGetCharacteristicProfile, GetCharacteristicProfileInner, Request, Serve
<1>40. Matched("DeleteServiceProfile")
  <2>1. ProxyOf("DeleteServiceProfile") = ProxyDeleteServiceProfile
    BY ApiNames DEF ProxyOf, IsCallback, Proxies
  <2>2. InnerOf("DeleteServiceProfile") = Dispatch("DEL_SERVICE_PROFILE")
    BY <2>1, ApiNames DEF InnerOf, ProxyOf, IsCallback, ProxyDeleteServiceProfile, Request
  <2>3. Dispatch("DEL_SERVICE_PROFILE") = DeleteServiceProfileInner
    BY DEF Dispatch, aclAndSubscribeFuncs, NotifyEventInner
  <2> QED
    BY <2>1, <2>2, <2>3, NothingAgree, ValuesAgree, EmptyWritten, AgreeSome
       DEF Matched, EmptyRefused, ProxyDeleteServiceProfile, DeleteServiceProfileInner, Request, Serve
<1>41. Matched("DeleteCharacteristicProfile")
  <2>1. ProxyOf("DeleteCharacteristicProfile") = ProxyDeleteCharacteristicProfile
    BY ApiNames DEF ProxyOf, IsCallback, Proxies
  <2>2. InnerOf("DeleteCharacteristicProfile") = Dispatch("DEL_CHAR_PROFILE")
    BY <2>1, ApiNames DEF InnerOf, ProxyOf, IsCallback, ProxyDeleteCharacteristicProfile, Request
  <2>3. Dispatch("DEL_CHAR_PROFILE") = DeleteCharacteristicProfileInner
    BY DEF Dispatch, aclAndSubscribeFuncs, NotifyEventInner
  <2> QED
    BY <2>1, <2>2, <2>3, NothingAgree, ValuesAgree, EmptyWritten, AgreeSome
       DEF Matched, EmptyRefused, ProxyDeleteCharacteristicProfile, DeleteCharacteristicProfileInner, Request, Serve
<1>42. Matched("SyncDeviceProfile")
  <2>1. ProxyOf("SyncDeviceProfile") = ProxySyncDeviceProfile
    BY ApiNames DEF ProxyOf, IsCallback, Proxies
  <2>2. InnerOf("SyncDeviceProfile") = Dispatch("SYNC_DEVICE_PROFILE_NEW")
    BY <2>1, ApiNames DEF InnerOf, ProxyOf, IsCallback, ProxySyncDeviceProfile, Request
  <2>3. Dispatch("SYNC_DEVICE_PROFILE_NEW") = SyncDeviceProfileInner
    BY DEF Dispatch, aclAndSubscribeFuncs, NotifyEventInner
  <2>4. Agree(ProxySyncDeviceProfile.args, SyncDeviceProfileInner.args)
    BY SyncAgree DEF Agree, ProxySyncDeviceProfile, SyncDeviceProfileInner, Request, Serve
  <2>5. Agree(SyncDeviceProfileInner.results, ProxySyncDeviceProfile.results)
    BY NothingAgree DEF ProxySyncDeviceProfile, SyncDeviceProfileInner, Request, Serve
  <2>6. SyncDeviceProfileInner.handler = "SyncDeviceProfile" /\ WriteOk(SyncDeviceProfileInner.results[0], 0)
    BY EmptyWritten DEF SyncDeviceProfileInner, Serve
  <2> QED
    BY <2>1, <2>2, <2>3, <2>4, <2>5, <2>6, AgreeSome DEF Matched
<1>43. Matched("SyncStaticProfile")
  <2>1. ProxyOf("SyncStaticProfile") = ProxySyncStaticProfile
    BY ApiNames DEF ProxyOf, IsCallback, Proxies
  <2>2. InnerOf("SyncStaticProfile") = Dispatch("SYNC_STATIC_PROFILE")
    BY <2>1, ApiNames DEF InnerOf, ProxyOf, IsCallback, ProxySyncStaticProfile, Request
  <2>3. Dispatch("SYNC_STATIC_PROFILE") = SyncStaticProfileInner
    BY DEF Dispatch, aclAndSubscribeFuncs, NotifyEventInner
  <2>4. Agree(ProxySyncStaticProfile.args, SyncStaticProfileInner.args)
    BY SyncAgree DEF Agree, ProxySyncStaticProfile, SyncStaticProfileInner, Request, Serve
  <2>5. Agree(SyncStaticProfileInner.results, ProxySyncStaticProfile.results)
    BY NothingAgree DEF ProxySyncStaticProfile, SyncStaticProfileInner, Request, Serve
  <2>6. SyncStaticProfileInner.handler = "SyncStaticProfile" /\ WriteOk(SyncStaticProfileInner.results[0], 0)
    BY EmptyWritten DEF SyncStaticProfileInner, Serve
  <2> QED
    BY <2>1, <2>2, <2>3, <2>4, <2>5, <2>6, AgreeSome DEF Matched
<1>44. Matched("PutLocalServiceInfo")
  <2>1. ProxyOf("PutLocalServiceInfo") = ProxyPutLocalServiceInfo
    BY ApiNames DEF ProxyOf, IsCallback, Proxies
  <2>2. InnerOf("PutLocalServiceInfo") = Dispatch("PUT_LOCAL_SERVICE_INFO")
    BY <2>1, ApiNames DEF InnerOf, ProxyOf, IsCallback, ProxyPutLocalServiceInfo, Request
  <2>3. Dispatch("PUT_LOCAL_SERVICE_INFO") = PutLocalServiceInfoInner
    BY DEF Dispatch, aclAndSubscribeFuncs, NotifyEventInner, NotifyLocalServiceEventInner
  <2> QED
    BY <2>1, <2>2, <2>3, ClassesAgree, NothingAgree, EmptyWritten, AgreeSome
       DEF Matched, EmptyRefused, ProxyPutLocalServiceInfo, PutLocalServiceInfoInner, Request, Serve
<1>45. Matched("UpdateLocalServiceInfo")
  <2>1. ProxyOf("UpdateLocalServiceInfo") = ProxyUpdateLocalServiceInfo
    BY ApiNames DEF ProxyOf, IsCallback, Proxies
  <2>2. InnerOf("UpdateLocalServiceInfo") = Dispatch("UPDATE_LOCAL_SERVICE_INFO")
    BY <2>1, ApiNames DEF InnerOf, ProxyOf, IsCallback, ProxyUpdateLocalServiceInfo, Request
  <2>3. Dispatch("UPDATE_LOCAL_SERVICE_INFO") = UpdateLocalServiceInfoInner
    BY DEF Dispatch, aclAndSubscribeFuncs, NotifyEventInner, NotifyLocalServiceEventInner
  <2> QED
    BY <2>1, <2>2, <2>3, ClassesAgree, NothingAgree, EmptyWritten, AgreeSome
       DEF Matched, EmptyRefused, ProxyUpdateLocalServiceInfo, UpdateLocalServiceInfoInner, Request, Serve
<1>46. Matched("GetLocalServiceInfoByBundleAndPinType")
  <2>1. ProxyOf("GetLocalServiceInfoByBundleAndPinType") = ProxyGetLocalServiceInfoByBundleAndPinType
    BY ApiNames DEF ProxyOf, IsCallback, Proxies
  <2>2. InnerOf("GetLocalServiceInfoByBundleAndPinType") = Dispatch("GET_LOCAL_SERVICE_INFO_BY_BINDLE_AND_PINTYPE")
    BY <2>1, ApiNames DEF InnerOf, ProxyOf, IsCallback, ProxyGetLocalServiceInfoByBundleAndPinType, Request
  <2>3. Dispatch("GET_LOCAL_SERVICE_INFO_BY_BINDLE_AND_PINTYPE") = GetLocalServiceInfoByBundleAndPinTypeInner
    BY DEF Dispatch, aclAndSubscribeFuncs, NotifyEventInner, NotifyLocalServiceEventInner
  <2> QED
    BY <2>1, <2>2, <2>3, ClassesAgree, ValuesAgree, EmptyWritten, AgreeSome
       DEF Matched, EmptyRefused, ProxyGetLocalServiceInfoByBundleAndPinType, GetLocalServiceInfoByBundleAndPinTypeInner, Request, Serve
<1>47. Matched("DeleteLocalServiceInfo")
  <2>1. ProxyOf("DeleteLocalServiceInfo") = ProxyDeleteLocalServiceInfo
    BY ApiNames DEF ProxyOf, IsCallback, Proxies
  <2>2. InnerOf("DeleteLocalServiceInfo") = Dispatch("DELETE_LOCAL_SERVICE_INFO")
    BY <2>1, ApiNames DEF InnerOf, ProxyOf, IsCallback, ProxyDeleteLocalServiceInfo, Request
  <2>3. Dispatch("DELETE_LOCAL_SERVICE_INFO") = DeleteLocalServiceInfoInner
    BY DEF Dispatch, aclAndSubscribeFuncs, NotifyEventInner, NotifyLocalServiceEventInner
  <2> QED
    BY <2>1, <2>2, <2>3, NothingAgree, ValuesAgree, EmptyWritten, AgreeSome
       DEF Matched, EmptyRefused, ProxyDeleteLocalServiceInfo, DeleteLocalServiceInfoInner, Request, Serve
<1>48. Matched("RegisterBusinessCallback")
  <2>1. ProxyOf("RegisterBusinessCallback") = ProxyRegisterBusinessCallback
    BY ApiNames DEF ProxyOf, IsCallback, Proxies
  <2>2. InnerOf("RegisterBusinessCallback") = Dispatch("REGISTER_BUSINESS_CALLBACK")
    BY <2>1, ApiNames DEF InnerOf, ProxyOf, IsCallback, ProxyRegisterBusinessCallback, Request
  <2>3. Dispatch("REGISTER_BUSINESS_CALLBACK") = RegisterBusinessCallbackInner
    BY DEF Dispatch, aclAndSubscribeFuncs, NotifyEventInner, NotifyLocalServiceEventInner
  <2> QED
    BY <2>1, <2>2, <2>3, NothingAgree, ValuesAgree, EmptyWritten, AgreeSome
       DEF Matched, EmptyRefused, ProxyRegisterBusinessCallback, RegisterBusinessCallbackInner, Request, Serve
<1>49. Matched("UnRegisterBusinessCallback")
  <2>1. ProxyOf("UnRegisterBusinessCallback") = ProxyUnRegisterBusinessCallback
    BY ApiNames DEF ProxyOf, IsCallback, Proxies
  <2>2. InnerOf("UnRegisterBusinessCallback") = Dispatch("UNREGISTER_BUSINESS_CALLBACK")
    BY <2>1, ApiNames DEF InnerOf, ProxyOf, IsCallback, ProxyUnRegisterBusinessCallback, Request
  <2>3. Dispatch("UNREGISTER_BUSINESS_CALLBACK") = UnRegisterBusinessCallbackInner
    BY DEF Dispatch, aclAndSubscribeFuncs, NotifyEventInner, NotifyLocalServiceEventInner
  <2> QED
    BY <2>1, <2>2, <2>3, NothingAgree, ValuesAgree, EmptyWritten, AgreeSome
       DEF Matched, EmptyRefused, ProxyUnRegisterBusinessCallback, UnRegisterBusinessCallbackInner, Request, Serve
<1>50. Matched("PutBusinessEvent")
  <2>1. ProxyOf("PutBusinessEvent") = ProxyPutBusinessEvent
    BY ApiNames DEF ProxyOf, IsCallback, Proxies
  <2>2. InnerOf("PutBusinessEvent") = Dispatch("PUT_BUSINESS_EVENT")
    BY <2>1, ApiNames DEF InnerOf, ProxyOf, IsCallback, ProxyPutBusinessEvent, Request
  <2>3. Dispatch("PUT_BUSINESS_EVENT") = PutBusinessEventInner
    BY DEF Dispatch, aclAndSubscribeFuncs, NotifyEventInner, NotifyLocalServiceEventInner
  <2> QED
    BY <2>1, <2>2, <2>3, ClassesAgree, NothingAgree, EmptyWritten, AgreeSome
       DEF Matched, EmptyRefused, ProxyPutBusinessEvent, PutBusinessEventInner, Request, Serve
<1>51. Matched("GetBusinessEvent")
  <2>1. ProxyOf("GetBusinessEvent") = ProxyGetBusinessEvent
    BY ApiNames DEF ProxyOf, IsCallback, Proxies
  <2>2. InnerOf("GetBusinessEvent") = Dispatch("GET_BUSINESS_EVENT")
    BY <2>1, ApiNames DEF InnerOf, ProxyOf, IsCallback, ProxyGetBusinessEvent, Request
  <2>3. Dispatch("GET_BUSINESS_EVENT") = GetBusinessEventInner
    BY DEF Dispatch, aclAndSubscribeFuncs, NotifyEventInner, NotifyLocalServiceEventInner
  <2> QED
    BY <2>1, <2>2, <2>3, ClassesAgree, EmptyWritten, AgreeSome
       DEF Matched, EmptyRefused, ProxyGetBusinessEvent, GetBusinessEventInner, Request, Serve
<1> QED
  BY <1>1, <1>2, <1>3, <1>4, <1>5, <1>6, <1>7, <1>8, <1>9, <1>10, <1>11, <1>12, <1>13, <1>14,
     <1>15, <1>16, <1>17, <1>18, <1>19, <1>20, <1>21, <1>22, <1>23, <1>24, <1>25, <1>26, <1>27,
     <1>28, <1>29, <1>30, <1>31, <1>32, <1>33, <1>34, <1>35, <1>36, <1>37, <1>38, <1>39, <1>40,
     <1>41, <1>42, <1>43, <1>44, <1>45, <1>46, <1>47, <1>48, <1>49, <1>50, <1>51, ApiNames

-----------------------------------------------------------------------------
(* The reply.                                                              *)

\* A sequence with one item before it.
LEMMA ConcatItems ==
    ASSUME NEW r, NEW res, IsSeq(res), NEW n \in Nat, n = Len(res), NEW w, w = <<r>> \o res
    PROVE  /\ IsSeq(w) /\ Len(w) = n + 1
           /\ w[1] = r /\ \A i \in 1 .. n : w[i + 1] = res[i]
           /\ \A i \in 1 .. n + 1 : i = 1 \/ \E j \in 1 .. n : i = j + 1
PROOF
<1>1. PICK S : res \in Seq(S)
  BY DEF IsSeq
<1> DEFINE T == S \cup {r}
<1>2. r \in T /\ res \in Seq(T)
  BY <1>1
<1>3. <<r>> \in Seq(T)
  BY <1>2
<1> HIDE DEF T
<1>4. w \in Seq(T) /\ Len(w) = n + 1
  BY <1>2, <1>3
<1>5. w[1] = r /\ \A i \in 1 .. n : w[i + 1] = res[i]
  BY <1>2, <1>3, <1>4
<1>6. \A i \in 1 .. n + 1 : i = 1 \/ \E j \in 1 .. n : i = j + 1
  <2> SUFFICES ASSUME NEW i \in 1 .. n + 1, i # 1 PROVE \E j \in 1 .. n : i = j + 1
    OBVIOUS
  <2>1. i - 1 \in 1 .. n /\ i = (i - 1) + 1
    OBVIOUS
  <2> QED
    BY <2>1
<1> QED
  BY <1>2, <1>4, <1>5, <1>6 DEF IsSeq

\* What follows the first item.
LEMMA AfterFirst ==
    ASSUME NEW r, NEW m, IsSeq(m), NEW w, w = <<r>> \o m
    PROVE  SubSeq(w, 2, Len(w)) = m
PROOF
<1>1. PICK n \in Nat : n = Len(m)
  BY SeqFacts
<1>2. /\ Len(w) = n + 1 /\ \A i \in 1 .. n : w[i + 1] = m[i]
  BY <1>1, ConcatItems
<1>3. PICK S : m \in Seq(S)
  BY DEF IsSeq
<1>4. r \in S \cup {r} /\ w \in Seq(S \cup {r})
  BY <1>3
<1>5. /\ SubSeq(w, 2, n + 1) \in Seq(S \cup {r}) /\ Len(SubSeq(w, 2, n + 1)) = n
      /\ \A i \in 1 .. n : SubSeq(w, 2, n + 1)[i] = w[i + 1]
  BY <1>2, <1>4
<1>6. m \in Seq(S \cup {r})
  BY <1>3
<1> DEFINE z == SubSeq(w, 2, n + 1)
<1> HIDE DEF z
<1>7. z = m
  BY <1>1, <1>2, <1>5, <1>6 DEF z
<1> QED
  BY <1>2, <1>7 DEF z

\* The return value before the results changes nothing about them.
LEMMA ReplyWritten ==
    ASSUME NEW res, IsLayout(res), NEW w, w = Int32(<<"ret">>) \o res
    PROVE  /\ RawTwice(res) => RawTwice(w)
           /\ WriteOk(res, 0) <=> WriteOk(w, 0)
           /\ SubSeq(Written(w, 0), 2, Len(Written(w, 0))) = Expected(res)
PROOF
<1> DEFINE r == [kind |-> "Int32", at |-> <<"ret">>, part |-> <<>>]
<1>1. Int32(<<"ret">>) = <<r>>
  <2>1. DOMAIN <<"ret">> = 1 .. 1 /\ <<"ret">>[1] = "ret"
    OBVIOUS
  <2>2. Int32(<<"ret">>) = [i \in 1 .. 1 |-> r]
    BY <2>1 DEF Int32, Fields
  <2> HIDE DEF r
  <2> QED
    BY <2>2
<1>2. r.kind = "Int32"
  OBVIOUS
<1> HIDE DEF r
<1>3. PICK n \in Nat : n = Len(res)
  BY SeqFacts DEF IsLayout
<1>4. /\ IsSeq(w) /\ Len(w) = n + 1 /\ DOMAIN w = 1 .. n + 1 /\ DOMAIN res = 1 .. n
      /\ w[1] = r /\ \A i \in 1 .. n : w[i + 1] = res[i]
      /\ \A i \in 1 .. n + 1 : i = 1 \/ \E j \in 1 .. n : i = j + 1
  <2>1. w = <<r>> \o res /\ IsSeq(res)
    BY <1>1 DEF IsLayout
  <2>2. IsSeq(w)
    BY <1>3, <2>1, ConcatItems
  <2>3. IsSeq(w) /\ Len(w) = n + 1
    BY <1>3, <2>1, <2>2, ConcatItems
  <2>4. DOMAIN w = 1 .. n + 1 /\ DOMAIN res = 1 .. n
    BY <1>3, <2>1, <2>3, SeqFacts
  <2>5. w[1] = r /\ \A i \in 1 .. n : w[i + 1] = res[i]
    BY <1>3, <2>1, ConcatItems
  <2>6. \A i \in 1 .. n + 1 : i = 1 \/ \E j \in 1 .. n : i = j + 1
    BY <1>3, <2>1, ConcatItems
  <2> QED
    BY <2>3, <2>4, <2>5, <2>6
<1>5. RawTwice(res) => RawTwice(w)
  <2> SUFFICES ASSUME NEW i \in 1 .. n, NEW j \in 1 .. n, i < j, res[i].kind = "Raw", res[j].kind = "Raw"
               PROVE  RawTwice(w)
    BY <1>4 DEF RawTwice
  <2>1. i + 1 \in 1 .. n + 1 /\ j + 1 \in 1 .. n + 1 /\ i + 1 < j + 1
    OBVIOUS
  <2>2. w[i + 1].kind = "Raw" /\ w[j + 1].kind = "Raw"
    BY <1>4
  <2> QED
    BY <1>4, <2>1, <2>2 DEF RawTwice
<1> DEFINE raw == {i \in DOMAIN res : res[i].kind = "Raw" /\ i # 0}
           wraw == {i \in DOMAIN w : w[i].kind = "Raw" /\ i # 0}
<1>6. /\ wraw \subseteq 1 .. n + 1 /\ raw \subseteq 1 .. n
      /\ 1 \notin wraw /\ \A i \in 1 .. n : i + 1 \in wraw <=> i \in raw
  BY <1>2, <1>4
<1>7. Fails(res, 0) = {i \in DOMAIN res : res[i].kind = "Refuse" \/ i = 0 \/ (i \in raw /\ \E j \in raw : j < i)}
  BY DEF Fails
<1>8. Fails(w, 0) = {i \in DOMAIN w : w[i].kind = "Refuse" \/ i = 0 \/ (i \in wraw /\ \E j \in wraw : j < i)}
  BY DEF Fails
<1> HIDE DEF raw, wraw
<1>9. 1 \notin Fails(w, 0)
  BY <1>2, <1>4, <1>6, <1>8
<1>10. ASSUME NEW i \in 1 .. n
       PROVE  i + 1 \in Fails(w, 0) <=> i \in Fails(res, 0)
  <2>1. (\E j \in wraw : j < i + 1) <=> (\E j \in raw : j < i)
    <3>1. ASSUME NEW j \in wraw, j < i + 1 PROVE \E k \in raw : k < i
      <4>1. PICK k \in 1 .. n : j = k + 1
        BY <1>4, <1>6
      <4>2. k + 1 \in wraw /\ k < i
        BY <3>1, <4>1
      <4>3. k \in raw
        BY <1>6, <4>1, <4>2
      <4> QED
        BY <4>2, <4>3
    <3>2. ASSUME NEW j \in raw, j < i PROVE \E k \in wraw : k < i + 1
      <4>1. j \in 1 .. n /\ j + 1 \in wraw
        BY <1>4, <1>6
      <4> QED
        BY <3>2, <4>1
    <3> QED
      BY <3>1, <3>2
  <2>2. w[i + 1] = res[i] /\ i + 1 \in 1 .. n + 1 /\ i # 0 /\ i + 1 # 0
    BY <1>4
  <2> QED
    BY <1>4, <1>6, <1>7, <1>8, <2>1, <2>2
<1>11. Fails(w, 0) \subseteq 1 .. n + 1 /\ Fails(res, 0) \subseteq 1 .. n
  BY <1>4 DEF Fails
<1>12. WriteOk(res, 0) <=> WriteOk(w, 0)
  <2>1. ASSUME WriteOk(res, 0), NEW i \in Fails(w, 0) PROVE w[i].part # <<>>
    <3>1. PICK j \in 1 .. n : i = j + 1
      BY <1>4, <1>9, <1>11
    <3> QED
      BY <1>4, <1>10, <2>1, <3>1 DEF WriteOk
  <2>2. ASSUME WriteOk(w, 0), NEW i \in Fails(res, 0) PROVE res[i].part # <<>>
    <3>1. i \in 1 .. n
      BY <1>11
    <3> QED
      BY <1>4, <1>10, <2>2, <3>1 DEF WriteOk
  <2> QED
    BY <2>1, <2>2 DEF WriteOk
<1>13. 1 \notin Skipped(w, 0)
  <2> SUFFICES ASSUME NEW j \in Fails(w, 0), j <= 1 PROVE FALSE
    BY DEF Skipped
  <2> QED
    BY <1>9, <1>11
<1>14. ASSUME NEW i \in 1 .. n
       PROVE  i + 1 \in Skipped(w, 0) <=> i \in Skipped(res, 0)
  <2>1. w[i + 1] = res[i] /\ i + 1 \in DOMAIN w /\ i \in DOMAIN res
    BY <1>4
  <2>2. ASSUME NEW j \in Fails(w, 0), j <= i + 1, IsPrefix(w[j].part, w[i + 1].part)
        PROVE  \E k \in Fails(res, 0) : k <= i /\ IsPrefix(res[k].part, res[i].part)
    <3>1. PICK k \in 1 .. n : j = k + 1
      BY <1>4, <1>9, <1>11
    <3>2. w[j] = res[k] /\ k \in Fails(res, 0) /\ k <= i
      BY <1>4, <1>10, <2>2, <3>1
    <3> QED
      BY <2>1, <2>2, <3>2
  <2>3. ASSUME NEW k \in Fails(res, 0), k <= i, IsPrefix(res[k].part, res[i].part)
        PROVE  \E j \in Fails(w, 0) : j <= i + 1 /\ IsPrefix(w[j].part, w[i + 1].part)
    <3>1. k \in 1 .. n /\ w[k + 1] = res[k] /\ k + 1 \in Fails(w, 0) /\ k + 1 <= i + 1
      BY <1>4, <1>10, <1>11, <2>3
    <3> QED
      BY <2>1, <2>3, <3>1
  <2> QED
    BY <2>1, <2>2, <2>3 DEF Skipped
<1>15. PICK S : res \in Seq(S)
  BY DEF IsLayout, IsSeq
<1>16. r \in S \cup {r} /\ res \in Seq(S \cup {r})
  BY <1>15
<1>17. Written(w, 0) = <<r>> \o Expected(res)
  <2> DEFINE X == Skipped(w, 0)
             Y == Skipped(res, 0)
  <2>1. 1 \notin X /\ \A i \in 1 .. Len(res) : i + 1 \in X <=> i \in Y
    BY <1>3, <1>13, <1>14
  <2>2. Written(w, 0) = Kept(<<r>> \o res, X) /\ Expected(res) = Kept(res, Y)
    BY <1>1 DEF Written, Expected
  <2> HIDE DEF X, Y
  <2>3. Kept(<<r>> \o res, X) = <<r>> \o Kept(res, Y)
    BY <1>16, <2>1, KeptAfter
  <2> QED
    BY <2>2, <2>3
<1>18. IsSeq(Expected(res))
  BY <1>15, KeptOf DEF Expected, Written, IsSeq
<1>19. SubSeq(Written(w, 0), 2, Len(Written(w, 0))) = Expected(res)
  BY <1>17, <1>18, AfterFirst
<1> QED
  BY <1>5, <1>12, <1>19

-----------------------------------------------------------------------------
(* The managers of the handlers.                                           *)

\* What a handler of an early code reaches needs no PostInit, or is the service info manager.
EarlyReady(api) ==
    Proxies[api].code \in aclAndSubscribeFuncs /\ ~Handlers[api].staged =>
        \A m \in Handlers[api].managers :
            m \in InitManagers \/ m = "ServiceInfoManager" \/ m \notin ToSet(PostInitOrder)

\* The managers that PostInit makes ready.
LEMMA OrderFacts ==
    /\ Len(PostInitOrder) = 7 /\ DOMAIN PostInitOrder = 1 .. 7
    /\ ToSet(PostInitOrder) = {PostInitOrder[i] : i \in 1 .. 7}
    /\ ToSet(PostInitOrder) =
          {"SwitchProfileManager", "DeviceProfileManager", "StaticProfileManager", "ProfileCache",
           "LocalServiceInfoManager", "ServiceInfoManager", "BusinessEventManager"}
PROOF
<1>1. Len(PostInitOrder) = 7 /\ DOMAIN PostInitOrder = 1 .. 7
  BY DEF PostInitOrder
<1>2. ToSet(PostInitOrder) = {PostInitOrder[i] : i \in 1 .. 7}
  BY <1>1 DEF ToSet
<1>3. \A i : i \in 1 .. 7 <=> i \in {1, 2, 3, 4, 5, 6, 7}
  OBVIOUS
<1>4. ToSet(PostInitOrder) = {PostInitOrder[i] : i \in {1, 2, 3, 4, 5, 6, 7}}
  BY <1>2, <1>3
<1>5. /\ PostInitOrder[1] = "SwitchProfileManager" /\ PostInitOrder[2] = "DeviceProfileManager"
      /\ PostInitOrder[3] = "StaticProfileManager" /\ PostInitOrder[4] = "ProfileCache"
      /\ PostInitOrder[5] = "LocalServiceInfoManager" /\ PostInitOrder[6] = "ServiceInfoManager"
      /\ PostInitOrder[7] = "BusinessEventManager"
  BY DEF PostInitOrder
<1> QED
  BY <1>1, <1>2, <1>4, <1>5

\* This holds for every handler.
LEMMA EarlyReadyFacts == \A api \in DOMAIN Proxies : EarlyReady(api)
PROOF
<1>1. EarlyReady("PutAccessControlProfile")
  BY OrderFacts DEF EarlyReady, Handlers, PutAccessControlProfile, Handle, InitManagers
<1>2. EarlyReady("UpdateAccessControlProfile")
  BY OrderFacts DEF EarlyReady, Handlers, UpdateAccessControlProfile, Handle, InitManagers
<1>3. EarlyReady("GetTrustDeviceProfile")
  BY OrderFacts DEF EarlyReady, Handlers, GetTrustDeviceProfile, Handle, InitManagers
<1>4. EarlyReady("GetAllTrustDeviceProfile")
  BY OrderFacts DEF EarlyReady, Handlers, GetAllTrustDeviceProfile, Handle, InitManagers
<1>5. EarlyReady("GetAccessControlProfile")
  BY OrderFacts DEF EarlyReady, Handlers, GetAccessControlProfile, Handle, InitManagers
<1>6. EarlyReady("GetAllAccessControlProfile")
  BY OrderFacts DEF EarlyReady, Handlers, GetAllAccessControlProfile, Handle, InitManagers
<1>7. EarlyReady("GetAllAclIncludeLnnAcl")
  BY OrderFacts DEF EarlyReady, Handlers, GetAllAclIncludeLnnAcl, Handle, InitManagers
<1>8. EarlyReady("DeleteAccessControlProfile")
  BY OrderFacts DEF EarlyReady, Handlers, DeleteAccessControlProfile, Handle, InitManagers
<1>9. EarlyReady("PutSessionKey")
  BY OrderFacts DEF EarlyReady, Handlers, PutSessionKey, Handle, InitManagers
<1>10. EarlyReady("GetSessionKey")
  BY OrderFacts DEF EarlyReady, Handlers, GetSessionKey, Handle, InitManagers
<1>11. EarlyReady("GetSessionKeyBySessionKeyId")
  BY OrderFacts DEF EarlyReady, Handlers, GetSessionKeyBySessionKeyId, Handle, InitManagers
<1>12. EarlyReady("UpdateSessionKey")
  BY OrderFacts DEF EarlyReady, Handlers, UpdateSessionKey, Handle, InitManagers
<1>13. EarlyReady("DeleteSessionKey")
  BY OrderFacts DEF EarlyReady, Handlers, DeleteSessionKey, Handle, InitManagers
<1>14. EarlyReady("SubscribeDeviceProfile")
  BY OrderFacts DEF EarlyReady, Handlers, SubscribeDeviceProfile, Handle, InitManagers
<1>15. EarlyReady("UnSubscribeDeviceProfile")
  BY OrderFacts DEF EarlyReady, Handlers, UnSubscribeDeviceProfile, Handle, InitManagers
<1>16. EarlyReady("SendSubscribeInfos")
  BY OrderFacts DEF EarlyReady, Handlers, SendSubscribeInfos, Handle, InitManagers
<1>17. EarlyReady("PutServiceProfile")
  BY DEF EarlyReady, Handlers, PutServiceProfile, Staged
<1>18. EarlyReady("PutServiceProfileBatch")
  BY DEF EarlyReady, Handlers, PutServiceProfileBatch, Staged
<1>19. EarlyReady("PutCharacteristicProfile")
  BY DEF EarlyReady, Handlers, PutCharacteristicProfile, Staged
<1>20. EarlyReady("PutCharacteristicProfileBatch")
  BY DEF EarlyReady, Handlers, PutCharacteristicProfileBatch, Staged
<1>21. EarlyReady("SubscribeDeviceProfileInited")
  BY OrderFacts DEF EarlyReady, Handlers, RunSubscribeDeviceProfileInited, Handle, InitManagers
<1>22. EarlyReady("UnSubscribeDeviceProfileInited")
  BY OrderFacts DEF EarlyReady, Handlers, RunUnSubscribeDeviceProfileInited, Handle, InitManagers
<1>23. EarlyReady("PutAllTrustedDevices")
  BY OrderFacts DEF EarlyReady, Handlers, PutAllTrustedDevices, Handle, InitManagers
<1>24. EarlyReady("PutDeviceProfileBatch")
  BY OrderFacts DEF EarlyReady, Handlers, PutDeviceProfileBatch, Handle, InitManagers
<1>25. EarlyReady("GetDeviceProfiles")
  BY OrderFacts DEF EarlyReady, Handlers, GetDeviceProfiles, Handle, InitManagers
<1>26. EarlyReady("GetDeviceIconInfos")
  BY OrderFacts DEF EarlyReady, Handlers, GetDeviceIconInfos, Handle, InitManagers
<1>27. EarlyReady("PutDeviceIconInfoBatch")
  BY OrderFacts DEF EarlyReady, Handlers, PutDeviceIconInfoBatch, Handle, InitManagers
<1>28. EarlyReady("PutProductInfoBatch")
  BY OrderFacts DEF EarlyReady, Handlers, PutProductInfoBatch, Handle, InitManagers
<1>29. EarlyReady("DeleteDeviceProfileBatch")
  BY OrderFacts DEF EarlyReady, Handlers, DeleteDeviceProfileBatch, Handle, InitManagers
<1>30. EarlyReady("SubscribePinCodeInvalid")
  BY OrderFacts DEF EarlyReady, Handlers, SubscribePinCodeInvalid, Handle, InitManagers
<1>31. EarlyReady("UnSubscribePinCodeInvalid")
  BY OrderFacts DEF EarlyReady, Handlers, UnSubscribePinCodeInvalid, Handle, InitManagers
<1>32. EarlyReady("SubscribeAllServiceInfo")
  BY OrderFacts DEF EarlyReady, Handlers, SubscribeAllServiceInfo, Handle, InitManagers
<1>33. EarlyReady("PutServiceInfo")
  BY OrderFacts DEF EarlyReady, Handlers, PutServiceInfo, Handle, InitManagers
<1>34. EarlyReady("DeleteServiceInfo")
  BY OrderFacts DEF EarlyReady, Handlers, DeleteServiceInfo, Handle, InitManagers
<1>35. EarlyReady("GetAllServiceInfoList")
  BY OrderFacts DEF EarlyReady, Handlers, GetAllServiceInfoList, Handle, InitManagers
<1>36. EarlyReady("GetServiceInfosByUserInfo")
  BY OrderFacts DEF EarlyReady, Handlers, GetServiceInfosByUserInfo, Handle, InitManagers
<1>37. EarlyReady("GetDeviceProfile")
  BY DEF EarlyReady, Proxies, ProxyGetDeviceProfile, Request, aclAndSubscribeFuncs
<1>38. EarlyReady("GetServiceProfile")
  BY DEF EarlyReady, Proxies, ProxyGetServiceProfile, Request, aclAndSubscribeFuncs
<1>39. EarlyReady("GetCharacteristicProfile")
  BY DEF EarlyReady, Proxies, ProxyGetCharacteristicProfile, Request, aclAndSubscribeFuncs
<1>40. EarlyReady("DeleteServiceProfile")
  BY DEF EarlyReady, Proxies, ProxyDeleteServiceProfile, Request, aclAndSubscribeFuncs
<1>41. EarlyReady("DeleteCharacteristicProfile")
  BY DEF EarlyReady, Proxies, ProxyDeleteCharacteristicProfile, Request, aclAndSubscribeFuncs
<1>42. EarlyReady("SyncDeviceProfile")
  BY DEF EarlyReady, Proxies, ProxySyncDeviceProfile, Request, aclAndSubscribeFuncs
<1>43. EarlyReady("SyncStaticProfile")
  BY DEF EarlyReady, Proxies, ProxySyncStaticProfile, Request, aclAndSubscribeFuncs
<1>44. EarlyReady("PutLocalServiceInfo")
  BY DEF EarlyReady, Proxies, ProxyPutLocalServiceInfo, Request, aclAndSubscribeFuncs
<1>45. EarlyReady("UpdateLocalServiceInfo")
  BY DEF EarlyReady, Proxies, ProxyUpdateLocalServiceInfo, Request, aclAndSubscribeFuncs
<1>46. EarlyReady("GetLocalServiceInfoByBundleAndPinType")
  BY DEF EarlyReady, Proxies, ProxyGetLocalServiceInfoByBundleAndPinType, Request, aclAndSubscribeFuncs
<1>47. EarlyReady("DeleteLocalServiceInfo")
  BY DEF EarlyReady, Proxies, ProxyDeleteLocalServiceInfo, Request, aclAndSubscribeFuncs
<1>48. EarlyReady("RegisterBusinessCallback")
  BY DEF EarlyReady, Proxies, ProxyRegisterBusinessCallback, Request, aclAndSubscribeFuncs
<1>49. EarlyReady("UnRegisterBusinessCallback")
  BY DEF EarlyReady, Proxies, ProxyUnRegisterBusinessCallback, Request, aclAndSubscribeFuncs
<1>50. EarlyReady("PutBusinessEvent")
  BY DEF EarlyReady, Proxies, ProxyPutBusinessEvent, Request, aclAndSubscribeFuncs
<1>51. EarlyReady("GetBusinessEvent")
  BY DEF EarlyReady, Proxies, ProxyGetBusinessEvent, Request, aclAndSubscribeFuncs
<1> QED
  BY <1>1, <1>2, <1>3, <1>4, <1>5, <1>6, <1>7, <1>8, <1>9, <1>10, <1>11, <1>12, <1>13, <1>14,
     <1>15, <1>16, <1>17, <1>18, <1>19, <1>20, <1>21, <1>22, <1>23, <1>24, <1>25, <1>26, <1>27,
     <1>28, <1>29, <1>30, <1>31, <1>32, <1>33, <1>34, <1>35, <1>36, <1>37, <1>38, <1>39, <1>40,
     <1>41, <1>42, <1>43, <1>44, <1>45, <1>46, <1>47, <1>48, <1>49, <1>50, <1>51, ApiNames

-----------------------------------------------------------------------------
(* The invariant of a call.                                                *)

CallInputs == [api : Apis, caller : Callers, n : Sizes, full : Nat, m : Sizes, rfull : Nat]
Reads == InnerOf(call.api).args[call.n]

\* Where the call has come, and what is known of it there.
CallProgress ==
    /\ booted \in 0 .. Len(PostInitOrder) + 1
    /\ phase \in {"idle", "sent", "served", "replied", "returned"}
    /\ phase # "idle" => call \in CallInputs
    /\ phase \in {"idle", "sent"} => served = Nil
    /\ phase \in {"served", "replied"} => served # Nil
    /\ phase \in {"idle", "sent", "served"} \/ served = Nil => ret = Nil /\ reached = Nil

\* The handler that runs, and why it may.
HandlerOfCall ==
    /\ phase = "sent" => WriteOk(Writes, call.full)
    /\ served # Nil =>
        /\ served = [handler |-> call.api, misread |-> ~Fits(Data, Reads)]
        /\ WriteOk(Writes, call.full) /\ (served.misread \/ ReadOk(Reads))
    /\ phase = "served" /\ ~IsCallback(call.api) =>
        ProxyOf(call.api).code \in aclAndSubscribeFuncs \/ IsInited

IpcInv == CallProgress /\ HandlerOfCall /\ ManagerReady /\ AnswerTrue

\* What the type of the call says of its API.
LEMMA CallTyped ==
    ASSUME call \in CallInputs
    PROVE  /\ call.api \in Apis /\ call.n \in Sizes /\ call.m \in Sizes /\ Matched(call.api)
           /\ ~IsCallback(call.api) => call.api \in DOMAIN Proxies
           /\ ~IsCallback(call.api) => InnerOf(call.api) = Dispatch(ProxyOf(call.api).code)
           /\ IsCallback(call.api) => InnerOf(call.api) = CallbackInners[call.api]
PROOF
<1>1. call.api \in Apis /\ call.n \in Sizes /\ call.m \in Sizes
  BY DEF CallInputs
<1>2. Matched(call.api)
  BY <1>1, CallsMatched, CallbacksMatched DEF Apis
<1> QED
  BY <1>1, <1>2 DEF Apis, IsCallback, InnerOf, ProxyOf

\* A handler's arguments are those of the call.
LEMMA HandledTrue == IpcInv => HandledAsSent
PROOF
<1> SUFFICES ASSUME IpcInv, served # Nil
             PROVE  /\ served.handler = call.api
                    /\ call.full = 0 /\ ~RawTwice(Writes) /\ ~ArgsCut(call.api, call.n) =>
                        /\ ~served.misread
                        /\ Got(Data, Reads) = Meant(Expected(Writes))
  BY DEF HandledAsSent, Reads
<1>1. call \in CallInputs
  BY DEF IpcInv, CallProgress
<1>2. served = [handler |-> call.api, misread |-> ~Fits(Data, Reads)]
  BY DEF IpcInv, HandlerOfCall
<1>3. WriteOk(Writes, call.full) /\ (served.misread \/ ReadOk(Reads))
  BY DEF IpcInv, HandlerOfCall
<1>4. ~ArgsCut(call.api, call.n) => Understood(Writes, Reads)
  BY <1>1, CallTyped DEF Matched, AgreeBut, Writes, Reads
<1>5. ASSUME call.full = 0, ~RawTwice(Writes), ~ArgsCut(call.api, call.n)
      PROVE  ~served.misread /\ Got(Data, Reads) = Meant(Expected(Writes))
  <2>1. Data = Expected(Writes)
    BY <1>5 DEF Data, Expected
  <2>2. Fits(Data, Reads) /\ (ReadOk(Reads) => Got(Data, Reads) = Meant(Expected(Writes)))
    BY <1>3, <1>4, <1>5, <2>1 DEF Understood
  <2>3. ~served.misread
    BY <1>2, <2>2
  <2> QED
    BY <1>3, <2>2, <2>3
<1> QED
  BY <1>2, <1>5

\* What Receive makes of the reply is what the handler returned.
LEMMA ReceiveTrue ==
    ASSUME IpcInv, phase = "replied", Receive, UNCHANGED <<call, served, ret, reached>>
    PROVE  AnswerTrue'
PROOF
<1> DEFINE c == InnerOf(call.api).results[IF ret = "DP_SUCCESS" THEN call.m ELSE 0]
           d == ProxyOf(call.api).results[call.m]
           s == SubSeq(ReplyData, 2, Len(ReplyData))
<1>1. call \in CallInputs /\ served # Nil
  BY DEF IpcInv, CallProgress
<1>2. 0 \in Sizes /\ call.m \in Sizes /\ Matched(call.api)
  BY <1>1, CallTyped, SizesAssumption
<1>3. IsLayout(c)
  BY <1>2 DEF Matched, AgreeBut
<1>4. ResultWrites = Int32(<<"ret">>) \o c
  BY DEF ResultWrites
<1> HIDE DEF c, d
<1>5. RawTwice(c) => RawTwice(ResultWrites)
  BY <1>3, <1>4, ReplyWritten
<1>6. WriteOk(c, 0) <=> WriteOk(ResultWrites, 0)
  BY <1>3, <1>4, ReplyWritten
<1>7. call.rfull = 0 => s = Expected(c)
  BY <1>3, <1>4, ReplyWritten DEF ReplyData
<1> HIDE DEF s
<1>8. call.api # "OnSyncCompleted" =>
        answer' \in IF ~WriteOk(ResultWrites, call.rfull) THEN {"PARCEL_FAIL"}
                    ELSE IF ret # "DP_SUCCESS" THEN {ret}
                    ELSE IF ~Fits(s, d) THEN {"DP_SUCCESS", "PARCEL_FAIL"}
                    ELSE IF ReadOk(d) THEN {"DP_SUCCESS"} ELSE {"PARCEL_FAIL"}
  BY DEF Receive, s, d
<1>9. ASSUME call.api # "OnSyncCompleted", answer' = "DP_SUCCESS"
      PROVE  served # Nil /\ ret = "DP_SUCCESS" /\ WriteOk(ResultWrites, call.rfull)
  BY <1>1, <1>8, <1>9
<1>10. ASSUME call.api # "OnSyncCompleted", answer' = "DP_SUCCESS", call.rfull = 0, ~RawTwice(ResultWrites),
              ~ResultsCut(call.api, call.m)
       PROVE  Got(s, d) = Meant(Expected(InnerOf(call.api).results[call.m]))
  <2>1. ret = "DP_SUCCESS" /\ WriteOk(ResultWrites, 0)
    BY <1>9, <1>10
  <2>2. c = InnerOf(call.api).results[call.m]
    BY <2>1 DEF c
  <2>3. Understood(c, d)
    BY <1>2, <1>10, <2>2 DEF Matched, AgreeBut, d
  <2>4. Fits(s, d) /\ (ReadOk(d) => Got(s, d) = Meant(Expected(c)))
    BY <1>5, <1>6, <1>7, <1>10, <2>1, <2>3 DEF Understood
  <2>5. ReadOk(d)
    BY <1>8, <1>10, <2>1, <2>4
  <2> QED
    BY <2>2, <2>4, <2>5
<1>11. ASSUME call.api # "OnSyncCompleted", ret \notin {Nil, "DP_SUCCESS"}, call.rfull = 0,
              call.api \notin EmptyRefused
       PROVE  answer' = ret
  <2>1. c = InnerOf(call.api).results[0]
    BY <1>11 DEF c
  <2>2. WriteOk(ResultWrites, 0)
    BY <1>2, <1>6, <1>11, <2>1 DEF Matched
  <2> QED
    BY <1>8, <1>11, <2>2
<1>12. ResultWrites' = ResultWrites /\ SubSeq(ReplyData, 2, Len(ReplyData))' = s
  BY DEF ResultWrites, ReplyData, s
<1> QED
  BY <1>9, <1>10, <1>11, <1>12 DEF AnswerTrue, d

\* The smaller of two numbers.
LEMMA MinOfTwo ==
    ASSUME NEW a \in Nat, NEW b \in Nat
    PROVE  Min({a, b}) = IF a <= b THEN a ELSE b
PROOF
<1> DEFINE m == IF a <= b THEN a ELSE b
           P(x) == x \in {a, b} /\ \A y \in {a, b} : x <= y
<1>1. P(m)
  OBVIOUS
<1>2. \A x : P(x) => x = m
  OBVIOUS
<1>3. Min({a, b}) = CHOOSE x : P(x)
  BY DEF Min
<1> QED
  BY <1>1, <1>2, <1>3

\* The managers that are ready; PostInit only adds to them.
LEMMA ReadyManagers ==
    /\ CallProgress => Ready = InitManagers \cup {PostInitOrder[i] : i \in 1 .. (IF booted <= 7 THEN booted ELSE 7)}
    /\ CallProgress /\ IsInited => Ready = InitManagers \cup ToSet(PostInitOrder)
    /\ CallProgress /\ BootManager => Ready \subseteq Ready'
PROOF
<1> SUFFICES ASSUME CallProgress
             PROVE  /\ Ready = InitManagers \cup {PostInitOrder[i] : i \in 1 .. (IF booted <= 7 THEN booted ELSE 7)}
                    /\ IsInited => Ready = InitManagers \cup ToSet(PostInitOrder)
                    /\ BootManager => Ready \subseteq Ready'
  OBVIOUS
<1>1. booted \in 0 .. 8 /\ Len(PostInitOrder) = 7
  BY OrderFacts DEF CallProgress
<1>2. Ready = InitManagers \cup {PostInitOrder[i] : i \in 1 .. (IF booted <= 7 THEN booted ELSE 7)}
  BY <1>1, MinOfTwo DEF Ready
<1>3. IsInited => Ready = InitManagers \cup ToSet(PostInitOrder)
  BY <1>1, <1>2, OrderFacts DEF IsInited
<1>4. ASSUME BootManager PROVE Ready \subseteq Ready'
  <2>1. booted' = booted + 1 /\ booted' \in Nat
    BY <1>1, <1>4 DEF BootManager
  <2>2. Ready' = InitManagers \cup {PostInitOrder[i] : i \in 1 .. (IF booted' <= 7 THEN booted' ELSE 7)}
    BY <1>1, <2>1, MinOfTwo DEF Ready
  <2> QED
    BY <1>1, <1>2, <2>1, <2>2
<1> QED
  BY <1>2, <1>3, <1>4

\* The invariant holds before any call.
LEMMA IpcInvInit == IpcInit => IpcInv
PROOF
<1> SUFFICES ASSUME IpcInit PROVE IpcInv
  OBVIOUS
<1>1. CallProgress
  BY OrderFacts DEF IpcInit, CallProgress
<1>2. HandlerOfCall
  BY DEF IpcInit, HandlerOfCall
<1>3. ManagerReady
  BY IpcAssumption DEF IpcInit, ManagerReady
<1>4. AnswerTrue
  BY DEF IpcInit, AnswerTrue
<1> QED
  BY <1>1, <1>2, <1>3, <1>4 DEF IpcInv

\* A step that leaves the call and its answer alone.
LEMMA CallUntouched ==
    ASSUME IpcInv, UNCHANGED <<running, phase, call, served, ret, reached, answer>>,
           booted' \in 0 .. Len(PostInitOrder) + 1, IsInited => IsInited', Ready \subseteq Ready'
    PROVE  IpcInv'
PROOF
<1>1. CallProgress'
  BY DEF IpcInv, CallProgress, CallInputs
<1>2. HandlerOfCall'
  BY DEF IpcInv, HandlerOfCall, Writes, Data, Reads
<1>3. ManagerReady'
  BY DEF IpcInv, ManagerReady
<1>4. AnswerTrue'
  BY DEF IpcInv, AnswerTrue, ResultWrites, ReplyData
<1> QED
  BY <1>1, <1>2, <1>3, <1>4 DEF IpcInv

\* An Inner that enters its handler, or refuses what it reads.
LEMMA ReadServes ==
    ASSUME IpcInv, phase = "sent", NEW enter, Read(InnerOf(call.api), enter),
           UNCHANGED <<booted, call, ret, reached>>,
           IsCallback(call.api) \/ ProxyOf(call.api).code \in aclAndSubscribeFuncs \/ IsInited,
           phase' = "served" => running' = IF IsCallback(call.api) THEN 0 ELSE 1,
           phase' = "returned" => running' = running
    PROVE  IpcInv'
PROOF
<1> USE DEF IpcInv
<1>1. call \in CallInputs /\ served = Nil /\ ret = Nil /\ reached = Nil /\ running = 0 /\ WriteOk(Writes, call.full)
  BY DEF CallProgress, HandlerOfCall, ManagerReady
<1>2. Matched(call.api) /\ call.api \in Apis
  BY <1>1, CallTyped
<1>3. Writes' = Writes /\ Data' = Data /\ Reads' = Reads /\ IsInited' = IsInited /\ Ready' = Ready
  BY DEF Writes, Data, Reads, IsInited, Ready
<1> DEFINE s == [handler |-> call.api, misread |-> ~Fits(Data, Reads)]
<1>4. \/ /\ phase' = "served" /\ served' = s /\ (Fits(Data, Reads) => ReadOk(Reads)) /\ answer' = answer
      \/ phase' = "returned" /\ answer' = "PARCEL_FAIL" /\ served' = Nil
  BY <1>1, <1>2 DEF Read, Answer, Reads, Matched
<1>5. s # Nil
  <2>1. \A b \in BOOLEAN : [handler |-> call.api, misread |-> b] # Nil
    BY <1>2, IpcAssumption
  <2>2. (~Fits(Data, Reads)) \in BOOLEAN
    OBVIOUS
  <2> QED
    BY <2>1, <2>2
<1> HIDE DEF s
<1>6. CallProgress'
  BY <1>1, <1>4, <1>5 DEF CallProgress, CallInputs
<1>7. HandlerOfCall'
  <2>1. CASE phase' = "returned" /\ served' = Nil
    BY <2>1 DEF HandlerOfCall
  <2>2. CASE phase' = "served" /\ served' = s /\ (Fits(Data, Reads) => ReadOk(Reads))
    <3>1. s.misread = ~Fits(Data, Reads)
      BY DEF s
    <3>2. Writes' = Writes /\ call' = call
      BY <1>3
    <3>3. served'.misread \/ ReadOk(Reads')
      BY <1>3, <2>2, <3>1
    <3>4. served' = [handler |-> call'.api, misread |-> ~Fits(Data', Reads')]
      BY <1>3, <2>2, <3>2 DEF s
    <3>5. IsCallback(call'.api) \/ ProxyOf(call'.api).code \in aclAndSubscribeFuncs \/ IsInited'
      BY <1>3, <3>2
    <3>6. WriteOk(Writes', call'.full)
      BY <1>1, <3>2
    <3> QED
      BY <2>2, <3>3, <3>4, <3>5, <3>6 DEF HandlerOfCall
  <2> QED
    BY <1>4, <2>1, <2>2
<1>8. ManagerReady'
  BY <1>1, <1>4, IpcAssumption DEF ManagerReady
<1>9. AnswerTrue'
  BY <1>1, <1>4 DEF AnswerTrue
<1> QED
  BY <1>6, <1>7, <1>8, <1>9

\* A proxy that sends a request keeps it.
LEMMA CallKeeps == IpcInv /\ Call => IpcInv'
PROOF
<1> SUFFICES ASSUME IpcInv, Call PROVE IpcInv'
  OBVIOUS
<1> USE DEF IpcInv
<1>1. PICK api \in Apis, in \in Inputs \cup EarlyInputs :
        /\ call' = [api |-> api, caller |-> in.caller, n |-> in.n, full |-> in.full, m |-> in.m, rfull |-> in.rfull]
        /\ IF WriteOk(ProxyOf(api).args[in.n], in.full)
           THEN phase' = "sent" /\ answer' = answer
           ELSE Answer("PARCEL_FAIL")
  BY DEF Call
<1>2. in \in [caller : Callers, n : Sizes, full : Nat, m : Sizes, rfull : Nat]
  BY <1>1, IpcAssumption
<1>3. call' \in CallInputs
  BY <1>1, <1>2 DEF CallInputs
<1>4. phase = "idle" /\ UNCHANGED <<booted, stopped, running, served, ret, reached>>
  BY DEF Call
<1>5. served = Nil /\ ret = Nil /\ reached = Nil /\ running = 0
  BY <1>4 DEF CallProgress, ManagerReady
<1>6. \/ phase' = "sent" /\ WriteOk(ProxyOf(call'.api).args[call'.n], call'.full)
      \/ phase' = "returned" /\ answer' = "PARCEL_FAIL"
  BY <1>1 DEF Answer
<1>7. CallProgress'
  BY <1>3, <1>4, <1>5, <1>6 DEF CallProgress, CallInputs
<1>8. HandlerOfCall'
  BY <1>4, <1>5, <1>6 DEF HandlerOfCall, Writes
<1>9. ManagerReady'
  BY <1>4, <1>5, <1>6, IpcAssumption DEF ManagerReady
<1>10. AnswerTrue'
  BY <1>4, <1>5, <1>6 DEF AnswerTrue
<1> QED
  BY <1>7, <1>8, <1>9, <1>10

\* PostInit keeps it.
LEMMA BootManagerKeeps == IpcInv /\ BootManager => IpcInv'
PROOF
<1> SUFFICES ASSUME IpcInv, BootManager PROVE IpcInv'
  OBVIOUS
<1>1. booted \in 0 .. Len(PostInitOrder) + 1 /\ Len(PostInitOrder) = 7 /\ ~IsInited /\ booted' = booted + 1
  BY OrderFacts DEF IpcInv, CallProgress, BootManager
<1>2. booted' \in 0 .. Len(PostInitOrder) + 1 /\ (IsInited => IsInited')
  BY <1>1 DEF IsInited
<1>3. Ready \subseteq Ready'
  BY ReadyManagers DEF IpcInv
<1>4. UNCHANGED <<running, phase, call, served, ret, reached, answer>>
  BY DEF BootManager
<1> QED
  BY <1>2, <1>3, <1>4, CallUntouched

\* OnStop keeps it.
LEMMA StopKeeps == IpcInv /\ (Stop \/ UNCHANGED ipcVars) => IpcInv'
PROOF
<1> SUFFICES ASSUME IpcInv, Stop \/ UNCHANGED ipcVars PROVE IpcInv'
  OBVIOUS
<1>1. UNCHANGED <<running, phase, call, served, ret, reached, answer>> /\ booted' = booted
  BY DEF Stop, ipcVars
<1>2. booted' \in 0 .. Len(PostInitOrder) + 1 /\ (IsInited => IsInited') /\ Ready \subseteq Ready'
  BY <1>1 DEF IpcInv, CallProgress, IsInited, Ready
<1> QED
  BY <1>1, <1>2, CallUntouched

\* The stub of the service keeps it, whether it serves the request or turns it away.
LEMMA OnRemoteRequestKeeps == IpcInv /\ OnRemoteRequest => IpcInv'
PROOF
<1> SUFFICES ASSUME IpcInv, OnRemoteRequest PROVE IpcInv'
  OBVIOUS
<1> DEFINE code == ProxyOf(call.api).code
<1>1. /\ phase = "sent" /\ ~IsCallback(call.api) /\ UNCHANGED <<booted, stopped, call, ret, reached>>
      /\ \/ \E a \in {"DP_SERVICE_STOPPED", "DP_SERVICE_ON_IDLE", "DP_LOAD_SERVICE_ERR"} :
               Answer(a) /\ UNCHANGED <<served, running>>
         \/ (code \in aclAndSubscribeFuncs \/ IsInited) /\ Read(Dispatch(code), AddRunningIpcCount)
  BY DEF OnRemoteRequest
<1>2. /\ call \in CallInputs /\ served = Nil /\ ret = Nil /\ reached = Nil /\ running = 0
      /\ booted \in 0 .. Len(PostInitOrder) + 1
  BY <1>1 DEF IpcInv, CallProgress, ManagerReady
<1>3. InnerOf(call.api) = Dispatch(code)
  BY <1>1, <1>2, CallTyped
<1> HIDE DEF code
<1>4. ASSUME NEW a \in {"DP_SERVICE_STOPPED", "DP_SERVICE_ON_IDLE", "DP_LOAD_SERVICE_ERR"},
             Answer(a), UNCHANGED <<served, running>>
      PROVE  IpcInv'
  <2>1. /\ phase' = "returned" /\ answer' = a /\ a # "DP_SUCCESS"
        /\ UNCHANGED <<booted, call, served, ret, reached, running>>
    BY <1>1, <1>4 DEF Answer
  <2>2. CallProgress'
    BY <1>2, <2>1 DEF CallProgress, CallInputs
  <2>3. HandlerOfCall'
    BY <1>2, <2>1 DEF HandlerOfCall
  <2>4. ManagerReady'
    BY <1>2, <2>1, IpcAssumption DEF ManagerReady
  <2>5. AnswerTrue'
    BY <1>2, <2>1 DEF AnswerTrue
  <2> QED
    BY <2>2, <2>3, <2>4, <2>5 DEF IpcInv
<1>5. ASSUME code \in aclAndSubscribeFuncs \/ IsInited, Read(Dispatch(code), AddRunningIpcCount)
      PROVE  IpcInv'
  <2>1. Read(InnerOf(call.api), AddRunningIpcCount)
    BY <1>3, <1>5
  <2>2. \/ phase' = "served" /\ running' = running + 1
        \/ phase' = "returned" /\ running' = running
    BY <1>5 DEF Read, Answer, AddRunningIpcCount
  <2>3. /\ phase' = "served" => running' = IF IsCallback(call.api) THEN 0 ELSE 1
        /\ phase' = "returned" => running' = running
    BY <1>1, <1>2, <2>2
  <2>4. ProxyOf(call.api).code \in aclAndSubscribeFuncs \/ IsInited
    BY <1>5 DEF code
  <2> QED
    BY <1>1, <2>1, <2>3, <2>4, ReadServes
<1> QED
  BY <1>1, <1>4, <1>5

\* The stub of a callback keeps it.
LEMMA CallbackRequestKeeps == IpcInv /\ CallbackRequest => IpcInv'
PROOF
<1> SUFFICES ASSUME IpcInv, CallbackRequest PROVE IpcInv'
  OBVIOUS
<1>1. /\ phase = "sent" /\ IsCallback(call.api) /\ UNCHANGED <<booted, stopped, call, ret, reached>>
      /\ Read(CallbackInners[call.api], UNCHANGED running)
  BY DEF CallbackRequest
<1>2. call \in CallInputs /\ running = 0
  BY <1>1 DEF IpcInv, CallProgress, ManagerReady
<1>3. Read(InnerOf(call.api), UNCHANGED running)
  BY <1>1 DEF InnerOf
<1>4. running' = running
  BY <1>1 DEF Read
<1> QED
  BY <1>1, <1>2, <1>3, <1>4, ReadServes

\* The handler keeps it: what it reaches is ready.
LEMMA RunKeeps == IpcInv /\ Run => IpcInv'
PROOF
<1> SUFFICES ASSUME IpcInv, Run PROVE IpcInv'
  OBVIOUS
<1> DEFINE h == Handlers[call.api]
<1>1. /\ phase = "served" /\ ~IsCallback(call.api) /\ phase' = "replied"
      /\ UNCHANGED <<booted, stopped, running, call, served, answer>>
  BY DEF Run
<1>2. call \in CallInputs /\ served # Nil /\ served.handler = call.api /\ running = 1
  BY <1>1 DEF IpcInv, CallProgress, HandlerOfCall, ManagerReady
<1>3. \/ reached' = Nil
      \/ h.staged /\ ~IsInited /\ reached' = "DistributedDeviceProfileServiceNew"
      \/ ~(h.staged /\ ~IsInited) /\ reached' \in h.managers
  BY <1>2 DEF Run
<1>4. Proxies[call.api].code \in aclAndSubscribeFuncs \/ IsInited
  BY <1>1 DEF IpcInv, HandlerOfCall, ProxyOf
<1>5. EarlyReady(call.api)
  BY <1>1, <1>2, CallTyped, EarlyReadyFacts
<1> HIDE DEF h
<1>6. reached' \in InitManagers \cup ToSet(PostInitOrder) => reached' \in Ready \/ reached' = "ServiceInfoManager"
  <2>1. CASE reached' = Nil
    BY <2>1, IpcAssumption
  <2>2. CASE reached' = "DistributedDeviceProfileServiceNew"
    BY <2>2, OrderFacts DEF InitManagers
  <2>3. CASE IsInited
    BY <2>3, ReadyManagers DEF IpcInv
  <2>4. CASE ~IsInited /\ ~h.staged /\ reached' \in h.managers
    <3>1. reached' \in InitManagers \/ reached' = "ServiceInfoManager" \/ reached' \notin ToSet(PostInitOrder)
      BY <1>4, <1>5, <2>4 DEF EarlyReady, h
    <3>2. InitManagers \subseteq Ready
      BY DEF Ready
    <3> QED
      BY <3>1, <3>2
  <2> QED
    BY <1>3, <2>1, <2>2, <2>3, <2>4
<1>7. CallProgress'
  BY <1>1, <1>2 DEF IpcInv, CallProgress, CallInputs
<1>8. HandlerOfCall'
  BY <1>1 DEF IpcInv, HandlerOfCall, Writes, Data, Reads
<1>9. ManagerReady'
  BY <1>1, <1>2, <1>6 DEF ManagerReady, Ready
<1>10. AnswerTrue'
  BY <1>1 DEF AnswerTrue
<1> QED
  BY <1>7, <1>8, <1>9, <1>10 DEF IpcInv

\* The callback of the client keeps it.
LEMMA RunCallbackKeeps == IpcInv /\ RunCallback => IpcInv'
PROOF
<1> SUFFICES ASSUME IpcInv, RunCallback PROVE IpcInv'
  OBVIOUS
<1>1. /\ phase = "served" /\ IsCallback(call.api) /\ phase' = "replied"
      /\ UNCHANGED <<booted, stopped, running, call, served, reached, answer>>
  BY DEF RunCallback
<1>2. call \in CallInputs /\ served # Nil
  BY <1>1 DEF IpcInv, CallProgress
<1>3. CallProgress'
  BY <1>1, <1>2 DEF IpcInv, CallProgress, CallInputs
<1>4. HandlerOfCall'
  BY <1>1 DEF IpcInv, HandlerOfCall, Writes, Data, Reads
<1>5. ManagerReady'
  BY <1>1 DEF IpcInv, ManagerReady, Ready
<1>6. AnswerTrue'
  BY <1>1 DEF AnswerTrue
<1> QED
  BY <1>3, <1>4, <1>5, <1>6 DEF IpcInv

\* The reply keeps it: the answer is that of the handler.
LEMMA ReturnKeeps == IpcInv /\ (ReturnReply \/ ReturnCallback) => IpcInv'
PROOF
<1> SUFFICES ASSUME IpcInv, ReturnReply \/ ReturnCallback PROVE IpcInv'
  OBVIOUS
<1>1. /\ phase = "replied" /\ Receive /\ UNCHANGED <<booted, stopped, call, served, ret, reached>>
      /\ running' = IF IsCallback(call.api) THEN running ELSE running - 1
  BY DEF ReturnReply, ReturnCallback, SubtractRunningIpcCount
<1>2. phase' = "returned"
  BY <1>1 DEF Receive
<1>3. call \in CallInputs /\ served # Nil /\ running = IF IsCallback(call.api) THEN 0 ELSE 1
  BY <1>1 DEF IpcInv, CallProgress, ManagerReady
<1>4. CallProgress'
  BY <1>1, <1>2, <1>3 DEF IpcInv, CallProgress, CallInputs
<1>5. HandlerOfCall'
  BY <1>1, <1>2 DEF IpcInv, HandlerOfCall, Writes, Data, Reads
<1>6. ManagerReady'
  <2>1. running' = 0
    BY <1>1, <1>3
  <2>2. Ready' = Ready
    BY <1>1 DEF Ready
  <2> QED
    BY <1>1, <1>2, <2>1, <2>2 DEF IpcInv, ManagerReady
<1>7. AnswerTrue'
  BY <1>1, ReceiveTrue
<1> QED
  BY <1>4, <1>5, <1>6, <1>7 DEF IpcInv

\* The end of the call keeps it.
LEMMA FinishKeeps == IpcInv /\ Finish => IpcInv'
PROOF
<1> SUFFICES ASSUME IpcInv, Finish PROVE IpcInv'
  OBVIOUS
<1>1. /\ phase = "returned" /\ phase' = "idle" /\ served' = Nil /\ ret' = Nil /\ reached' = Nil
      /\ UNCHANGED <<booted, stopped, running>>
  BY DEF Finish
<1>2. CallProgress'
  BY <1>1 DEF IpcInv, CallProgress
<1>3. HandlerOfCall'
  BY <1>1 DEF HandlerOfCall
<1>4. ManagerReady'
  BY <1>1, IpcAssumption DEF IpcInv, ManagerReady
<1>5. AnswerTrue'
  BY <1>1 DEF AnswerTrue
<1> QED
  BY <1>2, <1>3, <1>4, <1>5 DEF IpcInv

\* The handler of a call is the one that was called, its arguments were written whole, and it was
\* admitted by its code or after isInited_: the inductive invariant that the three properties rest on.
THEOREM IpcInvariant == IpcSpec => []IpcInv
PROOF
<1>1. IpcInit => IpcInv
  BY IpcInvInit
<1>2. IpcInv /\ [IpcNext]_ipcVars => IpcInv'
  BY BootManagerKeeps, StopKeeps, CallKeeps, OnRemoteRequestKeeps, CallbackRequestKeeps, RunKeeps,
     RunCallbackKeeps, ReturnKeeps, FinishKeeps DEF IpcNext
<1> QED
  BY <1>1, <1>2, PTL DEF IpcSpec

\* ProfileIpc.ManagerReady: a handler reaches a manager only when Init or PostInit has made it
\* ready, also by the codes that are served before isInited_ (but for the service info manager),
\* and runningIpcCount_ counts the call that is being served and no other.
THEOREM ManagersReady == IpcSpec => []ManagerReady
PROOF
<1>1. IpcInv => ManagerReady
  BY DEF IpcInv
<1> QED
  BY <1>1, IpcInvariant, PTL

\* ProfileIpc.HandledAsSent: whatever the number of elements, the handler that runs is the one
\* that the client called, and every field of its arguments has the value that the client gave
\* it, if the parcel had room and was given one raw block at most.
THEOREM CallsHandledAsSent == IpcSpec => []HandledAsSent
PROOF
  BY IpcInvariant, HandledTrue, PTL

\* ProfileIpc.AnswerTrue: what a proxy returns is what the handler returned: DP_SUCCESS only
\* after success and with the results that it gave, an error as it is but for EmptyRefused.
THEOREM AnswersTrue == IpcSpec => []AnswerTrue
PROOF
<1>1. IpcInv => AnswerTrue
  BY DEF IpcInv
<1> QED
  BY <1>1, IpcInvariant, PTL

=============================================================================
