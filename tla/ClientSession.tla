---------------------------- MODULE ClientSession ----------------------------
(***************************************************************************)
(* DistributedDeviceProfileClient: the proxy it keeps of the service, how  *)
(* it loads the service and repeats calls when the service goes away, and  *)
(* the subscriptions that it keeps to make them again when the service     *)
(* comes back.  The service starts, becomes ready (isInited_), is unloaded *)
(* (isStopped_) and dies at any time; samgr announces and loads it; the    *)
(* client's calls and its detached threads interleave between their locks. *)
(***************************************************************************)
EXTENDS Naturals, FiniteSets

CONSTANTS
    Users,           \* threads that call the client
    Ops,             \* the requests that they make, "subscribe" or "unsubscribe"
    Kinds,           \* kinds of callbacks: of "inited", "pin", "business", "info"
    MaxRetries,      \* MAX_RETRY_TIMES
    MaxListenerSize, \* MAX_LISTENER_SIZE
    MaxStarts,       \* bound: how often the service starts
    MaxCalls,        \* bound: how many calls are made
    None

ASSUME ClientAssumption ==
    /\ Kinds \subseteq {"inited", "pin", "business", "info"}
    /\ {MaxRetries, MaxListenerSize, MaxStarts, MaxCalls} \subseteq Nat
    /\ Users \cap (Kinds \cup {"profile"}) = {}

-----------------------------------------------------------------------------
(* The calls of the client: requests, and subscriptions.                   *)

TrustCalls == {"PutAccessControlProfile", "UpdateAccessControlProfile", "GetTrustDeviceProfile",
    "GetAllTrustDeviceProfile", "GetAccessControlProfile", "GetAllAccessControlProfile", "GetAllAclIncludeLnnAcl",
    "DeleteAccessControlProfile"}
ProfileCalls == {"PutDeviceProfileBatch", "DeleteDeviceProfileBatch", "PutServiceProfile", "PutServiceProfileBatch",
    "PutCharacteristicProfile", "PutCharacteristicProfileBatch", "GetDeviceProfile", "GetDeviceProfiles",
    "GetServiceProfile", "PutProductInfoBatch", "PutDeviceIconInfoBatch", "GetDeviceIconInfos",
    "GetCharacteristicProfile", "DeleteServiceProfile", "DeleteCharacteristicProfile"}
SyncCalls == {"SyncDeviceProfile", "SyncStaticProfile"}
SessionKeyCalls == {"PutSessionKey", "GetSessionKey", "UpdateSessionKey", "DeleteSessionKey"}
LocalServiceInfoCalls == {"PutLocalServiceInfo", "UpdateLocalServiceInfo", "GetLocalServiceInfoByBundleAndPinType",
    "DeleteLocalServiceInfo"}
EventCalls == {"PutBusinessEvent", "GetBusinessEvent"}
ServiceInfoCalls == {"PutServiceInfo", "DeleteServiceInfo", "GetAllServiceInfoList", "GetServiceInfosByUserInfo"}
Requests == TrustCalls \cup ProfileCalls \cup SyncCalls \cup {"PutAllTrustedDevices"} \cup SessionKeyCalls
    \cup LocalServiceInfoCalls \cup EventCalls \cup ServiceInfoCalls

\* Those that end in RetryClientRequest.
Repeated == TrustCalls \cup LocalServiceInfoCalls \cup {"PutAllTrustedDevices", "PutSessionKey", "DeleteSessionKey"}

\* Requests whose code is not in aclAndSubscribeFuncs_: refused until isInited_.
LateCalls == LocalServiceInfoCalls \cup EventCalls \cup SyncCalls
    \cup {"GetDeviceProfile", "GetServiceProfile", "GetCharacteristicProfile", "DeleteServiceProfile",
          "DeleteCharacteristicProfile"}

\* A subscription of a profile listener (one for each user), or of a callback.
Subs == Kinds \cup {"profile"}
Item(u, sub) == IF sub = "profile" THEN u ELSE "callback"
Items(sub) == IF sub = "profile" THEN Users ELSE {"callback"}

\* The detached threads of OnAddSystemAbility; there is none for "info",
\* since nothing calls ReSubscribeAllServiceInfo.
Tasks == Subs \ {"info"}
Threads == Users \cup Tasks
ASSUME NoneAssumption ==
    None \notin Threads \cup Requests \cup {"subscribe", "unsubscribe", "send", "once", "retried"}

retryErrCodes == {"DP_SERVICE_STOPPED", "DP_LOAD_SERVICE_ERR", "DP_ERR_DEAD_OBJECT", "DP_BR_DEAD_REPLY"}

VARIABLES
    alive,       \* the service is published at samgr
    starts,      \* how often it was started: the service that runs or ran last
    isInited,    \* isInited_ of the service
    isStopped,   \* isStopped_ of the service
    held,        \* the subscriptions that the service holds
    dpProxy,     \* dpProxy_: the start that it refers to; 0 is a null pointer
    watched,     \* starts whose death the client has yet to be told
    loads,       \* LoadSystemAbility calls whose callback has not come
    listens,     \* saListenerCallback_ is registered
    announced,   \* an OnAddSystemAbility is on its way
    cache,       \* subscribeInfos_, dpInitedCallback_, pinCodeCallback_, ...
    lock,        \* subscribeLock_, dpInitedLock_, pinCodeLock_, ...: who holds it
    th,          \* what each thread does
    done,        \* how often the service carried out the last request of a user
    answer,      \* of the last request of each user
    failed,      \* subscriptions of which a call failed since the service started
    left,        \* users whose last call on their listener unsubscribed it
    calls        \* calls made

service == <<alive, starts, isInited, isStopped, held>>
proxyState == <<dpProxy, watched, loads>>
history == <<done, answer, failed, left>>
vars == <<service, proxyState, listens, announced, cache, lock, th, history, calls>>

Thread(pc, op, sub) ==
    [pc |-> pc, op |-> op, sub |-> sub, proxy |-> 0, tries |-> 0, ret |-> None, sent |-> {}]
Idle == Thread("idle", None, None)

\* Where each function begins: at the callback that is kept, or at the service.
SubscribeDeviceProfile == Thread("get", "subscribe", "profile")
UnSubscribeDeviceProfile == Thread("get", "unsubscribe", "profile")
SendSubscribeInfos == Thread("get", "send", "profile")
SubscribeDeviceProfileInited == Thread("get", "subscribe", "inited")
UnSubscribeDeviceProfileInited == Thread("check", "unsubscribe", "inited")
ReSubscribeDeviceProfileInited == Thread("check", "subscribe", "inited")
SubscribePinCodeInvalid == Thread("get", "subscribe", "pin")
UnSubscribePinCodeInvalid == Thread("check", "unsubscribe", "pin")
ReSubscribePinCodeInvalid == Thread("check", "subscribe", "pin")
RegisterBusinessCallback == Thread("get", "subscribe", "business")
UnRegisterBusinessCallback == Thread("check", "unsubscribe", "business")
ReRegisterBusinessCallback == Thread("check", "subscribe", "business")
SubscribeAllServiceInfo == Thread("get", "subscribe", "info")

\* ReleaseResource unsubscribes each callback as its user would.
ReleaseSubscribeDeviceProfileInited == UnSubscribeDeviceProfileInited
ReleaseSubscribePinCodeInvalid == UnSubscribePinCodeInvalid
ReleaseRegisterBusinessCallback == UnRegisterBusinessCallback

Subscriptions == {SubscribeDeviceProfile, SubscribeDeviceProfileInited, SubscribePinCodeInvalid,
    RegisterBusinessCallback, SubscribeAllServiceInfo}
UnSubscriptions == {UnSubscribeDeviceProfile, UnSubscribeDeviceProfileInited, UnSubscribePinCodeInvalid,
    UnRegisterBusinessCallback, ReleaseSubscribeDeviceProfileInited, ReleaseSubscribePinCodeInvalid,
    ReleaseRegisterBusinessCallback}

Init ==
    /\ alive = FALSE /\ starts = 0 /\ isInited = FALSE /\ isStopped = FALSE
    /\ held = [s \in Subs |-> {}]
    /\ dpProxy = 0 /\ watched = {} /\ loads = 0
    /\ listens = FALSE /\ announced = FALSE
    /\ cache = [s \in Subs |-> {}]
    /\ lock = [s \in Subs |-> None]
    /\ th = [t \in Threads |-> Idle]
    /\ done = [u \in Users |-> 0] /\ answer = [u \in Users |-> None]
    /\ failed = {} /\ left = {} /\ calls = 0

-----------------------------------------------------------------------------
(* The service and samgr.                                                  *)

Running(i) == alive /\ starts = i

\* OnStart publishes the service: samgr tells those who listen.
OnStart ==
    /\ ~alive /\ starts < MaxStarts
    /\ alive' = TRUE /\ starts' = starts + 1
    /\ announced' = listens
    /\ failed' = {}
    /\ UNCHANGED <<isInited, isStopped, held, proxyState, listens, cache, lock, th, done, answer, left, calls>>

\* PostInit ends.
PostInit ==
    /\ alive /\ ~isInited /\ ~isStopped
    /\ isInited' = TRUE
    /\ UNCHANGED <<alive, starts, isStopped, held, proxyState, listens, announced, cache, lock, th, history, calls>>

\* The task of DelayUnloadTask, or samgr, unloads it.
OnStop ==
    /\ alive /\ ~isStopped
    /\ isStopped' = TRUE /\ isInited' = FALSE
    /\ UNCHANGED <<alive, starts, held, proxyState, listens, announced, cache, lock, th, history, calls>>

Dies ==
    /\ alive
    /\ alive' = FALSE /\ announced' = FALSE
    /\ isInited' = FALSE /\ isStopped' = FALSE
    /\ held' = [s \in Subs |-> {}]
    /\ UNCHANGED <<starts, proxyState, listens, cache, lock, th, history, calls>>

\* Mutant: the callbacks are forgotten.
SendProfilesOnly(t) == IF t = "profile" THEN SendSubscribeInfos ELSE Idle
Resubscribe(t) ==
    CASE t = "profile" -> SendSubscribeInfos
      [] t = "inited" -> ReSubscribeDeviceProfileInited
      [] t = "pin" -> ReSubscribePinCodeInvalid
      [] t = "business" -> ReRegisterBusinessCallback

\* OnAddSystemAbility starts the threads that subscribe again (bound: none of
\* an earlier announcement is left).
OnAddSystemAbility ==
    /\ announced /\ \A t \in Tasks : th[t] = Idle
    /\ announced' = FALSE
    /\ th' = [t \in Threads |-> IF t \in Tasks THEN Resubscribe(t) ELSE th[t]]
    /\ UNCHANGED <<service, proxyState, listens, cache, lock, history, calls>>

OnServiceDied ==
    /\ \E i \in watched :
        /\ ~Running(i)
        /\ watched' = watched \ {i}
    /\ dpProxy' = 0
    /\ UNCHANGED <<service, loads, listens, announced, cache, lock, th, history, calls>>

LoadSystemAbilitySuccess ==
    /\ loads > 0 /\ alive
    /\ loads' = loads - 1
    /\ dpProxy' = starts /\ watched' = watched \cup {starts}
    /\ UNCHANGED <<service, listens, announced, cache, lock, th, history, calls>>

LoadSystemAbilityFail ==
    /\ loads > 0 /\ ~alive
    /\ loads' = loads - 1
    /\ dpProxy' = 0
    /\ UNCHANGED <<service, watched, listens, announced, cache, lock, th, history, calls>>

-----------------------------------------------------------------------------
(* The beginning and the end of a call.                                    *)

Goto(t, pc) == th' = [th EXCEPT ![t].pc = pc]

\* A function returns `ret` to its user; a task only logs it.
End(t, ret) ==
    LET pair == <<th[t].sub, Item(t, th[t].sub)>>
        pairs == IF th[t].op = "send" THEN {<<"profile", u>> : u \in th[t].sent}
                 ELSE IF th[t].op \in Requests THEN {} ELSE {pair}
    IN  /\ th' = [th EXCEPT ![t] = Idle]
        /\ answer' = IF th[t].op \in Requests THEN [answer EXCEPT ![t] = ret] ELSE answer
        /\ failed' = IF ret = "DP_SUCCESS" THEN failed ELSE failed \cup pairs
        /\ left' = IF t \in Users /\ th[t].sub = "profile" /\ th[t].op = "unsubscribe" /\ ret = "DP_SUCCESS"
                   THEN left \cup {t} ELSE left
        /\ UNCHANGED done

Request(u) ==
    /\ th[u] = Idle /\ calls < MaxCalls
    /\ calls' = calls + 1
    /\ \E op \in Requests \cap Ops : th' = [th EXCEPT ![u] = Thread("get", op, None)]
    /\ done' = [done EXCEPT ![u] = 0] /\ answer' = [answer EXCEPT ![u] = None]
    /\ UNCHANGED <<service, proxyState, listens, announced, cache, lock, failed, left>>

Subscribe(u) ==
    /\ "subscribe" \in Ops
    /\ th[u] = Idle /\ calls < MaxCalls
    /\ calls' = calls + 1
    /\ \E call \in Subscriptions :
        /\ call.sub \in Subs
        /\ th' = [th EXCEPT ![u] = call]
        /\ left' = IF call.sub = "profile" THEN left \ {u} ELSE left
    /\ UNCHANGED <<service, proxyState, listens, announced, cache, lock, done, answer, failed>>

UnSubscribe(u) ==
    /\ "unsubscribe" \in Ops
    /\ th[u] = Idle /\ calls < MaxCalls
    /\ calls' = calls + 1
    /\ \E call \in UnSubscriptions :
        /\ call.sub \in Subs
        /\ th' = [th EXCEPT ![u] = call]
    /\ UNCHANGED <<service, proxyState, listens, announced, cache, lock, history>>

\* Without a callback there is nothing to unsubscribe, or to subscribe again.
Check(t) ==
    /\ th[t].pc = "check" /\ lock[th[t].sub] = None
    /\ IF cache[th[t].sub] = {}
       THEN th' = [th EXCEPT ![t] = Idle]
       ELSE Goto(t, "get")
    /\ UNCHANGED <<service, proxyState, listens, announced, cache, lock, history, calls>>

-----------------------------------------------------------------------------
(* GetDeviceProfileService.                                                *)

\* SubscribeDeviceProfileSA: samgr tells at once of a service that runs.
SubscribeDeviceProfileSA(t) ==
    IF th[t].op \in {"subscribe", "unsubscribe"} /\ th[t].sub # "business"
    THEN \/ listens' = TRUE /\ announced' = (announced \/ (alive /\ ~listens))
         \/ UNCHANGED <<listens, announced>>     \* samgr refuses
    ELSE UNCHANGED <<listens, announced>>

\* What follows: a subscription takes its lock, a request is sent.
HaveProxy(t, i) ==
    th' = [th EXCEPT ![t].proxy = i, ![t].pc = IF th[t].op \in Requests THEN "ipc" ELSE "lock"]

IsObjectDead(i) == i \notin watched

\* The first block: the proxy that is kept, or the one that samgr knows.
GetDeviceProfileService(t) ==
    /\ th[t].pc = "get"
    /\ SubscribeDeviceProfileSA(t)
    /\ \/ /\ dpProxy # 0 /\ ~IsObjectDead(dpProxy)
          /\ HaveProxy(t, dpProxy)
          /\ UNCHANGED <<dpProxy, watched>>
       \/ /\ dpProxy = 0 \/ IsObjectDead(dpProxy)
          /\ IF alive
             THEN dpProxy' = starts /\ watched' = watched \cup {starts} /\ HaveProxy(t, starts)
             ELSE dpProxy' = 0 /\ Goto(t, "load") /\ UNCHANGED watched
    /\ UNCHANGED <<service, loads, cache, lock, history, calls>>

GetFailed(t) == End(t, "DP_GET_SERVICE_FAILED")

\* samgr refuses, or is asked to load; a proxy that is there by now is taken.
LoadDeviceProfileService(t) ==
    /\ th[t].pc = "load"
    /\ \/ loads' = loads + 1 /\ Goto(t, IF dpProxy = 0 THEN "waiting" ELSE "loaded") /\ UNCHANGED history
       \/ GetFailed(t) /\ UNCHANGED loads
    /\ UNCHANGED <<service, dpProxy, watched, listens, announced, cache, lock, calls>>

\* wait_for ends by loadSystemAbilityFinish_, which may be left over from an
\* earlier load, or by a timeout, so at any time; then the proxy is looked at.
WakeOrTimeOut(t) ==
    /\ th[t].pc = "waiting"
    /\ IF dpProxy # 0 THEN Goto(t, "loaded") /\ UNCHANGED history ELSE GetFailed(t)
    /\ UNCHANGED <<service, proxyState, listens, announced, cache, lock, calls>>

\* The lock is taken again: the proxy may be gone.
Loaded(t) ==
    /\ th[t].pc = "loaded"
    /\ IF dpProxy # 0 THEN HaveProxy(t, dpProxy) /\ UNCHANGED history ELSE GetFailed(t)
    /\ UNCHANGED <<service, proxyState, listens, announced, cache, lock, calls>>

-----------------------------------------------------------------------------
(* The subscriptions that the client keeps.                                *)

\* The lock of a callback is held until the service has answered.
LockCallback(t) ==
    /\ th[t].pc = "lock" /\ th[t].sub # "profile"
    /\ lock[th[t].sub] = None
    /\ lock' = [lock EXCEPT ![th[t].sub] = t]
    /\ Goto(t, "ipc")
    /\ UNCHANGED <<service, proxyState, listens, announced, cache, history, calls>>

\* The list of profile listeners is changed before the service is called.
CacheListener(t) ==
    /\ th[t].pc = "lock" /\ th[t].sub = "profile" /\ th[t].op # "send"
    /\ lock["profile"] = None
    /\ \/ /\ th[t].op = "subscribe" /\ Cardinality(cache["profile"]) > MaxListenerSize
          /\ End(t, "DP_EXCEED_MAX_SIZE_FAIL")
          /\ UNCHANGED cache
       \/ /\ th[t].op = "subscribe" /\ Cardinality(cache["profile"]) <= MaxListenerSize
          /\ cache' = [cache EXCEPT !["profile"] = @ \cup {t}]
          /\ Goto(t, "ipc") /\ UNCHANGED history
       \/ /\ th[t].op = "unsubscribe"
          /\ cache' = [cache EXCEPT !["profile"] = @ \ {t}]
          /\ Goto(t, "ipc") /\ UNCHANGED history
    /\ UNCHANGED <<service, proxyState, listens, announced, lock, calls>>

\* Mutant: the list is copied and the lock given back before it is sent.
CopyAndSend(t) ==
    /\ th[t].pc = "lock" /\ th[t].op = "send"
    /\ lock["profile"] = None
    /\ IF cache["profile"] = {}
       THEN th' = [th EXCEPT ![t] = Idle]
       ELSE th' = [th EXCEPT ![t].pc = "ipc", ![t].sent = cache["profile"]]
    /\ UNCHANGED <<service, proxyState, listens, announced, cache, lock, history, calls>>

SendSubscribeInfosToService(t) ==
    /\ th[t].pc = "lock" /\ th[t].op = "send"
    /\ lock["profile"] = None
    /\ IF cache["profile"] = {}
       THEN th' = [th EXCEPT ![t] = Idle] /\ UNCHANGED lock
       ELSE /\ lock' = [lock EXCEPT !["profile"] = t]
            /\ th' = [th EXCEPT ![t].pc = "ipc", ![t].sent = cache["profile"]]
    /\ UNCHANGED <<service, proxyState, listens, announced, cache, history, calls>>

-----------------------------------------------------------------------------
(* One request to the service, which may die before it, or before the reply. *)

\* NotifyAclEventInner, or, only if isInited_, NotifyEventInner: the business
\* callback is of the latter.
IsLate(t) == th[t].op \in LateCalls \/ th[t].sub = "business"

\* (Of the errors that a subscription ends with the client makes no difference.)
Answered(t, ret) ==
    th' = [th EXCEPT ![t].pc = "answered", ![t].proxy = 0,
                     ![t].ret = IF th[t].op \in Requests \/ ret = "DP_SUCCESS" THEN ret ELSE "ERROR"]

\* OnRemoteRequest of the stub refuses it, or the service is dead.
Refuse(t) ==
    /\ th[t].pc = "ipc"
    /\ \/ ~Running(th[t].proxy) /\ \E ret \in {"DP_ERR_DEAD_OBJECT", "DP_BR_DEAD_REPLY"} : Answered(t, ret)
       \/ /\ Running(th[t].proxy)
          /\ \/ isStopped /\ Answered(t, "DP_SERVICE_STOPPED")
             \/ ~isStopped /\ Answered(t, "DP_SERVICE_ON_IDLE")
             \/ ~isStopped /\ ~isInited /\ IsLate(t) /\ Answered(t, "DP_LOAD_SERVICE_ERR")
    /\ UNCHANGED <<service, proxyState, listens, announced, cache, lock, history, calls>>

\* The subscriptions after the handler; a business callback that is there is
\* neither replaced nor, if it is not there, removed.
Holding(t) ==
    LET sub == th[t].sub
    IN  CASE th[t].op = "send" -> held[sub] \cup th[t].sent
          [] th[t].op = "subscribe" -> held[sub] \cup {Item(t, sub)}
          [] OTHER -> held[sub] \ {Item(t, sub)}
Accepts(t) ==
    th[t].sub = "business" => (th[t].op = "subscribe" <=> held["business"] = {})

\* The handler carries the call out, or returns an error.
Serve(t) ==
    /\ th[t].pc = "ipc" /\ Running(th[t].proxy)
    /\ ~isStopped /\ (isInited \/ ~IsLate(t))
    /\ \/ /\ th[t].op \in Requests
          /\ done' = [done EXCEPT ![t] = @ + 1]
          /\ th' = [th EXCEPT ![t].pc = "replied", ![t].ret = "DP_SUCCESS"]
          /\ UNCHANGED held
       \/ /\ th[t].op \notin Requests /\ Accepts(t)
          /\ held' = [held EXCEPT ![th[t].sub] = Holding(t)]
          /\ th' = [th EXCEPT ![t].pc = "replied", ![t].ret = "DP_SUCCESS"]
          /\ UNCHANGED done
       \/ /\ Answered(t, "ERROR")
          /\ UNCHANGED <<held, done>>
    /\ UNCHANGED <<alive, starts, isInited, isStopped, proxyState, listens, announced, cache, lock,
                   answer, failed, left, calls>>

\* The reply arrives, unless the service died before.
Reply(t) ==
    /\ th[t].pc = "replied"
    /\ Answered(t, IF Running(th[t].proxy) THEN th[t].ret ELSE "DP_BR_DEAD_REPLY")
    /\ UNCHANGED <<service, proxyState, listens, announced, cache, lock, history, calls>>

-----------------------------------------------------------------------------
(* What the client makes of the answer.                                    *)

\* The callback is kept only if the service has it; one for business events is
\* given up even if the service refuses.
Keep(t) ==
    LET sub == th[t].sub  ok == th[t].ret = "DP_SUCCESS"
    IN  CASE sub # "profile" /\ th[t].op = "subscribe" /\ ok -> {"callback"}
          [] sub # "profile" /\ th[t].op = "unsubscribe" /\ (ok \/ sub = "business") -> {}
          [] OTHER -> cache[sub]

\* Mutant: an early return with the lock.
ReleaseOnSuccess(t) ==
    [lock EXCEPT ![th[t].sub] = IF @ = t /\ th[t].ret = "DP_SUCCESS" THEN None ELSE @]
\* The lock of the callback, or of the list, is given back.
Release(t) == [lock EXCEPT ![th[t].sub] = IF @ = t THEN None ELSE @]

Subscribed(t) ==
    /\ th[t].pc = "answered" /\ th[t].op \notin Requests
    /\ cache' = [cache EXCEPT ![th[t].sub] = Keep(t)]
    /\ lock' = Release(t)
    /\ End(t, th[t].ret)
    /\ UNCHANGED <<service, proxyState, listens, announced, calls>>

Returned(t) ==
    /\ th[t].pc = "answered"
    /\ \/ th[t].op \in Requests \ Repeated
       \/ th[t].op \in Repeated /\ (th[t].ret \notin retryErrCodes \/ th[t].tries = MaxRetries)
    /\ End(t, th[t].ret)
    /\ UNCHANGED <<service, proxyState, listens, announced, cache, lock, calls>>

\* Mutant: every request is repeated.
RetryAnyRequest(t) ==
    /\ th[t].pc = "answered" /\ th[t].op \in Requests
    /\ th[t].ret \in retryErrCodes /\ th[t].tries < MaxRetries
    /\ dpProxy' = dpProxy
    /\ th' = [th EXCEPT ![t].pc = "get", ![t].tries = @ + 1, ![t].ret = None]
    /\ UNCHANGED <<service, watched, loads, listens, announced, cache, lock, history, calls>>

\* Only before the first attempt the proxy is given up after a lost reply.
RetryClientRequest(t) ==
    /\ th[t].pc = "answered" /\ th[t].op \in Repeated
    /\ th[t].ret \in retryErrCodes /\ th[t].tries < MaxRetries
    /\ dpProxy' = IF th[t].tries = 0 /\ th[t].ret = "DP_BR_DEAD_REPLY" THEN 0 ELSE dpProxy
    /\ th' = [th EXCEPT ![t].pc = "get", ![t].tries = @ + 1, ![t].ret = None]
    /\ UNCHANGED <<service, watched, loads, listens, announced, cache, lock, history, calls>>

Step(t) ==
    \/ Check(t) \/ GetDeviceProfileService(t)
    \/ LoadDeviceProfileService(t) \/ WakeOrTimeOut(t) \/ Loaded(t)
    \/ LockCallback(t) \/ CacheListener(t) \/ SendSubscribeInfosToService(t)
    \/ Refuse(t) \/ Serve(t) \/ Reply(t)
    \/ Subscribed(t) \/ Returned(t) \/ RetryClientRequest(t)

Next ==
    \/ OnStart \/ PostInit \/ OnStop \/ Dies
    \/ OnAddSystemAbility \/ OnServiceDied \/ LoadSystemAbilitySuccess \/ LoadSystemAbilityFail
    \/ \E u \in Users : Request(u) \/ Subscribe(u) \/ UnSubscribe(u)
    \/ \E t \in Threads : Step(t)

\* The client's threads go on: waiting for a load ends with a timeout, a
\* handler of the service ends, and a request to a dead service comes back.
Spec == Init /\ [][Next]_vars /\ \A t \in Threads : WF_vars(Step(t))

-----------------------------------------------------------------------------
(* Properties.                                                             *)

PCs == {"idle", "check", "get", "load", "waiting", "loaded", "lock", "ipc", "replied", "answered"}

\* Types; and a lock is held only by the thread whose call about it is with
\* the service: no early return of the client leaves one behind.
TypeOK ==
    /\ {alive, isInited, isStopped, listens, announced} \subseteq BOOLEAN
    /\ starts \in 0 .. MaxStarts /\ dpProxy \in 0 .. starts /\ watched \subseteq 1 .. starts
    /\ loads \in Nat /\ calls \in 0 .. MaxCalls
    /\ \A s \in Subs : held[s] \subseteq Items(s) /\ cache[s] \subseteq Items(s)
    /\ \A t \in Threads : th[t].pc \in PCs /\ th[t].tries \in 0 .. MaxRetries
    /\ \A s \in Subs : lock[s] # None =>
        th[lock[s]].sub = s /\ th[lock[s]].pc \in {"ipc", "replied", "answered"}

\* The requests that wait for their answer, as RemoteCall sees them.
openCalls == [u \in Users |-> CASE th[u].op \in Repeated -> "retried"
                               [] th[u].op \in Requests \ Repeated -> "once"
                               [] OTHER -> None]
Remote == INSTANCE RemoteCall WITH Callers <- Users, open <- openCalls

\* What the client promises (RemoteCall) is what it does, for every death of
\* the service between two steps of a call: a call that is not repeated is
\* not carried out twice, a success was carried out, every call returns.
RemoteCallSpec == Remote!Spec

\* Nothing is under way.
Settled ==
    /\ alive /\ isInited /\ listens /\ ~announced
    /\ \A t \in Threads : th[t] = Idle

\* When the service is up again and everything has come to rest, it holds the
\* subscriptions that the client keeps, and no others, unless the last call
\* about one was answered with an error.  Service info is not subscribed
\* again.
Restored ==
    Settled => \A s \in Tasks : \A i \in Items(s) :
        <<s, i>> \in failed \/ (i \in held[s] <=> i \in cache[s])

\* A profile listener that was unsubscribed stays so: the thread that sends
\* the list after a restart does not bring it back.
UnSubscribedStays == \A u \in left : u \notin held["profile"]

\* Subscriptions too come to an end, whatever becomes of the service: no
\* thread waits for ever for a lock or a load.
AllReturn == \A t \in Threads : th[t] # Idle ~> th[t] = Idle

=============================================================================
