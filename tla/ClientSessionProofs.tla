------------------------- MODULE ClientSessionProofs -------------------------
(***************************************************************************)
(* Proofs about ClientSession, for any users, callbacks, retry limit and   *)
(* number of starts of the service: every request is handled as RemoteCall *)
(* promises, locks are held only around calls, an unsubscribed profile     *)
(* listener stays so, and a service that starts again gets the             *)
(* subscriptions that the client keeps.                                    *)
(***************************************************************************)
EXTENDS ClientSession, TLAPS

Actions == Requests \cup {"subscribe", "unsubscribe", "send"}
Calling == {"ipc", "replied", "answered"}
Answers == Remote!Answers
ThreadStates ==
    [pc : PCs, op : Actions \cup {None}, sub : Subs \cup {None}, proxy : Nat,
     tries : 0 .. MaxRetries, ret : Answers \cup {None}, sent : SUBSET Users]

\* What a thread may be doing.
Shape(t) ==
    LET x == th[t]
    IN /\ x.pc = "idle" => x = Idle
       /\ x.pc # "idle" => x.op \in Actions
       /\ x.op \in Requests => t \in Users /\ x.pc \notin {"check", "lock"}
       /\ x.op \in {"subscribe", "unsubscribe", "send"} => x.sub \in Subs
       /\ x.op = "send" => x.sub = "profile"
       /\ x.pc = "replied" => x.ret = "DP_SUCCESS"
       /\ x.sub = "profile" /\ x.op \in {"subscribe", "unsubscribe"} => t \in Users

\* The lock of a callback, and for a task that of the list, is held exactly while
\* the service is called.
Locking(t) == th[t].op \in {"subscribe", "unsubscribe", "send"} /\ th[t].pc \in Calling
              /\ (th[t].sub = "profile" => th[t].op = "send")
LocksOK == \A s \in Subs : \A t \in Threads : lock[s] = t <=> Locking(t) /\ th[t].sub = s

TypeInv ==
    /\ alive \in BOOLEAN /\ isInited \in BOOLEAN /\ isStopped \in BOOLEAN
    /\ listens \in BOOLEAN /\ announced \in BOOLEAN
    /\ starts \in 0 .. MaxStarts /\ dpProxy \in 0 .. starts /\ watched \subseteq 1 .. starts
    /\ alive => starts > 0
    /\ loads \in Nat /\ calls \in 0 .. MaxCalls
    /\ held \in [Subs -> SUBSET (Users \cup {"callback"})]
    /\ cache \in [Subs -> SUBSET (Users \cup {"callback"})]
    /\ \A s \in Subs : held[s] \subseteq Items(s) /\ cache[s] \subseteq Items(s)
    /\ lock \in [Subs -> Threads \cup {None}]
    /\ th \in [Threads -> ThreadStates]
    /\ \A t \in Threads : Shape(t)

\* The bounds are numbers.
LEMMA Bounds == MaxRetries \in Nat /\ MaxStarts \in Nat /\ MaxCalls \in Nat
PROOF
  BY ClientAssumption

\* Requests are no subscriptions.
LEMMA RequestOps == Repeated \subseteq Requests /\ Requests \cap {"subscribe", "unsubscribe", "send"} = {}
PROOF
  BY DEF Repeated, Requests, TrustCalls, ProfileCalls, SyncCalls, SessionKeyCalls, LocalServiceInfoCalls,
     EventCalls, ServiceInfoCalls

\* Idle, and the beginning of every call, is a thread state.
LEMMA Beginnings ==
    /\ Idle \in ThreadStates
    /\ \A op \in Requests : Thread("get", op, None) \in ThreadStates
    /\ \A call \in Subscriptions \cup UnSubscriptions : call.sub \in Subs =>
           /\ call \in ThreadStates /\ call.pc \in {"get", "check"} /\ call.op \in {"subscribe", "unsubscribe"}
           /\ call.sub = "profile" => call.pc = "get"
    /\ \A t \in Tasks : /\ Resubscribe(t) \in ThreadStates
                        /\ Resubscribe(t).pc \in {"get", "check"} /\ Resubscribe(t).sub = t
                        /\ Resubscribe(t).op = IF t = "profile" THEN "send" ELSE "subscribe"
PROOF
<1>1. \A pc \in PCs, op \in Actions \cup {None}, sub \in Subs \cup {None} : Thread(pc, op, sub) \in ThreadStates
  BY ClientAssumption DEF Thread, ThreadStates
<1>2. Idle \in ThreadStates
  BY <1>1 DEF Idle, PCs
<1>3. \A op \in Requests : Thread("get", op, None) \in ThreadStates
  BY <1>1 DEF PCs, Actions
<1>4. \A pc, op, sub : /\ Thread(pc, op, sub).pc = pc /\ Thread(pc, op, sub).op = op
                       /\ Thread(pc, op, sub).sub = sub
  BY DEF Thread
<1>5. ASSUME NEW call \in Subscriptions \cup UnSubscriptions, call.sub \in Subs
      PROVE  /\ call \in ThreadStates /\ call.pc \in {"get", "check"} /\ call.op \in {"subscribe", "unsubscribe"}
             /\ call.sub = "profile" => call.pc = "get"
  <2>1. \E pc \in {"get", "check"}, op \in {"subscribe", "unsubscribe"},
           sub \in {"profile", "inited", "pin", "business", "info"} :
               call = Thread(pc, op, sub) /\ (sub = "profile" => pc = "get")
    BY <1>5 DEF Subscriptions, UnSubscriptions, SubscribeDeviceProfile, SubscribeDeviceProfileInited,
       SubscribePinCodeInvalid, RegisterBusinessCallback, SubscribeAllServiceInfo, UnSubscribeDeviceProfile,
       UnSubscribeDeviceProfileInited, UnSubscribePinCodeInvalid, UnRegisterBusinessCallback,
       ReleaseSubscribeDeviceProfileInited, ReleaseSubscribePinCodeInvalid, ReleaseRegisterBusinessCallback
  <2>2. PICK pc \in {"get", "check"}, op \in {"subscribe", "unsubscribe"},
              sub \in {"profile", "inited", "pin", "business", "info"} :
          call = Thread(pc, op, sub) /\ (sub = "profile" => pc = "get")
    BY <2>1
  <2>3. call.pc = pc /\ call.op = op /\ call.sub = sub
    BY <1>4, <2>2
  <2>4. pc \in PCs /\ op \in Actions \cup {None} /\ sub \in Subs \cup {None}
    BY <1>5, <2>3 DEF PCs, Actions
  <2>5. call \in ThreadStates
    BY <1>1, <2>2, <2>4
  <2> QED
    BY <2>2, <2>3, <2>5
<1>6. ASSUME NEW t \in Tasks
      PROVE  /\ Resubscribe(t) \in ThreadStates
             /\ Resubscribe(t).pc \in {"get", "check"} /\ Resubscribe(t).sub = t
             /\ Resubscribe(t).op = IF t = "profile" THEN "send" ELSE "subscribe"
  <2>1. t \in {"profile", "inited", "pin", "business"} /\ t \in Subs
    BY ClientAssumption DEF Tasks, Subs
  <2>2. \E pc \in {"get", "check"} : Resubscribe(t) = Thread(pc, IF t = "profile" THEN "send" ELSE "subscribe", t)
    BY <2>1 DEF Resubscribe, SendSubscribeInfos, ReSubscribeDeviceProfileInited, ReSubscribePinCodeInvalid,
       ReRegisterBusinessCallback
  <2> QED
    BY <1>1, <1>4, <2>1, <2>2 DEF PCs, Actions
<1> QED
  BY <1>2, <1>3, <1>5, <1>6

\* What changes a thread in its own steps: it goes on, or it ends.
LEMMA TypesKept ==
    ASSUME TypeInv, NEW t \in Threads, th[t].pc # "idle",
           NEW y \in ThreadStates, y.op = th[t].op, y.sub = th[t].sub,
           y.pc \notin {"idle", "check"}, y.op \in Requests => y.pc # "lock",
           y.pc = "replied" => y.ret = "DP_SUCCESS",
           th' = [th EXCEPT ![t] = y] \/ th' = [th EXCEPT ![t] = Idle]
    PROVE  th' \in [Threads -> ThreadStates] /\ \A u \in Threads : Shape(u)'
PROOF
<1>1. th' \in [Threads -> ThreadStates]
  BY Beginnings DEF TypeInv
<1>2. ASSUME NEW u \in Threads PROVE Shape(u)'
  <2>1. Shape(u)
    BY DEF TypeInv
  <2>2. CASE u # t
    <3>1. th'[u] = th[u]
      BY <2>2 DEF TypeInv
    <3> QED
      BY <2>1, <3>1 DEF Shape
  <2>3. CASE u = t /\ th'[u] = y
    BY <2>1, <2>3 DEF Shape
  <2>4. CASE u = t /\ th'[u] = Idle
    <3>1. Idle.pc = "idle" /\ Idle.op = None
      BY DEF Idle, Thread
    <3> QED
      BY <2>4, <3>1, NoneAssumption DEF Shape
  <2> QED
    BY <2>2, <2>3, <2>4 DEF TypeInv
<1> QED
  BY <1>1, <1>2

\* Each step of a thread leaves it in a state of the same call, or idle.
LEMMA ThreadStep ==
    ASSUME TypeInv, NEW t \in Threads, Step(t)
    PROVE  /\ th[t].pc # "idle"
           /\ \E y \in ThreadStates :
                 /\ y.op = th[t].op /\ y.sub = th[t].sub /\ y.pc \notin {"idle", "check"}
                 /\ y.op \in Requests => y.pc # "lock"
                 /\ y.pc = "replied" => y.ret = "DP_SUCCESS"
                 /\ th' = [th EXCEPT ![t] = y] \/ th' = [th EXCEPT ![t] = Idle]
PROOF
<1> DEFINE Fine(y) == /\ y \in ThreadStates
                      /\ y.op = th[t].op /\ y.sub = th[t].sub /\ y.pc \notin {"idle", "check"}
                      /\ y.op \in Requests => y.pc # "lock"
                      /\ y.pc = "replied" => y.ret = "DP_SUCCESS"
                      /\ th' = [th EXCEPT ![t] = y] \/ th' = [th EXCEPT ![t] = Idle]
<1> DEFINE Goal == th[t].pc # "idle" /\ \E y : Fine(y)
<1> SUFFICES Goal
  OBVIOUS
<1>1. th[t] \in ThreadStates /\ th \in [Threads -> ThreadStates] /\ Shape(t)
  BY DEF TypeInv
<1>2. ASSUME NEW pc \in PCs \ {"idle", "check"}, pc = "lock" => th[t].op \notin Requests, Goto(t, pc)
      PROVE  Fine([th[t] EXCEPT !.pc = pc]) \/ pc = "replied"
  BY <1>1, <1>2 DEF Goto, ThreadStates
<1>3. ASSUME NEW ret, End(t, ret), th[t].pc \notin {"idle", "check"}, th[t].pc = "lock" => th[t].op \notin Requests
      PROVE  Fine(th[t])
  BY <1>1, <1>3 DEF End, Shape
<1>4. ASSUME NEW i \in Nat, HaveProxy(t, i)
      PROVE  Fine([th[t] EXCEPT !.proxy = i, !.pc = IF th[t].op \in Requests THEN "ipc" ELSE "lock"])
  BY <1>1, <1>4 DEF HaveProxy, ThreadStates, PCs
<1>5. ASSUME NEW ret \in Answers, Answered(t, ret)
      PROVE  \E y : Fine(y)
  <2> DEFINE y == [th[t] EXCEPT !.pc = "answered", !.proxy = 0,
                                !.ret = IF th[t].op \in Requests \/ ret = "DP_SUCCESS" THEN ret ELSE "ERROR"]
  <2>1. "ERROR" \in Answers
    BY DEF Answers, Remote!Answers, Remote!Refusals
  <2>2. y \in ThreadStates
    BY <1>1, <2>1 DEF ThreadStates, PCs
  <2>3. y.op = th[t].op /\ y.sub = th[t].sub /\ y.pc = "answered"
    BY <1>1 DEF ThreadStates
  <2>4. th' = [th EXCEPT ![t] = y]
    BY <1>5 DEF Answered
  <2> QED
    BY <2>2, <2>3, <2>4
<1> HIDE DEF Fine
<1>6. starts \in Nat /\ dpProxy \in Nat
  BY ClientAssumption DEF TypeInv
<1>7. CASE Check(t)
  <2>1. Fine([th[t] EXCEPT !.pc = "get"]) \/ th' = [th EXCEPT ![t] = Idle]
    BY <1>2, <1>7 DEF Check, PCs
  <2>2. th[t].op \notin Requests
    BY <1>1, <1>7 DEF Check, Shape
  <2>3. th' = [th EXCEPT ![t] = Idle] => Fine([th[t] EXCEPT !.pc = "get"])
    BY <1>1 DEF Fine, ThreadStates, PCs
  <2> QED
    BY <1>7, <2>1, <2>3 DEF Check
<1>8. CASE GetDeviceProfileService(t)
  BY <1>2, <1>4, <1>6, <1>8 DEF GetDeviceProfileService, PCs
<1>9. CASE LoadDeviceProfileService(t)
  BY <1>2, <1>3, <1>9 DEF LoadDeviceProfileService, GetFailed, PCs
<1>10. CASE WakeOrTimeOut(t)
  BY <1>2, <1>3, <1>10 DEF WakeOrTimeOut, GetFailed, PCs
<1>11. CASE Loaded(t)
  BY <1>3, <1>4, <1>6, <1>11 DEF Loaded, GetFailed
<1>12. CASE LockCallback(t)
  BY <1>2, <1>12 DEF LockCallback, PCs
<1>13. CASE CacheListener(t)
  <2>1. th[t].op \notin Requests
    BY <1>1, <1>13 DEF CacheListener, Shape
  <2> QED
    BY <1>2, <1>3, <1>13, <2>1 DEF CacheListener, PCs
<1>14. CASE SendSubscribeInfosToService(t)
  <2> DEFINE y == [th[t] EXCEPT !.pc = "ipc", !.sent = cache["profile"]]
  <2>1. cache["profile"] \subseteq Users
    BY DEF TypeInv, Items, Subs
  <2>2. y \in ThreadStates /\ y.op = th[t].op /\ y.sub = th[t].sub /\ y.pc = "ipc"
    BY <1>1, <2>1 DEF ThreadStates, PCs
  <2>3. th' = [th EXCEPT ![t] = y] \/ th' = [th EXCEPT ![t] = Idle]
    BY <1>14 DEF SendSubscribeInfosToService
  <2>4. Fine(y)
    BY <2>2, <2>3 DEF Fine
  <2> QED
    BY <1>14, <2>4 DEF SendSubscribeInfosToService
<1>15. CASE Refuse(t)
  <2>1. {"DP_ERR_DEAD_OBJECT", "DP_BR_DEAD_REPLY", "DP_SERVICE_STOPPED", "DP_SERVICE_ON_IDLE",
         "DP_LOAD_SERVICE_ERR"} \subseteq Answers
    BY DEF Answers, Remote!Answers, Remote!Refusals
  <2> QED
    BY <1>5, <1>15, <2>1 DEF Refuse
<1>16. CASE Serve(t)
  <2> DEFINE y == [th[t] EXCEPT !.pc = "replied", !.ret = "DP_SUCCESS"]
  <2>1. "ERROR" \in Answers /\ "DP_SUCCESS" \in Answers
    BY DEF Answers, Remote!Answers, Remote!Refusals
  <2>2. CASE Answered(t, "ERROR")
    BY <1>5, <1>16, <2>1, <2>2 DEF Serve
  <2>3. CASE th' = [th EXCEPT ![t].pc = "replied", ![t].ret = "DP_SUCCESS"]
    <3>1. y \in ThreadStates /\ y.op = th[t].op /\ y.sub = th[t].sub /\ y.pc = "replied" /\ y.ret = "DP_SUCCESS"
      BY <1>1, <2>1 DEF ThreadStates, PCs
    <3>2. th' = [th EXCEPT ![t] = y]
      BY <2>3
    <3> QED
      BY <1>16, <3>1, <3>2 DEF Serve, Fine
  <2> QED
    BY <1>16, <2>2, <2>3 DEF Serve
<1>17. CASE Reply(t)
  <2>1. "DP_BR_DEAD_REPLY" \in Answers /\ "DP_SUCCESS" \in Answers
    BY DEF Answers, Remote!Answers, Remote!Refusals
  <2> QED
    BY <1>1, <1>5, <1>17, <2>1 DEF Reply, Shape
<1>18. CASE Subscribed(t)
  BY <1>3, <1>18 DEF Subscribed
<1>19. CASE Returned(t)
  BY <1>3, <1>19 DEF Returned
<1>20. CASE RetryClientRequest(t)
  <2> DEFINE y == [th[t] EXCEPT !.pc = "get", !.tries = @ + 1, !.ret = None]
  <2>1. y \in ThreadStates /\ y.op = th[t].op /\ y.sub = th[t].sub /\ y.pc = "get"
    BY <1>1, <1>20, ClientAssumption DEF ThreadStates, PCs, RetryClientRequest
  <2>2. th' = [th EXCEPT ![t] = y]
    BY <1>20 DEF RetryClientRequest
  <2> QED
    BY <1>20, <2>1, <2>2 DEF RetryClientRequest, Fine
<1> QED
  BY <1>7, <1>8, <1>9, <1>10, <1>11, <1>12, <1>13, <1>14, <1>15, <1>16, <1>17, <1>18, <1>19, <1>20 DEF Step

\* The steps of a thread keep the types.
LEMMA StepTypes ==
    ASSUME TypeInv, NEW t \in Threads, Step(t)
    PROVE  TypeInv'
PROOF
<1>1. th' \in [Threads -> ThreadStates] /\ \A u \in Threads : Shape(u)'
  <2>1. PICK y \in ThreadStates :
                 /\ y.op = th[t].op /\ y.sub = th[t].sub /\ y.pc \notin {"idle", "check"}
                 /\ y.op \in Requests => y.pc # "lock"
                 /\ y.pc = "replied" => y.ret = "DP_SUCCESS"
                 /\ th' = [th EXCEPT ![t] = y] \/ th' = [th EXCEPT ![t] = Idle]
    BY ThreadStep
  <2>2. th[t].pc # "idle"
    BY ThreadStep
  <2> QED
    BY <2>1, <2>2, TypesKept
<1>2. th[t] \in ThreadStates /\ Shape(t)
  BY DEF TypeInv
<1>3. UNCHANGED <<alive, isInited, isStopped, starts, calls>>
  BY DEF Step, Check, GetDeviceProfileService, LoadDeviceProfileService, WakeOrTimeOut, Loaded,
     LockCallback, CacheListener, SendSubscribeInfosToService, Refuse, Serve, Reply, Subscribed, Returned,
     RetryClientRequest, service
<1>9. /\ listens' \in BOOLEAN /\ announced' \in BOOLEAN
      /\ dpProxy' \in 0 .. starts /\ watched' \subseteq 1 .. starts
      /\ loads' \in Nat
  <2>1. CASE GetDeviceProfileService(t)
    <3>1. listens' \in BOOLEAN /\ announced' \in BOOLEAN
      BY <2>1 DEF TypeInv, GetDeviceProfileService, SubscribeDeviceProfileSA
    <3>2. starts \in Nat /\ (alive => starts \in 1 .. starts)
      BY ClientAssumption DEF TypeInv
    <3>3. /\ loads' = loads
          /\ \/ UNCHANGED <<dpProxy, watched>>
             \/ dpProxy' = 0 /\ watched' = watched
             \/ alive /\ dpProxy' = starts /\ watched' = watched \cup {starts}
      BY <2>1 DEF GetDeviceProfileService
    <3>4. dpProxy' \in 0 .. starts /\ watched' \subseteq 1 .. starts
      <4>1. dpProxy \in 0 .. starts /\ watched \subseteq 1 .. starts /\ UNCHANGED starts
        BY <2>1 DEF TypeInv, GetDeviceProfileService, service
      <4>2. CASE alive /\ dpProxy' = starts /\ watched' = watched \cup {starts}
        BY <3>2, <4>1, <4>2
      <4>3. CASE dpProxy' \in {0, dpProxy} /\ watched' = watched
        BY <3>2, <4>1, <4>3
      <4> QED
        BY <3>3, <4>2, <4>3
    <3>5. loads' \in Nat
      BY <3>3 DEF TypeInv
    <3> QED
      BY <3>1, <3>4, <3>5
  <2>2. CASE UNCHANGED <<listens, announced, watched>> /\ loads' \in {loads, loads + 1} /\ dpProxy' \in {0, dpProxy}
    BY <2>2 DEF TypeInv
  <2> QED
    BY <2>1, <2>2 DEF Step, Check, LoadDeviceProfileService, WakeOrTimeOut, Loaded,
       LockCallback, CacheListener, SendSubscribeInfosToService, Refuse, Serve, Reply, Subscribed, Returned,
       RetryClientRequest, proxyState
<1>4. lock' \in [Subs -> Threads \cup {None}]
  BY <1>2 DEF TypeInv, Step, Check, GetDeviceProfileService, LoadDeviceProfileService, WakeOrTimeOut, Loaded,
     LockCallback, CacheListener, SendSubscribeInfosToService, Refuse, Serve, Reply, Subscribed, Returned,
     RetryClientRequest, Release, Subs
<1>5. ASSUME th[t].op \in {"subscribe", "unsubscribe"} \/ th[t].op = "send"
      PROVE  /\ th[t].sub \in Subs
             /\ th[t].op # "send" => Item(t, th[t].sub) \in Items(th[t].sub)
             /\ th[t].op = "send" => th[t].sub = "profile" /\ th[t].sent \subseteq Items("profile")
  BY <1>2, <1>5 DEF Shape, Item, Items, ThreadStates
<1>6. ASSUME NEW s \in Subs PROVE Items(s) \subseteq Users \cup {"callback"}
  BY DEF Items
<1>7. /\ held' \in [Subs -> SUBSET (Users \cup {"callback"})]
      /\ \A s \in Subs : held'[s] \subseteq Items(s)
  <2>1. CASE held' = held
    BY <2>1 DEF TypeInv
  <2>2. CASE Serve(t) /\ th[t].op \notin Requests /\ held' = [held EXCEPT ![th[t].sub] = Holding(t)]
    <3>1. th[t].op \in Actions
      BY <1>2, <2>2 DEF Serve, Shape
    <3>2. th[t].op \in {"subscribe", "unsubscribe"} \/ th[t].op = "send"
      BY <2>2, <3>1 DEF Actions
    <3>3. held[th[t].sub] \subseteq Items(th[t].sub)
      BY <1>5, <3>2 DEF TypeInv
    <3>4. Holding(t) \subseteq Items(th[t].sub)
      BY <1>5, <3>2, <3>3 DEF Holding
    <3> QED
      BY <1>5, <1>6, <2>2, <3>2, <3>4 DEF TypeInv
  <2> QED
    BY <2>1, <2>2 DEF Step, Check, GetDeviceProfileService, LoadDeviceProfileService, WakeOrTimeOut, Loaded,
       LockCallback, CacheListener, SendSubscribeInfosToService, Refuse, Serve, Reply, Subscribed, Returned,
       RetryClientRequest, service
<1>8. /\ cache' \in [Subs -> SUBSET (Users \cup {"callback"})]
      /\ \A s \in Subs : cache'[s] \subseteq Items(s)
  <2>1. CASE cache' = cache
    BY <2>1 DEF TypeInv
  <2>2. CASE CacheListener(t) /\ cache' # cache
    <3>1. t \in Users
      BY <1>2, <2>2 DEF CacheListener, Shape, Actions
    <3>2. cache' = [cache EXCEPT !["profile"] = cache["profile"] \cup {t}] \/
          cache' = [cache EXCEPT !["profile"] = cache["profile"] \ {t}]
      BY <2>2 DEF CacheListener
    <3> QED
      BY <3>1, <3>2 DEF TypeInv, Items, Subs
  <2>3. CASE Subscribed(t)
    <3>1. th[t].op \in Actions
      BY <1>2, <2>3 DEF Subscribed, Shape
    <3>2. th[t].op \in {"subscribe", "unsubscribe"} \/ th[t].op = "send"
      BY <2>3, <3>1 DEF Actions, Subscribed
    <3>3. cache[th[t].sub] \subseteq Items(th[t].sub)
      BY <1>5, <3>2 DEF TypeInv
    <3>4. Keep(t) \in {cache[th[t].sub], {}} \/ (Keep(t) = {"callback"} /\ th[t].sub # "profile")
      BY DEF Keep
    <3>5. Keep(t) \subseteq Items(th[t].sub)
      BY <3>3, <3>4 DEF Items
    <3> QED
      BY <1>5, <1>6, <2>3, <3>2, <3>5 DEF TypeInv, Subscribed
  <2> QED
    BY <2>1, <2>2, <2>3 DEF Step, Check, GetDeviceProfileService, LoadDeviceProfileService, WakeOrTimeOut, Loaded,
       LockCallback, SendSubscribeInfosToService, Refuse, Serve, Reply, Returned, RetryClientRequest
<1> QED
  BY <1>1, <1>3, <1>4, <1>7, <1>8, <1>9 DEF TypeInv

\* The beginning of a call, by a user or by the threads of OnAddSystemAbility.
LEMMA BeginTypes ==
    ASSUME TypeInv, (\E u \in Users : Request(u) \/ Subscribe(u) \/ UnSubscribe(u)) \/ OnAddSystemAbility
    PROVE  /\ TypeInv'
           /\ \A t \in Threads : th'[t] = th[t] \/ (th[t] = Idle /\ th'[t].pc \in {"get", "check"})
PROOF
<1> DEFINE Begun(t, y) == /\ y \in ThreadStates /\ y.pc \in {"get", "check"} /\ y.op \in Actions
                          /\ y.op \in Requests => t \in Users /\ y.pc # "check"
                          /\ y.op \in {"subscribe", "unsubscribe", "send"} => y.sub \in Subs
                          /\ y.op = "send" => y.sub = "profile"
                          /\ y.sub = "profile" /\ y.op \in {"subscribe", "unsubscribe"} => t \in Users
<1>1. /\ th' \in [Threads -> ThreadStates]
      /\ \A t \in Threads : th'[t] = th[t] \/ (th[t] = Idle /\ Begun(t, th'[t]))
  <2>1. CASE \E u \in Users : Request(u)
    <3>1. PICK u \in Users, op \in Requests : th[u] = Idle /\ th' = [th EXCEPT ![u] = Thread("get", op, None)]
      BY <2>1 DEF Request
    <3>2. Thread("get", op, None) \in ThreadStates
      BY Beginnings
    <3>3. Thread("get", op, None).pc = "get" /\ Thread("get", op, None).op = op
      BY DEF Thread
    <3>4. op \notin {"subscribe", "unsubscribe", "send"}
      BY RequestOps
    <3>5. Begun(u, Thread("get", op, None))
      BY <3>2, <3>3, <3>4 DEF Actions
    <3> HIDE DEF Begun
    <3> QED
      BY <3>1, <3>2, <3>5 DEF TypeInv, Threads
  <2>2. CASE \E u \in Users : Subscribe(u) \/ UnSubscribe(u)
    <3>1. PICK u \in Users, call \in Subscriptions \cup UnSubscriptions :
              call.sub \in Subs /\ th[u] = Idle /\ th' = [th EXCEPT ![u] = call]
      BY <2>2 DEF Subscribe, UnSubscribe
    <3>2. /\ call \in ThreadStates /\ call.pc \in {"get", "check"} /\ call.op \in {"subscribe", "unsubscribe"}
          /\ call.sub = "profile" => call.pc = "get"
      BY <3>1, Beginnings
    <3>3. call.op \notin Requests
      BY <3>2, RequestOps
    <3>4. Begun(u, call)
      BY <3>1, <3>2, <3>3 DEF Actions
    <3> HIDE DEF Begun
    <3> QED
      BY <3>1, <3>2, <3>4 DEF TypeInv, Threads
  <2>3. CASE OnAddSystemAbility
    <3>1. /\ th' = [t \in Threads |-> IF t \in Tasks THEN Resubscribe(t) ELSE th[t]]
          /\ \A t \in Tasks : th[t] = Idle
      BY <2>3 DEF OnAddSystemAbility
    <3>2. ASSUME NEW t \in Tasks PROVE Begun(t, Resubscribe(t))
      <4>1. /\ Resubscribe(t) \in ThreadStates
            /\ Resubscribe(t).pc \in {"get", "check"} /\ Resubscribe(t).sub = t
            /\ Resubscribe(t).op = IF t = "profile" THEN "send" ELSE "subscribe"
        BY Beginnings
      <4>2. Resubscribe(t).op \notin Requests
        BY <4>1, RequestOps
      <4> QED
        BY <4>1, <4>2 DEF Actions, Tasks
    <3>3. \A t \in Tasks : Resubscribe(t) \in ThreadStates
      BY Beginnings
    <3> HIDE DEF Begun
    <3> QED
      BY <3>1, <3>2, <3>3 DEF TypeInv, Threads
  <2> QED
    BY <2>1, <2>2, <2>3
<1>2. \A t \in Threads : Shape(t)'
  <2> SUFFICES ASSUME NEW t \in Threads PROVE Shape(t)'
    OBVIOUS
  <2>1. CASE th'[t] = th[t]
    BY <2>1 DEF TypeInv, Shape
  <2>2. CASE Begun(t, th'[t])
    BY <2>2 DEF Shape
  <2> QED
    BY <1>1, <2>1, <2>2
<1>5. UNCHANGED <<service, proxyState, listens, cache, lock>>
  BY DEF Request, Subscribe, UnSubscribe, OnAddSystemAbility
<1>6. announced' \in {announced, FALSE} /\ (calls' = calls \/ (calls < MaxCalls /\ calls' = calls + 1))
  BY DEF Request, Subscribe, UnSubscribe, OnAddSystemAbility
<1>7. announced' \in BOOLEAN
  BY <1>6 DEF TypeInv
<1>3. calls' \in 0 .. MaxCalls
  BY <1>6, Bounds DEF TypeInv
<1>4. TypeInv'
  BY <1>1, <1>2, <1>3, <1>5, <1>7 DEF TypeInv, service, proxyState
<1> QED
  BY <1>1, <1>4

\* What the service, samgr and the load callbacks do.
Outside == OnStart \/ PostInit \/ OnStop \/ Dies \/ OnServiceDied \/ LoadSystemAbilitySuccess \/ LoadSystemAbilityFail
LEMMA OutsideTypes ==
    ASSUME TypeInv, Outside
    PROVE  TypeInv'
PROOF
<1>1. UNCHANGED <<cache, lock, th, calls, listens>>
  BY DEF Outside, OnStart, PostInit, OnStop, Dies, OnServiceDied, LoadSystemAbilitySuccess, LoadSystemAbilityFail
<1>2. (\A t \in Threads : Shape(t))'
  BY <1>1 DEF TypeInv, Shape
<1>3. /\ held' \in [Subs -> SUBSET (Users \cup {"callback"})]
      /\ \A s \in Subs : held'[s] \subseteq Items(s)
  BY DEF TypeInv, Outside, OnStart, PostInit, OnStop, Dies, OnServiceDied, LoadSystemAbilitySuccess,
     LoadSystemAbilityFail, service
<1>4. /\ alive' \in BOOLEAN /\ isInited' \in BOOLEAN /\ isStopped' \in BOOLEAN /\ announced' \in BOOLEAN
  BY DEF TypeInv, Outside, OnStart, PostInit, OnStop, Dies, OnServiceDied, LoadSystemAbilitySuccess,
     LoadSystemAbilityFail, service
<1>5. starts \in Nat
  BY ClientAssumption DEF TypeInv
<1>6. /\ starts' \in 0 .. MaxStarts /\ dpProxy' \in 0 .. starts' /\ watched' \subseteq 1 .. starts'
      /\ alive' => starts' > 0
      /\ loads' \in Nat
  <2>1. CASE OnStart
    BY <1>5, <2>1, Bounds DEF TypeInv, OnStart, proxyState
  <2>2. CASE LoadSystemAbilitySuccess
    BY <1>5, <2>2 DEF TypeInv, LoadSystemAbilitySuccess, service
  <2>4. CASE LoadSystemAbilityFail
    BY <1>5, <2>4 DEF TypeInv, LoadSystemAbilityFail, service
  <2>5. CASE OnServiceDied
    BY <1>5, <2>5 DEF TypeInv, OnServiceDied, service
  <2>3. CASE PostInit \/ OnStop \/ Dies
    BY <1>5, <2>3 DEF TypeInv, PostInit, OnStop, Dies, proxyState
  <2> QED
    BY <2>1, <2>2, <2>3, <2>4, <2>5 DEF Outside
<1> QED
  BY <1>1, <1>2, <1>3, <1>4, <1>6 DEF TypeInv

\* Who locks: the steps that take and release a lock are those that enter and leave
\* the call.
LEMMA LocksKept ==
    ASSUME TypeInv, LocksOK, [Next]_vars
    PROVE  LocksOK'
PROOF
<1>1. CASE \E t \in Threads : Step(t)
  <2>1. PICK t \in Threads : Step(t)
    BY <1>1
  <2>2. PICK y \in ThreadStates :
                 /\ y.op = th[t].op /\ y.sub = th[t].sub /\ y.pc \notin {"idle", "check"}
                 /\ th' = [th EXCEPT ![t] = y] \/ th' = [th EXCEPT ![t] = Idle]
    BY <2>1, ThreadStep
  <2>3. \A u \in Threads \ {t} : th'[u] = th[u]
    BY <2>2 DEF TypeInv
  <2>4. \A u \in Threads \ {t} : Locking(u)' = Locking(u)
    BY <2>3 DEF Locking
  <2>5. th[t] \in ThreadStates /\ Shape(t) /\ th \in [Threads -> ThreadStates]
        /\ lock \in [Subs -> Threads \cup {None}]
    BY DEF TypeInv
  <2>6. Idle.pc = "idle"
    BY DEF Idle, Thread
  <2>7. CASE lock' = lock /\ (Locking(t)' <=> Locking(t)) /\ (Locking(t) => th'[t].sub = th[t].sub)
    BY <2>3, <2>4, <2>7 DEF LocksOK
  <2>8. CASE /\ th[t].sub \in Subs /\ lock[th[t].sub] = None /\ lock' = [lock EXCEPT ![th[t].sub] = t]
             /\ ~Locking(t) /\ Locking(t)' /\ th'[t].sub = th[t].sub
    BY <2>3, <2>4, <2>5, <2>8, NoneAssumption DEF LocksOK
  <2>9. CASE th[t].sub \in Subs /\ lock' = Release(t) /\ ~Locking(t)'
    <3>1. lock' = [lock EXCEPT ![th[t].sub] = IF lock[th[t].sub] = t THEN None ELSE lock[th[t].sub]]
      BY <2>9 DEF Release
    <3>2. t # None
      BY NoneAssumption
    <3>3. \A s \in Subs : lock'[s] = IF lock[s] = t /\ s = th[t].sub THEN None ELSE lock[s]
      BY <2>5, <2>9, <3>1
    <3>4. \A s \in Subs : lock[s] = t => s = th[t].sub
      BY DEF LocksOK
    <3> QED
      BY <2>3, <2>4, <2>9, <3>2, <3>3, <3>4, NoneAssumption DEF LocksOK
  <2>10. CASE LockCallback(t)
    <3>1. th[t].op \in Actions
      BY <2>5, <2>10 DEF LockCallback, Shape
    <3>2. th[t].op \in {"subscribe", "unsubscribe", "send"} /\ th[t].sub \in Subs
      BY <2>5, <2>10, <3>1 DEF LockCallback, Shape, Actions
    <3>3. th'[t] = [th[t] EXCEPT !.pc = "ipc"]
      BY <2>5, <2>10 DEF LockCallback, Goto
    <3>4. th'[t].op = th[t].op /\ th'[t].sub = th[t].sub /\ th'[t].pc = "ipc"
      BY <2>5, <3>3 DEF ThreadStates
    <3>5. ~Locking(t) /\ Locking(t)'
      BY <2>5, <2>10, <3>2, <3>4 DEF LockCallback, Locking, Calling
    <3> QED
      BY <2>8, <2>10, <3>2, <3>4, <3>5 DEF LockCallback
  <2>11. CASE SendSubscribeInfosToService(t) /\ lock' # lock
    <3>1. th[t].sub = "profile" /\ "profile" \in Subs
      BY <2>5, <2>11 DEF SendSubscribeInfosToService, Shape, Subs
    <3>2. th'[t] = [th[t] EXCEPT !.pc = "ipc", !.sent = cache["profile"]]
      BY <2>5, <2>11 DEF SendSubscribeInfosToService
    <3>3. th'[t].op = th[t].op /\ th'[t].sub = th[t].sub /\ th'[t].pc = "ipc"
      BY <2>5, <3>2 DEF ThreadStates
    <3>4. ~Locking(t) /\ Locking(t)'
      BY <2>5, <2>11, <3>3 DEF SendSubscribeInfosToService, Locking, Calling
    <3> QED
      BY <2>8, <2>11, <3>1, <3>3, <3>4 DEF SendSubscribeInfosToService
  <2>12. CASE Subscribed(t)
    <3>1. th[t].sub \in Subs
      BY <2>5, <2>12 DEF Subscribed, Shape, Actions
    <3>2. th'[t] = Idle
      BY <2>5, <2>12 DEF Subscribed, End
    <3> QED
      BY <2>6, <2>9, <2>12, <3>1, <3>2 DEF Subscribed, Locking, Calling
  <2>13. CASE Refuse(t) \/ Serve(t) \/ Reply(t)
    <3>1. th'[t].pc \in {"answered", "replied"} /\ th[t].pc \in {"ipc", "replied"}
      BY <2>5, <2>13 DEF Refuse, Serve, Reply, Answered, ThreadStates
    <3>2. th'[t] = y
      BY <2>2, <2>5, <2>6, <3>1
    <3>3. Locking(t)' <=> Locking(t)
      BY <2>2, <3>1, <3>2 DEF Locking, Calling
    <3> QED
      BY <2>2, <2>7, <2>13, <3>2, <3>3 DEF Refuse, Serve, Reply
  <2>14. CASE \/ Check(t) \/ GetDeviceProfileService(t) \/ LoadDeviceProfileService(t)
              \/ WakeOrTimeOut(t) \/ Loaded(t) \/ CacheListener(t) \/ Returned(t) \/ RetryClientRequest(t)
              \/ SendSubscribeInfosToService(t) /\ lock' = lock
    <3>1. lock' = lock
      BY <2>14 DEF Check, GetDeviceProfileService, LoadDeviceProfileService, WakeOrTimeOut, Loaded, CacheListener,
         Returned, RetryClientRequest
    <3>2. ~Locking(t)
      <4>1. th[t].pc = "answered" => th[t].op \in Requests \/ ~(Returned(t) \/ RetryClientRequest(t))
        BY RequestOps DEF Returned, RetryClientRequest
      <4>2. th[t].op \in Requests => ~Locking(t)
        BY RequestOps DEF Locking
      <4> QED
        BY <2>14, <4>1, <4>2 DEF Check, GetDeviceProfileService, LoadDeviceProfileService, WakeOrTimeOut, Loaded,
           CacheListener, Returned, RetryClientRequest, SendSubscribeInfosToService, Locking, Calling
    <3>3. ~Locking(t)'
      <4>1. CASE th'[t] = Idle
        BY <2>6, <4>1 DEF Locking, Calling
      <4>2. CASE \E pc \in {"get", "load", "waiting", "loaded"} : Goto(t, pc)
        <5>1. th'[t].pc \in {"get", "load", "waiting", "loaded"}
          BY <2>5, <4>2 DEF Goto, ThreadStates
        <5> QED
          BY <5>1 DEF Locking, Calling
      <4>3. CASE \E i \in Nat : HaveProxy(t, i)
        <5>1. th'[t].op = th[t].op /\ th'[t].pc = IF th[t].op \in Requests THEN "ipc" ELSE "lock"
          BY <2>5, <4>3 DEF HaveProxy, ThreadStates
        <5> QED
          BY <5>1, RequestOps DEF Locking, Calling
      <4>4. CASE CacheListener(t) /\ Goto(t, "ipc")
        <5>1. th'[t].op = th[t].op /\ th'[t].sub = th[t].sub
          BY <2>5, <4>4 DEF Goto, ThreadStates
        <5> QED
          BY <4>4, <5>1 DEF CacheListener, Locking
      <4>5. CASE RetryClientRequest(t)
        <5>1. th'[t].pc = "get"
          BY <2>5, <4>5 DEF RetryClientRequest, ThreadStates
        <5> QED
          BY <5>1 DEF Locking, Calling
      <4>6. CASE SendSubscribeInfosToService(t) /\ lock' = lock
        <5>1. "profile" \in Subs /\ t # None
          BY NoneAssumption DEF Subs
        <5>2. th' = [th EXCEPT ![t] = Idle]
          BY <2>5, <4>6, <5>1 DEF SendSubscribeInfosToService
        <5> QED
          BY <2>5, <4>1, <5>2
      <4>7. starts \in Nat /\ dpProxy \in Nat
        BY Bounds DEF TypeInv
      <4>8. CASE \E ret : End(t, ret)
        BY <2>5, <4>1, <4>8 DEF End
      <4>9. CASE Check(t)
        BY <2>5, <4>1, <4>2, <4>9 DEF Check
      <4>10. CASE GetDeviceProfileService(t) \/ Loaded(t)
        BY <4>2, <4>3, <4>7, <4>8, <4>10 DEF GetDeviceProfileService, Loaded, GetFailed
      <4>11. CASE LoadDeviceProfileService(t) \/ WakeOrTimeOut(t)
        BY <4>2, <4>8, <4>11 DEF LoadDeviceProfileService, WakeOrTimeOut, GetFailed
      <4>12. CASE CacheListener(t) \/ Returned(t)
        BY <4>4, <4>8, <4>12 DEF CacheListener, Returned
      <4> QED
        BY <2>14, <4>5, <4>6, <4>9, <4>10, <4>11, <4>12
    <3> QED
      BY <2>7, <3>1, <3>2, <3>3
  <2> QED
    BY <2>1, <2>10, <2>11, <2>12, <2>13, <2>14 DEF Step
<1>2. CASE (\E u \in Users : Request(u) \/ Subscribe(u) \/ UnSubscribe(u)) \/ OnAddSystemAbility
  <2>1. \A t \in Threads : th'[t] = th[t] \/ (th[t] = Idle /\ th'[t].pc \in {"get", "check"})
    BY <1>2, BeginTypes
  <2>2. Idle.pc = "idle"
    BY DEF Idle, Thread
  <2>3. \A t \in Threads : (Locking(t)' <=> Locking(t)) /\ (Locking(t) => th'[t] = th[t])
    BY <2>1, <2>2 DEF Locking, Calling
  <2>4. lock' = lock
    BY <1>2 DEF Request, Subscribe, UnSubscribe, OnAddSystemAbility
  <2> QED
    BY <2>3, <2>4 DEF LocksOK
<1>3. CASE Outside \/ UNCHANGED vars
  <2>1. UNCHANGED <<lock, th>>
    BY <1>3 DEF Outside, OnStart, PostInit, OnStop, Dies, OnServiceDied, LoadSystemAbilitySuccess,
       LoadSystemAbilityFail, vars
  <2> QED
    BY <2>1 DEF LocksOK, Locking
<1> QED
  BY <1>1, <1>2, <1>3 DEF Next, Outside

\* Types and locks hold at the beginning.
LEMMA InitTypes == Init => TypeInv /\ LocksOK
PROOF
<1> SUFFICES ASSUME Init PROVE TypeInv /\ LocksOK
  OBVIOUS
<1>1. \A t \in Threads : th[t] = Idle
  BY DEF Init
<1>2. Idle.pc = "idle" /\ Idle.op = None /\ Idle.sub = None
  BY DEF Idle, Thread
<1>3. \A t \in Threads : Shape(t)
  BY <1>1, <1>2, NoneAssumption DEF Shape
<1>4. th \in [Threads -> ThreadStates]
  BY Beginnings DEF Init
<1>5. LocksOK
  BY <1>1, <1>2, NoneAssumption DEF Init, LocksOK, Locking, Calling
<1>6. /\ alive = FALSE /\ isInited = FALSE /\ isStopped = FALSE /\ listens = FALSE /\ announced = FALSE
      /\ starts = 0 /\ dpProxy = 0 /\ watched = {} /\ loads = 0 /\ calls = 0
      /\ held = [s \in Subs |-> {}] /\ cache = [s \in Subs |-> {}] /\ lock = [s \in Subs |-> None]
  BY DEF Init
<1>7. starts \in 0 .. MaxStarts /\ dpProxy \in 0 .. starts /\ watched \subseteq 1 .. starts
      /\ loads \in Nat /\ calls \in 0 .. MaxCalls
  BY <1>6, Bounds
<1> QED
  BY <1>3, <1>4, <1>5, <1>6, <1>7 DEF TypeInv

\* The types and the locks are those of an inductive invariant.
THEOREM TypesAndLocks == Spec => [](TypeInv /\ LocksOK)
PROOF
<1>1. TypeInv /\ LocksOK /\ [Next]_vars => TypeInv' /\ LocksOK'
  <2> SUFFICES ASSUME TypeInv, LocksOK, [Next]_vars PROVE TypeInv' /\ LocksOK'
    OBVIOUS
  <2>1. LocksOK'
    BY LocksKept
  <2>2. CASE UNCHANGED vars
    <3>1. (\A t \in Threads : Shape(t))'
      BY <2>2 DEF TypeInv, Shape, vars
    <3> QED
      BY <2>1, <2>2, <3>1 DEF TypeInv, vars, service, proxyState
  <2>3. CASE Next
    BY <2>1, <2>3, StepTypes, BeginTypes, OutsideTypes DEF Next, Outside
  <2> QED
    BY <2>2, <2>3
<1> QED
  BY <1>1, InitTypes, PTL DEF Spec

\* Types; and a lock is held only by the thread whose call about it is with the
\* service: no early return of the client leaves one behind.
THEOREM TypeCorrect == Spec => []TypeOK
PROOF
<1>1. TypeInv /\ LocksOK => TypeOK
  <2> SUFFICES ASSUME TypeInv, LocksOK PROVE TypeOK
    OBVIOUS
  <2>1. \A t \in Threads : th[t].pc \in PCs /\ th[t].tries \in 0 .. MaxRetries
    BY DEF TypeInv, ThreadStates
  <2>2. \A s \in Subs : lock[s] # None =>
            th[lock[s]].sub = s /\ th[lock[s]].pc \in {"ipc", "replied", "answered"}
    BY DEF TypeInv, LocksOK, Locking, Calling
  <2> QED
    BY <2>1, <2>2 DEF TypeOK, TypeInv
<1> QED
  BY <1>1, TypesAndLocks, PTL

(***************************************************************************)
(* Profile listeners that were unsubscribed.                               *)
(***************************************************************************)
\* The thread that sends the list to the service.
Sending(t) == th[t].op = "send" /\ th[t].pc = "ipc"
\* A user whose listener is off the list, and one that the service does not know.
Leaving(u) == th[u].op = "unsubscribe" /\ th[u].sub = "profile"
Gone(u) == u \in left \/ (Leaving(u) /\ th[u].pc \in Calling)
Away(u) == u \in left \/ (Leaving(u) /\ (th[u].pc = "replied" \/ (th[u].pc = "answered" /\ th[u].ret = "DP_SUCCESS")))
ListenersOK ==
    /\ left \subseteq Users
    /\ \A u \in Users : Gone(u) => u \notin cache["profile"] /\ \A t \in Threads : Sending(t) => u \notin th[t].sent
    /\ \A u \in Users : Away(u) => u \notin held["profile"]
    /\ \A u \in left : ~(th[u].op = "subscribe" /\ th[u].sub = "profile")

\* A step that moves no listener keeps them.
LEMMA ListenersLeft ==
    ASSUME ListenersOK, left' \subseteq left, cache'["profile"] \subseteq cache["profile"],
           held'["profile"] \subseteq held["profile"],
           \A t \in Threads : Sending(t)' => Sending(t) /\ th'[t].sent = th[t].sent,
           \A u \in Users : u \notin left' => (Gone(u)' => Gone(u)) /\ (Away(u)' => Away(u)),
           \A u \in left' : ~(th'[u].op = "subscribe" /\ th'[u].sub = "profile")
    PROVE  ListenersOK'
PROOF
<1>1. ASSUME NEW u \in Users, Gone(u)' PROVE Gone(u)
  BY <1>1 DEF Gone
<1>2. ASSUME NEW u \in Users, Away(u)' PROVE Away(u)
  BY <1>2 DEF Away
<1>3. ASSUME NEW u \in Users, Gone(u)'
      PROVE  u \notin cache'["profile"] /\ \A t \in Threads : Sending(t)' => u \notin th'[t].sent
  <2>1. u \notin cache["profile"] /\ \A t \in Threads : Sending(t) => u \notin th[t].sent
    BY <1>1, <1>3 DEF ListenersOK
  <2> QED
    BY <2>1
<1>4. ASSUME NEW u \in Users, Away(u)' PROVE u \notin held'["profile"]
  BY <1>2, <1>4 DEF ListenersOK
<1>5. left' \subseteq Users
  BY DEF ListenersOK
<1> QED
  BY <1>3, <1>4, <1>5 DEF ListenersOK

\* A thread that begins or ends a call, or goes on with it before or after the service.
LEMMA ListenersBegin ==
    ASSUME TypeInv, ListenersOK,
           \/ \E u \in Users : Request(u) \/ Subscribe(u) \/ UnSubscribe(u)
           \/ OnAddSystemAbility \/ Outside \/ UNCHANGED vars
    PROVE  ListenersOK'
PROOF
<1>1. /\ cache' = cache /\ left' \subseteq left
      /\ held' = held \/ held' = [s \in Subs |-> {}]
  BY DEF Request, Subscribe, UnSubscribe, OnAddSystemAbility, Outside, OnStart, PostInit, OnStop, Dies, OnServiceDied,
     LoadSystemAbilitySuccess, LoadSystemAbilityFail, service, history, vars
<1>2. held'["profile"] \subseteq held["profile"]
  BY <1>1 DEF Subs
<1>3. \A t \in Threads : th'[t] = th[t] \/ th'[t].pc \in {"get", "check"}
  <2>1. CASE Outside \/ UNCHANGED vars
    BY <2>1 DEF Outside, OnStart, PostInit, OnStop, Dies, OnServiceDied, LoadSystemAbilitySuccess,
       LoadSystemAbilityFail, vars
  <2> QED
    BY <2>1, BeginTypes
<1>4. \A t \in Threads : Sending(t)' => Sending(t) /\ th'[t].sent = th[t].sent
  BY <1>3 DEF Sending
<1>5. Users \subseteq Threads
  BY DEF Threads
<1>6. \A u \in Users : u \notin left' => (Gone(u)' => Gone(u)) /\ (Away(u)' => Away(u))
  BY <1>3, <1>5 DEF Gone, Away, Leaving, Calling
<1>7. \A u \in left' : ~(th'[u].op = "subscribe" /\ th'[u].sub = "profile")
  <2> SUFFICES ASSUME NEW u \in left' PROVE ~(th'[u].op = "subscribe" /\ th'[u].sub = "profile")
    OBVIOUS
  <2>1. u \in left /\ u \in Users /\ th \in [Threads -> ThreadStates]
    BY <1>1 DEF ListenersOK, TypeInv
  <2>2. CASE th'[u] = th[u]
    BY <2>1, <2>2 DEF ListenersOK
  <2>3. CASE \E w \in Users : Request(w) \/ UnSubscribe(w)
    <3>1. PICK w \in Users : \E x : th' = [th EXCEPT ![w] = x] /\ x.op # "subscribe"
      <4>1. \A op \in Requests : Thread("get", op, None).op # "subscribe"
        BY RequestOps DEF Thread
      <4>2. \A call \in UnSubscriptions : call.op # "subscribe"
        BY DEF UnSubscriptions, UnSubscribeDeviceProfile, UnSubscribeDeviceProfileInited, UnSubscribePinCodeInvalid,
           UnRegisterBusinessCallback, ReleaseSubscribeDeviceProfileInited, ReleaseSubscribePinCodeInvalid,
           ReleaseRegisterBusinessCallback, Thread
      <4> QED
        BY <2>3, <4>1, <4>2 DEF Request, UnSubscribe
    <3> QED
      BY <1>5, <2>1, <2>2, <3>1
  <2>4. CASE \E w \in Users : Subscribe(w)
    <3>1. PICK w \in Users, call \in Subscriptions : th' = [th EXCEPT ![w] = call]
                                   /\ left' = IF call.sub = "profile" THEN left \ {w} ELSE left
      BY <2>4 DEF Subscribe
    <3> QED
      BY <1>5, <2>1, <2>2, <3>1
  <2>5. CASE OnAddSystemAbility
    <3>1. u \notin Tasks
      BY <2>1, ClientAssumption DEF Tasks, Subs
    <3> QED
      BY <1>5, <2>1, <2>2, <2>5, <3>1 DEF OnAddSystemAbility
  <2>6. CASE Outside \/ UNCHANGED vars
    BY <2>2, <2>6 DEF Outside, OnStart, PostInit, OnStop, Dies, OnServiceDied, LoadSystemAbilitySuccess,
       LoadSystemAbilityFail, vars
  <2> QED
    BY <2>3, <2>4, <2>5, <2>6
<1> QED
  BY <1>1, <1>2, <1>4, <1>6, <1>7, ListenersLeft

\* The steps of a call.
LEMMA ListenersStep ==
    ASSUME TypeInv, LocksOK, ListenersOK, NEW t \in Threads, Step(t)
    PROVE  ListenersOK'
PROOF
<1>1. PICK y \in ThreadStates :
                 /\ y.op = th[t].op /\ y.sub = th[t].sub /\ y.pc \notin {"idle", "check"}
                 /\ th' = [th EXCEPT ![t] = y] \/ th' = [th EXCEPT ![t] = Idle]
  BY ThreadStep
<1>2. \A u \in Threads \ {t} : th'[u] = th[u]
  BY <1>1 DEF TypeInv
<1>3. th[t] \in ThreadStates /\ Shape(t) /\ th \in [Threads -> ThreadStates]
      /\ held \in [Subs -> SUBSET (Users \cup {"callback"})] /\ cache \in [Subs -> SUBSET (Users \cup {"callback"})]
  BY DEF TypeInv
<1>4. Idle.pc = "idle" /\ Idle.op = None
  BY DEF Idle, Thread
<1>5. Users \subseteq Threads /\ "profile" \in Subs
  BY DEF Threads, Subs
<1>6. th'[t] = y \/ th'[t] = Idle
  BY <1>1, <1>3
<1>7. \A u \in Users : u \in left => ~(th'[u].op = "subscribe" /\ th'[u].sub = "profile")
  BY <1>1, <1>2, <1>4, <1>5, <1>6, NoneAssumption DEF ListenersOK
<1>8. ASSUME left' = left, cache'["profile"] = cache["profile"], held'["profile"] = held["profile"],
             Sending(t)' => Sending(t) /\ th'[t].sent = th[t].sent,
             t \in Users => (Gone(t)' => Gone(t)) /\ (Away(t)' => Away(t))
      PROVE  ListenersOK'
  <2>1. \A u \in Threads : Sending(u)' => Sending(u) /\ th'[u].sent = th[u].sent
    BY <1>2, <1>8 DEF Sending
  <2>2. \A u \in Users : (Gone(u)' => Gone(u)) /\ (Away(u)' => Away(u))
    BY <1>2, <1>5, <1>8 DEF Gone, Away, Leaving
  <2>3. \A u \in left' : ~(th'[u].op = "subscribe" /\ th'[u].sub = "profile")
    BY <1>7, <1>8 DEF ListenersOK
  <2> QED
    BY <1>8, <2>1, <2>2, <2>3, ListenersLeft
<1>9. CASE \E pc \in {"get", "load", "waiting", "loaded"} : Goto(t, pc) /\ UNCHANGED <<left, cache, held>>
  <2>1. th'[t].pc \in {"get", "load", "waiting", "loaded"}
    BY <1>3, <1>9 DEF Goto, ThreadStates
  <2> QED
    BY <1>8, <1>9, <2>1 DEF Sending, Gone, Away, Leaving, Calling
<1>10. CASE th'[t] = Idle /\ UNCHANGED <<left, cache, held>>
  BY <1>4, <1>8, <1>10, NoneAssumption DEF Sending, Gone, Away, Leaving
<1>11. CASE \E ret : End(t, ret) /\ (ret # "DP_SUCCESS" \/ th[t].op \in Requests) /\ UNCHANGED <<cache, held>>
  <2>1. left' = left /\ th'[t] = Idle
    BY <1>3, <1>11, RequestOps DEF End
  <2> QED
    BY <1>10, <1>11, <2>1
<1>12. CASE \E i \in Nat : HaveProxy(t, i) /\ UNCHANGED <<left, cache, held>>
  <2>1. th'[t].op = th[t].op /\ th'[t].pc = IF th[t].op \in Requests THEN "ipc" ELSE "lock"
    BY <1>3, <1>12 DEF HaveProxy, ThreadStates
  <2> QED
    BY <1>8, <1>12, <2>1, RequestOps DEF Sending, Gone, Away, Leaving, Calling
<1>13. CASE \E ret \in Answers : Answered(t, ret) /\ th[t].pc \in Calling /\ UNCHANGED <<left, cache, held>>
               /\ (ret = "DP_SUCCESS" => th[t].pc = "replied" \/ th[t].op \in Requests)
  <2>1. /\ th'[t].pc = "answered" /\ th'[t].op = th[t].op /\ th'[t].sub = th[t].sub
        /\ th'[t].ret = "DP_SUCCESS" => th[t].pc = "replied" \/ th[t].op \in Requests
    BY <1>3, <1>13 DEF Answered, ThreadStates
  <2> QED
    BY <1>8, <1>13, <2>1, RequestOps DEF Sending, Gone, Away, Leaving
<1>14. CASE CacheListener(t)
  <2>1. /\ t \in Users /\ th[t].sub = "profile" /\ th[t].op \in {"subscribe", "unsubscribe"}
        /\ lock["profile"] = None /\ th[t].pc = "lock" /\ held' = held
    BY <1>3, <1>14 DEF CacheListener, Shape, service
  <2>2. CASE End(t, "DP_EXCEED_MAX_SIZE_FAIL") /\ cache' = cache
    BY <1>11, <2>1, <2>2
  <2>3. CASE /\ Goto(t, "ipc") /\ left' = left
             /\ \/ th[t].op = "subscribe" /\ cache' = [cache EXCEPT !["profile"] = cache["profile"] \cup {t}]
                \/ th[t].op = "unsubscribe" /\ cache' = [cache EXCEPT !["profile"] = cache["profile"] \ {t}]
    <3>1. th'[t].op = th[t].op /\ th'[t].sub = th[t].sub /\ th'[t].pc = "ipc"
      BY <1>3, <2>3 DEF Goto, ThreadStates
    <3>2. \A u \in Threads : ~Sending(u)
      <4> SUFFICES ASSUME NEW u \in Threads, Sending(u) PROVE FALSE
        OBVIOUS
      <4>1. th[u].sub = "profile"
        BY DEF TypeInv, Shape, Sending
      <4>2. lock["profile"] = u
        BY <1>5, <4>1 DEF Sending, LocksOK, Locking, Calling
      <4> QED
        BY <2>1, <4>2, NoneAssumption
    <3>3. \A u \in Threads : ~Sending(u)'
      BY <1>2, <2>1, <3>1, <3>2 DEF Sending
    <3>4. \A u \in Users : u # t => (Gone(u)' => Gone(u)) /\ (Away(u)' => Away(u))
      BY <1>2, <1>5, <2>3 DEF Gone, Away, Leaving
    <3>5. ~Away(t)' \/ t \in left
      BY <2>3, <3>1 DEF Away
    <3>6. \A u \in Users : Away(u)' => u \notin held'["profile"]
      BY <2>1, <3>4, <3>5 DEF ListenersOK, Away
    <3>7. th[t].op = "subscribe" => ~Gone(t)'
      BY <2>1, <2>3, <3>1 DEF Gone, Leaving, ListenersOK
    <3>8. \A u \in Users : Gone(u)' => u \notin cache'["profile"]
      BY <1>3, <1>5, <2>3, <3>4, <3>7 DEF ListenersOK
    <3> QED
      BY <1>7, <2>3, <3>3, <3>6, <3>8 DEF ListenersOK
  <2> QED
    BY <1>14, <2>2, <2>3 DEF CacheListener, history
<1>15. CASE SendSubscribeInfosToService(t)
  <2>1. th[t].op = "send" /\ UNCHANGED <<left, cache, held>>
    BY <1>15 DEF SendSubscribeInfosToService, history, service
  <2>2. CASE th' = [th EXCEPT ![t] = Idle]
    BY <1>3, <1>10, <2>1, <2>2
  <2>3. CASE th' = [th EXCEPT ![t].pc = "ipc", ![t].sent = cache["profile"]]
    <3>1. th'[t].op = "send" /\ th'[t].sent = cache["profile"]
      BY <1>3, <2>1, <2>3 DEF ThreadStates
    <3>2. \A u \in Users : (Gone(u)' => Gone(u)) /\ (Away(u)' => Away(u))
      BY <1>2, <1>5, <2>1, <3>1 DEF Gone, Away, Leaving
    <3>3. ASSUME NEW u \in Users, Gone(u)', NEW w \in Threads, Sending(w)' PROVE u \notin th'[w].sent
      <4>1. u \notin cache["profile"] /\ (Sending(w) => u \notin th[w].sent)
        BY <3>2, <3>3 DEF ListenersOK
      <4> QED
        BY <1>2, <3>1, <3>3, <4>1 DEF Sending
    <3> QED
      BY <1>7, <2>1, <3>2, <3>3 DEF ListenersOK
  <2> QED
    BY <1>15, <2>2, <2>3 DEF SendSubscribeInfosToService
<1>16. CASE Serve(t) /\ ~Answered(t, "ERROR")
  <2>1. /\ UNCHANGED <<left, cache>> /\ th[t].pc = "ipc"
        /\ held' = held \/ (th[t].op \notin Requests /\ held' = [held EXCEPT ![th[t].sub] = Holding(t)])
        /\ th' = [th EXCEPT ![t].pc = "replied", ![t].ret = "DP_SUCCESS"]
    BY <1>16 DEF Serve, Answered
  <2>2. th'[t].pc = "replied" /\ th'[t].op = th[t].op /\ th'[t].sub = th[t].sub
    BY <1>3, <2>1 DEF ThreadStates
  <2>3. \A u \in Threads : ~(u = t /\ Sending(u)') /\ (Sending(u)' => Sending(u) /\ th'[u].sent = th[u].sent)
    BY <1>2, <2>2 DEF Sending
  <2>4. \A u \in Users : (Gone(u)' => Gone(u)) /\ (Away(u)' => Gone(u) /\ (u # t => Away(u)))
    BY <1>2, <1>5, <2>1, <2>2 DEF Gone, Away, Leaving, Calling
  <2>5. ASSUME NEW u \in Users, Gone(u)'
        PROVE  u \notin cache'["profile"] /\ \A w \in Threads : Sending(w)' => u \notin th'[w].sent
    <3>1. u \notin cache["profile"] /\ \A w \in Threads : Sending(w) => u \notin th[w].sent
      BY <2>4, <2>5 DEF ListenersOK
    <3> QED
      BY <2>1, <2>3, <3>1
  <2>6. ASSUME NEW u \in Users, Away(u)' PROVE u \notin held'["profile"]
    <3>1. Gone(u) /\ (u # t => u \notin held["profile"])
      BY <2>4, <2>6 DEF ListenersOK
    <3>2. CASE th[t].sub # "profile" \/ th[t].op \in Requests
      <4>1. held'["profile"] = held["profile"]
        BY <1>3, <1>5, <2>1, <3>2
      <4>2. u = t => u \in left
        BY <2>2, <2>1, <2>6, <3>2, RequestOps DEF Away, Leaving
      <4>3. Away(u)
        BY <2>4, <2>6, <4>2 DEF Away
      <4> QED
        BY <4>1, <4>3 DEF ListenersOK
    <3>3. CASE th[t].sub = "profile" /\ th[t].op = "send"
      <4>1. held'["profile"] \subseteq held["profile"] \cup th[t].sent
        BY <1>3, <1>5, <2>1, <3>3 DEF Holding
      <4>2. u \notin th[t].sent
        BY <2>1, <3>1, <3>3 DEF ListenersOK, Sending
      <4>3. Away(u)
        BY <2>2, <2>4, <2>6, <2>1, <3>3 DEF Away, Leaving
      <4> QED
        BY <4>1, <4>2, <4>3 DEF ListenersOK
    <3>4. CASE th[t].sub = "profile" /\ th[t].op = "subscribe"
      <4>1. held'["profile"] \subseteq held["profile"] \cup {t}
        BY <1>3, <1>5, <2>1, <3>4 DEF Holding, Item
      <4>2. u # t
        BY <2>1, <2>2, <2>6, <3>4 DEF Away, Leaving, ListenersOK
      <4> QED
        BY <3>1, <4>1, <4>2
    <3>5. CASE th[t].sub = "profile" /\ th[t].op = "unsubscribe"
      <4>1. th[t].op \notin Requests
        BY <3>5, RequestOps
      <4>2. held' = [held EXCEPT !["profile"] = held["profile"] \ {t}]
        BY <1>16, <3>5, <4>1 DEF Serve, Holding, Item
      <4> QED
        BY <1>3, <1>5, <3>1, <4>2
    <3>6. th[t].op \in Actions
      BY <1>3, <2>1 DEF Shape
    <3> QED
      BY <3>2, <3>3, <3>4, <3>5, <3>6 DEF Actions
  <2> QED
    BY <1>7, <2>1, <2>5, <2>6 DEF ListenersOK
<1>17. CASE Subscribed(t)
  <2>1. th'[t] = Idle /\ th[t].pc = "answered" /\ held' = held
    BY <1>3, <1>17 DEF Subscribed, End, service
  <2>2. cache'["profile"] = cache["profile"]
    <3>1. th[t].sub = "profile" => Keep(t) = cache["profile"]
      BY DEF Keep
    <3> QED
      BY <1>3, <1>5, <1>17, <3>1 DEF Subscribed
  <2>3. left' = left \/ (left' = left \cup {t} /\ t \in Users /\ Leaving(t) /\ th[t].ret = "DP_SUCCESS")
    BY <1>17 DEF Subscribed, End, Leaving
  <2>4. ~Leaving(t)' /\ ~Sending(t)' /\ th'[t].op # "subscribe"
    BY <1>4, <2>1, NoneAssumption DEF Leaving, Sending
  <2>5. \A u \in Users : (Gone(u)' => Gone(u)) /\ (Away(u)' => Away(u))
    BY <1>2, <1>5, <2>1, <2>3, <2>4 DEF Gone, Away, Leaving, Calling
  <2>6. \A u \in Threads : Sending(u)' => Sending(u) /\ th'[u].sent = th[u].sent
    BY <1>2, <2>4 DEF Sending
  <2>7. ASSUME NEW u \in Users, Gone(u)'
        PROVE  u \notin cache'["profile"] /\ \A w \in Threads : Sending(w)' => u \notin th'[w].sent
    BY <2>2, <2>5, <2>6, <2>7 DEF ListenersOK
  <2>8. \A u \in Users : Away(u)' => u \notin held'["profile"]
    BY <2>1, <2>5 DEF ListenersOK
  <2>9. left' \subseteq Users /\ \A u \in left' : ~(th'[u].op = "subscribe" /\ th'[u].sub = "profile")
    BY <1>7, <2>3, <2>4 DEF ListenersOK
  <2> QED
    BY <2>7, <2>8, <2>9 DEF ListenersOK
<1>18. CASE \/ Check(t) \/ GetDeviceProfileService(t) \/ LoadDeviceProfileService(t) \/ WakeOrTimeOut(t)
            \/ Loaded(t) \/ Returned(t) \/ RetryClientRequest(t)
  <2>1. starts \in Nat /\ dpProxy \in Nat
    BY Bounds DEF TypeInv
  <2>2. CASE Check(t)
    BY <1>3, <1>9, <1>10, <2>2 DEF Check, history, service
  <2>3. CASE GetDeviceProfileService(t)
    BY <1>9, <1>12, <2>1, <2>3 DEF GetDeviceProfileService, history, service
  <2>4. CASE LoadDeviceProfileService(t) \/ WakeOrTimeOut(t)
    BY <1>9, <1>11, <2>4 DEF LoadDeviceProfileService, WakeOrTimeOut, GetFailed, history, service
  <2>5. CASE Loaded(t)
    BY <1>11, <1>12, <2>1, <2>5 DEF Loaded, GetFailed, history, service
  <2>6. CASE Returned(t)
    BY <1>11, <2>6, RequestOps DEF Returned, service
  <2>7. CASE RetryClientRequest(t)
    <3>1. th'[t].pc = "get" /\ UNCHANGED <<left, cache, held>>
      BY <1>3, <2>7 DEF RetryClientRequest, ThreadStates, history, service
    <3> QED
      BY <1>8, <3>1 DEF Sending, Gone, Away, Leaving, Calling
  <2> QED
    BY <1>18, <2>2, <2>3, <2>4, <2>5, <2>6, <2>7
<1>19. CASE LockCallback(t)
  <2>1. /\ th'[t].pc = "ipc" /\ th'[t].op = th[t].op /\ th'[t].sub = th[t].sub
        /\ UNCHANGED <<left, cache, held>> /\ th[t].sub # "profile"
    BY <1>3, <1>19 DEF LockCallback, Goto, ThreadStates, history, service
  <2> QED
    BY <1>3, <1>8, <2>1 DEF Sending, Gone, Away, Leaving, Shape
<1>20. CASE Refuse(t) \/ (Serve(t) /\ Answered(t, "ERROR")) \/ Reply(t)
  <2>1. {"DP_ERR_DEAD_OBJECT", "DP_BR_DEAD_REPLY", "DP_SERVICE_STOPPED", "DP_SERVICE_ON_IDLE",
         "DP_LOAD_SERVICE_ERR", "ERROR", "DP_SUCCESS"} \subseteq Answers
    BY DEF Answers, Remote!Answers, Remote!Refusals
  <2>2. CASE Refuse(t)
    BY <1>13, <2>1, <2>2 DEF Refuse, Calling, history, service
  <2>3. CASE Serve(t) /\ Answered(t, "ERROR")
    <3>1. th'[t].pc = "answered"
      BY <1>3, <2>3 DEF Answered, ThreadStates
    <3>2. held' = held
      BY <1>3, <2>3, <3>1 DEF Serve, ThreadStates
    <3> QED
      BY <1>13, <2>1, <2>3, <3>2 DEF Serve, Calling
  <2>4. CASE Reply(t)
    BY <1>3, <1>13, <2>1, <2>4 DEF Reply, Calling, Shape, history, service
  <2> QED
    BY <1>20, <2>2, <2>3, <2>4
<1> QED
  BY <1>14, <1>15, <1>16, <1>17, <1>18, <1>19, <1>20 DEF Step

\* The thread that sends the list after a restart holds the lock of the list, so it does
\* not bring an unsubscribed listener back.
THEOREM UnSubscribedListeners == Spec => []UnSubscribedStays
PROOF
<1>1. Init => ListenersOK
  <2> SUFFICES ASSUME Init PROVE ListenersOK
    OBVIOUS
  <2>1. left = {} /\ \A t \in Threads : th[t].op = None
    BY DEF Init, Idle, Thread
  <2> QED
    BY <2>1, NoneAssumption DEF ListenersOK, Gone, Away, Leaving, Threads
<1>2. TypeInv /\ LocksOK /\ ListenersOK /\ [Next]_vars => ListenersOK'
  BY ListenersBegin, ListenersStep DEF Next, Outside
<1>3. ListenersOK => UnSubscribedStays
  BY DEF ListenersOK, Away, UnSubscribedStays
<1> QED
  BY <1>1, <1>2, <1>3, TypesAndLocks, PTL DEF Spec

-----------------------------------------------------------------------------
(* What the client does of a request is what RemoteCall promises.          *)

\* How often a request was carried out, at each point of its call.
CallOK(u) ==
    LET x == th[u]
    IN  /\ x.op \notin Repeated => x.tries = 0
        /\ done[u] <= x.tries + IF x.pc \in {"replied", "answered"} THEN 1 ELSE 0
        /\ x.pc = "replied" => done[u] > 0
        /\ x.pc = "answered" =>
              /\ x.ret \in Answers
              /\ x.ret = "DP_SUCCESS" => done[u] > 0
              /\ x.ret \in Remote!Refusals /\ x.op \notin Repeated => done[u] = 0
CallsOK == done \in [Users -> Nat] /\ \A u \in Users : th[u].op \in Requests => CallOK(u)

\* The kinds of the calls that are open.
LEMMA OpenCalls ==
    /\ \A u \in Users : /\ th[u].op \in Repeated => openCalls[u] = "retried"
                        /\ th[u].op \in Requests \ Repeated => openCalls[u] = "once"
                        /\ th[u].op \notin Requests => openCalls[u] = None
    /\ openCalls = [u \in Users |-> openCalls[u]]
PROOF
<1>1. Repeated \subseteq Requests
  BY RequestOps
<1> QED
  BY <1>1 DEF openCalls

\* A step of a thread which leaves its operation and the counts alone is a stutter.
LEMMA CallStutters ==
    ASSUME TypeInv, NEW t \in Threads, th'[t].op = th[t].op, \A u \in Threads \ {t} : th'[u] = th[u],
           UNCHANGED <<done, answer>>
    PROVE  UNCHANGED Remote!vars
PROOF
<1>1. \A u \in Users : th'[u].op = th[u].op
  BY DEF Threads
<1>2. openCalls' = openCalls
  BY <1>1 DEF openCalls
<1> QED
  BY <1>2 DEF Remote!vars

\* The end of a request is a return of the call.
LEMMA CallReturns ==
    ASSUME TypeInv, NEW t \in Threads, th[t].op \in Requests, NEW ret \in Answers, End(t, ret),
           ret = "DP_SUCCESS" => done[t] > 0,
           ret \in Remote!Refusals /\ th[t].op \notin Repeated => done[t] = 0
    PROVE  Remote!Next
PROOF
<1>1. t \in Users /\ th[t] \in ThreadStates
  BY DEF TypeInv, Shape
<1>2. th'[t].op = None /\ \A u \in Users \ {t} : th'[u] = th[u]
  BY <1>1 DEF TypeInv, End, Idle, Thread, Threads
<1>3. openCalls[t] # None /\ (openCalls[t] = "once" => th[t].op \notin Repeated)
  BY <1>1, OpenCalls, NoneAssumption
<1>4. openCalls' = [openCalls EXCEPT ![t] = None]
  <2>1. None \notin Requests
    BY NoneAssumption
  <2> QED
    BY <1>1, <1>2, <2>1, RequestOps DEF openCalls
<1>5. answer' = [answer EXCEPT ![t] = ret] /\ done' = done
  BY DEF End
<1>6. Remote!Return(t)
  BY <1>3, <1>4, <1>5 DEF Remote!Return, Answers
<1> QED
  BY <1>1, <1>6 DEF Remote!Next

\* A step of the client's threads.
LEMMA CallsStep ==
    ASSUME TypeInv, CallsOK, NEW t \in Threads, Step(t)
    PROVE  CallsOK' /\ [Remote!Next]_(Remote!vars)
PROOF
<1> DEFINE Goal == CallsOK' /\ [Remote!Next]_(Remote!vars)
<1> SUFFICES Goal
  OBVIOUS
<1>1. PICK y \in ThreadStates :
                 /\ y.op = th[t].op /\ y.sub = th[t].sub
                 /\ th' = [th EXCEPT ![t] = y] \/ th' = [th EXCEPT ![t] = Idle]
  BY ThreadStep
<1>2. th[t] \in ThreadStates /\ Shape(t) /\ th \in [Threads -> ThreadStates]
  BY DEF TypeInv
<1>3. \A u \in Threads \ {t} : th'[u] = th[u]
  BY <1>1, <1>2
<1>4. Users \subseteq Threads
  BY DEF Threads
<1>5. Idle.op = None /\ None \notin Requests
  BY NoneAssumption DEF Idle, Thread
<1>6. ASSUME done' \in [Users -> Nat], \A u \in Users \ {t} : done'[u] = done[u],
             t \in Users /\ th'[t].op \in Requests => CallOK(t)'
      PROVE  CallsOK'
  <2>1. ASSUME NEW u \in Users, th'[u].op \in Requests PROVE CallOK(u)'
    <3>1. CASE u = t
      BY <1>6, <2>1, <3>1
    <3>2. CASE u # t
      <4>1. th'[u] = th[u] /\ done'[u] = done[u]
        BY <1>3, <1>4, <1>6, <3>2
      <4> QED
        BY <2>1, <4>1 DEF CallsOK, CallOK
    <3> QED
      BY <3>1, <3>2
  <2> QED
    BY <1>6, <2>1 DEF CallsOK
\* A thread that has no request.
<1>7. CASE th[t].op \notin Requests
  <2>1. th'[t].op \notin Requests
    BY <1>1, <1>2, <1>5, <1>7
  <2>2. UNCHANGED <<done, answer>>
    BY <1>7, RequestOps DEF Step, Check, GetDeviceProfileService, LoadDeviceProfileService, WakeOrTimeOut, Loaded,
       LockCallback, CacheListener, SendSubscribeInfosToService, Refuse, Serve, Reply, Subscribed, Returned,
       RetryClientRequest, GetFailed, End, history
  <2>3. CallsOK'
    BY <1>6, <2>1, <2>2 DEF CallsOK
  <2>4. \A u \in Users : th'[u].op = th[u].op \/ (th'[u].op \notin Requests /\ th[u].op \notin Requests)
    BY <1>3, <1>4, <1>7, <2>1
  <2>5. openCalls' = openCalls
    BY <2>4, RequestOps DEF openCalls
  <2> QED
    BY <2>2, <2>3, <2>5 DEF Remote!vars
\* A thread that has one.
<1>8. CASE th[t].op \in Requests
  <2>1. t \in Users /\ CallOK(t) /\ done[t] \in Nat /\ th[t].tries \in Nat /\ done \in [Users -> Nat]
    BY <1>2, <1>8, Bounds DEF Shape, CallsOK, ThreadStates
  <2>2. ASSUME th'[t].op = th[t].op, UNCHANGED <<done, answer>>, CallOK(t)'
        PROVE  Goal
    BY <1>3, <1>6, <2>1, <2>2, CallStutters
  <2>3. ASSUME NEW ret \in Answers, End(t, ret), ret = "DP_SUCCESS" => done[t] > 0,
               ret \in Remote!Refusals /\ th[t].op \notin Repeated => done[t] = 0
        PROVE  Goal
    <3>1. th'[t].op = None /\ done' = done
      BY <1>2, <1>5, <2>3 DEF End
    <3>2. CallsOK'
      BY <1>5, <1>6, <2>1, <3>1
    <3> QED
      BY <1>8, <2>3, <3>2, CallReturns
  <2>4. ASSUME UNCHANGED done, th'[t].op = th[t].op, th'[t].tries = th[t].tries,
               th[t].pc \notin {"replied", "answered"}, th'[t].pc \notin {"replied", "answered"}
        PROVE  CallOK(t)'
    BY <2>1, <2>4 DEF CallOK
  <2>5. ASSUME NEW pc \in {"waiting", "loaded"}, Goto(t, pc), UNCHANGED <<done, answer>>,
               th[t].pc \notin {"replied", "answered"}
        PROVE  Goal
    <3>1. th'[t].op = th[t].op /\ th'[t].tries = th[t].tries /\ th'[t].pc = pc
      BY <1>2, <2>5 DEF Goto, ThreadStates
    <3> QED
      BY <2>2, <2>4, <2>5, <3>1
  <2>6. ASSUME NEW i \in Nat, HaveProxy(t, i), UNCHANGED <<done, answer>>,
               th[t].pc \notin {"replied", "answered"}
        PROVE  Goal
    <3>1. th'[t].op = th[t].op /\ th'[t].tries = th[t].tries /\ th'[t].pc = "ipc"
      BY <1>2, <1>8, <2>6 DEF HaveProxy, ThreadStates
    <3> QED
      BY <2>2, <2>4, <2>6, <3>1
  <2>7. ASSUME GetFailed(t), th[t].pc \notin {"replied", "answered"}
        PROVE  Goal
    <3>1. "DP_GET_SERVICE_FAILED" \in Answers /\ "DP_GET_SERVICE_FAILED" # "DP_SUCCESS"
      BY DEF Answers, Remote!Answers, Remote!Refusals
    <3>2. th[t].op \notin Repeated => done[t] = 0
      BY <2>1, <2>7 DEF CallOK
    <3> QED
      BY <2>3, <2>7, <3>1, <3>2 DEF GetFailed
  <2>8. ASSUME NEW ret \in Answers, Answered(t, ret), UNCHANGED <<done, answer>>,
               \/ th[t].pc = "ipc" /\ ret # "DP_SUCCESS"
               \/ th[t].pc = "replied" /\ ret \in {"DP_SUCCESS", "DP_BR_DEAD_REPLY"}
        PROVE  Goal
    <3>1. /\ th'[t].op = th[t].op /\ th'[t].tries = th[t].tries /\ th'[t].pc = "answered"
          /\ th'[t].ret = ret
      BY <1>2, <1>8, <2>8 DEF Answered, ThreadStates
    <3>2. "DP_SUCCESS" \notin Remote!Refusals /\ "DP_BR_DEAD_REPLY" \notin Remote!Refusals
      BY DEF Remote!Refusals
    <3>3. done[t] <= th[t].tries + 1
      BY <2>1, <2>8 DEF CallOK
    <3>4. ret = "DP_SUCCESS" => done[t] > 0
      BY <2>1, <2>8 DEF CallOK
    <3>5. ret \in Remote!Refusals /\ th[t].op \notin Repeated => done[t] = 0
      BY <2>1, <2>8, <3>2 DEF CallOK
    <3>6. th[t].op \notin Repeated => th[t].tries = 0
      BY <2>1 DEF CallOK
    <3>7. CallOK(t)'
      BY <2>8, <3>1, <3>3, <3>4, <3>5, <3>6 DEF CallOK
    <3> QED
      BY <2>2, <2>8, <3>1, <3>7
  <2>9. starts \in Nat /\ dpProxy \in Nat
    BY Bounds DEF TypeInv
  <2>10. CASE GetDeviceProfileService(t)
    <3>1. CASE Goto(t, "load")
      <4>1. th'[t].op = th[t].op /\ th'[t].tries = th[t].tries /\ th'[t].pc = "load"
        BY <1>2, <3>1 DEF Goto, ThreadStates
      <4> QED
        BY <2>2, <2>4, <2>10, <4>1 DEF GetDeviceProfileService, history
    <3> QED
      BY <2>6, <2>9, <2>10, <3>1 DEF GetDeviceProfileService, history
  <2>11. CASE LoadDeviceProfileService(t)
    BY <2>5, <2>7, <2>11 DEF LoadDeviceProfileService, history
  <2>12. CASE WakeOrTimeOut(t)
    BY <2>5, <2>7, <2>12 DEF WakeOrTimeOut, history
  <2>13. CASE Loaded(t)
    BY <2>6, <2>7, <2>9, <2>13 DEF Loaded, history
  <2>14. CASE Refuse(t)
    <3>1. {"DP_ERR_DEAD_OBJECT", "DP_BR_DEAD_REPLY", "DP_SERVICE_STOPPED", "DP_SERVICE_ON_IDLE",
           "DP_LOAD_SERVICE_ERR"} \subseteq Answers
      BY DEF Answers, Remote!Answers, Remote!Refusals
    <3> QED
      BY <2>8, <2>14, <3>1 DEF Refuse, history
  <2>15. CASE Serve(t) /\ done' = done
    <3>1. "ERROR" \in Answers
      BY DEF Answers, Remote!Answers, Remote!Refusals
    <3>2. done'[t] # done[t] + 1
      BY <2>1, <2>15
    <3>3. Answered(t, "ERROR") /\ th[t].pc = "ipc" /\ UNCHANGED <<done, answer>>
      BY <1>8, <2>1, <2>15, <3>2 DEF Serve
    <3> QED
      BY <2>8, <3>1, <3>3
  <2>16. CASE Serve(t) /\ done' # done
    <3>1. /\ th[t].pc = "ipc" /\ done' = [done EXCEPT ![t] = done[t] + 1] /\ answer' = answer
          /\ th' = [th EXCEPT ![t].pc = "replied", ![t].ret = "DP_SUCCESS"]
      BY <1>8, <2>16 DEF Serve
    <3>2. th'[t].op = th[t].op /\ th'[t].tries = th[t].tries /\ th'[t].pc = "replied"
      BY <1>2, <3>1 DEF ThreadStates
    <3>3. done'[t] = done[t] + 1 /\ done[t] <= th[t].tries /\ (th[t].op \notin Repeated => th[t].tries = 0)
      BY <2>1, <3>1 DEF CallOK
    <3>4. CallOK(t)'
      BY <2>1, <3>2, <3>3 DEF CallOK
    <3>5. CallsOK'
      BY <1>6, <2>1, <3>1, <3>4
    <3>6. openCalls' = openCalls
      BY <1>3, <1>4, <3>2 DEF openCalls
    <3>7. openCalls[t] # None /\ (openCalls[t] = "once" => th[t].op \notin Repeated)
      BY <1>8, <2>1, OpenCalls, NoneAssumption
    <3>8. th[t].tries <= MaxRetries
      BY <1>2, Bounds DEF ThreadStates
    <3>9. done[t] < IF openCalls[t] = "once" THEN 1 ELSE MaxRetries + 1
      BY <2>1, <3>3, <3>7, <3>8, Bounds
    <3>10. Remote!Execute(t)
      BY <3>1, <3>6, <3>7, <3>9 DEF Remote!Execute
    <3> QED
      BY <2>1, <3>5, <3>10 DEF Remote!Next
  <2>17. CASE Reply(t)
    <3>1. "DP_BR_DEAD_REPLY" \in Answers /\ "DP_SUCCESS" \in Answers
      BY DEF Answers, Remote!Answers, Remote!Refusals
    <3> QED
      BY <1>2, <2>8, <2>17, <3>1 DEF Reply, Shape, history
  <2>18. CASE Returned(t)
    <3>1. /\ th[t].ret \in Answers /\ (th[t].ret = "DP_SUCCESS" => done[t] > 0)
          /\ th[t].ret \in Remote!Refusals /\ th[t].op \notin Repeated => done[t] = 0
      BY <2>1, <2>18 DEF CallOK, Returned
    <3> QED
      BY <2>3, <2>18, <3>1 DEF Returned
  <2>19. CASE RetryClientRequest(t)
    <3>1. th'[t].op = th[t].op /\ th'[t].tries = th[t].tries + 1 /\ th'[t].pc = "get"
      BY <1>2, <2>19 DEF RetryClientRequest, ThreadStates
    <3>2. /\ UNCHANGED <<done, answer>> /\ th[t].op \in Repeated /\ th[t].pc = "answered"
      BY <2>19 DEF RetryClientRequest, history
    <3>3. done[t] <= th[t].tries + 1
      BY <2>1, <3>2 DEF CallOK
    <3>4. CallOK(t)'
      BY <2>1, <3>1, <3>2, <3>3 DEF CallOK
    <3> QED
      BY <2>2, <3>1, <3>2, <3>4
  <2>20. th[t].pc \notin {"check", "lock"}
    BY <1>2, <1>8 DEF Shape
  <2> QED
    BY <1>8, <2>10, <2>11, <2>12, <2>13, <2>14, <2>15, <2>16, <2>17, <2>18, <2>19, <2>20
       DEF Step, Check, LockCallback, CacheListener, SendSubscribeInfosToService, Subscribed
<1> QED
  BY <1>7, <1>8

\* The beginning of a call, and what samgr and the service do.
LEMMA CallsBegin ==
    ASSUME TypeInv, CallsOK,
           \/ \E u \in Users : Request(u) \/ Subscribe(u) \/ UnSubscribe(u)
           \/ OnAddSystemAbility \/ Outside \/ UNCHANGED vars
    PROVE  CallsOK' /\ [Remote!Next]_(Remote!vars)
PROOF
<1> DEFINE Goal == CallsOK' /\ [Remote!Next]_(Remote!vars)
<1> SUFFICES Goal
  OBVIOUS
<1>1. Users \subseteq Threads /\ th \in [Threads -> ThreadStates] /\ None \notin Requests
  BY NoneAssumption DEF TypeInv, Threads
<1>2. ASSUME UNCHANGED <<done, answer>>,
             \A u \in Users : th'[u] = th[u] \/ (th[u].op \notin Requests /\ th'[u].op \notin Requests)
      PROVE  Goal
  <2>1. openCalls' = openCalls
    BY <1>2, RequestOps DEF openCalls
  <2>2. ASSUME NEW u \in Users, th'[u].op \in Requests PROVE CallOK(u)'
    <3>1. th'[u] = th[u] /\ CallOK(u) /\ done' = done
      BY <1>2, <2>2 DEF CallsOK
    <3> QED
      BY <3>1 DEF CallOK
  <2>3. CallsOK'
    BY <1>2, <2>2 DEF CallsOK
  <2> QED
    BY <1>2, <2>1, <2>3 DEF Remote!vars
<1>3. CASE \E u \in Users : Request(u)
  <2>1. PICK u \in Users, op \in Requests : th[u] = Idle /\ th' = [th EXCEPT ![u] = Thread("get", op, None)]
              /\ done' = [done EXCEPT ![u] = 0] /\ answer' = [answer EXCEPT ![u] = None]
    BY <1>3 DEF Request
  <2>2. /\ Thread("get", op, None).op = op /\ Thread("get", op, None).pc = "get"
        /\ Thread("get", op, None).tries = 0 /\ Idle.op = None
    BY DEF Thread, Idle
  <2>3. th'[u] = Thread("get", op, None) /\ \A w \in Users \ {u} : th'[w] = th[w]
    BY <1>1, <2>1
  <2>4. done' \in [Users -> Nat] /\ done'[u] = 0 /\ \A w \in Users \ {u} : done'[w] = done[w]
    BY <2>1 DEF CallsOK
  <2>5. ASSUME NEW w \in Users, th'[w].op \in Requests PROVE CallOK(w)'
    <3>1. CASE w = u
      BY <2>2, <2>3, <2>4, <3>1 DEF CallOK
    <3>2. CASE w # u
      BY <2>3, <2>4, <2>5, <3>2 DEF CallsOK, CallOK
    <3> QED
      BY <3>1, <3>2
  <2>6. CallsOK'
    BY <2>4, <2>5 DEF CallsOK
  <2>7. openCalls[u] = None
    BY <1>1, <2>1, <2>2, OpenCalls
  <2>8. \E kind \in {"once", "retried"} : openCalls' = [openCalls EXCEPT ![u] = kind]
    <3>1. CASE op \in Repeated
      BY <2>2, <2>3, <3>1 DEF openCalls
    <3>2. CASE op \notin Repeated
      <4>1. openCalls' = [openCalls EXCEPT ![u] = "once"]
        BY <2>2, <2>3, <3>2, RequestOps DEF openCalls
      <4> QED
        BY <4>1
    <3> QED
      BY <3>1, <3>2
  <2>9. Remote!Call(u)
    BY <2>1, <2>7, <2>8 DEF Remote!Call
  <2> QED
    BY <2>6, <2>9 DEF Remote!Next
<1>4. CASE \E u \in Users : Subscribe(u) \/ UnSubscribe(u)
  <2>1. PICK u \in Users, call \in Subscriptions \cup UnSubscriptions :
              call.sub \in Subs /\ th[u] = Idle /\ th' = [th EXCEPT ![u] = call] /\ UNCHANGED <<done, answer>>
    BY <1>4 DEF Subscribe, UnSubscribe, history
  <2>2. call.op \notin Requests
    BY <2>1, Beginnings, RequestOps
  <2>3. Idle.op \notin Requests
    BY <1>1 DEF Idle, Thread
  <2> QED
    BY <1>1, <1>2, <2>1, <2>2, <2>3
<1>5. CASE OnAddSystemAbility
  <2>1. \A u \in Users : u \notin Tasks
    BY ClientAssumption DEF Tasks, Subs
  <2>2. \A u \in Users : th'[u] = th[u]
    BY <1>1, <1>5, <2>1 DEF OnAddSystemAbility
  <2> QED
    BY <1>2, <1>5, <2>2 DEF OnAddSystemAbility, history
<1>6. CASE Outside \/ UNCHANGED vars
  BY <1>2, <1>6 DEF Outside, OnStart, PostInit, OnStop, Dies, OnServiceDied, LoadSystemAbilitySuccess,
     LoadSystemAbilityFail, vars, history
<1> QED
  BY <1>3, <1>4, <1>5, <1>6

\* For every death of the service between two steps of a call, a request that is not
\* repeated is carried out at most once, a repeated one at most once per attempt; a
\* success was carried out, and a refusal of a call that is not repeated was not.  (The
\* fairness of RemoteCall, that every call returns, is checked by TLC only.)
THEOREM CallsAsPromised == Spec => Remote!Init /\ [][Remote!Next]_(Remote!vars)
PROOF
<1>1. Init => CallsOK /\ Remote!Init
  <2> SUFFICES ASSUME Init PROVE CallsOK /\ Remote!Init
    OBVIOUS
  <2>1. \A u \in Users : th[u].op = None
    BY DEF Init, Idle, Thread, Threads
  <2>2. openCalls = [u \in Users |-> None]
    BY <2>1, NoneAssumption, RequestOps DEF openCalls
  <2>3. CallsOK
    BY <2>1, NoneAssumption DEF Init, CallsOK
  <2> QED
    BY <2>2, <2>3 DEF Init, Remote!Init
<1>2. TypeInv /\ CallsOK /\ [Next]_vars => CallsOK' /\ [Remote!Next]_(Remote!vars)
  <2> SUFFICES ASSUME TypeInv, CallsOK, [Next]_vars PROVE CallsOK' /\ [Remote!Next]_(Remote!vars)
    OBVIOUS
  <2>1. CASE \E t \in Threads : Step(t)
    BY <2>1, CallsStep
  <2>2. CASE ~\E t \in Threads : Step(t)
    BY <2>2, CallsBegin DEF Next, Outside
  <2> QED
    BY <2>1, <2>2
<1> QED
  BY <1>1, <1>2, TypesAndLocks, PTL DEF Spec

(***************************************************************************)
(* The subscriptions after a restart of the service.                       *)
(***************************************************************************)
\* A call whose outcome the service will remember as it is answered, and one that ends
\* with an error.
Served(t) == \/ th[t].pc = "replied" /\ Running(th[t].proxy)
             \/ th[t].pc = "answered" /\ th[t].ret = "DP_SUCCESS"
Lost(t) == \/ th[t].pc = "replied" /\ ~Running(th[t].proxy)
           \/ th[t].pc = "answered" /\ th[t].ret # "DP_SUCCESS"
\* The threads of OnAddSystemAbility. The one that sends the list holds its lock meanwhile,
\* and it waits for a load only when the service died after it was started.
TasksOK ==
    /\ \A t \in Tasks : th[t].pc # "idle" =>
           th[t].sub = t /\ th[t].op = (IF t = "profile" THEN "send" ELSE "subscribe")
    /\ \A u \in Users : th[u].op # "send"
    /\ th["profile"].pc \in Calling => th["profile"].sent = cache["profile"]
    /\ alive /\ th["profile"].pc \in {"load", "waiting", "loaded"} => announced \/ ~listens
\* A thread that is to subscribe s again has not reached the service.
Renewing(s) == announced \/ ~listens \/ th[s].pc \in {"check", "get", "load", "waiting", "loaded", "lock", "ipc"}
After(t) == IF th[t].op = "subscribe" THEN {"callback"} ELSE {}
CallbackFits(s) ==
    \/ <<s, "callback">> \in failed
    \/ held[s] = {} /\ Renewing(s)
    \/ \E t \in Threads : lock[s] = t /\ (Lost(t) \/ (Served(t) /\ held[s] = After(t)))
    \/ (\A t \in Threads : lock[s] = t => th[t].pc = "ipc") /\ held[s] = cache[s]
Profiling(u) == th[u].sub = "profile" /\ th[u].op \in {"subscribe", "unsubscribe"}
ListenerFits(u) ==
    \/ <<"profile", u>> \in failed
    \/ u \notin held["profile"] /\ Renewing("profile")
    \/ Profiling(u) /\ (Lost(u) \/ th[u].pc = "ipc")
    \/ Lost("profile") /\ u \in th["profile"].sent
    \/ u \in held["profile"] <=> u \in cache["profile"]
\* The list is changed before the service is called, and by its user only.
Listed == \A u \in Users : Profiling(u) /\ th[u].pc = "ipc" => (u \in cache["profile"] <=> th[u].op = "subscribe")
RestoreInv == /\ TasksOK /\ Listed
              /\ ~alive => held = [s \in Subs |-> {}]
              /\ alive => /\ \A s \in Tasks \ {"profile"} : CallbackFits(s)
                          /\ \A u \in Users : ListenerFits(u)

LEMMA TaskNames == /\ "profile" \in Tasks /\ Tasks \subseteq Subs /\ Tasks \subseteq Threads /\ Users \subseteq Threads
                   /\ Users \cap Tasks = {} /\ None \notin Threads
PROOF
  BY ClientAssumption, NoneAssumption DEF Tasks, Threads, Subs

\* What a step of a thread leaves alone.
LEMMA StepAlone ==
    ASSUME TypeInv, NEW t \in Threads, Step(t)
    PROVE  /\ UNCHANGED <<alive, starts>> /\ failed \subseteq failed'
           /\ \A i : Running(i)' <=> Running(i)
           /\ alive /\ (announced \/ ~listens) => announced' \/ ~listens'
           /\ \A u \in Threads \ {t} : th'[u] = th[u]
           /\ th[t].pc # "idle"
PROOF
<1>1. UNCHANGED <<alive, starts>> /\ failed \subseteq failed'
  BY DEF Step, Check, GetDeviceProfileService, LoadDeviceProfileService, WakeOrTimeOut, Loaded,
     LockCallback, CacheListener, SendSubscribeInfosToService, Refuse, Serve, Reply, Subscribed, Returned,
     RetryClientRequest, service, history, GetFailed, End
<1>2. alive /\ (announced \/ ~listens) => announced' \/ ~listens'
  BY DEF Step, Check, GetDeviceProfileService, LoadDeviceProfileService, WakeOrTimeOut, Loaded,
     LockCallback, CacheListener, SendSubscribeInfosToService, Refuse, Serve, Reply, Subscribed, Returned,
     RetryClientRequest, SubscribeDeviceProfileSA
<1>3. \A u \in Threads \ {t} : th'[u] = th[u]
  BY ThreadStep DEF TypeInv
<1> QED
  BY <1>1, <1>2, <1>3, ThreadStep DEF Running

\* Where a thread goes before it is at the service, and where it ends.
LEMMA Onward ==
    ASSUME TypeInv, NEW t \in Threads, Step(t), th[t].pc \notin Calling, th[t].op \in {"subscribe", "unsubscribe", "send"}
    PROVE  \/ th[t].pc = "check" /\ Check(t) /\ lock[th[t].sub] = None /\ cache[th[t].sub] = {} /\ th'[t] = Idle
              /\ UNCHANGED <<held, cache, lock, failed>>
           \/ th'[t] = Idle /\ (\E ret : ret # "DP_SUCCESS" /\ End(t, ret)) /\ UNCHANGED <<held, cache, lock>>
              /\ (th[t].op = "send" => th[t].pc \in {"load", "waiting", "loaded"})
           \/ th'[t].pc \in {"get", "load", "waiting", "loaded", "lock"} /\ UNCHANGED <<held, cache, lock, failed>>
              /\ (th'[t].pc \in {"load", "waiting", "loaded"} => ~alive \/ th[t].pc \in {"load", "waiting", "loaded"})
           \/ LockCallback(t) \/ CacheListener(t) \/ SendSubscribeInfosToService(t)
PROOF
<1>1. th \in [Threads -> ThreadStates] /\ th[t] \in ThreadStates /\ th[t].op \notin Requests
  BY RequestOps DEF TypeInv
<1>2. ASSUME NEW pc, Goto(t, pc) PROVE th'[t].pc = pc
  BY <1>1, <1>2 DEF Goto, ThreadStates
<1>3. ASSUME NEW i, HaveProxy(t, i) PROVE th'[t].pc = "lock"
  BY <1>1, <1>3 DEF HaveProxy, ThreadStates
<1>4. ASSUME NEW ret, End(t, ret) PROVE th'[t] = Idle
  BY <1>1, <1>4 DEF End
<1>5. CASE Check(t)
  BY <1>1, <1>2, <1>5 DEF Check, service, history
<1>6. CASE GetDeviceProfileService(t)
  BY <1>2, <1>3, <1>6 DEF GetDeviceProfileService, service, history
<1>7. CASE LoadDeviceProfileService(t)
  BY <1>2, <1>4, <1>7 DEF LoadDeviceProfileService, GetFailed, service, history
<1>8. CASE WakeOrTimeOut(t)
  BY <1>2, <1>4, <1>8 DEF WakeOrTimeOut, GetFailed, service, history
<1>9. CASE Loaded(t)
  BY <1>3, <1>4, <1>9 DEF Loaded, GetFailed, service, history
<1> QED
  BY <1>5, <1>6, <1>7, <1>8, <1>9 DEF Step, Calling, Refuse, Serve, Reply, Subscribed, Returned, RetryClientRequest

\* What a call does at the service, and with the answer.
LEMMA AtService ==
    ASSUME TypeInv, NEW t \in Threads, Step(t), th[t].pc \in Calling, th[t].op \in {"subscribe", "unsubscribe", "send"}
    PROVE  \/ /\ Lost(t)' /\ UNCHANGED <<held, cache, lock, failed>>
              /\ th'[t].op = th[t].op /\ th'[t].sub = th[t].sub /\ th'[t].sent = th[t].sent
              /\ th[t].pc # "answered" /\ ~Served(t)
           \/ /\ th[t].pc = "ipc" /\ Served(t)' /\ UNCHANGED <<cache, lock, failed>>
              /\ held' = [held EXCEPT ![th[t].sub] = Holding(t)]
              /\ th'[t].op = th[t].op /\ th'[t].sub = th[t].sub /\ th'[t].sent = th[t].sent
           \/ /\ th[t].pc = "replied" /\ Served(t) /\ Served(t)' /\ UNCHANGED <<held, cache, lock, failed>>
              /\ th'[t].op = th[t].op /\ th'[t].sub = th[t].sub /\ th'[t].sent = th[t].sent
           \/ /\ th[t].pc = "answered" /\ th'[t] = Idle /\ held' = held
              /\ cache' = [cache EXCEPT ![th[t].sub] = Keep(t)] /\ lock' = Release(t) /\ End(t, th[t].ret)
PROOF
<1>1. th \in [Threads -> ThreadStates] /\ th[t] \in ThreadStates /\ th[t].op \notin Requests /\ Shape(t)
      /\ th[t].op \notin Repeated
  BY RequestOps DEF TypeInv
<1>2. UNCHANGED <<alive, starts>> /\ \A i : Running(i)' <=> Running(i)
  BY StepAlone
<1>3. ASSUME NEW ret, Answered(t, ret)
      PROVE  /\ th'[t].pc = "answered" /\ th'[t].op = th[t].op /\ th'[t].sub = th[t].sub /\ th'[t].sent = th[t].sent
             /\ th'[t].ret = IF ret = "DP_SUCCESS" THEN ret ELSE "ERROR"
  BY <1>1, <1>3 DEF Answered, ThreadStates
<1>4. CASE Refuse(t)
  <2>1. PICK ret : ret # "DP_SUCCESS" /\ Answered(t, ret)
    BY <1>4 DEF Refuse
  <2>2. Lost(t)'
    BY <1>3, <2>1 DEF Lost
  <2> QED
    BY <1>3, <1>4, <2>1, <2>2 DEF Refuse, Served, service, history
<1>5. CASE Serve(t)
  <2>1. CASE Answered(t, "ERROR") /\ UNCHANGED held
    <3>1. Lost(t)'
      BY <1>3, <2>1 DEF Lost
    <3> QED
      BY <1>3, <1>5, <2>1, <3>1 DEF Serve, Served
  <2>2. CASE held' = [held EXCEPT ![th[t].sub] = Holding(t)]
             /\ th' = [th EXCEPT ![t].pc = "replied", ![t].ret = "DP_SUCCESS"]
    <3>1. th'[t].pc = "replied" /\ th'[t].proxy = th[t].proxy
          /\ th'[t].op = th[t].op /\ th'[t].sub = th[t].sub /\ th'[t].sent = th[t].sent
      BY <1>1, <2>2 DEF ThreadStates
    <3>2. Served(t)'
      BY <1>2, <1>5, <3>1 DEF Served, Serve, Running
    <3> QED
      BY <1>5, <2>2, <3>1, <3>2 DEF Serve
  <2> QED
    BY <1>1, <1>5, <2>1, <2>2 DEF Serve
<1>6. CASE Reply(t)
  <2>1. th[t].pc = "replied" /\ th[t].ret = "DP_SUCCESS"
    BY <1>1, <1>6 DEF Reply, Shape
  <2>2. CASE Running(th[t].proxy)
    <3>1. Served(t) /\ Served(t)'
      BY <1>3, <1>6, <2>1, <2>2 DEF Reply, Served
    <3> QED
      BY <1>3, <1>6, <2>1, <3>1 DEF Reply, service, history
  <2>3. CASE ~Running(th[t].proxy)
    <3>1. Lost(t)' /\ ~Served(t)
      BY <1>3, <1>6, <2>1, <2>3 DEF Reply, Lost, Served
    <3> QED
      BY <1>3, <1>6, <2>1, <3>1 DEF Reply, service, history
  <2> QED
    BY <2>2, <2>3
<1>7. CASE Subscribed(t)
  BY <1>1, <1>7 DEF Subscribed, End, service
<1> QED
  BY <1>1, <1>4, <1>5, <1>6, <1>7 DEF Step, Calling, Check, GetDeviceProfileService, LoadDeviceProfileService,
     WakeOrTimeOut, Loaded, LockCallback, CacheListener, SendSubscribeInfosToService, Returned, RetryClientRequest

\* The tasks.
LEMMA TasksStep ==
    ASSUME TypeInv, LocksOK, TasksOK, NEW t \in Threads, Step(t)
    PROVE  TasksOK'
PROOF
<1>1. th \in [Threads -> ThreadStates] /\ Shape(t) /\ Idle.pc = "idle" /\ Idle.op = None /\ lock \in [Subs -> Threads \cup {None}]
  BY DEF TypeInv, Idle, Thread
<1>2. PICK y \in ThreadStates :
           /\ y.op = th[t].op /\ y.sub = th[t].sub /\ y.pc \notin {"idle", "check"}
           /\ th' = [th EXCEPT ![t] = y] \/ th' = [th EXCEPT ![t] = Idle]
  BY ThreadStep
<1>3. th'[t] = Idle \/ (th'[t].op = th[t].op /\ th'[t].sub = th[t].sub)
  BY <1>1, <1>2
<1>4. /\ \A u \in Threads \ {t} : th'[u] = th[u]
      /\ UNCHANGED <<alive, starts>> /\ th[t].pc # "idle" /\ (alive /\ (announced \/ ~listens) => announced' \/ ~listens')
  BY StepAlone
<1>5. \A s \in Tasks : th'[s].pc # "idle" => th'[s].sub = s /\ th'[s].op = (IF s = "profile" THEN "send" ELSE "subscribe")
  BY <1>1, <1>3, <1>4, TaskNames DEF TasksOK
<1>6. \A u \in Users : th'[u].op # "send"
  BY <1>1, <1>3, <1>4, TaskNames, NoneAssumption DEF TasksOK
<1>7. CASE t = "profile"
  <2>1. th[t].op = "send" /\ th[t].sub = "profile"
    BY <1>4, <1>7, TaskNames DEF TasksOK
  <2>2. CASE th[t].pc \in Calling
    <3>1. cache'["profile"] = cache["profile"]
      <4>1. CASE cache' = cache
        BY <4>1
      <4>2. CASE cache' = [cache EXCEPT ![th[t].sub] = Keep(t)]
        <5>1. Keep(t) = cache["profile"]
          BY <2>1 DEF Keep
        <5> QED
          BY <2>1, <4>2, <5>1, TaskNames DEF TypeInv
      <4> QED
        BY <2>1, <2>2, <4>1, <4>2, AtService
    <3>2. th'[t] = Idle \/ (th'[t].pc \in {"answered", "replied"} /\ th'[t].sent = th[t].sent)
      BY <2>1, <2>2, AtService DEF Lost, Served
    <3> QED
      BY <1>1, <1>5, <1>6, <1>7, <2>2, <3>1, <3>2 DEF TasksOK, Calling
  <2>3. CASE th[t].pc \notin Calling
    <3>1. CASE SendSubscribeInfosToService(t)
      <4>1. cache' = cache /\ (th'[t] = Idle \/ (th'[t].pc = "ipc" /\ th'[t].sent = cache["profile"]))
        BY <1>1, <3>1 DEF SendSubscribeInfosToService, ThreadStates
      <4> QED
        BY <1>1, <1>5, <1>6, <1>7, <4>1 DEF TasksOK, Calling
    <3>2. th'[t] = Idle \/ th'[t].pc \in {"get", "load", "waiting", "loaded", "lock"} \/ SendSubscribeInfosToService(t)
      BY <2>1, <2>3, Onward DEF LockCallback, CacheListener
    <3>3. CASE th'[t] = Idle
      BY <1>1, <1>5, <1>6, <1>7, <3>3 DEF TasksOK, Calling
    <3>4. CASE th'[t].pc \in {"get", "load", "waiting", "loaded", "lock"}
      <4>1. th'[t].pc \in {"load", "waiting", "loaded"} => ~alive \/ th[t].pc \in {"load", "waiting", "loaded"}
        <5>1. SendSubscribeInfosToService(t) => th'[t].pc \in {"idle", "ipc"}
          BY <1>1 DEF SendSubscribeInfosToService, ThreadStates
        <5>2. ~LockCallback(t) /\ ~CacheListener(t)
          BY <2>1 DEF LockCallback, CacheListener
        <5> QED
          BY <1>1, <2>1, <2>3, <3>4, <5>1, <5>2, Onward
      <4> QED
        BY <1>4, <1>5, <1>6, <1>7, <3>4, <4>1 DEF TasksOK, Calling
    <3> QED
      BY <3>1, <3>2, <3>3, <3>4
  <2> QED
    BY <2>2, <2>3
<1>8. CASE t # "profile"
  <2>1. th'["profile"] = th["profile"]
    BY <1>4, <1>8, TaskNames
  <2>2. ASSUME th["profile"].pc \in Calling PROVE cache'["profile"] = cache["profile"]
    <3>1. th["profile"].op = "send" /\ th["profile"].sub = "profile"
      BY <2>2, TaskNames DEF TasksOK, Calling
    <3>2. lock["profile"] = "profile" /\ "profile" # None
      BY <2>2, <3>1, TaskNames DEF LocksOK, Locking
    <3>3. CASE cache' = cache
      BY <3>3
    <3>4. CASE Subscribed(t)
      <4>1. th[t].sub \in Subs /\ cache' = [cache EXCEPT ![th[t].sub] = Keep(t)]
        BY <1>1, <3>4 DEF Subscribed, Shape, Actions
      <4>2. th[t].sub = "profile" => Keep(t) = cache["profile"]
        BY DEF Keep
      <4> QED
        BY <4>1, <4>2, TaskNames DEF TypeInv
    <3>5. ~CacheListener(t)
      BY <3>2 DEF CacheListener
    <3> QED
      BY <3>3, <3>4, <3>5 DEF Step, Check, GetDeviceProfileService, LoadDeviceProfileService, WakeOrTimeOut, Loaded,
         LockCallback, SendSubscribeInfosToService, Refuse, Serve, Reply, Returned, RetryClientRequest
  <2> QED
    BY <1>4, <1>5, <1>6, <2>1, <2>2 DEF TasksOK
<1> QED
  BY <1>7, <1>8

\* A callback of which nothing changes but that another thread may come.
LEMMA CallbackFrame ==
    ASSUME NEW s, CallbackFits(s), failed \subseteq failed', Renewing(s) => Renewing(s)',
           held'[s] = held[s], cache'[s] = cache[s], lock'[s] = lock[s],
           \A i : Running(i)' <=> Running(i), \A t \in Threads : lock[s] = t => th'[t] = th[t]
    PROVE  CallbackFits(s)'
PROOF
<1>1. \A t \in Threads : lock[s] = t => (Lost(t)' <=> Lost(t)) /\ (Served(t)' <=> Served(t)) /\ After(t)' = After(t)
  BY DEF Lost, Served, After
<1> QED
  BY <1>1 DEF CallbackFits

LEMMA CallbackStep ==
    ASSUME TypeInv, LocksOK, TasksOK, alive, NEW s \in Tasks \ {"profile"}, CallbackFits(s), NEW t \in Threads, Step(t)
    PROVE  CallbackFits(s)'
PROOF
<1>1. /\ th \in [Threads -> ThreadStates] /\ Shape(t) /\ lock \in [Subs -> Threads \cup {None}] /\ s \in Subs /\ s \in Threads
      /\ held[s] \subseteq {"callback"} /\ th[t].op \in Actions /\ t # None /\ s # "profile"
  <2>1. th[t].pc # "idle" /\ Items(s) = {"callback"}
    BY StepAlone DEF Items
  <2> QED
    BY <2>1, TaskNames DEF TypeInv, Shape
<1>2. /\ UNCHANGED <<alive, starts>> /\ failed \subseteq failed'
      /\ \A i : Running(i)' <=> Running(i)
      /\ announced \/ ~listens => announced' \/ ~listens'
      /\ \A u \in Threads \ {t} : th'[u] = th[u]
  BY StepAlone
<1>3. CASE lock[s] = t
  <2>1. /\ Locking(t) /\ th[t].sub = s /\ th[t].pc \in Calling /\ th[t].op \in {"subscribe", "unsubscribe"}
        /\ \A u \in Threads : lock[s] = u => u = t
    BY <1>1, <1>3 DEF LocksOK, Locking, Shape
  <2>2. Renewing(s) /\ th[t].pc # "ipc" => Renewing(s)'
    BY <1>1, <1>2, <2>1 DEF Renewing, Calling
  <2>3. CASE Lost(t)' /\ lock' = lock
    BY <1>1, <1>3, <2>3 DEF CallbackFits
  <2>4. CASE /\ th[t].pc = "ipc" /\ Served(t)' /\ lock' = lock /\ held' = [held EXCEPT ![s] = Holding(t)]
             /\ th'[t].op = th[t].op
    <3>1. held'[s] = After(t)'
      BY <1>1, <2>1, <2>4 DEF TypeInv, Holding, After, Item
    <3> QED
      BY <1>1, <1>3, <2>4, <3>1 DEF CallbackFits
  <2>5. CASE /\ th[t].pc = "replied" /\ Served(t) /\ Served(t)' /\ UNCHANGED <<held, cache, lock, failed>>
             /\ th'[t].op = th[t].op
    <3>1. ~Lost(t)
      BY <2>5 DEF Lost, Served
    <3>2. After(t)' = After(t)
      BY <2>5 DEF After
    <3> QED
      BY <1>1, <1>3, <2>1, <2>2, <2>5, <3>1, <3>2 DEF CallbackFits
  <2>6. CASE /\ th[t].pc = "answered" /\ th'[t] = Idle /\ held' = held
             /\ cache' = [cache EXCEPT ![s] = Keep(t)] /\ lock' = Release(t) /\ End(t, th[t].ret)
    <3>1. lock'[s] = None /\ cache'[s] = Keep(t)
      BY <1>1, <1>3, <2>1, <2>6 DEF Release, TypeInv
    <3>2. CASE th[t].ret # "DP_SUCCESS"
      <4>1. <<s, "callback">> \in failed'
        BY <1>1, <2>1, <2>6, <3>2, RequestOps DEF End, Item
      <4> QED
        BY <4>1 DEF CallbackFits
    <3>3. CASE th[t].ret = "DP_SUCCESS"
      <4>1. Keep(t) = After(t) /\ ~Lost(t)
        BY <1>1, <2>1, <2>6, <3>3 DEF Keep, After, Lost
      <4>2. \A u \in Threads : lock'[s] # u
        BY <3>1, TaskNames
      <4> QED
        BY <1>2, <1>3, <2>1, <2>2, <2>6, <3>1, <4>1, <4>2 DEF CallbackFits
    <3> QED
      BY <3>2, <3>3
  <2> QED
    BY <2>1, <2>3, <2>4, <2>5, <2>6, AtService
<1>4. CASE lock[s] # t /\ LockCallback(t) /\ th[t].sub = s
  <2>1. lock[s] = None /\ lock' = [lock EXCEPT ![s] = t] /\ UNCHANGED <<held, cache>> /\ th'[t] = [th[t] EXCEPT !.pc = "ipc"]
    BY <1>1, <1>4 DEF LockCallback, service, Goto
  <2>2. lock'[s] = t /\ th'[t].pc = "ipc"
    BY <1>1, <2>1 DEF ThreadStates
  <2>3. Renewing(s) => Renewing(s)'
    BY <1>1, <1>2, <2>2 DEF Renewing
  <2>4. \A u \in Threads : lock[s] # u
    BY <2>1, TaskNames
  <2> QED
    BY <1>1, <1>2, <2>1, <2>2, <2>3, <2>4 DEF CallbackFits
<1>5. CASE lock[s] # t /\ ~(LockCallback(t) /\ th[t].sub = s)
  <2>1. CASE th[t].sub = s /\ th[t].op \in {"subscribe", "unsubscribe", "send"}
    <3>1. th[t].pc \notin Calling /\ th[t].op # "send"
      BY <1>1, <1>5, <2>1 DEF LocksOK, Locking, Shape
    <3>2. ~CacheListener(t) /\ ~SendSubscribeInfosToService(t)
      BY <1>1, <2>1, <3>1 DEF CacheListener, SendSubscribeInfosToService
    <3>3. CASE th[t].pc = "check" /\ lock[s] = None /\ cache[s] = {} /\ th'[t] = Idle
               /\ UNCHANGED <<held, cache, lock, failed>>
      <4>1. \A u \in Threads : lock[s] # u
        BY <3>3, TaskNames
      <4>2. <<s, "callback">> \in failed \/ held[s] = cache[s]
        BY <3>3, <4>1 DEF CallbackFits
      <4> QED
        BY <3>3, <4>1, <4>2 DEF CallbackFits
    <3>4. CASE \E ret : ret # "DP_SUCCESS" /\ End(t, ret)
      <4>1. <<s, "callback">> \in failed'
        BY <1>1, <2>1, <3>1, <3>4, RequestOps DEF End, Item
      <4> QED
        BY <4>1 DEF CallbackFits
    <3>5. CASE th'[t].pc \in {"get", "load", "waiting", "loaded", "lock"} /\ UNCHANGED <<held, cache, lock, failed>>
      <4>1. Renewing(s) => Renewing(s)'
        BY <1>1, <1>2, <3>5 DEF Renewing
      <4> QED
        BY <1>2, <1>5, <3>5, <4>1, CallbackFrame
    <3> QED
      BY <1>5, <2>1, <3>1, <3>2, <3>3, <3>4, <3>5, Onward
  <2>2. CASE ~(th[t].sub = s /\ th[t].op \in {"subscribe", "unsubscribe", "send"})
    <3>1. t # s
      BY <1>1, <2>2, StepAlone DEF TasksOK
    <3>2. Renewing(s) => Renewing(s)'
      BY <1>1, <1>2, <3>1 DEF Renewing
    <3>3. \/ UNCHANGED <<held, cache, lock>>
          \/ th[t].sub \in Subs \ {s}
          \/ CacheListener(t) /\ UNCHANGED <<held, lock>>
          \/ SendSubscribeInfosToService(t) /\ UNCHANGED <<held, cache>>
      <4>1. CASE th[t].op \in {"subscribe", "unsubscribe", "send"}
        BY <1>1, <2>2, <4>1 DEF Shape
      <4>2. CASE th[t].op \in Requests
        <5>1. ~LockCallback(t) /\ ~Subscribed(t)
          BY <1>1, <4>2 DEF LockCallback, Subscribed, Shape
        <5> QED
          BY <4>2, <5>1 DEF Step, Check, GetDeviceProfileService, LoadDeviceProfileService, WakeOrTimeOut, Loaded,
             CacheListener, SendSubscribeInfosToService, Refuse, Serve, Reply, Returned, RetryClientRequest, service
      <4> QED
        BY <1>1, <4>1, <4>2 DEF Actions
    <3>4. held'[s] = held[s] /\ cache'[s] = cache[s] /\ lock'[s] = lock[s]
      <4>1. CASE UNCHANGED <<held, cache, lock>>
        BY <4>1
      <4>2. CASE CacheListener(t) /\ UNCHANGED <<held, lock>>
        BY <1>1, <4>2 DEF CacheListener, TypeInv
      <4>3. CASE SendSubscribeInfosToService(t) /\ UNCHANGED <<held, cache>>
        BY <1>1, <4>3 DEF SendSubscribeInfosToService
      <4>4. CASE th[t].sub \in Subs \ {s}
        <5>1. held' = held \/ held' = [held EXCEPT ![th[t].sub] = Holding(t)]
          BY DEF Step, Check, GetDeviceProfileService, LoadDeviceProfileService, WakeOrTimeOut, Loaded, LockCallback,
             CacheListener, SendSubscribeInfosToService, Refuse, Serve, Reply, Subscribed, Returned, RetryClientRequest, service
        <5>2. cache' = cache \/ CacheListener(t) \/ cache' = [cache EXCEPT ![th[t].sub] = Keep(t)]
          BY DEF Step, Check, GetDeviceProfileService, LoadDeviceProfileService, WakeOrTimeOut, Loaded, LockCallback,
             SendSubscribeInfosToService, Refuse, Serve, Reply, Subscribed, Returned, RetryClientRequest
        <5>3. lock' = lock \/ lock' = [lock EXCEPT ![th[t].sub] = t] \/ SendSubscribeInfosToService(t) \/ lock' = Release(t)
          BY DEF Step, Check, GetDeviceProfileService, LoadDeviceProfileService, WakeOrTimeOut, Loaded, LockCallback,
             CacheListener, Refuse, Serve, Reply, Subscribed, Returned, RetryClientRequest
        <5>4. held'[s] = held[s]
          BY <1>1, <4>4, <5>1 DEF TypeInv
        <5>5. cache'[s] = cache[s]
          BY <1>1, <4>4, <5>2 DEF TypeInv, CacheListener
        <5>6. lock'[s] = lock[s]
          BY <1>1, <4>4, <5>3 DEF SendSubscribeInfosToService, Release
        <5> QED
          BY <5>4, <5>5, <5>6
      <4> QED
        BY <3>3, <4>1, <4>2, <4>3, <4>4
    <3> QED
      BY <1>2, <1>5, <3>2, <3>4, CallbackFrame
  <2> QED
    BY <2>1, <2>2
<1> QED
  BY <1>3, <1>4, <1>5

\* A listener of which nothing changes.
LEMMA ListenerFrame ==
    ASSUME NEW u \in Users, ListenerFits(u), failed \subseteq failed', Renewing("profile") => Renewing("profile")',
           u \in held'["profile"] <=> u \in held["profile"], u \in cache'["profile"] <=> u \in cache["profile"],
           \A i : Running(i)' <=> Running(i),
           Profiling(u) /\ th[u].pc \in Calling => th'[u] = th[u],
           th["profile"].pc \in Calling => th'["profile"] = th["profile"]
    PROVE  ListenerFits(u)'
PROOF
<1>1. \A t : th'[t] = th[t] => (Lost(t)' <=> Lost(t)) /\ (Profiling(t)' <=> Profiling(t))
  BY DEF Lost, Profiling
<1>2. \A t : Lost(t) => th[t].pc \in Calling
  BY DEF Lost, Calling
<1> QED
  BY <1>1, <1>2 DEF ListenerFits, Calling

\* The thread that sends the list.
LEMMA SenderStep ==
    ASSUME TypeInv, LocksOK, TasksOK, alive, NEW u \in Users, ListenerFits(u), Step("profile")
    PROVE  ListenerFits(u)'
PROOF
<1> DEFINE t == "profile"
<1>1. /\ th \in [Threads -> ThreadStates] /\ lock \in [Subs -> Threads \cup {None}] /\ t \in Threads /\ t \in Subs /\ t # u
      /\ th[t].op = "send" /\ th[t].sub = "profile" /\ th[t].sent \subseteq Users /\ u \in Threads
      /\ held \in [Subs -> SUBSET (Users \cup {"callback"})] /\ cache \in [Subs -> SUBSET (Users \cup {"callback"})]
  <2>1. t \in Threads /\ t \in Tasks /\ t \in Subs /\ u \in Threads /\ t # u
    BY TaskNames
  <2>2. th[t].pc # "idle"
    BY <2>1, StepAlone
  <2> QED
    BY <2>1, <2>2 DEF TypeInv, ThreadStates, TasksOK
<1>2. /\ failed \subseteq failed' /\ \A i : Running(i)' <=> Running(i)
      /\ announced \/ ~listens => announced' \/ ~listens'
      /\ th'[u] = th[u]
  BY <1>1, StepAlone
<1> HIDE DEF t
<1>3. CASE th[t].pc \in Calling
  <2>1. th[t].sent = cache["profile"] /\ lock[t] = t
    BY <1>1, <1>3 DEF TasksOK, LocksOK, Locking, t
  <2>2. ASSUME th[t].pc # "ipc" PROVE Renewing("profile") => Renewing("profile")'
    BY <1>2, <1>3, <2>2 DEF Renewing, Calling, t
  <2>3. (Lost(u)' <=> Lost(u)) /\ (Profiling(u)' <=> Profiling(u))
    BY <1>2 DEF Lost, Profiling
  <2>4. CASE Lost(t)' /\ UNCHANGED <<held, cache, lock, failed>> /\ th'[t].sent = th[t].sent
    <3>1. u \in cache["profile"] => ListenerFits(u)'
      BY <2>1, <2>4 DEF ListenerFits, t
    <3>2. u \notin cache["profile"] /\ u \notin held["profile"] => ListenerFits(u)'
      BY <2>4 DEF ListenerFits
    <3>3. u \notin cache["profile"] /\ u \in held["profile"] => ListenerFits(u)'
      BY <1>2, <2>1, <2>3, <2>4 DEF ListenerFits, t
    <3> QED
      BY <3>1, <3>2, <3>3
  <2>5. CASE th[t].pc = "ipc" /\ UNCHANGED <<cache, lock, failed>> /\ held' = [held EXCEPT ![th[t].sub] = Holding(t)]
    <3>1. held'["profile"] = held["profile"] \cup cache["profile"]
      BY <1>1, <2>1, <2>5 DEF Holding, t
    <3>2. u \in cache["profile"] => ListenerFits(u)'
      BY <2>5, <3>1 DEF ListenerFits
    <3>3. u \notin cache["profile"] => ListenerFits(u)'
      BY <1>2, <2>1, <2>3, <2>5, <3>1 DEF ListenerFits, t
    <3> QED
      BY <3>2, <3>3
  <2>6. CASE /\ th[t].pc = "replied" /\ Served(t) /\ UNCHANGED <<held, cache, lock, failed>>
    <3>1. ~Lost(t)
      BY <2>6 DEF Lost, Served
    <3> QED
      BY <1>2, <2>2, <2>3, <2>6, <3>1 DEF ListenerFits, t
  <2>7. CASE /\ th[t].pc = "answered" /\ th'[t] = Idle /\ held' = held
             /\ cache' = [cache EXCEPT ![th[t].sub] = Keep(t)] /\ End(t, th[t].ret)
    <3>1. cache'["profile"] = cache["profile"]
      BY <1>1, <2>7 DEF Keep, t
    <3>2. CASE th[t].ret # "DP_SUCCESS"
      <4>1. u \in th[t].sent => <<"profile", u>> \in failed'
        BY <1>1, <2>7, <3>2 DEF End
      <4>2. u \in cache["profile"] => ListenerFits(u)'
        BY <2>1, <4>1 DEF ListenerFits
      <4>3. u \notin cache["profile"] => ListenerFits(u)'
        BY <1>2, <2>1, <2>2, <2>3, <2>7, <3>1 DEF ListenerFits, t
      <4> QED
        BY <4>2, <4>3
    <3>3. CASE th[t].ret = "DP_SUCCESS"
      <4>1. ~Lost(t)
        BY <2>7, <3>3 DEF Lost
      <4> QED
        BY <1>2, <2>2, <2>3, <2>7, <3>1, <4>1 DEF ListenerFits, t
    <3> QED
      BY <3>2, <3>3
  <2> QED
    BY <1>1, <1>3, <2>4, <2>5, <2>6, <2>7, AtService DEF t
<1>4. CASE th[t].pc \notin Calling
  <2>1. (Lost(u)' <=> Lost(u)) /\ (Profiling(u)' <=> Profiling(u)) /\ ~Lost(t)
    BY <1>2, <1>4 DEF Lost, Profiling, Calling
  <2>2. CASE cache["profile"] = {} /\ UNCHANGED <<held, cache, failed>>
    BY <1>2, <2>1, <2>2 DEF ListenerFits, t
  <2>3. CASE Renewing("profile")' /\ UNCHANGED <<held, cache>>
    BY <1>2, <2>1, <2>3 DEF ListenerFits, t
  <2>4. CASE SendSubscribeInfosToService(t)
    <3>1. UNCHANGED <<held, cache, failed>>
      BY <2>4 DEF SendSubscribeInfosToService, service, history
    <3>2. cache["profile"] = {} \/ th'[t].pc = "ipc"
      BY <1>1, <2>4 DEF SendSubscribeInfosToService, ThreadStates
    <3> QED
      BY <2>2, <2>3, <3>1, <3>2 DEF Renewing, t
  <2>5. CASE /\ th[t].pc \in {"load", "waiting", "loaded"} /\ UNCHANGED <<held, cache>>
    <3>1. Renewing("profile")'
      BY <1>2, <2>5 DEF Renewing, TasksOK, t
    <3> QED
      BY <2>3, <2>5, <3>1
  <2>6. CASE th'[t].pc \in {"get", "load", "waiting", "loaded", "lock"} /\ UNCHANGED <<held, cache, failed>>
    BY <2>3, <2>6 DEF Renewing, t
  <2>7. ~LockCallback(t) /\ ~CacheListener(t)
    BY <1>1 DEF LockCallback, CacheListener
  <2>8. CASE th[t].pc = "check" /\ Check(t) /\ cache[th[t].sub] = {} /\ UNCHANGED <<held, cache, lock, failed>>
    BY <1>1, <2>2, <2>8
  <2> QED
    BY <1>1, <1>4, <2>4, <2>5, <2>6, <2>7, <2>8, Onward DEF t
<1> QED
  BY <1>3, <1>4

\* A step of another thread, or about something else, changes nothing of a listener.
LEMMA Elsewhere ==
    ASSUME TypeInv, TasksOK, NEW u \in Users, NEW t \in Threads, Step(t), ~(t = u /\ Profiling(u))
    PROVE  /\ u \in cache'["profile"] <=> u \in cache["profile"]
           /\ t # "profile" => (u \in held'["profile"] <=> u \in held["profile"])
PROOF
<1>1. /\ th \in [Threads -> ThreadStates] /\ Shape(t) /\ "profile" \in Subs /\ u \in Threads
      /\ held \in [Subs -> SUBSET (Users \cup {"callback"})] /\ cache \in [Subs -> SUBSET (Users \cup {"callback"})]
      /\ th[t].op \in Actions /\ t \in Users \cup Tasks
  BY StepAlone, TaskNames DEF TypeInv, Shape, Threads
<1>2. u \in cache'["profile"] <=> u \in cache["profile"]
  <2>1. CASE cache' = cache
    BY <2>1
  <2>2. CASE Subscribed(t)
    <3>1. th[t].sub \in Subs /\ cache' = [cache EXCEPT ![th[t].sub] = Keep(t)]
      BY <1>1, <2>2 DEF Subscribed, Shape, Actions
    <3>2. th[t].sub = "profile" => Keep(t) = cache["profile"]
      BY DEF Keep
    <3> QED
      BY <1>1, <3>1, <3>2
  <2>3. CASE CacheListener(t)
    <3>1. t # u
      <4>1. th[t].sub = "profile" /\ th[t].op \in {"subscribe", "unsubscribe"}
        BY <1>1, <2>3 DEF CacheListener
      <4> QED
        BY <4>1 DEF Profiling
    <3> QED
      BY <1>1, <2>3, <3>1 DEF CacheListener
  <2> QED
    BY <2>1, <2>2, <2>3 DEF Step, Check, GetDeviceProfileService, LoadDeviceProfileService, WakeOrTimeOut, Loaded,
       LockCallback, SendSubscribeInfosToService, Refuse, Serve, Reply, Returned, RetryClientRequest
<1>3. ASSUME t # "profile" PROVE u \in held'["profile"] <=> u \in held["profile"]
  <2>1. CASE held' = held
    BY <2>1
  <2>2. CASE /\ th[t].op \notin Requests /\ held' = [held EXCEPT ![th[t].sub] = Holding(t)]
    <3>1. th[t].op \in {"subscribe", "unsubscribe"} /\ th[t].sub \in Subs
      BY <1>1, <1>3, <2>2, StepAlone DEF Shape, Actions, TasksOK
    <3>2. CASE th[t].sub = "profile"
      <4>1. t # u
        BY <3>1, <3>2 DEF Profiling
      <4>2. Holding(t) = IF th[t].op = "subscribe" THEN held["profile"] \cup {t} ELSE held["profile"] \ {t}
        BY <3>1, <3>2 DEF Holding, Item
      <4> QED
        BY <1>1, <2>2, <3>2, <4>1, <4>2
    <3>3. CASE th[t].sub # "profile"
      BY <1>1, <2>2, <3>1, <3>3
    <3> QED
      BY <3>2, <3>3
  <2> QED
    BY <2>1, <2>2 DEF Step, Check, GetDeviceProfileService, LoadDeviceProfileService, WakeOrTimeOut, Loaded,
       LockCallback, CacheListener, SendSubscribeInfosToService, Refuse, Serve, Reply, Subscribed, Returned,
       RetryClientRequest, service
<1> QED
  BY <1>2, <1>3

\* What CacheListener makes of the list.
LEMMA ListChanged ==
    ASSUME TypeInv, NEW u \in Users, CacheListener(u)
    PROVE  \/ End(u, "DP_EXCEED_MAX_SIZE_FAIL") /\ th'[u] = Idle
           \/ /\ th'[u].pc = "ipc" /\ th'[u].op = th[u].op /\ th'[u].sub = th[u].sub
              /\ u \in cache'["profile"] <=> th[u].op = "subscribe"
PROOF
<1>1. /\ th \in [Threads -> ThreadStates] /\ u \in Threads /\ "profile" \in Subs
      /\ cache \in [Subs -> SUBSET (Users \cup {"callback"})]
  BY TaskNames DEF TypeInv
<1>2. CASE End(u, "DP_EXCEED_MAX_SIZE_FAIL")
  BY <1>1, <1>2 DEF End
<1>3. ASSUME Goto(u, "ipc") PROVE th'[u].pc = "ipc" /\ th'[u].op = th[u].op /\ th'[u].sub = th[u].sub
  BY <1>1, <1>3 DEF Goto, ThreadStates
<1>4. CASE th[u].op = "subscribe" /\ cache' = [cache EXCEPT !["profile"] = @ \cup {u}] /\ Goto(u, "ipc")
  <2>1. u \in cache'["profile"]
    BY <1>1, <1>4
  <2> QED
    BY <1>3, <1>4, <2>1
<1>5. CASE th[u].op = "unsubscribe" /\ cache' = [cache EXCEPT !["profile"] = @ \ {u}] /\ Goto(u, "ipc")
  <2>1. u \notin cache'["profile"] /\ th[u].op # "subscribe"
    BY <1>1, <1>5
  <2> QED
    BY <1>3, <1>5, <2>1
<1> QED
  BY <1>2, <1>4, <1>5 DEF CacheListener

\* The list holds what is asked for.
LEMMA ListedStep ==
    ASSUME TypeInv, TasksOK, Listed, NEW t \in Threads, Step(t)
    PROVE  Listed'
PROOF
<1> SUFFICES ASSUME NEW u \in Users, Profiling(u)', th'[u].pc = "ipc"
             PROVE  u \in cache'["profile"] <=> th'[u].op = "subscribe"
  BY DEF Listed
<1>1. th \in [Threads -> ThreadStates] /\ u \in Threads /\ Idle.pc = "idle"
  BY TaskNames DEF TypeInv, Idle, Thread
<1>2. CASE t # u
  <2>1. th'[u] = th[u]
    BY <1>1, <1>2, StepAlone
  <2>2. Profiling(u)
    BY <2>1 DEF Profiling
  <2> QED
    BY <1>2, <2>1, <2>2, Elsewhere DEF Listed
<1>3. CASE t = u
  <2>1. th'[u].op = th[u].op /\ th'[u].sub = th[u].sub
    <3>1. PICK y \in ThreadStates :
               /\ y.op = th[u].op /\ y.sub = th[u].sub
               /\ th' = [th EXCEPT ![u] = y] \/ th' = [th EXCEPT ![u] = Idle]
      BY <1>3, ThreadStep
    <3> QED
      BY <1>1, <3>1
  <2>2. th[u].op \in {"subscribe", "unsubscribe"} /\ th[u].sub = "profile"
    BY <2>1 DEF Profiling
  <2>3. th[u].pc \notin Calling
    BY <1>1, <1>3, <2>2, AtService DEF Lost, Served
  <2>4. ~LockCallback(u) /\ ~SendSubscribeInfosToService(u)
    BY <2>2 DEF LockCallback, SendSubscribeInfosToService
  <2>5. CacheListener(u)
    BY <1>1, <1>3, <2>2, <2>3, <2>4, Onward
  <2> QED
    BY <1>1, <2>1, <2>5, ListChanged
<1> QED
  BY <1>2, <1>3

\* The user of the listener.
LEMMA ListenerOwnStep ==
    ASSUME TypeInv, Listed, alive, NEW u \in Users, ListenerFits(u), Step(u), Profiling(u)
    PROVE  ListenerFits(u)'
PROOF
<1>1. /\ th \in [Threads -> ThreadStates] /\ lock \in [Subs -> Threads \cup {None}] /\ "profile" \in Threads /\ "profile" \in Subs
      /\ u \in Threads /\ u # "profile" /\ th[u].op \in {"subscribe", "unsubscribe"} /\ th[u].sub = "profile"
      /\ held \in [Subs -> SUBSET (Users \cup {"callback"})] /\ cache \in [Subs -> SUBSET (Users \cup {"callback"})]
  BY TaskNames DEF TypeInv, Profiling
<1>2. /\ failed \subseteq failed' /\ \A i : Running(i)' <=> Running(i)
      /\ announced \/ ~listens => announced' \/ ~listens'
      /\ th'["profile"] = th["profile"]
  BY <1>1, StepAlone
<1>3. (Renewing("profile") => Renewing("profile")') /\ (Lost("profile")' <=> Lost("profile"))
  BY <1>2 DEF Renewing, Lost
<1>4. CASE th[u].pc \in Calling
  <2>1. CASE Lost(u)' /\ th'[u].op = th[u].op /\ th'[u].sub = th[u].sub
    BY <1>1, <2>1 DEF ListenerFits, Profiling
  <2>2. CASE th[u].pc = "ipc" /\ UNCHANGED <<cache, lock, failed>> /\ held' = [held EXCEPT ![th[u].sub] = Holding(u)]
    <3>1. held'["profile"] = IF th[u].op = "subscribe" THEN held["profile"] \cup {u} ELSE held["profile"] \ {u}
      BY <1>1, <2>2 DEF Holding, Item
    <3>2. u \in cache["profile"] <=> th[u].op = "subscribe"
      BY <2>2 DEF Listed
    <3> QED
      BY <1>1, <2>2, <3>1, <3>2 DEF ListenerFits
  <2>3. CASE th[u].pc = "replied" /\ Served(u) /\ UNCHANGED <<held, cache, lock, failed>>
    <3>1. ~Lost(u)
      BY <2>3 DEF Lost, Served
    <3> QED
      BY <1>2, <1>3, <2>3, <3>1 DEF ListenerFits
  <2>4. CASE /\ th[u].pc = "answered" /\ th'[u] = Idle /\ held' = held
             /\ cache' = [cache EXCEPT ![th[u].sub] = Keep(u)] /\ End(u, th[u].ret)
    <3>1. cache'["profile"] = cache["profile"]
      BY <1>1, <2>4 DEF Keep
    <3>2. CASE th[u].ret # "DP_SUCCESS"
      <4>1. <<"profile", u>> \in failed'
        BY <1>1, <2>4, <3>2, RequestOps DEF End, Item
      <4> QED
        BY <4>1 DEF ListenerFits
    <3>3. CASE th[u].ret = "DP_SUCCESS"
      <4>1. ~Lost(u)
        BY <2>4, <3>3 DEF Lost
      <4> QED
        BY <1>2, <1>3, <2>4, <3>1, <4>1 DEF ListenerFits
    <3> QED
      BY <3>2, <3>3
  <2> QED
    BY <1>1, <1>4, <2>1, <2>2, <2>3, <2>4, AtService
<1>5. CASE th[u].pc \notin Calling
  <2>1. ~Lost(u) /\ th[u].pc # "ipc"
    BY <1>5 DEF Lost, Calling
  <2>2. CASE UNCHANGED <<held, cache, failed>>
    BY <1>2, <1>3, <2>1, <2>2 DEF ListenerFits
  <2>3. CASE \E ret : ret # "DP_SUCCESS" /\ End(u, ret)
    <3>1. <<"profile", u>> \in failed'
      BY <1>1, <2>3, RequestOps DEF End, Item
    <3> QED
      BY <3>1 DEF ListenerFits
  <2>4. CASE CacheListener(u)
    <3>1. CASE End(u, "DP_EXCEED_MAX_SIZE_FAIL")
      BY <2>3, <3>1
    <3>2. CASE th'[u].pc = "ipc" /\ th'[u].op = th[u].op /\ th'[u].sub = th[u].sub
      BY <1>1, <3>2 DEF ListenerFits, Profiling
    <3> QED
      BY <2>4, <3>1, <3>2, ListChanged
  <2>5. ~LockCallback(u) /\ ~SendSubscribeInfosToService(u)
    BY <1>1 DEF LockCallback, SendSubscribeInfosToService
  <2> QED
    BY <1>1, <1>5, <2>2, <2>3, <2>4, <2>5, Onward
<1> QED
  BY <1>4, <1>5

\* Every step of a thread keeps the invariant.
LEMMA RestoreStep ==
    ASSUME TypeInv, LocksOK, RestoreInv, NEW t \in Threads, Step(t)
    PROVE  RestoreInv'
PROOF
<1>1. TasksOK' /\ Listed'
  BY TasksStep, ListedStep DEF RestoreInv
<1>2. alive' = alive
  BY StepAlone
<1>3. CASE ~alive
  <2>1. ~Serve(t)
    BY <1>3 DEF Serve, Running
  <2>2. held' = held
    BY <2>1 DEF Step, Check, GetDeviceProfileService, LoadDeviceProfileService, WakeOrTimeOut, Loaded, LockCallback,
       CacheListener, SendSubscribeInfosToService, Refuse, Reply, Subscribed, Returned, RetryClientRequest, service
  <2> QED
    BY <1>1, <1>2, <1>3, <2>2 DEF RestoreInv
<1>4. CASE alive
  <2>1. ASSUME NEW s \in Tasks \ {"profile"} PROVE CallbackFits(s)'
    BY <1>4, <2>1, CallbackStep DEF RestoreInv
  <2>2. ASSUME NEW u \in Users PROVE ListenerFits(u)'
    <3>1. ListenerFits(u) /\ TasksOK /\ Listed
      BY <1>4 DEF RestoreInv
    <3>2. CASE t = "profile"
      BY <1>4, <3>1, <3>2, SenderStep
    <3>3. CASE t = u /\ Profiling(u)
      BY <1>4, <3>1, <3>3, ListenerOwnStep
    <3>4. CASE t # "profile" /\ ~(t = u /\ Profiling(u))
      <4>1. /\ u \in cache'["profile"] <=> u \in cache["profile"]
            /\ u \in held'["profile"] <=> u \in held["profile"]
        BY <3>1, <3>4, Elsewhere
      <4>2. /\ failed \subseteq failed' /\ \A i : Running(i)' <=> Running(i)
            /\ announced \/ ~listens => announced' \/ ~listens'
            /\ \A w \in Threads \ {t} : th'[w] = th[w]
        BY <1>4, StepAlone
      <4>3. th'["profile"] = th["profile"] /\ (Profiling(u) => th'[u] = th[u])
        BY <3>4, <4>2, TaskNames
      <4>4. Renewing("profile") => Renewing("profile")'
        BY <4>2, <4>3 DEF Renewing
      <4> QED
        BY <3>1, <4>1, <4>2, <4>3, <4>4, ListenerFrame
    <3> QED
      BY <3>2, <3>3, <3>4
  <2> QED
    BY <1>1, <1>2, <1>4, <2>1, <2>2 DEF RestoreInv
<1> QED
  BY <1>3, <1>4

\* So do the service that starts, stops or dies, and what samgr reports.
LEMMA RestoreOutside ==
    ASSUME TypeInv, RestoreInv, Outside \/ UNCHANGED vars
    PROVE  RestoreInv'
PROOF
<1>1. UNCHANGED <<cache, lock, th, listens>>
  BY DEF Outside, OnStart, PostInit, OnStop, Dies, OnServiceDied, LoadSystemAbilitySuccess, LoadSystemAbilityFail, vars
<1>2. (\A t : Profiling(t)' <=> Profiling(t)) /\ Listed'
  BY <1>1 DEF Profiling, Listed, RestoreInv
<1>3. CASE OnStart
  <2>1. /\ alive' /\ held = [s \in Subs |-> {}] /\ held' = held /\ (announced' \/ ~listens')
    BY <1>3 DEF OnStart, RestoreInv
  <2>2. TasksOK'
    BY <1>1, <2>1 DEF TasksOK, RestoreInv
  <2>3. \A s : Renewing(s)'
    BY <2>1 DEF Renewing
  <2>4. \A s \in Subs : held'[s] = {}
    BY <2>1
  <2> QED
    BY <1>2, <2>1, <2>2, <2>3, <2>4, TaskNames DEF RestoreInv, CallbackFits, ListenerFits
<1>4. CASE Dies
  <2>1. ~alive' /\ held' = [s \in Subs |-> {}]
    BY <1>4 DEF Dies
  <2>2. TasksOK'
    BY <1>1, <2>1 DEF TasksOK, RestoreInv
  <2> QED
    BY <1>2, <2>1, <2>2 DEF RestoreInv
<1>5. CASE PostInit \/ OnStop \/ OnServiceDied \/ LoadSystemAbilitySuccess \/ LoadSystemAbilityFail \/ UNCHANGED vars
  <2>1. UNCHANGED <<alive, starts, held, announced, failed>>
    BY <1>5 DEF PostInit, OnStop, OnServiceDied, LoadSystemAbilitySuccess, LoadSystemAbilityFail, vars, service, history
  <2>2. TasksOK'
    BY <1>1, <2>1 DEF TasksOK, RestoreInv
  <2>3. \A t : (Lost(t)' <=> Lost(t)) /\ (Served(t)' <=> Served(t)) /\ After(t)' = After(t)
    BY <1>1, <2>1 DEF Lost, Served, After, Running
  <2>4. \A s : Renewing(s)' <=> Renewing(s)
    BY <1>1, <2>1 DEF Renewing
  <2>5. ASSUME alive, NEW s \in Tasks \ {"profile"} PROVE CallbackFits(s)'
    BY <1>1, <2>1, <2>3, <2>4, <2>5 DEF RestoreInv, CallbackFits
  <2>6. ASSUME alive, NEW u \in Users PROVE ListenerFits(u)'
    BY <1>1, <1>2, <2>1, <2>3, <2>4, <2>6 DEF RestoreInv, ListenerFits
  <2> QED
    BY <1>2, <2>1, <2>2, <2>5, <2>6 DEF RestoreInv
<1> QED
  BY <1>3, <1>4, <1>5 DEF Outside

\* And the beginning of a call, or of the threads that subscribe again.
LEMMA RestoreBegin ==
    ASSUME TypeInv, LocksOK, RestoreInv,
           (\E u \in Users : Request(u) \/ Subscribe(u) \/ UnSubscribe(u)) \/ OnAddSystemAbility
    PROVE  RestoreInv'
PROOF
<1>1. UNCHANGED <<alive, starts, held, cache, lock, listens, failed>>
  BY DEF Request, Subscribe, UnSubscribe, OnAddSystemAbility, service, history
<1>2. \A t \in Threads : th'[t] = th[t] \/ (th[t] = Idle /\ th'[t].pc \in {"get", "check"})
  BY BeginTypes
<1>3. /\ th \in [Threads -> ThreadStates] /\ Idle.pc = "idle" /\ Idle.op = None
  BY DEF TypeInv, Idle, Thread
<1>4. \A t \in Threads : th[t].pc \in Calling => th'[t] = th[t]
  BY <1>2, <1>3 DEF Calling
<1>5. \A s \in Tasks : \A t \in Threads : lock[s] = t => th'[t] = th[t]
  BY <1>4, TaskNames DEF LocksOK, Locking
<1>6. /\ \A s \in Tasks : th'[s].pc # "idle" => th'[s].sub = s /\ th'[s].op = (IF s = "profile" THEN "send" ELSE "subscribe")
      /\ \A u \in Users : th'[u].op # "send"
      /\ \A s \in Tasks : Renewing(s) => Renewing(s)'
  <2>1. CASE OnAddSystemAbility
    <3>1. /\ \A s \in Tasks : th'[s] = Resubscribe(s)
          /\ \A u \in Users : th'[u] = th[u]
      BY <2>1, TaskNames DEF OnAddSystemAbility
    <3> QED
      BY <3>1, Beginnings DEF Renewing, RestoreInv, TasksOK
  <2>2. CASE \E u \in Users : Request(u) \/ Subscribe(u) \/ UnSubscribe(u)
    <3>1. PICK u \in Users : Request(u) \/ Subscribe(u) \/ UnSubscribe(u)
      BY <2>2
    <3>2. PICK y : th' = [th EXCEPT ![u] = y] /\ y.op # "send"
      <4>1. CASE Request(u)
        <5>1. PICK op \in Requests : th' = [th EXCEPT ![u] = Thread("get", op, None)]
          BY <4>1 DEF Request
        <5>2. Thread("get", op, None).op = op
          BY DEF Thread
        <5> QED
          BY <5>1, <5>2, RequestOps
      <4>2. CASE Subscribe(u) \/ UnSubscribe(u)
        <5>1. PICK call \in Subscriptions \cup UnSubscriptions : call.sub \in Subs /\ th' = [th EXCEPT ![u] = call]
          BY <4>2 DEF Subscribe, UnSubscribe
        <5> QED
          BY <5>1, Beginnings
      <4> QED
        BY <3>1, <4>1, <4>2
    <3>3. /\ \A s \in Tasks : th'[s] = th[s]
          /\ \A w \in Users : th'[w] = th[w] \/ th'[w].op # "send"
      BY <1>3, <3>2, TaskNames
    <3>4. announced' = announced
      BY <3>1 DEF Request, Subscribe, UnSubscribe
    <3> QED
      BY <1>1, <3>3, <3>4 DEF Renewing, RestoreInv, TasksOK
  <2> QED
    BY <2>1, <2>2
<1>7. TasksOK'
  <2>1. th'["profile"].pc \in Calling => th["profile"].pc \in Calling
    BY <1>2, TaskNames DEF Calling
  <2>2. th'["profile"].pc \in Calling => th'["profile"].sent = cache'["profile"]
    BY <1>1, <1>4, <2>1, TaskNames DEF RestoreInv, TasksOK
  <2>3. alive' /\ th'["profile"].pc \in {"load", "waiting", "loaded"} => announced' \/ ~listens'
    <3>1. CASE OnAddSystemAbility
      <4>1. th'["profile"] = Resubscribe("profile")
        BY <3>1, TaskNames DEF OnAddSystemAbility
      <4> QED
        BY <4>1, Beginnings, TaskNames
    <3>2. CASE announced' = announced
      BY <1>1, <1>2, <3>2, TaskNames DEF RestoreInv, TasksOK
    <3> QED
      BY <3>1, <3>2 DEF Request, Subscribe, UnSubscribe
  <2> QED
    BY <1>6, <2>2, <2>3 DEF TasksOK
<1>8. Listed'
  <2> SUFFICES ASSUME NEW u \in Users, Profiling(u)', th'[u].pc = "ipc"
               PROVE  u \in cache'["profile"] <=> th'[u].op = "subscribe"
    BY DEF Listed
  <2>1. th'[u] = th[u]
    BY <1>2, TaskNames
  <2> QED
    BY <1>1, <2>1 DEF RestoreInv, Listed, Profiling
<1>9. \A i : Running(i)' <=> Running(i)
  BY <1>1 DEF Running
<1>10. ASSUME alive, NEW s \in Tasks \ {"profile"} PROVE CallbackFits(s)'
  <2>1. CallbackFits(s) /\ (Renewing(s) => Renewing(s)')
    BY <1>6, <1>10 DEF RestoreInv
  <2> QED
    BY <1>1, <1>5, <1>9, <1>10, <2>1, CallbackFrame
<1>11. ASSUME alive, NEW u \in Users PROVE ListenerFits(u)'
  <2>1. ListenerFits(u) /\ (Renewing("profile") => Renewing("profile")')
    BY <1>6, <1>11, TaskNames DEF RestoreInv
  <2> QED
    BY <1>1, <1>4, <1>9, <2>1, ListenerFrame, TaskNames
<1> QED
  BY <1>1, <1>7, <1>8, <1>10, <1>11 DEF RestoreInv

\* Restored: once the service is up again and everything has come to rest, it holds the
\* subscriptions that the client keeps and no others, but for those a call of which failed
\* (OnAddSystemAbility with SendSubscribeInfosToService and ReSubscribe* against the
\* subscribe and unsubscribe calls of users), for any number of users and of starts.
THEOREM SubscriptionsRestored == Spec => []Restored
PROOF
<1>1. Init => RestoreInv
  <2> SUFFICES ASSUME Init PROVE RestoreInv
    OBVIOUS
  <2>1. ~alive /\ held = [s \in Subs |-> {}] /\ \A t \in Threads : th[t] = Idle
    BY DEF Init
  <2>2. Idle.pc = "idle" /\ Idle.op = None
    BY DEF Idle, Thread
  <2>3. TasksOK /\ Listed
    BY <2>1, <2>2, TaskNames, NoneAssumption DEF TasksOK, Listed, Calling
  <2> QED
    BY <2>1, <2>3 DEF RestoreInv
<1>2. TypeInv /\ LocksOK /\ RestoreInv /\ [Next]_vars => RestoreInv'
  <2> SUFFICES ASSUME TypeInv, LocksOK, RestoreInv, [Next]_vars PROVE RestoreInv'
    OBVIOUS
  <2>1. CASE \E t \in Threads : Step(t)
    BY <2>1, RestoreStep
  <2>2. CASE ~\E t \in Threads : Step(t)
    BY <2>2, RestoreBegin, RestoreOutside DEF Next, Outside
  <2> QED
    BY <2>1, <2>2
<1>3. TypeInv /\ LocksOK /\ RestoreInv => Restored
  <2> SUFFICES ASSUME TypeInv, LocksOK, RestoreInv, Settled, NEW s \in Tasks, NEW i \in Items(s)
               PROVE  <<s, i>> \in failed \/ (i \in held[s] <=> i \in cache[s])
    BY DEF Restored
  <2>1. alive /\ ~announced /\ listens /\ \A t \in Threads : th[t].pc = "idle"
    BY DEF Settled, Idle, Thread
  <2>2. \A t \in Threads : ~Lost(t) /\ ~Served(t) /\ th[t].pc \notin Calling
    BY <2>1 DEF Lost, Served, Calling
  <2>3. ~Renewing(s)
    BY <2>1, TaskNames DEF Renewing
  <2>4. CASE s = "profile"
    <3>1. i \in Users /\ i \in Threads
      BY <2>4, TaskNames DEF Items
    <3>2. ListenerFits(i)
      BY <2>1, <3>1 DEF RestoreInv
    <3> QED
      BY <2>1, <2>2, <2>3, <2>4, <3>1, <3>2, TaskNames DEF ListenerFits
  <2>5. CASE s # "profile"
    <3>1. i = "callback" /\ CallbackFits(s)
      BY <2>1, <2>5 DEF Items, RestoreInv
    <3> QED
      BY <2>2, <2>3, <3>1 DEF CallbackFits
  <2> QED
    BY <2>4, <2>5
<1> QED
  BY <1>1, <1>2, <1>3, TypesAndLocks, PTL DEF Spec

=============================================================================
