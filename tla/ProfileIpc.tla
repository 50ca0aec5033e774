----------------------------- MODULE ProfileIpc -----------------------------
(***************************************************************************)
(* One call across the process boundary: what a proxy writes, how the stub *)
(* admits, dispatches and reads it, which caller its handler serves and    *)
(* with which manager, and what the proxy makes of the reply; and the      *)
(* callbacks that go the other way.                                        *)
(*                                                                         *)
(* What the managers do is the subject of the other modules: here a        *)
(* handler succeeds with some results or returns an error.  The codes      *)
(* DP_READ_PARCEL_FAIL, DP_WRITE_PARCEL_FAIL and ERR_FLATTEN_OBJECT, which *)
(* the functions use without distinction, are one answer, PARCEL_FAIL.     *)
(***************************************************************************)
EXTENDS ProfileProxies, ProfileStub

CONSTANTS
    Callers,      \* records: token, proc, access and sync permission
    PermissionJson, \* interface name -> the processes permission.json lists
    Inputs,       \* the bounds of a call: its caller, the sizes and the full writes;
    EarlyInputs,  \* those of calls before isInited_ and after isStopped_
    Nil          \* no value

ALL_PROC == "all"

-----------------------------------------------------------------------------
(* Who may call a handler, and the managers it may reach.                  *)

\* The names for which the permission map is filled.
SetRdbPermissionMap ==
    {"PutServiceInfo", "DeleteServiceInfo", "GetAllServiceInfoList", "GetServiceInfosByUserInfo",
    "PutLocalServiceInfo", "UpdateLocalServiceInfo", "GetLocalServiceInfoByBundleAndPinType",
    "DeleteLocalServiceInfo", "PutAccessControlProfile", "UpdateAccessControlProfile",
    "GetAccessControlProfile", "GetAllAccessControlProfile", "GetAllAclIncludeLnnAcl",
    "DeleteAccessControlProfile", "GetTrustDeviceProfile", "GetAllTrustDeviceProfile",
    "PutDeviceProfileBatch", "DeleteDeviceProfileBatch", "GetDeviceProfiles",
    "PutProductInfoBatch", "PutDeviceIconInfoBatch", "GetDeviceIconInfos", "PutSessionKey",
    "GetSessionKey", "UpdateSessionKey", "DeleteSessionKey"}

SetKVPermissionMap ==
    {"PutServiceProfile", "PutServiceProfileBatch", "PutCharacteristicProfile",
    "PutCharacteristicProfileBatch", "GetDeviceProfile", "GetServiceProfile",
    "GetCharacteristicProfile", "DeleteServiceProfile", "DeleteCharacteristicProfile",
    "SubscribeDeviceProfile", "UnSubscribeDeviceProfile", "SyncDeviceProfile",
    "PutAllTrustedDevices"}

SetPermissionMap(name) == IF name \in DOMAIN PermissionJson THEN PermissionJson[name] ELSE {}

permissionMap == [name \in SetRdbPermissionMap \cup SetKVPermissionMap |-> SetPermissionMap(name)]

CheckInterfacePermission(name, proc) ==
    name \in DOMAIN permissionMap /\ permissionMap[name] \cap {proc, ALL_PROC} # {}

IsCallerTrust(name) == {c \in Callers : c.token = "native" /\ CheckInterfacePermission(name, c.proc)}
CheckCallerPermission == {c \in Callers : c.token = "native" /\ c.access}
CheckCallerSyncPermission == {c \in Callers : c.token = "native" /\ c.sync}

Handle(callers, managers) == [callers |-> callers, managers |-> managers, staged |-> FALSE]
\* Mutant: a profile goes to its manager also before that is initialised.
UnstagedHandle(callers, managers) == Handle(callers, managers)
\* Before the service is initialised it keeps the profiles itself.
Staged(callers, managers) == [callers |-> callers, managers |-> managers, staged |-> TRUE]

PutAccessControlProfile == Handle(IsCallerTrust("PutAccessControlProfile"), {"TrustProfileManager"})
UpdateAccessControlProfile == Handle(IsCallerTrust("UpdateAccessControlProfile"), {"TrustProfileManager"})
GetTrustDeviceProfile == Handle(IsCallerTrust("GetTrustDeviceProfile"), {"TrustProfileManager"})
GetAllTrustDeviceProfile == Handle(IsCallerTrust("GetAllTrustDeviceProfile"), {"TrustProfileManager"})
GetAccessControlProfile == Handle(IsCallerTrust("GetAccessControlProfile"), {"TrustProfileManager"})
GetAllAccessControlProfile == Handle(IsCallerTrust("GetAllAccessControlProfile"), {"TrustProfileManager"})
GetAllAclIncludeLnnAcl == Handle(IsCallerTrust("GetAllAclIncludeLnnAcl"), {"TrustProfileManager"})
DeleteAccessControlProfile == Handle(IsCallerTrust("DeleteAccessControlProfile"), {"TrustProfileManager"})
PutSessionKey == Handle(IsCallerTrust("PutSessionKey"), {"SessionKeyManager"})
GetSessionKey == Handle(IsCallerTrust("GetSessionKey"), {"SessionKeyManager"})
GetSessionKeyBySessionKeyId == Handle(IsCallerTrust("GetSessionKey"), {"SessionKeyManager"})
UpdateSessionKey == Handle(IsCallerTrust("UpdateSessionKey"), {"SessionKeyManager"})
DeleteSessionKey == Handle(IsCallerTrust("DeleteSessionKey"), {"SessionKeyManager"})
SubscribeDeviceProfile == Handle(CheckCallerPermission, {"SubscribeProfileManager"})
UnSubscribeDeviceProfile == Handle(CheckCallerPermission, {"SubscribeProfileManager"})
SendSubscribeInfos == Handle(Callers, {"SubscribeProfileManager"})
PutServiceProfile == Staged(CheckCallerPermission, {"DeviceProfileManager"})
PutServiceProfileBatch == Staged(CheckCallerPermission, {"DeviceProfileManager"})
PutCharacteristicProfile == Staged(CheckCallerPermission, {"SwitchProfileManager", "DeviceProfileManager"})
PutCharacteristicProfileBatch ==
    Staged(CheckCallerPermission, {"SwitchProfileManager", "DeviceProfileManager"})
RunSubscribeDeviceProfileInited == Handle(CheckCallerPermission, {"DistributedDeviceProfileServiceNew"})
RunUnSubscribeDeviceProfileInited == Handle(CheckCallerPermission, {"DistributedDeviceProfileServiceNew"})
PutAllTrustedDevices == Handle(IsCallerTrust("PutAllTrustedDevices"), {"onlineDevMap_"})
PutDeviceProfileBatch == Handle(CheckCallerPermission, {"ProfileDataManager"})
GetDeviceProfiles == Handle(CheckCallerPermission, {"ProfileDataManager"})
GetDeviceIconInfos == Handle(CheckCallerPermission, {"ProfileDataManager"})
PutDeviceIconInfoBatch == Handle(CheckCallerPermission, {"ProfileDataManager"})
PutProductInfoBatch == Handle(CheckCallerPermission, {"ProfileDataManager"})
DeleteDeviceProfileBatch == Handle(CheckCallerPermission, {"ProfileDataManager"})
SubscribePinCodeInvalid == Handle(CheckCallerPermission, {"DistributedDeviceProfileServiceNew"})
UnSubscribePinCodeInvalid == Handle(CheckCallerPermission, {"DistributedDeviceProfileServiceNew"})
SubscribeAllServiceInfo == Handle(CheckCallerPermission, {"SubscribeServiceInfoManager"})
PutServiceInfo == Handle(CheckCallerPermission, {"ServiceInfoManager"})
DeleteServiceInfo == Handle(CheckCallerPermission, {"ServiceInfoManager"})
GetAllServiceInfoList == Handle(CheckCallerPermission, {"ServiceInfoManager"})
GetServiceInfosByUserInfo == Handle(CheckCallerPermission, {"ServiceInfoManager"})
GetDeviceProfile == Handle(CheckCallerPermission, {"DeviceProfileManager"})
GetServiceProfile == Handle(CheckCallerPermission, {"DeviceProfileManager"})
GetCharacteristicProfile ==
    Handle(CheckCallerPermission, {"SwitchProfileManager", "StaticProfileManager", "DeviceProfileManager"})
DeleteServiceProfile == Handle(CheckCallerPermission, {"DeviceProfileManager"})
DeleteCharacteristicProfile == Handle(CheckCallerPermission, {"DeviceProfileManager"})
SyncDeviceProfile == Handle(CheckCallerSyncPermission, {"DeviceProfileManager"})
SyncStaticProfile == Handle(CheckCallerSyncPermission, {"StaticProfileManager"})
PutLocalServiceInfo == Handle(CheckCallerPermission, {"LocalServiceInfoManager"})
UpdateLocalServiceInfo == Handle(CheckCallerPermission, {"LocalServiceInfoManager"})
GetLocalServiceInfoByBundleAndPinType == Handle(CheckCallerPermission, {"LocalServiceInfoManager"})
DeleteLocalServiceInfo == Handle(CheckCallerPermission, {"LocalServiceInfoManager"})
RegisterBusinessCallback == Handle(CheckCallerPermission, {"DistributedDeviceProfileServiceNew"})
UnRegisterBusinessCallback == Handle(CheckCallerPermission, {"DistributedDeviceProfileServiceNew"})
PutBusinessEvent == Handle(CheckCallerPermission, {"BusinessEventManager"})
GetBusinessEvent == Handle(CheckCallerPermission, {"BusinessEventManager"})

Handlers ==
   [PutAccessControlProfile |-> PutAccessControlProfile,
    UpdateAccessControlProfile |-> UpdateAccessControlProfile,
    GetTrustDeviceProfile |-> GetTrustDeviceProfile, GetAllTrustDeviceProfile |-> GetAllTrustDeviceProfile,
    GetAccessControlProfile |-> GetAccessControlProfile,
    GetAllAccessControlProfile |-> GetAllAccessControlProfile,
    GetAllAclIncludeLnnAcl |-> GetAllAclIncludeLnnAcl,
    DeleteAccessControlProfile |-> DeleteAccessControlProfile, PutSessionKey |-> PutSessionKey,
    GetSessionKey |-> GetSessionKey, GetSessionKeyBySessionKeyId |-> GetSessionKeyBySessionKeyId,
    UpdateSessionKey |-> UpdateSessionKey, DeleteSessionKey |-> DeleteSessionKey,
    SubscribeDeviceProfile |-> SubscribeDeviceProfile,
    UnSubscribeDeviceProfile |-> UnSubscribeDeviceProfile, SendSubscribeInfos |-> SendSubscribeInfos,
    PutServiceProfile |-> PutServiceProfile, PutServiceProfileBatch |-> PutServiceProfileBatch,
    PutCharacteristicProfile |-> PutCharacteristicProfile,
    PutCharacteristicProfileBatch |-> PutCharacteristicProfileBatch,
    SubscribeDeviceProfileInited |-> RunSubscribeDeviceProfileInited,
    UnSubscribeDeviceProfileInited |-> RunUnSubscribeDeviceProfileInited,
    PutAllTrustedDevices |-> PutAllTrustedDevices, PutDeviceProfileBatch |-> PutDeviceProfileBatch,
    GetDeviceProfiles |-> GetDeviceProfiles, GetDeviceIconInfos |-> GetDeviceIconInfos,
    PutDeviceIconInfoBatch |-> PutDeviceIconInfoBatch, PutProductInfoBatch |-> PutProductInfoBatch,
    DeleteDeviceProfileBatch |-> DeleteDeviceProfileBatch,
    SubscribePinCodeInvalid |-> SubscribePinCodeInvalid,
    UnSubscribePinCodeInvalid |-> UnSubscribePinCodeInvalid,
    SubscribeAllServiceInfo |-> SubscribeAllServiceInfo, PutServiceInfo |-> PutServiceInfo,
    DeleteServiceInfo |-> DeleteServiceInfo, GetAllServiceInfoList |-> GetAllServiceInfoList,
    GetServiceInfosByUserInfo |-> GetServiceInfosByUserInfo, GetDeviceProfile |-> GetDeviceProfile,
    GetServiceProfile |-> GetServiceProfile, GetCharacteristicProfile |-> GetCharacteristicProfile,
    DeleteServiceProfile |-> DeleteServiceProfile,
    DeleteCharacteristicProfile |-> DeleteCharacteristicProfile, SyncDeviceProfile |-> SyncDeviceProfile,
    SyncStaticProfile |-> SyncStaticProfile, PutLocalServiceInfo |-> PutLocalServiceInfo,
    UpdateLocalServiceInfo |-> UpdateLocalServiceInfo,
    GetLocalServiceInfoByBundleAndPinType |-> GetLocalServiceInfoByBundleAndPinType,
    DeleteLocalServiceInfo |-> DeleteLocalServiceInfo,
    RegisterBusinessCallback |-> RegisterBusinessCallback,
    UnRegisterBusinessCallback |-> UnRegisterBusinessCallback, PutBusinessEvent |-> PutBusinessEvent,
    GetBusinessEvent |-> GetBusinessEvent]

-----------------------------------------------------------------------------
(* The service and one call.                                               *)

\* The managers that Init, and PostInit in this order, make ready; those that
\* have no Init, and the map of the online devices, need nothing of it.
InitManagers == {"PermissionManager", "TrustProfileManager", "ProfileDataManager", "SubscribeProfileManager"}
PostInitOrder ==
    <<"SwitchProfileManager", "DeviceProfileManager", "StaticProfileManager", "ProfileCache",
      "LocalServiceInfoManager", "ServiceInfoManager", "BusinessEventManager">>

Apis == DOMAIN Proxies \cup DOMAIN CallbackProxies

\* An input has a number of elements; Nil is none of the values that it stands for the lack of.
ASSUME IpcAssumption ==
    /\ Nil \notin [handler : Apis, misread : BOOLEAN]
    /\ Nil \notin InitManagers \cup ToSet(PostInitOrder)
    /\ Inputs \cup EarlyInputs \subseteq [caller : Callers, n : Sizes, full : Nat, m : Sizes, rfull : Nat]

VARIABLES
    booted,     \* how far PostInit has come; one more than its managers: isInited_
    stopped,    \* isStopped_
    running,    \* runningIpcCount_
    phase,      \* of the call: "idle", "sent", "served", "replied", "returned"
    call,       \* the API and the input of the call
    served,     \* the handler that runs, and whether its arguments are misread
    ret,        \* what the handler returned
    reached,    \* the manager that it reached
    answer      \* what the proxy returns

ipcVars == <<booted, stopped, running, phase, call, served, ret, reached, answer>>

IsCallback(api) == api \in DOMAIN CallbackProxies
ProxyOf(api) == IF IsCallback(api) THEN CallbackProxies[api] ELSE Proxies[api]
InnerOf(api) == IF IsCallback(api) THEN CallbackInners[api] ELSE Dispatch(Proxies[api].code)

IsInited == booted > Len(PostInitOrder)
Ready == InitManagers \cup {PostInitOrder[i] : i \in 1 .. Min({booted, Len(PostInitOrder)})}

\* The two parcels of the call: the reply begins with the return value.
Writes == ProxyOf(call.api).args[call.n]
Data == Written(Writes, call.full)
ResultWrites == Int32(<<"ret">>) \o InnerOf(call.api).results[IF ret = "DP_SUCCESS" THEN call.m ELSE 0]
ReplyData == Written(ResultWrites, call.rfull)

IpcInit ==
    /\ booted = 0 /\ stopped = FALSE /\ running = 0
    /\ phase = "idle" /\ call = Nil /\ served = Nil /\ ret = Nil /\ reached = Nil /\ answer = Nil

Answer(a) == phase' = "returned" /\ answer' = a

\* PostInit of the next manager; the last step sets isInited_.
BootManager ==
    /\ ~stopped /\ ~IsInited
    /\ booted' = booted + 1
    /\ UNCHANGED <<stopped, running, phase, call, served, ret, reached, answer>>

\* OnStop sets isStopped_ (what UnInit then does: ServiceLifecycle).
Stop ==
    /\ ~stopped
    /\ stopped' = TRUE
    /\ UNCHANGED <<booted, running, phase, call, served, ret, reached, answer>>

\* A proxy writes its arguments and sends the request.
Call ==
    /\ phase = "idle"
    /\ \E api \in Apis, in \in IF IsInited /\ ~stopped THEN Inputs ELSE EarlyInputs :
        /\ call' = [api |-> api, caller |-> in.caller, n |-> in.n, full |-> in.full, m |-> in.m, rfull |-> in.rfull]
        /\ IF WriteOk(ProxyOf(api).args[in.n], in.full)
           THEN phase' = "sent" /\ answer' = answer
           ELSE Answer("PARCEL_FAIL")
    /\ UNCHANGED <<booted, stopped, running, served, ret, reached>>

AddRunningIpcCount == running' = running + 1
SubtractRunningIpcCount == running' = running - 1

\* An Inner reads the arguments and calls its handler; what it reads from a
\* parcel that was not written as it expects may fail or not.
Read(inner, enter) ==
    LET reads == inner.args[call.n]
        fits == Fits(Data, reads)
    IN  \/ /\ fits => ReadOk(reads)
           /\ served' = [handler |-> inner.handler, misread |-> ~fits]
           /\ phase' = "served" /\ answer' = answer
           /\ enter
        \/ /\ ~fits \/ ~ReadOk(reads)
           /\ Answer("PARCEL_FAIL") /\ UNCHANGED <<served, running>>

OnRemoteRequest ==
    LET code == ProxyOf(call.api).code
        early == code \in aclAndSubscribeFuncs
    IN  /\ phase = "sent" /\ ~IsCallback(call.api)
        /\ \/ stopped /\ Answer("DP_SERVICE_STOPPED") /\ UNCHANGED <<served, running>>
           \/ ~stopped /\ Answer("DP_SERVICE_ON_IDLE") /\ UNCHANGED <<served, running>>   \* ExitIdleState fails
           \/ ~stopped /\ ~early /\ ~IsInited /\ Answer("DP_LOAD_SERVICE_ERR") /\ UNCHANGED <<served, running>>
           \/ ~stopped /\ (early \/ IsInited) /\ Read(Dispatch(code), AddRunningIpcCount)
        /\ UNCHANGED <<booted, stopped, call, ret, reached>>

CallbackRequest ==
    /\ phase = "sent" /\ IsCallback(call.api)
    /\ Read(CallbackInners[call.api], UNCHANGED running)
    /\ UNCHANGED <<booted, stopped, call, ret, reached>>

\* The handler of the service: the caller is checked, then the manager called.
Run ==
    /\ phase = "served" /\ ~IsCallback(call.api)
    /\ LET h == Handlers[served.handler]
       IN  \/ /\ call.caller \notin h.callers
              /\ ret' = "DP_PERMISSION_DENIED" /\ reached' = Nil
           \/ /\ call.caller \in h.callers
              /\ ret' \in {"DP_SUCCESS", "ERROR"}
              /\ IF h.staged /\ ~IsInited
                 THEN reached' = "DistributedDeviceProfileServiceNew"
                 ELSE reached' \in h.managers
    /\ phase' = "replied"
    /\ UNCHANGED <<booted, stopped, running, call, served, answer>>

\* The callback of the client.
RunCallback ==
    /\ phase = "served" /\ IsCallback(call.api)
    /\ \E r \in {"DP_SUCCESS", "ERROR"} :
        ret' = IF served.handler \in ListenerCallbacks THEN "DP_SUCCESS" ELSE r
    /\ phase' = "replied"
    /\ UNCHANGED <<booted, stopped, running, call, served, reached, answer>>

\* The Inner writes the return value and the results, whatever was returned;
\* the proxy takes an error of the stub, then one of the handler, then reads
\* the results (of OnSyncCompleted, which is one-way, nobody reads a reply).
Receive ==
    LET sent == WriteOk(ResultWrites, call.rfull)
        results == SubSeq(ReplyData, 2, Len(ReplyData))
        reads == ProxyOf(call.api).results[call.m]
    IN  /\ phase' = "returned"
        /\ answer' \in IF call.api = "OnSyncCompleted" THEN {Nil}
                       ELSE IF ~sent THEN {"PARCEL_FAIL"}
                       ELSE IF ret # "DP_SUCCESS" THEN {ret}
                       ELSE IF ~Fits(results, reads) THEN {"DP_SUCCESS", "PARCEL_FAIL"}
                       ELSE IF ReadOk(reads) THEN {"DP_SUCCESS"} ELSE {"PARCEL_FAIL"}

ReturnReply ==
    /\ phase = "replied" /\ ~IsCallback(call.api)
    /\ Receive
    /\ SubtractRunningIpcCount
    /\ UNCHANGED <<booted, stopped, call, served, ret, reached>>

ReturnCallback ==
    /\ phase = "replied" /\ IsCallback(call.api)
    /\ Receive
    /\ UNCHANGED <<booted, stopped, running, call, served, ret, reached>>

Finish ==
    /\ phase = "returned"
    /\ phase' = "idle" /\ call' = Nil /\ served' = Nil /\ ret' = Nil /\ reached' = Nil /\ answer' = Nil
    /\ UNCHANGED <<booted, stopped, running>>

IpcNext ==
    \/ BootManager \/ Stop \/ Call
    \/ OnRemoteRequest \/ CallbackRequest
    \/ Run \/ RunCallback \/ ReturnReply \/ ReturnCallback \/ Finish

IpcSpec == IpcInit /\ [][IpcNext]_ipcVars

-----------------------------------------------------------------------------
(* Properties.                                                             *)

\* Two of the writes are raw blocks: the second is lost ("The same IPC can
\* only call WriteRawData once"), and with it the icon of the second element.
RawTwice(layout) == \E i, j \in DOMAIN layout : i < j /\ layout[i].kind = "Raw" /\ layout[j].kind = "Raw"

\* Checks whose results are ignored: nothing is written for an icon above
\* MAX_ICON_SIZE, and the reader takes what follows for its size; a change type
\* out of range is written, and ends the reading of the change types.
Oversized(n) == \E i \in 1 .. n : IconSizes[n][i] > MaxItems
OutOfRange(n) == ~(1 .. n \subseteq InRange[n])
ArgsCut(api, n) ==
    \/ api = "PutDeviceIconInfoBatch" /\ Oversized(n)
    \/ api \in {"SubscribeDeviceProfile", "UnSubscribeDeviceProfile", "SendSubscribeInfos"} /\ OutOfRange(n)
ResultsCut(api, n) == api = "GetDeviceIconInfos" /\ Oversized(n)

\* The handler that runs is the one that the client called, and every field
\* of its arguments has the value that the client gave to this field, unless
\* the parcel had no room, held a second raw block or lacked what an ignored
\* check had refused: the writers and the readers of every class, vector and
\* API agree on the order, the kinds and the limits of what is between them.
HandledAsSent ==
    served # Nil =>
        /\ served.handler = call.api
        /\ call.full = 0 /\ ~RawTwice(Writes) /\ ~ArgsCut(call.api, call.n) =>
            /\ ~served.misread
            /\ Got(Data, InnerOf(call.api).args[call.n]) = Meant(Expected(Writes))

\* What the proxy returns is what the handler returned: DP_SUCCESS only after
\* the handler succeeded and with the results that it gave, and an error as it
\* is.  The exceptions are the two queries whose empty vector is refused after
\* the error has been written, and results that an ignored check has cut.
EmptyRefused == {"GetAllTrustDeviceProfile", "GetDeviceProfiles"}
AnswerTrue ==
    phase = "returned" /\ call.api # "OnSyncCompleted" =>
        /\ answer = "DP_SUCCESS" => served # Nil /\ ret = "DP_SUCCESS"
        /\ answer = "DP_SUCCESS" /\ call.rfull = 0 /\ ~RawTwice(ResultWrites) /\ ~ResultsCut(call.api, call.m) =>
            Got(SubSeq(ReplyData, 2, Len(ReplyData)), ProxyOf(call.api).results[call.m])
                = Meant(Expected(InnerOf(call.api).results[call.m]))
        /\ ret \notin {Nil, "DP_SUCCESS"} /\ call.rfull = 0 =>
            answer = ret \/ call.api \in EmptyRefused

\* What a handler relies on.  It reaches a manager only when Init or PostInit has
\* made it ready, also by the codes that are served before isInited_ (the exception is
\* the service info: its codes are served early, its manager is initialised late); and
\* runningIpcCount_, which keeps the process from being unloaded, counts the call that
\* is being served and no other: every way out of OnRemoteRequest gives it back.
ManagerReady ==
    /\ reached \in InitManagers \cup ToSet(PostInitOrder) =>
           reached \in Ready \/ reached = "ServiceInfoManager"
    /\ running = IF phase \in {"served", "replied"} /\ ~IsCallback(call.api) THEN 1 ELSE 0

=============================================================================
