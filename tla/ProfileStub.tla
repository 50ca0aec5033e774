---------------------------- MODULE ProfileStub -----------------------------
(***************************************************************************)
(* The stubs of the service and of the callbacks: for each code a handler, *)
(* what is read for it, and what is written after its return value.        *)
(***************************************************************************)
EXTENDS Parcels

Serve(handler, args, results) == [handler |-> handler, args |-> args, results |-> results]

PutAccessControlProfileInner ==
    Serve("PutAccessControlProfile", Same(AccessControlProfileUnMarshalling), Nothing)
UpdateAccessControlProfileInner ==
    Serve("UpdateAccessControlProfile", Same(AccessControlProfileUnMarshalling), Nothing)
GetTrustDeviceProfileInner ==
    Serve("GetTrustDeviceProfile", Same(String(<<"deviceId">>)), TrustDeviceProfileMarshalling)
GetAllTrustDeviceProfileInner == Serve("GetAllTrustDeviceProfile", Nothing, TrustDeviceProfilesMarshalling)
GetAccessControlProfileInner ==
    Serve("GetAccessControlProfile", ParamsUnMarshalling, AclProfilesMarshalling)
GetAllAccessControlProfileInner == Serve("GetAllAccessControlProfile", Nothing, AclProfilesMarshalling)
GetAllAclIncludeLnnAclInner == Serve("GetAllAclIncludeLnnAcl", Nothing, AclProfilesMarshalling)
DeleteAccessControlProfileInner ==
    Serve("DeleteAccessControlProfile", Same(Int32(<<"accessControlId">>)), Nothing)
PutSessionKeyInner ==
    Serve("PutSessionKey",
          [n \in Sizes |-> Uint32(<<"userId">>) \o BytesUnMarshalling[n]], Same(Int32(<<"sessionKeyId">>)))
GetSessionKeyInner ==
    Serve("GetSessionKey", Same(Uint32(<<"userId">>) \o Int32(<<"sessionKeyId">>)), BytesMarshalling)
GetSessionKeyBySessionKeyIdInner ==
    Serve("GetSessionKeyBySessionKeyId", Same(Int32(<<"sessionKeyId">>)), BytesMarshalling)
UpdateSessionKeyInner ==
    Serve("UpdateSessionKey",
          [n \in Sizes |-> Uint32(<<"userId">>) \o Int32(<<"sessionKeyId">>)
              \o BytesUnMarshalling[n]], Nothing)
DeleteSessionKeyInner ==
    Serve("DeleteSessionKey", Same(Uint32(<<"userId">>) \o Int32(<<"sessionKeyId">>)), Nothing)
SubscribeDeviceProfileInner == Serve("SubscribeDeviceProfile", SubscribeInfoUnMarshalling, Nothing)
UnSubscribeDeviceProfileInner == Serve("UnSubscribeDeviceProfile", SubscribeInfoUnMarshalling, Nothing)
SendSubscribeInfosInner == Serve("SendSubscribeInfos", ListenerMapUnMarshalling, Nothing)
PutServiceProfileInner == Serve("PutServiceProfile", Same(ServiceProfileUnMarshalling), Nothing)
PutServiceProfileBatchInner == Serve("PutServiceProfileBatch", ServiceProfilesUnMarshalling, Nothing)
PutCharacteristicProfileInner ==
    Serve("PutCharacteristicProfile", Same(CharacteristicProfileUnMarshalling), Nothing)
PutCharacteristicProfileBatchInner ==
    Serve("PutCharacteristicProfileBatch", CharProfilesUnMarshalling, Nothing)
SubscribeDeviceProfileInitedInner ==
    Serve("SubscribeDeviceProfileInited", Same(Int32(<<"saId">>) \o Remote("dpInitedCallback")), Nothing)
UnSubscribeDeviceProfileInitedInner ==
    Serve("UnSubscribeDeviceProfileInited", Same(Int32(<<"saId">>)), Nothing)
PutAllTrustedDevicesInner == Serve("PutAllTrustedDevices", TrustedDevicesUnMarshalling, Nothing)
PutDeviceProfileBatchInner == Serve("PutDeviceProfileBatch", DeviceProfilesUnMarshalling, Nothing)
GetDeviceProfilesInner ==
    Serve("GetDeviceProfiles", DeviceProfileFilterUnMarshalling, DeviceProfilesMarshalling)
GetDeviceIconInfosInner == Serve("GetDeviceIconInfos", IconFilterUnMarshalling, IconInfosMarshalling)
PutDeviceIconInfoBatchInner == Serve("PutDeviceIconInfoBatch", IconInfosUnMarshalling, Nothing)
PutProductInfoBatchInner == Serve("PutProductInfoBatch", ProductInfosUnMarshalling, Nothing)
DeleteDeviceProfileBatchInner == Serve("DeleteDeviceProfileBatch", DeviceProfilesUnMarshalling, Nothing)
SubscribePinCodeInvalidInner ==
    Serve("SubscribePinCodeInvalid",
          Same(String(<<"bundleName">>) \o Int32(<<"pinExchangeType">>) \o Remote("pinCodeCallback")),
          Nothing)
UnSubscribePinCodeInvalidInner ==
    Serve("UnSubscribePinCodeInvalid",
          Same(String(<<"bundleName">>) \o Int32(<<"pinExchangeType">>)),
          Nothing)
SubscribeAllServiceInfoInner ==
    Serve("SubscribeAllServiceInfo", Same(Int32(<<"saId">>) \o Remote("listener")), Nothing)
PutServiceInfoInner == Serve("PutServiceInfo", Same(ServiceInfoUnMarshalling), Nothing)
DeleteServiceInfoInner == Serve("DeleteServiceInfo", Same(UserInfoUnMarshalling), Nothing)
GetAllServiceInfoListInner == Serve("GetAllServiceInfoList", Nothing, ServiceInfosMarshalling)
GetServiceInfosByUserInfoInner ==
    Serve("GetServiceInfosByUserInfo", Same(UserInfoUnMarshalling), ServiceInfosMarshalling)
GetDeviceProfileInner ==
    Serve("GetDeviceProfile",
          Same(String(<<"deviceId">>) \o Word(<<"isMultiUser">>) \o Int32(<<"userId">>)),
          Same(DeviceProfileMarshalling))
GetServiceProfileInner ==
    Serve("GetServiceProfile",
          Same(String(<<"deviceId", "serviceName">>) \o Word(<<"isMultiUser">>) \o Int32(<<"userId">>)),
          Same(ServiceProfileMarshalling))
GetCharacteristicProfileInner ==
    Serve("GetCharacteristicProfile",
          Same(String(<<"deviceId", "serviceName", "characteristicKey">>) \o Word(<<"isMultiUser">>)
              \o Int32(<<"userId">>)),
          Same(CharacteristicProfileMarshalling))
DeleteServiceProfileInner ==
    Serve("DeleteServiceProfile",
          Same(String(<<"deviceId", "serviceName">>) \o Word(<<"isMultiUser">>) \o Int32(<<"userId">>)),
          Nothing)
DeleteCharacteristicProfileInner ==
    Serve("DeleteCharacteristicProfile",
          Same(String(<<"deviceId", "serviceName", "characteristicKey">>) \o Word(<<"isMultiUser">>)
              \o Int32(<<"userId">>)),
          Nothing)
SyncDeviceProfileInner ==
    Serve("SyncDeviceProfile",
          [n \in Sizes |-> SyncOptionsUnMarshalling[n]
              \o Unchecked(Remote("syncCompletedCallback"))], Nothing)
SyncStaticProfileInner ==
    Serve("SyncStaticProfile",
          [n \in Sizes |-> SyncOptionsUnMarshalling[n]
              \o Unchecked(Remote("syncCompletedCallback"))], Nothing)
PutLocalServiceInfoInner == Serve("PutLocalServiceInfo", Same(LocalServiceInfoUnMarshalling), Nothing)
UpdateLocalServiceInfoInner == Serve("UpdateLocalServiceInfo", Same(LocalServiceInfoUnMarshalling), Nothing)
GetLocalServiceInfoByBundleAndPinTypeInner ==
    Serve("GetLocalServiceInfoByBundleAndPinType",
          Same(String(<<"bundleName">>) \o Int32(<<"pinExchangeType">>)),
          Same(LocalServiceInfoMarshalling))
DeleteLocalServiceInfoInner ==
    Serve("DeleteLocalServiceInfo", Same(String(<<"bundleName">>) \o Int32(<<"pinExchangeType">>)), Nothing)
RegisterBusinessCallbackInner ==
    Serve("RegisterBusinessCallback",
          Same(String(<<"saId", "businessKey">>) \o Remote("businessCallback")),
          Nothing)
UnRegisterBusinessCallbackInner ==
    Serve("UnRegisterBusinessCallback", Same(String(<<"saId", "businessKey">>)), Nothing)
PutBusinessEventInner == Serve("PutBusinessEvent", Same(BusinessEventUnMarshalling), Nothing)
GetBusinessEventInner ==
    Serve("GetBusinessEvent", Same(BusinessEventUnMarshalling), Same(BusinessEventMarshalling))

NotifyServiceInfoEventInner(code) ==
    CASE code = "SUBSCRIBE_SERVICE_INFO_CALLBACK" -> SubscribeAllServiceInfoInner
      [] code = "PUT_SERVICE_INFO" -> PutServiceInfoInner
      [] code = "DELETE_SERVICE_INFO" -> DeleteServiceInfoInner
      [] code = "GET_ALL_SERVICE_INFO_LIST" -> GetAllServiceInfoListInner
      [] code = "GET_SERVICE_INFO_BY_USER_INFO" -> GetServiceInfosByUserInfoInner

NotifyProfileDataEventInner(code) ==
    CASE code = "SUBSCRIBE_DEVICE_PROFILE" -> SubscribeDeviceProfileInner
      [] code = "UNSUBSCRIBE_DEVICE_PROFILE" -> UnSubscribeDeviceProfileInner
      [] code = "SEND_SUBSCRIBE_INFOS" -> SendSubscribeInfosInner
      [] code = "PUT_SERVICE_PROFILE" -> PutServiceProfileInner
      [] code = "PUT_SERVICE_PROFILE_BATCH" -> PutServiceProfileBatchInner
      [] code = "PUT_CHAR_PROFILE" -> PutCharacteristicProfileInner
      [] code = "PUT_CHAR_PROFILE_BATCH" -> PutCharacteristicProfileBatchInner
      [] code = "SUBSCRIBE_DEVICE_PROFILE_INITED" -> SubscribeDeviceProfileInitedInner
      [] code = "UNSUBSCRIBE_DEVICE_PROFILE_INITED" -> UnSubscribeDeviceProfileInitedInner
      [] code = "PUT_ALL_TRUSTED_DEVICES" -> PutAllTrustedDevicesInner
      [] code = "PUT_DEVICE_PROFILE_BATCH" -> PutDeviceProfileBatchInner
      [] code = "GET_DEVICE_PROFILES" -> GetDeviceProfilesInner
      [] code = "GET_DEVICE_ICON_INFOS" -> GetDeviceIconInfosInner
      [] code = "PUT_DEVICE_ICON_INFO_BATCH" -> PutDeviceIconInfoBatchInner
      [] code = "PUT_PRODUCT_INFO_BATCH" -> PutProductInfoBatchInner
      [] code = "DELETE_DEVICE_PROFILE_BATCH" -> DeleteDeviceProfileBatchInner
      [] code = "SUBSCRIBE_PINCODE_INVALID" -> SubscribePinCodeInvalidInner
      [] code = "UNSUBSCRIBE_PINCODE_INVALID" -> UnSubscribePinCodeInvalidInner
      [] OTHER -> NotifyServiceInfoEventInner(code)

NotifyAclEventInner(code) ==
    CASE code = "PUT_ACL_PROFILE" -> PutAccessControlProfileInner
      [] code = "UPDATE_ACL_PROFILE" -> UpdateAccessControlProfileInner
      [] code = "GET_TRUST_DEVICE_PROFILE" -> GetTrustDeviceProfileInner
      [] code = "GET_ALL_TRUST_DEVICE_PROFILE" -> GetAllTrustDeviceProfileInner
      [] code = "GET_ACL_PROFILE" -> GetAccessControlProfileInner
      [] code = "GET_ALL_ACL_PROFILE" -> GetAllAccessControlProfileInner
      [] code = "GET_ALL_ACL_INCLUDE_LNN_ACL" -> GetAllAclIncludeLnnAclInner
      [] code = "DELETE_ACL_PROFILE" -> DeleteAccessControlProfileInner
      [] code = "PUT_SESSION_KEY" -> PutSessionKeyInner
      [] code = "GET_SESSION_KEY" -> GetSessionKeyInner
      [] code = "GET_SESSION_KEY_BY_SESSIONKEYID" -> GetSessionKeyBySessionKeyIdInner
      [] code = "UPDATE_SESSION_KEY" -> UpdateSessionKeyInner
      [] code = "DELETE_SESSION_KEY" -> DeleteSessionKeyInner
      [] OTHER -> NotifyProfileDataEventInner(code)

NotifyLocalServiceEventInner(code) ==
    CASE code = "PUT_LOCAL_SERVICE_INFO" -> PutLocalServiceInfoInner
      [] code = "UPDATE_LOCAL_SERVICE_INFO" -> UpdateLocalServiceInfoInner
      [] code = "GET_LOCAL_SERVICE_INFO_BY_BINDLE_AND_PINTYPE" -> GetLocalServiceInfoByBundleAndPinTypeInner
      [] code = "DELETE_LOCAL_SERVICE_INFO" -> DeleteLocalServiceInfoInner
      [] code = "REGISTER_BUSINESS_CALLBACK" -> RegisterBusinessCallbackInner
      [] code = "UNREGISTER_BUSINESS_CALLBACK" -> UnRegisterBusinessCallbackInner
      [] code = "PUT_BUSINESS_EVENT" -> PutBusinessEventInner
      [] code = "GET_BUSINESS_EVENT" -> GetBusinessEventInner

NotifyEventInner(code) ==
    CASE code = "GET_DEVICE_PROFILE_NEW" -> GetDeviceProfileInner
      [] code = "GET_SERVICE_PROFILE" -> GetServiceProfileInner
      [] code = "GET_CHAR_PROFILE" -> GetCharacteristicProfileInner
      [] code = "DEL_SERVICE_PROFILE" -> DeleteServiceProfileInner
      [] code = "DEL_CHAR_PROFILE" -> DeleteCharacteristicProfileInner
      [] code = "SYNC_DEVICE_PROFILE_NEW" -> SyncDeviceProfileInner
      [] code = "SYNC_STATIC_PROFILE" -> SyncStaticProfileInner
      [] OTHER -> NotifyLocalServiceEventInner(code)

\* The codes that are served before the service is initialised.
aclAndSubscribeFuncs ==
    {"PUT_ACL_PROFILE", "UPDATE_ACL_PROFILE", "GET_TRUST_DEVICE_PROFILE",
    "GET_ALL_TRUST_DEVICE_PROFILE", "GET_ACL_PROFILE", "GET_ALL_ACL_PROFILE",
    "GET_ALL_ACL_INCLUDE_LNN_ACL", "DELETE_ACL_PROFILE", "PUT_SESSION_KEY", "GET_SESSION_KEY",
    "GET_SESSION_KEY_BY_SESSIONKEYID", "UPDATE_SESSION_KEY", "DELETE_SESSION_KEY",
    "SUBSCRIBE_DEVICE_PROFILE", "UNSUBSCRIBE_DEVICE_PROFILE", "SEND_SUBSCRIBE_INFOS",
    "PUT_SERVICE_PROFILE", "PUT_SERVICE_PROFILE_BATCH", "PUT_CHAR_PROFILE",
    "PUT_CHAR_PROFILE_BATCH", "SUBSCRIBE_DEVICE_PROFILE_INITED",
    "UNSUBSCRIBE_DEVICE_PROFILE_INITED", "PUT_ALL_TRUSTED_DEVICES", "PUT_DEVICE_PROFILE_BATCH",
    "GET_DEVICE_PROFILES", "GET_DEVICE_ICON_INFOS", "PUT_DEVICE_ICON_INFO_BATCH",
    "PUT_PRODUCT_INFO_BATCH", "DELETE_DEVICE_PROFILE_BATCH", "SUBSCRIBE_PINCODE_INVALID",
    "UNSUBSCRIBE_PINCODE_INVALID", "SUBSCRIBE_SERVICE_INFO_CALLBACK", "PUT_SERVICE_INFO",
    "DELETE_SERVICE_INFO", "GET_ALL_SERVICE_INFO_LIST", "GET_SERVICE_INFO_BY_USER_INFO"}

Dispatch(code) ==
    IF code \in aclAndSubscribeFuncs THEN NotifyAclEventInner(code) ELSE NotifyEventInner(code)

\* The stubs of the callbacks, in the client.
OnTrustDeviceProfileAddInner == Serve("OnTrustDeviceProfileAdd", TrustDeviceProfileUnMarshalling, Nothing)
OnTrustDeviceProfileDeleteInner ==
    Serve("OnTrustDeviceProfileDelete", TrustDeviceProfileUnMarshalling, Nothing)
OnTrustDeviceProfileUpdateInner ==
    Serve("OnTrustDeviceProfileUpdate", OldAndNew(TrustDeviceProfileUnMarshalling), Nothing)
OnTrustDeviceProfileActiveInner ==
    Serve("OnTrustDeviceProfileActive", TrustDeviceProfileUnMarshalling, Nothing)
OnTrustDeviceProfileInactiveInner ==
    Serve("OnTrustDeviceProfileInactive", TrustDeviceProfileUnMarshalling, Nothing)
OnDeviceAclInactiveByDeleteInner ==
    Serve("OnDeviceAclInactiveByDelete", TrustDeviceProfileUnMarshalling, Nothing)
OnDeviceAclInactiveByUpdateInner ==
    Serve("OnDeviceAclInactiveByUpdate", TrustDeviceProfileUnMarshalling, Nothing)
OnAccountAclDeleteInner == Serve("OnAccountAclDelete", TrustDeviceProfileUnMarshalling, Nothing)
OnAccountAclInactiveInner == Serve("OnAccountAclInactive", TrustDeviceProfileUnMarshalling, Nothing)
OnAccountAclAddInner == Serve("OnAccountAclAdd", TrustDeviceProfileUnMarshalling, Nothing)
OnAccountAclActiveInner == Serve("OnAccountAclActive", TrustDeviceProfileUnMarshalling, Nothing)
OnDeviceProfileAddInner == Serve("OnDeviceProfileAdd", Same(DeviceProfileUnMarshalling), Nothing)
OnDeviceProfileDeleteInner == Serve("OnDeviceProfileDelete", Same(DeviceProfileUnMarshalling), Nothing)
OnDeviceProfileUpdateInner ==
    Serve("OnDeviceProfileUpdate", OldAndNew(Same(DeviceProfileUnMarshalling)), Nothing)
OnServiceProfileAddInner == Serve("OnServiceProfileAdd", Same(ServiceProfileUnMarshalling), Nothing)
OnServiceProfileDeleteInner == Serve("OnServiceProfileDelete", Same(ServiceProfileUnMarshalling), Nothing)
OnServiceProfileUpdateInner ==
    Serve("OnServiceProfileUpdate", OldAndNew(Same(ServiceProfileUnMarshalling)), Nothing)
OnCharacteristicProfileAddInner ==
    Serve("OnCharacteristicProfileAdd", Same(CharacteristicProfileUnMarshalling), Nothing)
OnCharacteristicProfileDeleteInner ==
    Serve("OnCharacteristicProfileDelete", Same(CharacteristicProfileUnMarshalling), Nothing)
OnCharacteristicProfileUpdateInner ==
    Serve("OnCharacteristicProfileUpdate", OldAndNew(Same(CharacteristicProfileUnMarshalling)), Nothing)
OnDpInitedInner == Serve("OnDpInited", Nothing, Nothing)
OnPincodeInvalidInner == Serve("OnPincodeInvalid", Same(LocalServiceInfoUnMarshalling), Nothing)
OnServiceInfoInsertInner == Serve("OnServiceInfoInsert", ServiceInfosUnMarshalling, Nothing)
OnServiceInfoUpdateInner == Serve("OnServiceInfoUpdate", ServiceInfosUnMarshalling, Nothing)
OnServiceInfoDeleteInner == Serve("OnServiceInfoDelete", ServiceInfosUnMarshalling, Nothing)
OnSyncCompletedInner == Serve("OnSyncCompleted", SyncResultsUnMarshalling, Nothing)

CallbackInners ==
   [OnTrustDeviceProfileAdd |-> OnTrustDeviceProfileAddInner,
    OnTrustDeviceProfileDelete |-> OnTrustDeviceProfileDeleteInner,
    OnTrustDeviceProfileUpdate |-> OnTrustDeviceProfileUpdateInner,
    OnTrustDeviceProfileActive |-> OnTrustDeviceProfileActiveInner,
    OnTrustDeviceProfileInactive |-> OnTrustDeviceProfileInactiveInner,
    OnDeviceAclInactiveByDelete |-> OnDeviceAclInactiveByDeleteInner,
    OnDeviceAclInactiveByUpdate |-> OnDeviceAclInactiveByUpdateInner,
    OnAccountAclDelete |-> OnAccountAclDeleteInner, OnAccountAclInactive |-> OnAccountAclInactiveInner,
    OnAccountAclAdd |-> OnAccountAclAddInner, OnAccountAclActive |-> OnAccountAclActiveInner,
    OnDeviceProfileAdd |-> OnDeviceProfileAddInner, OnDeviceProfileDelete |-> OnDeviceProfileDeleteInner,
    OnDeviceProfileUpdate |-> OnDeviceProfileUpdateInner, OnServiceProfileAdd |-> OnServiceProfileAddInner,
    OnServiceProfileDelete |-> OnServiceProfileDeleteInner,
    OnServiceProfileUpdate |-> OnServiceProfileUpdateInner,
    OnCharacteristicProfileAdd |-> OnCharacteristicProfileAddInner,
    OnCharacteristicProfileDelete |-> OnCharacteristicProfileDeleteInner,
    OnCharacteristicProfileUpdate |-> OnCharacteristicProfileUpdateInner, OnDpInited |-> OnDpInitedInner,
    OnPincodeInvalid |-> OnPincodeInvalidInner, OnServiceInfoInsert |-> OnServiceInfoInsertInner,
    OnServiceInfoUpdate |-> OnServiceInfoUpdateInner, OnServiceInfoDelete |-> OnServiceInfoDeleteInner,
    OnSyncCompleted |-> OnSyncCompletedInner]

\* ProfileChangeListenerStub answers DP_SUCCESS whatever the listener returns.
ListenerCallbacks ==
    {"OnTrustDeviceProfileAdd", "OnTrustDeviceProfileDelete", "OnTrustDeviceProfileUpdate",
    "OnTrustDeviceProfileActive", "OnTrustDeviceProfileInactive", "OnDeviceAclInactiveByDelete",
    "OnDeviceAclInactiveByUpdate", "OnAccountAclDelete", "OnAccountAclInactive", "OnAccountAclAdd",
    "OnAccountAclActive", "OnDeviceProfileAdd", "OnDeviceProfileDelete", "OnDeviceProfileUpdate",
    "OnServiceProfileAdd", "OnServiceProfileDelete", "OnServiceProfileUpdate",
    "OnCharacteristicProfileAdd", "OnCharacteristicProfileDelete", "OnCharacteristicProfileUpdate"}
=============================================================================
