--------------------------- MODULE ProfileProxies ---------------------------
(***************************************************************************)
(* The proxies of the client and of the callbacks: for each call a code,   *)
(* what is written after it, and what is read back.                        *)
(***************************************************************************)
EXTENDS Parcels

Request(code, args, results) == [code |-> code, args |-> args, results |-> results]

ProxyPutAccessControlProfile == Request("PUT_ACL_PROFILE", Same(AccessControlProfileMarshalling), Nothing)
ProxyUpdateAccessControlProfile ==
    Request("UPDATE_ACL_PROFILE", Same(AccessControlProfileMarshalling), Nothing)
ProxyGetTrustDeviceProfile ==
    Request("GET_TRUST_DEVICE_PROFILE", Same(String(<<"deviceId">>)), TrustDeviceProfileUnMarshalling)
ProxyGetAllTrustDeviceProfile ==
    Request("GET_ALL_TRUST_DEVICE_PROFILE", Nothing, TrustDeviceProfilesUnMarshalling)
ProxyGetAccessControlProfile == Request("GET_ACL_PROFILE", ParamsMarshalling, AclProfilesUnMarshalling)
ProxyGetAllAccessControlProfile == Request("GET_ALL_ACL_PROFILE", Nothing, AclProfilesUnMarshalling)
ProxyGetAllAclIncludeLnnAcl == Request("GET_ALL_ACL_INCLUDE_LNN_ACL", Nothing, AclProfilesUnMarshalling)
ProxyDeleteAccessControlProfile ==
    Request("DELETE_ACL_PROFILE", Same(Int32(<<"accessControlId">>)), Nothing)
ProxyPutSessionKey ==
    Request("PUT_SESSION_KEY",
            [n \in Sizes |-> Uint32(<<"userId">>) \o BytesMarshalling[n]], Same(Int32(<<"sessionKeyId">>)))
ProxyGetSessionKey ==
    Request("GET_SESSION_KEY", Same(Uint32(<<"userId">>) \o Int32(<<"sessionKeyId">>)), BytesUnMarshalling)
ProxyGetSessionKeyBySessionKeyId ==
    Request("GET_SESSION_KEY_BY_SESSIONKEYID", Same(Int32(<<"sessionKeyId">>)), BytesUnMarshalling)
ProxyUpdateSessionKey ==
    Request("UPDATE_SESSION_KEY",
            [n \in Sizes |-> Uint32(<<"userId">>) \o Int32(<<"sessionKeyId">>)
                \o BytesMarshalling[n]], Nothing)
ProxyDeleteSessionKey ==
    Request("DELETE_SESSION_KEY", Same(Uint32(<<"userId">>) \o Int32(<<"sessionKeyId">>)), Nothing)
ProxySubscribeDeviceProfile == Request("SUBSCRIBE_DEVICE_PROFILE", SubscribeInfoMarshalling, Nothing)
ProxyUnSubscribeDeviceProfile == Request("UNSUBSCRIBE_DEVICE_PROFILE", SubscribeInfoMarshalling, Nothing)
ProxySendSubscribeInfos == Request("SEND_SUBSCRIBE_INFOS", ListenerMapMarshalling, Nothing)
ProxyPutServiceProfile == Request("PUT_SERVICE_PROFILE", Same(ServiceProfileMarshalling), Nothing)
ProxyPutServiceProfileBatch == Request("PUT_SERVICE_PROFILE_BATCH", ServiceProfilesMarshalling, Nothing)
ProxyPutCharacteristicProfile ==
    Request("PUT_CHAR_PROFILE", Same(CharacteristicProfileMarshalling), Nothing)
ProxyPutCharacteristicProfileBatch == Request("PUT_CHAR_PROFILE_BATCH", CharProfilesMarshalling, Nothing)
ProxySubscribeDeviceProfileInited ==
    Request("SUBSCRIBE_DEVICE_PROFILE_INITED",
            Same(Int32(<<"saId">>) \o Remote("dpInitedCallback")),
            Nothing)
ProxyUnSubscribeDeviceProfileInited ==
    Request("UNSUBSCRIBE_DEVICE_PROFILE_INITED", Same(Int32(<<"saId">>)), Nothing)
ProxyPutAllTrustedDevices == Request("PUT_ALL_TRUSTED_DEVICES", TrustedDevicesMarshalling, Nothing)
ProxyPutDeviceProfileBatch == Request("PUT_DEVICE_PROFILE_BATCH", DeviceProfilesMarshalling, Nothing)
ProxyGetDeviceProfiles ==
    Request("GET_DEVICE_PROFILES", DeviceProfileFilterMarshalling, DeviceProfilesUnMarshalling)
ProxyGetDeviceIconInfos == Request("GET_DEVICE_ICON_INFOS", IconFilterMarshalling, IconInfosUnMarshalling)
ProxyPutDeviceIconInfoBatch == Request("PUT_DEVICE_ICON_INFO_BATCH", IconInfosMarshalling, Nothing)
ProxyPutProductInfoBatch == Request("PUT_PRODUCT_INFO_BATCH", ProductInfosMarshalling, Nothing)
ProxyDeleteDeviceProfileBatch == Request("DELETE_DEVICE_PROFILE_BATCH", DeviceProfilesMarshalling, Nothing)
ProxySubscribePinCodeInvalid ==
    Request("SUBSCRIBE_PINCODE_INVALID",
            Same(String(<<"bundleName">>) \o Int32(<<"pinExchangeType">>) \o Remote("pinCodeCallback")),
            Nothing)
ProxyUnSubscribePinCodeInvalid ==
    Request("UNSUBSCRIBE_PINCODE_INVALID",
            Same(String(<<"bundleName">>) \o Int32(<<"pinExchangeType">>)),
            Nothing)
ProxySubscribeAllServiceInfo ==
    Request("SUBSCRIBE_SERVICE_INFO_CALLBACK", Same(Int32(<<"saId">>) \o Remote("listener")), Nothing)
ProxyPutServiceInfo == Request("PUT_SERVICE_INFO", Same(ServiceInfoMarshalling), Nothing)
ProxyDeleteServiceInfo == Request("DELETE_SERVICE_INFO", Same(UserInfoMarshalling), Nothing)
ProxyGetAllServiceInfoList == Request("GET_ALL_SERVICE_INFO_LIST", Nothing, ServiceInfosUnMarshalling)
ProxyGetServiceInfosByUserInfo ==
    Request("GET_SERVICE_INFO_BY_USER_INFO", Same(UserInfoMarshalling), ServiceInfosUnMarshalling)
ProxyGetDeviceProfile ==
    Request("GET_DEVICE_PROFILE_NEW",
            Same(String(<<"deviceId">>) \o Word(<<"isMultiUser">>) \o Int32(<<"userId">>)),
            Same(DeviceProfileUnMarshalling))
ProxyGetServiceProfile ==
    Request("GET_SERVICE_PROFILE",
            Same(String(<<"deviceId", "serviceName">>) \o Word(<<"isMultiUser">>) \o Int32(<<"userId">>)),
            Same(ServiceProfileUnMarshalling))
ProxyGetCharacteristicProfile ==
    Request("GET_CHAR_PROFILE",
            Same(String(<<"deviceId", "serviceName", "characteristicKey">>) \o Word(<<"isMultiUser">>)
                \o Int32(<<"userId">>)),
            Same(CharacteristicProfileUnMarshalling))
ProxyDeleteServiceProfile ==
    Request("DEL_SERVICE_PROFILE",
            Same(String(<<"deviceId", "serviceName">>) \o Word(<<"isMultiUser">>) \o Int32(<<"userId">>)),
            Nothing)
ProxyDeleteCharacteristicProfile ==
    Request("DEL_CHAR_PROFILE",
            Same(String(<<"deviceId", "serviceName", "characteristicKey">>) \o Word(<<"isMultiUser">>)
                \o Int32(<<"userId">>)),
            Nothing)
ProxySyncDeviceProfile ==
    Request("SYNC_DEVICE_PROFILE_NEW",
            [n \in Sizes |-> SyncOptionsMarshalling[n] \o Remote("syncCompletedCallback")], Nothing)
ProxySyncStaticProfile ==
    Request("SYNC_STATIC_PROFILE",
            [n \in Sizes |-> SyncOptionsMarshalling[n] \o Remote("syncCompletedCallback")], Nothing)
ProxyPutLocalServiceInfo == Request("PUT_LOCAL_SERVICE_INFO", Same(LocalServiceInfoMarshalling), Nothing)
ProxyUpdateLocalServiceInfo ==
    Request("UPDATE_LOCAL_SERVICE_INFO", Same(LocalServiceInfoMarshalling), Nothing)
ProxyGetLocalServiceInfoByBundleAndPinType ==
    Request("GET_LOCAL_SERVICE_INFO_BY_BINDLE_AND_PINTYPE",
            Same(String(<<"bundleName">>) \o Int32(<<"pinExchangeType">>)),
            Same(LocalServiceInfoUnMarshalling))
ProxyDeleteLocalServiceInfo ==
    Request("DELETE_LOCAL_SERVICE_INFO",
            Same(String(<<"bundleName">>) \o Int32(<<"pinExchangeType">>)),
            Nothing)
ProxyRegisterBusinessCallback ==
    Request("REGISTER_BUSINESS_CALLBACK",
            Same(String(<<"saId", "businessKey">>) \o Remote("businessCallback")),
            Nothing)
ProxyUnRegisterBusinessCallback ==
    Request("UNREGISTER_BUSINESS_CALLBACK", Same(String(<<"saId", "businessKey">>)), Nothing)
ProxyPutBusinessEvent == Request("PUT_BUSINESS_EVENT", Same(BusinessEventMarshalling), Nothing)
ProxyGetBusinessEvent ==
    Request("GET_BUSINESS_EVENT", Same(BusinessEventMarshalling), Same(BusinessEventUnMarshalling))

Proxies ==
   [PutAccessControlProfile |-> ProxyPutAccessControlProfile,
    UpdateAccessControlProfile |-> ProxyUpdateAccessControlProfile,
    GetTrustDeviceProfile |-> ProxyGetTrustDeviceProfile,
    GetAllTrustDeviceProfile |-> ProxyGetAllTrustDeviceProfile,
    GetAccessControlProfile |-> ProxyGetAccessControlProfile,
    GetAllAccessControlProfile |-> ProxyGetAllAccessControlProfile,
    GetAllAclIncludeLnnAcl |-> ProxyGetAllAclIncludeLnnAcl,
    DeleteAccessControlProfile |-> ProxyDeleteAccessControlProfile, PutSessionKey |-> ProxyPutSessionKey,
    GetSessionKey |-> ProxyGetSessionKey, GetSessionKeyBySessionKeyId |-> ProxyGetSessionKeyBySessionKeyId,
    UpdateSessionKey |-> ProxyUpdateSessionKey, DeleteSessionKey |-> ProxyDeleteSessionKey,
    SubscribeDeviceProfile |-> ProxySubscribeDeviceProfile,
    UnSubscribeDeviceProfile |-> ProxyUnSubscribeDeviceProfile,
    SendSubscribeInfos |-> ProxySendSubscribeInfos, PutServiceProfile |-> ProxyPutServiceProfile,
    PutServiceProfileBatch |-> ProxyPutServiceProfileBatch,
    PutCharacteristicProfile |-> ProxyPutCharacteristicProfile,
    PutCharacteristicProfileBatch |-> ProxyPutCharacteristicProfileBatch,
    SubscribeDeviceProfileInited |-> ProxySubscribeDeviceProfileInited,
    UnSubscribeDeviceProfileInited |-> ProxyUnSubscribeDeviceProfileInited,
    PutAllTrustedDevices |-> ProxyPutAllTrustedDevices,
    PutDeviceProfileBatch |-> ProxyPutDeviceProfileBatch, GetDeviceProfiles |-> ProxyGetDeviceProfiles,
    GetDeviceIconInfos |-> ProxyGetDeviceIconInfos, PutDeviceIconInfoBatch |-> ProxyPutDeviceIconInfoBatch,
    PutProductInfoBatch |-> ProxyPutProductInfoBatch,
    DeleteDeviceProfileBatch |-> ProxyDeleteDeviceProfileBatch,
    SubscribePinCodeInvalid |-> ProxySubscribePinCodeInvalid,
    UnSubscribePinCodeInvalid |-> ProxyUnSubscribePinCodeInvalid,
    SubscribeAllServiceInfo |-> ProxySubscribeAllServiceInfo, PutServiceInfo |-> ProxyPutServiceInfo,
    DeleteServiceInfo |-> ProxyDeleteServiceInfo, GetAllServiceInfoList |-> ProxyGetAllServiceInfoList,
    GetServiceInfosByUserInfo |-> ProxyGetServiceInfosByUserInfo,
    GetDeviceProfile |-> ProxyGetDeviceProfile, GetServiceProfile |-> ProxyGetServiceProfile,
    GetCharacteristicProfile |-> ProxyGetCharacteristicProfile,
    DeleteServiceProfile |-> ProxyDeleteServiceProfile,
    DeleteCharacteristicProfile |-> ProxyDeleteCharacteristicProfile,
    SyncDeviceProfile |-> ProxySyncDeviceProfile, SyncStaticProfile |-> ProxySyncStaticProfile,
    PutLocalServiceInfo |-> ProxyPutLocalServiceInfo,
    UpdateLocalServiceInfo |-> ProxyUpdateLocalServiceInfo,
    GetLocalServiceInfoByBundleAndPinType |-> ProxyGetLocalServiceInfoByBundleAndPinType,
    DeleteLocalServiceInfo |-> ProxyDeleteLocalServiceInfo,
    RegisterBusinessCallback |-> ProxyRegisterBusinessCallback,
    UnRegisterBusinessCallback |-> ProxyUnRegisterBusinessCallback,
    PutBusinessEvent |-> ProxyPutBusinessEvent, GetBusinessEvent |-> ProxyGetBusinessEvent]

\* The callbacks, whose proxies are in the service.
ProxyOnTrustDeviceProfileAdd == Request("OnTrustDeviceProfileAdd", TrustDeviceProfileMarshalling, Nothing)
ProxyOnTrustDeviceProfileDelete ==
    Request("OnTrustDeviceProfileDelete", TrustDeviceProfileMarshalling, Nothing)
ProxyOnTrustDeviceProfileUpdate ==
    Request("OnTrustDeviceProfileUpdate", OldAndNew(TrustDeviceProfileMarshalling), Nothing)
ProxyOnTrustDeviceProfileActive ==
    Request("OnTrustDeviceProfileActive", TrustDeviceProfileMarshalling, Nothing)
ProxyOnTrustDeviceProfileInactive ==
    Request("OnTrustDeviceProfileInactive", TrustDeviceProfileMarshalling, Nothing)
ProxyOnDeviceAclInactiveByDelete ==
    Request("OnDeviceAclInactiveByDelete", TrustDeviceProfileMarshalling, Nothing)
ProxyOnDeviceAclInactiveByUpdate ==
    Request("OnDeviceAclInactiveByUpdate", TrustDeviceProfileMarshalling, Nothing)
ProxyOnAccountAclDelete == Request("OnAccountAclDelete", TrustDeviceProfileMarshalling, Nothing)
ProxyOnAccountAclInactive == Request("OnAccountAclInactive", TrustDeviceProfileMarshalling, Nothing)
ProxyOnAccountAclAdd == Request("OnAccountAclAdd", TrustDeviceProfileMarshalling, Nothing)
ProxyOnAccountAclActive == Request("OnAccountAclActive", TrustDeviceProfileMarshalling, Nothing)
ProxyOnDeviceProfileAdd == Request("OnDeviceProfileAdd", Same(DeviceProfileMarshalling), Nothing)
ProxyOnDeviceProfileDelete == Request("OnDeviceProfileDelete", Same(DeviceProfileMarshalling), Nothing)
ProxyOnDeviceProfileUpdate ==
    Request("OnDeviceProfileUpdate", OldAndNew(Same(DeviceProfileMarshalling)), Nothing)
ProxyOnServiceProfileAdd == Request("OnServiceProfileAdd", Same(ServiceProfileMarshalling), Nothing)
ProxyOnServiceProfileDelete == Request("OnServiceProfileDelete", Same(ServiceProfileMarshalling), Nothing)
ProxyOnServiceProfileUpdate ==
    Request("OnServiceProfileUpdate", OldAndNew(Same(ServiceProfileMarshalling)), Nothing)
ProxyOnCharacteristicProfileAdd ==
    Request("OnCharacteristicProfileAdd", Same(CharacteristicProfileMarshalling), Nothing)
ProxyOnCharacteristicProfileDelete ==
    Request("OnCharacteristicProfileDelete", Same(CharacteristicProfileMarshalling), Nothing)
ProxyOnCharacteristicProfileUpdate ==
    Request("OnCharacteristicProfileUpdate", OldAndNew(Same(CharacteristicProfileMarshalling)), Nothing)
ProxyOnDpInited == Request("OnDpInited", Nothing, Nothing)
ProxyOnPincodeInvalid == Request("OnPincodeInvalid", Same(LocalServiceInfoMarshalling), Nothing)
ProxyOnServiceInfoInsert == Request("OnServiceInfoInsert", ServiceInfosMarshalling, Nothing)
ProxyOnServiceInfoUpdate == Request("OnServiceInfoUpdate", ServiceInfosMarshalling, Nothing)
ProxyOnServiceInfoDelete == Request("OnServiceInfoDelete", ServiceInfosMarshalling, Nothing)
ProxyOnSyncCompleted == Request("OnSyncCompleted", SyncResultsMarshalling, Nothing)

CallbackProxies ==
   [OnTrustDeviceProfileAdd |-> ProxyOnTrustDeviceProfileAdd,
    OnTrustDeviceProfileDelete |-> ProxyOnTrustDeviceProfileDelete,
    OnTrustDeviceProfileUpdate |-> ProxyOnTrustDeviceProfileUpdate,
    OnTrustDeviceProfileActive |-> ProxyOnTrustDeviceProfileActive,
    OnTrustDeviceProfileInactive |-> ProxyOnTrustDeviceProfileInactive,
    OnDeviceAclInactiveByDelete |-> ProxyOnDeviceAclInactiveByDelete,
    OnDeviceAclInactiveByUpdate |-> ProxyOnDeviceAclInactiveByUpdate,
    OnAccountAclDelete |-> ProxyOnAccountAclDelete, OnAccountAclInactive |-> ProxyOnAccountAclInactive,
    OnAccountAclAdd |-> ProxyOnAccountAclAdd, OnAccountAclActive |-> ProxyOnAccountAclActive,
    OnDeviceProfileAdd |-> ProxyOnDeviceProfileAdd, OnDeviceProfileDelete |-> ProxyOnDeviceProfileDelete,
    OnDeviceProfileUpdate |-> ProxyOnDeviceProfileUpdate, OnServiceProfileAdd |-> ProxyOnServiceProfileAdd,
    OnServiceProfileDelete |-> ProxyOnServiceProfileDelete,
    OnServiceProfileUpdate |-> ProxyOnServiceProfileUpdate,
    OnCharacteristicProfileAdd |-> ProxyOnCharacteristicProfileAdd,
    OnCharacteristicProfileDelete |-> ProxyOnCharacteristicProfileDelete,
    OnCharacteristicProfileUpdate |-> ProxyOnCharacteristicProfileUpdate, OnDpInited |-> ProxyOnDpInited,
    OnPincodeInvalid |-> ProxyOnPincodeInvalid, OnServiceInfoInsert |-> ProxyOnServiceInfoInsert,
    OnServiceInfoUpdate |-> ProxyOnServiceInfoUpdate, OnServiceInfoDelete |-> ProxyOnServiceInfoDelete,
    OnSyncCompleted |-> ProxyOnSyncCompleted]
=============================================================================
