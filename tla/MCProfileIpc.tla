----------------------------- MODULE MCProfileIpc -----------------------------
EXTENDS ProfileIpc

Lists(procs, names) == [name \in names |-> procs]

\* permission/permission.json.
MCPermissionJson ==
    Lists({"device_manager", "softbus_server"},
         {"PutAccessControlProfile", "UpdateAccessControlProfile",
          "DeleteAccessControlProfile", "GetTrustDeviceProfile", "GetAllTrustDeviceProfile",
          "GetAllAccessControlProfile", "GetAllAclIncludeLnnAcl", "PutSessionKey",
          "GetSessionKey", "UpdateSessionKey", "DeleteSessionKey"})
    @@ Lists({"device_manager", "softbus_server", "iShare"},
         {"GetAccessControlProfile"})
    @@ Lists({"device_manager"},
         {"PutAllTrustedDevices", "PutServiceInfoProfile", "DeleteServiceInfoProfile",
          "UpdateServiceInfoProfile", "GetServiceInfoProfileByUniqueKey",
          "GetServiceInfoProfileListByTokenId", "GetAllServiceInfoProfileList",
          "GetServiceInfoProfileListByBundleName", "PutServiceInfo", "DeleteServiceInfo",
          "GetAllServiceInfoList", "GetServiceInfosByUserInfo", "PutLocalServiceInfo",
          "UpdateLocalServiceInfo", "GetLocalServiceInfoByBundleAndPinType",
          "DeleteLocalServiceInfo", "PutDeviceProfileBatch", "DeleteDeviceProfileBatch",
          "GetDeviceProfiles", "PutProductInfoBatch", "PutDeviceIconInfoBatch",
          "GetDeviceIconInfos"})
    @@ Lists({"all"},
         {"PutServiceProfile", "PutServiceProfileBatch", "PutCharacteristicProfile",
          "PutCharacteristicProfileBatch", "GetDeviceProfile", "GetServiceProfile",
          "GetCharacteristicProfile", "DeleteServiceProfile", "DeleteCharacteristicProfile",
          "SubscribeDeviceProfile", "UnSubscribeDeviceProfile", "SyncDeviceProfile"})

\* A process that every interface lists, one of each other kind of process, and
\* the trusted one without one of its permissions or without a native token.
Caller(token, proc, access, sync) == [token |-> token, proc |-> proc, access |-> access, sync |-> sync]
DeviceManager == Caller("native", "device_manager", TRUE, TRUE)
MCCallers ==
    {DeviceManager} \cup {Caller("native", proc, TRUE, TRUE) : proc \in {"softbus_server", "iShare", "other"}}
    \cup {Caller("native", "device_manager", FALSE, TRUE), Caller("native", "device_manager", TRUE, FALSE),
          Caller("hap", "device_manager", TRUE, TRUE)}

\* One icon; an empty one and another; two around one that is too large.  Change types of
\* which the second of three is out of range.
MCIconSizes == [n \in Sizes |-> CASE n = 2 -> <<0, 1>> [] n = 3 -> <<1, 4, 2>> [] OTHER -> [i \in 1 .. n |-> 1]]
MCInRange == [n \in Sizes |-> IF n = 3 THEN {1, 3} ELSE 1 .. n]

\* Every number of elements in both directions; every caller; and a parcel
\* that is full at the beginning, within the first and within a later element.
Input(caller, n, full, m, rfull) == [caller |-> caller, n |-> n, full |-> full, m |-> m, rfull |-> rfull]
MCEarlyInputs == {Input(c, 1, 0, 1, 0) : c \in Callers}
MCInputs ==
    {Input(DeviceManager, n, 0, m, 0) : n, m \in Sizes}
    \cup MCEarlyInputs
    \cup {Input(DeviceManager, n, full, 1, 0) : n \in {1, 2}, full \in {1, 2, 4, 14, 17, 29}}
    \cup {Input(DeviceManager, 1, 0, m, rfull) : m \in {1, 2}, rfull \in {1, 2, 20}}
=============================================================================
