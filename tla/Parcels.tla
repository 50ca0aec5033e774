------------------------------ MODULE Parcels ------------------------------
(***************************************************************************)
(* What the Marshalling and UnMarshalling functions of the interface       *)
(* classes and of IpcUtils write to a parcel and read from it.             *)
(*                                                                         *)
(* A layout is the sequence of writes (or reads) of one call of such a     *)
(* function: of what kind the value is, which field it is (a path, since   *)
(* classes nest), and to which part of the object it belongs.  The first   *)
(* write of a part that fails ends that part: the part << >> is the call   *)
(* itself, whose result the caller checks; another part is a nested call   *)
(* whose result the code ignores, and what follows the part goes on.       *)
(* Layouts of vectors are functions of the number of elements.             *)
(***************************************************************************)
EXTENDS Naturals, Sequences, SequencesExt, FiniteSetsExt, TLC

CONSTANTS
    MaxItems,   \* MAX_PROFILE_SIZE and the other limits of a vector, made small
    Sizes,      \* the numbers of elements considered
    IconSizes,  \* IconSizes[n][i]: the bytes of the icon of element i of a vector of n
    InRange     \* InRange[n]: which of n change types are in the range of ProfileChangeType

ASSUME SizesAssumption ==
    /\ MaxItems \in Nat /\ Sizes \subseteq Nat /\ {0, 1} \subseteq Sizes
    /\ \A n \in Sizes : \A i \in 1 .. n : IconSizes[n][i] \in Sizes

-----------------------------------------------------------------------------
(* Layouts.                                                                *)

Fields(kind, names) == [i \in DOMAIN names |-> [kind |-> kind, at |-> <<names[i]>>, part |-> <<>>]]

Int64(names) == Fields("Int64", names)
Int32(names) == Fields("Int32", names)
Uint32(names) == Fields("Uint32", names)
Word(names) == Fields("Word", names)   \* Bool, Int8, Uint16: one word of a parcel
String(names) == Fields("String", names)
Remote(name) == Fields("Remote", <<name>>)

\* A check that fails: `return false` before anything more is written or read.
Refuse == Fields("Refuse", <<"refused">>)

\* The fields of a nested object whose Marshalling is checked (its failure is
\* that of the object around it) or is ignored.
Within(prefix, part) == IF part = <<>> THEN part ELSE <<prefix>> \o part
Nested(prefix, layout) ==
    [i \in DOMAIN layout |->
        [layout[i] EXCEPT !.at = <<prefix>> \o @, !.part = Within(prefix, @)]]
Ignored(prefix, layout) ==
    [i \in DOMAIN layout |->
        [layout[i] EXCEPT !.at = <<prefix>> \o @, !.part = <<prefix>> \o @]]

\* Reads whose results are ignored one by one.
Unchecked(layout) == [i \in DOMAIN layout |-> [layout[i] EXCEPT !.part = layout[i].at]]

Elements(n, layout) == FlattenSeq([i \in 1 .. n |-> Nested(ToString(i), layout)])
ElementsIgnored(n, layout) == FlattenSeq([i \in 1 .. n |-> Ignored(ToString(i), layout)])

Size == Uint32(<<"size">>)

\* A vector whose size is written first and then found to be empty or too
\* large; one that may be empty.
NonEmpty(n, items) == Size \o (IF n = 0 \/ n > MaxItems THEN Refuse ELSE items)
MaybeEmpty(n, items) == Size \o (IF n > MaxItems THEN Refuse ELSE items)

\* A notification of an update: two objects.
OldAndNew(layouts) == [n \in Sizes |-> Nested("old", layouts[n]) \o Nested("new", layouts[n])]

Same(layout) == [n \in Sizes |-> layout]
Nothing == Same(<<>>)

-----------------------------------------------------------------------------
(* The classes of common/src/interfaces.                                   *)

AccesserMarshalling ==
    Int64(<<"accesserId">>) \o String(<<"accesserDeviceId">>) \o Int32(<<"accesserUserId">>)
    \o String(<<"accesserAccountId">>) \o Int64(<<"accesserTokenId">>)
    \o String(<<"accesserBundleName", "accesserHapSignature">>) \o Uint32(<<"accesserBindLevel">>)
    \o String(<<"accesserDeviceName", "accesserServiceName">>) \o Int32(<<"accesserCredentialId">>)
    \o String(<<"accesserCredentialIdStr">>) \o Int32(<<"accesserStatus", "accesserSessionKeyId">>)
    \o Int64(<<"accesserSKTimeStamp">>) \o String(<<"accesserExtraData">>)

AccesserUnMarshalling ==
    Int64(<<"accesserId">>) \o String(<<"accesserDeviceId">>) \o Int32(<<"accesserUserId">>)
    \o String(<<"accesserAccountId">>) \o Int64(<<"accesserTokenId">>)
    \o String(<<"accesserBundleName", "accesserHapSignature">>) \o Uint32(<<"accesserBindLevel">>)
    \o String(<<"accesserDeviceName", "accesserServiceName">>) \o Int32(<<"accesserCredentialId">>)
    \o String(<<"accesserCredentialIdStr">>) \o Int32(<<"accesserStatus", "accesserSessionKeyId">>)
    \o Int64(<<"accesserSKTimeStamp">>) \o String(<<"accesserExtraData">>)

AccesseeMarshalling ==
    Int64(<<"accesseeId">>) \o String(<<"accesseeDeviceId">>) \o Int32(<<"accesseeUserId">>)
    \o String(<<"accesseeAccountId">>) \o Int64(<<"accesseeTokenId">>)
    \o String(<<"accesseeBundleName", "accesseeHapSignature">>) \o Uint32(<<"accesseeBindLevel">>)
    \o String(<<"accesseeDeviceName", "accesseeServiceName">>) \o Int32(<<"accesseeCredentialId">>)
    \o String(<<"accesseeCredentialIdStr">>) \o Int32(<<"accesseeStatus", "accesseeSessionKeyId">>)
    \o Int64(<<"accesseeSKTimeStamp">>) \o String(<<"accesseeExtraData">>)

\* Mutant: two strings are read in the other order.
AccesseeUnMarshallingSwapped ==
    [i \in DOMAIN AccesseeMarshalling |->
        CASE i = 6 -> AccesseeMarshalling[7] [] i = 7 -> AccesseeMarshalling[6]
          [] OTHER -> AccesseeMarshalling[i]]

AccesseeUnMarshalling ==
    Int64(<<"accesseeId">>) \o String(<<"accesseeDeviceId">>) \o Int32(<<"accesseeUserId">>)
    \o String(<<"accesseeAccountId">>) \o Int64(<<"accesseeTokenId">>)
    \o String(<<"accesseeBundleName", "accesseeHapSignature">>) \o Uint32(<<"accesseeBindLevel">>)
    \o String(<<"accesseeDeviceName", "accesseeServiceName">>) \o Int32(<<"accesseeCredentialId">>)
    \o String(<<"accesseeCredentialIdStr">>) \o Int32(<<"accesseeStatus", "accesseeSessionKeyId">>)
    \o Int64(<<"accesseeSKTimeStamp">>) \o String(<<"accesseeExtraData">>)

AccessControlProfileMarshalling ==
    Int64(<<"accessControlId", "accesserId", "accesseeId">>) \o String(<<"sessionKey">>)
    \o Uint32(<<"bindType", "authenticationType", "bindLevel">>) \o Int32(<<"status">>)
    \o Int64(<<"validPeriod", "lastAuthTime">>) \o String(<<"trustDeviceId">>)
    \o Uint32(<<"deviceIdType">>) \o String(<<"deviceIdHash", "extraData">>)
    \o Ignored("accesser", AccesserMarshalling) \o Ignored("accessee", AccesseeMarshalling)

AccessControlProfileUnMarshalling ==
    Int64(<<"accessControlId", "accesserId", "accesseeId">>) \o String(<<"sessionKey">>)
    \o Uint32(<<"bindType", "authenticationType", "bindLevel">>) \o Int32(<<"status">>)
    \o Int64(<<"validPeriod", "lastAuthTime">>) \o String(<<"trustDeviceId">>)
    \o Uint32(<<"deviceIdType">>) \o String(<<"deviceIdHash", "extraData">>)
    \o Ignored("accesser", AccesserUnMarshalling) \o Ignored("accessee", AccesseeUnMarshalling)

\* serviceIdList_ has `n` ids; the reader refuses more than MAX_SERVICE_SIZE.
TrustDeviceProfileMarshalling == [n \in Sizes |->
    String(<<"deviceId">>) \o Uint32(<<"deviceIdType">>) \o String(<<"deviceIdHash">>)
    \o Int32(<<"status">>) \o Uint32(<<"bindType">>) \o Int32(<<"peerUserId", "localUserId">>)
    \o String(<<"peerAccountId", "localAccountId">>)
    \o Size \o Elements(n, Int64(<<"serviceId">>))]

TrustDeviceProfileUnMarshalling == [n \in Sizes |->
    String(<<"deviceId">>) \o Uint32(<<"deviceIdType">>) \o String(<<"deviceIdHash">>)
    \o Int32(<<"status">>) \o Uint32(<<"bindType">>) \o Int32(<<"peerUserId", "localUserId">>)
    \o String(<<"peerAccountId", "localAccountId">>)
    \o Size \o (IF n > MaxItems THEN Refuse ELSE Elements(n, Int64(<<"serviceId">>)))]

ServiceInfoMarshalling ==
    String(<<"udid">>) \o Int32(<<"userId">>) \o Int64(<<"displayId">>)
    \o Int32(<<"serviceOwnerTokenId">>) \o String(<<"serviceOwnerPkgName">>)
    \o Int32(<<"serviceRegisterTokenId">>) \o Int64(<<"serviceId", "timeStamp">>)
    \o Word(<<"publishState">>)
    \o String(<<"serviceType", "serviceName", "serviceDisplayName", "customData", "serviceCode">>)
    \o Uint32(<<"dataLen">>) \o String(<<"extraData", "version", "description">>)

ServiceInfoUnMarshalling ==
    String(<<"udid">>) \o Int32(<<"userId">>) \o Int64(<<"displayId">>)
    \o Int32(<<"serviceOwnerTokenId">>) \o String(<<"serviceOwnerPkgName">>)
    \o Int32(<<"serviceRegisterTokenId">>) \o Int64(<<"serviceId", "timeStamp">>)
    \o Word(<<"publishState">>)
    \o String(<<"serviceType", "serviceName", "serviceDisplayName", "customData", "serviceCode">>)
    \o Uint32(<<"dataLen">>) \o String(<<"extraData", "version", "description">>)

LocalServiceInfoMarshalling ==
    String(<<"bundleName">>) \o Int32(<<"authBoxType", "authType", "pinExchangeType">>)
    \o String(<<"pinCode", "description", "extraInfo">>)

LocalServiceInfoUnMarshalling ==
    String(<<"bundleName">>) \o Int32(<<"authBoxType", "authType", "pinExchangeType">>)
    \o String(<<"pinCode", "description", "extraInfo">>)

DeviceProfileMarshalling ==
    String(<<"deviceId", "deviceName", "manufactureName", "deviceModel">>)
    \o Int64(<<"storageCapability">>) \o String(<<"osSysCap">>) \o Int32(<<"osApiLevel">>)
    \o String(<<"osVersion">>) \o Int32(<<"osType">>) \o Word(<<"isMultiUser">>) \o Int32(<<"userId">>)
    \o String(<<"devType", "manu", "sn", "productId", "productName", "subProductId", "hiv", "mac",
                "fwv", "hwv", "swv">>)
    \o Int32(<<"protType">>)
    \o String(<<"wiseUserId", "wiseDeviceId", "registerTime", "modifyTime", "shareTime", "accountId",
                "internalModel", "bleMac", "brMac", "sleMac">>)
    \o Int32(<<"setupType">>)

DeviceProfileUnMarshalling ==
    String(<<"deviceId", "deviceName", "manufactureName", "deviceModel">>)
    \o Int64(<<"storageCapability">>) \o String(<<"osSysCap">>) \o Int32(<<"osApiLevel">>)
    \o String(<<"osVersion">>) \o Int32(<<"osType">>) \o Word(<<"isMultiUser">>) \o Int32(<<"userId">>)
    \o String(<<"devType", "manu", "sn", "productId", "productName", "subProductId", "hiv", "mac",
                "fwv", "hwv", "swv">>)
    \o Int32(<<"protType">>)
    \o String(<<"wiseUserId", "wiseDeviceId", "registerTime", "modifyTime", "shareTime", "accountId",
                "internalModel", "bleMac", "brMac", "sleMac">>)
    \o Int32(<<"setupType">>)

ServiceProfileMarshalling ==
    String(<<"deviceId", "serviceName", "serviceType">>) \o Word(<<"isMultiUser">>) \o Int32(<<"userId">>)

ServiceProfileUnMarshalling ==
    String(<<"deviceId", "serviceName", "serviceType">>) \o Word(<<"isMultiUser">>) \o Int32(<<"userId">>)

CharacteristicProfileMarshalling ==
    String(<<"deviceId", "serviceName", "characteristicKey", "characteristicValue">>)
    \o Word(<<"isMultiUser">>) \o Int32(<<"userId">>)

CharacteristicProfileUnMarshalling ==
    String(<<"deviceId", "serviceName", "characteristicKey", "characteristicValue">>)
    \o Word(<<"isMultiUser">>) \o Int32(<<"userId">>)

ProductInfoMarshalling == String(<<"productId", "model", "productName", "productShortName", "imageVersion">>)
ProductInfoUnMarshalling == String(<<"productId", "model", "productName", "productShortName", "imageVersion">>)

\* Bytes (an icon, a session key) are one raw block after their size, unless
\* they are empty; too many are refused before their size is written.
BytesMarshalling == [n \in Sizes |->
    IF n > MaxItems THEN Refuse ELSE Size \o IF n = 0 THEN <<>> ELSE Fields("Raw", <<"data">>)]
BytesUnMarshalling == [n \in Sizes |->
    Size \o IF n = 0 THEN <<>> ELSE IF n > MaxItems THEN Refuse ELSE Fields("Raw", <<"data">>)]

\* With an icon of n bytes, whose result is ignored on both sides.
DeviceIconInfoMarshalling == [n \in Sizes |->
    String(<<"productId", "internalModel", "subProductId", "imageType", "specName", "version",
             "wiseVersion", "url">>)
    \o Int64(<<"modifyTime">>) \o Ignored("icon", BytesMarshalling[n])]

DeviceIconInfoUnMarshalling == [n \in Sizes |->
    String(<<"productId", "internalModel", "subProductId", "imageType", "specName", "version",
             "wiseVersion", "url">>)
    \o Int64(<<"modifyTime">>) \o Ignored("icon", BytesUnMarshalling[n])]

TrustedDeviceInfoMarshalling ==
    String(<<"networkId">>) \o Int32(<<"authForm">>) \o Word(<<"deviceTypeId">>)
    \o String(<<"osVersion">>) \o Int32(<<"osType">>) \o String(<<"udid", "uuid">>)

TrustedDeviceInfoUnMarshalling ==
    String(<<"networkId">>) \o Int32(<<"authForm">>) \o Word(<<"deviceTypeId">>)
    \o String(<<"osVersion">>) \o Int32(<<"osType">>) \o String(<<"udid", "uuid">>)

UserInfoMarshalling == String(<<"udid">>) \o Int32(<<"userId">>) \o Int64(<<"serviceId">>)
UserInfoUnMarshalling == String(<<"udid">>) \o Int32(<<"userId">>) \o Int64(<<"serviceId">>)

\* The reader of a business event does not check ReadString: each string is
\* a part of its own.
BusinessEventMarshalling == String(<<"businessKey", "businessValue">>)
BusinessEventUnMarshalling == Unchecked(String(<<"businessKey", "businessValue">>))

-----------------------------------------------------------------------------
(* Vectors, sets and maps of IpcUtils.                                     *)

TrustDeviceProfilesMarshalling == [n \in Sizes |-> NonEmpty(n, Elements(n, TrustDeviceProfileMarshalling[n]))]
TrustDeviceProfilesUnMarshalling == [n \in Sizes |-> NonEmpty(n, Elements(n, TrustDeviceProfileUnMarshalling[n]))]

\* Mutant: an empty vector of ACLs is refused when it is written.
AclProfilesMarshallingNonEmpty ==
    [n \in Sizes |-> NonEmpty(n, Elements(n, AccessControlProfileMarshalling))]
\* An empty vector of ACLs is written but not read.
AclProfilesMarshalling == [n \in Sizes |-> MaybeEmpty(n, Elements(n, AccessControlProfileMarshalling))]
AclProfilesUnMarshalling == [n \in Sizes |-> NonEmpty(n, Elements(n, AccessControlProfileUnMarshalling))]

DeviceProfilesMarshalling == [n \in Sizes |-> NonEmpty(n, Elements(n, DeviceProfileMarshalling))]
DeviceProfilesUnMarshalling == [n \in Sizes |-> NonEmpty(n, Elements(n, DeviceProfileUnMarshalling))]

ProductInfosMarshalling == [n \in Sizes |-> NonEmpty(n, Elements(n, ProductInfoMarshalling))]
ProductInfosUnMarshalling == [n \in Sizes |-> NonEmpty(n, Elements(n, ProductInfoUnMarshalling))]

ServiceProfilesMarshalling == [n \in Sizes |-> NonEmpty(n, Elements(n, ServiceProfileMarshalling))]
ServiceProfilesUnMarshalling == [n \in Sizes |-> NonEmpty(n, Elements(n, ServiceProfileUnMarshalling))]

\* The results of the elements are ignored on the way out only.
CharProfilesMarshalling == [n \in Sizes |-> NonEmpty(n, ElementsIgnored(n, CharacteristicProfileMarshalling))]
CharProfilesUnMarshalling == [n \in Sizes |-> NonEmpty(n, Elements(n, CharacteristicProfileUnMarshalling))]

TrustedDevicesMarshalling == [n \in Sizes |-> NonEmpty(n, ElementsIgnored(n, TrustedDeviceInfoMarshalling))]
TrustedDevicesUnMarshalling == [n \in Sizes |-> NonEmpty(n, Elements(n, TrustedDeviceInfoUnMarshalling))]

IconInfosMarshalling == [n \in Sizes |->
    MaybeEmpty(n, FlattenSeq([i \in 1 .. n |->
        Ignored(ToString(i), DeviceIconInfoMarshalling[IconSizes[n][i]])]))]
IconInfosUnMarshalling == [n \in Sizes |->
    NonEmpty(n, FlattenSeq([i \in 1 .. n |->
        Nested(ToString(i), DeviceIconInfoUnMarshalling[IconSizes[n][i]])]))]

\* Unlike the others it writes the size of a vector only when it accepts it.
ServiceInfosMarshalling ==
    [n \in Sizes |-> IF n > MaxItems THEN Refuse ELSE Size \o Elements(n, ServiceInfoMarshalling)]
ServiceInfosUnMarshalling == [n \in Sizes |-> MaybeEmpty(n, Elements(n, ServiceInfoUnMarshalling))]

StringsMarshalling == [n \in Sizes |-> MaybeEmpty(n, Elements(n, String(<<"item">>)))]
StringsUnMarshalling == [n \in Sizes |-> MaybeEmpty(n, Elements(n, String(<<"item">>)))]
Int32sMarshalling == [n \in Sizes |-> MaybeEmpty(n, Elements(n, Int32(<<"item">>)))]
Int32sUnMarshalling == [n \in Sizes |-> MaybeEmpty(n, Elements(n, Int32(<<"item">>)))]

\* Query parameters: an entry is one string, `key#value`.
ParamsMarshalling == [n \in Sizes |-> NonEmpty(n, Elements(n, String(<<"key#value">>)))]
ParamsUnMarshalling == [n \in Sizes |-> NonEmpty(n, Elements(n, String(<<"key#value">>)))]

ChangeTypesMarshalling == [n \in Sizes |-> NonEmpty(n, Elements(n, Int32(<<"type">>)))]
\* The reader stops at a type that is out of range; the writer writes it.
ChangeTypesUnMarshalling == [n \in Sizes |->
    NonEmpty(n, FlattenSeq([i \in 1 .. n |->
        Nested(ToString(i), Uint32(<<"type">>) \o IF i \in InRange[n] THEN <<>> ELSE Refuse)]))]

\* The change types of a subscription are a part whose result is ignored, so a
\* subscription without any is sent, and what follows types that are not read
\* to their end is read from the place of the next one.
SubscribeInfoMarshalling == [n \in Sizes |->
    Int32(<<"saId">>) \o String(<<"subscribeKey">>) \o Ignored("types", ChangeTypesMarshalling[n])
    \o Remote("listener")]
SubscribeInfoUnMarshalling == [n \in Sizes |->
    Int32(<<"saId">>) \o String(<<"subscribeKey">>) \o Ignored("types", ChangeTypesUnMarshalling[n])
    \o Remote("listener")]

ListenerMapMarshalling == [n \in Sizes |-> NonEmpty(n, Elements(n, SubscribeInfoMarshalling[n]))]
ListenerMapUnMarshalling == [n \in Sizes |-> NonEmpty(n, Elements(n, SubscribeInfoUnMarshalling[n]))]

IconFilterMarshalling ==
    [n \in Sizes |-> Ignored("productIds", StringsMarshalling[n])
                     \o String(<<"internalModel", "subProductId", "imageType", "specName">>)]
IconFilterUnMarshalling ==
    [n \in Sizes |-> Ignored("productIds", StringsUnMarshalling[n])
                     \o String(<<"internalModel", "subProductId", "imageType", "specName">>)]

DeviceProfileFilterMarshalling ==
    [n \in Sizes |-> Int32(<<"userId">>) \o String(<<"accountId">>)
                     \o Ignored("deviceIds", StringsMarshalling[n])
                     \o Ignored("wiseDeviceIds", StringsMarshalling[n])
                     \o Ignored("deviceProfileIds", Int32sMarshalling[n])]
DeviceProfileFilterUnMarshalling ==
    [n \in Sizes |-> Int32(<<"userId">>) \o String(<<"accountId">>)
                     \o Ignored("deviceIds", StringsUnMarshalling[n])
                     \o Ignored("wiseDeviceIds", StringsUnMarshalling[n])
                     \o Ignored("deviceProfileIds", Int32sUnMarshalling[n])]

\* Only the reader limits the number of devices to synchronise.
SyncOptionsMarshalling == [n \in Sizes |-> Int32(<<"syncMode">>) \o Size \o Elements(n, String(<<"deviceId">>))]
SyncOptionsUnMarshalling ==
    [n \in Sizes |-> Int32(<<"syncMode">>) \o MaybeEmpty(n, Elements(n, String(<<"deviceId">>)))]

\* The results of a synchronisation are read without a check.
SyncResultsMarshalling == [n \in Sizes |-> Size \o Elements(n, String(<<"deviceId">>) \o Int32(<<"status">>))]
SyncResultsUnMarshalling ==
    [n \in Sizes |-> NonEmpty(n, Unchecked(Elements(n, String(<<"deviceId">>) \o Int32(<<"status">>))))]

-----------------------------------------------------------------------------
(* A parcel: the writes that succeed, and what reads make of them.         *)

\* A parcel takes one raw block ("The same IPC can only call WriteRawData
\* once"); it also may have no room for the write number `full` (0: for none),
\* and have room for the smaller ones after it.
Fails(layout, full) ==
    LET raw == {i \in DOMAIN layout : layout[i].kind = "Raw" /\ i # full}
    IN  {i \in DOMAIN layout : \/ layout[i].kind = "Refuse"
                               \/ i = full
                               \/ i \in raw /\ \E j \in raw : j < i}

\* A part ends at its first failure, the parts nested in it included.
Skipped(layout, full) ==
    LET failed == Fails(layout, full)
    IN  {i \in DOMAIN layout : \E j \in failed : j <= i /\ IsPrefix(layout[j].part, layout[i].part)}

WriteOk(layout, full) == \A i \in Fails(layout, full) : layout[i].part # <<>>

\* The layout without the items that are skipped.
Kept(layout, skipped) ==
    LET kept[i \in 0 .. Len(layout)] ==
            IF i = 0 THEN <<>>
            ELSE IF i \in skipped THEN kept[i - 1] ELSE Append(kept[i - 1], layout[i])
    IN  kept[Len(layout)]

Written(layout, full) == Kept(layout, Skipped(layout, full))

\* A reader follows its own layout in the same way: it fails where it refuses.
ReadOk(layout) == WriteOk(layout, 0)
Expected(layout) == Written(layout, 0)

\* Values of one word are not told apart by a parcel.
Alike(k1, k2) == k1 = k2 \/ {k1, k2} \subseteq {"Int32", "Uint32", "Word"}

\* Every read meets a value of its kind.
Fits(parcel, layout) ==
    LET reads == Expected(layout)
    IN  /\ Len(reads) <= Len(parcel)
        /\ \A i \in DOMAIN reads : Alike(parcel[i].kind, reads[i].kind)

\* The value that each field read gets: that of the field written there.
Got(parcel, layout) ==
    LET reads == Expected(layout) IN {<<reads[i].at, parcel[i].at>> : i \in DOMAIN reads}

\* What was meant: every field gets its own value.
Meant(layout) == {<<layout[i].at, layout[i].at>> : i \in {j \in DOMAIN layout : layout[j].kind # "Refuse"}}
=============================================================================
