\* Two users, two parties, one PIN subscriber, one business key; four calls or
\* deaths and one failure; and the tables of devices, products and icons: three calls,
\* an end or a death, and one failure.
CONSTANTS
    Users = {u1, u2}
    u1 = u1
    u2 = u2
    a1 = a1
    a2 = a2
    bad1 = bad1
    bad2 = bad2
    Ids = {1, 2}
    Secrets = {k1}
    None = None
    Services = {pin}
    Infos = {good, bad1, bad2}
    InvalidInfos = {bad1, bad2}
    PinClients = {p1}
    BusinessKeys = {cast}
    BusinessValues = {e1, e2}
    SaIds = {a1, a2}
    MaxCallbacks = 1
    MaxEvents = 4
    MaxFaults = 1
    DeviceKeys <- MCDeviceKeys
    ProductKeys <- MCProductKeys
    IconKeys <- MCIconKeys
    Unset = Unset
    Fields <- MCFields
    Stored <- MCStored
    PutRequests <- MCPutRequests
    CollectRequests <- MCCollectRequests
    DeleteRequests <- MCDeleteRequests
    MaxRequests = 3
    MaxDataFaults = 1
SYMMETRY UserSymmetry
CHECK_DEADLOCK FALSE
SPECIFICATION StoresSpec
INVARIANTS RowsAsAnswered HeardAsStored KeyOfOwner DataAsAnswered
