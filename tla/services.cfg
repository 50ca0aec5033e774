\* A service info of this device for two services and one of a peer; three
\* events, one failure, two observers.
CONSTANTS
    own = own
    peer = peer
    u1 = u1
    s1 = s1
    s2 = s2
    v1 = v1
    v2 = v2
    Own = own
    Keys <- MCKeys
    UserInfos <- MCUserInfos
    Infos = {v1, v2}
    Broken = Broken
    AnyId = AnyId
    None = None
    Subscribers = {a1}
    Observers = {"services", "static"}
    MaxListeners = 0
    MaxEvents = 3
    MaxFaults = 1
    MaxJobs = 4
SYMMETRY InfoSymmetry
CHECK_DEADLOCK FALSE
SPECIFICATION ServiceInfosSpec
INVARIANTS CopiesAgree ToldWhatIsStored
