\* A client, two account tasks, repairs, failures and a restart; four calls,
\* events or failures in all.
CONSTANTS
    LocalNames <- MCLocalNames
    PeerNames <- MCPeerNames
    Kind <- MCKind
    OhNames = {"peerChar"}
    Users = {u1, u2}
    NoUser = NoUser
    Values = {v1}
    None = None
    Clients = {c1}
    Tasks = {t1, t2}
    Handler = Handler
    PutNames = {"char"}
    Before <- MCBefore
    Others <- MCOthers
    ForeignKeys <- PlainAndUser
    MaxBatch = 1
    MayFail = TRUE
    MayCrash = TRUE
    MaxStarts = 4
SYMMETRY TaskSymmetry
CHECK_DEADLOCK FALSE
SPECIFICATION Spec
INVARIANTS Isolation RemovedForgotten
PROPERTIES GetOwnUnlessOvertaken SwitchKeepsUserData FixRemovesMisplaced
