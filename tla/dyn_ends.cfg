\* Every thread goes on: liveness, without symmetry, batches of two profiles;
\* three calls, events or failures in all.
CONSTANTS
    LocalNames <- MCLocalNames
    PeerNames <- MCPeerNames
    Kind <- MCKind
    OhNames = {"peerChar"}
    Users = {u1, u2}
    NoUser = NoUser
    Values = {v1}
    None = None
    Clients = {c1}
    Tasks = {t1, t2}
    Handler = Handler
    PutNames = {"char"}
    Before <- MCBefore
    Others <- MCOthers
    ForeignKeys <- PlainAndUser
    MaxBatch = 2
    MayFail = TRUE
    MayCrash = TRUE
    MaxStarts = 3
CHECK_DEADLOCK FALSE
SPECIFICATION Spec
PROPERTIES AllEnd
