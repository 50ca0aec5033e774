\* Two switches, one peer that comes, goes and announces, three events; one parked
\* word and two listeners fit.
CONSTANTS
    Local = me
    Peers = {p1}
    NFlags = 2
    Subscribers = {s1}
    SubKeys <- MCSubKeys
    ChangeTypes = {"update"}
    Requests <- MCRequests
    Defaults <- MCDefaults
    StartWord <- MCStartWord
    PeerWords <- MCPeerWords
    MaxParked = 1
    MaxListeners = 1
    None = None
    MaxEvents = 3
CHECK_DEADLOCK FALSE
SPECIFICATION SwitchSpec
INVARIANTS LocalAgrees NothingLost ToldLast
PROPERTY PutKeepsOthers
