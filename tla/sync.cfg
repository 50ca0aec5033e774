\* Two client processes, a peer of each kind, three of the five stores; two calls
\* and three events.
CONSTANTS
    Callers = {c1, c2}
    OhPeers = {p1}
    OtherPeers = {p2}
    Requests <- MCRequests
    Adapters = {"dynamic", "static", "business"}
    MaxCalls = 2
    MaxEvents = 3
    Subscribers = {s1}
    SubKeys = {k1}
    CharKeys = {}
    ChangeTypes = {"add", "update", "delete"}
    MaxListeners = 0
    DataValues = {v1, v2}
    Batches <- MCBatches
    Gone = Gone
    None = None
    k1 = k1
    v1 = v1
    v2 = v2
SYMMETRY CallerSymmetry
CHECK_DEADLOCK FALSE
SPECIFICATION SyncSpec
INVARIANTS AnsweredOnce DeadGone ReopenedUnlessDropped ToldVisible
