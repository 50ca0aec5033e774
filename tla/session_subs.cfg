\* Two calls that subscribe or unsubscribe and a restart of the service.
CONSTANTS
    Users = {u1}
    Ops = {"subscribe", "unsubscribe"}
    Kinds = {"inited"}
    MaxRetries = 0
    MaxListenerSize = 1
    MaxStarts = 2
    MaxCalls = 2
    None = None
CHECK_DEADLOCK FALSE
SPECIFICATION Spec
INVARIANTS
    Restored
    UnSubscribedStays
