\* One client with a request or a business subscription at a time, a service that is
\* loaded, unloaded and dies three times: liveness, so no symmetry.
CONSTANTS
    Users = {u1}
    Ops = {"PutServiceProfile", "GetServiceProfile", "GetAccessControlProfile", "PutLocalServiceInfo", "subscribe"}
    Kinds = {"business"}
    MaxRetries = 2
    MaxListenerSize = 1
    MaxStarts = 3
    MaxCalls = 1
    None = None
CHECK_DEADLOCK FALSE
SPECIFICATION Spec
PROPERTIES
    RemoteCallSpec
    AllReturn
