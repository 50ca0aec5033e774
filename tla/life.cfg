\* One writer, the account thread, PostInit and a subscriber, a failing write,
\* OnStop and a death of the process.
CONSTANTS
    Clients = {c1}
    Subscribers = {s1}
    DepSaIds = {d1}
    AccountSa = d1
    Boot = Boot
    Account = Account
    Values = {v1}
    None = None
    Batches <- AnyBatch
    Retries = 2
    MaxCallbacks = 0
    MaxOps = 2
    MaxFaults = 1
    MaxCrashes = 1
CHECK_DEADLOCK FALSE
SPECIFICATION Spec
INVARIANTS Flushed SwitchesFlushed ToldOnce
PROPERTIES PostInitEnds PutReturns
