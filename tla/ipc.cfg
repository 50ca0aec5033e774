\* Every API and callback, with every number of elements, caller and full parcel.
CONSTANTS
    MaxItems = 3
    Sizes = {0, 1, 2, 3, 4}
    IconSizes <- MCIconSizes
    InRange <- MCInRange
    Nil = Nil
    Callers <- MCCallers
    PermissionJson <- MCPermissionJson
    Inputs <- MCInputs
    EarlyInputs <- MCEarlyInputs
SPECIFICATION IpcSpec
INVARIANTS
    HandledAsSent
    AnswerTrue
    ManagerReady
