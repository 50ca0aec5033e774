\* Two IPC threads, free updates, one failing statement, closing or death of the
\* process: keys, indexes, references and leaks.
CONSTANTS
    Threads = {t1, t2}
    Profiles <- OneDevice
    UpdateFree = TRUE
    MaxOps = 3
    MaxFaults = 1
    NoJob = NoJob
SYMMETRY Symmetry
SPECIFICATION Spec
INVARIANTS KeysUnique PartiesPresent NoOrphanParty
