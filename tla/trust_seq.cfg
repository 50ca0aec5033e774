\* One IPC thread, no faults: what the four tables and the notifications promise
\* between calls.
CONSTANTS
    Threads = {t1}
    Profiles <- TwoDevices
    UpdateFree = FALSE
    MaxOps = 5
    MaxFaults = 0
    NoJob = NoJob
SPECIFICATION Spec
INVARIANTS GrantStable TrustRowsMatch MirrorsExact
PROPERTY NoSilentDeactivation
