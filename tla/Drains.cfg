\* One event the broker refuses for ever and one it refuses for a while.
SPECIFICATION FairSpec
CONSTANTS
    Events = {e1, e2}
    Workers = {w1, w2}
    Poison = {e1}
    BatchSize = 1
    LockTimeout = 0
    Retention = 0
    Threshold = 2
    DlqProcesses = {w1, w2}
    GcLimit = 1
    Horizon = 0
    MaxFailures = 2
    FaultKinds = {"crash", "quarantine", "heap", "drain"}
    MaxFaults = 1
PROPERTIES
    OutboxDrains
