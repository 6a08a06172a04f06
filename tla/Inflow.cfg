\* One process without faults, and an event that the broker refuses once.
SPECIFICATION IFairSpec
CONSTANTS
    Events = {e1, e2}
    Workers = {w1}
    Poison = {}
    BatchSize = 1
    LockTimeout = 0
    Retention = 0
    Threshold = 1
    DlqProcesses = {}
    GcLimit = 1
    Horizon = 0
    MaxFailures = 1
    FaultKinds = {}
    MaxFaults = 0
PROPERTIES
    EventuallyPublished
