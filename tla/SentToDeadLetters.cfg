\* No fault but the broker's refusals.
SPECIFICATION Spec
CONSTANTS
    Events = {e1, e2}
    Workers = {w1}
    Poison = {}
    BatchSize = 2
    LockTimeout = 1
    Retention = 0
    Threshold = 2
    DlqProcesses = {w1}
    GcLimit = 1
    Horizon = 0
    MaxFailures = 2
    FaultKinds = {}
    MaxFaults = 0
PROPERTIES
    SentLeavesByGc
