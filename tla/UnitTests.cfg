\* The unit tests, in a build without the dead letter queue and in one with it.
SPECIFICATION TSpec
CONSTANTS
    e1 = e1
    e2 = e2
    e3 = e3
    e4 = e4
    Events = {e1, e2, e3, e4}
    Workers = {plain, dlq}
    DlqProcesses = {dlq}
    Programs <- TestPrograms
    Poison = {}
    BatchSize = 4
    LockTimeout = 0
    Retention = 0
    Threshold = 2
    GcLimit = 1
    Horizon = 0
    MaxFailures = 2
    FaultKinds = {"fetch", "mark", "quarantine"}
    MaxFaults = 1
INVARIANTS
    AssertionsHold
PROPERTIES
    TestsEnd
CHECK_DEADLOCK FALSE
