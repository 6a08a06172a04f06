\* Two programs, one of them built with the dead letter queue.
SPECIFICATION FairSSpec
CONSTANTS
    w1 = w1
    w2 = w2
    Events = {e1}
    Workers = {w1, w2}
    Poison = {}
    BatchSize = 1
    LockTimeout = 0
    Retention = 0
    Threshold = 1
    DlqProcesses = {w2}
    Programs <- Deployment
    GcLimit = 1
    Horizon = 0
    MaxFailures = 2
    FaultKinds = {"return", "crash", "heap", "mark", "quarantine"}
    MaxFaults = 1
INVARIANTS
    SysTypeOK
    StoppedHoldsNothing
PROPERTIES
    KeepsLifecycle
    SystemDrains
    ShutdownCompletes
