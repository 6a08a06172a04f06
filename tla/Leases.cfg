\* Three events, two processes, no dead letter queue: who may hold a row.
SPECIFICATION Spec
CONSTANTS
    Events = {e1, e2, e3}
    Workers = {w1, w2}
    Poison = {}
    BatchSize = 2
    LockTimeout = 1
    Retention = 0
    Threshold = 1
    DlqProcesses = {}
    GcLimit = 1
    Horizon = 1
    MaxFailures = 1
    FaultKinds = {"return", "crash", "fetch", "mark"}
    MaxFaults = 1
SYMMETRY WorkerSymmetry
INVARIANTS
    TypeOK
    SentIsDelivered
    LeaseExclusion
PROPERTIES
    RowLifecycle
