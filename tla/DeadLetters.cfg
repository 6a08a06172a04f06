\* Two events, two processes with their reapers, one fault of any kind.
SPECIFICATION RSpec
CONSTANTS
    Events = {e1, e2}
    Workers = {w1, w2}
    Poison = {}
    BatchSize = 2
    LockTimeout = 1
    Retention = 0
    Threshold = 2
    DlqProcesses = {w1, w2}
    GcLimit = 1
    Horizon = 0
    MaxFailures = 2
    FaultKinds = {"return", "crash", "fetch", "heap", "mark", "drain", "quarantine"}
    MaxFaults = 1
SYMMETRY WorkerSymmetry
INVARIANTS
    NoLoss
    OneHome
    DeadJustified
    FailuresInv
    Inv
    CopyInv
PROPERTIES
    KeepsPromise
    CopiesHaveACause
