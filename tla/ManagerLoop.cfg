\* The worker loop and the two tasks it spawns: wake-ups, failures, shutdown.
SPECIFICATION Spec
CONSTANTS
    BatchSize = 1
    Background = {"gc", "dlq"}
    MaxRows = 2
    MaxErrors = 1
    MaxSends = 2
    MaxNotices = 1
INVARIANTS
    TypeOK
    OneLateBatch
    NoRequestLost
PROPERTIES
    KeepsLifecycle
    AllPublished
    WakeUpsDieOut
    ShutdownStopsMain
    ShutdownStopsTasks
CHECK_DEADLOCK FALSE
