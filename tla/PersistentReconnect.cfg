SPECIFICATION Spec
CONSTANTS
    Workers = {w1, w2}
    Msgs = {"a", "b", "t"}
    Qos <- MCQos
    InflightMax = 1
    QueueMax = 1
    MaxRetries = 1
    MaxMessageId = 6
    Workloads <- MCWorkloads
    MaxConns = 2
    MaxCrashes = 1
    None = None
SYMMETRY WorkerSymmetry
INVARIANTS
    TypeOK
    KeptUntilReconnect
    LocksFree
    WindowSlotWatched
PROPERTIES
    OnlyKnownLosses
