SPECIFICATION Spec
CONSTANTS
    Workers = {w1, w2}
    Msgs = {"z", "a", "b"}
    Qos <- MCQos
    Batches <- Pairs
    InflightMax = 1
    QueueMax = 1
    MaxRetries = 0
    StoreQos0 = TRUE
    MaxMessageId = 6
    None = None
SYMMETRY WorkerSymmetry
INVARIANTS
    AckHitsOwnMessage
    NoSilentLoss
    QueueOvershootBounded
