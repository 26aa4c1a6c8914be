SPECIFICATION Spec
CONSTANTS
    Workers = {w1, w2}
    Msgs = {"a", "t"}
    Qos <- MCQos
    Batches <- Singles
    InflightMax = 1
    QueueMax = 1
    MaxRetries = 1
    StoreQos0 = FALSE
    MaxMessageId = 6
    None = None
SYMMETRY WorkerSymmetry
INVARIANTS
    TypeOK
    CasExclusive
    KeyMatchesMessage
    UnackedWithinCapacity
    TransmitBound
