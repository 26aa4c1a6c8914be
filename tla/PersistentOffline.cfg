SPECIFICATION Spec
CONSTANTS
    Workers = {w1}
    Msgs = {"a"}
    Qos <- MCQos
    InflightMax = 1
    QueueMax = 1
    MaxRetries = 1
    MaxMessageId = 6
    Workloads <- OneMessage
    MaxConns = 1
    MaxCrashes = 0
    None = None
PROPERTIES
    KeptWhileOffline
