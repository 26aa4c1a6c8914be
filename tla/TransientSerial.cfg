SPECIFICATION FairSpec
CONSTANTS
    Workers = {w1}
    Msgs = {"a", "b", "t"}
    Qos <- MCQos
    Batches <- Retained
    InflightMax = 1
    QueueMax = 1
    MaxRetries = 1
    StoreQos0 = FALSE
    MaxMessageId = 8
    None = None

    
    
PROPERTIES
    EventuallySettled
