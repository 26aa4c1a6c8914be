SPECIFICATION Spec
CONSTANTS
    Workers = {w1}
    Clients = {c1}
    Filters <- Wildcards
    Qoss = {1}
    Msgs = {"s"}
    TopicOf <- MCTopicOf
    QosOf <- MCQosOf
    RetainOf <- MCRetainOf
    RetainMax = 1
    RetainExpires = FALSE
    UpgradeQos = FALSE
    None = None
INVARIANT RetainedReachesFilter
