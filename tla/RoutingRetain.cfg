SPECIFICATION Spec
CONSTANTS
    Workers = {w1, w2}
    Clients = {c1}
    Filters <- SameTopic
    Qoss = {0}
    Msgs = {"s", "u", "x", "y", "p"}
    TopicOf <- MCTopicOf
    QosOf <- MCQosOf
    RetainOf <- MCRetainOf
    RetainMax = 1
    RetainExpires = TRUE
    UpgradeQos = TRUE
    None = None
SYMMETRY WorkerSymmetry
INVARIANTS
    RetainedReachesTopic
    RetainOvershootBounded
