SPECIFICATION Spec
CONSTANTS
    Workers = {w1}
    Clients = {c1, c2}
    Filters <- Wildcards
    Qoss = {2}
    Msgs = {"e"}
    TopicOf <- MCTopicOf
    QosOf <- MCQosOf
    RetainOf <- MCRetainOf
    RetainMax = 1
    RetainExpires = FALSE
    UpgradeQos = FALSE
    None = None
SYMMETRY ClientSymmetry
INVARIANTS
    TypeOK
    TrieCounts
    LookupComplete
    LookupSound
