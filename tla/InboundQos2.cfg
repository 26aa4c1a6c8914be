CONSTANTS
    Workers = {w1, w2}
    p = p
    q = q
    Pubs = {p, q}
    MaxId = 2
    Kinds = {"transient", "persistent"}
    Capacity = 1
    MaxConns = 2
    Plans <- MCPlans
    None = None
SPECIFICATION Spec
INVARIANTS TypeOK ExactlyOnce KeySetCovers
PROPERTIES RoutedOncePerCopy EventuallyAnswered
CHECK_DEADLOCK FALSE
