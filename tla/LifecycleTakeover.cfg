SPECIFICATION Spec
CONSTANTS
    Endpoints = {"c", "p", "q"}
    Clean <- CleanOnes
    WillOf <- MCWillOf
    Listener <- MCListener
    PoolSize = 2
    None = None
INVARIANTS
    TypeOK
    ConnectionCounted
    AcceptedOwnsSession
    SessionIntact
    ClosedReleased
PROPERTIES
    PersistentStateKept
    SubscriptionsKept
