SPECIFICATION Spec
CONSTANTS
    NodeIds = {1, 2, 3}
    Instance <- MCInstance
    MaxConns = 2
    Profiles <- MCProfiles
    Msgs = {}
    MaxDeaths = 1
    None = None
INVARIANTS
    SessionOfNewest
PROPERTIES
    SessionGoesWithConnection
    
    OldConnectionClosed
CHECK_DEADLOCK FALSE
