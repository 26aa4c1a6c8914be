SPECIFICATION Spec
CONSTANTS
    NodeIds = {1, 2, 3}
    Instance <- MCInstance
    MaxConns = 2
    Profiles <- MCProfiles
    Msgs = {m}
    MaxDeaths = 1
    None = None
INVARIANTS
    TypeOK
    
CHECK_DEADLOCK FALSE
