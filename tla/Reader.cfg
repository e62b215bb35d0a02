SPECIFICATION Spec
CONSTANTS
    Credentials = {c1, c2, c3}
    NoCredential = NoCredential
    Registered = {c1}
    Configurations <- MCConfigurations
    CacheLimit = 2
    MaxEphemeral = 4
    MaxCounter = 2
SYMMETRY MCSymmetry
INVARIANTS TypeOK GrantedAuthentic FastGrantsKnown CacheHoldsMostRecent ToldOnce
PROPERTY NonceNeverReused
CHECK_DEADLOCK FALSE
