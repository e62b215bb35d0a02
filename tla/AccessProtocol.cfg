SPECIFICATION Spec
CONSTANTS
    Credential = c1
    NoCredential = NoCredential
    Identifier = r1
    NoReader = NoReader
    Handlings = {"CONTINUE", "ABORT"}
    MaxEphemeral = 3
    MaxCounter = 3
INVARIANTS TypeOK NoSpuriousFailure EnginesInStep KpersistentAgrees
PROPERTY CallEnds
CHECK_DEADLOCK FALSE
