SPECIFICATION Spec
CONSTANTS
    Size = 2
    Byte = {0, 1, 2}
    Reads <- MCReads
    Sets <- MCSets
    Writes <- MCWrites
    None = None
    ReadPermission = TRUE
    WritePermission = TRUE
    Loop = "single"
    MaxRequests = 1
    MaxCommands = 3
INVARIANT NoStepUpAccess
CHECK_DEADLOCK FALSE
