SPECIFICATION Spec
CONSTANTS
    Size = 2
    Byte = {0, 1, 2}
    Reads <- MCReads
    Sets <- MCSets
    Writes <- MCWrites
    None = None
    ReadPermission = TRUE
    WritePermission = TRUE
    Loop = "main"
    MaxRequests = 1
    MaxCommands = 3
INVARIANTS TypeOK SizeKept SignalsData
PROPERTY ImplementsStore
CHECK_DEADLOCK FALSE
