SPECIFICATION Spec
CONSTANTS
    Readers = {r1, r2}
    Known = {r1, r2}
    NoReader = NoReader
    Transport = "NFC"
    Loop = "single"
    TerminateAtEnd = TRUE
    TestMode = TRUE
    FastImplemented = TRUE
    HasMailbox = TRUE
    CounterLimit = 3
    MaxCounter = 4
    MaxEphemeral = 2
INVARIANT AtomicSessionEndsWithSession
CHECK_DEADLOCK FALSE
