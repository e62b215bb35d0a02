SPECIFICATION Spec
CONSTANTS
    Readers = {r1, r2}
    Known = {r1, r2}
    NoReader = NoReader
    Transport = "NFC"
    Loop = "main"
    TerminateAtEnd = TRUE
    TestMode = TRUE
    FastImplemented = TRUE
    HasMailbox = TRUE
    CounterLimit = 3
    MaxCounter = 3
    MaxEphemeral = 3
INVARIANTS TypeOK DocumentsOnlyToVerified FastOnlyForVerified EngineOfThisHandshake
PROPERTY NonceNeverReused
SYMMETRY ReaderSymmetry
CHECK_DEADLOCK FALSE
