SPECIFICATION Spec
CONSTANTS
    Readers = {r1, r2}
    Known = {r1}
    NoReader = NoReader
    Transport = "BLE"
    Loop = "single"
    TerminateAtEnd = TRUE
    TestMode = FALSE
    FastImplemented = TRUE
    HasMailbox = TRUE
    CounterLimit = 3
    MaxCounter = 4
    MaxEphemeral = 3
INVARIANTS TypeOK DocumentsOnlyToVerified FastOnlyForVerified EngineOfThisHandshake NothingLeftOnReturn
PROPERTY NonceNeverReused
CHECK_DEADLOCK FALSE
