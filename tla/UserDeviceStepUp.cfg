SPECIFICATION Spec
CONSTANTS
    Readers = {r1, r2}
    Known = {r1, r2}
    NoReader = NoReader
    Transport = "NFC"
    Loop = "main"
    TerminateAtEnd = TRUE
    TestMode = TRUE
    FastImplemented = TRUE
    HasMailbox = TRUE
    CounterLimit = 3
    MaxCounter = 4
    MaxEphemeral = 2
INVARIANT StepUpAfterStandard
CHECK_DEADLOCK FALSE
