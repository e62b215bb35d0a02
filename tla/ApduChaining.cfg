SPECIFICATION FairSpec
CONSTANTS
    Transport = "BLE"
    CommandRoom = 4
    MaxResponse = 3
    MaxValueByte = 4
    CommandLengths <- MCCommandLengths
    ResponseLengths <- MCResponseLengths
    Les <- MCLes
    Timers = {TRUE, FALSE}
    Secured = TRUE
    MaxCommands = 3
    MaxBusy = 1
INVARIANTS CommandWhole ResponseWhole PartsFit
PROPERTY Answered
CHECK_DEADLOCK FALSE
