SPECIFICATION Spec
CONSTANTS
    MaxActivations = 2
    MaxMessages = 2
PROPERTY StopsWaitingWhenReaderLost
CHECK_DEADLOCK FALSE
