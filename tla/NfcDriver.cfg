SPECIFICATION Spec
CONSTANTS
    MaxActivations = 3
    MaxMessages = 3
INVARIANTS TypeOK EachMessageOnce NoMessageOfEarlierReader
CHECK_DEADLOCK FALSE
