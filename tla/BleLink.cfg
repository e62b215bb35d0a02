SPECIFICATION Spec
CONSTANTS
    Timed = {"reader", "device"}
    MaxSends <- MCMaxSends
    MaxLapses = 1
INVARIANTS TypeOK DeliveredInOrder ConfirmsMatch NoForgottenLink
PROPERTIES SetupEnds CallsEnd
CHECK_DEADLOCK FALSE
