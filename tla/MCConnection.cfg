\* The map takes two fillings of c, c takes two packets.
CONSTANTS
    MapSize = 3
    SetupWindow = 2
    BufSize = 10
    MaxPacket = 2
    MinSendSize = 0
    AckUnit = 2
    MaxRetransmit = 0
    MaxStream = 8
SPECIFICATION ClockSpec
CONSTRAINT FewInFlight
INVARIANTS
    InStep
PROPERTIES
    NeverHalfOpen
CHECK_DEADLOCK FALSE
