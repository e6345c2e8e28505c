\* Logins succeed on a fair network.
CONSTANTS
    MapSize = 1
    SetupWindow = 1
    BufSize = 10
    MaxPacket = 1
    MinSendSize = 0
    AckUnit = 2
    MaxRetransmit = 0
    MaxStream = 4
SPECIFICATION LoginSpec
CONSTRAINT LoginGoesOn
PROPERTIES
    LoginSucceeds
CHECK_DEADLOCK FALSE
