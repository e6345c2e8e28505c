\* Three humans and a robot.
CONSTANTS
    a = a
    b = b
    c = c
    r = r
    Player = {a, b, c, r}
    Robot = {r}
    MaxAlliances = 2
SPECIFICATION Spec
INVARIANTS
    AlliancesOfTwo
PROPERTIES
    JoinDropsInvitations
    RefinesCoalitions
CHECK_DEADLOCK FALSE
