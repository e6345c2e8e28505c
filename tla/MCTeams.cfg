\* Three humans, a robot and three teams with a base each.
CONSTANTS
    a = a
    b = b
    c = c
    r = r
    Human = {a, b, c}
    Robot = {r}
    MaxTeams = 3
    NumBases <- OneEach
    MaxDrift = 0
    MaxRobotDrift = 0
    Options <- SomeOptions
SPECIFICATION Spec
SYMMETRY Symmetric
INVARIANTS
    OwnBases
PROPERTIES
    CountsKeepPace
    CyclesAreSwapped
    SwapsAsAsked
    BaseForEveryone
CHECK_DEADLOCK FALSE
