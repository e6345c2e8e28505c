\* A player and a treasure for each of two teams.  Deadlock is checked: the
\* server's frames go on for ever.
CONSTANTS
    ann = ann
    bob = bob
    s1 = s1
    s2 = s2
    s3 = s3
    red = red
    blue = blue
    Player = {ann, bob}
    Team = {red, blue}
    Slot = {s1, s2, s3}
    NumTreasures = 2
    team <- SidesOfTwo
    MaxDestroyed = 2
    Options <- TwoOptions
SPECIFICATION Spec
INVARIANTS
    OneBallEach
    HaveIffUntouched
    CarriersPlay
PROPERTY
    MissingBallsMatter
CONSTRAINT
    InTheWay
SYMMETRY Symmetry
