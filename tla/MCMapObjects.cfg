\* A cannon and a target with their polygons, a fuel station, and a client of
\* each kind (OneStory).
CONSTANTS
    block = block
    poly = poly
    k = k
    t = t
    f = f
    p = p
    q = q
    Conn = {block, poly}
    PolyClient = {poly}
    Cannon = {k}
    Target = {t}
    Fuel = {f}
    Poly = {p, q}
    Group <- MCGroup
    Team <- MCTeam
    StepsPerTick = 2
    DeadTicks = 1
    FullDamage = 2
    FullFuel = 2
    TargetUpdateDelay = 1
    FramesPerUpdate = 2
    targetSync = FALSE
    MaxLoops = 3
SPECIFICATION MapSpec
CONSTRAINT OneStory
INVARIANTS
    AckedIsCurrent
    StylesAreCurrent
    PolysFollow
CHECK_DEADLOCK FALSE
