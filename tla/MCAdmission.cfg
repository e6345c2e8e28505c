\* Two clients who want the same nick and one with the operator's password,
\* two ports, as many bases, and a robot to be kicked.
CONSTANTS
    ann = ann
    bob = bob
    cat = cat
    p = p
    q = q
    Client = {ann, bob, cat}
    Nick <- Nicks
    Port = {p, q}
    MaxQueuedPlayers = 2
    NumBases = 2
    MaxRobots = 1
    Password = {bob}
    MaxGrants = 0
SPECIFICATION Spec
INVARIANTS
    SeatsNotOversold
    OneLoginEach
    EnteringFirst
    TellsOwnPort
SYMMETRY Symmetry
CHECK_DEADLOCK FALSE
