\* Invitations among allies.
CONSTANTS
    a = a
    b = b
    c = c
    r = r
    Player = {a, b, c}
    Robot = {}
    MaxAlliances = 1
SPECIFICATION Spec
INVARIANTS
    NoInvitationAmongAllies
CHECK_DEADLOCK FALSE
