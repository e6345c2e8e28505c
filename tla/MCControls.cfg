\* Two key changes or mouse movements, one talk; two datagrams and one frame
\* under way.  The mouse is close to where 16 (here: 3) bits overflow.
CONSTANTS
    Keyvs = {nokeys, keys}
    NoKeys = nokeys
    keys = keys
    nokeys = nokeys
    Strings = {"hello"}
    Commands = {"set"}
    TALK_RETRY = 2
    MaxPredict = 2
    W = 8
    Earlier = 3
    MaxChanges = 2
    MaxMoves = 2
    MaxTalks = 2
    NetSize = 2
    MaxFrames = 1
SPECIFICATION FairSpec
INVARIANTS
    AckedKeysHold
    NoMacros
    NeverOvershoots
    SaidOnce
PROPERTIES
    KeysArrive
    TalkArrives
CONSTRAINT OneHand
CHECK_DEADLOCK FALSE
