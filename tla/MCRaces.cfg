\* Two checkpoints and one lap, which takes 1 or 2.
CONSTANTS
    ann = ann
    bob = bob
    cat = cat
    Player = {ann, bob, cat}
    NumBases = 3
    NumChecks = 2
    raceLaps = 1
    lives = 1
    resetOnHuman = 1
    LapTimes = {1, 2}
    MaxPlayers <- PlayersOf
SPECIFICATION RaceSpec
SYMMETRY Symmetric
PROPERTIES
    SomebodyRaces
    StartingGrid
    SomebodyIsIt
