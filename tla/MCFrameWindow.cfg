\* Two more arrivals than the window has slots, in any order, any repeated.
CONSTANTS
    WindowSize = 3
    MaxLoops = 4
    MaxArrivals = 5
SPECIFICATION FairSpec
INVARIANTS
    WaitingIsNewer
    KeepsPlace
PROPERTIES
    DropsOldest
    NewestShown
CHECK_DEADLOCK FALSE
