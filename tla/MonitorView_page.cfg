\* One page, two announced or silent commits, one recovery of the runtime.
CONSTANTS
    Slot = {1, 2}
    MaxRev = 2
    MaxEpoch = 2
    MaxFaults = 1
    MaxClicks = 2
SPECIFICATION FairSpec
INVARIANTS
    EventsOnce
PROPERTIES
    GraphNeverOlder
    EventuallyCurrent
    GraphCatchesUp
CHECK_DEADLOCK FALSE
