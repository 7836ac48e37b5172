\* One stream: mutations, handovers and a shutdown in every order.
CONSTANTS
    p = p
    Stream = {p}
    Capacity = 2
    MaxRev = 4
    MaxEpoch = 2
SPECIFICATION FairSpec
INVARIANTS
    NoLostEvent
PROPERTIES
    FramesCurrent
    WriterProgress
    StaleStreamEnds
