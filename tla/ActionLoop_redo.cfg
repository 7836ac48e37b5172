\* An accepted outcome whose binding names a synapse the Brain does not have.
CONSTANTS
    reqA = reqA
    reqB = reqB
    fromA = fromA
    fromB = fromB
    unitA = unitA
    unitB = unitB
    linkA = linkA
    linkB = linkB
    Id = {reqA, reqB}
    Source = {fromA, fromB}
    Group = {unitA, unitB}
    Synapse = {linkA, linkB}
    Linked = {linkA}
    Life = 1
    MaxAge = 1
    MaxTime = 2
    MaxRev = 3
    MaxHeld = 1
SPECIFICATION ASpec
SYMMETRY Interchangeable
INVARIANT RedoCommitment
CHECK_DEADLOCK FALSE
