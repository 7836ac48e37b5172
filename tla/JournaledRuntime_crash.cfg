\* Process crashes, write and sync faults, repairs and both recoveries.
CONSTANTS
    c1 = c1
    c2 = c2
    t1 = t1
    s1 = s1
    s2 = s2
    Command = {c1, c2}
    Thought = {t1}
    Sensor = {s1, s2}
    Failing = {c2}
    Time <- MCTime
    MaxLog = 3
    MaxDetached = 1
    MaxKept = 2
    PowerFailures = FALSE
SPECIFICATION Spec
INVARIANTS
    TypeOK
    CheckpointAnchored
    CommittedReplays
PROPERTY AppendOnly
CHECK_DEADLOCK FALSE
