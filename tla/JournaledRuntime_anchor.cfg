\* A power failure after a restart that adopted an unsynced event.
CONSTANTS
    c1 = c1
    c2 = c2
    t1 = t1
    s1 = s1
    s2 = s2
    Command = {c1, c2}
    Thought = {}
    Sensor = {s1, s2}
    Failing = {c2}
    Time <- MCTime
    MaxLog = 3
    MaxDetached = 1
    MaxKept = 2
    PowerFailures = TRUE
SPECIFICATION Spec
INVARIANTS
    CheckpointAnchored
CHECK_DEADLOCK FALSE
