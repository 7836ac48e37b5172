\* The first run of a new deployment.
CONSTANTS
    Event <- MCEvent
    Legacy = TRUE
    MaxEvents = 4
SPECIFICATION Spec
INVARIANTS
    BootstrappedBeforeServing
CHECK_DEADLOCK FALSE
