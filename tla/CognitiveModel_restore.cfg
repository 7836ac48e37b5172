\* A checkpoint of the model after retention has charged the mixture.
CONSTANTS
    MBatch = {"kept"}
    MaxMRev = 5
SPECIFICATION MSpec
INVARIANT CheckpointRestores
CHECK_DEADLOCK FALSE
