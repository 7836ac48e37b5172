\* Lessons with required precisions on a shared circuit.
CONSTANTS
    f = f
    a = a
    b = b
    Query = {f, a, b}
    NPoints <- Curriculum
    NGoal = {0, 1}
    NContract = {"v6"}
    One = 128
    MaxNHeads = 3
    MaxNWitnesses = 9
    MaxNLessons = 4
SPECIFICATION NSpec
INVARIANT EnvelopeCoversRetained
CHECK_DEADLOCK FALSE
