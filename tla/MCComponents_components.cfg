\* Each component on its own, every behaviour within its bounds.
CONSTANTS
    queryF = queryF
    queryA = queryA
    queryB = queryB
    formA = formA
    formB = formB
    Event <- MCEvent
    Legacy = TRUE
    MaxEvents = 4
    Query = {queryF, queryA, queryB}
    NPoints <- Curriculum
    NGoal = {0, 4}
    NContract = {"v5", "v6"}
    One = 128
    MaxNHeads = 3
    MaxNWitnesses = 5
    MaxNLessons = 5
    CWord = {formA, formB}
    CHeritage <- Heritage
    CPath = {"p1", "p2"}
    CContract = {"words", "sequence"}
    MaxCLearned = 1
    MaxCWords = 2
    MaxCAge = 1
    MaxCTime = 2
    MaxCRev = 4
    GUnit = {1, 2}
    GKnown <- KnownAtFirst
    GInput <- Happenings
    GLesson <- Taughtable
    GPredicted <- Predicted
    GInquiry <- Inquired
    GAge = 1
    GFrames = 2
    GMembers = 3
    GTop = 4
    MaxGTime = 2
    MaxGRev = 3
    MBatch = {"kept"}
    MaxMRev = 5
    reqA = reqA
    reqB = reqB
    fromA = fromA
    fromB = fromB
    unitA = unitA
    unitB = unitB
    linkA = linkA
    linkB = linkB
    Id = {reqA, reqB}
    Source = {fromA, fromB}
    Group = {unitA, unitB}
    Synapse = {linkA, linkB}
    Linked = {linkA}
    Life = 1
    MaxAge = 1
    MaxTime = 2
    MaxRev = 3
    MaxHeld = 1
    TNode = {1, 2, 3, 4}
    TBrain <- Known
    TQuestion <- Questions
    MaxPaths = 1
    FFound <- FoundJournals
    Inode = {1, 2, 3, 4}
    Noone = Noone
    MaxFRecords = 2
    MaxFTampered = 1
    IGraph <- Graphs
    ISection = {"neural_units", "synapses"}
    ILimit = {2}
    IBytes = 3
    MaxIRev = 1
    MaxIEpoch = 2
    MaxIAsked = 2
    QPop = {1, 2}
    QBound = {"focus"}
    QPast <- Pasts
    QStrength = {500}
    QQuality = {1000}
    QInput <- Heards
    QLesson <- Lessons
    QReport <- Reports
    QLevel = {1000}
    QTraces = 2
    MaxQRev = 3
    MaxQRequests = 1
    UTop = 2
    UNear = 1
    USize = 2
    UWord = {1}
    UNoise = {0, 1}
    UCapture <- Captures
    UCamera = {"camera"}
    UDocument <- Documents
    UFoundation <- FirstVectors
    MaxUPops = 5
    MaxUMoves = 1
SPECIFICATION AllSpec
INVARIANTS
    SameBrain
    CrashNeverStrands
    NRestorable
    RollbackKept
    TaughtWithinBudget
    RetentionExact
    CreditedOnce
    CreditSupported
    ContinuationRestores
    TransitionsWithinEpisode
    EvidenceOnce
    SubstrateProtected
    DispatchedOnce
    NumericActionOnce
    ReferenceHeld
    PreservationSound
    VerdictGrounded
    ReadsWhatWasAcknowledged
    ViewIsOneRevision
    GainEarned
    RoutesKept
PROPERTIES
    DistinctionsRetained
    PromotionSupported
CHECK_DEADLOCK FALSE
