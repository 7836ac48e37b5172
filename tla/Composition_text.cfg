\* Ordinary text under every contract, with room for six words.
CONSTANTS
    formA = formA
    formB = formB
    CWord = {formA, formB}
    CHeritage <- Heritage
    CPath = {"p1", "p2"}
    CContract = {"words", "sequence"}
    MaxCLearned = 1
    MaxCWords = 6
    MaxCAge = 1
    MaxCTime = 2
    MaxCRev = 5
SPECIFICATION CSpec
INVARIANT CommittedTextApplies
CHECK_DEADLOCK FALSE
