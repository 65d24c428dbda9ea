SPECIFICATION Spec
CONSTANTS
    Proxies = {"p1", "p2"}
    Parallel = 2
    MaxOrder = 3
    MaxGood = 1
    MaxCalls = 2
    Sources <- MCSources
    Kind <- MCKind
    Content <- MCContent
    MaxPages = 2
    Terms = 2
    MaxAttempts = 1
    MaxDetails = 1
    MaxFaults = 1
INVARIANTS NoAnswerLost LossesExplained OkIsAnswered
PROPERTY RunEnds
CHECK_DEADLOCK FALSE
