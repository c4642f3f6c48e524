SPECIFICATION Spec
CONSTANTS
    OwnModes = {"general", "economic"}
    QueueCap = 1
    WriteRetries = 2
    MaxFaults = 1
    TimeoutOn = TRUE
    AnswersLost = FALSE
    None = None
INVARIANTS TypeOK RestoresOwn Reported
PROPERTIES Released Converges
