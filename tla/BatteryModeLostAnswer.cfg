SPECIFICATION Spec
CONSTANTS
    OwnModes = {"general", "economic"}
    QueueCap = 2
    WriteRetries = 2
    MaxFaults = 1
    TimeoutOn = FALSE
    AnswersLost = TRUE
    None = None
INVARIANTS SavesOwn
