SPECIFICATION Spec
CONSTANTS
    MqttCmd = {m1}
    WatchdogCmd = {d1}
    WebCmd = {w1}
    Rejected = {d1}
    QueueCap = 1
    MaxAttempts = 2
    WriteRetries = 2
    None = None
INVARIANTS TypeOK ExactlyOnce InOrder TruthfulAnswer
PROPERTIES WriteReturns ImplementsCommandPath
CHECK_DEADLOCK FALSE
