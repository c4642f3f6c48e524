SPECIFICATION Spec
CONSTANTS
    Task = {poller}
    Policy = "on-failure"
    MaxRestarts = 1
    MaxFailures = 0
PROPERTIES RestartReturns
CHECK_DEADLOCK FALSE
