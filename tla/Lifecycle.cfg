SPECIFICATION Spec
CONSTANTS
    Task = {poller, worker}
    Policy = "always"
    MaxRestarts = 1
    MaxFailures = 2
INVARIANTS TypeOK LastWord HonestStatus
PROPERTIES Terminates
CHECK_DEADLOCK FALSE
