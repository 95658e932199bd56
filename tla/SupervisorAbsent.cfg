SPECIFICATION SupervisorSpec
CONSTANTS
    Targets = {t1}
    MaxConcurrency = 2
    MaxRequests = 2
    MaxWorld = 3
    MaxEntries = 2
INVARIANT AbsentIsRunning
CHECK_DEADLOCK FALSE
