SPECIFICATION TurnSpec
CONSTANTS
    DropDen = 2
    RecoveryDen = 4
    MinDrop = 1
    Window = 2
    ConfirmMin = 2
    MinSpan = 1
    MaxGap = 1
    ConsistentDen = 4
    Retain = 20
    PruneLimit = 5
    RestartLimit = 3
    MaxControls = 2
    MaxRollbacks = 1
    MaxCrashes = 0
    MaxTime = 1
    MaxAttempts = 3
    MaxRefreshes = 2
    Index = {1, 2, 3}
    Catalogs <- Racing
    Responses <- RacingResponses
    Watchable = {}
    Off = Off
    Parts = {"own", "serve"}
INVARIANT DecisionsHold
 
CHECK_DEADLOCK FALSE
