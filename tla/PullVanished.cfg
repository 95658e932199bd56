SPECIFICATION TurnSpec
CONSTANTS
    DropDen = 2
    RecoveryDen = 4
    MinDrop = 1
    Window = 2
    ConfirmMin = 2
    MinSpan = 1
    MaxGap = 1
    ConsistentDen = 4
    Retain = 20
    PruneLimit = 5
    RestartLimit = 3
    MaxControls = 1
    MaxRollbacks = 0
    MaxCrashes = 0
    MaxTime = 0
    MaxAttempts = 3
    MaxRefreshes = 2
    Index = {1, 2, 3}
    Catalogs <- Losing
    Responses <- LosingResponses
    Watchable = {1, 3}
    Off = Off
    Parts = {"own"}
INVARIANT StartedOwned
CHECK_DEADLOCK FALSE
