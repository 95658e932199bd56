SPECIFICATION TurnSpec
CONSTANTS
    DropDen = 2
    RecoveryDen = 4
    MinDrop = 1
    Window = 2
    ConfirmMin = 3
    MinSpan = 2
    MaxGap = 1
    ConsistentDen = 4
    Retain = 20
    PruneLimit = 5
    RestartLimit = 3
    MaxControls = 1
    MaxRollbacks = 0
    MaxCrashes = 1
    MaxTime = 3
    MaxAttempts = 4
    MaxRefreshes = 1
    Index = {1, 2, 3, 4, 5}
    Catalogs <- OneCatalog
    Responses <- Shrinks
    Watchable = {}
    Off = Off
    Parts = {"own", "prune"}
INVARIANTS  RecordSound
CHECK_DEADLOCK FALSE
