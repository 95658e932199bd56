SPECIFICATION TurnSpec
CONSTANTS
    Off = Off
    Pair = {c1, c2}
    Connections = {"c"}
    Sections = {"s1"}
    Policies <- DepthPolicies
    Messages = {"m1", "m2"}
    ObsIds = {"o"}
    Requests <- DepthRequests
    MaxSeq = 4
    MaxWatchIds = 2
    MaxActive = 1
    HeartbeatTimeout = 2
    CursorWindow = 1
    ReplayWindow = 1
    Unlimited = Unlimited
SYMMETRY PairSymmetry
INVARIANTS EpisodeSound DerivedExact SharedSound BudgetsBalance HistoryConsistent
PROPERTIES StepsForward SocketsAccounted
CHECK_DEADLOCK FALSE
