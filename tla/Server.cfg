SPECIFICATION TurnSpec
CONSTANTS
    Off = Off
    Absent = Absent
    Pair = {a, b}
    Clients = {c1, c2}
    Requests = {r1}
    Sockets = {k1, k2}
    MaxNonces = 2
    MaxSessions = 2
    MaxPerSession = 1
    MaxGlobal = 1
    MaxPerClient = 1
    Ttl = 1
    MaxWait = 1
    Watched = 1
    General = 2
    Catalog = 3
    Maintenance = 4
    Delays = {2}
    MaxLate = 1
    MaxChanges = 2
SYMMETRY PairSymmetry
INVARIANTS StoreConsistent AdmittedCurrent AdmissionExact NothingForgotten
    SupervisorConverges  StatusFaithful
PROPERTIES  PagesCounted
CHECK_DEADLOCK FALSE
