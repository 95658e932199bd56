SPECIFICATION PreparedSpec
CONSTANTS
    Targets = {t1}
    Publishers = {p1, p2}
    Readers = {r1}
    MaxEpochs = 2
    MaxFaults = 1
INVARIANT NeverSuperseded
CHECK_DEADLOCK FALSE
