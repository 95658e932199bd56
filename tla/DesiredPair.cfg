SPECIFICATION Spec
CONSTANTS
  Sections = {1, 2}
  Policies = {p}
  MaxDesired = 1
  MaxTombstones = 2
  TombstoneThreshold = 2
  MaxReceipts = 2
  ReceiptThreshold = 2
  Workers = {w1}
  Cadence = cad
  Ids = {1, 2}
  Batches = TRUE
  MaxRequests = 2
  MaxPages = 1
  MaxChurn = 1
  MaxFaults = 1
  MaxWorld = 0
  MaxUpsets = 1
INVARIANTS
  EveryWatchAddressable BudgetsHold
PROPERTIES
  BarrierHolds IntentRefined
CHECK_DEADLOCK FALSE
