SPECIFICATION FairSpec
CONSTANTS
  Sections = {1}
  Policies = {p, q}
  MaxDesired = 1
  MaxTombstones = 2
  TombstoneThreshold = 2
  MaxReceipts = 2
  ReceiptThreshold = 2
  Workers = {w1}
  Cadence = cad
  Ids = {1, 2}
  Batches = FALSE
  MaxRequests = 2
  MaxPages = 1
  MaxChurn = 1
  MaxFaults = 1
  MaxWorld = 1
  MaxUpsets = 1
INVARIANTS
  GreenLight
PROPERTIES
  ServedOrExplained FallsSilent
CHECK_DEADLOCK FALSE
