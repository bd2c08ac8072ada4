SPECIFICATION FairSpec
CONSTANTS
  Uploads = {1}
  Workers = {w1}
  Batch = 1
  MaxBatches = 2
  Allowance = 1
  Downloads = {d1, d2}
  MaxRequests = 2
  MaxInserts = 2
  MaxFaults = 1
INVARIANTS
  GoneLeavesNothing
  ArchivesRationed
PROPERTIES
  CancelledLosesNothing
  DeletionEnds
CHECK_DEADLOCK FALSE
