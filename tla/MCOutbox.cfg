SPECIFICATION FairSpec
CONSTANTS
  Events = {e1, e2}
  Workers = {w1, w2}
  Batch = 2
  MaxAttempts = 2
  MaxFaults = 1
  MaxFailures = 2
  MaxShutdowns = 1
  NoEvent = NoEvent
INVARIANTS
  PublishedWasDelivered
  AttemptsArePaid
  NoOrphanedClaims
PROPERTIES
  SettledForGood
  ClaimRespected
  Delivers
CHECK_DEADLOCK FALSE
