SPECIFICATION FairSpec
CONSTANTS
  Jobs = {j1}
  Workers = {w1, w2}
  MaxAttempts = 2
  MaxFaults = 3
  MaxShutdowns = 1
  LostReleases = 1
  NoJob = NoJob
INVARIANTS
  AccountedOnce
  ContentSurvives
  NoLeak
  ShutdownsAreFree
PROPERTIES
  NoResurrection
  LeaseRespected
  KilledForCause
  ImplementsOutcome
  SettlesUnlessLeaked
  Reclaimed
CHECK_DEADLOCK FALSE
