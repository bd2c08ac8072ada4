SPECIFICATION FairSpec
CONSTANTS
  newer = newer
  older = older
  Processes = {newer, older}
  Knows <- MCKnows
  None = None
  MaxFaults = 1
  MaxViews = 2
  MaxStops = 1
INVARIANTS
  ViewsConserved
  CleanShutdown
PROPERTIES
  UpgradesAreSafe
  StartupRecovers
CHECK_DEADLOCK FALSE
