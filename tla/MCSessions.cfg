SPECIFICATION Spec
CONSTANTS
  Requests = {r1, r2, r3}
  MaxDevices = 1
  KeepTokens = 2
  Limit = 3
  MaxRows = 3
  MaxTokens = 3
  MaxRequests = 3
  MaxFaults = 1
SYMMETRY RequestSymmetry
INVARIANTS
  EndedIsOut
  CookieWorks
  WindowCloses
CHECK_DEADLOCK FALSE
