SPECIFICATION FairSpec
CONSTANTS
  Requests = {r1}
  MaxDevices = 1
  KeepTokens = 2
  Limit = 3
  MaxRows = 2
  MaxTokens = 1
  MaxRequests = 2
  MaxFaults = 0
PROPERTY ExpiredAreRemoved
CHECK_DEADLOCK FALSE
