SPECIFICATION FairSpec
CONSTANTS
  Sessions = {s1}
  Kinds = {master, source}
  Source = source
  Puts = {r1}
  Completes = {q1}
  Cleaners = {c1}
  MaxActive = 1
  Quota = 1
  MaxFaults = 1
  NoSession = none
PROPERTY Ends
CHECK_DEADLOCK FALSE
