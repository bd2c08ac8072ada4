SPECIFICATION Spec
CONSTANTS
  Sessions = {s1, s2}
  Kinds = {master, source}
  Source = source
  Puts = {r1}
  Completes = {q1}
  Cleaners = {c1}
  MaxActive = 1
  Quota = 1
  MaxFaults = 1
  NoSession = none
SYMMETRY Symmetry
INVARIANT CapacityRespected
CHECK_DEADLOCK FALSE
