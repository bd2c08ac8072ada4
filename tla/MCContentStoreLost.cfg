SPECIFICATION Spec
CONSTANTS
  u1 = u1
  u2 = u2
  v1 = v1
  master = master
  original = original
  V2 = {u1, u2}
  V1 = {v1}
  Hash <- MCHash
  Paths = {master, original}
  PathsOf <- MCPathsOf
  RowPaths <- MCPathsOf
  MaxFaults = 1
  NoUpload = NoUpload
  Search = Search
INVARIANT
  RetryKeepsParts
CHECK_DEADLOCK FALSE
