SPECIFICATION FairSpec
CONSTANTS
  Processes = {p1, p2}
  Uploads = {u1, old}
  Legacy = {old}
  Targets = {t1, t2}
  First = t1
  MaxUpdates = 1
  MaxFaults = 1
INVARIANTS
  NothingForgotten
  RowsKeepTheirObjects
  SettingsServe
PROPERTY Reclaimed
CHECK_DEADLOCK FALSE
