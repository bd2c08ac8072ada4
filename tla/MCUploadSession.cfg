SPECIFICATION FairSpec
CONSTANTS
  Sessions = {s1}
  Kinds = {master, source}
  Source = source
  Puts = {r1, r2}
  Completes = {q1}
  Cleaners = {c1, c2}
  MaxActive = 1
  Quota = 1
  MaxFaults = 1
  NoSession = none
INVARIANT ReceivedIsStaged
INVARIANT ImageHasFiles
INVARIANT PublishedStays
PROPERTY EndedForGood
PROPERTY Tidied
CHECK_DEADLOCK FALSE
