CONSTANTS
  b1 = b1
  b2 = b2
  Book = {b1, b2}
  Tab = {t1}
  CacheMax = 1
  HistoryMax = 2
  PromoteAge = 0
  MaxClock <- MCClock
  MaxPosts = 1
  MaxIdb = 2
  Envs <- MCEnvs
  Shelf <- MCShelf
  Nothing = Nothing
SPECIFICATION Spec
INVARIANTS RowHasFiles 
PROPERTIES ReplayDrains
CHECK_DEADLOCK FALSE
