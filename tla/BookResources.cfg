CONSTANTS
  Books <- MCBooks
  Loads = {1, 2}
  MaxLoads = 4
  Root = Root
  Nothing = Nothing
SPECIFICATION Spec
INVARIANTS ShownIsLive NothingLeaks
CHECK_DEADLOCK FALSE
