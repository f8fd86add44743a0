CONSTANTS
  Pages <- MCPages
  NonLinear <- MCNonLinear
  Nothing = Nothing
  Navigations = {1, 2, 3}
  MaxJumps = 4
  Envs <- MCEnvs
SPECIFICATION Spec
INVARIANTS SettledPositionIsShown OnlyShownIsLoaded
PROPERTIES ReaderSeesPageOrder TurnEnds
CHECK_DEADLOCK FALSE
