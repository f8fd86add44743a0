CONSTANTS
  Books <- MCBooks
  Fractions <- MCFractions
  MaxTurns = 1
SPECIFICATION Spec
INVARIANTS ReopensWhereItWasLeft TocItemHasBegun SliderFindsItsPlace
CHECK_DEADLOCK FALSE
