CONSTANTS
  Books <- MCBooks
  Readers = {r1, r2}
  MaxCalls = 4
SPECIFICATION Spec
INVARIANTS TextIsWhole ContentsAreRead LinksHaveAnchors
CHECK_DEADLOCK FALSE
