CONSTANTS
  Archive = {z1, z2}
  Inpx = {}
  Scope <- MCScope
  Name = {n1}
  Size = {1, 2}
  MaxTime = 3
  SkipModes = {TRUE, FALSE}
  DeleteLogical = FALSE
  Faults = {"error", "writer", "crash"}
  Gone = Gone
  Unknown = Unknown
SPECIFICATION Spec
SYMMETRY Symmetry
INVARIANTS CleanScanListsArchives
PROPERTIES UnchangedArchiveIsSkipped
