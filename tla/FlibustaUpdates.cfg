CONSTANTS
  server = server
  shell = shell
  scheduled = scheduled
  manual = manual
  Archive = {a1, a2}
  Process = {server, shell}
  Server = server
  Updater = {scheduled, manual}
  ProcOf <- MCProcOf
  DryRunner = {manual}
  Retries = 2
  ValidateZip = TRUE
  ScanAfterUpdate = TRUE
  Faults = {"http", "io"}
  MaxMishaps = 1
  Gone = Gone
  Nobody = Nobody
  Nothing = Nothing
SPECIFICATION FairSpec
INVARIANTS OnlyWholeArchives StateFileIsTrue
PROPERTIES PublishedOnce UpdateEnds BatchIsScanned
