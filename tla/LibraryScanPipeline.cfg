CONSTANTS
  f1 = f1
  i1 = i1
  i2 = i2
  novel = novel
  essay = essay
  shelf = shelf
  inpx = inpx
  box = box
  Book = {novel, essay}
  Plain = {novel}
  Dir = {shelf, box}
  DirOf <- MCDirOf
  Archive = {inpx}
  ArchiveOf <- MCArchiveOf
  Occ = {f1, i1, i2}
  NameOf <- MCNameOf
  Worker = {w1, w2}
  RowId = {r1, r2, r3}
  NoRow = NoRow
  NoOcc = NoOcc
  Finish = Finish
  QueueCap = 1
  BatchSize = 2
  DeleteLogical = FALSE
  Outside = {"files", "crash", "unreadable"}
SPECIFICATION FairSpec
INVARIANTS TypeOK SingleInsert
PROPERTIES ScanTerminates SeenRowsStayListed
