---------------------------- MODULE ArchiveScan -----------------------------
(* Which archives a scan reads, and what becomes of the books of those it     *)
(* does not (src/scanner/zip.rs, inpx.rs).  An archive whose size, and with   *)
(* scanner.skip_unchanged whose time, is the one recorded in its catalog is   *)
(* skipped: its rows are confirmed without a look at its contents.  The       *)
(* record is written before the contents are read, and several scans, failed  *)
(* and interrupted ones among them, work on the same records.                 *)
(*                                                                            *)
(* Here every book is <<archive, name>> and has at most one row, whose id is  *)
(* the book itself; the pipeline between the workers and the writer is the    *)
(* subject of LibraryScan.  Several archives may be open at the same time, as *)
(* they are with scanner.workers_num > 1.                                     *)
EXTENDS BooksTable

CONSTANTS
  Archive,        \* archives: ZIP files, and INPX indexes
  Inpx,           \* the INPX indexes among them
  Scope,          \* the archives whose rows a skip of this archive confirms
  Name,           \* base names of members, or file names of INPX records
  Size,           \* sizes in bytes
  MaxTime,        \* bound on the number of changes to the files
  SkipModes,      \* the values scanner.skip_unchanged is given
  DeleteLogical,  \* scanner.delete_logical
  Faults,         \* what may fail in this instance
  Gone, Unknown

ASSUME ArchiveAssumption ==
  /\ Inpx \subseteq Archive
  /\ Scope \in [Archive -> SUBSET Archive]
  /\ MaxTime \in Nat
  /\ SkipModes \subseteq BOOLEAN /\ DeleteLogical \in BOOLEAN
  /\ Faults \subseteq {"error", "writer", "crash"}

Book == Archive \X Name

\* What identifies a version of an archive, and a version with its contents.
Stamp   == [size : Size, mtime : 1..MaxTime]
Content == [size : Size, mtime : 1..MaxTime, names : SUBSET Name]

ASSUME AbsenceAssumption == Gone \notin Content /\ Unknown \notin Content /\ Unknown \notin Stamp

VARIABLES
  disk,      \* the archives under the library root
  clock,     \* modification time of the last change
  books,     \* the books table
  catalog,   \* (cat_size, cat_mtime) of the archives' catalogs
  skipUnchanged, \* scanner.skip_unchanged of the process that runs
  phase,     \* where do_scan is; "idle" iff no scan runs
  force,     \* the argument of run_scan
  todo,      \* entries the walk found and no worker took, with their times
  open,      \* archives whose stamp is recorded and whose contents are not read
  index,     \* existing_books_by_path: the books that had a row
  confirmed, \* confirmed_existing_ids
  pending,   \* books in the channel or in the writer's batch
  writer,    \* the writer task
  errors,    \* stats.errors > 0
  skipped,   \* the entries this scan skipped (stats.archives_skipped counts them)
  read,      \* history: the size, time and contents this scan saw of an archive
             \* it opened, the contents once it has read them
  known      \* history: what the last scan without errors read of an archive,
             \* Unknown if a scan has opened it since and did not end that way

world == <<disk, clock, skipUnchanged>>
store == <<books, catalog>>
scan  == <<force, todo, open, index, confirmed, pending, writer, errors, skipped, read>>
vars  == <<world, store, phase, scan, known>>

TypeOK ==
  /\ disk \in [Archive -> Content \cup {Gone}]
  /\ clock \in 0..MaxTime
  /\ books \subseteq RowType(Book, Book)
  /\ catalog \in [Archive -> Stamp \cup {Unknown}]
  /\ skipUnchanged \in SkipModes
  /\ phase \in {"idle", "work", "confirm", "delete", "prune", "counters"}
  /\ force \in BOOLEAN
  /\ todo \subseteq Archive \X (1..MaxTime)
  /\ open \subseteq Archive
  /\ index \subseteq Book /\ confirmed \subseteq index /\ pending \subseteq Book
  /\ writer \in {"none", "run", "failed"}
  /\ errors \in BOOLEAN
  /\ skipped \subseteq Archive \X (1..MaxTime)
  /\ read \in [Archive -> Content \cup {Unknown}]
  /\ known \in [Archive -> Content \cup {Unknown}]

Nothing == [a \in Archive |-> Unknown]

Init ==
  /\ disk = [a \in Archive |-> Gone] /\ clock = 0
  /\ books = {} /\ catalog = Nothing /\ skipUnchanged \in SkipModes
  /\ phase = "idle" /\ force = FALSE /\ todo = {} /\ open = {} /\ index = {}
  /\ confirmed = {} /\ pending = {} /\ writer = "none" /\ errors = FALSE
  /\ skipped = {} /\ read = Nothing /\ known = Nothing

Members(a, N) == {a} \X N
RowsIn(A)     == {r \in books : r.file[1] \in A}
Listed(a)     == {b[2] : b \in {c \in Shown(books) : c[1] = a}}

\* do_scan returned or died.
DropContext ==
  /\ phase' = "idle" /\ force' = FALSE /\ todo' = {} /\ open' = {} /\ index' = {}
  /\ confirmed' = {} /\ pending' = {} /\ writer' = "none" /\ errors' = FALSE
  /\ skipped' = {} /\ read' = Nothing

-----------------------------------------------------------------------------
\* The archive is written, replaced or removed; every change has a time of its own.
ChangeArchive ==
  /\ clock < MaxTime
  /\ clock' = clock + 1
  /\ \E a \in Archive :
       \E c \in {Gone} \cup [size : Size, mtime : {clock + 1}, names : SUBSET Name] :
         c # disk[a] /\ disk' = [disk EXCEPT ![a] = c]
  /\ UNCHANGED <<store, skipUnchanged, phase, scan, known>>

\* do_scan up to the end of the walk: the snapshot, set_avail_all, and the
\* archives on disk with the times collect_entries read.
BeginScan ==
  /\ phase = "idle"
  /\ force' \in BOOLEAN
  /\ index' = Ids(books)
  /\ books' = SetAvailAll(books, Unverified)
  /\ todo' = {<<a, disk[a].mtime>> : a \in {x \in Archive : disk[x] # Gone}}
  /\ writer' = "run"
  /\ phase' = "work"
  /\ UNCHANGED <<world, catalog, open, confirmed, pending, errors, skipped, read, known>>

\* Mutant of SameStamp: the time is not compared.
SameSize(a, time) == catalog[a] # Unknown /\ catalog[a].size = disk[a].size

\* The record in the catalog is the one this scan would write.
SameStamp(a, time) ==
  /\ catalog[a] # Unknown
  /\ catalog[a].size = disk[a].size
  /\ skipUnchanged => catalog[a].mtime = time

\* try_skip_zip_archive, try_skip_inpx_archive: skip if a row was confirmed.
SkipArchive ==
  \E e \in todo :
    /\ ~force /\ disk[e[1]] # Gone
    /\ SameStamp(e[1], e[2])
    /\ RowsIn(Scope[e[1]]) # {}
    /\ books' = ConfirmAll(books, Scope[e[1]] \X Name)
    /\ todo' = todo \ {e}
    /\ skipped' = skipped \cup {e}
    /\ UNCHANGED <<world, catalog, phase, force, open, index, confirmed, pending,
                   writer, errors, read, known>>

\* Mutant of StampArchive: a catalog that exists keeps the record it has.
StampNewArchive ==
  \E e \in todo :
    /\ disk[e[1]] # Gone
    /\ force \/ ~SameStamp(e[1], e[2]) \/ RowsIn(Scope[e[1]]) = {}
    /\ catalog' = [catalog EXCEPT ![e[1]] =
                     IF @ # Unknown THEN @ ELSE [size |-> disk[e[1]].size, mtime |-> e[2]]]
    /\ known' = [known EXCEPT ![e[1]] = Unknown]
    /\ open' = open \cup {e[1]}
    /\ todo' = todo \ {e}
    /\ read' = [read EXCEPT ![e[1]] = [size |-> disk[e[1]].size, mtime |-> e[2],
                                        names |-> {}]]
    /\ UNCHANGED <<world, books, phase, force, index, confirmed, pending, writer,
                   errors, skipped>>

\* Not skipped: ensure_archive_catalog with the size fs::metadata just returned
\* and the time of the walk.  (A change of the file between the metadata and this
\* statement cannot be told from one between this statement and the read.)
StampArchive ==
  \E e \in todo :
    /\ disk[e[1]] # Gone
    /\ force \/ ~SameStamp(e[1], e[2]) \/ RowsIn(Scope[e[1]]) = {}
    /\ catalog' = [catalog EXCEPT ![e[1]] = [size |-> disk[e[1]].size, mtime |-> e[2]]]
    /\ known' = [known EXCEPT ![e[1]] = Unknown]
    /\ open' = open \cup {e[1]}
    /\ todo' = todo \ {e}
    /\ read' = [read EXCEPT ![e[1]] = [size |-> disk[e[1]].size, mtime |-> e[2],
                                        names |-> {}]]
    /\ UNCHANGED <<world, books, phase, force, index, confirmed, pending, writer,
                   errors, skipped>>

\* The file is gone, fails the integrity test, or a query fails, before the stamp.
RefuseArchive ==
  \E e \in todo :
    /\ disk[e[1]] = Gone \/ "error" \in Faults
    /\ todo' = todo \ {e}
    /\ errors' = TRUE
    /\ UNCHANGED <<world, store, phase, force, open, index, confirmed, pending,
                   writer, skipped, read, known>>

\* The members are read and examined: an indexed one is confirmed, another one is
\* queued for the writer.  An error in one of them ends the archive or leaves it
\* out, and so does a writer that is gone.
ReadArchive ==
  \E a \in open :
    LET all == IF disk[a] = Gone THEN {} ELSE disk[a].names IN
    \E N \in IF "error" \in Faults THEN SUBSET all ELSE {all} :
      LET found == Members(a, N)  new == found \ index IN
      /\ confirmed' = confirmed \cup (found \cap index)
      /\ pending' = IF writer = "run" THEN pending \cup new ELSE pending
      /\ errors' = (\/ errors
                    \/ disk[a] = Gone \/ N # all
                    \/ writer = "failed" /\ new # {})
      /\ read' = [read EXCEPT ![a].names = all]
      /\ open' = open \ {a}
      /\ UNCHANGED <<world, store, phase, force, todo, index, writer, skipped, known>>

\* commit_pending_book_batch, of as many books as have come together.
Commit ==
  /\ writer = "run"
  /\ \E S \in (SUBSET pending) \ {{}} :
       /\ books' = books \cup {Row(b, b, Confirmed) : b \in S}
       /\ pending' = pending \ S
  /\ UNCHANGED <<world, catalog, phase, force, todo, open, index, confirmed, writer,
                 errors, skipped, read, known>>

\* A batch fails; its rows are rolled back and the channel is closed.
WriterFails ==
  /\ "writer" \in Faults /\ writer = "run" /\ phase = "work"
  /\ writer' = "failed" /\ pending' = {} /\ errors' = TRUE
  /\ UNCHANGED <<world, store, phase, force, todo, open, index, confirmed, skipped, read, known>>

FinishWork ==
  /\ phase = "work" /\ todo = {} /\ open = {} /\ pending = {}
  /\ phase' = "confirm"
  /\ UNCHANGED <<world, store, scan, known>>

ConfirmExisting ==
  /\ phase = "confirm"
  /\ books' = ConfirmIds(books, confirmed)
  /\ phase' = "delete"
  /\ UNCHANGED <<world, catalog, scan, known>>

DeleteUnavailable ==
  /\ phase = "delete"
  /\ books' = IF errors THEN books
              ELSE IF DeleteLogical THEN LogicalDelete(books) ELSE PhysicalDelete(books)
  /\ phase' = "prune"
  /\ UNCHANGED <<world, catalog, scan, known>>

\* delete_empty.  The rows of an INPX index belong to the catalogs of the archives
\* it names, so no row ever belongs to the catalog of the index itself.
PruneCatalogs ==
  /\ phase = "prune"
  /\ books' = PruneEmpty(books, [b \in Book |-> b[1]])
  /\ catalog' = [a \in Archive |->
                   IF a \in Inpx \/ Listed(a) = {} THEN Unknown ELSE catalog[a]]
  /\ phase' = "counters"
  /\ UNCHANGED <<world, scan, known>>

ReleaseLock ==
  /\ phase = "counters"
  /\ known' = IF errors THEN known
              ELSE [a \in Archive |-> IF read[a] = Unknown THEN known[a] ELSE read[a]]
  /\ DropContext
  /\ UNCHANGED <<world, store>>

\* A statement of do_scan itself fails, or the process is killed and started again,
\* with the configuration config.toml holds then.
Crash ==
  /\ "crash" \in Faults /\ phase # "idle"
  /\ DropContext
  /\ skipUnchanged' \in SkipModes
  /\ UNCHANGED <<disk, clock, store, known>>

Next ==
  \/ ChangeArchive
  \/ BeginScan \/ SkipArchive \/ StampArchive \/ RefuseArchive \/ ReadArchive
  \/ Commit \/ WriterFails \/ FinishWork
  \/ ConfirmExisting \/ DeleteUnavailable \/ PruneCatalogs \/ ReleaseLock
  \/ Crash

Spec == Init /\ [][Next]_vars

-----------------------------------------------------------------------------
(* Properties                                                                 *)

\* A scan that ends without an error lists of every archive exactly what it read
\* there; of an archive it skipped, what the last scan without errors read, unless
\* a scan in between failed on it, and with skip_unchanged that is what the archive
\* holds, if it was not changed since the walk; of any other archive, nothing.
CleanScanListsArchives ==
  phase = "counters" /\ ~errors =>
    \A a \in Archive :
      IF read[a] # Unknown THEN Listed(a) = read[a].names
      ELSE IF \A e \in skipped : e[1] # a THEN Listed(a) = {}
      ELSE known[a] # Unknown =>
             /\ Listed(a) = known[a].names
             /\ skipUnchanged /\ disk[a] # Gone /\ <<a, disk[a].mtime>> \in skipped
                  => Listed(a) = disk[a].names

\* An archive that has not changed since a scan without errors read it, and held
\* books then, is skipped by the next scans that are not forced ("Compare
\* mtime+size to skip unchanged archives", config.toml.example:48).
UnchangedArchiveIsSkipped ==
  [][\A a \in Archive :
       ~force /\ disk[a] # Gone /\ known[a] = disk[a] /\ known[a].names # {}
         => a \notin open' \ open]_vars

=============================================================================
