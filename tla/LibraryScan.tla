---------------------------- MODULE LibraryScan -----------------------------
(* The library scanner of src/scanner: one scan after another, each a         *)
(* pipeline of concurrent tasks (workers that examine what the walk of the    *)
(* library found, a bounded queue, one writer that inserts books in batches), *)
(* run beside the rest of the server: an upload being published, a book being *)
(* deleted by an administrator, files changed under the library root, and the *)
(* process being killed.                                                      *)
(*                                                                            *)
(* An occurrence is one thing the walk finds that stands for a book: a plain  *)
(* file, a member of a ZIP archive, a record of an INPX index.  Several       *)
(* occurrences may name the same book (a record listed twice, two members     *)
(* with the same base name).  Every occurrence is examined by the same steps  *)
(* in process_file, process_zip and process_inpx_zip_group; a step is the     *)
(* code between two awaits.  (The records of an INPX group, which one task    *)
(* examines before it queues any of them, are here held by several workers.)  *)
(* An archive that looks unchanged is skipped and its rows are confirmed; when *)
(* an archive looks unchanged is the subject of ArchiveScan, here any one that *)
(* has rows may.                                                              *)
EXTENDS BooksTable, Sequences, FiniteSets, Functions

CONSTANTS
  Book,           \* (path, filename) pairs
  Plain,          \* the books that are plain files (CatType::Normal)
  Dir, DirOf,     \* the catalogs, and the catalog of every book
  Archive,        \* ZIP files and INPX indexes,
  ArchiveOf,      \* and the one that every book which is no plain file is in
  Occ, NameOf,    \* occurrences, and the book each of them stands for
  Worker,         \* concurrent scan workers (scanner.workers_num)
  RowId,          \* row ids; a spent id is used again once nothing refers to it
  NoRow, NoOcc, Finish,
  QueueCap,       \* capacity of the pending-book channel
  BatchSize,      \* BOOK_INSERT_BATCH_SIZE
  DeleteLogical,  \* scanner.delete_logical
  Outside         \* what happens beside the scan in this instance

ASSUME ConstantsAssumption ==
  /\ Plain \subseteq Book
  /\ DirOf \in [Book -> Dir]
  /\ ArchiveOf \in [Book \ Plain -> Archive]
  /\ NameOf \in [Occ -> Book]
  /\ NoRow \notin RowId /\ NoOcc \notin Occ /\ Finish \notin Book
  /\ QueueCap \in Nat \ {0} /\ BatchSize \in Nat \ {0}
  /\ DeleteLogical \in BOOLEAN
  /\ Outside \subseteq {"files", "upload", "remove", "crash", "unreadable"}

VARIABLES
  disk,       \* occurrences under the library root
  books,      \* the books table
  suppressed, \* suppressed_books
  upload,     \* the occurrence a publish request has written and not yet done with
  undo,       \* that request failed after the file was written
  removal,    \* the row an administrator's delete request is about to delete
  phase,      \* where do_scan is; "idle" iff SCAN_LOCK is free
  index,      \* existing_books_by_path
  walked,     \* what collect_entries returned
  todo,       \* entries not yet given to a worker
  at, job,    \* every worker's step and occurrence
  marked,     \* pending_new_books
  confirmed,  \* confirmed_existing_ids
  queue,      \* the pending-book channel
  batch,      \* the writer's batch
  writer,     \* the writer task
  errors,     \* stats.errors > 0
  skipped,    \* the archives it skipped (stats.archives_skipped counts them)
  added,      \* the books this scan inserted (stats.books_added counts them)
  exempt      \* history: books another actor changed since the snapshot, books
              \* that were logically deleted when it was taken, and books of
              \* skipped archives

env  == <<disk, suppressed, upload, undo, removal>>
work == <<at, job>>
pipe == <<queue, batch, writer>>
seen == <<index, walked, exempt>>
vars == <<env, books, phase, seen, todo, work, marked, confirmed, pipe, errors, added, skipped>>

Names(O) == {NameOf[o] : o \in O}

\* The books whose rows a skip of archive a confirms.
BooksIn(a) == {b \in Book \ Plain : ArchiveOf[b] = a}

\* Ids nothing refers to: AUTOINCREMENT never hands out an id twice.
FreshIds == RowId \ (Ids(books) \cup confirmed \cup {index[b] : b \in Book} \cup {removal})

Phases == {"idle", "snapshot", "mark", "walk", "work", "stuck", "drain",
           "confirm", "delete", "prune", "counters"}

TypeOK ==
  /\ disk \subseteq Occ
  /\ books \subseteq RowType(RowId, Book)
  /\ suppressed \subseteq Book
  /\ upload \in Occ \cup {NoOcc} /\ undo \in BOOLEAN
  /\ removal \in RowId \cup {NoRow}
  /\ phase \in Phases
  /\ index \in [Book -> RowId \cup {NoRow}]
  /\ walked \subseteq Occ
  /\ todo \subseteq walked
  /\ at \in [Worker -> {"idle", "lookup", "find", "check", "build"}]
  /\ job \in [Worker -> Occ \cup {NoOcc}]
  /\ \A w \in Worker : job[w] = NoOcc <=> at[w] = "idle"
  /\ marked \subseteq Book
  /\ confirmed \subseteq RowId
  /\ queue \in Seq(Book \cup {Finish}) /\ Len(queue) <= QueueCap
  /\ batch \in Seq(Book) /\ Len(batch) <= BatchSize
  /\ writer \in {"none", "run", "flush", "done", "failed"}
  /\ errors \in BOOLEAN
  /\ skipped \subseteq Archive
  /\ added \subseteq Book
  /\ exempt \subseteq Book

NoIndex == [b \in Book |-> NoRow]

Init ==
  /\ disk \in SUBSET Occ
  /\ books = {} /\ suppressed = {} /\ upload = NoOcc /\ undo = FALSE /\ removal = NoRow
  /\ phase = "idle" /\ index = NoIndex /\ walked = {} /\ exempt = {}
  /\ todo = {} /\ at = [w \in Worker |-> "idle"] /\ job = [w \in Worker |-> NoOcc]
  /\ marked = {} /\ confirmed = {} /\ queue = <<>> /\ batch = <<>>
  /\ writer = "none" /\ errors = FALSE /\ added = {} /\ skipped = {}

\* do_scan returned or died: its context is dropped, the lock is free again.
DropContext ==
  /\ phase' = "idle"
  /\ index' = NoIndex /\ walked' = {} /\ exempt' = {}
  /\ todo' = {}
  /\ at' = [w \in Worker |-> "idle"] /\ job' = [w \in Worker |-> NoOcc]
  /\ marked' = {} /\ confirmed' = {}
  /\ queue' = <<>> /\ batch' = <<>> /\ writer' = "none"
  /\ errors' = FALSE /\ added' = {} /\ skipped' = {}

-----------------------------------------------------------------------------
(* do_scan, up to the walk                                                    *)

\* run_scan: compare_exchange on SCAN_LOCK; a second caller gets AlreadyRunning.
AcquireLock ==
  /\ phase = "idle"
  /\ phase' = "snapshot"
  /\ UNCHANGED <<env, books, seen, todo, work, marked, confirmed, pipe, errors, added, skipped>>

\* list_existing_for_scan: one id per (path, filename); which of two rows for the
\* same book ends in the map depends on the order the database returns them in.
Snapshot ==
  /\ phase = "snapshot"
  /\ index' \in {f \in [Book -> RowId \cup {NoRow}] :
                   \A b \in Book : IF RowsOf(books, b) = {}
                                     THEN f[b] = NoRow
                                     ELSE f[b] \in Ids(RowsOf(books, b))}
  /\ exempt' = {r.file : r \in books \ Live(books)}
  /\ phase' = "mark"
  /\ UNCHANGED <<env, books, walked, todo, work, marked, confirmed, pipe, errors, added, skipped>>

MarkUnverified ==
  /\ phase = "mark"
  /\ books' = SetAvailAll(books, Unverified)
  /\ phase' = "walk"
  /\ UNCHANGED <<env, seen, todo, work, marked, confirmed, pipe, errors, added, skipped>>

\* collect_entries.  A directory or an archive member that cannot be read is left
\* out, and no error is counted (WalkDir's flatten, "continue" on a bad entry).
Walk ==
  /\ phase = "walk"
  /\ walked' \in IF "unreadable" \in Outside THEN SUBSET disk ELSE {disk}
  /\ todo' = walked'
  /\ writer' = "run"
  /\ phase' = "work"
  /\ UNCHANGED <<env, books, index, exempt, work, marked, confirmed, queue, batch, errors, added, skipped>>

\* A statement outside the workers fails: do_scan returns its error.
Abort ==
  /\ phase \in {"snapshot", "mark", "walk", "confirm", "delete", "prune", "counters"}
  /\ DropContext
  /\ UNCHANGED <<env, books>>

-----------------------------------------------------------------------------
(* The workers: process_entry and the handlers it calls                       *)

Take(w) ==
  /\ phase = "work" /\ at[w] = "idle"
  /\ \E o \in todo :
       /\ todo' = todo \ {o}
       /\ job' = [job EXCEPT ![w] = o]
  /\ at' = [at EXCEPT ![w] = "lookup"]
  /\ UNCHANGED <<env, books, phase, seen, marked, confirmed, pipe, errors, added, skipped>>

\* A worker begins an archive that is the one its catalog records, as far as size and
\* time tell: try_skip_zip_archive, try_skip_inpx_archive confirm all rows of its
\* books, whatever their availability was, and there must be one.
SkipArchive(w) ==
  /\ phase = "work" /\ at[w] = "idle"
  /\ \E a \in Archive \ skipped :
       LET entries == {o \in walked : NameOf[o] \in BooksIn(a)} IN
       /\ entries # {} /\ entries \subseteq todo
       /\ \E r \in books : r.file \in BooksIn(a)
       /\ books' = ConfirmAll(books, BooksIn(a))
       /\ todo' = todo \ entries
       /\ exempt' = exempt \cup BooksIn(a)
       /\ skipped' = skipped \cup {a}
  /\ UNCHANGED <<env, phase, index, walked, work, marked, confirmed, pipe, errors, added>>

Leave(w) ==
  /\ at' = [at EXCEPT ![w] = "idle"]
  /\ job' = [job EXCEPT ![w] = NoOcc]

\* existing_book_id, and mark_existing_book_confirmed when the index has the book.
Lookup(w) ==
  /\ at[w] = "lookup"
  /\ LET i == index[NameOf[job[w]]] IN
     \/ /\ i # NoRow
        /\ confirmed' = confirmed \cup {i}
        /\ Leave(w)
     \/ /\ i = NoRow
        /\ at' = [at EXCEPT ![w] = "find"]
        /\ UNCHANGED <<job, confirmed>>
  /\ UNCHANGED <<env, books, phase, seen, todo, marked, pipe, errors, added, skipped>>

\* find_by_path_and_filename: a row that is not in the index is skipped as it is.
FindRow(w) ==
  /\ at[w] = "find"
  /\ \/ RowsOf(books, NameOf[job[w]]) # {} /\ Leave(w)
     \/ RowsOf(books, NameOf[job[w]]) = {} /\ at' = [at EXCEPT ![w] = "check"] /\ job' = job
  /\ UNCHANGED <<env, books, phase, seen, todo, marked, confirmed, pipe, errors, added, skipped>>

\* Mutant of CheckSuppressed: two workers may both go on with the same new book.
CheckSuppressedOnly(w) ==
  /\ at[w] = "check"
  /\ LET b == NameOf[job[w]] IN
     \/ b \in suppressed /\ Leave(w)
     \/ b \notin suppressed /\ at' = [at EXCEPT ![w] = "build"] /\ job' = job
  /\ UNCHANGED <<env, books, phase, seen, todo, marked, confirmed, pipe, errors, added, skipped>>

\* is_suppressed, then try_mark_pending_new_book with no await between the two.
CheckSuppressed(w) ==
  /\ at[w] = "check"
  /\ LET b == NameOf[job[w]] IN
     \/ b \in suppressed \cup marked /\ Leave(w) /\ marked' = marked
     \/ /\ b \notin suppressed \cup marked
        /\ marked' = marked \cup {b}
        /\ at' = [at EXCEPT ![w] = "build"] /\ job' = job
  /\ UNCHANGED <<env, books, phase, seen, todo, confirmed, pipe, errors, added, skipped>>

\* Mutant of Enqueue: the channel is unbounded.
EnqueueAtOnce(w) ==
  /\ at[w] = "build" /\ writer = "run"
  /\ queue' = Append(queue, NameOf[job[w]])
  /\ Leave(w)
  /\ UNCHANGED <<env, books, phase, seen, todo, marked, confirmed, batch, writer, errors, added, skipped>>

\* Parsing and build_pending_book_insert succeeded: enqueue_pending_book, which
\* waits while the channel is full.
Enqueue(w) ==
  /\ at[w] = "build"
  /\ writer = "run" /\ Len(queue) < QueueCap
  /\ queue' = Append(queue, NameOf[job[w]])
  /\ Leave(w)
  /\ UNCHANGED <<env, books, phase, seen, todo, marked, confirmed, batch, writer, errors, added, skipped>>

\* Mutant of ChannelClosed: the receiver outlives the writer, so send waits.
ChannelStaysOpen(w) == FALSE /\ ~errors /\ Leave(w)

\* send fails: the writer has dropped its end of the channel.
ChannelClosed(w) ==
  /\ at[w] = "build" /\ writer = "failed"
  /\ errors' = TRUE
  /\ Leave(w)
  /\ UNCHANGED <<env, books, phase, seen, todo, marked, confirmed, pipe, added, skipped>>

\* Mutant of Abandon: a failed occurrence is not counted.
AbandonUncounted(w) ==
  /\ at[w] # "idle"
  /\ Leave(w)
  /\ UNCHANGED <<env, books, phase, seen, todo, marked, confirmed, pipe, errors, added, skipped>>

\* The occurrence is given up: a query or the parser failed (a panic of the parser is
\* one too, it runs in a task of its own), or an earlier member of the same archive
\* did; or, with several workers, their task panicked.
Abandon(w) ==
  /\ at[w] # "idle"
  /\ errors' = TRUE
  /\ Leave(w)
  /\ UNCHANGED <<env, books, phase, seen, todo, marked, confirmed, pipe, added, skipped>>

\* With one worker (the default of scanner.workers_num) the entries are examined by
\* do_scan itself: a panic leaves run_scan too, and SCAN_LOCK stays taken as long as
\* the process lives.  The writer holds the context, the end of the channel that sends
\* included, and waits for more.
Panic(w) ==
  /\ at[w] # "idle" /\ Cardinality(Worker) = 1
  /\ phase' = "stuck"
  /\ todo' = {}
  /\ at' = [x \in Worker |-> "idle"] /\ job' = [x \in Worker |-> NoOcc]
  /\ UNCHANGED <<env, books, seen, marked, confirmed, pipe, errors, added, skipped>>

-----------------------------------------------------------------------------
(* The writer: run_pending_book_writer and commit_pending_book_batch          *)

Receive ==
  /\ writer = "run" /\ queue # <<>> /\ Len(batch) < BatchSize
  /\ queue' = Tail(queue)
  /\ IF Head(queue) = Finish
       THEN /\ writer' = (IF batch = <<>> THEN "done" ELSE "flush")
            /\ batch' = batch
       ELSE /\ batch' = Append(batch, Head(queue))
            /\ writer' = writer
  /\ UNCHANGED <<env, books, phase, seen, todo, work, marked, confirmed, errors, added, skipped>>

\* One transaction for the whole batch; every row is inserted as Confirmed.
Commit ==
  /\ \/ writer = "run" /\ Len(batch) >= BatchSize
     \/ writer = "flush"
  /\ \E ids \in Injection(DOMAIN batch, FreshIds) :
       books' = books \cup {Row(ids[i], batch[i], Confirmed) : i \in DOMAIN batch}
  /\ added' = added \cup Range(batch)
  /\ batch' = <<>>
  /\ writer' = (IF writer = "flush" THEN "done" ELSE writer)
  /\ UNCHANGED <<env, phase, seen, todo, work, marked, confirmed, queue, errors, skipped>>

\* The writer returns an error or panics: the batch is rolled back, the receiver
\* is dropped, and with it whatever is in the channel.
WriterFails ==
  /\ writer \in {"run", "flush"}
  /\ writer' = "failed" /\ batch' = <<>> /\ queue' = <<>>
  /\ UNCHANGED <<env, books, phase, seen, todo, work, marked, confirmed, errors, added, skipped>>

-----------------------------------------------------------------------------
(* do_scan, from the end of the workers                                       *)

SendFinish ==
  /\ phase = "work" /\ todo = {} /\ \A w \in Worker : at[w] = "idle"
  /\ \/ /\ writer = "run" /\ Len(queue) < QueueCap
        /\ queue' = Append(queue, Finish)
        /\ errors' = errors
     \/ writer = "failed" /\ errors' = TRUE /\ queue' = queue
  /\ phase' = "drain"
  /\ UNCHANGED <<env, books, seen, todo, work, marked, confirmed, batch, writer, added, skipped>>

\* Mutant of AwaitWriter: the writer's result is not looked at.
AwaitWriterOnly ==
  /\ phase = "drain" /\ writer \in {"done", "failed"}
  /\ phase' = "confirm"
  /\ UNCHANGED <<env, books, seen, todo, work, marked, confirmed, pipe, errors, added, skipped>>

AwaitWriter ==
  /\ phase = "drain" /\ writer \in {"done", "failed"}
  /\ errors' = (errors \/ writer = "failed")
  /\ phase' = "confirm"
  /\ UNCHANGED <<env, books, seen, todo, work, marked, confirmed, pipe, added, skipped>>

ConfirmExisting ==
  /\ phase = "confirm"
  /\ books' = ConfirmIds(books, confirmed)
  /\ phase' = "delete"
  /\ UNCHANGED <<env, seen, todo, work, marked, confirmed, pipe, errors, added, skipped>>

\* Mutant of DeleteUnavailable: deletes whatever the errors.
DeleteAnyway ==
  /\ phase = "delete"
  /\ books' = IF DeleteLogical THEN LogicalDelete(books) ELSE PhysicalDelete(books)
  /\ phase' = "prune"
  /\ UNCHANGED <<env, seen, todo, work, marked, confirmed, pipe, errors, added, skipped>>

DeleteUnavailable ==
  /\ phase = "delete"
  /\ books' = IF errors THEN books
              ELSE IF DeleteLogical THEN LogicalDelete(books) ELSE PhysicalDelete(books)
  /\ phase' = "prune"
  /\ UNCHANGED <<env, seen, todo, work, marked, confirmed, pipe, errors, added, skipped>>

PruneCatalogs ==
  /\ phase = "prune"
  /\ books' = PruneEmpty(books, DirOf)
  /\ phase' = "counters"
  /\ UNCHANGED <<env, seen, todo, work, marked, confirmed, pipe, errors, added, skipped>>

\* counters::update_all, then SCAN_LOCK is released.
ReleaseLock ==
  /\ phase = "counters"
  /\ DropContext
  /\ UNCHANGED <<env, books>>

-----------------------------------------------------------------------------
(* Everything that is not the scan                                            *)

Touch(b) == exempt' = IF phase = "idle" THEN {} ELSE exempt \cup {b}

\* The owner of the library adds or removes files under its root.
ChangeFiles ==
  /\ "files" \in Outside
  /\ \E o \in Occ : disk' \in {disk \cup {o}, disk \ {o}}
  /\ UNCHANGED <<books, suppressed, upload, undo, removal, phase, seen, todo, work, marked,
                 confirmed, pipe, errors, added, skipped>>

\* publish: no row for the name, and the file is created with create_new.
UploadWrite ==
  /\ "upload" \in Outside /\ upload = NoOcc
  /\ \E o \in Occ \ disk :
       /\ NameOf[o] \in Plain
       /\ RowsOf(books, NameOf[o]) = {}
       /\ disk' = disk \cup {o}
       /\ upload' = o
  /\ UNCHANGED <<books, suppressed, undo, removal, phase, seen, todo, work, marked, confirmed,
                 pipe, errors, added, skipped>>

\* publish: insert_book_with_meta inserts the row as Confirmed and then, statement by
\* statement, links its authors, genres and series.  The row may fail, or a link when
\* the row is there.
UploadInsert ==
  /\ upload # NoOcc /\ ~undo
  /\ \/ /\ \E i \in FreshIds : books' = books \cup {Row(i, NameOf[upload], Confirmed)}
        /\ Touch(NameOf[upload])
        /\ \/ upload' = NoOcc /\ undo' = FALSE
           \/ upload' = upload /\ undo' = TRUE
     \/ /\ upload' = upload /\ undo' = TRUE
        /\ UNCHANGED <<books, exempt>>
  /\ UNCHANGED <<disk, suppressed, removal, phase, index, walked, todo, work, marked, confirmed,
                 pipe, errors, added, skipped>>

\* publish: the copied file is removed again, and nothing else is.
UploadUndo ==
  /\ undo
  /\ disk' = disk \ {upload}
  /\ upload' = NoOcc /\ undo' = FALSE
  /\ UNCHANGED <<books, suppressed, removal, phase, seen, todo, work, marked, confirmed,
                 pipe, errors, added, skipped>>

\* delete_book: the file is deleted, or the archived book is suppressed.
RemoveFile ==
  /\ "remove" \in Outside /\ removal = NoRow
  /\ \E r \in books :
       /\ removal' = r.id
       /\ IF r.file \in Plain
            THEN /\ disk' = {o \in disk : NameOf[o] # r.file}
                 /\ suppressed' = suppressed
            ELSE /\ suppressed' = suppressed \cup {r.file}
                 /\ disk' = disk
  /\ UNCHANGED <<books, upload, undo, phase, seen, todo, work, marked, confirmed, pipe, errors,
                 added, skipped>>

\* delete_book: delete_book_and_relations, which may fail.
RemoveRow ==
  /\ removal # NoRow
  /\ books' \in {DeleteRow(books, removal), books}
  /\ exempt' = IF phase = "idle" THEN {} ELSE exempt \cup {r.file : r \in books \ books'}
  /\ removal' = NoRow
  /\ UNCHANGED <<disk, suppressed, upload, undo, phase, index, walked, todo, work, marked, confirmed,
                 pipe, errors, added, skipped>>

\* The process is killed: what is on disk and in the database stays.
Crash ==
  /\ "crash" \in Outside
  /\ DropContext
  /\ upload' = NoOcc /\ undo' = FALSE /\ removal' = NoRow
  /\ UNCHANGED <<disk, suppressed, books>>

-----------------------------------------------------------------------------
WorkerStep(w) ==
  \/ Take(w) \/ SkipArchive(w) \/ Lookup(w) \/ FindRow(w) \/ CheckSuppressed(w)
  \/ Enqueue(w) \/ ChannelClosed(w)

WriterStep == Receive \/ Commit

MainStep ==
  \/ Snapshot \/ MarkUnverified \/ Walk \/ SendFinish \/ AwaitWriter
  \/ ConfirmExisting \/ DeleteUnavailable \/ PruneCatalogs \/ ReleaseLock

Failure == Abort \/ WriterFails \/ \E w \in Worker : Abandon(w) \/ Panic(w)

ScanStep == MainStep \/ WriterStep \/ Failure \/ \E w \in Worker : WorkerStep(w)

OutsideStep ==
  ChangeFiles \/ UploadWrite \/ UploadInsert \/ UploadUndo \/ RemoveFile \/ RemoveRow \/ Crash

Next == AcquireLock \/ ScanStep \/ OutsideStep

Spec == Init /\ [][Next]_vars

(* Fairness: tokio polls a task that is ready and every query and read        *)
(* returns, so no task stops where it could go on.  Nothing has to fail, and  *)
(* nobody has to start a scan, publish or delete anything.                    *)
FairSpec ==
  /\ Spec
  /\ WF_vars(MainStep) /\ WF_vars(WriterStep)
  /\ \A w \in Worker : WF_vars(WorkerStep(w))

-----------------------------------------------------------------------------
(* Properties                                                                 *)

\* The scanner implements Catalogue: seen through the table, its workers, channel,
\* writer and failures do only what that specification lets a scan do.  In
\* particular a scan verifies exactly the rows it indexed of the books it found, and
\* those of the archives it skipped, or drops no row at all; drops rows once; and
\* inserts only books it found and indexed no row of.
Stage ==
  CASE phase \in {"work", "stuck", "drain", "confirm"} -> "reading"
    [] phase = "delete"   -> IF errors THEN "failed" ELSE "verified"
    [] phase = "idle"     -> "idle"
    [] phase = "snapshot" -> "begun"
    [] phase = "mark"     -> "indexed"
    [] phase = "walk"     -> "doubting"
    [] phase = "prune"    -> "dropped"
    [] phase = "counters" -> "purged"

C == INSTANCE Catalogue WITH table <- books, stage <- Stage, known <- index,
                             found <- Names(walked), Logical <- DeleteLogical,
                             Bundle <- {BooksIn(a) : a \in Archive}

ImplementsCatalogue == C!Spec

\* Why it does: what the confirmed ids, the workers, the channel and the batch hold
\* comes from this scan's walk and index.
NewToScan(b) == b \in Names(walked) /\ index[b] = NoRow

PipeInv ==
  /\ confirmed \subseteq {index[b] : b \in Names(walked)} \ {NoRow}
  /\ \A w \in Worker :
       /\ job[w] # NoOcc => job[w] \in walked
       /\ at[w] \in {"find", "check", "build"} => index[NameOf[job[w]]] = NoRow
  /\ \A k \in DOMAIN queue : queue[k] = Finish \/ NewToScan(queue[k])
  /\ \A k \in DOMAIN batch : NewToScan(batch[k])
  /\ writer \in {"run", "flush"} => phase \in {"work", "stuck", "drain"}
  /\ phase \in {"idle", "snapshot", "mark", "walk"} =>
       confirmed = {} /\ queue = <<>> /\ batch = <<>> /\ writer = "none"
  /\ phase = "idle" => index = NoIndex /\ walked = {}

\* One scan inserts a book at most once, however many occurrences of it the
\* workers examine at the same time (pending_new_books): a book is with at most
\* one worker past the mark, or once in the channel, in the batch or inserted.
SingleInsert ==
  \A b \in Book :
      Cardinality({w \in Worker : at[w] = "build" /\ NameOf[job[w]] = b})
    + Cardinality({i \in DOMAIN queue : queue[i] = b})
    + Cardinality({i \in DOMAIN batch : batch[i] = b})
    + (IF b \in added THEN 1 ELSE 0) <= 1

\* A row the scan indexed, of a book its walk found, is still listed after every
\* step, errors, failures of the writer and the deletion step included, unless an
\* administrator deletes that row ("Skipping deletion step", mod.rs).
SeenRowsStayListed ==
  [][\A r \in Live(books) :
       r.file \in Names(walked) /\ index[r.file] = r.id
         => r.id \in Ids(Live(books')) \/ removal = r.id]_vars

\* Why SeenRowsStayListed holds, as an invariant that every step preserves.  While
\* a scan has counted no error, every occurrence it walked is still to be looked up,
\* its indexed row is among the confirmed ids, or it is in an archive that was skipped
\* (Vouched), whose rows are Confirmed; all of them have been looked up when the
\* workers are done, so when the deletion step runs none of these rows is Unverified.
WorkersRest == phase # "work" => todo = {} /\ \A w \in Worker : at[w] = "idle"

ToLookUp(o) == o \in todo \/ \E w \in Worker : at[w] = "lookup" /\ job[w] = o

Vouched == UNION {BooksIn(a) : a \in skipped}

VouchedRows ==
  /\ \A r \in books : r.file \in Vouched => r.avail = Confirmed
  /\ phase \in {"idle", "snapshot", "mark", "walk"} => skipped = {}

Accounted ==
  phase \in {"work", "drain", "confirm"} /\ ~errors =>
    \A o \in walked : \/ index[NameOf[o]] \in {NoRow} \cup confirmed
                      \/ NameOf[o] \in Vouched
                      \/ ToLookUp(o)

SeenRowsConfirmed ==
  phase = "delete" /\ ~errors =>
    \A r \in books : r.file \in Names(walked) /\ index[r.file] = r.id
                       => r.avail # Unverified

ScanInv == TypeOK /\ UniqueIds(books) /\ WorkersRest /\ VouchedRows /\ Accounted
           /\ SeenRowsConfirmed

\* A scan that ends without an error leaves the table equal to the walk: a book is
\* listed iff the walk found it (a suppressed book need not be), and by one row.
\* Books that another actor changed during the scan, and books that were hidden by
\* an earlier logical deletion, are left to the next scan, and what a skipped archive
\* lists to ArchiveScan (exempt).
CleanScanReconciles ==
  phase = "counters" /\ ~errors =>
    /\ Shown(books) \ exempt \subseteq Names(walked)
    /\ Names(walked) \ (suppressed \cup exempt) \subseteq Shown(books)
    /\ \A r, s \in Live(books) : r.file = s.file /\ r.file \notin exempt => r = s

\* A scan that was started ends: no worker stays blocked on the channel, whatever
\* becomes of the writer.  (Only a panic of the only worker leaves the lock taken.)
ScanTerminates == phase # "idle" ~> phase \in {"idle", "stuck"}

\* A logically deleted row is not listed again by any of the steps that examine,
\* insert, verify or drop, not even when its file is back: only the skip of the archive
\* it was in does that, the statement without a condition on avail.
OnlySkipsRelist ==
  [][\A r \in books \ Live(books) :
       r.id \in Ids(Live(books')) => \E a \in skipped' \ skipped : r.file \in BooksIn(a)]_vars

=============================================================================
