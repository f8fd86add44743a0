# TLA+ models of ropds

ropds is an OPDS catalogue server: it scans a library of e-books (plain files,
ZIP archives, INPX indexes) into a SQL database and serves it to readers over
OPDS, a web interface with a reader that works offline, and a Telegram bot. The
reader is a page that brings its own libraries: foliate for EPUB, Kindle and
FictionBook, djvu.js for DjVu. This directory holds models of the parts where
several things happen at once, where a step may fail half-way, or where two sides
have to agree on every bit; the TLC runs that check them; and proofs about eight of
the components.

    tlc -workers 2 -config LibraryScanPipeline.cfg MCLibraryScan.tla
    tlapm LibraryScan_proofs.tla

`PROJECT.json` lists the runs, a mutant of the code for every property (a change
that a run must catch), the source lines of every definition, the hazards and the
theorems. Paths in this file are those of the repository; the server is under
`src/`, the reader under `static/`.

## 1. The system

### Components

| component | state it keeps | operations | what makes it correct |
|---|---|---|---|
| **Scan pipeline** (`src/scanner/mod.rs`, `book.rs`, `db.rs`, `zip.rs`, `inpx.rs`) | `SCAN_LOCK`; per scan: index of existing rows, confirmed ids, pending new books, bounded channel, error counter | `run_scan`: snapshot, mark all rows unverified, walk, workers, batch writer, confirm, delete, prune, counters | after a clean scan the table is the walk; after any other one nothing that was seen is lost; one row per book; it ends |
| **Skipping of archives** (`zip.rs`, `inpx.rs`, `db.rs: ensure_archive_catalog`) | size and time in the archive's catalog row | skip and confirm, or stamp and read | what is listed of an archive is what it holds; an unchanged one is skipped |
| **Books and catalogs tables** (`db/queries/books.rs`, `catalogs.rs`) | rows; availability 0 deleted, 1 unverified, 2 confirmed | single SQL statements | transitions of availability; cascades |
| **Upload wizard**, **deletion by an administrator** (`web/upload.rs`, `web/admin/book_delete.rs`) | file, row, `suppressed_books` | publish with roll-back; remove or suppress | file and row go together beside a scan |
| **Scan control**, **Flibusta updater** (`web/admin/scan.rs`, `scheduler.rs`, `flibusta.rs`) | lock file, staging directory, state file | discover, download with retries, validate, publish, report, scan | only whole archives; each once; the lock comes back; a scan meets them |
| **Offline reader** (`static/js/reader.js`, `reader-offline.js`, `sw.js`, `web/views/reader_handlers.rs`, `db/queries/reading_positions.rs`) | queue in localStorage, rows with a mirror of the position in IndexedDB, caches, a position per book on the server | save, queue, replay, resolve; cache and evict a book | the last position is kept somewhere; what is removed was sent; a listed book has its files |
| **Paginator** (`static/lib/foliate/paginator.js`, `view.js`, `reader.js`) | section on the screen, page, lock, recorded position | turn, jump, swipe; load and display sections | what is shown is the next page; the position recorded is the page shown; turns end |
| **EPUB loader** (`foliate/epub.js`) | blob URLs, their cache, reference counts, children | load and unload sections and what they refer to | URLs on the screen are valid, others are revoked |
| **Kindle books** (`foliate/mobi.js`) | text unpacked from both ends, sections and resources with URLs | unpack records, cut sections, resolve links | what is unpacked is what the book has |
| **Places in a book** (`foliate/epubcfi.js`, `progress.js`, `view.js`) | the place shown, its name (CFI), its item of the contents | name, read, resolve, progress | a book opens where it was left |
| **DjVu files** (`static/lib/djvu/djvu.js`: ZP, BZZ, IW44, JB2, DIRM, NAVM, TXT) | the estimates, lists, shapes and coefficients of a decoder | read bit by bit | a reader has what the writer sent |
| **DjVu document and worker** (`djvu.js`: `DjVuWorker`, `DjVuDocument`, `bundle`) | queue of commands, current promise; pages, shared files, memory counted | run, cancel, answer; load, draw, release | answers are their own; every promise settles; memory is within what is counted |
| **PNG pictures** (`djvu.js`: pako, pngjs) | streams of deflate and inflate, parser | write a picture, read one | the picture comes back; a damaged file is not another picture |
| OAuth access, sessions, book editing, bookshelf, counters, conversion, Telegram, covers, parsers, feeds, web catalogue, administration, configuration, mail, migration, the other formats of the reader | rows and files, or nothing | see `PROJECT.json` | not modelled |

### How they interact

On the server everything meets in the database and in the library directory.
Scans (started by the scheduler, by an administrator, by an update, or by `ropds
--scan`), uploads, deletions and edits run as tasks of one tokio runtime, share no
lock but `SCAN_LOCK`, and use one SQL statement, or one transaction per batch of
books, at a time. Within a scan the workers share maps under short locks and send
what they parsed through a channel to the one writer.

In the browser the tabs of one user meet in localStorage, IndexedDB and the caches
of the service worker, and with the server in one position per book. Within a tab
a navigation waits for a section, its resources and an iframe, and others may start
meanwhile; a DjVu document runs in a Web Worker behind a queue of commands.

### What is hard

*Interleaving*: two workers meet the same new book; an upload or a deletion falls
between the snapshot of the index and the marking of all rows; two navigations load
sections in any order; two calls unpack a text from its two ends. *Partial
failure*: the writer loses a batch whose books the workers have forgotten; a save
fails while the next one is on its way. *Crash*: a scan is killed with every row
unverified; a tab is closed in the middle of caching a book. *Ordering*: archives
are stamped before they are read; an answer comes after its command was cancelled.
*Blocking*: workers wait on a full channel whose receiver may be gone; a turn waits
for an iframe that was replaced. *Agreement*: an arithmetic decoder that updates one
estimate differently spoils all that follows. `PROJECT.json` has the list, each
with its line and its properties.

## 2. The modules

| module | models | proofs |
|---|---|---|
| `BooksTable` | the `books` table as a set of rows, one operator per SQL statement | in `LibraryScan_proofs` |
| `Catalogue` (EXTENDS `BooksTable`) | abstract: what a scan, an upload and a deletion may do to the table | |
| `LibraryScan` (EXTENDS `BooksTable`, INSTANCEs `Catalogue`) | the scan pipeline beside uploads, deletions, changes of files and crashes | `LibraryScan_proofs` |
| `ArchiveScan` (EXTENDS `BooksTable`) | stamps, skips and reads of archives, over several scans | `ArchiveScan_proofs` |
| `FlibustaUpdate` | the updater, its callers, and the scans they start | `FlibustaUpdate_proofs` |
| `OfflineReader` | positions and offline copies: tabs, service worker, network, server | `OfflineReader_proofs` |
| `BookPages`, `PageOrder` | abstract: the pages of a book in order, turns and jumps | |
| `Paginator` (EXTENDS `BookPages`, INSTANCEs `PageOrder`) | navigations as they overlap | `Paginator_proofs` |
| `EpubLoader` | blob URLs and their counts, beside the paginator's loads | `EpubLoader_proofs` |
| `MobiText`, `KindleBook` (EXTENDS it) | decompression and indexes, sections and anchors of the older format; the text as calls unpack it | |
| `EpubCfi`, `BookPlaces` (EXTENDS it) | names of places as trees, parts and characters; places, contents, progress bar | `BookPlaces_proofs` |
| `ZPCoder` | the arithmetic coder, both ways | |
| `BZZ`, `JB2`, `IW44` (EXTEND `ZPCoder`), `JB2Writer`, `DjVuRecords` | blocks of bytes; shapes; pictures and their wavelets; the writer of shapes; directories, outlines, texts | |
| `DjVuCodecs` (EXTENDS them all) | a file written, then read, a step per bit, byte, record or slice | |
| `DjVuDocument`, `DjVuWorker` (EXTENDS it) | pages, shared files and memory; commands, messages and promises | `DjVuWorker_proofs` |
| `Deflate`, `Inflate`, `PngReader`, `PngFiles` (each EXTENDS the one before) | codes; the compressor; the decompressor; rows, chunks and their parser; a file on its way | |
| `MC...` | instances for TLC | |

### BooksTable

A row is its id, its book (the pair path, filename) and its availability. Nothing
makes (path, filename) unique in the schema, so a table is a set of rows and not a
function. `SetAvailAll`, `ConfirmIds`, `ConfirmAll`, `LogicalDelete`,
`PhysicalDelete`, `DeleteRow` are the `UPDATE`s and `DELETE`s with their `WHERE`
clauses; `PruneEmpty` is `catalogs::delete_empty` with the cascade to `books`.
Catalogs are not nested here, so the loop over parents is one step.

### Catalogue

The specification that `LibraryScan` implements. Its state is the table and what
decides which rows a scan may change: the stage of the scan, the row every book had
when it began (`known`) and the books it found (`found`). A scan doubts every listed
row, finds books, inserts new rows for found books without one, as often as it likes,
vouches for archives of which it found something (`Vouch`), then either verifies the
rows of *all* found books and drops every row still doubted (`Verify`, `Drop`), or,
if anything failed, verifies some and drops none (`VerifyPartly`). A published row
and an administrator's deletion may come at any time. Where the code promises less
than one would like, so does the specification, and says so: `Vouch` lists hidden
rows again, `Purge` (a catalog that lists nothing goes with its rows) takes hidden
rows even with logical deletion, and a row published between `Index` and `Doubt` is
dropped. The first two are against what the repository says (section 5): the
refinement does not show that hidden rows stay hidden or stay at all, but that
nothing else than these two steps touches them. The refinement mapping is the table
itself, `index` for `known`, `Names(walked)` for `found`, and for the stage `phase`
together with `errors`: between confirmation and deletion a scan with an error
counted is a failed one. What the mapping hides is the workers, the channel, the
batches, the pending marks and the confirmed ids, and that they add up to `Verify` is
what the refinement says.

### LibraryScan

`phase` is the program counter of `do_scan`, "idle" iff `SCAN_LOCK` is free.
`AcquireLock`, `Snapshot`, `MarkUnverified`, `Walk`, then the workers;
`SendFinish`, `AwaitWriter`, `ConfirmExisting`, `DeleteUnavailable`,
`PruneCatalogs`, `ReleaseLock` follow one another. `Abort` is the `?` of every
statement between them.

A worker (`at`, `job`) takes an *occurrence*: a file, a member of a ZIP archive or
a record of an INPX index, any of which may name the same book as another one. The
three handlers examine an occurrence by the same awaits, and each await ends a
step: `Lookup` (the index, no await), `FindRow`, `CheckSuppressed` (which marks
the book as pending without an await in between), `Enqueue`. `Abandon` is every
way an occurrence is given up with an error counted: a failed query, a parser
error, an earlier member of the same archive, a panic of the task. With one worker,
the default of `scanner.workers_num`, there is no task: `Panic` leaves `run_scan`, and
the scan is `"stuck"`, with `SCAN_LOCK` taken, until the process dies.

`SkipArchive` is the skip of an archive that looks unchanged: it confirms all rows of
the archive's books by their path, whatever their availability, if there is one. When
an archive looks unchanged is the subject of `ArchiveScan`; here a worker may skip any
archive of which no entry was examined. The books of it are `exempt`.

`Receive` and `Commit` are the writer: a batch is one transaction. `WriterFails`
rolls the batch back and drops the receiver, after which `send` fails
(`ChannelClosed`) and the result is seen at `AwaitWriter`.

Beside the scan (`Outside` selects what an instance has): `ChangeFiles`;
`UploadWrite`, `UploadInsert`, `UploadUndo` (`publish`: `create_new`, the insert, and
after an error, in a step of its own, the removal of the file; the row stays if only
its links fail); `RemoveFile`,
`RemoveRow` (`delete_book`, whose last statement may fail); `Crash`. "unreadable"
lets the walk leave out what it cannot read.

`added` is the set behind `stats.books_added`; `exempt` is a history variable, the
books that another actor changed since the snapshot or that were hidden before it.

Left out: metadata and links (author, genre, series), covers, and the order of
the books within a batch.

### ArchiveScan

A book is `<<archive, name>>` with at most one row; the pipeline is reduced to a
set of `pending` books that a writer commits in any portions or loses. An archive
has a size and a time. `SkipArchive`, `StampArchive` (`ensure_archive_catalog`,
before anything is read) and `ReadArchive` are separate steps, several archives may
be open at once, and the file may change, or the process die, between any two.
`skipUnchanged` is `scanner.skip_unchanged` of the running process; a restart may
change it. INPX indexes are archives whose own catalog has no rows. `known` and
`read` are history variables: what scans read of an archive.

Assumed: every change of an archive gives it a new time, and the file system has
times (`file_mtime` falls back to none).

### FlibustaUpdate

`pc` is the step of every task in `flibusta::run`. `flock` is the exclusive lock on
`flibusta-update.lock`, which the system releases when the process dies; `staged` is
the staging directory of the run, hidden from the walk; `Rename` publishes one
archive; `Report` writes the state file, and `Return` unlocks and lets the caller
scan. A download that ends may be `"damaged"`: nothing compares its length.
`CheckTarget` and `Rename` are two steps, because operators and uploads do not take
the lock. `scanner[p]` is `SCAN_LOCK`, which is a static and so one per process.
Names, sizes and schedules are left open.

### OfflineReader

A position is the second in which the reader turned to it, and a tick of `now` is
a second, the precision of `updated_at`. `tab[t]` is a page of the reader from its
request to its death: the load through the service worker, `resolveInitialPosition`,
page turns, saves, the replay of the queue, `primeAndCacheBook` and `evictOldest`, each
cut at its awaits; `posts` are requests that the server may answer in any order, refuse
(`PostLost`, `ReplayRefused`: 401 and 403 end the replay, anything else goes on to the
next key) or never get (`ReplayFails`); `idb` are the requests to IndexedDB, which run
in order within a tab. `server[b]` is the row of `reading_positions`: `save_position`
takes whatever position comes, stamps it with the current time, and prunes the rows to
`HistoryMax`. `web_reader` reads a position (`PageRead`) and touches the row
(`PageTouch`) in two steps. `env` says what else may happen in a behaviour: "offline",
"kill", "cut off", "early hide", "server error", "two tabs", "same book"; and what there
is when it begins: places of other devices on the server ("read before"), or copies and
queued places of earlier pages ("unsent").

Three things are merged. `SyncedToMirror` is the write of the mirror and the removal
from the queue, with an await between them: a save that falls there is removed just as
one that came before, and a removal that is late takes a newer entry along either way
(section 5).
Times of the server (seconds) and of the browser (milliseconds) are one clock of
seconds; where the code compares them, it takes the difference off itself (`+ 999`).
And the local steps of a page's start are one.

`last` and `exposed` are history variables: the position saved last in a book, and the
books that met a loss which nothing in the code guards against. A book is exposed once
a request of it is sent while one with *another* position is under way (a save, a
replay, a mirror that is being written, a page that was asked for), for which nothing
orders them (`Crosses`), or once `evictOldest` drops its entry from the queue; it is so
no longer after a save with nothing of it under way. Being offline, killed, cut off or
refused exposes nothing.

### Paginator

The pages of a book are `BookPages`; a section of P pages lies between two empty
ones, 0 and P + 1, and getting there goes on to the next section. `nav[n]` is a
navigation under way: "turn" holds the lock until its view is shown and 100 ms have
passed, "jump" (links, contents, slider) and "snap" (swipes) do not look at it.
Each waits for a section ("load"), for its iframe ("frame"), and a turn for the
delay ("wait"). `pos` is the position last given to `relocate`. `PageOrder` is what
a reader should see: a turn goes to the page beside, a jump to its place, each
takes a while and ends; the mapping shows the place from which a navigation started
until it ends. A container scrolls no further than its empty pages, and `Reachable`
is that clamp: without it a turn in a view that is being replaced would get beyond.
`view.init` opens the saved place once: if an early key has taken the lock by then,
`goTo` returns without a word (`OpenNowhere`).

### EpubLoader

A book is a graph of files. `load[l]` is a call of `loadItem` with the calls it
made (`loadReplaced` of a file, `loadHref` of what it refers to), cut where a file
is read from the ZIP. A file of `damaged` may fail to be read (`ReadFails`): the error
goes through all calls up to `goTo`, whose `.catch` gives a section `{}`; the index is
then undefined (`Display`), so that the section on the screen is never unloaded, and
what the load had made stays. `cache`, `refCount`, `children` are the maps of the class;
`blobs[u]` are the URLs inside the document that the URL `u` is of. The steps of the
paginator that load, show and unload a section are part of it. `unref` calls itself
for each child; here a list of hrefs is worked off, one call (`UnrefOne`) at a time,
and the entries of the lists of children, of which every call but the first takes one
away, bound the calls.

### KindleBook, MobiText

`MobiText` has the two decompressors, the trailing entries of a record, variable
length numbers and INDX records, as operators from bytes to bytes. `KindleBook` is
KF8 (`raw.head`, `raw.tail`): a call of `loadRaw`, `loadSection`, `loadResource` or
`resolveHref` asks for one record after another from one end; two may be under way.
Its contents are the tree of the NCX entries whose level (tag 4) is 0, with those that
name them their parent below them; an entry without a level is in no list.
Its second half (`...6`) cuts the text of the older format at its page breaks and puts anchors where
links point to; its text is a sequence of tokens of one byte each.

### EpubCfi, BookPlaces

A document is a tree of elements, texts and comments, where texts between two
elements are one chunk with one odd index. `EpubCfi` makes a name from a range
(`FromRange`), writes it with its escapes, reads it back through the tokenizer and
parser, and finds the range (`ToRange`). `BookPlaces` turns to every page of a book,
saves its name, opens the book at it, asks for the item of the contents
(`TOCProgress`) and lets the progress bar go anywhere (`SectionProgress`). Items are
indices into the flattened contents, so a group of them is a set; fractions are pairs
of numbers. `ContentsInOrder` says of which books `TocItemHasBegun` is claimed.

### The DjVu codecs

The tables of the ZP coder are those of the code. Contexts are names (`<<"direct",
n>>`, `<<"bzz", n>>`), so an array that two records share is shared by name. The
writer and the reader of ZP, BZZ, IW44 and of the directory are both in `djvu.js`,
and are modelled one against the other. Shapes (JB2), outlines and texts have a
reader only: `JB2Writer` and the writers of `DjVuRecords` are stated from the
format, which is what the reader is measured against. `DjVuCodecs` goes through a
file: the writer, the end of the stream, the reader. Everything is deterministic
once the input is chosen; the point of the steps is that `ReadsWhatIsSent` compares
both sides after each one, so that a difference is found where it arises.

### DjVuDocument, DjVuWorker

A document is bundled, indirect (its files loaded one by one, at most as many kept
as its limit says) or a single page. A page object loads its dictionaries at its
first use. `client` is the queue of the page's side with the current promise,
`toWorker` and `toPage` the two message channels, `jobs[t]` the command in the
worker: chains of calls, which run concurrently, or a bundling with four loads at a
time. Promises are cancelled at any time. `MaxFaults` loads or stray errors happen.
In ropds a document is opened from a buffer, so it is bundled or a single page;
indirect documents are the library's own feature.

### The PNG modules

The viewer writes pictures (`browser.PNG.sync.write`, djvu.js:13384); the reader half
of the same library is modelled because it is what the writer is measured against,
and has a decompressor and a parser worth checking. `Deflate` is the compressor with
the strategies that the writer uses (runs of one byte, or Huffman codes alone),
called until it has no more to give; it also makes the codes, with the
overflow of long ones; `Inflate` is a state machine that stops anywhere for lack of
room; `PngReader` is the chain of reads, each asking for the next. Constants of the
code (window, length of codes, symbols of a block, size of an output) are CONSTANTS,
smaller in the run so that their limits are met.

## 3. The runs

| run | question | states |
|---|---|---|
| `LibraryScanPipeline` | two workers, one plain file and an INPX index that lists the same book twice, a channel of one, batches of two, all failures, crash, unreadable files, under fairness | 135,000 |
| `LibraryScanOutside` | one worker, batches of one, logical deletion, with uploads, an administrator's deletions, a skipped archive and crashes; the inductive invariant `ScanInv` and the refinement of `Catalogue` | 326,000 |
| `ArchiveScanReads` | two ZIP archives of at most one member, two sizes, three changes, every fault, forced and unforced scans, both settings | 496,000 |
| `FlibustaUpdates` | two updaters in two processes beside the server's other scans, two archives, two attempts, one mishap (a kill or an act of the operator), under fairness of what has started | 94,000 |
| `OfflineReading` | two books and a browser that keeps one, one page after another, six environments, under fairness | 544,000 |
| `PageTurning` | three sections of two, one (not linear) and two pages, three navigations at once, four in all, seven environments, under fairness | 298,000 |
| `BookResources` | six books of two chapters that share styles and an image, two loads at once, four in all | 316,000 |
| `DjVuFiles` | bits in four preludes, texts of up to 42 bytes, two directories, an outline, a text, two pages and a dictionary of shapes, six pictures | 18,000 |
| `DjVuPages` | two commands, three kinds of documents of two pages with two shared files, one fault, under fairness | 66,000 |
| `KindleBooks` | three books, four calls, two at once | 22,000 |
| `BookPlaces` | two books with text, every page of them, one turn, every place of the bar; a book without text | 16,000 |
| `PngImages` | twenty-one pictures; two of their files lose their end or a bit at every place | 11,000 |

### Why these bounds

Two workers and two occurrences of one book are what a double insert needs; a third
worker or occurrence repeats one of them. A channel of one fills at the first book,
so every blocking case happens. A batch of two has a batch that is full, one that
is flushed by Finish, and one that is lost with a book in it. Three row ids are one
per book and one for a second row of the same book; ids are reused only when
nothing refers to them, so the bound does not hide a step. One crash or one upload
is not a bound: they happen any number of times, over any number of scans.
`MaxTime` 3 is a file that is read, changed under a scan and changed again.
`MaxMishaps` 1 bounds kills and acts of the operator in `FlibustaUpdate`, because
liveness cannot hold if the server is killed for ever.

The other scan of `FlibustaUpdates` starts before, during or after the update, so that
the scan of the update is refused in every stage of it. `OfflineReading` opens both books
in a browser that is left in peace, and in one whose tabs are killed or cut off: a cache
of one makes every second book an eviction. In the other environments one book is opened.
Where the server has a place of it and the clock goes on to a second one, the two cross
in a replay, a mirror or a request for the page, offline or beside a server that refuses.
Where a copy of the other book waits with a place that is not sent, a replay has two keys,
and is ended by the network, by refusals or by a kill, also while that copy is evicted;
there the clock stands still. Two requests to IndexedDB under way are what a save during a
caching needs, and an entry is too old for its book (`PromoteAge`) after a second. One
save of a page is under way at a time (`MaxPosts`), beside one replay; the theorem has any
number, any clock and any environment. Two tabs at once are too long for a run. Three
navigations are one that is overtaken, the one that overtakes it and one that finds
what the two left. Two sections that share a style and an image are what a count of
references needs, and six books are the shapes of sharing: plain, alone, a cycle, a
missing file, a missing chapter, an impatient reader. Two commands at once are one
that is current and one in the queue; a limit of three files is met by the second
page. In the codecs the inputs are chosen so that every branch is taken: counts that are
scaled, contexts that turn over, shapes drawn from others, a slice that begins late,
a window that is moved, codes that get too long.

### What the properties say

- `SingleInsert`: a scan inserts a book once, whatever the workers meet together.
- `ImplementsCatalogue`: every step of the pipeline and of what runs beside it is a
  step of `Catalogue` or invisible in it. A worker that gives up without counting an
  error, a deletion step that ignores errors, a batch committed after the writer's
  end, or an inserted book that had a row: each of these is a step it does not have.
- `SeenRowsStayListed`: no step takes an indexed row of a walked book out of the
  listings, errors and deletion included, but the administrator's own deletion.
- `CleanScanReconciles`: without errors, listed = walked, one row each.
- `ScanTerminates`: no worker stays blocked on the channel, whatever the writer does;
  but for a scan of one worker that panicked, after which no scan runs (section 5).
- `OnlySkipsRelist`: a hidden row is listed again only by the skip of its archive, and
  by nothing else that a scan, an upload or a deletion does.
- `CleanScanListsArchives`, `UnchangedArchiveIsSkipped`: the skip is sound, as long
  as no scan failed on the archive in between, and happens.
- `OnlyWholeArchives`, `PublishedOnce`, `StateFileIsTrue`, `UpdateEnds`: as their names
  say. `BatchIsScanned`: what a successful update published is met by its own scan, or
  by the one that its own is refused for unless that one had walked already; no later
  scan is relied on.
- `RowHasFiles`: a listed copy is whole. `LastPlaceIsKept`: the place saved last in a
  book is on the server or waits in the queue, offline, killed and refused pages
  included, unless the book is exposed (section 2). `ReplayDrains`: what waits is sent.
- `ReaderSeesPageOrder`: a reader who waits sees `PageOrder`, liveness included.
  `SettledPositionIsShown`, `OnlyShownIsLoaded`, `TurnEnds`: however navigations
  overlap, what is recorded is what is shown, and the lock comes back.
- `ShownIsLive`, `NothingLeaks`: counts of references are neither too small nor too
  large, in a book without circles of imports and with a reader who waits; `NothingLeaks`
  also as long as every file could be read (section 5).
- `ReadsWhatIsSent`, `WholeInputIsRead`, `PictureComesBack`: the reader has what the
  writer sent, step by step and in the end. `CutIsRefusedOrWhole`: a damaged file is
  refused or gives the same picture.
- `AnswersAreTheirOwn`, `OneAtATime`, `MemoryIsCounted`, `EveryPromiseIsSettled`: the
  queue of the DjVu worker with cancellations, and what it keeps.
- `TextIsWhole`, `ContentsAreRead`, `LinksHaveAnchors`: of Kindle books.
- `ReopensWhereItWasLeft`, `TocItemHasBegun`, `SliderFindsItsPlace`: a page is found
  again by its name, is in the last item of the contents that has begun, and the
  progress bar leads where it was let go.

Deadlock is not checked where the system may stop: a reader who reads no more, all
navigations, calls or commands made, a file that is read.

### Fairness

`LibraryScan`: weak fairness of the steps of `do_scan`, of the writer and of every
worker: tokio polls a task that is ready and queries return. Failures, uploads and
new scans are not fair: nothing has to go wrong, and nobody has to start a scan.
`FlibustaUpdate`: weak fairness of every updater (each await has a time limit),
and of walks and ends of scans (`ScanTerminates`); not of the server's other scans,
since a schedule may be empty. `OfflineReader`: of the event loop of a tab (requests to
IndexedDB, replays, evictions), which goes on unless the tab is killed, and not of the
network or of a save. `Paginator`: of every navigation: an iframe
that is in the document loads, a timer fires; one that was replaced does not load.
`DjVuWorker`: of the worker, its messages and its loads, each of which ends with
data or an error (an XHR without a time limit is taken to end). The other modules
have no liveness property and no fairness.


## 4. What the proofs show

Every theorem is for all values of the constants, and assumes what the module of its
component assumes of them (`ConstantsAssumption`, `ArchiveAssumption`,
`UpdateAssumption`, `OfflineAssumption`, `PaginatorAssumption`, `LoaderAssumption`,
`PlacesAssumption`; and that the values
for "none" are none of the others, `AbsenceAssumption` and `NothingAssumption`),
which TLC evaluates in the runs. A condition beside them is in the table.

| theorem | statement |
|---|---|
| `TypeCorrect` | `LibraryScan`: `Spec => []TypeOK` |
| `BookkeepingCorrect` | `Spec => []ScanInv` |
| `SeenRowsSafe` | `Spec => SeenRowsStayListed` |
| `OnlySkipsRelistSafe` | `Spec => OnlySkipsRelist` |
| `CatalogueImplemented` | `Spec => ImplementsCatalogue` |
| `SingleInsertSafe` | `Spec => []SingleInsert` |
| `CleanScanSafe` | `Spec => []CleanScanReconciles` |
| `ArchivesAreTyped` | `ArchiveScan`, with `OwnRows`: `Spec => []TypeOK` |
| `ArchivesAreListed` | with `OwnRows`: `Spec => []CleanScanListsArchives` |
| `UnchangedIsSkipped` | with `OwnRows` and `NoIndexes`: `Spec => UnchangedArchiveIsSkipped` |
| `UpdateCorrect` | `FlibustaUpdate`: `Spec => []UpdateInv` |
| `OnlyWholeSafe` | `Spec => []OnlyWholeArchives` |
| `StateFileSafe` | `Spec => []StateFileIsTrue` |
| `PublishedOnceSafe` | `Spec => PublishedOnce` |
| `RowHasFilesSafe` | `OfflineReader`: `Spec => []RowHasFiles` |
| `LastPlaceSafe` | with `IsFiniteSet(Book)`: `Spec => []LastPlaceIsKept` |
| `PagesAreTyped` | `Paginator`: `Spec => []PageInv` |
| `SettledPositionSafe` | `Spec => []SettledPositionIsShown` |
| `OnlyShownSafe` | `Spec => []OnlyShownIsLoaded` |
| `ReaderSeesPages` | the safety part of `ReaderSeesPageOrder` |
| `LoaderInvariant` | `EpubLoader`: `Spec => []IInv` |
| `ShownStaysLive` | `Spec => []ShownIsLive` |
| `NothingStays` | `Spec => []NothingLeaks` |
| `TocItemSafe` | `BookPlaces`: `Spec => []TocItemHasBegun` |
| `SliderSafe` | `Spec => []SliderFindsItsPlace` |
| `WorkerIsTyped` | `DjVuWorker`: `Spec => []TypeInv` |
| `OneAtATimeSafe` | `Spec => []OneAtATime` |
| `AnswersAreTheirOwnSafe` | `Spec => []AnswersAreTheirOwn` |
| `MemoryIsCountedSafe` | `Spec => []MemoryIsCounted` |

### LibraryScan

`SeenRowsStayListed` is not inductive by itself: nothing in it says that the rows
which the deletion step takes were not seen. `ScanInv` adds what the code keeps
track of. `Accounted`: while no error is counted, every walked occurrence is still
to be looked up, or its indexed row is among the confirmed ids. It is preserved
because each way to drop an occurrence counts an error, the reason why `Abandon`
and a lost writer must set `errors`. `WorkersRest`: outside the work phase nothing
is left to look up. `SeenRowsConfirmed` follows from the two at `ConfirmExisting`
and is exactly what the deletion step needs; `UniqueIds` makes "the indexed row"
one row, and `TypeOK` bounds availability. Each conjunct is preserved by a lemma
per action group (`TableSteps`, `QuietStep`, `DropInv`, `PastLookup`, `StepInv`).

`OnlySkipsRelist` needs no invariant beyond the types and `UniqueIds`: each statement
of the pipeline but the skip's has a `WHERE avail > 0` or `avail = 1`. The skip is the
`Vouch` of `Catalogue`, and its books are `exempt` in `RowsInv` and `FlowInv` below.

`CatalogueImplemented` needs a second invariant, `PipeInv`: whatever is confirmed
comes from the index and the walk of this scan, and whatever is with a worker past
the lookup, in the channel or in the batch is a walked book without an indexed row.
`PipeInv` gives one half of "the confirmed ids are exactly `Kept`" at
`ConfirmExisting`, and `Accounted` the other, when no error was counted. It also
makes a committed batch an `Insert`. The proof has one lemma per kind of step
(`StutterStep`, `WorkStep`, `EndStep`, `CommitStep`, `ConfirmStep`), one case per
action in `StepRefines`, and `SameTable` for the statements on the table, which
`Catalogue` has its own instance of.

`SingleInsertSafe` rests on `OnePlace`: a book that is marked as pending is with one
worker, once in the channel, once in the batch, or inserted. It is stated without
cardinalities ("two places that hold the same book are the same place"), and the
theorem counts afterwards (`AtMostOne`). The mark is set in the same step as the
check, which is what keeps a second worker out.

`CleanScanSafe` adds three more. `WriterInv`: Finish is the last message, so a writer
that has met it has read everything, and a scan that confirms without an error had a
writer that was done. `RowsInv`: every row of a book that nobody else changed is
either new, then Confirmed, inserted by this scan and the only one of its book, or
old, then Unverified until the confirmation, after it Confirmed only if it is the
indexed row of a walked book, and after the deletion listed only then; and the
indexed row of a walked book does not get lost. `FlowInv`: while no error is counted,
a walked book without an indexed row is still to be examined, on its way (`Held`), or
done with (`Met`: it has a row, is suppressed or exempt). At `ConfirmExisting` the
first two are impossible, by `WorkersRest` and `WriterInv`. Here it shows that an
error must be counted by every way to lose a book, the failed writer included.

### ArchiveScan

`CleanScanListsArchives` looks at a scan's end; `ArchiveInv` says how it gets there.
`Once`: an archive is to do, skipped, open or read, never two of these, and what was
known of one that is opened is forgotten. `Times`: nothing has a time later than the
clock, so an equal time is the same version. `Accounted`: while no error is counted,
a member that was read is confirmed, queued or in the table, and nothing else is
ever confirmed or queued. `Avails`: until the confirmation a row is Confirmed iff it
is new or of a skipped archive, after it also if it was read, and the deletion keeps
exactly these (`Kept`). `KnownRows`: the rows of an archive that is known are those
that were read then, or none: the deletion takes all of them together, because no
row of such an archive can be confirmed one by one. `CleanNames` reads the result
off these.

`UnchangedIsSkipped` adds `SkipInv`: an archive that is unchanged since it became
known is walked with its own time, is met by every scan without errors, and keeps
its record and its rows (`Walked`); one that was read loses its record only with its
last row (`ReadStamp`).

`OwnRows` (a skip confirms the archive's own rows, and deletion is physical) and
`NoIndexes` are conditions and not conveniences. With logical deletion TLC refutes both
properties (a skip lists rows again that were deleted), and an INPX index is opened by
every scan, which refutes `UnchangedArchiveIsSkipped` (section 5).

### FlibustaUpdate

`UpdateInv` has, beside the types, where the lock is (`LockIsHeld`, `ScanIsAwaited`)
and what each step may rely on: `NothingMovedYet` until the first rename,
`StagedIsWhole` from validation on, `TargetIsFree` for the archive about to be
renamed, `AllMoved` when the report is written. `OnlyWholeArchives` is inductive
only with `StagedIsWhole`: a rename publishes what is staged. `PublishedOnce` and
`StateFileIsTrue` follow from the lock: while one updater is between its steps, no
other one is, in whatever process. One lemma per action, one step per conjunct.

### OfflineReader

`RowHasFiles` (a book listed as available offline has its files and its page) is
proved for one tab at a time (its `OneTab`), with any number of books, any
interleaving of `primeAndCacheBook` and `evictOldest` with the requests they wait
for, kills, and server errors left out. `OfflineInv` says where in the two
functions a tab may be when a row exists (`PrimeFollowsBook`, `PrimeIsInOrder`):
the row is written after the last file and removed before the first.

`LastPlaceIsKept` is proved for every environment, any number of tabs and of requests
under way. Its premises (books are cached at all, and the history has room for every
book) are the code's limits: a row that is pruned loses the place of its book. By
itself it is not inductive: what a request carries may replace what the server has, and
an answer may remove what the queue has. `KeepInv` adds, for a book that is not exposed
(`Settled`): what is queued is the place saved last; every post and every replayed entry
carries it (`Posted`, `Replayed`), and has left it on the server if it was answered;
what is about to be mirrored, and then removed from the queue, is on the server
(`Mirrored`); and the page that `web_reader` is rendering has what the server has, which
is the place saved last if anything is on its way (`Rendered`), so that its touch writes
nothing else. Beside these it has what a page may have under way (`Works`,
`PostsAreOwned`): an entry that is mirrored was answered, and there is one.

Steps that send nothing are alike: a tab keeps or drops what it has under way (`Goes`,
`Shut`), requests are lost or lose the page that waits for them (`Left`), and what is
removed from the queue is on the server (`Stays`). `QuietKeeps` proves the invariant of
these three, and most actions have a lemma that only establishes them. The steps that
send (`PageReadKeeps`, `RecordedKeeps`, `ReplayNextKeeps`) rest on `Crosses`: unless
the book is exposed by the step, all that is under way carries the same position
(`OnlyThis`). A save with nothing under way starts the book afresh (`NothingUnderWay`).

### Paginator

`PageInv` is the types and two facts that hold for any navigations that overlap:
what is under way leads to a page of the book (`NavigationGoes`), and an iframe that
has not loaded is the one somebody waits for, or was replaced (`FrameIsAwaited`).
That `#adjacentIndex` finds a section, and the nearest one, is `LeastExists` on the
numbers of sections, by well-foundedness: the induction is on a set and not on an
operator, which the provers can do. `SettledPositionSafe` needs `PositionFollows`:
in a book without broken or empty sections the recorded section is the one on the
screen, and whenever its view is ready and shows one of its text pages, the recorded
page is the page shown.

The reader who waits has one navigation at a time, and its state is one of `AtRest`,
`NothingYet` and `UnderWay` with its stages (`Loads`, `WaitsForFrame`, `Turned`);
each says what is loaded, which page is on the screen, and where it came from.
`OnlyShownSafe` follows from these; `ReaderSeesPages` maps every action, of any mix
of environments, to a step of `PageOrder` or a stutter. That a turn and a jump end,
the fair part of `PageOrder`, stays with TLC.

### EpubLoader

`IInv` has nothing to say of a book with a circle of imports. Of the others
(`OrderlyInv`): `UrlsRight`, what is live is one URL per file that has one, and
inside it are the URLs of the file's children, if no load has failed exactly these
(`Agrees`); `ListsRight`, a file is once at most in a list of children, has a URL as
long as it is in one, and only files with a URL, and those that are being rewritten,
have such a list unless a load has failed; `CountsRight`, the count of a file that is
no section is the number of lists that hold it; `LoadRight`, a load is a chain of
files, each of which refers to the one that is loaded for it, and the URLs that a
file got so far are those of its children; `ViewRight`, the section on the screen has
a URL. `PlainInv` adds, for books whose chapters are all there, that at rest no other
section has one.

`unref` breaks the counts while it works: `CountsRight` counts the places of a file in
the list that is still to be worked off beside the lists of children, and one call
keeps that sum (`UnrefOne` takes a place, or turns a list of children into places).
That the list is empty in the end is a count too: each call takes an entry away and
`Unref` makes one call more than there are entries. Where an argument calls for
induction over the calls, it is by the least number of calls that contradicts it.

A circle is where the counts fail, and the proof shows why: `createURL` sets the count
to one, which is right as no list holds a file without a URL (`ListsRight`) and no
file is in the chain of loads twice. The second is the absence of circles: a chain that
came back to a file would be one.

`ShownStaysLive` follows from `UrlsRight`, since what is inside a live URL is live; for
`NothingStays`, take the greatest URL that is live and not needed: its file is in a
list, and the file with that list has a later URL, which is needed.

### BookPlaces

`PlacesInv` ties what the reader is told to what the code computes for the page and the
place of the bar; what is left are two facts about these computations. For
`TocItemHasBegun`: that paths are ordered as the document is (`BeforeTransitive`), so
that the items of a section that begin after the page follow those that have begun
(`LaterStays`), and then the three cases of `getProgress`: none begins after the page,
all do, some do; and the section without items. For `SliderFindsItsPlace`: that the
sums of sizes are what they are (`SizeBeforeIs`, by the least index where they would
not be), so that the section found is the one where they pass the place
(`SectionFound`). Nothing is assumed of the sizes: empty sections, and books without
text, are cases of the proof. That a page is found again by its name is not proved: a
name is a string that a tokenizer and a parser fold over.

### DjVuWorker

`IInv` is inductive and has six parts beside the types. `OneInv`: while the worker
has reported no stray error, the page that is working has its one command on the way,
in the worker, or its one answer on the way back, and a page that is not working has
none of these: no cancellation touches `working`. `OwnInv`: a number names one
command, what is queued was never sent, the current promise is that of the current
number, and an answer carries the number of its task. This holds with stray errors
too: an answer that comes late has a number that is no longer current, or finds no
current promise. `PagesOwn`: an object that a chain holds belongs to the chain's page.
`AllRight`: what chains and messages carry is what the promise is to be given; for a
bundle, that the files are started in the order of the directory, each under its own
name (`BundleOK`: the n-th file that is a page is page n); for a page, that no object
lacks a file it includes while no chain has failed. `MemoryInv`: what an indirect
document counts beyond its pages and shared files (`Slack`) covers every page that has
arrived and waits for its files (`Taking`). `releaseMemoryIfRequired` is shown to
keep `Slack` on each of its paths, the two that throw included: they count more than
they hold, never less.

The steps of the worker are described twice. What they do to the document is `Touches`
(objects reset or initialised), `Releases`, `Gets`, `Grows`; what they post is `Posted`
(progress, and one answer at the end of the command). Then the invariant is proved of
these (`PageStep`, `FileStep`, `Taken`) and not of the actions. `UseAll`, in which the
chains of a command use a page one after another, is a relation on what they find and
not a fold: a least element of the chains that find a page without its files is enough
for the proof. TLC checked each part on the run's instance before it was proved.

### Only model-checked

Liveness under fairness is out of reach of the proof system: `ScanTerminates`,
`UpdateEnds`, `BatchIsScanned`, `ReplayDrains`, `TurnEnds`, `EveryPromiseIsSettled`
and the liveness in `ReaderSeesPageOrder` are checked on the instances of the runs. The
invariants of the codecs, the Kindle texts, the names of places and the PNG modules
(`ReadsWhatIsSent`, `WholeInputIsRead`, `TextIsWhole`, `ContentsAreRead`,
`LinksHaveAnchors`, `ReopensWhereItWasLeft`, `PictureComesBack`,
`CutIsRefusedOrWhole`) are about what parsers, coders and compressors return for data.
Most of these are `RECURSIVE` operators, which the provers do not take. The sums and
chains of calls of the two sections above are recursive functions of one number, for
which a least counterexample stands in for induction; a decoder that is to undo an
encoder on every input is beyond that.

## 5. Where the code does less than it says

Met while modelling, and the reason why properties name conditions. Every one of
these steps is in a model unless said otherwise.

- A book published between the snapshot of the index and the marking of all rows is
  neither indexed nor confirmed: a clean scan drops its row while its file is there
  (`src/scanner/mod.rs:260`). `CleanScanReconciles` leaves such books (`exempt`) out.
- `delete_empty` cascades to rows that logical deletion keeps (`mod.rs:403`;
  `locales/en.toml:172` promises to keep them): `Purge` of `Catalogue`.
- With `scanner.workers_num` at most 1, the default, entries are examined by `do_scan`
  itself (`mod.rs:313`). A panic in one leaves `run_scan` before it clears `SCAN_LOCK`
  (136 to 139), and every later scan of the process is refused. `ScanTerminates` excepts
  the scan that is stuck so.
- A directory that cannot be read looks empty and its books are deleted
  (`mod.rs:511`, `519`).
- The skip of an archive lists logically deleted rows again (`zip.rs:328`;
  `CHANGELOG.md:151` says that deleted books are not reactivated): `Vouch` of
  `Catalogue`, and the exception of `OnlySkipsRelist`.
- An archive is stamped before it is read (`zip.rs:53`): after a scan that failed on
  it the next one skips it and keeps what is gone, and what a killed scan did not
  commit is not added until the archive changes. `CleanScanListsArchives` is
  conditioned on this.
- The catalog of an INPX index is empty and is pruned by the scan that stamped it, so
  an index is read again by every scan (`inpx.rs:34`).
- The updater moves a batch archive by archive (`flibusta.rs:139`); `README.md:333`
  says "atomically move the complete batch". Half a batch is not scanned
  by its update, nor is one whose scan is refused by a scan that has walked
  (`scheduler.rs:146`): both wait for the next scan.
- `markPositionSynced` and the replay remove whatever position is queued for a book when
  an answer comes, also a newer one whose own request failed (`reader-offline.js:397`,
  453; the comment at 336 calls this safe). What is left then is the
  older place, in the mirror and on the server.
- A time of the server is the time of the last touch, which `web_reader` renews with
  every page: what was read offline and not yet sent is older than the server's place,
  and caching the book again puts that into the mirror (142; the comment at 140 says it
  "does not regress position"). The queue still has the newer place.
- Two positions of a book under way at once may arrive in either order, and
  `save_position` compares nothing: two saves (`reader.js:90`), a replay and a save
  (`reader-offline.js:436`), the touch of a page and a save (`reader_handlers.rs:117`:
  the server reads a position and touches the row in two statements). The one that is
  overtaken brings the server back to an earlier place, and its answer clears the queue.
  This is what `exposed` stands for: TLC finds the loss at once without the exception.
- The eviction of a book takes its unsent position along (114), which `exposed` covers too.
- `primeAndCacheBook` refetches the page (258), and an error of the server then removes
  the bytes of a copy whose row stays (263). Two tabs evict each other's books (70).
  `RowHasFiles` leaves both out.
- Positions within the same second are ordered by a tolerance of 999 ms (417): hence
  a clock in seconds. A page closed before `resolveInitialPosition` has ended saves a
  stale place (`reader.js:51`); positions of closed pages are sent only on the next
  `online` event.
- A turn whose iframe is replaced by a jump never ends, and the lock stays taken
  (`paginator.js:1060`). `TurnEnds` leaves
  jumps and swipes during a turn out.
- Two calls of `KF8.loadRaw` join records in the order of arrival, not of their
  numbers (`mobi.js:1126`): `TextIsWhole` holds as long as no record overtakes
  another one. `loadSection` and `loadResource` each leak a URL when called twice at
  once (1101, 1170). The first section and the contents of
  MOBI6 get no anchors (728).
- Files of an EPUB that import each other in a circle break the count of references:
  `createURL` sets it to one while the lists of children of older files still hold the
  file (`epub.js:728`), and `unref` revokes its URL too early. With h importing w, w
  importing p and h, p importing h, and chapters A, B and C that import h, p and w, the
  visits A, B, C, A leave A on the screen with the URL of h revoked. The same happens
  when two sections load at once. `loadItem` ends the recursion in a circle (line 779)
  and says no more. `ShownIsLive` and `NothingLeaks` are about `OrderlyBooks`; the run
  loads a circle and a reader who does not wait beside them.
- A section of an EPUB that cannot be read (`epub.js:782`, 798) makes `goTo` show `{}`
  (`paginator.js:1004` to 1021): the index is undefined, so that the section on the
  screen before is never unloaded, and the URLs that the failed load had made stay.
  `NothingLeaks` holds while no load has failed; `ShownIsLive` has no such condition.
- The contents of a KF8 book are the entries of level 0 (`mobi.js:435`): an index without
  the tag of the level gives no contents at all.
- A highlight gets its index from the wrong variable (`view.js:277`);
  `resolveCFI` compares node names with `idref`, so that ids of a package are never
  used; `TOCProgress` without a range gives the first item of the section before.
- A section without items in the contents has those of the section before, and their
  ids are looked up in its own document (`progress.js:51`): where it has an element of
  that id beyond the page, the reader is told the item before. Two sections of a title
  and an element `a`, whose contents list both of the first one only, are enough.
  `ContentsInOrder` leaves such books out, and contents that are not in reading order.
- In `djvu.js`: the inverse wavelet transform reads ahead of the row for some widths
  (2229), `getBits` shifts by 32 or more where it starts over 16 columns left of a
  bitmap (571 to 585), a white shape gets a negative size (646): the inputs of the run
  have none of these. Two chains of one command that use one page of an indirect
  document load it twice and count its files twice (14407); a chain that failed leaves
  its siblings running beside the next command (14412); a page whose dictionary is
  missing is drawn without it the second time (13448). The three together need no fault:
  with four commands, a page loaded twice makes a release throw, the siblings of the
  failed chain drop the shared files of the next command's page, and that page is drawn
  without them when it is asked for again. So `AnswersAreTheirOwn` says which files a
  page is drawn with as long as no chain has failed. A stray error of the worker lets
  two commands overlap and makes the page forget a promise (14792): `OneAtATime` and
  `EveryPromiseIsSettled` hold while there was none. A `postMessage` that throws leaves
  its task at the head of the queue (14761).
- `PngReader`: a bit flipped in the type of `tRNS` makes it an unknown chunk, whose
  checksum nobody reads (`djvu.js:3999`): `CutIsRefusedOrWhole` excepts it.

## 6. Not modelled

*Of the server*: OAuth, sessions and passwords, book editing, bookshelf, counters,
conversion, Telegram, covers, parsers, feeds, web catalogue, administration of users
and genres, configuration, mail, migration. Parsers, feeds, mail and configuration
are transformations or I/O without state of their own; the others are mostly one
statement per request. Their races (a sign-in against a decision, `oauth.rs:403`;
the author cache against an edit, `scanner/db.rs:109`; counts beside uploads,
`counters.rs:24`; a converter past its time limit, `convert.rs:93`; two presses of
a Telegram button, `telegram.rs:343`) are known and stay to be modelled. Of modelled
parts: links, covers and the legacy names of archives in a scan, two INPX indexes in
one directory, the temporary files of the wizard, the stored result of a scan. The
database is taken to be atomic per statement and transaction.

*Of the reader*: the versions of the static cache; the scrolled flow, columns,
selection and search; the history of `view.js`, in which ropds never goes back; the
package and navigation documents of EPUB, encryption, media overlays; metadata,
fonts and resources of Kindle books, the tree of the contents of the older format;
FictionBook and comics; comparison of places. Of DjVu: the container, annotations,
colours and layers of a page, the encoding of pictures, slices, the reset of the
worker; an XHR has no time limit (`djvu.js:31`) and is taken to end. Of PNG: the
streaming reader and writer, alpha as an input, 16-bit samples taken as they are,
other levels and strategies than the writer's; words above 2^20 saturate, which is
enough to tell a length too long from one that fits.
