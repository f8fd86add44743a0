------------------------ MODULE ArchiveScan_proofs --------------------------
(* Proofs about the skipping of archives: a scan that ends without an error    *)
(* lists of every archive what it read there, and an archive that is unchanged *)
(* since such a scan read it is not opened again.  Both are about any number   *)
(* of archives, members, sizes and changes to the files, and any faults; the   *)
(* archives are ZIP files and deletion is physical (OwnRows, NoIndexes).       *)
(*                                                                             *)
(* The inductive invariant is ArchiveInv: an archive is met once by a scan     *)
(* (Once), a time names one version of an archive (Times), the members that    *)
(* were read are confirmed, queued or in the table (Accounted), the            *)
(* availability of a row says where it was seen (Avails), and the rows of an   *)
(* archive that is known are all there or all gone (KnownRows).  SkipInv adds  *)
(* that an archive that is known keeps its record and its rows.                *)
EXTENDS ArchiveScan, TLAPS

\* A skip confirms the rows of the archive that is skipped, as it does for ZIP files, and a
\* scan removes the rows it did not see instead of marking them.
OwnRows == (\A a \in Archive : Scope[a] = {a}) /\ ~DeleteLogical

Files(t) == {r.file : r \in t}
NamesOf(t, a) == {n \in Name : <<a, n>> \in Files(t)}
IsSkipped(a) == \E e \in skipped : e[1] = a
Entered(a) == \E e \in todo \union skipped : e[1] = a
ReadOf(b) == read[b[1]] # Unknown /\ b[1] \notin open /\ b[2] \in read[b[1]].names

\* One row for a book, never marked as deleted.
RowsInv == \A r \in books : r.id = r.file /\ r.avail \in {Unverified, Confirmed}

\* At rest, and once the work is done.
Context ==
  /\ phase = "idle" => /\ todo = {} /\ open = {} /\ pending = {} /\ confirmed = {} /\ index = {}
                       /\ skipped = {} /\ read = Nothing /\ ~errors
  /\ phase # "work" => todo = {} /\ open = {} /\ pending = {}
  /\ phase # "idle" => writer \in {"run", "failed"} /\ (writer = "failed" => errors)

\* An archive is met once: to do, skipped, open or read; and what is known of an archive that
\* is opened is forgotten.
Once ==
  /\ \A e, f \in todo \union skipped : e[1] = f[1] => e = f
  /\ todo \intersect skipped = {}
  /\ \A a \in Archive : read[a] # Unknown => ~Entered(a) /\ known[a] = Unknown
  /\ \A a \in open : read[a] # Unknown

\* A time is that of one version of an archive: whoever has the time has the version.
TimesRead ==
  \A a \in Archive : read[a] # Unknown =>
    /\ read[a].mtime <= clock
    /\ disk[a] # Gone /\ disk[a].mtime = read[a].mtime =>
         read[a].size = disk[a].size /\ (a \notin open => read[a].names = disk[a].names)
    /\ catalog[a] # Unknown => catalog[a].size = read[a].size /\ catalog[a].mtime = read[a].mtime
TimesKnown ==
  \A a \in Archive : known[a] # Unknown =>
    /\ known[a].mtime <= clock
    /\ disk[a] # Gone /\ disk[a].mtime = known[a].mtime => known[a] = disk[a]
    /\ catalog[a] # Unknown => catalog[a].size = known[a].size /\ catalog[a].mtime = known[a].mtime
    /\ \A e \in skipped : skipUnchanged /\ e[1] = a => known[a].mtime = e[2]
Times ==
  /\ \A a \in Archive : disk[a] # Gone => disk[a].mtime <= clock
  /\ \A e \in todo \union skipped : e[2] <= clock
  /\ TimesRead /\ TimesKnown

\* Where the members that were read are.
Accounted ==
  /\ \A b \in confirmed : b \in index /\ ReadOf(b)
  /\ \A b \in pending : b \in Book /\ b \notin index /\ ReadOf(b)
  /\ phase # "idle" => \A r \in books : r.file \notin index => ReadOf(r.file)
  /\ ~errors => \A a \in Archive \ open : read[a] # Unknown => \A n \in read[a].names :
       <<a, n>> \in confirmed \/ <<a, n>> \in pending \/ (<<a, n>> \notin index /\ <<a, n>> \in Files(books))

\* What a row's availability says in each phase.
Kept(b) == IsSkipped(b[1]) \/ b \notin index \/ b \in confirmed
Avails ==
  /\ phase \in {"work", "confirm", "delete"} => index \subseteq Files(books)
  /\ phase \in {"work", "confirm"} =>
       \A r \in books : r.avail = Confirmed <=> IsSkipped(r.file[1]) \/ r.file \notin index
  /\ phase = "delete" => \A r \in books : r.avail = Confirmed <=> Kept(r.file)
  /\ phase \in {"prune", "counters"} /\ ~errors =>
       /\ \A r \in books : Kept(r.file)
       /\ \A b \in index : Kept(b) => b \in Files(books)

\* The rows of an archive that is known are those that were read then, until a scan that did
\* not find it removes them together.
KnownRows ==
  /\ \A a \in Archive : known[a] # Unknown => NamesOf(books, a) \in {known[a].names, {}}
  /\ \A e \in skipped : NamesOf(books, e[1]) # {}

ArchiveInv == TypeOK /\ RowsInv /\ Context /\ Once /\ Times /\ Accounted /\ Avails /\ KnownRows

-----------------------------------------------------------------------------
(* The statements on a table without deleted rows. *)

LEMMA RowIs ==
  ASSUME TypeOK, NEW r \in books
  PROVE  r \in RowType(Book, Book) /\ r.file \in Book /\ r.file[1] \in Archive /\ r.file[2] \in Name
         /\ r.file = <<r.file[1], r.file[2]>>
BY DEF TypeOK, RowType, Book

LEMMA BookIs ==
  ASSUME NEW b \in Book
  PROVE  b[1] \in Archive /\ b[2] \in Name /\ b = <<b[1], b[2]>>
BY DEF Book

\* UPDATE books SET avail = 1 WHERE avail > 0
LEMMA SetAvailAllRows ==
  ASSUME TypeOK, RowsInv, books' = SetAvailAll(books, Unverified)
  PROVE  /\ books' \subseteq RowType(Book, Book) /\ RowsInv'
         /\ \A r \in books' : r.avail = Unverified /\ r.file \in Files(books)
         /\ Files(books') = Files(books)
<1>1. ASSUME NEW r \in books
      PROVE  /\ With(r, Unverified) \in RowType(Book, Book) /\ With(r, Unverified).id = r.id
             /\ With(r, Unverified).file = r.file /\ With(r, Unverified).avail = Unverified
             /\ r.avail > Deleted
  BY <1>1, RowIs DEF RowType, With, RowsInv, Deleted, Unverified, Confirmed
<1>2. books' = {With(r, Unverified) : r \in books}
  BY <1>1 DEF SetAvailAll
<1>3. ASSUME NEW r \in books'
      PROVE  \E s \in books : r = With(s, Unverified)
  BY <1>2
<1> QED BY <1>1, <1>2, <1>3 DEF RowsInv, Files

\* UPDATE books SET avail = 2 WHERE path = ?
LEMMA ConfirmAllRows ==
  ASSUME TypeOK, RowsInv, NEW a \in Archive, books' = ConfirmAll(books, {a} \X Name)
  PROVE  /\ books' \subseteq RowType(Book, Book) /\ RowsInv'
         /\ \A r \in books' : r.file \in Book /\ IF r.file[1] = a THEN r.avail = Confirmed /\ r.file \in Files(books) ELSE r \in books
         /\ Files(books') = Files(books)
<1>1. ASSUME NEW r \in books
      PROVE  /\ With(r, Confirmed) \in RowType(Book, Book) /\ With(r, Confirmed).id = r.id
             /\ With(r, Confirmed).file = r.file /\ With(r, Confirmed).avail = Confirmed
             /\ (r.file \in {a} \X Name <=> r.file[1] = a)
  <2>1. r.file[1] \in Archive /\ r.file[2] \in Name /\ r.file = <<r.file[1], r.file[2]>>
    BY <1>1, RowIs
  <2>2. r.file \in {a} \X Name <=> r.file[1] = a
    BY <2>1
  <2> QED BY <1>1, <2>2, RowIs DEF RowType, With, RowsInv, Deleted, Unverified, Confirmed
<1>2. ASSUME NEW r \in books'
      PROVE  \E s \in books : r = IF s.file[1] = a THEN With(s, Confirmed) ELSE s
  BY <1>1 DEF ConfirmAll
<1>3. ASSUME NEW s \in books
      PROVE  (IF s.file[1] = a THEN With(s, Confirmed) ELSE s) \in books'
  BY <1>1 DEF ConfirmAll
<1>4. ASSUME NEW r \in books'
      PROVE  /\ r \in RowType(Book, Book) /\ r.id = r.file /\ r.avail \in {Unverified, Confirmed}
             /\ r.file \in Book /\ IF r.file[1] = a THEN r.avail = Confirmed /\ r.file \in Files(books) ELSE r \in books
             /\ r.file \in Files(books)
  <2>1. PICK s \in books : r = IF s.file[1] = a THEN With(s, Confirmed) ELSE s
    BY <1>2
  <2>2. CASE s.file[1] = a
    BY <2>1, <2>2, <1>1, RowIs DEF RowsInv, Files
  <2>3. CASE s.file[1] # a
    BY <2>1, <2>3, RowIs DEF RowsInv, Files
  <2> QED BY <2>2, <2>3
<1>5. ASSUME NEW b, b \in Files(books)
      PROVE  b \in Files(books')
  <2>1. PICK s \in books : s.file = b
    BY <1>5 DEF Files
  <2> QED BY <2>1, <1>1, <1>3 DEF Files
<1>6. ASSUME NEW b, b \in Files(books')
      PROVE  b \in Files(books)
  BY <1>4, <1>6 DEF Files
<1> QED BY <1>4, <1>5, <1>6 DEF RowsInv

\* UPDATE books SET avail = 2 WHERE avail = 1 AND id IN (ids)
LEMMA ConfirmIdsRows ==
  ASSUME TypeOK, RowsInv, NEW ids, books' = ConfirmIds(books, ids)
  PROVE  /\ books' \subseteq RowType(Book, Book) /\ RowsInv'
         /\ \A r \in books' : \E s \in books :
              r.file = s.file /\ r.avail = IF s.file \in ids THEN Confirmed ELSE s.avail
         /\ Files(books') = Files(books)
<1>1. ASSUME NEW r \in books
      PROVE  /\ With(r, Confirmed) \in RowType(Book, Book) /\ With(r, Confirmed).id = r.id
             /\ With(r, Confirmed).file = r.file /\ With(r, Confirmed).avail = Confirmed
             /\ r.id = r.file
  BY <1>1, RowIs DEF RowType, With, RowsInv, Deleted, Unverified, Confirmed
<1>2. ASSUME NEW r \in books'
      PROVE  \E s \in books : r = IF s.avail = Unverified /\ s.id \in ids THEN With(s, Confirmed) ELSE s
  BY DEF ConfirmIds
<1>3. ASSUME NEW s \in books
      PROVE  (IF s.avail = Unverified /\ s.id \in ids THEN With(s, Confirmed) ELSE s) \in books'
  BY DEF ConfirmIds
<1>4. ASSUME NEW r \in books'
      PROVE  /\ r \in RowType(Book, Book) /\ r.id = r.file /\ r.avail \in {Unverified, Confirmed}
             /\ \E s \in books : r.file = s.file /\ r.avail = IF s.file \in ids THEN Confirmed ELSE s.avail
  <2>1. PICK s \in books : r = IF s.avail = Unverified /\ s.id \in ids THEN With(s, Confirmed) ELSE s
    BY <1>2
  <2>2. CASE s.avail = Unverified /\ s.id \in ids
    BY <2>1, <2>2, <1>1
  <2>3. CASE ~(s.avail = Unverified /\ s.id \in ids)
    BY <2>1, <2>3, <1>1, RowIs DEF RowsInv
  <2> QED BY <2>2, <2>3
<1>5. ASSUME NEW b, b \in Files(books)
      PROVE  b \in Files(books')
  <2>1. PICK s \in books : s.file = b
    BY <1>5 DEF Files
  <2> QED BY <2>1, <1>1, <1>3 DEF Files
<1>6. ASSUME NEW b, b \in Files(books')
      PROVE  b \in Files(books)
  BY <1>4, <1>6 DEF Files
<1> QED BY <1>4, <1>5, <1>6 DEF RowsInv

\* INSERT of the members of a batch
LEMMA CommitRows ==
  ASSUME TypeOK, RowsInv, NEW S \in SUBSET Book, books' = books \union {Row(b, b, Confirmed) : b \in S}
  PROVE  /\ books' \subseteq RowType(Book, Book) /\ RowsInv'
         /\ \A r \in books' : r \in books \/ (r.file \in S /\ r.avail = Confirmed)
         /\ Files(books') = Files(books) \union S
<1>1. ASSUME NEW b \in S
      PROVE  /\ Row(b, b, Confirmed) \in RowType(Book, Book) /\ Row(b, b, Confirmed).id = b
             /\ Row(b, b, Confirmed).file = b /\ Row(b, b, Confirmed).avail = Confirmed
  BY DEF Row, RowType
<1>2. \A r \in books' : r \in books \/ \E b \in S : r = Row(b, b, Confirmed)
  OBVIOUS
<1>3. \A b \in S : Row(b, b, Confirmed) \in books'
  OBVIOUS
<1>4. RowsInv' /\ books' \subseteq RowType(Book, Book)
  BY <1>1, <1>2 DEF RowsInv, TypeOK
<1>5. Files(books') = Files(books) \union S
  BY <1>1, <1>2, <1>3 DEF Files
<1> QED BY <1>1, <1>2, <1>4, <1>5

\* DELETE FROM books WHERE avail <= 1
LEMMA PhysicalDeleteRows ==
  ASSUME RowsInv, books' = PhysicalDelete(books)
  PROVE  books' = {r \in books : r.avail = Confirmed} /\ RowsInv'
BY DEF RowsInv, PhysicalDelete, Unverified, Confirmed

\* No catalog is empty as long as there is a row.
LEMMA PruneRows ==
  ASSUME RowsInv, NEW dir
  PROVE  PruneEmpty(books, dir) = books /\ \A a : Listed(a) = {b[2] : b \in {c \in {r.file : r \in books} : c[1] = a}}
<1>1. Live(books) = books
  BY DEF Live, RowsInv, Unverified, Confirmed, Deleted
<1> QED BY <1>1 DEF PruneEmpty, Listed, Shown

LEMMA ListedNames ==
  ASSUME TypeOK, RowsInv, NEW a \in Archive
  PROVE  Listed(a) = NamesOf(books, a)
<1>1. Live(books) = books
  BY DEF Live, RowsInv, Unverified, Confirmed, Deleted
<1>2. Listed(a) = {b[2] : b \in {c \in {r.file : r \in books} : c[1] = a}}
  BY <1>1 DEF Listed, Shown
<1>3. ASSUME NEW n \in Listed(a) PROVE n \in NamesOf(books, a)
  <2>1. PICK r \in books : r.file[1] = a /\ r.file[2] = n
    BY <1>2, <1>3
  <2> QED BY <2>1, RowIs DEF NamesOf, Files
<1>4. ASSUME NEW n \in NamesOf(books, a) PROVE n \in Listed(a)
  <2>1. PICK r \in books : r.file = <<a, n>>
    BY <1>4 DEF NamesOf, Files
  <2> QED BY <2>1, <1>2
<1> QED BY <1>3, <1>4

-----------------------------------------------------------------------------
(* The walk and what the workers do with an archive.                        *)

LEMMA InitArchive ==
  ASSUME ArchiveAssumption, Init
  PROVE  ArchiveInv
<1>1. TypeOK
  <2>1. /\ disk \in [Archive -> Content \union {Gone}]
        /\ catalog \in [Archive -> Stamp \union {Unknown}]
        /\ read \in [Archive -> Content \union {Unknown}]
        /\ known \in [Archive -> Content \union {Unknown}]
    BY DEF Init, Nothing
  <2>2. clock \in 0 .. MaxTime /\ skipUnchanged \in SkipModes
    BY DEF Init, ArchiveAssumption
  <2>3. /\ books = {} /\ phase = "idle" /\ force = FALSE /\ errors = FALSE /\ writer = "none"
        /\ todo = {} /\ open = {} /\ index = {} /\ confirmed = {} /\ pending = {} /\ skipped = {}
    BY DEF Init
  <2>4. force \in BOOLEAN /\ errors \in BOOLEAN
    BY <2>3, Zenon
  <2> QED BY <2>1, <2>2, <2>3, <2>4 DEF TypeOK
<1>2. RowsInv /\ Context /\ Accounted /\ Avails
  BY DEF Init, RowsInv, Context, Accounted, Avails, Nothing
<1>3. Once /\ Times
  BY DEF Init, Once, Times, TimesRead, TimesKnown, Nothing
<1>4. KnownRows
  BY DEF Init, KnownRows, Nothing
<1> QED BY <1>1, <1>2, <1>3, <1>4 DEF ArchiveInv

\* A version that comes later has a later time.
LEMMA ChangeArchiveInv ==
  ASSUME ArchiveAssumption, AbsenceAssumption, ArchiveInv, ChangeArchive
  PROVE  ArchiveInv'
<1> USE DEF ArchiveInv
<1>1. PICK a \in Archive, c \in {Gone} \union [size : Size, mtime : {clock + 1}, names : SUBSET Name] :
        disk' = [disk EXCEPT ![a] = c]
  BY DEF ChangeArchive
<1>2. clock' = clock + 1 /\ clock < MaxTime /\ clock \in 0 .. MaxTime
  BY DEF ChangeArchive, TypeOK
<1>3. UNCHANGED <<store, skipUnchanged, phase, scan, known>>
  BY DEF ChangeArchive
<1>4. c = Gone \/ (c \in Content /\ c.mtime = clock + 1)
  BY <1>1, <1>2 DEF Content, ArchiveAssumption
<1>5. disk' \in [Archive -> Content \union {Gone}] /\ clock' \in 0 .. MaxTime
  BY <1>1, <1>2, <1>4 DEF TypeOK, ArchiveAssumption
<1>6. TypeOK'
  BY <1>3, <1>5 DEF TypeOK, store, scan
<1>7. RowsInv' /\ Context' /\ Once'
  BY <1>3 DEF RowsInv, Context, Once, Entered, store, scan, Nothing
<1>8. Accounted' /\ Avails'
  BY <1>3 DEF Accounted, ReadOf, Avails, IsSkipped, Kept, store, scan
<1>9. KnownRows'
  BY <1>3 DEF KnownRows, store, scan
<1>10. \A x \in Archive : disk'[x] = disk[x] \/ disk'[x] = Gone \/ (disk'[x] # Gone /\ disk'[x].mtime = clock + 1)
  BY <1>1, <1>4 DEF TypeOK
<1>11. (\A x \in Archive : disk'[x] # Gone => disk'[x].mtime <= clock') /\ \A e \in todo \union skipped : e[2] <= clock'
  <2>1. \A e \in todo \union skipped : e[2] \in Int
    BY DEF TypeOK
  <2>2. \A x \in Archive : disk[x] # Gone => disk[x].mtime \in Int
    BY DEF TypeOK, Content
  <2> QED BY <1>2, <1>10, <2>1, <2>2 DEF Times
<1>12. ASSUME NEW x \in Archive, read[x] # Unknown
       PROVE  /\ read[x].mtime <= clock'
              /\ disk'[x] # Gone /\ disk'[x].mtime = read[x].mtime => disk'[x] = disk[x]
  <2>1. read[x].mtime \in Int /\ read[x].mtime <= clock
    BY <1>12 DEF TypeOK, Content, Times, TimesRead
  <2> QED BY <2>1, <1>2, <1>10
<1>13. ASSUME NEW x \in Archive, known[x] # Unknown
       PROVE  /\ known[x].mtime <= clock'
              /\ disk'[x] # Gone /\ disk'[x].mtime = known[x].mtime => disk'[x] = disk[x]
  <2>1. known[x].mtime \in Int /\ known[x].mtime <= clock
    BY <1>13 DEF TypeOK, Content, Times, TimesKnown
  <2> QED BY <2>1, <1>2, <1>10
<1>14. TimesRead'
  BY <1>3, <1>12 DEF Times, TimesRead, store, scan
<1>15. TimesKnown'
  BY <1>3, <1>13 DEF Times, TimesKnown, store, scan
<1>16. Times'
  BY <1>3, <1>11, <1>14, <1>15 DEF Times, scan
<1> QED BY <1>6, <1>7, <1>8, <1>9, <1>16

LEMMA BeginScanInv ==
  ASSUME ArchiveAssumption, ArchiveInv, BeginScan
  PROVE  ArchiveInv'
<1> USE DEF ArchiveInv
<1>1. /\ index' = Ids(books) /\ books' = SetAvailAll(books, Unverified)
      /\ todo' = {<<a, disk[a].mtime>> : a \in {x \in Archive : disk[x] # Gone}}
      /\ writer' = "run" /\ phase' = "work" /\ force' \in BOOLEAN
      /\ UNCHANGED <<world, catalog, open, confirmed, pending, errors, skipped, read, known>>
  BY DEF BeginScan
<1>2. /\ open = {} /\ pending = {} /\ confirmed = {} /\ skipped = {} /\ ~errors
      /\ \A a \in Archive : read[a] = Unknown
  BY DEF BeginScan, Context, Nothing
<1>3. /\ books' \subseteq RowType(Book, Book) /\ RowsInv'
      /\ \A r \in books' : r.avail = Unverified /\ r.file \in Files(books)
      /\ Files(books') = Files(books)
  BY <1>1, SetAvailAllRows
<1>4. index' = Files(books)
  <2>1. \A r \in books : r.id = r.file
    BY DEF RowsInv
  <2> QED BY <1>1, <2>1 DEF Ids, Files
<1>5. Files(books) \subseteq Book
  BY RowIs DEF Files
<1>6. \A e \in todo' : e[1] \in Archive /\ disk[e[1]] # Gone /\ e = <<e[1], disk[e[1]].mtime>>
  BY <1>1
<1>7. todo' \subseteq Archive \X (1 .. MaxTime)
  BY <1>6 DEF TypeOK, Content
<1>8. TypeOK'
  BY <1>1, <1>2, <1>3, <1>4, <1>5, <1>7 DEF TypeOK, world
<1>9. Context'
  BY <1>1, <1>2 DEF Context
<1>10. Once'
  BY <1>1, <1>2, <1>6 DEF Once, Entered
<1>11. Times'
  <2>1. \A e \in todo' \union skipped' : e[2] <= clock'
    BY <1>1, <1>2, <1>6 DEF Times, world
  <2>2. TimesRead' /\ TimesKnown'
    BY <1>1, <1>2 DEF Times, TimesRead, TimesKnown, world
  <2> QED BY <1>1, <2>1, <2>2 DEF Times, world
<1>12. Accounted'
  <2>1. \A r \in books' : r.file \in index'
    BY <1>3, <1>4
  <2> QED BY <1>1, <1>2, <2>1 DEF Accounted
<1>13. Avails'
  <2>1. \A r \in books' : r.avail # Confirmed /\ r.file \in index'
    BY <1>3, <1>4 DEF Unverified, Confirmed
  <2> QED BY <1>1, <1>2, <1>3, <1>4, <2>1 DEF Avails, IsSkipped
<1>14. KnownRows'
  BY <1>1, <1>2, <1>3 DEF KnownRows, NamesOf
<1> QED BY <1>3, <1>8, <1>9, <1>10, <1>11, <1>12, <1>13, <1>14

\* try_skip_zip_archive: every row of the archive is confirmed, and there is one.
LEMMA SkipArchiveInv ==
  ASSUME ArchiveAssumption, OwnRows, ArchiveInv, SkipArchive
  PROVE  ArchiveInv'
<1> USE DEF ArchiveInv
<1>1. PICK e \in todo :
        /\ disk[e[1]] # Gone /\ SameStamp(e[1], e[2]) /\ RowsIn(Scope[e[1]]) # {}
        /\ books' = ConfirmAll(books, Scope[e[1]] \X Name)
        /\ todo' = todo \ {e} /\ skipped' = skipped \union {e}
        /\ UNCHANGED <<world, catalog, phase, force, open, index, confirmed, pending,
                       writer, errors, read, known>>
  BY DEF SkipArchive
<1>2. PICK a \in Archive, t \in 1 .. MaxTime : e = <<a, t>>
  BY <1>1 DEF TypeOK
<1>3. e[1] = a /\ e[2] = t /\ Scope[a] = {a}
  BY <1>2 DEF OwnRows
<1>4. /\ books' \subseteq RowType(Book, Book) /\ RowsInv'
      /\ \A r \in books' : /\ r.file \in Book
                           /\ IF r.file[1] = a THEN r.avail = Confirmed /\ r.file \in Files(books) ELSE r \in books
      /\ Files(books') = Files(books)
  BY <1>1, <1>3, ConfirmAllRows
<1>5. phase = "work" /\ read[a] = Unknown /\ \A f \in skipped : f[1] # a
  BY <1>1, <1>3 DEF Context, Once, Entered
<1>6. TypeOK'
  BY <1>1, <1>2, <1>4 DEF TypeOK, world
<1>7. Context'
  BY <1>1, <1>5 DEF Context
<1>8. todo' \union skipped' = todo \union skipped
  BY <1>1
<1>9. Once'
  BY <1>1, <1>8 DEF Once, Entered
<1>10. \A x : IsSkipped(x)' <=> IsSkipped(x) \/ x = a
  BY <1>1, <1>3 DEF IsSkipped
<1>11. Times'
  <2>1. known[a] # Unknown /\ skipUnchanged => known[a].mtime = t
    BY <1>1, <1>3 DEF SameStamp, Times, TimesKnown
  <2>2. TimesKnown'
    BY <1>1, <1>3, <2>1 DEF Times, TimesKnown, world
  <2> QED BY <1>1, <1>8, <2>2 DEF Times, TimesRead, world
<1>12. Accounted'
  <2>1. \A r \in books' : r.file \in Files(books)
    BY <1>4 DEF Files
  <2>2. \A b \in Files(books) : b \notin index => ReadOf(b)
    BY <1>5 DEF Accounted, Files
  <2> QED BY <1>1, <1>4, <2>1, <2>2 DEF Accounted, ReadOf
<1>13. Avails'
  <2>1. ASSUME NEW r \in books'
        PROVE  r.avail = Confirmed <=> IsSkipped(r.file[1])' \/ r.file \notin index
    <3>1. CASE r.file[1] = a
      BY <1>4, <1>10, <3>1
    <3>2. CASE r.file[1] # a
      BY <1>4, <1>5, <1>10, <3>2 DEF Avails
    <3> QED BY <3>1, <3>2
  <2> QED BY <1>1, <1>4, <1>5, <2>1 DEF Avails, IsSkipped
<1>14. KnownRows'
  <2>1. PICK r \in books : r.file[1] = a
    BY <1>1, <1>3 DEF RowsIn
  <2>2. r.file \in Files(books) /\ r.file = <<a, r.file[2]>> /\ r.file[2] \in Name
    BY <2>1, RowIs DEF Files
  <2>3. NamesOf(books, a) # {}
    BY <2>2 DEF NamesOf
  <2>4. \A x : NamesOf(books', x) = NamesOf(books, x)
    BY <1>4 DEF NamesOf
  <2> QED BY <1>1, <1>3, <2>3, <2>4 DEF KnownRows
<1> QED BY <1>4, <1>6, <1>7, <1>9, <1>11, <1>12, <1>13, <1>14

LEMMA StampArchiveInv ==
  ASSUME ArchiveAssumption, AbsenceAssumption, ArchiveInv, StampArchive
  PROVE  ArchiveInv'
<1> USE DEF ArchiveInv
<1>1. PICK e \in todo :
        /\ disk[e[1]] # Gone
        /\ catalog' = [catalog EXCEPT ![e[1]] = [size |-> disk[e[1]].size, mtime |-> e[2]]]
        /\ known' = [known EXCEPT ![e[1]] = Unknown]
        /\ open' = open \union {e[1]}
        /\ todo' = todo \ {e}
        /\ read' = [read EXCEPT ![e[1]] = [size |-> disk[e[1]].size, mtime |-> e[2], names |-> {}]]
        /\ UNCHANGED <<world, books, phase, force, index, confirmed, pending, writer, errors, skipped>>
  BY DEF StampArchive
<1>2. PICK a \in Archive, t \in 1 .. MaxTime : e = <<a, t>>
  BY <1>1 DEF TypeOK
<1>3. e[1] = a /\ e[2] = t
  BY <1>2
<1>4. disk[a] \in Content /\ t <= clock
  BY <1>1, <1>3 DEF TypeOK, Times
<1>5. [size |-> disk[a].size, mtime |-> t] \in Stamp /\ [size |-> disk[a].size, mtime |-> t, names |-> {}] \in Content
  BY <1>4 DEF Content, Stamp
<1>6. /\ read'[a] = [size |-> disk[a].size, mtime |-> t, names |-> {}] /\ read'[a] # Unknown
      /\ catalog'[a] = [size |-> disk[a].size, mtime |-> t] /\ known'[a] = Unknown
      /\ \A x \in Archive : x # a => read'[x] = read[x] /\ catalog'[x] = catalog[x] /\ known'[x] = known[x]
  BY <1>1, <1>3, <1>5 DEF TypeOK, AbsenceAssumption
<1>7. phase = "work" /\ read[a] = Unknown /\ a \notin open /\ \A f \in skipped : f[1] # a
  BY <1>1, <1>3 DEF Context, Once, Entered
<1>8. TypeOK'
  BY <1>1, <1>3, <1>5 DEF TypeOK, world
<1>9. RowsInv' /\ Context'
  BY <1>1, <1>7 DEF RowsInv, Context
<1>10. Once'
  <2>1. \A f \in todo' : f[1] # a
    BY <1>1, <1>3 DEF Once
  <2> QED BY <1>1, <1>3, <1>6, <1>7, <2>1 DEF Once, Entered
<1>11. Times'
  <2>1. TimesRead'
    BY <1>1, <1>3, <1>4, <1>6 DEF Times, TimesRead, world
  <2>2. TimesKnown'
    BY <1>1, <1>6 DEF Times, TimesKnown, world
  <2> QED BY <1>1, <2>1, <2>2 DEF Times, world
<1>12. \A b \in Book : ReadOf(b) => b[1] # a /\ ReadOf(b)'
  BY <1>1, <1>3, <1>6, <1>7, BookIs DEF ReadOf
<1>13. Accounted'
  <2>1. (\A r \in books : r.file \in Book) /\ confirmed \subseteq Book
    BY RowIs DEF TypeOK
  <2>2. \A x \in Archive \ open' : x # a
    BY <1>1, <1>3
  <2> QED BY <1>1, <1>6, <1>7, <1>12, <2>1, <2>2 DEF Accounted
<1>14. Avails' /\ KnownRows'
  BY <1>1, <1>6 DEF Avails, IsSkipped, Kept, KnownRows
<1> QED BY <1>8, <1>9, <1>10, <1>11, <1>13, <1>14

LEMMA RefuseArchiveInv ==
  ASSUME ArchiveInv, RefuseArchive
  PROVE  ArchiveInv'
<1> USE DEF ArchiveInv
<1>1. PICK e \in todo :
        /\ todo' = todo \ {e} /\ errors'
        /\ UNCHANGED <<world, store, phase, force, open, index, confirmed, pending,
                       writer, skipped, read, known>>
  BY DEF RefuseArchive
<1>2. phase = "work"
  BY <1>1 DEF Context
<1>3. TypeOK'
  BY <1>1 DEF TypeOK, world, store, RefuseArchive
<1>4. RowsInv' /\ Context'
  BY <1>1, <1>2 DEF RowsInv, Context, store
<1>5. Once'
  BY <1>1 DEF Once, Entered
<1>6. Times'
  BY <1>1 DEF Times, TimesRead, TimesKnown, world, store
<1>7. Accounted' /\ Avails' /\ KnownRows'
  BY <1>1, <1>2 DEF Accounted, ReadOf, Avails, IsSkipped, Kept, KnownRows, store
<1> QED BY <1>3, <1>4, <1>5, <1>6, <1>7

-----------------------------------------------------------------------------
(* Reading, writing and the end of a scan.                                  *)

\* The members that were read are confirmed or queued, and nothing is lost unless it is an error.
LEMMA ReadArchiveInv ==
  ASSUME ArchiveAssumption, AbsenceAssumption, ArchiveInv, ReadArchive
  PROVE  ArchiveInv'
<1> USE DEF ArchiveInv
<1>1. PICK a \in open : \E N \in SUBSET (IF disk[a] = Gone THEN {} ELSE disk[a].names) :
        LET all == IF disk[a] = Gone THEN {} ELSE disk[a].names
            found == Members(a, N)  new == found \ index IN
        /\ confirmed' = confirmed \union (found \intersect index)
        /\ pending' = IF writer = "run" THEN pending \union new ELSE pending
        /\ errors' = (\/ errors
                      \/ disk[a] = Gone \/ N # all
                      \/ writer = "failed" /\ new # {})
        /\ read' = [read EXCEPT ![a].names = all]
        /\ open' = open \ {a}
        /\ UNCHANGED <<world, store, phase, force, todo, index, writer, skipped, known>>
  BY DEF ReadArchive
<1>2. PICK all : all = IF disk[a] = Gone THEN {} ELSE disk[a].names
  OBVIOUS
<1>3. PICK N \in SUBSET all :
        /\ confirmed' = confirmed \union (({a} \X N) \intersect index)
        /\ pending' = IF writer = "run" THEN pending \union (({a} \X N) \ index) ELSE pending
        /\ errors' = (\/ errors
                      \/ disk[a] = Gone \/ N # all
                      \/ writer = "failed" /\ ({a} \X N) \ index # {})
        /\ read' = [read EXCEPT ![a].names = all]
        /\ open' = open \ {a}
        /\ UNCHANGED <<world, store, phase, force, todo, index, writer, skipped, known>>
  BY <1>1, <1>2 DEF Members
<1>4. a \in Archive /\ all \in SUBSET Name
  BY <1>2 DEF TypeOK, Content
<1>5. errors' \in BOOLEAN
  BY <1>3, Zenon
<1>6. ~errors' => ~errors /\ disk[a] # Gone /\ N = all /\ (writer = "failed" => ({a} \X N) \ index = {})
  BY <1>3, Zenon
<1>7. errors => errors'
  BY <1>3, Zenon
<1>8. phase = "work" /\ writer \in {"run", "failed"} /\ read[a] # Unknown
  BY DEF Context, Once
<1>9. read[a] \in Content /\ [read[a] EXCEPT !.names = all] \in Content
  BY <1>4, <1>8 DEF TypeOK, Content
<1>10. /\ read'[a] = [read[a] EXCEPT !.names = all] /\ read'[a] # Unknown
       /\ read'[a].names = all /\ read'[a].size = read[a].size /\ read'[a].mtime = read[a].mtime
       /\ \A x \in Archive : x # a => read'[x] = read[x]
  BY <1>3, <1>4, <1>9 DEF TypeOK, AbsenceAssumption, Content
<1>11. \A b \in {a} \X N : b \in Book /\ b[1] = a /\ b[2] \in all
  BY <1>4 DEF Book
<1>12. TypeOK'
  <2>1. read' \in [Archive -> Content \union {Unknown}]
    BY <1>3, <1>4, <1>9 DEF TypeOK
  <2>2. confirmed' \subseteq index' /\ pending' \subseteq Book /\ index' \subseteq Book /\ open' \subseteq Archive
    BY <1>3, <1>11 DEF TypeOK
  <2> QED BY <1>3, <1>5, <2>1, <2>2 DEF TypeOK, world, store
<1>13. RowsInv' /\ Context'
  BY <1>3, <1>7, <1>8 DEF RowsInv, Context, store
<1>14. \A x \in Archive : read'[x] # Unknown <=> read[x] # Unknown
  BY <1>8, <1>10
<1>15. Once'
  <2>1. \A x \in open' : x \in open /\ x \in Archive
    BY <1>3 DEF TypeOK
  <2> QED BY <1>3, <1>14, <2>1 DEF Once, Entered
<1>16. TimesRead'
  <2>1. ASSUME NEW x \in Archive, x # a, read'[x] # Unknown
        PROVE  /\ read'[x].mtime <= clock'
               /\ disk'[x] # Gone /\ disk'[x].mtime = read'[x].mtime =>
                    read'[x].size = disk'[x].size /\ (x \notin open' => read'[x].names = disk'[x].names)
               /\ catalog'[x] # Unknown => catalog'[x].size = read'[x].size /\ catalog'[x].mtime = read'[x].mtime
    BY <1>3, <1>10, <2>1 DEF Times, TimesRead, world, store
  <2>2. /\ read'[a].mtime <= clock'
        /\ disk'[a] # Gone /\ disk'[a].mtime = read'[a].mtime =>
             read'[a].size = disk'[a].size /\ (a \notin open' => read'[a].names = disk'[a].names)
        /\ catalog'[a] # Unknown => catalog'[a].size = read'[a].size /\ catalog'[a].mtime = read'[a].mtime
    BY <1>2, <1>3, <1>4, <1>8, <1>10 DEF Times, TimesRead, world, store
  <2> QED BY <2>1, <2>2 DEF TimesRead
<1>17. Times'
  BY <1>3, <1>16 DEF Times, TimesKnown, world, store
<1>18. \A b : b[1] \in Archive /\ ReadOf(b) => ReadOf(b)'
  BY <1>3, <1>10 DEF ReadOf
<1>19. \A b \in {a} \X N : ReadOf(b)'
  BY <1>3, <1>10, <1>11 DEF ReadOf
<1>20. Accounted'
  <2>1. \A b \in confirmed' : b \in index' /\ ReadOf(b)'
    <3>1. \A b \in confirmed : b[1] \in Archive
      BY BookIs DEF TypeOK
    <3> QED BY <1>3, <1>18, <1>19, <3>1 DEF Accounted
  <2>2. \A b \in pending' : b \in Book /\ b \notin index' /\ ReadOf(b)'
    <3>1. \A b \in pending : b[1] \in Archive
      BY BookIs DEF TypeOK
    <3> QED BY <1>3, <1>11, <1>18, <1>19, <3>1 DEF Accounted
  <2>3. \A r \in books' : r.file \notin index' => ReadOf(r.file)'
    <3>1. \A r \in books : r.file[1] \in Archive /\ (r.file \notin index => ReadOf(r.file))
      BY RowIs, <1>8 DEF Accounted
    <3> QED BY <1>3, <1>18, <3>1 DEF store
  <2>4. ASSUME ~errors', NEW x \in Archive \ open', read'[x] # Unknown, NEW n \in read'[x].names
        PROVE  <<x, n>> \in confirmed' \/ <<x, n>> \in pending' \/ (<<x, n>> \notin index' /\ <<x, n>> \in Files(books'))
    <3>1. CASE x = a
      <4>1. n \in N /\ <<x, n>> \in {a} \X N
        BY <1>6, <1>10, <2>4, <3>1
      <4>2. CASE <<x, n>> \in index
        BY <1>3, <4>1, <4>2
      <4>3. CASE <<x, n>> \notin index
        BY <1>3, <1>6, <1>8, <2>4, <4>1, <4>3
      <4> QED BY <4>2, <4>3
    <3>2. CASE x # a
      <4>1. <<x, n>> \in confirmed \/ <<x, n>> \in pending \/ (<<x, n>> \notin index /\ <<x, n>> \in Files(books))
        BY <1>3, <1>6, <1>10, <2>4, <3>2 DEF Accounted
      <4> QED BY <1>3, <4>1 DEF store
    <3> QED BY <3>1, <3>2
  <2> QED BY <2>1, <2>2, <2>3, <2>4 DEF Accounted
<1>21. Avails'
  BY <1>3, <1>8 DEF Avails, IsSkipped, store
<1>22. KnownRows'
  BY <1>3 DEF KnownRows, store
<1> QED BY <1>12, <1>13, <1>15, <1>17, <1>20, <1>21, <1>22

\* commit_pending_book_batch inserts books that are not in the index, of archives that were read.
LEMMA CommitInv ==
  ASSUME ArchiveAssumption, ArchiveInv, Commit
  PROVE  ArchiveInv'
<1> USE DEF ArchiveInv
<1>1. PICK S \in (SUBSET pending) \ {{}} :
        /\ books' = books \union {Row(b, b, Confirmed) : b \in S}
        /\ pending' = pending \ S
        /\ UNCHANGED <<world, catalog, phase, force, todo, open, index, confirmed, writer,
                       errors, skipped, read, known>>
  BY DEF Commit
<1>2. S \in SUBSET Book /\ phase = "work"
  BY <1>1 DEF TypeOK, Context
<1>3. /\ books' \subseteq RowType(Book, Book) /\ RowsInv'
      /\ \A r \in books' : r \in books \/ (r.file \in S /\ r.avail = Confirmed)
      /\ Files(books') = Files(books) \union S
  BY <1>1, <1>2, CommitRows
<1>4. \A b \in S : b \in Book /\ b \notin index /\ ReadOf(b)
  BY <1>1 DEF Accounted
<1>5. TypeOK'
  BY <1>1, <1>3 DEF TypeOK, world
<1>6. Context' /\ Once' /\ Times'
  BY <1>1, <1>2 DEF Context, Once, Entered, Times, TimesRead, TimesKnown, world
<1>7. Accounted'
  <2>1. \A r \in books' : r.file \notin index' => ReadOf(r.file)'
    BY <1>1, <1>2, <1>3, <1>4 DEF Accounted, ReadOf
  <2>2. ASSUME ~errors', NEW x \in Archive \ open', read'[x] # Unknown, NEW n \in read'[x].names
        PROVE  <<x, n>> \in confirmed' \/ <<x, n>> \in pending' \/ (<<x, n>> \notin index' /\ <<x, n>> \in Files(books'))
    <3>1. <<x, n>> \in confirmed \/ <<x, n>> \in pending \/ (<<x, n>> \notin index /\ <<x, n>> \in Files(books))
      BY <1>1, <2>2 DEF Accounted
    <3> QED BY <1>1, <1>3, <1>4, <3>1
  <2>3. \A b \in confirmed' : b \in index' /\ ReadOf(b)'
    BY <1>1 DEF Accounted, ReadOf
  <2>4. \A b \in pending' : b \in Book /\ b \notin index' /\ ReadOf(b)'
    BY <1>1 DEF Accounted, ReadOf
  <2> QED BY <2>1, <2>2, <2>3, <2>4 DEF Accounted
<1>8. Avails'
  <2>1. ASSUME NEW r \in books'
        PROVE  r.avail = Confirmed <=> IsSkipped(r.file[1]) \/ r.file \notin index
    BY <1>2, <1>3, <1>4, <2>1 DEF Avails
  <2> QED BY <1>1, <1>2, <1>3, <2>1 DEF Avails, IsSkipped
<1>9. KnownRows'
  <2>1. ASSUME NEW a \in Archive, known[a] # Unknown
        PROVE  NamesOf(books', a) = NamesOf(books, a)
    <3>1. \A n \in Name : <<a, n>> \notin S
      <4>1. ASSUME NEW n \in Name, <<a, n>> \in S PROVE FALSE
        <5>1. read[a] # Unknown
          BY <4>1, <1>4 DEF ReadOf
        <5> QED BY <5>1, <2>1 DEF Once
      <4> QED BY <4>1
    <3> QED BY <1>3, <3>1 DEF NamesOf
  <2>2. \A a : NamesOf(books, a) \subseteq NamesOf(books', a)
    BY <1>3 DEF NamesOf
  <2> QED BY <1>1, <2>1, <2>2 DEF KnownRows
<1> QED BY <1>3, <1>5, <1>6, <1>7, <1>8, <1>9

LEMMA WriterFailsInv ==
  ASSUME ArchiveInv, WriterFails
  PROVE  ArchiveInv'
<1> USE DEF ArchiveInv
<1>1. /\ phase = "work" /\ writer' = "failed" /\ pending' = {} /\ errors' = TRUE
      /\ UNCHANGED <<world, store, phase, force, todo, open, index, confirmed, skipped, read, known>>
  BY DEF WriterFails
<1>2. TypeOK'
  BY <1>1 DEF TypeOK, world, store
<1>3. RowsInv' /\ Context' /\ Once' /\ Times'
  BY <1>1 DEF RowsInv, Context, Once, Entered, Times, TimesRead, TimesKnown, world, store
<1>4. Accounted' /\ Avails' /\ KnownRows'
  BY <1>1 DEF Accounted, ReadOf, Avails, IsSkipped, KnownRows, store
<1> QED BY <1>2, <1>3, <1>4

LEMMA FinishWorkInv ==
  ASSUME ArchiveInv, FinishWork
  PROVE  ArchiveInv'
<1> USE DEF ArchiveInv
<1>1. /\ phase = "work" /\ todo = {} /\ open = {} /\ pending = {} /\ phase' = "confirm"
      /\ UNCHANGED <<world, store, scan, known>>
  BY DEF FinishWork, world, store, scan
<1>2. TypeOK'
  BY <1>1 DEF TypeOK, world, store, scan
<1>3. RowsInv' /\ Context' /\ Once' /\ Times'
  BY <1>1 DEF RowsInv, Context, Once, Entered, Times, TimesRead, TimesKnown, world, store, scan
<1>4. Accounted' /\ Avails' /\ KnownRows'
  BY <1>1 DEF Accounted, ReadOf, Avails, IsSkipped, KnownRows, store, scan
<1> QED BY <1>2, <1>3, <1>4

\* update_avail of the confirmed ids: now what is kept is confirmed.
LEMMA ConfirmExistingInv ==
  ASSUME ArchiveInv, ConfirmExisting
  PROVE  ArchiveInv'
<1> USE DEF ArchiveInv
<1>1. /\ phase = "confirm" /\ books' = ConfirmIds(books, confirmed) /\ phase' = "delete"
      /\ UNCHANGED <<world, catalog, scan, known>>
  BY DEF ConfirmExisting, world, scan
<1>2. /\ books' \subseteq RowType(Book, Book) /\ RowsInv'
      /\ \A r \in books' : \E s \in books :
           r.file = s.file /\ r.avail = IF s.file \in confirmed THEN Confirmed ELSE s.avail
      /\ Files(books') = Files(books)
  BY <1>1, ConfirmIdsRows
<1>3. TypeOK'
  BY <1>1, <1>2 DEF TypeOK, world, scan
<1>4. Context' /\ Once' /\ Times'
  BY <1>1 DEF Context, Once, Entered, Times, TimesRead, TimesKnown, world, scan
<1>5. Accounted'
  <2>1. \A r \in books' : r.file \notin index => ReadOf(r.file)
    BY <1>1, <1>2 DEF Accounted
  <2> QED BY <1>1, <1>2, <2>1 DEF Accounted, ReadOf, scan
<1>6. Avails'
  <2>1. ASSUME NEW r \in books'
        PROVE  r.avail = Confirmed <=> Kept(r.file)
    <3>1. PICK s \in books : r.file = s.file /\ r.avail = IF s.file \in confirmed THEN Confirmed ELSE s.avail
      BY <1>2
    <3> QED BY <1>1, <3>1 DEF Avails, Kept
  <2> QED BY <1>1, <1>2, <2>1 DEF Avails, Kept, IsSkipped, scan
<1>7. KnownRows'
  BY <1>1, <1>2 DEF KnownRows, NamesOf, scan
<1> QED BY <1>2, <1>3, <1>4, <1>5, <1>6, <1>7

\* The rows of an archive that is known are deleted together, or none of them is.
LEMMA DeleteUnavailableInv ==
  ASSUME OwnRows, ArchiveInv, DeleteUnavailable
  PROVE  ArchiveInv'
<1> USE DEF ArchiveInv
<1>1. /\ phase = "delete" /\ phase' = "prune"
      /\ IF errors THEN books' = books ELSE books' = PhysicalDelete(books)
      /\ UNCHANGED <<world, catalog, scan, known>>
  BY DEF DeleteUnavailable, OwnRows, world, scan
<1>2. RowsInv' /\ books' \subseteq books
      /\ (~errors => books' = {r \in books : r.avail = Confirmed})
  BY <1>1, PhysicalDeleteRows DEF RowsInv
<1>3. ~errors => books' = {r \in books : Kept(r.file)}
  BY <1>1, <1>2 DEF Avails
<1>4. TypeOK'
  BY <1>1, <1>2 DEF TypeOK, world, scan
<1>5. Context' /\ Once' /\ Times'
  BY <1>1 DEF Context, Once, Entered, Times, TimesRead, TimesKnown, world, scan
<1>6. \A b \in Files(books) : ~errors /\ Kept(b) => b \in Files(books')
  BY <1>3 DEF Files
<1>7. Accounted'
  <2>1. \A r \in books' : r.file \notin index => ReadOf(r.file)
    BY <1>1, <1>2 DEF Accounted
  <2>2. ASSUME ~errors, NEW x \in Archive \ open, read[x] # Unknown, NEW n \in read[x].names
        PROVE  <<x, n>> \in confirmed \/ <<x, n>> \in pending \/ (<<x, n>> \notin index /\ <<x, n>> \in Files(books'))
    BY <1>6, <2>2 DEF Accounted, Kept
  <2> QED BY <1>1, <2>1, <2>2 DEF Accounted, ReadOf, scan
<1>8. Avails'
  <2>1. ~errors => /\ \A r \in books' : Kept(r.file)
                   /\ \A b \in index : Kept(b) => b \in Files(books')
    BY <1>1, <1>3, <1>6 DEF Avails
  <2> QED BY <1>1, <2>1 DEF Avails, Kept, IsSkipped, scan
<1>9. KnownRows'
  <2>1. CASE errors
    BY <1>1, <2>1 DEF KnownRows, scan
  <2>2. CASE ~errors
    <3>1. ASSUME NEW a \in Archive, known[a] # Unknown, NEW n \in Name, <<a, n>> \in Files(books)
          PROVE  Kept(<<a, n>>) <=> IsSkipped(a)
      <4>1. read[a] = Unknown
        BY <3>1 DEF Once
      <4>2. ~ReadOf(<<a, n>>)
        BY <4>1 DEF ReadOf
      <4>3. <<a, n>> \in index
        BY <1>1, <3>1, <4>2 DEF Accounted, Files
      <4>4. <<a, n>> \notin confirmed
        BY <4>2 DEF Accounted
      <4> QED BY <4>3, <4>4 DEF Kept
    <3>2. \A b : b \in Files(books') => b \in Files(books) /\ Kept(b)
      BY <1>3, <2>2 DEF Files
    <3>3. ASSUME NEW a \in Archive, known[a] # Unknown
          PROVE  NamesOf(books', a) = IF IsSkipped(a) THEN NamesOf(books, a) ELSE {}
      BY <1>6, <2>2, <3>1, <3>2, <3>3 DEF NamesOf
    <3>4. ASSUME NEW e \in skipped
          PROVE  NamesOf(books', e[1]) = NamesOf(books, e[1])
      <4>1. IsSkipped(e[1])
        BY DEF IsSkipped
      <4>2. \A n \in Name : Kept(<<e[1], n>>)
        BY <4>1 DEF Kept
      <4> QED BY <1>6, <2>2, <3>2, <4>2 DEF NamesOf
    <3> QED BY <1>1, <3>3, <3>4 DEF KnownRows, scan
  <2> QED BY <2>1, <2>2
<1> QED BY <1>2, <1>4, <1>5, <1>7, <1>8, <1>9

LEMMA PruneCatalogsInv ==
  ASSUME ArchiveInv, PruneCatalogs
  PROVE  ArchiveInv'
<1> USE DEF ArchiveInv
<1>1. /\ phase = "prune" /\ phase' = "counters"
      /\ catalog' = [a \in Archive |-> IF a \in Inpx \/ Listed(a) = {} THEN Unknown ELSE catalog[a]]
      /\ UNCHANGED <<world, scan, known>>
  BY DEF PruneCatalogs, world, scan
<1>2. books' = books
  BY PruneRows DEF PruneCatalogs
<1>3. \A a \in Archive : catalog'[a] \in {Unknown, catalog[a]}
  BY <1>1
<1>4. TypeOK'
  <2>1. catalog' \in [Archive -> Stamp \union {Unknown}]
    BY <1>1 DEF TypeOK
  <2> QED BY <1>1, <1>2, <2>1 DEF TypeOK, world, scan
<1>5. RowsInv' /\ Context' /\ Once'
  BY <1>1, <1>2 DEF RowsInv, Context, Once, Entered, scan
<1>6. Times'
  BY <1>1, <1>3 DEF Times, TimesRead, TimesKnown, world, scan
<1>7. Accounted' /\ Avails' /\ KnownRows'
  BY <1>1, <1>2 DEF Accounted, ReadOf, Avails, IsSkipped, Kept, KnownRows, scan
<1> QED BY <1>4, <1>5, <1>6, <1>7

-----------------------------------------------------------------------------
(* What a clean scan leaves, and the first theorem.                         *)

\* What the table holds of an archive when a scan ends without an error.
LEMMA CleanNames ==
  ASSUME ArchiveInv, phase = "counters", ~errors, NEW a \in Archive
  PROVE  /\ read[a] # Unknown => NamesOf(books, a) = read[a].names
         /\ read[a] = Unknown /\ ~IsSkipped(a) => NamesOf(books, a) = {}
         /\ IsSkipped(a) /\ known[a] # Unknown => NamesOf(books, a) = known[a].names
<1> USE DEF ArchiveInv
<1>1. /\ open = {} /\ pending = {}
      /\ \A r \in books : Kept(r.file)
      /\ \A b \in index : Kept(b) => b \in Files(books)
  BY DEF Context, Avails
<1>2. ASSUME NEW n \in NamesOf(books, a), ~IsSkipped(a)
      PROVE  ReadOf(<<a, n>>)
  <2>1. PICK r \in books : r.file = <<a, n>>
    BY <1>2 DEF NamesOf, Files
  <2>2. Kept(<<a, n>>)
    BY <1>1, <2>1
  <2> QED BY <1>2, <2>1, <2>2 DEF Kept, Accounted
<1>3. ASSUME read[a] # Unknown
      PROVE  NamesOf(books, a) = read[a].names
  <2>1. ~IsSkipped(a)
    BY <1>3 DEF Once, Entered, IsSkipped
  <2>2. NamesOf(books, a) \subseteq read[a].names
    BY <1>2, <2>1 DEF ReadOf
  <2>3. ASSUME NEW n \in read[a].names
        PROVE  n \in NamesOf(books, a)
    <3>1. n \in Name
      BY <1>3, <2>3 DEF TypeOK, Content
    <3>2. <<a, n>> \in confirmed \/ <<a, n>> \in Files(books)
      BY <1>1, <1>3, <2>3 DEF Accounted
    <3>3. <<a, n>> \in confirmed => <<a, n>> \in index /\ Kept(<<a, n>>)
      BY DEF Accounted, Kept
    <3> QED BY <1>1, <3>1, <3>2, <3>3 DEF NamesOf
  <2> QED BY <2>2, <2>3
<1>4. ASSUME read[a] = Unknown, ~IsSkipped(a)
      PROVE  NamesOf(books, a) = {}
  <2>1. ASSUME NEW n \in NamesOf(books, a) PROVE FALSE
    BY <1>2, <1>4, <2>1 DEF ReadOf
  <2> QED BY <2>1
<1>5. ASSUME IsSkipped(a), known[a] # Unknown
      PROVE  NamesOf(books, a) = known[a].names
  BY <1>5 DEF IsSkipped, KnownRows
<1> QED BY <1>3, <1>4, <1>5

\* What a scan without errors read is known from now on.
LEMMA ReleaseLockInv ==
  ASSUME ArchiveAssumption, ArchiveInv, ReleaseLock
  PROVE  ArchiveInv'
<1> USE DEF ArchiveInv
<1>1. /\ phase = "counters" /\ phase' = "idle" /\ force' = FALSE /\ todo' = {} /\ open' = {} /\ index' = {}
      /\ confirmed' = {} /\ pending' = {} /\ writer' = "none" /\ errors' = FALSE
      /\ skipped' = {} /\ read' = Nothing
      /\ UNCHANGED <<world, store>>
  BY DEF ReleaseLock, DropContext, world, store
<1>2. force' \in BOOLEAN /\ errors' \in BOOLEAN /\ ~errors'
  BY <1>1, Zenon
<1>3. \/ known' = known
      \/ ~errors /\ known' = [a \in Archive |-> IF read[a] = Unknown THEN known[a] ELSE read[a]]
  BY DEF ReleaseLock
<1>4. known' \in [Archive -> Content \union {Unknown}] /\ read' \in [Archive -> Content \union {Unknown}]
  BY <1>1, <1>3 DEF TypeOK, Nothing
<1>5. \A a \in Archive : known'[a] = known[a] \/ (~errors /\ read[a] # Unknown /\ known'[a] = read[a])
  BY <1>3
<1>6. TypeOK'
  BY <1>1, <1>2, <1>4 DEF TypeOK, world, store
<1>7. RowsInv' /\ Context'
  BY <1>1, <1>2 DEF RowsInv, Context, store
<1>8. Once'
  BY <1>1 DEF Once, Nothing
<1>9. Times'
  <2>1. TimesRead'
    BY <1>1 DEF TimesRead, Nothing
  <2>2. TimesKnown'
    <3>1. ASSUME NEW a \in Archive, known'[a] # Unknown
          PROVE  /\ known'[a].mtime <= clock
                 /\ disk[a] # Gone /\ disk[a].mtime = known'[a].mtime => known'[a] = disk[a]
                 /\ catalog[a] # Unknown => catalog[a].size = known'[a].size /\ catalog[a].mtime = known'[a].mtime
      <4>1. CASE known'[a] = known[a]
        BY <3>1, <4>1 DEF Times, TimesKnown
      <4>2. CASE ~errors /\ read[a] # Unknown /\ known'[a] = read[a]
        <5>1. /\ read[a].mtime <= clock
              /\ disk[a] # Gone /\ disk[a].mtime = read[a].mtime =>
                   read[a].size = disk[a].size /\ read[a].names = disk[a].names
              /\ catalog[a] # Unknown => catalog[a].size = read[a].size /\ catalog[a].mtime = read[a].mtime
          BY <1>1, <4>2 DEF Times, TimesRead, Context
        <5>2. read[a] \in Content /\ (disk[a] # Gone => disk[a] \in Content)
          BY <4>2 DEF TypeOK
        <5>3. disk[a] # Gone /\ disk[a].mtime = read[a].mtime => read[a] = disk[a]
          BY <5>1, <5>2 DEF Content
        <5> QED BY <4>2, <5>1, <5>3
      <4> QED BY <1>5, <4>1, <4>2
    <3> QED BY <1>1, <3>1 DEF TimesKnown, world, store
  <2> QED BY <1>1, <2>1, <2>2 DEF Times, world
<1>10. Accounted' /\ Avails'
  BY <1>1 DEF Accounted, Avails, Nothing
<1>11. KnownRows'
  <2>1. ASSUME NEW a \in Archive, known'[a] # Unknown
        PROVE  NamesOf(books, a) \in {known'[a].names, {}}
    <3>1. CASE known'[a] = known[a]
      BY <2>1, <3>1 DEF KnownRows
    <3>2. CASE ~errors /\ read[a] # Unknown /\ known'[a] = read[a]
      BY <1>1, <3>2, CleanNames
    <3> QED BY <1>5, <3>1, <3>2
  <2> QED BY <1>1, <2>1 DEF KnownRows, store
<1> QED BY <1>6, <1>7, <1>8, <1>9, <1>10, <1>11

LEMMA CrashInv ==
  ASSUME ArchiveInv, Crash
  PROVE  ArchiveInv'
<1> USE DEF ArchiveInv
<1>1. /\ phase' = "idle" /\ force' = FALSE /\ todo' = {} /\ open' = {} /\ index' = {}
      /\ confirmed' = {} /\ pending' = {} /\ writer' = "none" /\ errors' = FALSE
      /\ skipped' = {} /\ read' = Nothing
      /\ skipUnchanged' \in SkipModes /\ UNCHANGED <<disk, clock, store, known>>
  BY DEF Crash, DropContext, store
<1>2. force' \in BOOLEAN /\ errors' \in BOOLEAN /\ ~errors'
  BY <1>1, Zenon
<1>3. read' \in [Archive -> Content \union {Unknown}]
  BY <1>1 DEF Nothing
<1>4. TypeOK'
  BY <1>1, <1>2, <1>3 DEF TypeOK, store
<1>5. RowsInv' /\ Context'
  BY <1>1, <1>2 DEF RowsInv, Context, store
<1>6. Once' /\ TimesRead'
  BY <1>1 DEF Once, TimesRead, Nothing
<1>7. Times'
  BY <1>1, <1>6 DEF Times, TimesKnown, store
<1>8. Accounted' /\ Avails' /\ KnownRows'
  BY <1>1 DEF Accounted, Avails, KnownRows, Nothing, store
<1> QED BY <1>4, <1>5, <1>6, <1>7, <1>8

LEMMA StutterArchiveInv ==
  ASSUME ArchiveInv, UNCHANGED vars
  PROVE  ArchiveInv'
<1> USE DEF ArchiveInv
<1>1. TypeOK'
  BY DEF TypeOK, vars, world, store, scan
<1>2. RowsInv' /\ Context' /\ Once' /\ Times'
  BY DEF RowsInv, Context, Once, Entered, Times, TimesRead, TimesKnown, vars, world, store, scan
<1>3. Accounted' /\ Avails' /\ KnownRows'
  BY DEF Accounted, ReadOf, Avails, IsSkipped, Kept, KnownRows, vars, world, store, scan
<1> QED BY <1>1, <1>2, <1>3

LEMMA NextArchive ==
  ASSUME ArchiveAssumption, AbsenceAssumption, OwnRows, ArchiveInv, [Next]_vars
  PROVE  ArchiveInv'
BY ChangeArchiveInv, BeginScanInv, SkipArchiveInv, StampArchiveInv, RefuseArchiveInv, ReadArchiveInv,
   CommitInv, WriterFailsInv, FinishWorkInv, ConfirmExistingInv, DeleteUnavailableInv,
   PruneCatalogsInv, ReleaseLockInv, CrashInv, StutterArchiveInv DEF Next

LEMMA CleanFromInv ==
  ASSUME ArchiveInv
  PROVE  CleanScanListsArchives
<1> SUFFICES ASSUME phase = "counters", ~errors, NEW a \in Archive
             PROVE  IF read[a] # Unknown THEN Listed(a) = read[a].names
                    ELSE IF \A e \in skipped : e[1] # a THEN Listed(a) = {}
                    ELSE known[a] # Unknown =>
                           /\ Listed(a) = known[a].names
                           /\ skipUnchanged /\ disk[a] # Gone /\ <<a, disk[a].mtime>> \in skipped
                                => Listed(a) = disk[a].names
  BY DEF CleanScanListsArchives
<1>1. Listed(a) = NamesOf(books, a)
  BY ListedNames DEF ArchiveInv
<1>2. CASE read[a] # Unknown
  BY <1>1, <1>2, CleanNames
<1>3. CASE read[a] = Unknown /\ \A e \in skipped : e[1] # a
  BY <1>1, <1>3, CleanNames DEF IsSkipped
<1>4. CASE read[a] = Unknown /\ \E e \in skipped : e[1] = a
  <2>1. known[a] # Unknown => Listed(a) = known[a].names
    BY <1>1, <1>4, CleanNames DEF IsSkipped
  <2>2. ASSUME known[a] # Unknown, skipUnchanged, disk[a] # Gone, <<a, disk[a].mtime>> \in skipped
        PROVE  known[a] = disk[a]
    <3>1. known[a].mtime = <<a, disk[a].mtime>>[2]
      BY <2>2 DEF ArchiveInv, Times, TimesKnown
    <3> QED BY <2>2, <3>1 DEF ArchiveInv, Times, TimesKnown
  <2> QED BY <1>4, <2>1, <2>2
<1> QED BY <1>2, <1>3, <1>4

\* Every scan that ends without an error lists what it read, in every instance with ZIP files
\* and physical deletion: any archives, contents, faults and changes to the files.
THEOREM ArchivesAreListed == ASSUME OwnRows PROVE Spec => []CleanScanListsArchives
<1>1. Init => ArchiveInv
  BY InitArchive, ArchiveAssumption
<1>2. ArchiveInv /\ [Next]_vars => ArchiveInv'
  BY NextArchive, ArchiveAssumption, AbsenceAssumption
<1>3. ArchiveInv => CleanScanListsArchives
  BY CleanFromInv
<1> QED BY <1>1, <1>2, <1>3, PTL DEF Spec

\* The records of a scan have their types in every reachable state.
THEOREM ArchivesAreTyped == ASSUME OwnRows PROVE Spec => []TypeOK
<1>1. Init => ArchiveInv
  BY InitArchive, ArchiveAssumption
<1>2. ArchiveInv /\ [Next]_vars => ArchiveInv'
  BY NextArchive, ArchiveAssumption, AbsenceAssumption
<1>3. ArchiveInv => TypeOK
  BY DEF ArchiveInv
<1> QED BY <1>1, <1>2, <1>3, PTL DEF Spec

-----------------------------------------------------------------------------
(* Archives that have not changed.                                          *)

\* ZIP files only: an INPX index never keeps its record (its catalog has no rows).
NoIndexes == Inpx = {}

\* An archive that is unchanged since a scan read it is met at its time, unless something failed,
\* and keeps its record and its rows.
Walked ==
  \A a \in Archive : known[a] # Unknown /\ disk[a] # Gone /\ disk[a].mtime = known[a].mtime =>
    /\ \A e \in todo : e[1] = a => e[2] = disk[a].mtime
    /\ phase # "idle" /\ ~errors => Entered(a)
    /\ known[a].names # {} => catalog[a] # Unknown /\ NamesOf(books, a) # {}

\* An archive that was read loses its record only if it has no rows.
ReadStamp ==
  \A a \in Archive : read[a] # Unknown /\ catalog[a] = Unknown =>
    phase = "counters" /\ NamesOf(books, a) = {}

SkipInv == Walked /\ ReadStamp

LEMMA InitSkip == Init => SkipInv
BY DEF Init, SkipInv, Walked, ReadStamp, Nothing

LEMMA ChangeArchiveSkip ==
  ASSUME ArchiveAssumption, ArchiveInv, SkipInv, ChangeArchive
  PROVE  SkipInv'
<1>1. PICK a \in Archive, c \in {Gone} \union [size : Size, mtime : {clock + 1}, names : SUBSET Name] :
        disk' = [disk EXCEPT ![a] = c]
  BY DEF ChangeArchive
<1>2. clock \in Int /\ UNCHANGED <<store, skipUnchanged, phase, scan, known>>
  BY DEF ChangeArchive, ArchiveInv, TypeOK
<1>3. \A x \in Archive : disk'[x] = disk[x] \/ disk'[x] = Gone \/ disk'[x].mtime = clock + 1
  BY <1>1 DEF ArchiveInv, TypeOK
<1>4. \A x \in Archive : known[x] # Unknown => known[x].mtime \in Int /\ known[x].mtime <= clock
  BY DEF ArchiveInv, TypeOK, Content, Times, TimesKnown
<1>5. \A x \in Archive : known[x] # Unknown /\ disk'[x] # Gone /\ disk'[x].mtime = known[x].mtime => disk'[x] = disk[x]
  BY <1>2, <1>3, <1>4
<1>6. Walked'
  BY <1>2, <1>5 DEF SkipInv, Walked, Entered, store, scan
<1>7. ReadStamp'
  BY <1>2 DEF SkipInv, ReadStamp, store, scan
<1> QED BY <1>6, <1>7 DEF SkipInv

LEMMA BeginScanSkip ==
  ASSUME ArchiveInv, SkipInv, BeginScan
  PROVE  SkipInv'
<1>1. /\ books' = SetAvailAll(books, Unverified)
      /\ todo' = {<<a, disk[a].mtime>> : a \in {x \in Archive : disk[x] # Gone}}
      /\ phase = "idle" /\ UNCHANGED <<world, catalog, skipped, errors, read, known>>
  BY DEF BeginScan
<1>2. Files(books') = Files(books) /\ read = Nothing
  BY <1>1, SetAvailAllRows DEF ArchiveInv, Context
<1>3. Walked'
  <2>1. ASSUME NEW a \in Archive, disk[a] # Gone
        PROVE  <<a, disk[a].mtime>> \in todo' /\ \A e \in todo' : e[1] = a => e[2] = disk[a].mtime
    BY <1>1, <2>1
  <2>2. \A a \in Archive : disk[a] # Gone => \E e \in todo' : e[1] = a
    BY <2>1
  <2> QED BY <1>1, <1>2, <2>1, <2>2 DEF SkipInv, Walked, Entered, NamesOf, world
<1>4. ReadStamp'
  BY <1>1, <1>2 DEF ReadStamp, Nothing
<1> QED BY <1>3, <1>4 DEF SkipInv

LEMMA SkipArchiveSkip ==
  ASSUME OwnRows, ArchiveInv, SkipInv, SkipArchive
  PROVE  SkipInv'
<1>1. PICK e \in todo :
        /\ books' = ConfirmAll(books, Scope[e[1]] \X Name)
        /\ todo' = todo \ {e} /\ skipped' = skipped \union {e}
        /\ UNCHANGED <<world, catalog, phase, force, open, index, confirmed, pending,
                       writer, errors, read, known>>
  BY DEF SkipArchive
<1>2. PICK a \in Archive : e[1] = a /\ Scope[a] = {a}
  BY <1>1 DEF ArchiveInv, TypeOK, OwnRows
<1>3. Files(books') = Files(books)
  BY <1>1, <1>2, ConfirmAllRows DEF ArchiveInv
<1>4. todo' \union skipped' = todo \union skipped
  BY <1>1
<1>5. Walked'
  BY <1>1, <1>3, <1>4 DEF SkipInv, Walked, Entered, NamesOf, world
<1>6. ReadStamp'
  BY <1>1, <1>3 DEF SkipInv, ReadStamp, NamesOf
<1> QED BY <1>5, <1>6 DEF SkipInv

LEMMA StampArchiveSkip ==
  ASSUME AbsenceAssumption, ArchiveInv, SkipInv, StampArchive
  PROVE  SkipInv'
<1>1. PICK e \in todo :
        /\ disk[e[1]] # Gone
        /\ catalog' = [catalog EXCEPT ![e[1]] = [size |-> disk[e[1]].size, mtime |-> e[2]]]
        /\ known' = [known EXCEPT ![e[1]] = Unknown]
        /\ todo' = todo \ {e}
        /\ read' = [read EXCEPT ![e[1]] = [size |-> disk[e[1]].size, mtime |-> e[2], names |-> {}]]
        /\ UNCHANGED <<world, books, phase, force, index, confirmed, pending, writer, errors, skipped>>
  BY DEF StampArchive
<1>2. PICK a \in Archive, t \in 1 .. MaxTime : e = <<a, t>>
  BY <1>1 DEF ArchiveInv, TypeOK
<1>3. e[1] = a /\ e[2] = t /\ disk[a] \in Content
  BY <1>1, <1>2 DEF ArchiveInv, TypeOK
<1>4. [size |-> disk[a].size, mtime |-> t] \in Stamp
  BY <1>3 DEF Content, Stamp
<1>5. /\ catalog'[a] # Unknown /\ known'[a] = Unknown
      /\ \A x \in Archive : x # a => read'[x] = read[x] /\ catalog'[x] = catalog[x] /\ known'[x] = known[x]
  BY <1>1, <1>3, <1>4 DEF ArchiveInv, TypeOK, AbsenceAssumption
<1>6. Walked'
  BY <1>1, <1>3, <1>5 DEF SkipInv, Walked, Entered, world
<1>7. ReadStamp'
  BY <1>1, <1>5 DEF SkipInv, ReadStamp
<1> QED BY <1>6, <1>7 DEF SkipInv

LEMMA RefuseArchiveSkip ==
  ASSUME SkipInv, RefuseArchive
  PROVE  SkipInv'
<1>1. /\ todo' \subseteq todo /\ errors'
      /\ UNCHANGED <<world, store, phase, read, known>>
  BY DEF RefuseArchive
<1> QED BY <1>1 DEF SkipInv, Walked, ReadStamp, world, store

\* What is read keeps its record, and it is not known any more.
LEMMA ReadArchiveSkip ==
  ASSUME AbsenceAssumption, ArchiveInv, SkipInv, ReadArchive
  PROVE  SkipInv'
<1>1. PICK a \in open :
        /\ \E all : read' = [read EXCEPT ![a].names = all]
        /\ \E lost \in BOOLEAN : errors' = (errors \/ lost)
        /\ UNCHANGED <<world, store, phase, todo, skipped, known>>
  <2>1. PICK a \in open : \E N \in SUBSET (IF disk[a] = Gone THEN {} ELSE disk[a].names) :
          LET all == IF disk[a] = Gone THEN {} ELSE disk[a].names
              found == Members(a, N)  new == found \ index IN
          /\ errors' = (\/ errors
                        \/ disk[a] = Gone \/ N # all
                        \/ writer = "failed" /\ new # {})
          /\ read' = [read EXCEPT ![a].names = all]
          /\ UNCHANGED <<world, store, phase, todo, skipped, known>>
    BY DEF ReadArchive
  <2> QED BY <2>1, Zenon
<1>2. errors => errors'
  BY <1>1, Zenon
<1>3. a \in Archive /\ read[a] # Unknown
  BY DEF ArchiveInv, TypeOK, Once
<1>4. \A x \in Archive : read'[x] # Unknown => read[x] # Unknown
  BY <1>1, <1>3 DEF ArchiveInv, TypeOK
<1>5. Walked'
  BY <1>1, <1>2 DEF SkipInv, Walked, Entered, world, store
<1>6. ReadStamp'
  BY <1>1, <1>4 DEF SkipInv, ReadStamp, store
<1> QED BY <1>5, <1>6 DEF SkipInv

LEMMA CommitSkip ==
  ASSUME ArchiveInv, SkipInv, Commit
  PROVE  SkipInv'
<1>1. PICK S \in (SUBSET pending) \ {{}} :
        /\ books' = books \union {Row(b, b, Confirmed) : b \in S}
        /\ UNCHANGED <<world, catalog, phase, todo, errors, skipped, read, known>>
  BY DEF Commit
<1>2. phase = "work"
  BY <1>1 DEF ArchiveInv, Context
<1>3. \A a : NamesOf(books, a) \subseteq NamesOf(books', a)
  BY <1>1 DEF NamesOf, Files
<1>4. Walked'
  BY <1>1, <1>3 DEF SkipInv, Walked, Entered, world
<1>5. ReadStamp'
  BY <1>1, <1>2 DEF SkipInv, ReadStamp
<1> QED BY <1>4, <1>5 DEF SkipInv

LEMMA WriterFailsSkip ==
  ASSUME SkipInv, WriterFails
  PROVE  SkipInv'
<1>1. errors' /\ UNCHANGED <<world, store, phase, todo, skipped, read, known>>
  BY DEF WriterFails
<1> QED BY <1>1 DEF SkipInv, Walked, ReadStamp, world, store

LEMMA FinishWorkSkip ==
  ASSUME SkipInv, FinishWork
  PROVE  SkipInv'
<1>1. phase = "work" /\ phase' = "confirm" /\ UNCHANGED <<world, store, scan, known>>
  BY DEF FinishWork, world, store, scan
<1> QED BY <1>1 DEF SkipInv, Walked, ReadStamp, Entered, world, store, scan

LEMMA ConfirmExistingSkip ==
  ASSUME ArchiveInv, SkipInv, ConfirmExisting
  PROVE  SkipInv'
<1>1. /\ phase = "confirm" /\ phase' = "delete" /\ books' = ConfirmIds(books, confirmed)
      /\ UNCHANGED <<world, catalog, scan, known>>
  BY DEF ConfirmExisting, world, scan
<1>2. Files(books') = Files(books)
  BY <1>1, ConfirmIdsRows DEF ArchiveInv
<1> QED BY <1>1, <1>2 DEF SkipInv, Walked, ReadStamp, Entered, NamesOf, world, scan

\* An archive that was met and is known was skipped, and what was skipped stays.
LEMMA DeleteUnavailableSkip ==
  ASSUME OwnRows, ArchiveInv, SkipInv, DeleteUnavailable
  PROVE  SkipInv'
<1>1. /\ phase = "delete" /\ phase' = "prune" /\ todo = {}
      /\ IF errors THEN books' = books ELSE books' = PhysicalDelete(books)
      /\ UNCHANGED <<world, catalog, scan, known>>
  BY DEF DeleteUnavailable, OwnRows, world, scan, ArchiveInv, Context
<1>2. ~errors => books' = {r \in books : Kept(r.file)}
  BY <1>1, PhysicalDeleteRows DEF ArchiveInv, Avails
<1>3. ASSUME NEW a \in Archive, errors \/ IsSkipped(a)
      PROVE  NamesOf(books', a) = NamesOf(books, a)
  <2>1. CASE errors
    BY <1>1, <2>1
  <2>2. CASE ~errors /\ IsSkipped(a)
    <3>1. \A n : Kept(<<a, n>>)
      BY <2>2 DEF Kept
    <3> QED BY <1>2, <2>2, <3>1 DEF NamesOf, Files
  <2> QED BY <1>3, <2>1, <2>2
<1>4. \A a \in Archive : Entered(a) => IsSkipped(a)
  BY <1>1 DEF Entered, IsSkipped
<1>5. Walked'
  <2>1. \A a \in Archive : known[a] # Unknown /\ disk[a] # Gone /\ disk[a].mtime = known[a].mtime => errors \/ IsSkipped(a)
    BY <1>1, <1>4 DEF SkipInv, Walked
  <2> QED BY <1>1, <1>3, <2>1 DEF SkipInv, Walked, Entered, world, scan
<1>6. ReadStamp'
  BY <1>1 DEF SkipInv, ReadStamp, scan
<1> QED BY <1>5, <1>6 DEF SkipInv

LEMMA PruneCatalogsSkip ==
  ASSUME NoIndexes, ArchiveInv, SkipInv, PruneCatalogs
  PROVE  SkipInv'
<1>1. /\ phase = "prune" /\ phase' = "counters"
      /\ catalog' = [a \in Archive |-> IF a \in Inpx \/ Listed(a) = {} THEN Unknown ELSE catalog[a]]
      /\ UNCHANGED <<world, scan, known>>
  BY DEF PruneCatalogs, world, scan
<1>2. books' = books
  BY PruneRows DEF PruneCatalogs, ArchiveInv
<1>3. \A a \in Archive : Listed(a) = NamesOf(books, a)
  BY ListedNames DEF ArchiveInv
<1>4. \A a \in Archive : catalog'[a] = IF NamesOf(books, a) = {} THEN Unknown ELSE catalog[a]
  BY <1>1, <1>3 DEF NoIndexes
<1>5. Walked'
  BY <1>1, <1>2, <1>4 DEF SkipInv, Walked, Entered, world, scan
<1>6. ReadStamp'
  BY <1>1, <1>2, <1>4 DEF SkipInv, ReadStamp, scan
<1> QED BY <1>5, <1>6 DEF SkipInv

\* What becomes known has a record, if it has books.
LEMMA ReleaseLockSkip ==
  ASSUME ArchiveInv, SkipInv, ReleaseLock
  PROVE  SkipInv'
<1>1. /\ phase = "counters" /\ phase' = "idle" /\ todo' = {} /\ read' = Nothing
      /\ UNCHANGED <<world, store>>
  BY DEF ReleaseLock, DropContext, world, store
<1>2. \/ known' = known
      \/ ~errors /\ known' = [a \in Archive |-> IF read[a] = Unknown THEN known[a] ELSE read[a]]
  BY DEF ReleaseLock
<1>3. \A a \in Archive : known'[a] = known[a] \/ (~errors /\ read[a] # Unknown /\ known'[a] = read[a])
  BY <1>2
<1>4. ASSUME NEW a \in Archive, known'[a] # Unknown, disk[a] # Gone, disk[a].mtime = known'[a].mtime, known'[a].names # {}
      PROVE  catalog[a] # Unknown /\ NamesOf(books, a) # {}
  <2>1. CASE known'[a] = known[a]
    BY <1>4, <2>1 DEF SkipInv, Walked
  <2>2. CASE ~errors /\ read[a] # Unknown /\ known'[a] = read[a]
    BY <1>1, <1>4, <2>2, CleanNames DEF SkipInv, ReadStamp
  <2> QED BY <1>3, <2>1, <2>2
<1>5. Walked'
  BY <1>1, <1>4 DEF Walked, world, store
<1>6. ReadStamp'
  BY <1>1 DEF ReadStamp, Nothing
<1> QED BY <1>5, <1>6 DEF SkipInv

LEMMA CrashSkip ==
  ASSUME SkipInv, Crash
  PROVE  SkipInv'
<1>1. /\ phase' = "idle" /\ todo' = {} /\ read' = Nothing
      /\ UNCHANGED <<disk, clock, store, known>>
  BY DEF Crash, DropContext, store
<1> QED BY <1>1 DEF SkipInv, Walked, ReadStamp, Nothing, store

LEMMA NextSkip ==
  ASSUME ArchiveAssumption, AbsenceAssumption, OwnRows, NoIndexes, ArchiveInv, SkipInv, [Next]_vars
  PROVE  SkipInv'
<1>1. CASE UNCHANGED vars
  BY <1>1 DEF SkipInv, Walked, ReadStamp, Entered, vars, world, store, scan
<1> QED BY <1>1, ChangeArchiveSkip, BeginScanSkip, SkipArchiveSkip, StampArchiveSkip, RefuseArchiveSkip,
          ReadArchiveSkip, CommitSkip, WriterFailsSkip, FinishWorkSkip, ConfirmExistingSkip,
          DeleteUnavailableSkip, PruneCatalogsSkip, ReleaseLockSkip, CrashSkip DEF Next

\* Only a step that records the time and size of an archive opens it.
LEMMA OpensByStamp ==
  ASSUME [Next]_vars, NEW a, a \in open' \ open
  PROVE  StampArchive
<1>1. CASE ReadArchive
  BY <1>1 DEF ReadArchive
<1>2. CASE ReleaseLock \/ Crash
  BY <1>2 DEF ReleaseLock, Crash, DropContext
<1>3. CASE BeginScan \/ SkipArchive \/ RefuseArchive \/ Commit \/ WriterFails
  BY <1>3 DEF BeginScan, SkipArchive, RefuseArchive, Commit, WriterFails
<1>4. CASE ChangeArchive \/ FinishWork \/ ConfirmExisting \/ DeleteUnavailable \/ PruneCatalogs \/ UNCHANGED vars
  BY <1>4 DEF ChangeArchive, FinishWork, ConfirmExisting, DeleteUnavailable, PruneCatalogs, vars, scan
<1> QED BY <1>1, <1>2, <1>3, <1>4 DEF Next

LEMMA UnchangedNotOpened ==
  ASSUME AbsenceAssumption, OwnRows, ArchiveInv, SkipInv, [Next]_vars, NEW a \in Archive,
         ~force, disk[a] # Gone, known[a] = disk[a], known[a].names # {}, a \in open' \ open
  PROVE  FALSE
<1>1. StampArchive
  BY OpensByStamp
<1>2. PICK e \in todo :
        /\ force \/ ~SameStamp(e[1], e[2]) \/ RowsIn(Scope[e[1]]) = {}
        /\ open' = open \union {e[1]}
  BY <1>1 DEF StampArchive
<1>3. e[1] = a /\ Scope[a] = {a} /\ known[a] # Unknown
  BY <1>2 DEF OwnRows, ArchiveInv, TypeOK, AbsenceAssumption
<1>4. e[2] = disk[a].mtime /\ catalog[a] # Unknown /\ NamesOf(books, a) # {}
  BY <1>2, <1>3 DEF SkipInv, Walked
<1>5. catalog[a].size = disk[a].size /\ catalog[a].mtime = e[2]
  BY <1>3, <1>4 DEF ArchiveInv, Times, TimesKnown
<1>6. SameStamp(a, e[2])
  BY <1>4, <1>5 DEF SameStamp
<1>7. RowsIn({a}) # {}
  <2>1. PICK n \in Name : <<a, n>> \in Files(books)
    BY <1>4 DEF NamesOf
  <2>2. PICK r \in books : r.file = <<a, n>>
    BY <2>1 DEF Files
  <2> QED BY <2>2 DEF RowsIn
<1> QED BY <1>2, <1>3, <1>6, <1>7

\* An archive that is unchanged since a scan read it is never opened by a scan that is not forced,
\* whatever scans failed, crashed or ran with other settings in between.
THEOREM UnchangedIsSkipped ==
  ASSUME OwnRows, NoIndexes PROVE Spec => UnchangedArchiveIsSkipped
<1>1. Init => ArchiveInv /\ SkipInv
  BY InitArchive, InitSkip, ArchiveAssumption
<1>2. ArchiveInv /\ SkipInv /\ [Next]_vars => (ArchiveInv /\ SkipInv)'
  BY NextArchive, NextSkip, ArchiveAssumption, AbsenceAssumption
<1>3. ArchiveInv /\ SkipInv /\ [Next]_vars =>
        [\A a \in Archive :
           ~force /\ disk[a] # Gone /\ known[a] = disk[a] /\ known[a].names # {}
             => a \notin open' \ open]_vars
  BY UnchangedNotOpened, AbsenceAssumption
<1> QED BY <1>1, <1>2, <1>3, PTL DEF Spec, UnchangedArchiveIsSkipped
=============================================================================
