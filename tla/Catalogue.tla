----------------------------- MODULE Catalogue ------------------------------
(* What a scan may do to the table that whoever reads the catalogue sees, and *)
(* of the scan only what decides which rows it may change.  No workers, no    *)
(* channel, no batches: a scan indexes the table, doubts every listed row,    *)
(* finds books, inserts some of them, vouches for some archives without a     *)
(* look, verifies the rows of the books it found and, unless something        *)
(* failed, drops the rows it still doubts.  LibraryScan implements it.        *)
(*                                                                            *)
(* It is what the scanner does, and less than one would like: a row that was  *)
(* published while a scan begins is in doubt and not known (Index, Publish,   *)
(* Doubt), and is dropped; a hidden row is listed again by Vouch; and with    *)
(* Logical a hidden row still goes with the last listed one of its catalog    *)
(* (Purge).                                                                   *)
EXTENDS BooksTable

CONSTANTS
  Book,
  RowId,
  NoRow,
  Dir, DirOf, \* the catalogs, and the catalog of every book
  Bundle,     \* the sets of books that are one archive
  Logical     \* dropped rows are hidden, not deleted

VARIABLES
  table,     \* the rows
  stage,     \* of the scan
  known,     \* the row every book had when the scan began, or NoRow
  found      \* the books the scan found in the library

cvars == <<table, stage, known, found>>

Unknown == [b \in Book |-> NoRow]

Kept == {known[b] : b \in found} \ {NoRow}

Init == table = {} /\ stage = "idle" /\ known = Unknown /\ found = {}

\* Listed rows for books of B, with ids that no row has.
NewRows(B) == {Row(i, b, Confirmed) : i \in RowId \ Ids(table), b \in B}

Begin ==
  /\ stage = "idle" /\ stage' = "begun"
  /\ UNCHANGED <<table, known, found>>

Index ==
  /\ stage = "begun" /\ stage' = "indexed"
  /\ known' \in [Book -> RowId \cup {NoRow}]
  /\ \A b \in Book : IF RowsOf(table, b) = {} THEN known'[b] = NoRow
                                             ELSE known'[b] \in Ids(RowsOf(table, b))
  /\ UNCHANGED <<table, found>>

Doubt ==
  /\ stage = "indexed" /\ stage' = "doubting"
  /\ table' = SetAvailAll(table, Unverified)
  /\ UNCHANGED <<known, found>>

Find ==
  /\ stage = "doubting" /\ stage' = "reading"
  /\ found' \in SUBSET Book
  /\ UNCHANGED <<table, known>>

\* A batch of books that the scan found and that had no row when it began.
Insert ==
  /\ stage = "reading"
  /\ \E new \in SUBSET NewRows({b \in found : known[b] = NoRow}) :
       UniqueIds(new) /\ table' = table \cup new
  /\ UNCHANGED <<stage, known, found>>

\* An archive of which a book was found is taken to be what it was: all its rows are
\* listed, hidden ones too.
Vouch ==
  /\ stage = "reading"
  /\ \E B \in Bundle :
       /\ B \cap found # {}
       /\ \E r \in table : r.file \in B
       /\ table' = ConfirmAll(table, B)
  /\ UNCHANGED <<stage, known, found>>

\* Nothing failed: exactly the rows of the books it found are confirmed.
Verify ==
  /\ stage = "reading" /\ stage' = "verified"
  /\ table' = ConfirmIds(table, Kept)
  /\ UNCHANGED <<known, found>>

\* Something failed: some of them are.
VerifyPartly ==
  /\ stage = "reading" /\ stage' = "failed"
  /\ \E S \in SUBSET Kept : table' = ConfirmIds(table, S)
  /\ UNCHANGED <<known, found>>

\* Every row still doubted is dropped, after a failure none.
Drop ==
  /\ \/ /\ stage = "verified"
        /\ table' = IF Logical THEN LogicalDelete(table) ELSE PhysicalDelete(table)
     \/ stage = "failed" /\ table' = table
  /\ stage' = "dropped"
  /\ UNCHANGED <<known, found>>

\* The rows of a catalog that lists nothing go with the catalog.
Purge ==
  /\ stage = "dropped" /\ stage' = "purged"
  /\ table' = PruneEmpty(table, DirOf)
  /\ UNCHANGED <<known, found>>

\* The scan ends, is aborted, or dies.
End ==
  /\ stage # "idle" /\ stage' = "idle"
  /\ known' = Unknown /\ found' = {}
  /\ UNCHANGED table

\* An upload, and a deletion by an administrator, at any time.
Publish ==
  /\ \E r \in NewRows(Book) : table' = table \cup {r}
  /\ UNCHANGED <<stage, known, found>>

Remove ==
  /\ \E i \in Ids(table) : table' = DeleteRow(table, i)
  /\ UNCHANGED <<stage, known, found>>

Next ==
  \/ Begin \/ Index \/ Doubt \/ Find \/ Insert \/ Vouch \/ Verify \/ VerifyPartly
  \/ Drop \/ Purge \/ End
  \/ Publish \/ Remove

Spec == Init /\ [][Next]_cvars
=============================================================================
