----------------------------- MODULE BooksTable -----------------------------
(* The `books` table as a set of rows, and the statements the server runs on  *)
(* it (src/db/queries/books.rs, catalogs.rs).  A row keeps the three columns  *)
(* the scanner decides on: its id, the book it catalogues (the pair           *)
(* (path, filename), one value of the set Book) and its availability.  Only   *)
(* (path, filename) is indexed and the index is not unique: two rows may name *)
(* the same book.  Each operator is one SQL statement, so one atomic step.    *)
EXTENDS Integers

\* AvailStatus
Deleted    == 0
Unverified == 1
Confirmed  == 2

Row(i, b, a) == [id |-> i, file |-> b, avail |-> a]

RowType(I, B) == [id : I, file : B, avail : {Deleted, Unverified, Confirmed}]

Ids(t) == {r.id : r \in t}

\* id is the primary key.
UniqueIds(t) == \A r, s \in t : r.id = s.id => r = s

\* Every listing the server serves asks for avail > 0.
Live(t) == {r \in t : r.avail > Deleted}

Shown(t) == {r.file : r \in Live(t)}

RowsOf(t, b) == {r \in t : r.file = b}

With(r, a) == [r EXCEPT !.avail = a]

\* UPDATE books SET avail = a WHERE avail > 0
SetAvailAll(t, a) == {IF r.avail > Deleted THEN With(r, a) ELSE r : r \in t}

\* Mutant of ConfirmIds: UPDATE books SET avail = 2 WHERE id IN (ids)
ConfirmIdsAnyAvail(t, ids) == {IF r.id \in ids THEN With(r, Confirmed) ELSE r : r \in t}

\* UPDATE books SET avail = 2 WHERE avail = 1 AND id IN (ids)
ConfirmIds(t, ids) ==
  {IF r.avail = Unverified /\ r.id \in ids THEN With(r, Confirmed) ELSE r : r \in t}

\* UPDATE books SET avail = 2 WHERE path = ?: the rows of one archive,
\* whatever their availability was.
ConfirmAll(t, B) == {IF r.file \in B THEN With(r, Confirmed) ELSE r : r \in t}

\* UPDATE books SET avail = 0 WHERE avail <= 1
LogicalDelete(t) == {IF r.avail <= Unverified THEN With(r, Deleted) ELSE r : r \in t}

\* DELETE FROM books WHERE avail <= 1
PhysicalDelete(t) == {r \in t : r.avail > Unverified}

\* DELETE FROM books WHERE id = ?
DeleteRow(t, i) == {r \in t : r.id # i}

(* DELETE FROM catalogs WHERE id NOT IN (catalogs of rows with avail > 0) ...: *)
(* deleting a catalog deletes the rows that reference it (ON DELETE CASCADE). *)
(* dir[b] is the catalog of b; no catalog here is the parent of another.      *)
PruneEmpty(t, dir) == {r \in t : \E s \in Live(t) : dir[s.file] = dir[r.file]}
=============================================================================
