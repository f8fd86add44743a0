------------------------- MODULE LibraryScan_proofs -------------------------
(* The statements of the library scanner on its table, that the scanner        *)
(* implements Catalogue, that a scan without errors leaves the listings equal  *)
(* to its walk, and that it inserts a book once: proofs, for every library,    *)
(* number of workers, capacity of the channel and size of a batch.             *)
EXTENDS LibraryScan, TLAPS, FiniteSetTheorems

USE DEF Deleted, Unverified, Confirmed

-----------------------------------------------------------------------------
(* The statements on the books table                                          *)

\* Every statement leaves a table of typed rows a table of typed rows.
LEMMA TableTypes ==
  ASSUME NEW I, NEW B, NEW t, t \subseteq RowType(I, B)
  PROVE  /\ \A a \in {Deleted, Unverified, Confirmed} : SetAvailAll(t, a) \subseteq RowType(I, B)
         /\ \A ids : ConfirmIds(t, ids) \subseteq RowType(I, B)
         /\ \A S : ConfirmAll(t, S) \subseteq RowType(I, B)
         /\ LogicalDelete(t) \subseteq RowType(I, B)
         /\ PhysicalDelete(t) \subseteq RowType(I, B)
         /\ \A dir : PruneEmpty(t, dir) \subseteq RowType(I, B)
         /\ \A i : DeleteRow(t, i) \subseteq RowType(I, B)
  <1>1. \A r \in t, a \in {Deleted, Unverified, Confirmed} : With(r, a) \in RowType(I, B)
    BY DEF With, RowType
  <1> QED BY <1>1
         DEF SetAvailAll, ConfirmIds, ConfirmAll, LogicalDelete, PhysicalDelete, PruneEmpty, DeleteRow

-----------------------------------------------------------------------------
(* Type correctness                                                           *)

\* The two ways a context starts and ends.
LEMMA DropTypes ==
  ASSUME TypeOK, DropContext,
         disk' \subseteq Occ, books' \subseteq RowType(RowId, Book), suppressed' \subseteq Book,
         upload' \in Occ \cup {NoOcc}, undo' \in BOOLEAN, removal' \in RowId \cup {NoRow}
  PROVE  TypeOK'
  <1>1. /\ queue' \in Seq(Book \cup {Finish}) /\ Len(queue') <= QueueCap
        /\ batch' \in Seq(Book) /\ Len(batch') <= BatchSize
    BY ConstantsAssumption DEF DropContext
  <1>2. index' \in [Book -> RowId \cup {NoRow}]
    BY DEF DropContext, NoIndex
  <1>3. /\ at' \in [Worker -> {"idle", "lookup", "find", "check", "build"}]
        /\ job' \in [Worker -> Occ \cup {NoOcc}]
        /\ \A w \in Worker : job'[w] = NoOcc <=> at'[w] = "idle"
    BY DEF DropContext
  <1> QED BY <1>1, <1>2, <1>3 DEF TypeOK, DropContext, Phases

LEMMA InitTypes == Init => TypeOK
  <1> SUFFICES ASSUME Init PROVE TypeOK
    OBVIOUS
  <1>1. /\ queue \in Seq(Book \cup {Finish}) /\ Len(queue) <= QueueCap
        /\ batch \in Seq(Book) /\ Len(batch) <= BatchSize
    BY ConstantsAssumption DEF Init
  <1>2. index \in [Book -> RowId \cup {NoRow}]
    BY DEF Init, NoIndex
  <1>3. /\ at \in [Worker -> {"idle", "lookup", "find", "check", "build"}]
        /\ job \in [Worker -> Occ \cup {NoOcc}]
        /\ \A w \in Worker : job[w] = NoOcc <=> at[w] = "idle"
    BY DEF Init
  <1> QED BY <1>1, <1>2, <1>3 DEF TypeOK, Init, Phases

LEMMA StepTypes == TypeOK /\ [Next]_vars => TypeOK'
  <1> SUFFICES ASSUME TypeOK, [Next]_vars PROVE TypeOK'
    OBVIOUS
  <1> USE ConstantsAssumption
  <1>1. CASE AcquireLock
    BY <1>1 DEF AcquireLock, TypeOK, Phases, env, work, pipe, seen
  <1>2. CASE Snapshot
    BY <1>2 DEF Snapshot, TypeOK, Phases, env, work, pipe, Live, RowType, RowsOf, Ids
  <1>3. CASE MarkUnverified
    BY <1>3, TableTypes DEF MarkUnverified, TypeOK, Phases, env, work, pipe, seen
  <1>4. CASE Walk
    BY <1>4 DEF Walk, TypeOK, Phases, env, work
  <1>5. CASE Abort
    BY <1>5, DropTypes DEF Abort, env, TypeOK
  <1>6. ASSUME NEW w \in Worker, Take(w) PROVE TypeOK'
    BY <1>6 DEF Take, TypeOK, Phases, env, pipe, seen
  <1>29. ASSUME NEW w \in Worker, SkipArchive(w) PROVE TypeOK'
    <2>1. PICK a \in Archive \ skipped :
            /\ books' = ConfirmAll(books, BooksIn(a))
            /\ todo' = todo \ {o \in walked : NameOf[o] \in BooksIn(a)}
            /\ exempt' = exempt \cup BooksIn(a)
            /\ skipped' = skipped \cup {a}
      BY <1>29 DEF SkipArchive
    <2>2. books' \subseteq RowType(RowId, Book)
      BY <2>1, TableTypes DEF TypeOK
    <2>3. exempt' \subseteq Book /\ todo' \subseteq walked /\ skipped' \subseteq Archive
      BY <2>1 DEF TypeOK, BooksIn
    <2> QED BY <1>29, <2>2, <2>3 DEF SkipArchive, TypeOK, env, work, pipe
  <1>30. ASSUME NEW w \in Worker, Panic(w) PROVE TypeOK'
    BY <1>30 DEF Panic, TypeOK, Phases, env, pipe, seen
  <1>7. ASSUME NEW w \in Worker, Lookup(w) PROVE TypeOK'
    <2> DEFINE i == index[NameOf[job[w]]]
    <2>1. NameOf[job[w]] \in Book
      BY <1>7 DEF Lookup, TypeOK
    <2>2. CASE i # NoRow /\ confirmed' = confirmed \cup {i} /\ Leave(w)
      BY <1>7, <2>1, <2>2 DEF Lookup, Leave, TypeOK, Phases, env, pipe, seen
    <2>3. CASE at' = [at EXCEPT ![w] = "find"] /\ UNCHANGED <<job, confirmed>>
      BY <1>7, <2>3 DEF Lookup, TypeOK, Phases, env, pipe, seen
    <2> QED BY <1>7, <2>2, <2>3 DEF Lookup
  <1>8. ASSUME NEW w \in Worker, FindRow(w) PROVE TypeOK'
    BY <1>8, SMTT(30) DEF FindRow, Leave, TypeOK, Phases, env, pipe, seen
  <1>9. ASSUME NEW w \in Worker, CheckSuppressed(w) PROVE TypeOK'
    <2> DEFINE b == NameOf[job[w]]
    <2>1. b \in Book
      BY <1>9 DEF CheckSuppressed, TypeOK
    <2>2. CASE Leave(w) /\ marked' = marked
      BY <1>9, <2>2 DEF CheckSuppressed, Leave, TypeOK, Phases, env, pipe, seen
    <2>3. CASE marked' = marked \cup {b} /\ at' = [at EXCEPT ![w] = "build"] /\ job' = job
      BY <1>9, <2>1, <2>3 DEF CheckSuppressed, TypeOK, Phases, env, pipe, seen
    <2> QED BY <1>9, <2>2, <2>3 DEF CheckSuppressed
  <1>10. ASSUME NEW w \in Worker, Enqueue(w) PROVE TypeOK'
    BY <1>10 DEF Enqueue, Leave, TypeOK, Phases, env, seen
  <1>11. ASSUME NEW w \in Worker, ChannelClosed(w) PROVE TypeOK'
    BY <1>11 DEF ChannelClosed, Leave, TypeOK, Phases, env, pipe, seen
  <1>12. ASSUME NEW w \in Worker, Abandon(w) PROVE TypeOK'
    BY <1>12 DEF Abandon, Leave, TypeOK, Phases, env, pipe, seen
  <1>13. CASE Receive
    <2>1. /\ Head(queue) \in Book \cup {Finish}
          /\ Tail(queue) \in Seq(Book \cup {Finish}) /\ Len(Tail(queue)) <= QueueCap
      BY <1>13 DEF Receive, TypeOK
    <2>2. CASE Head(queue) = Finish
      BY <1>13, <2>1, <2>2 DEF Receive, TypeOK, Phases, env, work, seen
    <2>3. CASE Head(queue) # Finish
      <3>1. batch' = Append(batch, Head(queue)) /\ Len(batch) < BatchSize
        BY <1>13, <2>3 DEF Receive
      <3>2. batch' \in Seq(Book) /\ Len(batch') = Len(batch) + 1
        BY <2>1, <2>3, <3>1 DEF TypeOK
      <3>3. Len(batch') <= BatchSize
        BY <3>1, <3>2 DEF TypeOK
      <3> QED BY <1>13, <2>1, <2>3, <3>2, <3>3 DEF Receive, TypeOK, Phases, env, work, seen
    <2> QED BY <2>2, <2>3
  <1>14. CASE Commit
    BY <1>14 DEF Commit, TypeOK, Phases, env, work, seen, Row, RowType, FreshIds, Injection, Range
  <1>15. CASE WriterFails
    BY <1>15 DEF WriterFails, TypeOK, Phases, env, work, seen
  <1>16. CASE SendFinish
    <2>1. queue' \in Seq(Book \cup {Finish}) /\ Len(queue') <= QueueCap /\ errors' \in BOOLEAN
      <3>1. CASE queue' = Append(queue, Finish) /\ errors' = errors /\ Len(queue) < QueueCap
        <4>1. queue' \in Seq(Book \cup {Finish}) /\ Len(queue') = Len(queue) + 1
          BY <3>1 DEF TypeOK
        <4> QED BY <3>1, <4>1 DEF TypeOK
      <3>2. CASE errors' = TRUE /\ queue' = queue
        BY <3>2 DEF TypeOK
      <3> QED BY <1>16, <3>1, <3>2 DEF SendFinish
    <2> QED BY <1>16, <2>1 DEF SendFinish, TypeOK, Phases, env, work, seen
  <1>17. CASE AwaitWriter
    BY <1>17 DEF AwaitWriter, TypeOK, Phases, env, work, seen, pipe
  <1>18. CASE ConfirmExisting
    BY <1>18, TableTypes DEF ConfirmExisting, TypeOK, Phases, env, work, seen, pipe
  <1>19. CASE DeleteUnavailable
    BY <1>19, TableTypes DEF DeleteUnavailable, TypeOK, Phases, env, work, seen, pipe
  <1>20. CASE PruneCatalogs
    BY <1>20, TableTypes DEF PruneCatalogs, TypeOK, Phases, env, work, seen, pipe
  <1>21. CASE ReleaseLock
    BY <1>21, DropTypes DEF ReleaseLock, env, TypeOK
  <1>22. CASE ChangeFiles
    BY <1>22 DEF ChangeFiles, TypeOK, Phases, work, seen, pipe
  <1>23. CASE UploadWrite
    BY <1>23 DEF UploadWrite, TypeOK, Phases, work, seen, pipe
  <1>24. CASE UploadInsert
    <2>1. NameOf[upload] \in Book
      BY <1>24 DEF UploadInsert, TypeOK
    <2>2. books' \subseteq RowType(RowId, Book) /\ exempt' \subseteq Book
      BY <1>24, <2>1 DEF UploadInsert, TypeOK, Row, RowType, FreshIds, Touch
    <2>3. upload' \in Occ \cup {NoOcc} /\ undo' \in BOOLEAN
      BY <1>24 DEF UploadInsert, TypeOK
    <2> QED BY <1>24, <2>2, <2>3 DEF UploadInsert, TypeOK, Phases, work, pipe
  <1>31. CASE UploadUndo
    BY <1>31 DEF UploadUndo, TypeOK, Phases, work, seen, pipe
  <1>25. CASE RemoveFile
    BY <1>25 DEF RemoveFile, TypeOK, Phases, work, seen, pipe, RowType
  <1>26. CASE RemoveRow
    BY <1>26, TableTypes DEF RemoveRow, TypeOK, Phases, work, pipe, RowType, DeleteRow
  <1>27. CASE Crash
    BY <1>27, DropTypes DEF Crash, TypeOK
  <1>28. CASE UNCHANGED vars
    BY <1>28 DEF vars, env, work, seen, pipe, TypeOK, Phases
  <1> QED
    BY <1>1, <1>2, <1>3, <1>4, <1>5, <1>6, <1>7, <1>8, <1>9, <1>10, <1>11, <1>12, <1>13, <1>14,
       <1>15, <1>16, <1>17, <1>18, <1>19, <1>20, <1>21, <1>22, <1>23, <1>24, <1>25, <1>26, <1>27,
       <1>28, <1>29, <1>30, <1>31
    DEF Next, ScanStep, MainStep, WriterStep, Failure, OutsideStep, WorkerStep

\* Every reachable state is well-typed; in particular the channel and the batch
\* never hold more than their capacities.
THEOREM TypeCorrect == Spec => []TypeOK
  BY InitTypes, StepTypes, PTL DEF Spec

-----------------------------------------------------------------------------
(* Rows the scan has seen stay listed                                         *)

\* What the statements leave of a row: nothing changes its id or its book, and
\* none of them but SetAvailAll makes a row Unverified.
LEMMA TableRows ==
  ASSUME NEW I, NEW B, NEW t, t \subseteq RowType(I, B)
  PROVE  /\ \A r \in SetAvailAll(t, Unverified) :
              \E s \in t : s.id = r.id /\ s.file = r.file /\ (s.avail = Deleted <=> r.avail = Deleted)
         /\ \A ids : \A r \in ConfirmIds(t, ids) :
              \E s \in t : /\ s.id = r.id /\ s.file = r.file
                           /\ s.avail = Deleted <=> r.avail = Deleted
                           /\ r.avail = Unverified => r.id \notin ids
         /\ \A r \in LogicalDelete(t) :
              \E s \in t : s.id = r.id /\ s.file = r.file /\ (r.avail # Deleted => r = s)
         /\ PhysicalDelete(t) \subseteq t
         /\ \A dir : PruneEmpty(t, dir) \subseteq t
         /\ \A i : DeleteRow(t, i) \subseteq t
  <1>1. \A r \in t, a \in {Deleted, Unverified, Confirmed} :
          /\ With(r, a).id = r.id /\ With(r, a).file = r.file /\ With(r, a).avail = a
    BY DEF With, RowType
  <1>2. \A r \in t : r.avail \in {Deleted, Unverified, Confirmed}
    BY DEF RowType
  <1>3. \A r \in SetAvailAll(t, Unverified) :
           \E s \in t : s.id = r.id /\ s.file = r.file /\ (s.avail = Deleted <=> r.avail = Deleted)
    BY <1>1, <1>2 DEF SetAvailAll
  <1>4. ASSUME NEW ids, NEW r \in ConfirmIds(t, ids)
        PROVE  \E s \in t : /\ s.id = r.id /\ s.file = r.file
                            /\ s.avail = Deleted <=> r.avail = Deleted
                            /\ r.avail = Unverified => r.id \notin ids
    <2>1. PICK s \in t : r = IF s.avail = Unverified /\ s.id \in ids THEN With(s, Confirmed) ELSE s
      BY <1>4 DEF ConfirmIds
    <2>2. CASE s.avail = Unverified /\ s.id \in ids
      <3>1. r = With(s, Confirmed)
        BY <2>1, <2>2
      <3>2. r.id = s.id /\ r.file = s.file /\ r.avail = Confirmed
        BY <1>1, <3>1
      <3> QED BY <2>2, <3>2
    <2>3. CASE ~(s.avail = Unverified /\ s.id \in ids)
      <3>1. r = s
        BY <2>1, <2>3
      <3> QED BY <2>3, <3>1
    <2> QED BY <2>2, <2>3
  <1>5. ASSUME NEW r \in LogicalDelete(t)
        PROVE  \E s \in t : s.id = r.id /\ s.file = r.file /\ (r.avail # Deleted => r = s)
    <2>1. PICK s \in t : r = IF s.avail <= Unverified THEN With(s, Deleted) ELSE s
      BY <1>5 DEF LogicalDelete
    <2> QED BY <1>1, <1>2, <2>1
  <1> QED
    BY <1>3, <1>4, <1>5 DEF PhysicalDelete, PruneEmpty, DeleteRow

\* A live row is still live after every statement but the deletions, and after the
\* deletions if it is Confirmed.
LEMMA LiveRows ==
  ASSUME NEW I, NEW B, NEW t, t \subseteq RowType(I, B), NEW r \in Live(t)
  PROVE  /\ r.id \in Ids(Live(SetAvailAll(t, Unverified)))
         /\ \A ids : r.id \in Ids(Live(ConfirmIds(t, ids)))
         /\ r.avail # Unverified => /\ r.id \in Ids(Live(LogicalDelete(t)))
                                    /\ r.id \in Ids(Live(PhysicalDelete(t)))
         /\ \A dir : r.id \in Ids(Live(PruneEmpty(t, dir)))
  <1>1. \A a \in {Deleted, Unverified, Confirmed} :
          With(r, a).id = r.id /\ With(r, a).avail = a
    BY DEF With, RowType, Live
  <1>2. r \in t /\ r.avail \in {Unverified, Confirmed} /\ r.avail > Deleted
    BY DEF RowType, Live
  <1>3. r.id \in Ids(Live(SetAvailAll(t, Unverified)))
    <2>1. With(r, Unverified) \in SetAvailAll(t, Unverified)
      BY <1>2 DEF SetAvailAll
    <2> QED BY <1>1, <2>1 DEF Live, Ids
  <1>4. ASSUME NEW ids PROVE r.id \in Ids(Live(ConfirmIds(t, ids)))
    <2>1. CASE r.avail = Unverified /\ r.id \in ids
      <3>1. With(r, Confirmed) \in ConfirmIds(t, ids)
        BY <1>2, <2>1 DEF ConfirmIds
      <3> QED BY <1>1, <3>1 DEF Live, Ids
    <2>2. CASE ~(r.avail = Unverified /\ r.id \in ids)
      <3>1. r \in ConfirmIds(t, ids)
        BY <1>2, <2>2 DEF ConfirmIds
      <3> QED BY <1>2, <3>1 DEF Live, Ids
    <2> QED BY <2>1, <2>2
  <1>5. ASSUME r.avail # Unverified
        PROVE  r.id \in Ids(Live(LogicalDelete(t))) /\ r.id \in Ids(Live(PhysicalDelete(t)))
    <2>1. r \in LogicalDelete(t) /\ r \in PhysicalDelete(t)
      BY <1>2, <1>5 DEF LogicalDelete, PhysicalDelete
    <2> QED BY <1>2, <2>1 DEF Live, Ids
  <1>6. ASSUME NEW dir PROVE r.id \in Ids(Live(PruneEmpty(t, dir)))
    <2>1. r \in PruneEmpty(t, dir)
      BY <1>2 DEF PruneEmpty
    <2> QED BY <1>2, <2>1 DEF Live, Ids
  <1> QED BY <1>3, <1>4, <1>5, <1>6

\* No statement makes two rows with one id of rows with different ids.
LEMMA TableUnique ==
  ASSUME NEW I, NEW B, NEW t, t \subseteq RowType(I, B),
         UniqueIds(t)
  PROVE  /\ UniqueIds(SetAvailAll(t, Unverified))
         /\ \A ids : UniqueIds(ConfirmIds(t, ids))
         /\ UniqueIds(LogicalDelete(t))
         /\ UniqueIds(PhysicalDelete(t))
         /\ \A dir : UniqueIds(PruneEmpty(t, dir))
         /\ \A i : UniqueIds(DeleteRow(t, i))
  <1> USE DEF UniqueIds
  <1>1. \A r \in t, a \in {Deleted, Unverified, Confirmed} : With(r, a).id = r.id
    BY DEF With, RowType
  <1>2. \A r, s \in SetAvailAll(t, Unverified) : r.id = s.id => r = s
    <2> SUFFICES ASSUME NEW r \in SetAvailAll(t, Unverified), NEW s \in SetAvailAll(t, Unverified),
                        r.id = s.id
                 PROVE  r = s
      OBVIOUS
    <2>1. PICK x \in t : r = IF x.avail > Deleted THEN With(x, Unverified) ELSE x
      BY DEF SetAvailAll
    <2>2. PICK y \in t : s = IF y.avail > Deleted THEN With(y, Unverified) ELSE y
      BY DEF SetAvailAll
    <2>3. r.id = x.id /\ s.id = y.id
      BY <1>1, <2>1, <2>2
    <2>4. x = y
      BY <2>3
    <2> QED BY <2>1, <2>2, <2>4
  <1>3. ASSUME NEW ids, NEW r \in ConfirmIds(t, ids), NEW s \in ConfirmIds(t, ids), r.id = s.id
        PROVE  r = s
    <2>1. PICK x \in t : r = IF x.avail = Unverified /\ x.id \in ids THEN With(x, Confirmed) ELSE x
      BY <1>3 DEF ConfirmIds
    <2>2. PICK y \in t : s = IF y.avail = Unverified /\ y.id \in ids THEN With(y, Confirmed) ELSE y
      BY <1>3 DEF ConfirmIds
    <2>3. r.id = x.id /\ s.id = y.id
      BY <1>1, <2>1, <2>2
    <2>4. x = y
      BY <1>3, <2>3
    <2> QED BY <2>1, <2>2, <2>4
  <1>4. \A r, s \in LogicalDelete(t) : r.id = s.id => r = s
    <2> SUFFICES ASSUME NEW r \in LogicalDelete(t), NEW s \in LogicalDelete(t), r.id = s.id
                 PROVE  r = s
      OBVIOUS
    <2>1. PICK x \in t : r = IF x.avail <= Unverified THEN With(x, Deleted) ELSE x
      BY DEF LogicalDelete
    <2>2. PICK y \in t : s = IF y.avail <= Unverified THEN With(y, Deleted) ELSE y
      BY DEF LogicalDelete
    <2>3. r.id = x.id /\ s.id = y.id
      BY <1>1, <2>1, <2>2
    <2>4. x = y
      BY <2>3
    <2> QED BY <2>1, <2>2, <2>4
  <1>5. /\ PhysicalDelete(t) \subseteq t
        /\ \A dir : PruneEmpty(t, dir) \subseteq t
        /\ \A i : DeleteRow(t, i) \subseteq t
    BY DEF PhysicalDelete, PruneEmpty, DeleteRow
  <1> QED BY <1>2, <1>3, <1>4, <1>5

\* Both facts for the table of the scan.
LEMMA BooksUnique ==
  ASSUME ScanInv
  PROVE  /\ UniqueIds(SetAvailAll(books, Unverified))
         /\ \A ids : UniqueIds(ConfirmIds(books, ids))
         /\ UniqueIds(LogicalDelete(books))
         /\ UniqueIds(PhysicalDelete(books))
         /\ \A dir : UniqueIds(PruneEmpty(books, dir))
  BY TableUnique DEF ScanInv, TypeOK

LEMMA BooksConfirmed ==
  ASSUME TypeOK
  PROVE  \A ids : \A r \in ConfirmIds(books, ids) : r.avail = Unverified => r.id \notin ids
  <1>1. books \subseteq RowType(RowId, Book)
    BY DEF TypeOK
  <1>2. \A ids : \A r \in ConfirmIds(books, ids) :
           \E s \in books : /\ s.id = r.id /\ s.file = r.file
                            /\ s.avail = Deleted <=> r.avail = Deleted
                            /\ r.avail = Unverified => r.id \notin ids
    <2> HIDE DEF Deleted, Unverified, Confirmed
    <2> QED BY <1>1, TableRows, Zenon
  <1> QED BY <1>2

\* What the confirmation of ids leaves of a row.
LEMMA ConfirmedRows ==
  ASSUME NEW I, NEW B, NEW t, t \subseteq RowType(I, B), NEW ids
  PROVE  /\ \A r \in ConfirmIds(t, ids) :
              \E s \in t : /\ s.id = r.id /\ s.file = r.file
                           /\ r = s \/ (s.avail = Unverified /\ s.id \in ids /\ r.avail = Confirmed)
         /\ \A s \in t : \E r \in ConfirmIds(t, ids) : r.id = s.id /\ r.file = s.file
  <1>1. \A s \in t : /\ With(s, Confirmed).id = s.id /\ With(s, Confirmed).file = s.file
                     /\ With(s, Confirmed).avail = Confirmed
    BY DEF With, RowType
  <1>2. ASSUME NEW r \in ConfirmIds(t, ids)
        PROVE  \E s \in t : /\ s.id = r.id /\ s.file = r.file
                            /\ r = s \/ (s.avail = Unverified /\ s.id \in ids /\ r.avail = Confirmed)
    <2>1. PICK s \in t : r = IF s.avail = Unverified /\ s.id \in ids THEN With(s, Confirmed) ELSE s
      BY DEF ConfirmIds
    <2> QED BY <1>1, <2>1
  <1>3. ASSUME NEW s \in t
        PROVE  \E r \in ConfirmIds(t, ids) : r.id = s.id /\ r.file = s.file
    <2>1. (IF s.avail = Unverified /\ s.id \in ids THEN With(s, Confirmed) ELSE s) \in ConfirmIds(t, ids)
      BY DEF ConfirmIds
    <2> QED BY <1>1, <2>1
  <1> QED BY <1>2, <1>3

\* What the skip of an archive leaves of a row: its own are Confirmed.
LEMMA SkippedRows ==
  ASSUME TypeOK, NEW S
  PROVE  /\ \A r \in ConfirmAll(books, S) :
              \E s \in books : /\ s.id = r.id /\ s.file = r.file
                               /\ IF s.file \in S THEN r.avail = Confirmed ELSE r = s
         /\ \A s \in books :
              \E r \in ConfirmAll(books, S) : /\ s.id = r.id /\ s.file = r.file
                                              /\ IF s.file \in S THEN r.avail = Confirmed ELSE r = s
         /\ UniqueIds(books) => UniqueIds(ConfirmAll(books, S))
  <1>1. \A s \in books : /\ With(s, Confirmed).id = s.id /\ With(s, Confirmed).file = s.file
                         /\ With(s, Confirmed).avail = Confirmed
    BY DEF With, RowType, TypeOK
  <1>2. ASSUME NEW r \in ConfirmAll(books, S)
        PROVE  \E s \in books : /\ s.id = r.id /\ s.file = r.file
                                /\ IF s.file \in S THEN r.avail = Confirmed ELSE r = s
    <2>1. PICK s \in books : r = IF s.file \in S THEN With(s, Confirmed) ELSE s
      BY DEF ConfirmAll
    <2> QED BY <1>1, <2>1
  <1>3. ASSUME NEW s \in books
        PROVE  \E r \in ConfirmAll(books, S) : /\ s.id = r.id /\ s.file = r.file
                                               /\ IF s.file \in S THEN r.avail = Confirmed ELSE r = s
    <2>1. (IF s.file \in S THEN With(s, Confirmed) ELSE s) \in ConfirmAll(books, S)
      BY DEF ConfirmAll
    <2> QED BY <1>1, <2>1
  <1>4. ASSUME UniqueIds(books),
               NEW r \in ConfirmAll(books, S), NEW s \in ConfirmAll(books, S), r.id = s.id
        PROVE  r = s
    <2>1. PICK x \in books : r = IF x.file \in S THEN With(x, Confirmed) ELSE x
      BY <1>4 DEF ConfirmAll
    <2>2. PICK y \in books : s = IF y.file \in S THEN With(y, Confirmed) ELSE y
      BY <1>4 DEF ConfirmAll
    <2>3. r.id = x.id /\ s.id = y.id
      BY <1>1, <2>1, <2>2
    <2>4. x = y
      BY <1>4, <2>3 DEF UniqueIds
    <2> QED BY <2>1, <2>2, <2>4
  <1> QED BY <1>2, <1>3, <1>4 DEF UniqueIds

-----------------------------------------------------------------------------
(* The invariant                                                              *)

LEMMA InitInv == Init => ScanInv
  BY InitTypes DEF Init, ScanInv, UniqueIds, WorkersRest, VouchedRows, Vouched, Accounted,
                   SeenRowsConfirmed

\* A step that leaves the table, the scan's index and walk, and the confirmed ids
\* alone, and neither leaves nor enters the phases the invariant speaks about.
LEMMA QuietStep ==
  ASSUME ScanInv, TypeOK',
         UNCHANGED <<books, phase, index, walked, todo, at, job, confirmed, skipped>>,
         errors => errors'
  PROVE  ScanInv'
  BY DEF ScanInv, UniqueIds, WorkersRest, VouchedRows, Vouched, Accounted, ToLookUp,
         SeenRowsConfirmed, Names, TypeOK

\* The context is gone.
LEMMA DropInv ==
  ASSUME ScanInv, TypeOK', DropContext, UNCHANGED books
  PROVE  ScanInv'
  BY DEF DropContext, ScanInv, UniqueIds, WorkersRest, VouchedRows, Vouched, Accounted,
         SeenRowsConfirmed

\* A worker that was past the lookup leaves its occurrence or goes on with it.
LEMMA PastLookup ==
  ASSUME ScanInv, TypeOK', NEW w \in Worker, at[w] \notin {"idle", "lookup"},
         UNCHANGED <<books, phase, index, walked, todo, confirmed, skipped>>,
         \/ Leave(w)
         \/ /\ \E s \in {"check", "build"} : at' = [at EXCEPT ![w] = s]
            /\ job' = job,
         errors => errors'
  PROVE  ScanInv'
  <1>1. phase = "work"
    BY DEF ScanInv, WorkersRest
  <1>2. \A o : ToLookUp(o) => ToLookUp(o)'
    BY DEF ToLookUp, Leave, ScanInv, TypeOK
  <1> QED BY <1>1, <1>2 DEF ScanInv, UniqueIds, WorkersRest, VouchedRows, Vouched, Accounted,
                           SeenRowsConfirmed, TypeOK

\* A step that vouches for no other archive and leaves their rows Confirmed.
LEMMA KeepVouched ==
  ASSUME ScanInv, UNCHANGED skipped,
         \A r \in books' : \/ r.avail = Confirmed
                           \/ \E s \in books : s.file = r.file /\ (s.avail = Confirmed => r.avail = Confirmed),
         phase' \in {"idle", "snapshot", "mark", "walk"} => phase \in {"idle", "snapshot", "mark", "walk"}
  PROVE  VouchedRows'
  BY DEF ScanInv, VouchedRows, Vouched

LEMMA StepInv == ScanInv /\ [Next]_vars => ScanInv'
  <1> SUFFICES ASSUME ScanInv, [Next]_vars PROVE ScanInv'
    OBVIOUS
  <1> USE ConstantsAssumption
  <1>0. TypeOK /\ TypeOK'
    BY StepTypes DEF ScanInv
  <1>1. CASE AcquireLock
    BY <1>0, <1>1, KeepVouched
    DEF AcquireLock, ScanInv, UniqueIds, WorkersRest, Accounted, SeenRowsConfirmed, work
  <1>2. CASE Snapshot
    BY <1>0, <1>2, KeepVouched
    DEF Snapshot, ScanInv, UniqueIds, WorkersRest, Accounted, SeenRowsConfirmed, work
  <1>3. CASE MarkUnverified
    <2>1. UniqueIds(books')
      BY <1>3, BooksUnique DEF MarkUnverified
    <2>2. VouchedRows'
      BY <1>3 DEF MarkUnverified, ScanInv, VouchedRows, Vouched
    <2> QED
      BY <1>0, <1>3, <2>1, <2>2
      DEF MarkUnverified, ScanInv, WorkersRest, Accounted, SeenRowsConfirmed, work
  <1>4. CASE Walk
    BY <1>0, <1>4, KeepVouched
    DEF Walk, ScanInv, UniqueIds, WorkersRest, Accounted, ToLookUp, SeenRowsConfirmed
  <1>5. CASE Abort
    BY <1>0, <1>5, DropInv DEF Abort
  <1>6. ASSUME NEW w \in Worker, Take(w) PROVE ScanInv'
    <2>1. phase = "work" /\ UNCHANGED <<books, phase, index, walked, confirmed, errors, skipped>>
      BY <1>6 DEF Take, seen
    <2>2. PICK o \in todo : todo' = todo \ {o} /\ job' = [job EXCEPT ![w] = o]
      BY <1>6 DEF Take
    <2>3. at[w] = "idle" /\ at' = [at EXCEPT ![w] = "lookup"]
      BY <1>6 DEF Take
    <2>4. \A x : ToLookUp(x) => ToLookUp(x)'
      BY <1>0, <2>2, <2>3 DEF ToLookUp, TypeOK
    <2> QED
      BY <1>0, <2>1, <2>4 DEF ScanInv, UniqueIds, WorkersRest, VouchedRows, Vouched, Accounted,
                              SeenRowsConfirmed
  <1>29. ASSUME NEW w \in Worker, SkipArchive(w) PROVE ScanInv'
    <2>1. PICK a \in Archive \ skipped :
            /\ books' = ConfirmAll(books, BooksIn(a))
            /\ todo' = todo \ {o \in walked : NameOf[o] \in BooksIn(a)}
            /\ skipped' = skipped \cup {a}
      BY <1>29 DEF SkipArchive
    <2>2. phase = "work" /\ UNCHANGED <<phase, index, walked, at, job, confirmed, errors>>
      BY <1>29 DEF SkipArchive, work
    <2>3. /\ \A r \in books' :
               \E s \in books : /\ s.id = r.id /\ s.file = r.file
                                /\ IF s.file \in BooksIn(a) THEN r.avail = Confirmed ELSE r = s
          /\ UniqueIds(books')
      BY <2>1, SkippedRows DEF ScanInv
    <2>4. \A b : b \in Vouched' <=> b \in Vouched \/ b \in BooksIn(a)
      BY <2>1 DEF Vouched
    <2>5. VouchedRows'
      BY <2>2, <2>3, <2>4 DEF ScanInv, VouchedRows
    <2>6. \A o \in walked : ToLookUp(o) => ToLookUp(o)' \/ NameOf[o] \in BooksIn(a)
      BY <2>1, <2>2 DEF ToLookUp
    <2> QED
      BY <1>0, <2>2, <2>3, <2>4, <2>5, <2>6 DEF ScanInv, WorkersRest, Accounted, SeenRowsConfirmed
  <1>30. ASSUME NEW w \in Worker, Panic(w) PROVE ScanInv'
    <2>1. /\ phase' = "stuck" /\ todo' = {} /\ \A v \in Worker : at'[v] = "idle"
          /\ UNCHANGED <<books, skipped>>
      BY <1>30 DEF Panic
    <2>2. VouchedRows'
      BY <2>1, KeepVouched
    <2> QED
      BY <1>0, <2>1, <2>2 DEF ScanInv, UniqueIds, WorkersRest, Accounted, SeenRowsConfirmed
  <1>7. ASSUME NEW w \in Worker, Lookup(w) PROVE ScanInv'
    <2> DEFINE i == index[NameOf[job[w]]]
    <2>1. phase = "work" /\ UNCHANGED <<books, phase, index, walked, todo, errors, skipped>>
      BY <1>7 DEF Lookup, ScanInv, WorkersRest, seen
    <2>2. confirmed \subseteq confirmed' /\ i \in {NoRow} \cup confirmed'
      BY <1>7 DEF Lookup
    <2>3. \A x : ToLookUp(x) => x = job[w] \/ ToLookUp(x)'
      BY <1>0, <1>7 DEF Lookup, Leave, ToLookUp, TypeOK
    <2> QED
      BY <1>0, <2>1, <2>2, <2>3 DEF ScanInv, UniqueIds, WorkersRest, VouchedRows, Vouched, Accounted,
                                    SeenRowsConfirmed
  <1>8. ASSUME NEW w \in Worker, FindRow(w) PROVE ScanInv'
    BY <1>0, <1>8, PastLookup DEF FindRow, seen
  <1>9. ASSUME NEW w \in Worker, CheckSuppressed(w) PROVE ScanInv'
    BY <1>0, <1>9, PastLookup DEF CheckSuppressed, seen
  <1>10. ASSUME NEW w \in Worker, Enqueue(w) PROVE ScanInv'
    BY <1>0, <1>10, PastLookup DEF Enqueue, seen
  <1>11. ASSUME NEW w \in Worker, ChannelClosed(w) PROVE ScanInv'
    BY <1>0, <1>11, PastLookup DEF ChannelClosed, seen
  <1>12. ASSUME NEW w \in Worker, Abandon(w) PROVE ScanInv'
    <2>1. phase = "work" /\ errors' /\ UNCHANGED <<books, phase, todo, skipped>>
      BY <1>12 DEF Abandon, ScanInv, WorkersRest
    <2>2. VouchedRows'
      BY <2>1, KeepVouched
    <2> QED
      BY <1>0, <2>1, <2>2 DEF ScanInv, UniqueIds, WorkersRest, Accounted, SeenRowsConfirmed
  <1>13. CASE Receive
    BY <1>0, <1>13, QuietStep DEF Receive, work, seen
  <1>14. CASE Commit
    <2>1. PICK ids \in Injection(DOMAIN batch, FreshIds) :
            books' = books \cup {Row(ids[k], batch[k], Confirmed) : k \in DOMAIN batch}
      BY <1>14 DEF Commit
    <2>2. \A k \in DOMAIN batch : ids[k] \in FreshIds
      BY <2>1 DEF Injection
    <2>3. \A k, l \in DOMAIN batch : ids[k] = ids[l] => k = l
      BY <2>1 DEF Injection, IsInjective
    <2>4. \A r \in books' : \/ r \in books
                            \/ \E k \in DOMAIN batch : r = Row(ids[k], batch[k], Confirmed)
      BY <2>1
    <2>5. UniqueIds(books')
      BY <2>2, <2>3, <2>4 DEF UniqueIds, ScanInv, FreshIds, Ids, Row
    <2>6. UNCHANGED <<phase, index, walked, todo, at, job, confirmed, errors, skipped>>
      BY <1>14 DEF Commit, seen, work
    <2>7. SeenRowsConfirmed'
      BY <2>4, <2>6 DEF SeenRowsConfirmed, ScanInv, Names, Row
    <2>8. VouchedRows'
      BY <2>4, <2>6, KeepVouched DEF Row
    <2> QED BY <1>0, <2>5, <2>6, <2>7, <2>8 DEF ScanInv, WorkersRest, Accounted, Vouched, ToLookUp
  <1>15. CASE WriterFails
    BY <1>0, <1>15, QuietStep DEF WriterFails, work, seen
  <1>16. CASE SendFinish
    <2>1. /\ phase = "work" /\ phase' = "drain" /\ (errors => errors')
          /\ UNCHANGED <<books, index, walked, todo, at, job, confirmed, skipped>>
      BY <1>16 DEF SendFinish, work, seen
    <2>2. VouchedRows'
      BY <2>1, KeepVouched
    <2>3. todo = {} /\ \A w \in Worker : at[w] = "idle"
      BY <1>16 DEF SendFinish
    <2> QED
      BY <1>0, <2>1, <2>2, <2>3
      DEF ScanInv, UniqueIds, WorkersRest, Vouched, Accounted, ToLookUp, SeenRowsConfirmed, TypeOK
  <1>17. CASE AwaitWriter
    BY <1>0, <1>17, KeepVouched
    DEF AwaitWriter, work, seen, ScanInv, UniqueIds, WorkersRest, Vouched, Accounted, ToLookUp,
        SeenRowsConfirmed, TypeOK
  <1>18. CASE ConfirmExisting
    <2>1. UNCHANGED <<index, walked, todo, at, job, confirmed, errors, skipped>>
      BY <1>18 DEF ConfirmExisting, seen, work
    <2>5. \A r \in books' : \E s \in books :
            /\ s.id = r.id /\ s.file = r.file
            /\ r = s \/ (s.avail = Unverified /\ s.id \in confirmed /\ r.avail = Confirmed)
      <3>1. books \subseteq RowType(RowId, Book) /\ books' = ConfirmIds(books, confirmed)
        BY <1>0, <1>18 DEF ConfirmExisting, TypeOK
      <3> HIDE DEF Deleted, Unverified, Confirmed
      <3> QED BY <3>1, ConfirmedRows
    <2>6. VouchedRows'
      BY <1>18, <2>1, <2>5, KeepVouched DEF ConfirmExisting
    <2>2. UniqueIds(books')
      BY <1>18, BooksUnique DEF ConfirmExisting
    <2>3. ASSUME ~errors, NEW r \in books', r.file \in Names(walked), index[r.file] = r.id
          PROVE  r.avail # Unverified
      <3>1. r.avail = Unverified => r.id \notin confirmed
        BY <1>0, <1>18, <2>3, BooksConfirmed DEF ConfirmExisting
      <3>2. PICK o \in walked : r.file = NameOf[o]
        BY <2>3 DEF Names
      <3>3. ~ToLookUp(o)
        BY <1>18 DEF ConfirmExisting, ScanInv, WorkersRest, ToLookUp
      <3>4. index[r.file] \in {NoRow} \cup confirmed \/ r.file \in Vouched
        BY <1>18, <2>3, <3>2, <3>3 DEF ConfirmExisting, ScanInv, Accounted
      <3>5. r.id \in RowId
        BY <1>0, <2>3 DEF TypeOK, RowType
      <3>6. r.file \in Vouched => r.avail = Confirmed
        BY <2>1, <2>6 DEF VouchedRows, Vouched
      <3> QED BY <2>3, <3>1, <3>4, <3>5, <3>6
    <2>4. phase' = "delete" /\ WorkersRest'
      BY <1>18, <2>1 DEF ConfirmExisting, ScanInv, WorkersRest
    <2> QED
      BY <1>0, <2>1, <2>2, <2>3, <2>4, <2>6 DEF ScanInv, Accounted, SeenRowsConfirmed, Names
  <1>19. CASE DeleteUnavailable
    <2>1. UniqueIds(books')
      BY <1>19, BooksUnique DEF DeleteUnavailable, ScanInv
    <2>2. \A r \in books' : \E s \in books :
            s.file = r.file /\ (s.avail = Confirmed => r.avail = Confirmed)
      <3>1. /\ \A r \in LogicalDelete(books) :
                 \E s \in books : s.file = r.file /\ (s.avail = Confirmed => r.avail = Confirmed)
            /\ PhysicalDelete(books) \subseteq books
        BY <1>0 DEF LogicalDelete, PhysicalDelete, With, RowType, TypeOK
      <3> QED BY <1>19, <3>1 DEF DeleteUnavailable
    <2>3. VouchedRows'
      BY <1>19, <2>2, KeepVouched DEF DeleteUnavailable
    <2> QED
      BY <1>0, <1>19, <2>1, <2>3 DEF DeleteUnavailable, work, ScanInv, WorkersRest, Accounted, SeenRowsConfirmed
  <1>20. CASE PruneCatalogs
    <2>1. UniqueIds(books')
      BY <1>20, BooksUnique DEF PruneCatalogs
    <2>2. VouchedRows'
      BY <1>20, KeepVouched DEF PruneCatalogs, PruneEmpty
    <2> QED
      BY <1>0, <1>20, <2>1, <2>2 DEF PruneCatalogs, work, ScanInv, WorkersRest, Accounted, SeenRowsConfirmed
  <1>21. CASE ReleaseLock
    BY <1>0, <1>21, DropInv DEF ReleaseLock
  <1>22. CASE ChangeFiles
    BY <1>0, <1>22, QuietStep DEF ChangeFiles, work, seen
  <1>23. CASE UploadWrite
    BY <1>0, <1>23, QuietStep DEF UploadWrite, work, seen
  <1>31. CASE UploadUndo
    BY <1>0, <1>31, QuietStep DEF UploadUndo, work, seen
  <1>24. CASE UploadInsert
    <2>1. UNCHANGED <<phase, index, walked, todo, at, job, confirmed, errors, skipped>>
      BY <1>24 DEF UploadInsert, work
    <2>2. CASE books' = books
      BY <1>0, <2>1, <2>2, QuietStep
    <2>3. ASSUME NEW i \in FreshIds, books' = books \cup {Row(i, NameOf[upload], Confirmed)}
          PROVE  ScanInv'
      <3>1. \A r \in books' : r \in books \/ r = Row(i, NameOf[upload], Confirmed)
        BY <2>3
      <3>2. UniqueIds(books')
        BY <2>3, <3>1 DEF UniqueIds, ScanInv, FreshIds, Ids, Row
      <3>3. SeenRowsConfirmed'
        BY <2>1, <3>1 DEF SeenRowsConfirmed, ScanInv, Names, Row
      <3>4. VouchedRows'
        BY <2>1, <3>1, KeepVouched DEF Row
      <3> QED BY <1>0, <2>1, <3>2, <3>3, <3>4 DEF ScanInv, WorkersRest, Accounted, Vouched, ToLookUp
    <2> QED BY <1>24, <2>2, <2>3 DEF UploadInsert
  <1>25. CASE RemoveFile
    BY <1>0, <1>25, QuietStep DEF RemoveFile, work, seen
  <1>26. CASE RemoveRow
    <2>1. UNCHANGED <<phase, index, walked, todo, at, job, confirmed, errors, skipped>>
      BY <1>26 DEF RemoveRow, work
    <2>2. books' \subseteq books
      BY <1>26 DEF RemoveRow, DeleteRow
    <2>3. VouchedRows'
      BY <2>1, <2>2, KeepVouched
    <2> QED
      BY <1>0, <2>1, <2>2, <2>3
      DEF ScanInv, UniqueIds, WorkersRest, Accounted, Vouched, ToLookUp, SeenRowsConfirmed, Names
  <1>27. CASE Crash
    BY <1>0, <1>27, DropInv DEF Crash
  <1>28. CASE UNCHANGED vars
    BY <1>0, <1>28, QuietStep DEF vars, work, seen
  <1> QED
    BY <1>1, <1>2, <1>3, <1>4, <1>5, <1>6, <1>7, <1>8, <1>9, <1>10, <1>11, <1>12, <1>13, <1>14,
       <1>15, <1>16, <1>17, <1>18, <1>19, <1>20, <1>21, <1>22, <1>23, <1>24, <1>25, <1>26, <1>27,
       <1>28, <1>29, <1>30, <1>31
    DEF Next, ScanStep, MainStep, WriterStep, Failure, OutsideStep, WorkerStep

\* The bookkeeping of a scan: while it has counted no error, every occurrence it
\* walked is still to be looked up or its row is among the confirmed ids.
THEOREM BookkeepingCorrect == Spec => []ScanInv
  BY InitInv, StepInv, PTL DEF Spec

-----------------------------------------------------------------------------
(* What a step does to the rows                                               *)

\* A step of Next that is no statement on the table, or only adds rows to it.
LEMMA TableSteps ==
  ASSUME ScanInv, [Next]_vars
  PROVE  \/ books \subseteq books' /\ \A r \in books' \ books : r.id \in FreshIds
         \/ MarkUnverified \/ ConfirmExisting \/ DeleteUnavailable \/ PruneCatalogs \/ RemoveRow
         \/ \E w \in Worker : SkipArchive(w)
  <1>1. ASSUME Commit PROVE books \subseteq books' /\ \A r \in books' \ books : r.id \in FreshIds
    BY <1>1 DEF Commit, Injection, Row
  <1>2. ASSUME UploadInsert
        PROVE  books \subseteq books' /\ \A r \in books' \ books : r.id \in FreshIds
    BY <1>2 DEF UploadInsert, Row
  <1> QED
    BY <1>1, <1>2
    DEF Next, ScanStep, MainStep, WriterStep, Failure, OutsideStep, WorkerStep, vars, env,
        AcquireLock, Snapshot, Walk, Abort, Take, Lookup, FindRow, CheckSuppressed, Enqueue,
        ChannelClosed, Abandon, Panic, Receive, WriterFails, SendFinish, AwaitWriter, ReleaseLock,
        ChangeFiles, UploadWrite, UploadUndo, RemoveFile, Crash

\* A live row that the scan indexed and whose book it walked stays live.
LEMMA StepSeen ==
  ASSUME ScanInv, [Next]_vars,
         NEW r \in Live(books), r.file \in Names(walked), index[r.file] = r.id
  PROVE  r.id \in Ids(Live(books')) \/ removal = r.id
  <1>1. books \subseteq RowType(RowId, Book) /\ r \in books
    BY DEF ScanInv, TypeOK, Live
  <1>2. /\ r.id \in Ids(Live(SetAvailAll(books, Unverified)))
        /\ \A ids : r.id \in Ids(Live(ConfirmIds(books, ids)))
        /\ r.avail # Unverified => /\ r.id \in Ids(Live(LogicalDelete(books)))
                                   /\ r.id \in Ids(Live(PhysicalDelete(books)))
        /\ \A dir : r.id \in Ids(Live(PruneEmpty(books, dir)))
    BY <1>1, LiveRows
  <1>3. CASE books \subseteq books'
    BY <1>3 DEF Live, Ids
  <1>4. CASE MarkUnverified
    BY <1>2, <1>4 DEF MarkUnverified
  <1>5. CASE ConfirmExisting
    BY <1>2, <1>5 DEF ConfirmExisting
  <1>6. CASE DeleteUnavailable
    <2>1. CASE errors
      BY <1>6, <2>1 DEF DeleteUnavailable, Ids
    <2>2. CASE ~errors
      <3>1. r.avail # Unverified
        BY <1>1, <1>6, <2>2 DEF DeleteUnavailable, ScanInv, SeenRowsConfirmed
      <3> QED BY <1>2, <1>6, <2>2, <3>1 DEF DeleteUnavailable
    <2> QED BY <2>1, <2>2
  <1>7. CASE PruneCatalogs
    BY <1>2, <1>7 DEF PruneCatalogs
  <1>8. CASE RemoveRow
    <2>1. CASE removal # r.id
      <3>1. r \in books'
        BY <1>1, <1>8, <2>1 DEF RemoveRow, DeleteRow
      <3> QED BY <3>1 DEF Live, Ids
    <2> QED BY <2>1
  <1>9. ASSUME NEW w \in Worker, SkipArchive(w) PROVE r.id \in Ids(Live(books'))
    <2>1. PICK S : books' = ConfirmAll(books, S)
      BY <1>9 DEF SkipArchive
    <2>2. \A x \in books : \E s \in books' : /\ x.id = s.id /\ x.file = s.file
                                             /\ IF x.file \in S THEN s.avail = Confirmed ELSE s = x
      BY <2>1, SkippedRows DEF ScanInv
    <2>3. PICK s \in books' : r.id = s.id /\ (s.avail = Confirmed \/ s = r)
      BY <1>1, <2>2
    <2> QED BY <2>3 DEF Live, Ids
  <1> QED BY <1>3, <1>4, <1>5, <1>6, <1>7, <1>8, <1>9, TableSteps

\* Whatever fails during a scan, and whatever happens beside it, no row of a book
\* that its walk found disappears from the listings, unless an administrator
\* deletes it.
THEOREM SeenRowsSafe == Spec => SeenRowsStayListed
  <1>1. ScanInv /\ [Next]_vars =>
          [\A r \in Live(books) :
             r.file \in Names(walked) /\ index[r.file] = r.id
               => r.id \in Ids(Live(books')) \/ removal = r.id]_vars
    BY StepSeen
  <1> QED BY <1>1, BookkeepingCorrect, PTL DEF Spec, SeenRowsStayListed

\* A deleted row is live after a step only if the archive of its book was skipped.
LEMMA StepDeleted ==
  ASSUME ScanInv, [Next]_vars, NEW r \in books \ Live(books), r.id \in Ids(Live(books'))
  PROVE  \E a \in skipped' \ skipped : r.file \in BooksIn(a)
  <1>0. PICK s \in books' : s.avail > Deleted /\ s.id = r.id
    BY DEF Live, Ids
  <1>1. /\ books \subseteq RowType(RowId, Book)
        /\ r \in books /\ r.avail = Deleted
    BY DEF ScanInv, TypeOK, Live, RowType
  <1>2. \A x \in books : x.id = r.id => x.avail = Deleted
    BY <1>1 DEF ScanInv, UniqueIds
  <1>3. CASE books \subseteq books' /\ \A x \in books' \ books : x.id \in FreshIds
    BY <1>0, <1>1, <1>2, <1>3 DEF FreshIds, Ids
  <1>4. ASSUME \E x \in books : x.id = s.id /\ (s.avail # Deleted => x.avail # Deleted)
        PROVE  FALSE
    BY <1>0, <1>2, <1>4
  <1>5. CASE MarkUnverified
    <2>1. PICK x \in books : s = IF x.avail > Deleted THEN With(x, Unverified) ELSE x
      BY <1>5 DEF MarkUnverified, SetAvailAll
    <2>2. s.id = x.id
      BY <1>1, <2>1 DEF With, RowType
    <2>3. x.avail = Deleted
      BY <1>0, <1>2, <2>2
    <2> QED BY <1>0, <2>1, <2>3
  <1>6. CASE ConfirmExisting
    <2>1. \A ids : \A y \in ConfirmIds(books, ids) :
            \E x \in books : /\ x.id = y.id /\ x.file = y.file
                             /\ x.avail = Deleted <=> y.avail = Deleted
                             /\ y.avail = Unverified => y.id \notin ids
      BY <1>1, TableRows
    <2> QED BY <1>4, <1>6, <2>1 DEF ConfirmExisting
  <1>7. CASE DeleteUnavailable
    <2>1. \A y \in LogicalDelete(books) :
            \E x \in books : x.id = y.id /\ x.file = y.file /\ (y.avail # Deleted => y = x)
      BY <1>1, TableRows
    <2>2. PhysicalDelete(books) \subseteq books
      BY DEF PhysicalDelete
    <2> QED BY <1>4, <1>7, <2>1, <2>2 DEF DeleteUnavailable
  <1>8. CASE PruneCatalogs \/ RemoveRow
    <2>1. books' \subseteq books
      BY <1>8 DEF PruneCatalogs, RemoveRow, PruneEmpty, DeleteRow
    <2> QED BY <1>4, <2>1
  <1>9. ASSUME NEW w \in Worker, SkipArchive(w)
        PROVE  \E a \in skipped' \ skipped : r.file \in BooksIn(a)
    <2>1. PICK a \in Archive \ skipped :
            books' = ConfirmAll(books, BooksIn(a)) /\ skipped' = skipped \cup {a}
      BY <1>9 DEF SkipArchive
    <2>4. \A y \in books' : \E x \in books :
            /\ x.id = y.id /\ x.file = y.file
            /\ IF x.file \in BooksIn(a) THEN y.avail = Confirmed ELSE y = x
      BY <2>1, SkippedRows DEF ScanInv
    <2>2. PICK x \in books : /\ x.id = s.id /\ x.file = s.file
                            /\ (x.file \in BooksIn(a) \/ s = x)
      BY <1>0, <2>4
    <2>3. x = r
      BY <1>0, <1>1, <2>2 DEF ScanInv, UniqueIds
    <2> QED BY <1>0, <1>1, <2>1, <2>2, <2>3
  <1> QED BY <1>3, <1>5, <1>6, <1>7, <1>8, <1>9, TableSteps

\* Nothing the scan or an upload does lists a logically deleted row again but the
\* skip of an archive, and that only the rows of its books.
THEOREM OnlySkipsRelistSafe == Spec => OnlySkipsRelist
  <1>1. ScanInv /\ [Next]_vars =>
          [\A r \in books \ Live(books) :
             r.id \in Ids(Live(books')) => \E a \in skipped' \ skipped : r.file \in BooksIn(a)]_vars
    BY StepDeleted
  <1> QED BY <1>1, BookkeepingCorrect, PTL DEF Spec, OnlySkipsRelist

-----------------------------------------------------------------------------
(* What the pipeline holds comes from this scan's walk and index              *)

USE DEF NoIndex

LEMMA InitPipe == Init => PipeInv
  BY DEF Init, PipeInv

\* The context is gone, whatever becomes of the rest.
LEMMA DropPipe == DropContext => PipeInv'
  BY DEF DropContext, PipeInv

\* A step that neither changes the walk, the index and the phase nor adds to what
\* the pipeline holds.
LEMMA QuietPipe ==
  ASSUME PipeInv, UNCHANGED <<index, walked, phase, at, job, confirmed, queue, batch, writer>>
  PROVE  PipeInv'
  BY DEF PipeInv, NewToScan, Names

\* A worker that leaves its occurrence, or goes on with it as new to the scan.
LEMMA WorkerPipe ==
  ASSUME TypeOK, PipeInv, NEW w \in Worker, phase = "work",
         UNCHANGED <<index, walked, phase, queue, batch, writer>>,
         confirmed' \subseteq confirmed \cup ({index[b] : b \in Names(walked)} \ {NoRow}),
         \/ Leave(w)
         \/ /\ \E s \in {"find", "check", "build"} : at' = [at EXCEPT ![w] = s]
            /\ job' = job /\ index[NameOf[job[w]]] = NoRow
  PROVE  PipeInv'
  <1>1. \A v \in Worker :
          /\ job'[v] # NoOcc => job'[v] \in walked
          /\ at'[v] \in {"find", "check", "build"} => index[NameOf[job'[v]]] = NoRow
    BY DEF PipeInv, TypeOK, Leave
  <1> QED BY <1>1 DEF PipeInv, NewToScan, Names

LEMMA StepPipe == ScanInv /\ PipeInv /\ [Next]_vars => PipeInv'
  <1> SUFFICES ASSUME ScanInv, PipeInv, [Next]_vars PROVE PipeInv'
    OBVIOUS
  <1> USE ConstantsAssumption
  <1>0. TypeOK /\ WorkersRest
    BY DEF ScanInv
  <1>1. CASE AcquireLock
    BY <1>1 DEF AcquireLock, PipeInv, NewToScan, Names, seen, work, pipe
  <1>2. CASE Snapshot
    <2>1. \A w \in Worker : at[w] = "idle" /\ job[w] = NoOcc
      BY <1>0, <1>2 DEF Snapshot, WorkersRest, TypeOK
    <2> QED BY <1>2, <2>1 DEF Snapshot, PipeInv, work, pipe
  <1>3. CASE MarkUnverified
    BY <1>3 DEF MarkUnverified, PipeInv, NewToScan, Names, seen, work, pipe
  <1>4. CASE Walk
    <2>1. \A w \in Worker : at[w] = "idle" /\ job[w] = NoOcc
      BY <1>0, <1>4 DEF Walk, WorkersRest, TypeOK
    <2> QED BY <1>4, <2>1 DEF Walk, PipeInv, work
  <1>5. CASE Abort
    BY <1>5, DropPipe DEF Abort
  <1>6. ASSUME NEW w \in Worker, Take(w) PROVE PipeInv'
    <2>1. PICK o \in todo : job' = [job EXCEPT ![w] = o]
      BY <1>6 DEF Take
    <2>2. at' = [at EXCEPT ![w] = "lookup"]
      BY <1>6 DEF Take
    <2>3. \A v \in Worker :
            /\ job'[v] # NoOcc => job'[v] \in walked
            /\ at'[v] \in {"find", "check", "build"} => index[NameOf[job'[v]]] = NoRow
      BY <1>0, <2>1, <2>2 DEF TypeOK, PipeInv
    <2> QED BY <1>6, <2>3 DEF Take, PipeInv, NewToScan, Names, seen, pipe
  <1>21. ASSUME NEW w \in Worker, SkipArchive(w) PROVE PipeInv'
    <2>1. UNCHANGED <<index, walked, phase, at, job, confirmed, queue, batch, writer>>
      BY <1>21 DEF SkipArchive, work, pipe
    <2> QED BY <2>1, QuietPipe
  <1>22. ASSUME NEW w \in Worker, Panic(w) PROVE PipeInv'
    BY <1>22 DEF Panic, PipeInv, NewToScan, Names, seen, pipe
  <1>7. ASSUME NEW w \in Worker, Lookup(w) PROVE PipeInv'
    <2> DEFINE i == index[NameOf[job[w]]]
    <2>1. phase = "work" /\ UNCHANGED <<index, walked, phase, queue, batch, writer>>
      BY <1>0, <1>7 DEF Lookup, WorkersRest, seen, pipe
    <2>2. CASE i # NoRow /\ confirmed' = confirmed \cup {i} /\ Leave(w)
      <3>1. NameOf[job[w]] \in Names(walked)
        BY <1>0, <1>7 DEF Lookup, PipeInv, TypeOK, Names
      <3>2. confirmed' \subseteq confirmed \cup ({index[b] : b \in Names(walked)} \ {NoRow})
        BY <2>2, <3>1
      <3> QED BY <1>0, <2>1, <2>2, <3>2, WorkerPipe
    <2>3. CASE i = NoRow /\ at' = [at EXCEPT ![w] = "find"] /\ UNCHANGED <<job, confirmed>>
      BY <1>0, <2>1, <2>3, WorkerPipe
    <2> QED BY <1>7, <2>2, <2>3 DEF Lookup
  <1>8. ASSUME NEW w \in Worker,
               FindRow(w) \/ CheckSuppressed(w) \/ ChannelClosed(w) \/ Abandon(w)
        PROVE  PipeInv'
    <2>1. phase = "work"
      BY <1>0, <1>8 DEF FindRow, CheckSuppressed, ChannelClosed, Abandon, WorkersRest
    <2>2. UNCHANGED <<index, walked, phase, queue, batch, writer, confirmed>>
      BY <1>8 DEF FindRow, CheckSuppressed, ChannelClosed, Abandon, seen, pipe
    <2>3. \/ Leave(w)
          \/ /\ \E s \in {"find", "check", "build"} : at' = [at EXCEPT ![w] = s]
             /\ job' = job /\ index[NameOf[job[w]]] = NoRow
      BY <1>8 DEF FindRow, CheckSuppressed, ChannelClosed, Abandon, PipeInv
    <2> QED BY <1>0, <2>1, <2>2, <2>3, WorkerPipe
  <1>9. ASSUME NEW w \in Worker, Enqueue(w) PROVE PipeInv'
    <2>1. NewToScan(NameOf[job[w]])
      BY <1>0, <1>9 DEF Enqueue, PipeInv, TypeOK, NewToScan, Names
    <2>2. \A v \in Worker :
            /\ job'[v] # NoOcc => job'[v] \in walked
            /\ at'[v] \in {"find", "check", "build"} => index[NameOf[job'[v]]] = NoRow
      BY <1>0, <1>9 DEF Enqueue, Leave, TypeOK, PipeInv
    <2>3. \A k \in DOMAIN queue' : queue'[k] = Finish \/ NewToScan(queue'[k])
      <3>1. queue \in Seq(Book \cup {Finish}) /\ queue' = Append(queue, NameOf[job[w]])
        BY <1>0, <1>9 DEF Enqueue, TypeOK
      <3>2. /\ DOMAIN queue' = 1..Len(queue) + 1 /\ DOMAIN queue = 1..Len(queue)
            /\ Len(queue) \in Nat
            /\ \A k \in 1..Len(queue) : queue'[k] = queue[k]
            /\ queue'[Len(queue) + 1] = NameOf[job[w]]
        BY <3>1
      <3> QED BY <2>1, <3>2 DEF PipeInv
    <2>4. phase = "work" /\ UNCHANGED <<index, walked, phase, batch, writer, confirmed>>
      BY <1>0, <1>9 DEF Enqueue, WorkersRest, seen
    <2>5. \A b : NewToScan(b) => NewToScan(b)'
      BY <2>4 DEF NewToScan, Names
    <2> QED BY <2>2, <2>3, <2>4, <2>5 DEF PipeInv, Names
  <1>10. CASE Receive
    <2>1. UNCHANGED <<index, walked, phase, at, job, confirmed>>
      BY <1>10 DEF Receive, seen, work
    <2>2. /\ queue \in Seq(Book \cup {Finish}) /\ queue # <<>> /\ batch \in Seq(Book)
          /\ queue' = Tail(queue)
      BY <1>0, <1>10 DEF Receive, TypeOK
    <2>3. /\ \A k \in DOMAIN queue' : k + 1 \in DOMAIN queue /\ queue'[k] = queue[k + 1]
          /\ 1 \in DOMAIN queue /\ Head(queue) = queue[1]
      BY <2>2
    <2>4. \A k \in DOMAIN queue' : queue'[k] = Finish \/ NewToScan(queue'[k])
      BY <2>3 DEF PipeInv
    <2>5. \A k \in DOMAIN batch' : NewToScan(batch'[k])
      <3>1. CASE batch' = batch
        BY <3>1 DEF PipeInv
      <3>2. CASE batch' = Append(batch, Head(queue)) /\ Head(queue) # Finish
        <4>1. NewToScan(Head(queue))
          BY <2>3, <3>2 DEF PipeInv
        <4>2. /\ DOMAIN batch' = 1..Len(batch) + 1 /\ DOMAIN batch = 1..Len(batch)
              /\ Len(batch) \in Nat
              /\ \A k \in 1..Len(batch) : batch'[k] = batch[k]
              /\ batch'[Len(batch) + 1] = Head(queue)
          BY <2>2, <3>2
        <4> QED BY <4>1, <4>2 DEF PipeInv
      <3> QED BY <1>10, <3>1, <3>2 DEF Receive
    <2>6. phase \in {"work", "stuck", "drain"}
      BY <1>10 DEF Receive, PipeInv
    <2>7. \A b : NewToScan(b) => NewToScan(b)'
      BY <2>1 DEF NewToScan, Names
    <2> QED BY <2>1, <2>4, <2>5, <2>6, <2>7 DEF PipeInv, Names
  <1>11. CASE Commit
    BY <1>11 DEF Commit, PipeInv, NewToScan, Names, seen, work
  <1>12. CASE WriterFails
    BY <1>12 DEF WriterFails, PipeInv, NewToScan, Names, seen, work
  <1>13. CASE SendFinish
    <2>1. UNCHANGED <<index, walked, at, job, confirmed, batch, writer>> /\ phase' = "drain"
      BY <1>13 DEF SendFinish, seen, work
    <2>2. \A k \in DOMAIN queue' : queue'[k] = Finish \/ NewToScan(queue'[k])
      <3>1. CASE queue' = queue
        BY <3>1 DEF PipeInv
      <3>2. CASE queue' = Append(queue, Finish)
        <4>1. /\ DOMAIN queue' = 1..Len(queue) + 1 /\ DOMAIN queue = 1..Len(queue)
              /\ Len(queue) \in Nat
              /\ \A k \in 1..Len(queue) : queue'[k] = queue[k]
              /\ queue'[Len(queue) + 1] = Finish
          BY <1>0, <3>2 DEF TypeOK
        <4> QED BY <4>1 DEF PipeInv
      <3> QED BY <1>13, <3>1, <3>2 DEF SendFinish
    <2>3. \A b : NewToScan(b) => NewToScan(b)'
      BY <2>1 DEF NewToScan, Names
    <2> QED BY <2>1, <2>2, <2>3 DEF PipeInv, Names
  <1>14. CASE AwaitWriter
    BY <1>14 DEF AwaitWriter, PipeInv, NewToScan, Names, seen, work, pipe
  <1>15. CASE ConfirmExisting
    BY <1>15 DEF ConfirmExisting, PipeInv, NewToScan, Names, seen, work, pipe
  <1>16. CASE DeleteUnavailable
    BY <1>16 DEF DeleteUnavailable, PipeInv, NewToScan, Names, seen, work, pipe
  <1>17. CASE PruneCatalogs
    BY <1>17 DEF PruneCatalogs, PipeInv, NewToScan, Names, seen, work, pipe
  <1>18. CASE ReleaseLock \/ Crash
    BY <1>18, DropPipe DEF ReleaseLock, Crash
  <1>19. CASE ChangeFiles \/ UploadWrite \/ UploadInsert \/ UploadUndo \/ RemoveFile \/ RemoveRow
    BY <1>19, QuietPipe
    DEF ChangeFiles, UploadWrite, UploadInsert, UploadUndo, RemoveFile, RemoveRow, seen, work, pipe
  <1>20. CASE UNCHANGED vars
    BY <1>20, QuietPipe DEF vars, seen, work, pipe
  <1> QED
    BY <1>1, <1>2, <1>3, <1>4, <1>5, <1>6, <1>7, <1>8, <1>9, <1>10, <1>11, <1>12, <1>13, <1>14,
       <1>15, <1>16, <1>17, <1>18, <1>19, <1>20, <1>21, <1>22
    DEF Next, ScanStep, MainStep, WriterStep, Failure, OutsideStep, WorkerStep

LEMMA PipelineHolds == Spec => []PipeInv
  <1>1. Init => PipeInv
    BY InitPipe
  <1>2. ScanInv /\ PipeInv /\ [Next]_vars => PipeInv'
    BY StepPipe
  <1> QED BY <1>1, <1>2, BookkeepingCorrect, PTL DEF Spec

-----------------------------------------------------------------------------
(* The invariants                                                              *)

\* A book that is marked as pending is in one place: with one worker, once in the
\* channel, once in the batch, or inserted.
OnePlace ==
  /\ \A v, w \in Worker :
       at[v] = "build" /\ at[w] = "build" /\ NameOf[job[v]] = NameOf[job[w]] => v = w
  /\ \A i, j \in DOMAIN queue : queue[i] # Finish /\ queue[i] = queue[j] => i = j
  /\ \A i, j \in DOMAIN batch : batch[i] = batch[j] => i = j
  /\ \A w \in Worker : at[w] = "build" =>
       /\ NameOf[job[w]] \in marked \ added
       /\ \A i \in DOMAIN queue : queue[i] # NameOf[job[w]]
       /\ \A i \in DOMAIN batch : batch[i] # NameOf[job[w]]
  /\ \A i \in DOMAIN queue : queue[i] # Finish =>
       /\ queue[i] \in marked \ added
       /\ \A j \in DOMAIN batch : batch[j] # queue[i]
  /\ \A i \in DOMAIN batch : batch[i] \in marked \ added
  /\ added \subseteq marked

\* Finish is the last message; the writer that has met it has read everything.
WriterInv ==
  /\ \A i \in DOMAIN queue : queue[i] = Finish => i = Len(queue) /\ phase = "drain"
  /\ writer \in {"flush", "done", "failed"} => queue = <<>>
  /\ writer = "done" => batch = <<>>
  /\ phase = "confirm" /\ ~errors => writer = "done"

\* The rows between the snapshot and the end of the scan, of the books that nobody
\* else changes.
Active == phase \notin {"idle", "snapshot"}

NewRow(r) == r.file \notin exempt /\ index[r.file] = NoRow
OldRow(r) == r.file \notin exempt /\ index[r.file] # NoRow

\* The indexed id of a book is an id of that book.
IndexNamesBook == Active => \A b \in Book : \A r \in books : r.id = index[b] => r.file = b

\* A row whose book the index does not have was inserted by this scan, and is the
\* only one of its book.
NewRowsAreAdded ==
  Active => /\ \A r \in books : NewRow(r) => r.avail = Confirmed /\ r.file \in added
            /\ \A r, s \in books : NewRow(r) /\ r.file = s.file => r = s

\* What the scan inserts was walked and is not in its index.
MarkedAreNew ==
  /\ \A b \in marked : NewToScan(b)
  /\ phase \in {"idle", "snapshot", "mark", "walk"} => marked = {} /\ added = {}

\* The other rows are doubted until the confirmation; after it a confirmed one is the
\* indexed one of a walked book, and after the deletion nothing else is listed.
DoubtedRows ==
  \A r \in books : OldRow(r) =>
    /\ phase \in {"mark", "walk", "work", "drain", "confirm", "delete"} => r.avail # Deleted
    /\ phase \in {"walk", "work", "drain", "confirm"} => r.avail = Unverified
    /\ phase = "delete" /\ ~errors /\ r.avail = Confirmed
         => r.id = index[r.file] /\ r.file \in Names(walked)
    /\ phase \in {"prune", "counters"} /\ ~errors /\ r.avail # Deleted
         => r.id = index[r.file] /\ r.file \in Names(walked)

\* An indexed row stays, and stays listed if its book was walked.
IndexedRowsStay ==
  \A b \in Book \ exempt : index[b] # NoRow =>
    /\ phase \in {"mark", "walk", "work", "drain", "confirm", "delete"}
         => \E r \in books : r.id = index[b]
    /\ phase \in {"prune", "counters"} /\ ~errors /\ b \in Names(walked)
         => \E r \in books : r.id = index[b] /\ r.avail # Deleted

RowsInv ==
  IndexNamesBook /\ NewRowsAreAdded /\ MarkedAreNew /\ DoubtedRows /\ IndexedRowsStay

\* A walked book that is not in the index is still to be examined, on its way to the
\* table, in it, or none of the scan's business, as long as no error was counted.
Held(b) ==
  \/ \E w \in Worker : at[w] = "build" /\ NameOf[job[w]] = b
  \/ \E i \in DOMAIN queue : queue[i] = b
  \/ \E i \in DOMAIN batch : batch[i] = b

Met(b) == b \in suppressed \cup exempt \/ \E r \in books : r.file = b

Examined(o) == ToLookUp(o) \/ \E w \in Worker : at[w] \in {"find", "check"} /\ job[w] = o

FlowInv ==
  /\ phase \in {"work", "drain", "confirm"} /\ ~errors /\ writer # "failed" =>
       /\ \A o \in walked : \/ index[NameOf[o]] # NoRow \/ Examined(o)
                            \/ Held(NameOf[o]) \/ Met(NameOf[o])
       /\ \A b \in marked : Held(b) \/ Met(b)
  /\ phase \in {"delete", "prune", "counters"} /\ ~errors =>
       \A b \in Names(walked) : index[b] # NoRow \/ Met(b)

-----------------------------------------------------------------------------
(* One place                                                                   *)

\* A step after which no worker, channel or batch holds what it did not hold.
LEMMA FewerPlaces ==
  ASSUME OnePlace,
         \A w \in Worker : at'[w] = "build" => at[w] = "build" /\ job'[w] = job[w],
         queue' = queue \/ queue' = <<>>,
         batch' = batch \/ batch' = <<>>,
         UNCHANGED <<marked, added>>
  PROVE  OnePlace'
  BY DEF OnePlace

\* The same, said of the worker that makes the step.
LEMMA OtherWorkers ==
  ASSUME TypeOK, NEW w \in Worker,
         \/ Leave(w)
         \/ \E s \in {"lookup", "find", "check"} : \E o :
              at' = [at EXCEPT ![w] = s] /\ job' = [job EXCEPT ![w] = o]
         \/ \E s \in {"lookup", "find", "check"} : at' = [at EXCEPT ![w] = s] /\ job' = job
  PROVE  \A v \in Worker : at'[v] = "build" => at[v] = "build" /\ job'[v] = job[v]
  BY DEF TypeOK, Leave

LEMMA StepPlace == TypeOK /\ OnePlace /\ [Next]_vars => OnePlace'
  <1> SUFFICES ASSUME TypeOK, OnePlace, [Next]_vars PROVE OnePlace'
    OBVIOUS
  <1> USE ConstantsAssumption
  <1>1. ASSUME UNCHANGED <<at, job, queue, batch, marked, added>> PROVE OnePlace'
    BY <1>1, FewerPlaces
  <1>2. ASSUME DropContext PROVE OnePlace'
    BY <1>2 DEF DropContext, OnePlace
  <1>3. ASSUME NEW w \in Worker,
               Take(w) \/ Lookup(w) \/ FindRow(w) \/ ChannelClosed(w) \/ Abandon(w)
        PROVE  OnePlace'
    <2>1. UNCHANGED <<queue, batch, marked, added>>
      BY <1>3 DEF Take, Lookup, FindRow, ChannelClosed, Abandon, pipe
    <2>2. \/ Leave(w)
          \/ \E s \in {"lookup", "find", "check"} : \E o :
               at' = [at EXCEPT ![w] = s] /\ job' = [job EXCEPT ![w] = o]
          \/ \E s \in {"lookup", "find", "check"} : at' = [at EXCEPT ![w] = s] /\ job' = job
      BY <1>3 DEF Take, Lookup, FindRow, ChannelClosed, Abandon
    <2>3. \A v \in Worker : at'[v] = "build" => at[v] = "build" /\ job'[v] = job[v]
      BY <2>2, OtherWorkers
    <2> QED BY <2>1, <2>3, FewerPlaces
  <1>4. ASSUME NEW w \in Worker, CheckSuppressed(w) PROVE OnePlace'
    <2> DEFINE b == NameOf[job[w]]
    <2>1. UNCHANGED <<queue, batch, added>>
      BY <1>4 DEF CheckSuppressed, pipe
    <2>2. CASE Leave(w) /\ marked' = marked
      <3>1. \A v \in Worker : at'[v] = "build" => at[v] = "build" /\ job'[v] = job[v]
        BY <2>2, OtherWorkers
      <3> QED BY <2>1, <2>2, <3>1, FewerPlaces
    <2>3. CASE b \notin marked /\ marked' = marked \cup {b} /\ job' = job
               /\ at' = [at EXCEPT ![w] = "build"]
      <3>1. \A v \in Worker : at'[v] = "build" => v = w \/ at[v] = "build"
        BY <2>3 DEF TypeOK
      <3>2. /\ \A v \in Worker : at[v] = "build" => NameOf[job[v]] # b
            /\ \A i \in DOMAIN queue : queue[i] # Finish => queue[i] # b
            /\ \A i \in DOMAIN batch : batch[i] # b
            /\ b \notin added
        BY <2>3 DEF OnePlace
      <3>3. b # Finish
        BY <1>4 DEF CheckSuppressed, TypeOK
      <3> QED BY <2>1, <2>3, <3>1, <3>2, <3>3 DEF OnePlace
    <2> QED BY <1>4, <2>2, <2>3 DEF CheckSuppressed
  <1>5. ASSUME NEW w \in Worker, Enqueue(w) PROVE OnePlace'
    <2> DEFINE b == NameOf[job[w]]
    <2>1. UNCHANGED <<batch, marked, added>>
      BY <1>5 DEF Enqueue
    <2>2. \A v \in Worker : at'[v] = "build" => v # w /\ at[v] = "build" /\ job'[v] = job[v]
      BY <1>5 DEF Enqueue, Leave, TypeOK
    <2>3. /\ queue \in Seq(Book \cup {Finish}) /\ queue' = Append(queue, b)
          /\ b \in Book
      BY <1>5 DEF Enqueue, TypeOK
    <2>4. /\ DOMAIN queue' = 1 .. Len(queue) + 1 /\ DOMAIN queue = 1 .. Len(queue)
          /\ Len(queue) \in Nat
          /\ \A i \in DOMAIN queue : queue'[i] = queue[i]
          /\ queue'[Len(queue) + 1] = b
      BY <2>3
    <2>5. at[w] = "build"
      BY <1>5 DEF Enqueue
    <2>6. /\ b \in marked \ added
          /\ \A i \in DOMAIN queue : queue[i] # b
          /\ \A i \in DOMAIN batch : batch[i] # b
          /\ \A v \in Worker : at[v] = "build" /\ v # w => NameOf[job[v]] # b
      BY <2>5 DEF OnePlace
    <2>7. \A i \in DOMAIN queue' : i \in DOMAIN queue \/ i = Len(queue) + 1
      BY <2>4
    <2>8. \A i, j \in DOMAIN queue' : queue'[i] # Finish /\ queue'[i] = queue'[j] => i = j
      BY <2>4, <2>6, <2>7 DEF OnePlace
    <2>9. \A i \in DOMAIN queue' : queue'[i] # Finish =>
            /\ queue'[i] \in marked \ added
            /\ \A j \in DOMAIN batch : batch[j] # queue'[i]
      BY <2>4, <2>6, <2>7 DEF OnePlace
    <2>10. \A v \in Worker : at'[v] = "build" =>
             /\ NameOf[job'[v]] \in marked \ added
             /\ \A i \in DOMAIN queue' : queue'[i] # NameOf[job'[v]]
             /\ \A i \in DOMAIN batch : batch[i] # NameOf[job'[v]]
      BY <2>2, <2>4, <2>6, <2>7 DEF OnePlace
    <2>11. \A u, v \in Worker :
             at'[u] = "build" /\ at'[v] = "build" /\ NameOf[job'[u]] = NameOf[job'[v]] => u = v
      BY <2>2 DEF OnePlace
    <2> QED BY <2>1, <2>8, <2>9, <2>10, <2>11 DEF OnePlace
  <1>6. CASE Receive
    <2>1. UNCHANGED <<at, job, marked, added>>
      BY <1>6 DEF Receive, work
    <2>2. /\ queue \in Seq(Book \cup {Finish}) /\ queue # <<>> /\ queue' = Tail(queue)
          /\ batch \in Seq(Book)
      BY <1>6 DEF Receive, TypeOK
    <2>3. /\ \A i \in DOMAIN queue' : i + 1 \in DOMAIN queue /\ queue'[i] = queue[i + 1] /\ i + 1 # 1
          /\ \A i \in DOMAIN queue' : i \in Nat
          /\ 1 \in DOMAIN queue /\ Head(queue) = queue[1]
      BY <2>2
    <2>4. \A i, j \in DOMAIN queue' : queue'[i] # Finish /\ queue'[i] = queue'[j] => i = j
      <3> SUFFICES ASSUME NEW i \in DOMAIN queue', NEW j \in DOMAIN queue',
                          queue'[i] # Finish, queue'[i] = queue'[j]
                   PROVE  i = j
        OBVIOUS
      <3>1. i + 1 = j + 1
        BY <2>3 DEF OnePlace
      <3> QED BY <2>3, <3>1
    <2>5. CASE batch' = batch
      BY <2>1, <2>3, <2>4, <2>5 DEF OnePlace
    <2>6. CASE Head(queue) # Finish /\ batch' = Append(batch, Head(queue))
      <3> DEFINE b == queue[1]
      <3>1. /\ DOMAIN batch' = 1 .. Len(batch) + 1 /\ DOMAIN batch = 1 .. Len(batch)
            /\ Len(batch) \in Nat
            /\ \A i \in DOMAIN batch : batch'[i] = batch[i]
            /\ batch'[Len(batch) + 1] = b
        BY <2>2, <2>3, <2>6
      <3>2. /\ b \in marked \ added
            /\ \A i \in DOMAIN batch : batch[i] # b
            /\ \A i \in DOMAIN queue' : queue'[i] # b
            /\ \A w \in Worker : at[w] = "build" => NameOf[job[w]] # b
        BY <2>3, <2>6 DEF OnePlace
      <3>3. \A i \in DOMAIN batch' : i \in DOMAIN batch \/ i = Len(batch) + 1
        BY <3>1
      <3>4. \A i, j \in DOMAIN batch' : batch'[i] = batch'[j] => i = j
        BY <3>1, <3>2, <3>3 DEF OnePlace
      <3>5. \A i \in DOMAIN batch' : batch'[i] \in marked \ added
        BY <3>1, <3>2, <3>3 DEF OnePlace
      <3>6. \A i \in DOMAIN queue' : queue'[i] # Finish =>
              /\ queue'[i] \in marked \ added
              /\ \A j \in DOMAIN batch' : batch'[j] # queue'[i]
        BY <2>3, <3>1, <3>2, <3>3 DEF OnePlace
      <3>7. \A w \in Worker : at[w] = "build" =>
              /\ NameOf[job[w]] \in marked \ added
              /\ \A i \in DOMAIN queue' : queue'[i] # NameOf[job[w]]
              /\ \A i \in DOMAIN batch' : batch'[i] # NameOf[job[w]]
        BY <2>3, <3>1, <3>2, <3>3 DEF OnePlace
      <3> QED BY <2>1, <2>4, <3>4, <3>5, <3>6, <3>7 DEF OnePlace
    <2> QED BY <1>6, <2>5, <2>6 DEF Receive
  <1>7. CASE Commit
    <2>1. UNCHANGED <<at, job, queue, marked>> /\ batch' = <<>>
      BY <1>7 DEF Commit, work
    <2>2. \A b \in added' : b \in added \/ \E i \in DOMAIN batch : b = batch[i]
      BY <1>7 DEF Commit, Range
    <2> QED BY <2>1, <2>2 DEF OnePlace
  <1>8. CASE WriterFails
    <2>1. /\ UNCHANGED <<at, job, marked, added>>
          /\ queue' = <<>> /\ batch' = <<>>
      BY <1>8 DEF WriterFails, work
    <2> QED BY <2>1, FewerPlaces
  <1>9. CASE SendFinish
    <2>1. UNCHANGED <<at, job, batch, marked, added>>
      BY <1>9 DEF SendFinish, work
    <2>2. CASE queue' = queue
      BY <2>1, <2>2, FewerPlaces
    <2>3. CASE queue' = Append(queue, Finish)
      <3>1. /\ DOMAIN queue' = 1 .. Len(queue) + 1 /\ DOMAIN queue = 1 .. Len(queue)
            /\ Len(queue) \in Nat
            /\ \A i \in DOMAIN queue : queue'[i] = queue[i]
            /\ queue'[Len(queue) + 1] = Finish
        BY <2>3 DEF TypeOK
      <3>2. \A i \in DOMAIN queue' : queue'[i] # Finish => i \in DOMAIN queue
        BY <3>1
      <3>3. \A w \in Worker : at[w] = "build" => NameOf[job[w]] # Finish
        BY DEF TypeOK
      <3>4. \A i \in DOMAIN queue' : queue'[i] = Finish \/ (i \in DOMAIN queue /\ queue'[i] = queue[i])
        BY <3>1, <3>2
      <3>5. \A i, j \in DOMAIN queue' : queue'[i] # Finish /\ queue'[i] = queue'[j] => i = j
        BY <3>4 DEF OnePlace
      <3>6. \A w \in Worker : at[w] = "build" => \A i \in DOMAIN queue' : queue'[i] # NameOf[job[w]]
        BY <3>3, <3>4 DEF OnePlace
      <3>7. \A i \in DOMAIN queue' : queue'[i] # Finish =>
              /\ queue'[i] \in marked \ added
              /\ \A j \in DOMAIN batch : batch[j] # queue'[i]
        BY <3>4 DEF OnePlace
      <3> QED BY <2>1, <3>5, <3>6, <3>7 DEF OnePlace
    <2> QED BY <1>9, <2>2, <2>3 DEF SendFinish
  <1>10. CASE Abort \/ ReleaseLock \/ Crash
    BY <1>2, <1>10 DEF Abort, ReleaseLock, Crash
  <1>11. CASE \/ AcquireLock \/ Snapshot \/ MarkUnverified \/ Walk \/ AwaitWriter \/ ConfirmExisting
              \/ DeleteUnavailable \/ PruneCatalogs \/ ChangeFiles \/ UploadWrite \/ UploadInsert
              \/ UploadUndo \/ RemoveFile \/ RemoveRow \/ UNCHANGED vars
              \/ \E w \in Worker : SkipArchive(w)
    <2>1. UNCHANGED <<at, job, queue, batch, marked, added>>
      BY <1>11 DEF AcquireLock, Snapshot, MarkUnverified, Walk, AwaitWriter, ConfirmExisting,
                   DeleteUnavailable, PruneCatalogs, ChangeFiles, UploadWrite, UploadInsert,
                   UploadUndo, RemoveFile, RemoveRow, SkipArchive, vars, work, pipe
    <2> QED BY <1>1, <2>1
  <1>12. ASSUME NEW w \in Worker, Panic(w) PROVE OnePlace'
    <2>1. UNCHANGED <<queue, batch, marked, added>> /\ \A v \in Worker : at'[v] = "idle"
      BY <1>12 DEF Panic, pipe
    <2> QED BY <2>1, FewerPlaces
  <1> QED
    BY <1>3, <1>4, <1>5, <1>6, <1>7, <1>8, <1>9, <1>10, <1>11, <1>12
    DEF Next, ScanStep, MainStep, WriterStep, Failure, OutsideStep, WorkerStep

LEMMA PlacesHold == Spec => []OnePlace
  <1>1. Init => OnePlace
    BY DEF Init, OnePlace
  <1> QED BY <1>1, StepPlace, TypeCorrect, PTL DEF Spec

\* What is in at most one place is counted at most once.
LEMMA AtMostOne ==
  ASSUME NEW S, \A x, y \in S : x = y
  PROVE  Cardinality(S) = IF S = {} THEN 0 ELSE 1
  <1>1. CASE S = {}
    BY <1>1, FS_EmptySet
  <1>2. CASE S # {}
    <2>1. PICK x \in S : TRUE
      BY <1>2
    <2>2. S = {x}
      BY <2>1
    <2> QED BY <1>2, <2>2, FS_Singleton
  <1> QED BY <1>1, <1>2

\* However the workers and the writer interleave, a scan inserts a book at most once:
\* the mark in pending_new_books is taken by one occurrence of it.
THEOREM SingleInsertSafe == Spec => []SingleInsert
  <1>1. TypeOK /\ OnePlace => SingleInsert
    <2> SUFFICES ASSUME TypeOK, OnePlace, NEW b \in Book
                 PROVE  Cardinality({w \in Worker : at[w] = "build" /\ NameOf[job[w]] = b})
                        + Cardinality({i \in DOMAIN queue : queue[i] = b})
                        + Cardinality({i \in DOMAIN batch : batch[i] = b})
                        + (IF b \in added THEN 1 ELSE 0) <= 1
      BY DEF SingleInsert
    <2> DEFINE W == {w \in Worker : at[w] = "build" /\ NameOf[job[w]] = b}
               Q == {i \in DOMAIN queue : queue[i] = b}
               B == {i \in DOMAIN batch : batch[i] = b}
    <2>1. b # Finish
      BY ConstantsAssumption
    <2>2. /\ \A v, w \in W : v = w
          /\ \A i, j \in Q : i = j
          /\ \A i, j \in B : i = j
      BY <2>1 DEF OnePlace
    <2>3. /\ Cardinality(W) = IF W = {} THEN 0 ELSE 1
          /\ Cardinality(Q) = IF Q = {} THEN 0 ELSE 1
          /\ Cardinality(B) = IF B = {} THEN 0 ELSE 1
      <3> HIDE DEF W, Q, B
      <3> QED BY <2>2, AtMostOne
    <2>4. /\ W # {} => Q = {} /\ B = {} /\ b \notin added
          /\ Q # {} => B = {} /\ b \notin added
          /\ B # {} => b \notin added
      BY <2>1 DEF OnePlace
    <2> HIDE DEF W, Q, B
    <2>5. Cardinality(W) + Cardinality(Q) + Cardinality(B) + (IF b \in added THEN 1 ELSE 0) <= 1
      BY <2>3, <2>4
    <2> QED BY <2>5 DEF W, Q, B
  <1> QED BY <1>1, PlacesHold, TypeCorrect, PTL

-----------------------------------------------------------------------------
(* The end of the writer                                                       *)

LEMMA DropWriter == DropContext => WriterInv'
  BY DEF DropContext, WriterInv

LEMMA StepWriter == ScanInv /\ PipeInv /\ WriterInv /\ [Next]_vars => WriterInv'
  <1> SUFFICES ASSUME ScanInv, PipeInv, WriterInv, [Next]_vars PROVE WriterInv'
    OBVIOUS
  <1> USE ConstantsAssumption
  <1>0. TypeOK /\ WorkersRest
    BY DEF ScanInv
  <1>1. ASSUME UNCHANGED <<queue, batch, writer, phase>>, errors => errors' PROVE WriterInv'
    BY <1>0, <1>1 DEF WriterInv, TypeOK
  <1>2. CASE AcquireLock \/ Snapshot \/ MarkUnverified \/ Walk
    <2>1. UNCHANGED <<queue, batch>> /\ phase' \in {"snapshot", "mark", "walk", "work"}
      BY <1>2 DEF AcquireLock, Snapshot, MarkUnverified, Walk, pipe
    <2>2. queue = <<>> /\ batch = <<>>
      BY <1>2 DEF AcquireLock, Snapshot, MarkUnverified, Walk, PipeInv
    <2> QED BY <2>1, <2>2 DEF WriterInv
  <1>3. ASSUME NEW w \in Worker, Enqueue(w) PROVE WriterInv'
    <2>1. phase = "work" /\ writer = "run" /\ UNCHANGED <<phase, writer, batch>>
      BY <1>0, <1>3 DEF Enqueue, WorkersRest
    <2>2. /\ queue \in Seq(Book \cup {Finish}) /\ queue' = Append(queue, NameOf[job[w]])
          /\ NameOf[job[w]] \in Book
      BY <1>0, <1>3 DEF Enqueue, TypeOK
    <2>3. \A i \in DOMAIN queue' : (i \in DOMAIN queue /\ queue'[i] = queue[i]) \/ queue'[i] \in Book
      BY <2>2
    <2>4. \A i \in DOMAIN queue' : queue'[i] # Finish
      BY <2>1, <2>3 DEF WriterInv
    <2> QED BY <2>1, <2>4 DEF WriterInv
  <1>4. CASE Receive
    <2>1. writer = "run" /\ UNCHANGED <<phase, errors>> /\ phase \in {"work", "stuck", "drain"}
      BY <1>4 DEF Receive, PipeInv
    <2>2. /\ queue \in Seq(Book \cup {Finish}) /\ queue # <<>> /\ queue' = Tail(queue)
      BY <1>0, <1>4 DEF Receive, TypeOK
    <2>3. /\ \A i \in DOMAIN queue' : i + 1 \in DOMAIN queue /\ queue'[i] = queue[i + 1] /\ i \in Nat
          /\ Len(queue') = Len(queue) - 1 /\ Len(queue) \in Nat
          /\ 1 \in DOMAIN queue /\ Head(queue) = queue[1]
          /\ Len(queue) = 1 => queue' = <<>>
      BY <2>2
    <2>4. \A i \in DOMAIN queue' : queue'[i] = Finish => i = Len(queue') /\ phase' = "drain"
      BY <2>1, <2>3 DEF WriterInv
    <2>5. CASE Head(queue) = Finish /\ batch' = batch
               /\ writer' = (IF batch = <<>> THEN "done" ELSE "flush")
      <3>1. queue' = <<>>
        BY <2>3, <2>5 DEF WriterInv
      <3> QED BY <2>1, <2>4, <2>5, <3>1 DEF WriterInv
    <2>6. CASE writer' = writer
      BY <2>1, <2>4, <2>6 DEF WriterInv
    <2> QED BY <1>4, <2>5, <2>6 DEF Receive
  <1>5. CASE Commit
    <2>1. UNCHANGED <<phase, errors, queue>> /\ batch' = <<>> /\ phase \in {"work", "stuck", "drain"}
      BY <1>5 DEF Commit, PipeInv
    <2>2. writer' = writer \/ (writer = "flush" /\ writer' = "done")
      BY <1>5 DEF Commit
    <2> QED BY <2>1, <2>2 DEF WriterInv
  <1>6. CASE WriterFails
    <2>1. phase \in {"work", "stuck", "drain"} /\ phase' = phase
      BY <1>6 DEF WriterFails, PipeInv
    <2> QED BY <1>6, <2>1 DEF WriterFails, WriterInv
  <1>7. CASE SendFinish
    <2>1. phase = "work" /\ phase' = "drain" /\ UNCHANGED <<batch, writer>>
      BY <1>7 DEF SendFinish
    <2>2. \A i \in DOMAIN queue : queue[i] # Finish
      BY <2>1 DEF WriterInv
    <2>3. CASE writer = "run" /\ queue' = Append(queue, Finish)
      <3>1. queue \in Seq(Book \cup {Finish})
        BY <1>0 DEF TypeOK
      <3>2. \A i \in DOMAIN queue' : (i \in DOMAIN queue /\ queue'[i] = queue[i]) \/ i = Len(queue')
        BY <2>3, <3>1
      <3>3. \A i \in DOMAIN queue' : queue'[i] = Finish => i = Len(queue')
        BY <2>2, <3>2
      <3> QED BY <2>1, <2>3, <3>3 DEF WriterInv
    <2>4. CASE writer = "failed" /\ queue' = queue
      BY <2>1, <2>2, <2>4 DEF WriterInv
    <2> QED BY <1>7, <2>3, <2>4 DEF SendFinish
  <1>8. CASE AwaitWriter
    <2>1. /\ writer \in {"done", "failed"} /\ UNCHANGED <<queue, batch, writer>>
          /\ errors' = (errors \/ writer = "failed") /\ phase' = "confirm"
      BY <1>8 DEF AwaitWriter, pipe
    <2>2. queue = <<>>
      BY <2>1 DEF WriterInv
    <2>3. ~errors' => writer = "done"
      BY <2>1, Zenon
    <2>4. \A i \in DOMAIN queue' : queue'[i] = Finish => i = Len(queue') /\ phase' = "drain"
      BY <2>1, <2>2
    <2>5. /\ writer' \in {"flush", "done", "failed"} => queue' = <<>>
          /\ writer' = "done" => batch' = <<>>
      BY <2>1, <2>2 DEF WriterInv
    <2>6. writer' = writer
      BY <2>1
    <2> QED BY <2>3, <2>4, <2>5, <2>6 DEF WriterInv
  <1>9. CASE ConfirmExisting \/ DeleteUnavailable \/ PruneCatalogs
    <2>1. UNCHANGED <<queue, batch, writer>> /\ phase' \in {"delete", "prune", "counters"}
      BY <1>9 DEF ConfirmExisting, DeleteUnavailable, PruneCatalogs, pipe
    <2>2. \A i \in DOMAIN queue : queue[i] # Finish
      BY <1>9 DEF ConfirmExisting, DeleteUnavailable, PruneCatalogs, WriterInv
    <2> QED BY <2>1, <2>2 DEF WriterInv
  <1>10. CASE Abort \/ ReleaseLock \/ Crash
    BY <1>10, DropWriter DEF Abort, ReleaseLock, Crash
  <1>11. ASSUME NEW w \in Worker,
                \/ Take(w) \/ Lookup(w) \/ FindRow(w) \/ CheckSuppressed(w)
                \/ ChannelClosed(w) \/ Abandon(w)
         PROVE  WriterInv'
    <2>1. UNCHANGED <<queue, batch, writer, phase>> /\ (errors => errors')
      BY <1>11 DEF Take, Lookup, FindRow, CheckSuppressed, ChannelClosed, Abandon, pipe
    <2> QED BY <1>1, <2>1
  <1>12. CASE \/ ChangeFiles \/ UploadWrite \/ UploadInsert \/ UploadUndo \/ RemoveFile
              \/ RemoveRow \/ UNCHANGED vars \/ \E w \in Worker : SkipArchive(w)
    <2>1. UNCHANGED <<queue, batch, writer, phase, errors>>
      BY <1>12
      DEF ChangeFiles, UploadWrite, UploadInsert, UploadUndo, RemoveFile, RemoveRow, SkipArchive,
          vars, pipe
    <2> QED BY <1>1, <2>1
  <1>13. ASSUME NEW w \in Worker, Panic(w) PROVE WriterInv'
    <2>1. phase = "work" /\ phase' = "stuck" /\ UNCHANGED <<queue, batch, writer>>
      BY <1>0, <1>13 DEF Panic, WorkersRest, pipe
    <2> QED BY <2>1 DEF WriterInv
  <1> QED
    BY <1>2, <1>3, <1>4, <1>5, <1>6, <1>7, <1>8, <1>9, <1>10, <1>11, <1>12, <1>13
    DEF Next, ScanStep, MainStep, WriterStep, Failure, OutsideStep, WorkerStep

-----------------------------------------------------------------------------
(* The rows                                                                    *)

\* Where the rows of a statement come from, and what becomes of those before it.
LEMMA MarkedRows ==
  ASSUME NEW I, NEW B, NEW t, t \subseteq RowType(I, B)
  PROVE  /\ \A r \in SetAvailAll(t, Unverified) :
              \E s \in t : /\ s.id = r.id /\ s.file = r.file
                           /\ s.avail # Deleted => r.avail = Unverified
         /\ \A s \in t : \E r \in SetAvailAll(t, Unverified) : r.id = s.id /\ r.file = s.file
  <1>1. \A s \in t : /\ With(s, Unverified).id = s.id /\ With(s, Unverified).file = s.file
                     /\ With(s, Unverified).avail = Unverified
                     /\ s.avail \in {Deleted, Unverified, Confirmed}
    BY DEF With, RowType
  <1>2. ASSUME NEW r \in SetAvailAll(t, Unverified)
        PROVE  \E s \in t : s.id = r.id /\ s.file = r.file /\ (s.avail # Deleted => r.avail = Unverified)
    <2>1. PICK s \in t : r = IF s.avail > Deleted THEN With(s, Unverified) ELSE s
      BY DEF SetAvailAll
    <2> QED BY <1>1, <2>1
  <1>3. ASSUME NEW s \in t
        PROVE  \E r \in SetAvailAll(t, Unverified) : r.id = s.id /\ r.file = s.file
    <2>1. (IF s.avail > Deleted THEN With(s, Unverified) ELSE s) \in SetAvailAll(t, Unverified)
      BY DEF SetAvailAll
    <2> QED BY <1>1, <2>1
  <1> QED BY <1>2, <1>3

LEMMA DroppedRows ==
  ASSUME NEW I, NEW B, NEW t, t \subseteq RowType(I, B),
         NEW u, u = LogicalDelete(t) \/ u = PhysicalDelete(t)
  PROVE  /\ \A r \in u : \E s \in t :
              /\ s.id = r.id /\ s.file = r.file
              /\ (s.avail = Confirmed /\ r = s) \/ (s.avail # Confirmed /\ r.avail = Deleted)
         /\ \A s \in t : s.avail = Confirmed => s \in u
  <1>1. \A s \in t : /\ With(s, Deleted).id = s.id /\ With(s, Deleted).file = s.file
                     /\ With(s, Deleted).avail = Deleted
                     /\ s.avail \in {Deleted, Unverified, Confirmed}
    BY DEF With, RowType
  <1>2. CASE u = LogicalDelete(t)
    <2>1. \A s \in t : (IF s.avail <= Unverified THEN With(s, Deleted) ELSE s) \in u
      BY <1>2 DEF LogicalDelete
    <2>2. \A s \in t : s.avail = Confirmed => s \in u
      BY <2>1
    <2>3. ASSUME NEW r \in u
          PROVE  \E s \in t :
                   /\ s.id = r.id /\ s.file = r.file
                   /\ (s.avail = Confirmed /\ r = s) \/ (s.avail # Confirmed /\ r.avail = Deleted)
      <3>1. PICK s \in t : r = IF s.avail <= Unverified THEN With(s, Deleted) ELSE s
        BY <1>2, <2>3 DEF LogicalDelete
      <3> QED BY <1>1, <3>1
    <2> QED BY <2>2, <2>3
  <1>3. CASE u = PhysicalDelete(t)
    BY <1>1, <1>3 DEF PhysicalDelete
  <1> QED BY <1>2, <1>3

LEMMA DropRows == DropContext => RowsInv'
  BY DEF DropContext, RowsInv, IndexNamesBook, NewRowsAreAdded, MarkedAreNew, DoubtedRows,
         IndexedRowsStay, Active

\* A step that leaves the table and what the invariant compares it with alone.
LEMMA QuietRows ==
  ASSUME RowsInv, errors => errors',
         UNCHANGED <<books, index, exempt, walked, added>>,
         \A b \in marked' : b \in marked \/ (NewToScan(b) /\ phase = "work"),
         phase \in {"idle", "snapshot", "mark", "walk"} => marked' = marked,
         \/ phase' = phase \/ {phase, phase'} \subseteq {"work", "drain", "confirm"}
         \/ phase = "work" /\ phase' = "stuck"
  PROVE  RowsInv'
  <1>1. (Active' <=> Active) /\ \A r : (NewRow(r)' <=> NewRow(r)) /\ (OldRow(r)' <=> OldRow(r))
    BY DEF Active, NewRow, OldRow
  <1>2. Names(walked)' = Names(walked) /\ \A b : NewToScan(b)' <=> NewToScan(b)
    BY DEF Names, NewToScan
  <1>3. IndexNamesBook' /\ NewRowsAreAdded'
    BY <1>1 DEF RowsInv, IndexNamesBook, NewRowsAreAdded
  <1>4. MarkedAreNew'
    BY <1>2 DEF RowsInv, MarkedAreNew
  <1>5. DoubtedRows'
    BY <1>1, <1>2 DEF RowsInv, DoubtedRows
  <1>6. IndexedRowsStay'
    BY <1>1, <1>2 DEF RowsInv, IndexedRowsStay
  <1> QED BY <1>3, <1>4, <1>5, <1>6 DEF RowsInv

\* A statement that keeps what identifies a row and leaves new rows as they are, or adds
\* a row of a book that is not the scan's business.
LEMMA NewRowsStay ==
  ASSUME RowsInv, Active,
         UNCHANGED <<index, walked, added, marked>>, exempt \subseteq exempt',
         phase' \in {"idle", "snapshot", "mark", "walk"} => phase \in {"mark", "walk"},
         \A r \in books' :
           \/ \E s \in books : s.id = r.id /\ s.file = r.file /\ (NewRow(s) => r = s)
           \/ r.file \in exempt' /\ \A b \in Book : r.id = index[b] => r.file = b
  PROVE  IndexNamesBook' /\ NewRowsAreAdded' /\ MarkedAreNew'
  <1>1. \A r : NewRow(r)' => NewRow(r)
    BY DEF NewRow
  <1>2. \A r \in books' : NewRow(r)' => r \in books
    BY <1>1 DEF NewRow
  <1>3. IndexNamesBook'
    BY DEF RowsInv, IndexNamesBook
  <1>4. ASSUME NEW r \in books', NEW s \in books', NewRow(r)', r.file = s.file
        PROVE  r = s
    <2>1. NewRow(s)'
      BY <1>4 DEF NewRow
    <2> QED BY <1>1, <1>2, <1>4, <2>1 DEF RowsInv, NewRowsAreAdded
  <1>5. NewRowsAreAdded'
    BY <1>1, <1>2, <1>4 DEF RowsInv, NewRowsAreAdded
  <1>6. MarkedAreNew'
    BY DEF RowsInv, MarkedAreNew, NewToScan, Names
  <1> QED BY <1>3, <1>5, <1>6

LEMMA SnapshotRows == ScanInv /\ RowsInv /\ Snapshot => RowsInv'
  <1> SUFFICES ASSUME ScanInv, RowsInv, Snapshot PROVE RowsInv'
    OBVIOUS
  <1> USE ConstantsAssumption
  <1>1. /\ books \subseteq RowType(RowId, Book) /\ UniqueIds(books)
        /\ phase = "snapshot" /\ phase' = "mark" /\ UNCHANGED <<books, walked, added, marked>>
        /\ exempt' = {r.file : r \in books \ Live(books)}
    BY DEF ScanInv, TypeOK, Snapshot
  <1>2. \A b \in Book : IF RowsOf(books, b) = {} THEN index'[b] = NoRow
                                                 ELSE index'[b] \in Ids(RowsOf(books, b))
    BY DEF Snapshot
  <1>3. \A r \in books : /\ r.file \in Book /\ r.id \in RowId
                         /\ r.file \notin exempt' => r.avail # Deleted
    BY <1>1 DEF RowType, Live
  <1>4. \A b \in Book : index'[b] # NoRow => \E r \in books : r.file = b /\ r.id = index'[b]
    BY <1>2 DEF RowsOf, Ids
  <1>5. ASSUME NEW r \in books PROVE index'[r.file] # NoRow
    <2>1. r \in RowsOf(books, r.file) /\ r.file \in Book
      BY <1>3 DEF RowsOf
    <2>2. index'[r.file] \in Ids(RowsOf(books, r.file))
      BY <1>2, <2>1
    <2> QED BY <1>3, <2>2 DEF Ids, RowsOf
  <1>6. \A b \in Book : \A r \in books : r.id = index'[b] => r.file = b
    BY <1>1, <1>3, <1>4 DEF UniqueIds
  <1>7. marked' = {} /\ added' = {}
    BY <1>1 DEF RowsInv, MarkedAreNew
  <1>8. NewRowsAreAdded' /\ MarkedAreNew' /\ IndexNamesBook'
    BY <1>1, <1>5, <1>6, <1>7 DEF NewRowsAreAdded, MarkedAreNew, IndexNamesBook, NewRow
  <1>9. DoubtedRows'
    BY <1>1, <1>3 DEF DoubtedRows, OldRow
  <1>10. IndexedRowsStay'
    BY <1>1, <1>4 DEF IndexedRowsStay
  <1> QED BY <1>8, <1>9, <1>10 DEF RowsInv

LEMMA MarkRows == ScanInv /\ RowsInv /\ MarkUnverified => RowsInv'
  <1> SUFFICES ASSUME ScanInv, RowsInv, MarkUnverified PROVE RowsInv'
    OBVIOUS
  <1>1. /\ phase = "mark" /\ phase' = "walk"
        /\ UNCHANGED <<index, exempt, walked, added, marked, errors>>
        /\ books' = SetAvailAll(books, Unverified) /\ books \subseteq RowType(RowId, Book)
    BY DEF MarkUnverified, seen, ScanInv, TypeOK
  <1>2. /\ \A r \in books' : \E s \in books : /\ s.id = r.id /\ s.file = r.file
                                              /\ s.avail # Deleted => r.avail = Unverified
        /\ \A s \in books : \E r \in books' : r.id = s.id /\ r.file = s.file
    BY <1>1, MarkedRows
  <1>3. added = {}
    BY <1>1 DEF RowsInv, MarkedAreNew
  <1>4. \A r \in books : ~NewRow(r)
    BY <1>1, <1>3 DEF RowsInv, NewRowsAreAdded, Active
  <1>5. IndexNamesBook' /\ NewRowsAreAdded' /\ MarkedAreNew'
    BY <1>1, <1>2, <1>4, NewRowsStay DEF Active
  <1>6. ASSUME NEW r \in books', OldRow(r)' PROVE r.avail = Unverified
    <2>1. PICK s \in books : s.id = r.id /\ s.file = r.file /\ (s.avail # Deleted => r.avail = Unverified)
      BY <1>2
    <2>2. OldRow(s)
      BY <1>1, <1>6, <2>1 DEF OldRow
    <2> QED BY <1>1, <2>1, <2>2 DEF RowsInv, DoubtedRows
  <1>7. DoubtedRows'
    BY <1>1, <1>6 DEF DoubtedRows
  <1>8. IndexedRowsStay'
    BY <1>1, <1>2 DEF RowsInv, IndexedRowsStay
  <1> QED BY <1>5, <1>7, <1>8 DEF RowsInv

LEMMA ConfirmRows == ScanInv /\ PipeInv /\ RowsInv /\ ConfirmExisting => RowsInv'
  <1> SUFFICES ASSUME ScanInv, PipeInv, RowsInv, ConfirmExisting PROVE RowsInv'
    OBVIOUS
  <1> USE ConstantsAssumption
  <1>1. /\ phase = "confirm" /\ phase' = "delete"
        /\ UNCHANGED <<index, exempt, walked, added, marked, errors>>
        /\ books' = ConfirmIds(books, confirmed) /\ books \subseteq RowType(RowId, Book)
    BY DEF ConfirmExisting, seen, ScanInv, TypeOK
  <1>2. /\ \A r \in books' :
             \E s \in books : /\ s.id = r.id /\ s.file = r.file
                              /\ r = s \/ (s.avail = Unverified /\ s.id \in confirmed /\ r.avail = Confirmed)
        /\ \A s \in books : \E r \in books' : r.id = s.id /\ r.file = s.file
    BY <1>1, ConfirmedRows
  <1>3. \A s \in books : NewRow(s) => s.avail # Unverified
    BY <1>1 DEF RowsInv, NewRowsAreAdded, Active
  <1>4. IndexNamesBook' /\ NewRowsAreAdded' /\ MarkedAreNew'
    BY <1>1, <1>2, <1>3, NewRowsStay DEF Active
  <1>5. \A s \in books : s.id \in confirmed => s.id = index[s.file] /\ s.file \in Names(walked)
    <2>1. \A b \in Names(walked) : b \in Book
      BY DEF ScanInv, TypeOK, Names
    <2> QED BY <1>1, <2>1 DEF PipeInv, RowsInv, IndexNamesBook, Active
  <1>6. ASSUME NEW r \in books', OldRow(r)'
        PROVE  /\ r.avail # Deleted
               /\ r.avail = Confirmed => r.id = index[r.file] /\ r.file \in Names(walked)
    <2>1. PICK s \in books : /\ s.id = r.id /\ s.file = r.file
                             /\ r = s \/ (s.avail = Unverified /\ s.id \in confirmed /\ r.avail = Confirmed)
      BY <1>2
    <2>2. OldRow(s)
      BY <1>1, <1>6, <2>1 DEF OldRow
    <2>3. s.avail = Unverified
      BY <1>1, <2>2 DEF RowsInv, DoubtedRows
    <2> QED BY <1>5, <2>1, <2>3
  <1>7. DoubtedRows'
    BY <1>1, <1>6 DEF DoubtedRows, Names
  <1>8. IndexedRowsStay'
    BY <1>1, <1>2 DEF RowsInv, IndexedRowsStay
  <1> QED BY <1>4, <1>7, <1>8 DEF RowsInv

LEMMA DeleteRows == ScanInv /\ RowsInv /\ DeleteUnavailable => RowsInv'
  <1> SUFFICES ASSUME ScanInv, RowsInv, DeleteUnavailable PROVE RowsInv'
    OBVIOUS
  <1> USE ConstantsAssumption
  <1>1. /\ phase = "delete" /\ phase' = "prune"
        /\ UNCHANGED <<index, exempt, walked, added, marked, errors>>
        /\ books \subseteq RowType(RowId, Book)
    BY DEF DeleteUnavailable, seen, ScanInv, TypeOK
  <1>2. \A s \in books : NewRow(s) => s.avail = Confirmed
    BY <1>1 DEF RowsInv, NewRowsAreAdded, Active
  <1>3. CASE errors
    <2>1. books' = books
      BY <1>3 DEF DeleteUnavailable
    <2>2. IndexNamesBook' /\ NewRowsAreAdded' /\ MarkedAreNew'
      BY <1>1, <2>1, NewRowsStay DEF Active
    <2> QED BY <1>1, <1>3, <2>1, <2>2 DEF RowsInv, DoubtedRows, IndexedRowsStay
  <1>4. CASE ~errors
    <2>1. books' = LogicalDelete(books) \/ books' = PhysicalDelete(books)
      BY <1>4 DEF DeleteUnavailable
    <2>2. /\ \A r \in books' : \E s \in books :
               /\ s.id = r.id /\ s.file = r.file
               /\ (s.avail = Confirmed /\ r = s) \/ (s.avail # Confirmed /\ r.avail = Deleted)
          /\ \A s \in books : s.avail = Confirmed => s \in books'
      BY <1>1, <2>1, DroppedRows
    <2>3. IndexNamesBook' /\ NewRowsAreAdded' /\ MarkedAreNew'
      BY <1>1, <1>2, <2>2, NewRowsStay DEF Active
    <2>4. ASSUME NEW r \in books', OldRow(r)', r.avail # Deleted
          PROVE  r.id = index[r.file] /\ r.file \in Names(walked)
      <3>1. r \in books /\ r.avail = Confirmed
        BY <2>2, <2>4
      <3>2. OldRow(r)
        BY <1>1, <2>4 DEF OldRow
      <3> QED BY <1>1, <1>4, <3>1, <3>2 DEF RowsInv, DoubtedRows
    <2>5. DoubtedRows'
      BY <1>1, <2>4 DEF DoubtedRows, Names
    <2>6. ASSUME NEW b \in Book \ exempt, index[b] # NoRow, b \in Names(walked)
          PROVE  \E r \in books' : r.id = index[b] /\ r.avail # Deleted
      <3>1. PICK r \in books : r.id = index[b]
        BY <1>1, <2>6 DEF RowsInv, IndexedRowsStay
      <3>2. r.file = b
        BY <1>1, <3>1 DEF RowsInv, IndexNamesBook, Active
      <3>3. r.avail # Deleted
        BY <1>1, <2>6, <3>2 DEF RowsInv, DoubtedRows, OldRow
      <3>4. r.avail # Unverified
        BY <1>1, <1>4, <2>6, <3>1, <3>2 DEF ScanInv, SeenRowsConfirmed
      <3>5. r.avail = Confirmed
        BY <1>1, <3>3, <3>4 DEF RowType
      <3> QED BY <2>2, <3>1, <3>5
    <2>7. IndexedRowsStay'
      BY <1>1, <2>6 DEF IndexedRowsStay, Names
    <2> QED BY <2>3, <2>5, <2>7 DEF RowsInv
  <1> QED BY <1>3, <1>4

LEMMA PruneRows == ScanInv /\ RowsInv /\ PruneCatalogs => RowsInv'
  <1> SUFFICES ASSUME ScanInv, RowsInv, PruneCatalogs PROVE RowsInv'
    OBVIOUS
  <1>1. /\ phase = "prune" /\ phase' = "counters"
        /\ UNCHANGED <<index, exempt, walked, added, marked, errors>>
        /\ books' = PruneEmpty(books, DirOf) /\ books \subseteq RowType(RowId, Book)
    BY DEF PruneCatalogs, seen, ScanInv, TypeOK
  <1>2. books' \subseteq books /\ \A r \in books : r.avail # Deleted => r \in books'
    BY <1>1 DEF PruneEmpty, Live, RowType
  <1>3. IndexNamesBook' /\ NewRowsAreAdded' /\ MarkedAreNew'
    BY <1>1, <1>2, NewRowsStay DEF Active
  <1>4. DoubtedRows'
    BY <1>1, <1>2 DEF RowsInv, DoubtedRows, OldRow, Names
  <1>5. IndexedRowsStay'
    BY <1>1, <1>2 DEF RowsInv, IndexedRowsStay, Names
  <1> QED BY <1>3, <1>4, <1>5 DEF RowsInv

\* The batch is of marked books, each once, without a row of theirs; what it gets are ids
\* that nothing refers to.
LEMMA CommitRows == ScanInv /\ PipeInv /\ OnePlace /\ RowsInv /\ Commit => RowsInv'
  <1> SUFFICES ASSUME ScanInv, PipeInv, OnePlace, RowsInv, Commit PROVE RowsInv'
    OBVIOUS
  <1>1. PICK ids \in Injection(DOMAIN batch, FreshIds) :
          books' = books \cup {Row(ids[i], batch[i], Confirmed) : i \in DOMAIN batch}
    BY DEF Commit
  <1>2. /\ phase \in {"work", "stuck", "drain"} /\ phase' = phase
        /\ UNCHANGED <<index, exempt, walked, marked, errors>>
        /\ added' = added \cup Range(batch)
    BY DEF Commit, PipeInv, seen
  <1>3. ids \in [DOMAIN batch -> FreshIds]
    BY <1>1 DEF Injection
  <1>4. \A i \in DOMAIN batch : /\ \A b \in Book : ids[i] # index[b]
                                /\ NewToScan(batch[i])
                                /\ batch[i] \in marked \ added
                                /\ batch[i] \in added'
    BY <1>2, <1>3 DEF FreshIds, PipeInv, OnePlace, Range
  <1>5. \A r \in books' : r \in books \/ \E i \in DOMAIN batch : r = Row(ids[i], batch[i], Confirmed)
    BY <1>1
  <1>6. \A i \in DOMAIN batch : /\ Row(ids[i], batch[i], Confirmed).id = ids[i]
                                /\ Row(ids[i], batch[i], Confirmed).file = batch[i]
                                /\ Row(ids[i], batch[i], Confirmed).avail = Confirmed
    BY DEF Row
  <1>7. IndexNamesBook'
    BY <1>2, <1>4, <1>5, <1>6 DEF RowsInv, IndexNamesBook, Active
  <1>8. \A r \in books : NewRow(r) => r.avail = Confirmed /\ r.file \in added
    BY <1>2 DEF RowsInv, NewRowsAreAdded, Active
  <1>9. \A r : NewRow(r)' <=> NewRow(r)
    BY <1>2 DEF NewRow
  <1>10. ASSUME NEW r \in books', NEW s \in books', NewRow(r), r.file = s.file
         PROVE  r = s
    <2>1. NewRow(s)
      BY <1>10 DEF NewRow
    <2>2. CASE r \in books /\ s \in books
      BY <1>2, <1>10, <2>2 DEF RowsInv, NewRowsAreAdded, Active
    <2>3. CASE r \in books /\ s \notin books
      BY <1>4, <1>5, <1>6, <1>8, <1>10, <2>3
    <2>4. CASE r \notin books /\ s \in books
      BY <1>4, <1>5, <1>6, <1>8, <1>10, <2>1, <2>4
    <2>5. CASE r \notin books /\ s \notin books
      <3>1. PICK i \in DOMAIN batch : r = Row(ids[i], batch[i], Confirmed)
        BY <1>5, <2>5
      <3>2. PICK j \in DOMAIN batch : s = Row(ids[j], batch[j], Confirmed)
        BY <1>5, <2>5
      <3>3. i = j
        BY <1>6, <1>10, <3>1, <3>2 DEF OnePlace
      <3> QED BY <3>1, <3>2, <3>3
    <2> QED BY <2>2, <2>3, <2>4, <2>5
  <1>11. \A r \in books' : NewRow(r) => r.avail = Confirmed /\ r.file \in added'
    BY <1>2, <1>4, <1>5, <1>6, <1>8
  <1>12. NewRowsAreAdded'
    BY <1>9, <1>10, <1>11 DEF NewRowsAreAdded
  <1>13. MarkedAreNew'
    BY <1>2 DEF RowsInv, MarkedAreNew, NewToScan, Names
  <1>14. \A r \in books' : OldRow(r)' => r \in books /\ OldRow(r)
    BY <1>2, <1>4, <1>5, <1>6 DEF OldRow, NewToScan
  <1>15. DoubtedRows'
    BY <1>2, <1>14 DEF RowsInv, DoubtedRows
  <1>16. books \subseteq books'
    BY <1>1
  <1>17. IndexedRowsStay'
    BY <1>2, <1>16 DEF RowsInv, IndexedRowsStay
  <1> QED BY <1>7, <1>12, <1>13, <1>15, <1>17 DEF RowsInv

\* What others do to the table is exempt.
LEMMA OthersRows ==
  ASSUME RowsInv, phase # "idle",
         UNCHANGED <<index, walked, added, marked, phase, errors>>, exempt \subseteq exempt',
         \A r \in books' : \/ r \in books
                           \/ r.file \in exempt' /\ \A b \in Book : r.id = index[b] => r.file = b,
         \A r \in books : r \in books' \/ r.file \in exempt'
  PROVE  RowsInv'
  <1>1. CASE phase = "snapshot"
    BY <1>1 DEF RowsInv, IndexNamesBook, NewRowsAreAdded, MarkedAreNew, DoubtedRows,
                IndexedRowsStay, Active
  <1>2. CASE phase = "mark"
    <2>1. added = {} /\ marked = {}
      BY <1>2 DEF RowsInv, MarkedAreNew
    <2>2. \A r \in books' : ~NewRow(r)'
      BY <1>2, <2>1 DEF RowsInv, NewRowsAreAdded, NewRow, Active
    <2>3. IndexNamesBook'
      BY <1>2 DEF RowsInv, IndexNamesBook, Active
    <2>4. NewRowsAreAdded' /\ MarkedAreNew'
      BY <2>1, <2>2 DEF NewRowsAreAdded, MarkedAreNew
    <2>5. \A r \in books' : OldRow(r)' => r \in books /\ OldRow(r)
      BY DEF OldRow
    <2>6. DoubtedRows'
      BY <1>2, <2>5 DEF RowsInv, DoubtedRows
    <2>7. \A b \in Book \ exempt' : \A r \in books : r.id = index[b] => r \in books'
      BY <1>2 DEF RowsInv, IndexNamesBook, Active
    <2>8. IndexedRowsStay'
      BY <1>2, <2>7 DEF RowsInv, IndexedRowsStay
    <2> QED BY <2>3, <2>4, <2>6, <2>8 DEF RowsInv
  <1>3. CASE phase \notin {"snapshot", "mark"}
    <2>1. IndexNamesBook' /\ NewRowsAreAdded' /\ MarkedAreNew'
      <3>1. phase' \in {"idle", "snapshot", "mark", "walk"} => phase \in {"mark", "walk"}
        BY <1>3
      <3> QED BY <1>3, <3>1, NewRowsStay DEF Active
    <2>2. \A r \in books' : OldRow(r)' => r \in books /\ OldRow(r)
      BY DEF OldRow
    <2>3. DoubtedRows'
      BY <2>2 DEF RowsInv, DoubtedRows, Names
    <2>4. \A b \in Book \ exempt' : \A r \in books : r.id = index[b] => r \in books'
      BY <1>3 DEF RowsInv, IndexNamesBook, Active
    <2>5. IndexedRowsStay'
      BY <2>4 DEF RowsInv, IndexedRowsStay, Names
    <2> QED BY <2>1, <2>3, <2>5 DEF RowsInv
  <1> QED BY <1>1, <1>2, <1>3

\* When no scan runs the invariant says nothing.
LEMMA IdleRows ==
  ASSUME RowsInv, phase = "idle", phase' \in {"idle", "snapshot"}, UNCHANGED <<marked, added>>
  PROVE  RowsInv'
  BY DEF RowsInv, IndexNamesBook, NewRowsAreAdded, MarkedAreNew, DoubtedRows, IndexedRowsStay, Active

LEMMA StepRows == ScanInv /\ PipeInv /\ OnePlace /\ RowsInv /\ [Next]_vars => RowsInv'
  <1> SUFFICES ASSUME ScanInv, PipeInv, OnePlace, RowsInv, [Next]_vars PROVE RowsInv'
    OBVIOUS
  <1> USE ConstantsAssumption
  <1>0. TypeOK /\ WorkersRest
    BY DEF ScanInv
  <1>1. CASE AcquireLock
    BY <1>1, IdleRows DEF AcquireLock
  <1>2. CASE Snapshot \/ MarkUnverified \/ ConfirmExisting \/ DeleteUnavailable \/ PruneCatalogs \/ Commit
    BY <1>2, SnapshotRows, MarkRows, ConfirmRows, DeleteRows, PruneRows, CommitRows
  <1>3. CASE Walk
    <2>1. /\ phase = "walk" /\ phase' = "work"
          /\ UNCHANGED <<books, index, exempt, marked, added, errors>>
      BY <1>3 DEF Walk
    <2>2. marked = {} /\ added = {}
      BY <2>1 DEF RowsInv, MarkedAreNew
    <2>3. IndexNamesBook' /\ NewRowsAreAdded' /\ MarkedAreNew'
      BY <2>1, <2>2 DEF RowsInv, IndexNamesBook, NewRowsAreAdded, MarkedAreNew, Active, NewRow
    <2>4. DoubtedRows' /\ IndexedRowsStay'
      BY <2>1 DEF RowsInv, DoubtedRows, IndexedRowsStay, OldRow
    <2> QED BY <2>3, <2>4 DEF RowsInv
  <1>4. CASE Abort \/ ReleaseLock \/ Crash
    BY <1>4, DropRows DEF Abort, ReleaseLock, Crash
  <1>11. ASSUME NEW w \in Worker, SkipArchive(w) PROVE RowsInv'
    <2>1. PICK a \in Archive \ skipped :
            books' = ConfirmAll(books, BooksIn(a)) /\ exempt' = exempt \cup BooksIn(a)
      BY <1>11 DEF SkipArchive
    <2>2. UNCHANGED <<index, walked, added, marked, phase, errors>> /\ phase = "work"
      BY <1>11 DEF SkipArchive
    <2>3. /\ \A r \in books' : \E s \in books :
               s.id = r.id /\ s.file = r.file /\ (s.file \in BooksIn(a) \/ r = s)
          /\ \A s \in books : s.file \in BooksIn(a) \/ s \in books'
      BY <1>0, <2>1, SkippedRows
    <2>4. \A s \in books, b \in Book : s.id = index[b] => s.file = b
      BY <2>2 DEF RowsInv, IndexNamesBook, Active
    <2>5. \A r \in books' : \/ r \in books
                            \/ r.file \in exempt' /\ \A b \in Book : r.id = index[b] => r.file = b
      BY <2>1, <2>3, <2>4
    <2>6. \A r \in books : r \in books' \/ r.file \in exempt'
      BY <2>1, <2>3
    <2> QED BY <2>1, <2>2, <2>5, <2>6, OthersRows
  <1>12. ASSUME NEW w \in Worker, Panic(w) PROVE RowsInv'
    <2>1. /\ UNCHANGED <<books, index, exempt, walked, added, marked, errors>>
          /\ phase = "work" /\ phase' = "stuck"
      BY <1>0, <1>12 DEF Panic, WorkersRest, seen
    <2> QED BY <2>1, QuietRows
  <1>5. ASSUME NEW w \in Worker,
               \/ Take(w) \/ Lookup(w) \/ FindRow(w) \/ Enqueue(w) \/ ChannelClosed(w) \/ Abandon(w)
        PROVE  RowsInv'
    <2>1. UNCHANGED <<books, index, exempt, walked, added, marked, phase>> /\ (errors => errors')
      BY <1>5 DEF Take, Lookup, FindRow, Enqueue, ChannelClosed, Abandon, seen
    <2> QED BY <2>1, QuietRows
  <1>6. ASSUME NEW w \in Worker, CheckSuppressed(w) PROVE RowsInv'
    <2>1. UNCHANGED <<books, index, exempt, walked, added, phase, errors>> /\ phase = "work"
      BY <1>0, <1>6 DEF CheckSuppressed, seen, WorkersRest
    <2>2. NewToScan(NameOf[job[w]])
      BY <1>0, <1>6 DEF CheckSuppressed, PipeInv, TypeOK, NewToScan, Names
    <2>3. \A b \in marked' : b \in marked \/ NewToScan(b)
      BY <1>6, <2>2 DEF CheckSuppressed
    <2> QED BY <2>1, <2>3, QuietRows
  <1>7. CASE Receive \/ WriterFails \/ SendFinish \/ AwaitWriter
    <2>1. /\ UNCHANGED <<books, index, exempt, walked, added, marked>>
          /\ phase' = phase \/ {phase, phase'} \subseteq {"work", "drain", "confirm"}
      BY <1>7 DEF Receive, WriterFails, SendFinish, AwaitWriter, seen
    <2>2. errors => errors'
      BY <1>7 DEF Receive, WriterFails, SendFinish, AwaitWriter
    <2> QED BY <2>1, <2>2, QuietRows
  <1>8. CASE ChangeFiles \/ UploadWrite \/ UploadUndo \/ RemoveFile \/ UNCHANGED vars
    <2>1. UNCHANGED <<books, index, exempt, walked, added, marked, phase, errors>>
      BY <1>8 DEF ChangeFiles, UploadWrite, UploadUndo, RemoveFile, vars, seen
    <2> QED BY <2>1, QuietRows
  <1>9. CASE UploadInsert
    <2>1. UNCHANGED <<index, walked, added, marked, phase, errors>>
      BY <1>9 DEF UploadInsert
    <2>2. CASE UNCHANGED <<books, exempt>>
      BY <2>1, <2>2, QuietRows
    <2>3. CASE /\ \E i \in FreshIds : books' = books \cup {Row(i, NameOf[upload], Confirmed)}
               /\ Touch(NameOf[upload])
      <3>1. CASE phase = "idle"
        BY <2>1, <3>1, IdleRows
      <3>2. CASE phase # "idle"
        <4>1. PICK i \in FreshIds : books' = books \cup {Row(i, NameOf[upload], Confirmed)}
          BY <2>3
        <4>2. exempt' = exempt \cup {NameOf[upload]}
          BY <2>3, <3>2 DEF Touch
        <4>3. /\ Row(i, NameOf[upload], Confirmed).id = i
              /\ Row(i, NameOf[upload], Confirmed).file = NameOf[upload]
          BY DEF Row
        <4>4. \A b \in Book : i # index[b]
          BY <4>1 DEF FreshIds
        <4> QED BY <2>1, <3>2, <4>1, <4>2, <4>3, <4>4, OthersRows
      <3> QED BY <3>1, <3>2
    <2> QED BY <1>9, <2>2, <2>3 DEF UploadInsert
  <1>10. CASE RemoveRow
    <2>1. /\ UNCHANGED <<index, walked, added, marked, phase, errors>>
          /\ books' \subseteq books
          /\ exempt' = IF phase = "idle" THEN {} ELSE exempt \cup {r.file : r \in books \ books'}
      BY <1>10 DEF RemoveRow, DeleteRow
    <2>2. CASE phase = "idle"
      BY <2>1, <2>2, IdleRows
    <2>3. CASE phase # "idle"
      BY <2>1, <2>3, OthersRows
    <2> QED BY <2>2, <2>3
  <1> QED
    BY <1>1, <1>2, <1>3, <1>4, <1>5, <1>6, <1>7, <1>8, <1>9, <1>10, <1>11, <1>12
    DEF Next, ScanStep, MainStep, WriterStep, Failure, OutsideStep, WorkerStep

-----------------------------------------------------------------------------
(* What has been walked is on its way                                          *)

\* A step of the pipeline by which a book that was examined, held or met still is.
LEMMA KeepFlow ==
  ASSUME FlowInv, errors => errors', writer = "failed" => writer' = "failed",
         UNCHANGED <<index, walked>>,
         phase' = phase \/ {phase, phase'} \subseteq {"work", "drain", "confirm"},
         \A o \in walked : Examined(o) => \/ index[NameOf[o]] # NoRow \/ Examined(o)'
                                          \/ Met(NameOf[o])' \/ NameOf[o] \in marked',
         \A b : Held(b) => Held(b)' \/ Met(b)',
         \A b : Met(b) => Met(b)',
         \A b \in marked' : b \in marked \/ Held(b)'
  PROVE  FlowInv'
  <1>1. ASSUME phase' \in {"work", "drain", "confirm"}, ~errors', writer' # "failed"
        PROVE  /\ \A o \in walked : \/ index[NameOf[o]] # NoRow \/ Examined(o)'
                                    \/ Held(NameOf[o])' \/ Met(NameOf[o])'
               /\ \A b \in marked' : Held(b)' \/ Met(b)'
    <2>1. phase \in {"work", "drain", "confirm"} /\ ~errors /\ writer # "failed"
      BY <1>1
    <2>2. /\ \A o \in walked : \/ index[NameOf[o]] # NoRow \/ Examined(o)
                               \/ Held(NameOf[o]) \/ Met(NameOf[o])
          /\ \A b \in marked : Held(b) \/ Met(b)
      BY <2>1 DEF FlowInv
    <2>3. \A b \in marked' : Held(b)' \/ Met(b)'
      BY <2>2
    <2> QED BY <2>2, <2>3
  <1>2. ASSUME phase' \in {"delete", "prune", "counters"}, ~errors'
        PROVE  \A b \in Names(walked) : index[b] # NoRow \/ Met(b)'
    <2>1. phase \in {"delete", "prune", "counters"} /\ ~errors
      BY <1>2
    <2> QED BY <2>1 DEF FlowInv
  <1> QED BY <1>1, <1>2 DEF FlowInv, Names

\* The others keep what they have.
LEMMA KeepWorkers ==
  ASSUME TypeOK, NEW w \in Worker, UNCHANGED todo,
         \A v \in Worker : v # w => at'[v] = at[v] /\ job'[v] = job[v]
  PROVE  /\ \A o : Examined(o) => Examined(o)' \/ (at[w] \in {"lookup", "find", "check"} /\ job[w] = o)
         /\ UNCHANGED <<queue, batch>> =>
              \A b : Held(b) => Held(b)' \/ (at[w] = "build" /\ NameOf[job[w]] = b)
  BY DEF Examined, ToLookUp, Held

LEMMA KeepMet ==
  ASSUME suppressed \subseteq suppressed', exempt \subseteq exempt',
         \A r \in books : r.file \in exempt' \/ \E s \in books' : s.file = r.file
  PROVE  \A b : Met(b) => Met(b)'
  BY DEF Met

LEMMA DropFlow == DropContext => FlowInv'
  BY DEF DropContext, FlowInv

LEMMA WorkerFlow ==
  ASSUME TypeOK, WorkersRest, FlowInv, NEW w \in Worker,
         \/ Take(w) \/ Lookup(w) \/ FindRow(w) \/ CheckSuppressed(w)
         \/ Enqueue(w) \/ ChannelClosed(w) \/ Abandon(w)
  PROVE  FlowInv'
  <1> USE ConstantsAssumption
  <1>0. /\ UNCHANGED <<books, suppressed, phase, index, walked, exempt, writer, added>>
        /\ errors => errors'
    BY DEF Take, Lookup, FindRow, CheckSuppressed, Enqueue, ChannelClosed, Abandon, env, seen, pipe
  <1>1. \A b : Met(b) => Met(b)'
    BY <1>0, KeepMet
  <1>2. CASE Take(w)
    <2>1. PICK o \in todo : todo' = todo \ {o} /\ job' = [job EXCEPT ![w] = o]
      BY <1>2 DEF Take
    <2>2. /\ at' = [at EXCEPT ![w] = "lookup"] /\ at[w] = "idle"
          /\ UNCHANGED <<queue, batch, marked>>
      BY <1>2 DEF Take, pipe
    <2>3. \A p : Examined(p) => Examined(p)'
      BY <2>1, <2>2 DEF Examined, ToLookUp, TypeOK
    <2>4. \A b : Held(b) => Held(b)'
      BY <2>1, <2>2 DEF Held, TypeOK
    <2> QED BY <1>0, <1>1, <2>2, <2>3, <2>4, KeepFlow
  <1>3. CASE ChannelClosed(w) \/ Abandon(w)
    <2>1. errors' /\ phase' = "work"
      BY <1>0, <1>3 DEF ChannelClosed, Abandon, WorkersRest
    <2> QED BY <2>1 DEF FlowInv
  <1>4. ASSUME Lookup(w) \/ FindRow(w) \/ CheckSuppressed(w) \/ Enqueue(w)
        PROVE  /\ \A v \in Worker : v # w => at'[v] = at[v] /\ job'[v] = job[v]
               /\ UNCHANGED todo
    BY <1>4 DEF Lookup, FindRow, CheckSuppressed, Enqueue, Leave, TypeOK
  <1>5. CASE Lookup(w)
    <2>1. UNCHANGED <<queue, batch, marked>> /\ at[w] = "lookup"
      BY <1>5 DEF Lookup, pipe
    <2>2. index[NameOf[job[w]]] # NoRow \/ (at'[w] = "find" /\ job'[w] = job[w])
      BY <1>5 DEF Lookup, TypeOK
    <2>3. \A o \in walked : Examined(o) => index[NameOf[o]] # NoRow \/ Examined(o)'
      BY <1>4, <1>5, <2>2, KeepWorkers DEF Examined
    <2>4. \A b : Held(b) => Held(b)'
      BY <1>4, <1>5, <2>1, KeepWorkers
    <2> QED BY <1>0, <1>1, <2>1, <2>3, <2>4, KeepFlow
  <1>6. CASE FindRow(w)
    <2>1. UNCHANGED <<queue, batch, marked>> /\ at[w] = "find"
      BY <1>6 DEF FindRow, pipe
    <2>2. (\A b : b = NameOf[job[w]] => Met(b)') \/ (at'[w] = "check" /\ job'[w] = job[w])
      BY <1>0, <1>6 DEF FindRow, TypeOK, RowsOf, Met
    <2>3. \A o \in walked : Examined(o) => Examined(o)' \/ Met(NameOf[o])'
      BY <1>4, <1>6, <2>2, KeepWorkers DEF Examined
    <2>4. \A b : Held(b) => Held(b)'
      BY <1>4, <1>6, <2>1, KeepWorkers
    <2> QED BY <1>0, <1>1, <2>1, <2>3, <2>4, KeepFlow
  <1>7. CASE CheckSuppressed(w)
    <2>1. UNCHANGED <<queue, batch>> /\ at[w] = "check"
      BY <1>7 DEF CheckSuppressed, pipe
    <2>2. \A b : b = NameOf[job[w]] => Met(b)' \/ b \in marked'
      BY <1>0, <1>7 DEF CheckSuppressed, Met
    <2>3. \A o \in walked : Examined(o) => Examined(o)' \/ Met(NameOf[o])' \/ NameOf[o] \in marked'
      BY <1>4, <1>7, <2>2, KeepWorkers
    <2>4. \A b : Held(b) => Held(b)'
      BY <1>4, <1>7, <2>1, KeepWorkers
    <2>5. \A b \in marked' : b \in marked \/ Held(b)'
      BY <1>7 DEF CheckSuppressed, Held, TypeOK
    <2> QED BY <1>0, <1>1, <2>3, <2>4, <2>5, KeepFlow
  <1>8. CASE Enqueue(w)
    <2>1. UNCHANGED <<batch, marked>> /\ at[w] = "build"
          /\ queue \in Seq(Book \cup {Finish}) /\ queue' = Append(queue, NameOf[job[w]])
      BY <1>8 DEF Enqueue, TypeOK
    <2>2. /\ \A i \in DOMAIN queue : i \in DOMAIN queue' /\ queue'[i] = queue[i]
          /\ \E i \in DOMAIN queue' : queue'[i] = NameOf[job[w]]
      BY <2>1
    <2>3. \A o \in walked : Examined(o) => Examined(o)'
      BY <1>4, <1>8, <2>1, KeepWorkers
    <2>4. \A b : Held(b) => Held(b)'
      BY <1>4, <1>8, <2>1, <2>2 DEF Held
    <2> QED BY <1>0, <1>1, <2>1, <2>3, <2>4, KeepFlow
  <1> QED BY <1>2, <1>3, <1>5, <1>6, <1>7, <1>8

LEMMA WriterFlow ==
  ASSUME TypeOK, PipeInv, FlowInv, Receive \/ Commit \/ WriterFails
  PROVE  FlowInv'
  <1>1. CASE WriterFails
    <2>1. writer' = "failed" /\ phase' = phase /\ phase \in {"work", "stuck", "drain"}
      BY <1>1 DEF WriterFails, PipeInv
    <2> QED BY <2>1 DEF FlowInv
  <1>2. CASE Receive
    <2>1. /\ UNCHANGED <<books, suppressed, phase, index, walked, exempt, errors, marked, todo, at, job>>
          /\ writer = "run"
      BY <1>2 DEF Receive, env, seen, work
    <2>2. /\ queue \in Seq(Book \cup {Finish}) /\ queue # <<>> /\ queue' = Tail(queue)
          /\ batch \in Seq(Book)
          /\ \/ batch' = batch /\ Head(queue) = Finish
             \/ batch' = Append(batch, Head(queue))
      BY <1>2 DEF Receive, TypeOK
    <2>3. \A i \in DOMAIN queue : queue[i] = Head(queue) \/ \E j \in DOMAIN queue' : queue'[j] = queue[i]
      <3>1. /\ Head(queue) = queue[1]
            /\ \A i \in DOMAIN queue : i # 1 => i - 1 \in DOMAIN queue' /\ queue'[i - 1] = queue[i]
        BY <2>2
      <3> QED BY <3>1
    <2>4. /\ \A i \in DOMAIN batch : \E j \in DOMAIN batch' : batch'[j] = batch[i]
          /\ Head(queue) # Finish => \E j \in DOMAIN batch' : batch'[j] = Head(queue)
      <3>1. CASE batch' = batch /\ Head(queue) = Finish
        BY <3>1
      <3>2. CASE batch' = Append(batch, Head(queue))
        <4>1. /\ \A i \in DOMAIN batch : i \in DOMAIN batch' /\ batch'[i] = batch[i]
              /\ Len(batch) + 1 \in DOMAIN batch' /\ batch'[Len(batch) + 1] = Head(queue)
          BY <2>2, <3>2
        <4> QED BY <4>1
      <3> QED BY <2>2, <3>1, <3>2
    <2>5. \A b : b # Finish /\ Held(b) => Held(b)'
      BY <2>1, <2>3, <2>4 DEF Held
    <2>6. \A b : Met(b) => Met(b)'
      BY <2>1 DEF Met
    <2>7. /\ \A o : Examined(o) => Examined(o)'
          /\ writer # "failed"
      BY <2>1 DEF Examined, ToLookUp
    <2>8. Finish \notin marked /\ \A o \in walked : NameOf[o] # Finish
      BY ConstantsAssumption DEF TypeOK
    <2>9. ASSUME phase \in {"work", "drain", "confirm"}, ~errors
          PROVE  /\ \A o \in walked : \/ index[NameOf[o]] # NoRow \/ Examined(o)'
                                      \/ Held(NameOf[o])' \/ Met(NameOf[o])'
                 /\ \A b \in marked : Held(b)' \/ Met(b)'
      BY <2>5, <2>6, <2>7, <2>8, <2>9 DEF FlowInv
    <2>10. phase \in {"work", "stuck", "drain"}
      BY <2>1 DEF PipeInv
    <2> QED BY <2>1, <2>9, <2>10 DEF FlowInv
  <1>3. CASE Commit
    <2>1. /\ UNCHANGED <<suppressed, phase, index, walked, exempt, errors, marked, todo, at, job, queue>>
          /\ books \subseteq books' /\ (writer = "failed" => writer' = "failed")
      BY <1>3 DEF Commit, env, seen, work
    <2>2. \A i \in DOMAIN batch : \E r \in books' : r.file = batch[i]
      <3>1. PICK ids \in Injection(DOMAIN batch, FreshIds) :
              books' = books \cup {Row(ids[i], batch[i], Confirmed) : i \in DOMAIN batch}
        BY <1>3 DEF Commit
      <3>2. \A i \in DOMAIN batch : Row(ids[i], batch[i], Confirmed).file = batch[i]
        BY DEF Row
      <3> QED BY <3>1, <3>2
    <2>3. \A b : Held(b) => Held(b)' \/ Met(b)'
      BY <2>1, <2>2 DEF Held, Met
    <2>4. \A b : Met(b) => Met(b)'
      BY <2>1 DEF Met
    <2>5. \A o : Examined(o) => Examined(o)'
      BY <2>1 DEF Examined, ToLookUp
    <2> QED BY <2>1, <2>3, <2>4, <2>5, KeepFlow
  <1> QED BY <1>1, <1>2, <1>3

\* The books of a skipped archive are none of the scan's business any more.
LEMMA SkipFlow ==
  ASSUME TypeOK, FlowInv, NEW w \in Worker, SkipArchive(w)
  PROVE  FlowInv'
  <1>1. PICK a \in Archive \ skipped :
          /\ books' = ConfirmAll(books, BooksIn(a))
          /\ todo' = todo \ {o \in walked : NameOf[o] \in BooksIn(a)}
          /\ exempt' = exempt \cup BooksIn(a)
    BY DEF SkipArchive
  <1>2. UNCHANGED <<suppressed, phase, index, walked, marked, at, job, queue, batch, writer, errors>>
    BY DEF SkipArchive, env, work, pipe
  <1>3. \A r \in books : \E s \in books' : s.file = r.file
    BY <1>1, SkippedRows
  <1>4. \A b : Met(b) => Met(b)'
    BY <1>1, <1>2, <1>3, KeepMet
  <1>5. \A o \in walked : Examined(o) => Examined(o)' \/ Met(NameOf[o])'
    BY <1>1, <1>2 DEF Examined, ToLookUp, Met
  <1>6. \A b : Held(b) => Held(b)'
    BY <1>2 DEF Held
  <1> QED BY <1>2, <1>4, <1>5, <1>6, KeepFlow

\* When the writer has ended nothing is held, so what was walked has been met.
LEMMA ConfirmFlow ==
  ASSUME ScanInv, PipeInv, WriterInv, RowsInv, FlowInv, ConfirmExisting
  PROVE  FlowInv'
  <1>1. /\ phase = "confirm" /\ phase' = "delete"
        /\ UNCHANGED <<suppressed, index, walked, exempt, errors>>
        /\ books' = ConfirmIds(books, confirmed) /\ books \subseteq RowType(RowId, Book)
    BY DEF ConfirmExisting, env, seen, ScanInv, TypeOK
  <1>2. \A s \in books : \E r \in books' : r.file = s.file
    BY <1>1, ConfirmedRows
  <1>3. \A b : Met(b) => Met(b)'
    BY <1>1, <1>2, KeepMet
  <1>4. ASSUME ~errors, NEW o \in walked PROVE index[NameOf[o]] # NoRow \/ Met(NameOf[o])
    <2>1. writer = "done" /\ queue = <<>> /\ batch = <<>>
      BY <1>1, <1>4 DEF WriterInv
    <2>2. todo = {} /\ \A w \in Worker : at[w] = "idle"
      BY <1>1 DEF ScanInv, WorkersRest
    <2>3. ~Examined(o) /\ ~Held(NameOf[o])
      BY <2>1, <2>2 DEF Examined, ToLookUp, Held
    <2> QED BY <1>1, <1>4, <2>1, <2>3 DEF FlowInv
  <1>5. ~errors => \A b \in Names(walked) : index[b] # NoRow \/ Met(b)'
    BY <1>3, <1>4 DEF Names
  <1> QED BY <1>1, <1>5 DEF FlowInv, Names

\* The deletion and the pruning of catalogs leave new rows alone.
LEMMA CleanUpFlow ==
  ASSUME ScanInv, RowsInv, FlowInv, DeleteUnavailable \/ PruneCatalogs
  PROVE  FlowInv'
  <1>1. /\ phase \in {"delete", "prune"} /\ phase' \in {"prune", "counters"}
        /\ UNCHANGED <<suppressed, index, walked, exempt, errors>>
        /\ books \subseteq RowType(RowId, Book)
    BY DEF DeleteUnavailable, PruneCatalogs, env, seen, ScanInv, TypeOK
  <1>2. \A s \in books : s.avail = Confirmed => s \in books'
    <2>1. CASE books' = books
      BY <2>1
    <2>2. CASE books' = LogicalDelete(books) \/ books' = PhysicalDelete(books)
      BY <1>1, <2>2, DroppedRows
    <2>3. CASE books' = PruneEmpty(books, DirOf)
      BY <1>1, <2>3 DEF PruneEmpty, Live, RowType
    <2> QED BY <2>1, <2>2, <2>3 DEF DeleteUnavailable, PruneCatalogs
  <1>3. ASSUME NEW b, index[b] = NoRow, Met(b) PROVE Met(b)'
    <2>1. CASE b \in suppressed \cup exempt
      BY <1>1, <2>1 DEF Met
    <2>2. CASE b \notin suppressed \cup exempt
      <3>1. PICK r \in books : r.file = b
        BY <1>3, <2>2 DEF Met
      <3>2. NewRow(r)
        BY <1>3, <2>2, <3>1 DEF NewRow
      <3>3. r.avail = Confirmed
        BY <1>1, <3>2 DEF RowsInv, NewRowsAreAdded, Active
      <3> QED BY <1>2, <3>1, <3>3 DEF Met
    <2> QED BY <2>1, <2>2
  <1>4. ~errors => \A b \in Names(walked) : index[b] # NoRow \/ Met(b)'
    BY <1>1, <1>3 DEF FlowInv
  <1> QED BY <1>1, <1>4 DEF FlowInv, Names

LEMMA StepFlow ==
  ScanInv /\ PipeInv /\ WriterInv /\ RowsInv /\ FlowInv /\ [Next]_vars => FlowInv'
  <1> SUFFICES ASSUME ScanInv, PipeInv, WriterInv, RowsInv, FlowInv, [Next]_vars PROVE FlowInv'
    OBVIOUS
  <1>0. TypeOK /\ WorkersRest
    BY DEF ScanInv
  <1>1. CASE AcquireLock \/ Snapshot \/ MarkUnverified
    <2>1. phase' \in {"snapshot", "mark", "walk"}
      BY <1>1 DEF AcquireLock, Snapshot, MarkUnverified
    <2> QED BY <2>1 DEF FlowInv
  <1>2. CASE Walk
    <2>1. /\ phase' = "work" /\ todo' = walked' /\ UNCHANGED marked /\ phase = "walk"
      BY <1>2 DEF Walk
    <2>2. marked' = {}
      BY <2>1 DEF RowsInv, MarkedAreNew
    <2> QED BY <2>1, <2>2 DEF FlowInv, Examined, ToLookUp
  <1>3. CASE Abort \/ ReleaseLock \/ Crash
    BY <1>3, DropFlow DEF Abort, ReleaseLock, Crash
  <1>4. ASSUME NEW w \in Worker, WorkerStep(w) \/ Abandon(w), ~SkipArchive(w) PROVE FlowInv'
    BY <1>0, <1>4, WorkerFlow DEF WorkerStep
  <1>10. ASSUME NEW w \in Worker, SkipArchive(w) PROVE FlowInv'
    BY <1>0, <1>10, SkipFlow
  <1>11. ASSUME NEW w \in Worker, Panic(w) PROVE FlowInv'
    BY <1>11 DEF Panic, FlowInv
  <1>5. CASE Receive \/ Commit \/ WriterFails
    BY <1>0, <1>5, WriterFlow
  <1>6. CASE ConfirmExisting
    BY <1>6, ConfirmFlow
  <1>7. CASE DeleteUnavailable \/ PruneCatalogs
    BY <1>7, CleanUpFlow
  <1>8. CASE SendFinish
    <2>1. /\ UNCHANGED <<books, suppressed, index, walked, exempt, marked, todo, at, job, batch, writer>>
          /\ {phase, phase'} \subseteq {"work", "drain", "confirm"}
      BY <1>8 DEF SendFinish, env, seen, work
    <2>2. (errors => errors') /\ (queue' = queue \/ queue' = Append(queue, Finish))
      BY <1>8 DEF SendFinish
    <2>3. \A i \in DOMAIN queue : i \in DOMAIN queue' /\ queue'[i] = queue[i]
      <3>1. queue \in Seq(Book \cup {Finish})
        BY <1>0 DEF TypeOK
      <3>2. CASE queue' = Append(queue, Finish)
        BY <3>1, <3>2
      <3> QED BY <2>2, <3>2
    <2>4. /\ \A o : Examined(o) => Examined(o)'
          /\ \A b : Held(b) => Held(b)'
          /\ \A b : Met(b) => Met(b)'
      BY <2>1, <2>3 DEF Examined, ToLookUp, Held, Met
    <2> QED BY <2>1, <2>2, <2>4, KeepFlow
  <1>9. CASE \/ AwaitWriter \/ ChangeFiles \/ UploadWrite \/ RemoveFile \/ UploadInsert \/ UploadUndo
             \/ RemoveRow \/ UNCHANGED vars
    <2>1. /\ UNCHANGED <<index, walked, marked, todo, at, job, queue, batch, writer>>
          /\ phase' = phase \/ {phase, phase'} \subseteq {"work", "drain", "confirm"}
      BY <1>9
         DEF AwaitWriter, ChangeFiles, UploadWrite, RemoveFile, UploadInsert, UploadUndo, RemoveRow,
             vars, seen, work, pipe
    <2>2. errors => errors'
      BY <1>9 DEF AwaitWriter, ChangeFiles, UploadWrite, RemoveFile, UploadInsert, UploadUndo,
                  RemoveRow, vars
    <2>3. /\ \A o : Examined(o) => Examined(o)'
          /\ \A b : Held(b) => Held(b)'
      BY <2>1 DEF Examined, ToLookUp, Held
    <2>4. CASE phase = "idle"
      <3>1. phase' = "idle"
        BY <2>1, <2>4
      <3> QED BY <3>1 DEF FlowInv
    <2>5. CASE phase # "idle"
      <3>1. /\ suppressed \subseteq suppressed' /\ exempt \subseteq exempt'
            /\ \A r \in books : r.file \in exempt' \/ r \in books'
        BY <1>9, <2>5
           DEF AwaitWriter, ChangeFiles, UploadWrite, RemoveFile, UploadInsert, UploadUndo, RemoveRow,
               vars, env, seen, Touch
      <3>2. \A b : Met(b) => Met(b)'
        BY <3>1, KeepMet
      <3> QED BY <2>1, <2>2, <2>3, <3>2, KeepFlow
    <2> QED BY <2>4, <2>5
  <1> QED
    BY <1>1, <1>2, <1>3, <1>4, <1>5, <1>6, <1>7, <1>8, <1>9, <1>10, <1>11
    DEF Next, ScanStep, MainStep, WriterStep, Failure, OutsideStep, WorkerStep

LEMMA ReconcilingHolds == Spec => [](WriterInv /\ RowsInv /\ FlowInv)
  <1>1. Init => WriterInv /\ RowsInv /\ FlowInv
    BY DEF Init, WriterInv, RowsInv, IndexNamesBook, NewRowsAreAdded, MarkedAreNew, DoubtedRows,
           IndexedRowsStay, Active, FlowInv
  <1>2. /\ ScanInv /\ PipeInv /\ WriterInv /\ [Next]_vars => WriterInv'
        /\ ScanInv /\ PipeInv /\ OnePlace /\ RowsInv /\ [Next]_vars => RowsInv'
        /\ ScanInv /\ PipeInv /\ WriterInv /\ RowsInv /\ FlowInv /\ [Next]_vars => FlowInv'
    BY StepWriter, StepRows, StepFlow
  <1> QED BY <1>1, <1>2, BookkeepingCorrect, PipelineHolds, PlacesHold, PTL DEF Spec

\* A scan that counts no error leaves the listings equal to its walk, one row for each
\* book, for every library, however its workers, the writer, uploads, deletions and
\* crashes before it interleave.
THEOREM CleanScanSafe == Spec => []CleanScanReconciles
  <1>1. ScanInv /\ OnePlace /\ RowsInv /\ FlowInv => CleanScanReconciles
    <2> SUFFICES ASSUME ScanInv, OnePlace, RowsInv, FlowInv, phase = "counters", ~errors
                 PROVE  /\ Shown(books) \ exempt \subseteq Names(walked)
                        /\ Names(walked) \ (suppressed \cup exempt) \subseteq Shown(books)
                        /\ \A r, s \in Live(books) : r.file = s.file /\ r.file \notin exempt => r = s
      BY DEF CleanScanReconciles
    <2>1. Active /\ books \subseteq RowType(RowId, Book) /\ UniqueIds(books)
      BY DEF Active, ScanInv, TypeOK
    <2>2. \A r \in Live(books) : r \in books /\ r.avail # Deleted
      BY DEF Live
    <2>3. \A r \in books : r.avail # Deleted => r \in Live(books)
      BY <2>1 DEF Live, RowType
    <2>4. \A r \in Live(books) : OldRow(r) => r.id = index[r.file] /\ r.file \in Names(walked)
      BY <2>2 DEF RowsInv, DoubtedRows
    <2>5. \A r \in books : NewRow(r) => r.avail = Confirmed /\ r.file \in Names(walked)
      BY <2>1 DEF RowsInv, NewRowsAreAdded, MarkedAreNew, NewToScan, OnePlace
    <2>6. Shown(books) \ exempt \subseteq Names(walked)
      BY <2>2, <2>4, <2>5 DEF Shown, NewRow, OldRow
    <2>7. ASSUME NEW b \in Names(walked) \ (suppressed \cup exempt) PROVE b \in Shown(books)
      <3>1. CASE index[b] # NoRow
        <4>1. b \in Book
          BY <2>7, ConstantsAssumption DEF Names, ScanInv, TypeOK
        <4>2. PICK r \in books : r.id = index[b] /\ r.avail # Deleted
          BY <2>7, <3>1, <4>1 DEF RowsInv, IndexedRowsStay
        <4>3. r.file = b
          BY <2>1, <4>1, <4>2 DEF RowsInv, IndexNamesBook
        <4> QED BY <2>3, <4>2, <4>3 DEF Shown
      <3>2. CASE index[b] = NoRow
        <4>1. PICK r \in books : r.file = b
          BY <2>7, <3>2 DEF FlowInv, Met
        <4>2. r.avail = Confirmed
          BY <2>5, <2>7, <3>2, <4>1 DEF NewRow
        <4> QED BY <2>3, <4>1, <4>2 DEF Shown
      <3> QED BY <3>1, <3>2
    <2>8. ASSUME NEW r \in Live(books), NEW s \in Live(books), r.file = s.file, r.file \notin exempt
          PROVE  r = s
      <3>1. CASE index[r.file] = NoRow
        BY <2>1, <2>2, <2>8, <3>1 DEF NewRow, RowsInv, NewRowsAreAdded
      <3>2. CASE index[r.file] # NoRow
        <4>1. r.id = s.id
          BY <2>4, <2>8, <3>2 DEF OldRow
        <4> QED BY <2>1, <2>2, <4>1 DEF UniqueIds
      <3> QED BY <3>1, <3>2
    <2> QED BY <2>6, <2>7, <2>8
  <1> QED BY <1>1, ReconcilingHolds, PlacesHold, BookkeepingCorrect, PTL

-----------------------------------------------------------------------------
(* Every step of the scanner is a step of Catalogue, or invisible to it       *)

USE DEF C!Deleted, C!Unverified, C!Confirmed

LEMMA InitRefines == Init => C!Init
  BY DEF Init, C!Init, C!Unknown, Stage, NoIndex, Names

\* The statements on the table are the same there.
LEMMA SameTable ==
  /\ \A i, b, a : C!Row(i, b, a) = Row(i, b, a)
  /\ \A t : C!Ids(t) = Ids(t) /\ C!Live(t) = Live(t)
  /\ \A t, b : C!RowsOf(t, b) = RowsOf(t, b)
  /\ \A t : C!UniqueIds(t) <=> UniqueIds(t)
  /\ \A t, a : C!SetAvailAll(t, a) = SetAvailAll(t, a)
  /\ \A t, ids : C!ConfirmIds(t, ids) = ConfirmIds(t, ids)
  /\ \A t, S : C!ConfirmAll(t, S) = ConfirmAll(t, S)
  /\ \A t : C!LogicalDelete(t) = LogicalDelete(t)
  /\ \A t : C!PhysicalDelete(t) = PhysicalDelete(t)
  /\ \A t, i : C!DeleteRow(t, i) = DeleteRow(t, i)
  /\ \A t, dir : C!PruneEmpty(t, dir) = PruneEmpty(t, dir)
  <1>1. /\ C!Deleted = Deleted /\ C!Unverified = Unverified /\ C!Confirmed = Confirmed
        /\ \A r, a : C!With(r, a) = With(r, a)
    BY DEF C!With, With
  <1>2. \A i, b, a : C!Row(i, b, a) = Row(i, b, a)
    BY DEF C!Row, Row
  <1>3. \A t : C!Ids(t) = Ids(t) /\ C!Live(t) = Live(t)
    BY <1>1 DEF C!Ids, C!Live, Ids, Live
  <1>4. \A t, b : C!RowsOf(t, b) = RowsOf(t, b)
    BY DEF C!RowsOf, RowsOf
  <1>5. \A t : C!UniqueIds(t) <=> UniqueIds(t)
    BY DEF C!UniqueIds, UniqueIds
  <1>6. \A t, a : C!SetAvailAll(t, a) = SetAvailAll(t, a)
    BY <1>1 DEF C!SetAvailAll, SetAvailAll
  <1>7. \A t, ids : C!ConfirmIds(t, ids) = ConfirmIds(t, ids)
    BY <1>1 DEF C!ConfirmIds, ConfirmIds
  <1>8. /\ \A t : C!LogicalDelete(t) = LogicalDelete(t)
        /\ \A t : C!PhysicalDelete(t) = PhysicalDelete(t)
    BY <1>1 DEF C!LogicalDelete, LogicalDelete, C!PhysicalDelete, PhysicalDelete
  <1>9. \A t, i : C!DeleteRow(t, i) = DeleteRow(t, i)
    BY DEF C!DeleteRow, DeleteRow
  <1>10. \A t, S : C!ConfirmAll(t, S) = ConfirmAll(t, S)
    BY <1>1 DEF C!ConfirmAll, ConfirmAll
  <1>11. \A t, dir : C!PruneEmpty(t, dir) = PruneEmpty(t, dir)
    BY <1>3 DEF C!PruneEmpty, PruneEmpty
  <1> QED BY <1>2, <1>3, <1>4, <1>5, <1>6, <1>7, <1>8, <1>9, <1>10, <1>11

LEMMA StageOf ==
  /\ phase = "idle" => Stage = "idle"
  /\ phase = "snapshot" => Stage = "begun"
  /\ phase = "mark" => Stage = "indexed"
  /\ phase = "walk" => Stage = "doubting"
  /\ phase \in {"work", "stuck", "drain", "confirm"} => Stage = "reading"
  /\ phase = "delete" => Stage = IF errors THEN "failed" ELSE "verified"
  /\ phase = "prune" => Stage = "dropped"
  /\ phase = "counters" => Stage = "purged"
  BY DEF Stage

LEMMA StageNext ==
  /\ phase' = "idle" => Stage' = "idle"
  /\ phase' = "snapshot" => Stage' = "begun"
  /\ phase' = "mark" => Stage' = "indexed"
  /\ phase' = "walk" => Stage' = "doubting"
  /\ phase' \in {"work", "stuck", "drain", "confirm"} => Stage' = "reading"
  /\ phase' = "delete" => Stage' = IF errors' THEN "failed" ELSE "verified"
  /\ phase' = "prune" => Stage' = "dropped"
  /\ phase' = "counters" => Stage' = "purged"
  BY DEF Stage

\* A step that changes neither the table nor the context.
LEMMA StutterStep ==
  ASSUME UNCHANGED <<books, index, walked>>, UNCHANGED <<phase, errors>>
  PROVE  UNCHANGED C!cvars
  <1>1. Stage' = Stage
    BY DEF Stage
  <1> QED BY <1>1 DEF C!cvars, Names

\* Errors are counted before the deletion step only.
LEMMA WorkStep ==
  ASSUME UNCHANGED <<books, index, walked>>,
         phase \in {"work", "stuck", "drain", "confirm"},
         phase' \in {"work", "stuck", "drain", "confirm"}
  PROVE  UNCHANGED C!cvars
  <1>1. Stage' = Stage
    BY StageOf, StageNext
  <1> QED BY <1>1 DEF C!cvars, Names

\* However a scan ends, it is the end of a scan, or nothing if none was running.
LEMMA EndStep ==
  ASSUME TypeOK, PipeInv, DropContext, books' = books
  PROVE  C!End \/ UNCHANGED C!cvars
  <1>1. Stage' = "idle" /\ index' = C!Unknown /\ Names(walked)' = {}
    BY StageNext DEF DropContext, NoIndex, C!Unknown, Names
  <1>2. CASE phase = "idle"
    <2>1. Stage = "idle" /\ index = C!Unknown /\ Names(walked) = {}
      BY <1>2, StageOf DEF PipeInv, NoIndex, C!Unknown, Names
    <2> QED BY <1>1, <2>1 DEF C!cvars
  <1>3. CASE phase # "idle"
    <2>1. Stage # "idle"
      BY <1>3, StageOf DEF TypeOK, Phases
    <2> QED BY <1>1, <2>1 DEF C!End
  <1> QED BY <1>2, <1>3

\* A committed batch is a set of new rows, for books the scan had no row of.
LEMMA CommitStep ==
  ASSUME TypeOK, PipeInv, Commit
  PROVE  C!Insert
  <1>1. PICK ids \in Injection(DOMAIN batch, FreshIds) :
          books' = books \cup {Row(ids[i], batch[i], Confirmed) : i \in DOMAIN batch}
    BY DEF Commit
  <1> DEFINE new == {Row(ids[i], batch[i], Confirmed) : i \in DOMAIN batch}
  <1>2. ids \in [DOMAIN batch -> FreshIds] /\ \A i, j \in DOMAIN batch : ids[i] = ids[j] => i = j
    BY <1>1 DEF Injection, IsInjective
  <1>3. new \subseteq C!NewRows({b \in Names(walked) : index[b] = NoRow})
    <2> SUFFICES ASSUME NEW i \in DOMAIN batch
                 PROVE  Row(ids[i], batch[i], Confirmed)
                          \in C!NewRows({b \in Names(walked) : index[b] = NoRow})
      OBVIOUS
    <2>1. ids[i] \in RowId \ Ids(books)
      BY <1>2 DEF FreshIds
    <2>2. batch[i] \in Names(walked) /\ index[batch[i]] = NoRow
      BY DEF PipeInv, NewToScan
    <2>3. Row(ids[i], batch[i], Confirmed) = C!Row(ids[i], batch[i], C!Confirmed)
      BY SameTable
    <2>4. ids[i] \in RowId \ C!Ids(books)
      BY <2>1, SameTable
    <2> QED BY <2>2, <2>3, <2>4 DEF C!NewRows
  <1>4. UniqueIds(new)
    BY <1>2 DEF UniqueIds, Row
  <1>5. phase \in {"work", "stuck", "drain"} /\ UNCHANGED <<phase, index, walked>>
    BY DEF Commit, PipeInv, seen
  <1>6. Stage = "reading" /\ Stage' = "reading"
    BY <1>5, StageOf, StageNext
  <1> QED BY <1>1, <1>3, <1>4, <1>5, <1>6, SameTable DEF C!Insert, Names

\* Without an error the confirmed ids are those of all the books the walk found, but
\* for the books of skipped archives, whose rows are Confirmed already.
LEMMA ConfirmStep ==
  ASSUME ScanInv, PipeInv, RowsInv, ConfirmExisting
  PROVE  C!Verify \/ C!VerifyPartly
  <1>1. confirmed \subseteq C!Kept
    BY DEF PipeInv, C!Kept
  <1>2. Stage = "reading" /\ UNCHANGED <<index, walked, errors>>
        /\ phase' = "delete" /\ books' = ConfirmIds(books, confirmed)
    BY StageOf DEF ConfirmExisting, seen
  <1>3. CASE errors
    <2>1. Stage' = "failed"
      BY <1>2, <1>3, StageNext
    <2> QED BY <1>1, <1>2, <2>1, SameTable DEF C!VerifyPartly, Names
  <1>4. CASE ~errors
    <2>1. \A o \in walked : index[NameOf[o]] \in {NoRow} \cup confirmed \/ NameOf[o] \in Vouched
      BY <1>4 DEF ConfirmExisting, ScanInv, Accounted, WorkersRest, ToLookUp
    <2>2. ASSUME NEW r \in books, r.avail = Unverified PROVE r.id \in confirmed <=> r.id \in C!Kept
      <3>1. ASSUME r.id \in C!Kept, r.id \notin confirmed PROVE FALSE
        <4>1. PICK o \in walked : r.id = index[NameOf[o]] /\ r.id # NoRow
          BY <3>1 DEF C!Kept, Names
        <4>2. NameOf[o] \in Vouched /\ NameOf[o] \in Book
          BY <2>1, <3>1, <4>1, ConstantsAssumption DEF ScanInv, TypeOK
        <4>3. r.file = NameOf[o]
          BY <4>1, <4>2 DEF ConfirmExisting, RowsInv, IndexNamesBook, Active
        <4> QED BY <2>2, <4>2, <4>3 DEF ScanInv, VouchedRows
      <3> QED BY <1>1, <3>1
    <2>3. Stage' = "verified"
      BY <1>2, <1>4, StageNext
    <2>4. ConfirmIds(books, confirmed) = ConfirmIds(books, C!Kept)
      BY <2>2 DEF ConfirmIds
    <2> QED BY <1>2, <2>3, <2>4, SameTable DEF C!Verify, Names
  <1> QED BY <1>3, <1>4 DEF ScanInv, TypeOK

LEMMA StepRefines ==
  ASSUME ScanInv, PipeInv, RowsInv, [Next]_vars
  PROVE  C!Next \/ UNCHANGED C!cvars
  <1> USE ConstantsAssumption
  <1>0. TypeOK /\ WorkersRest
    BY DEF ScanInv
  <1>1. CASE AcquireLock
    <2>1. Stage = "idle" /\ Stage' = "begun" /\ UNCHANGED <<books, index, walked>>
      BY <1>1, StageOf, StageNext DEF AcquireLock, seen
    <2> QED BY <2>1 DEF C!Next, C!Begin, Names
  <1>2. CASE Snapshot
    <2>1. Stage = "begun" /\ Stage' = "indexed" /\ UNCHANGED <<books, walked>>
      BY <1>2, StageOf, StageNext DEF Snapshot
    <2>2. /\ index' \in [Book -> RowId \cup {NoRow}]
          /\ \A b \in Book : IF RowsOf(books, b) = {}
                             THEN index'[b] = NoRow
                             ELSE index'[b] \in Ids(RowsOf(books, b))
      BY <1>2 DEF Snapshot
    <2>3. C!Index
      BY <2>1, <2>2, SameTable DEF C!Index, Names
    <2> QED BY <2>3 DEF C!Next
  <1>3. CASE MarkUnverified
    <2>1. Stage = "indexed" /\ Stage' = "doubting" /\ UNCHANGED <<index, walked>>
      BY <1>3, StageOf, StageNext DEF MarkUnverified, seen
    <2>2. C!Doubt
      BY <1>3, <2>1, SameTable DEF MarkUnverified, C!Doubt, Names
    <2> QED BY <2>2 DEF C!Next
  <1>4. CASE Walk
    <2>1. Stage = "doubting" /\ Stage' = "reading" /\ UNCHANGED <<books, index>>
      BY <1>4, StageOf, StageNext DEF Walk
    <2>2. walked' \subseteq Occ
      BY <1>0, <1>4 DEF Walk, TypeOK
    <2>3. Names(walked)' \in SUBSET Book
      BY <2>2 DEF Names
    <2> QED BY <2>1, <2>3 DEF C!Next, C!Find
  <1>5. CASE Abort \/ ReleaseLock \/ Crash
    <2>1. DropContext /\ books' = books
      BY <1>5 DEF Abort, ReleaseLock, Crash
    <2> QED BY <1>0, <2>1, EndStep DEF C!Next
  <1>6. ASSUME NEW w \in Worker, WorkerStep(w) \/ Abandon(w), ~SkipArchive(w)
        PROVE  UNCHANGED C!cvars
    <2>1. phase = "work" /\ UNCHANGED <<books, index, walked, phase>>
      BY <1>0, <1>6
      DEF WorkerStep, Take, Lookup, FindRow, CheckSuppressed, Enqueue, ChannelClosed, Abandon,
          WorkersRest, seen
    <2> QED BY <2>1, WorkStep
  <1>17. ASSUME NEW w \in Worker, SkipArchive(w) PROVE C!Vouch
    <2>1. PICK a \in Archive \ skipped :
            /\ {o \in walked : NameOf[o] \in BooksIn(a)} # {}
            /\ \E r \in books : r.file \in BooksIn(a)
            /\ books' = ConfirmAll(books, BooksIn(a))
      BY <1>17 DEF SkipArchive
    <2>2. BooksIn(a) \cap Names(walked) # {}
      BY <2>1 DEF Names
    <2>3. phase = "work" /\ UNCHANGED <<phase, index, walked>>
      BY <1>17 DEF SkipArchive
    <2>4. Stage = "reading" /\ Stage' = "reading"
      BY <2>3, StageOf, StageNext
    <2> QED BY <2>1, <2>2, <2>3, <2>4, SameTable DEF C!Vouch, Names
  <1>18. ASSUME NEW w \in Worker, Panic(w) PROVE UNCHANGED C!cvars
    <2>1. phase = "work" /\ phase' = "stuck" /\ UNCHANGED <<books, index, walked>>
      BY <1>0, <1>18 DEF Panic, WorkersRest, seen
    <2> QED BY <2>1, WorkStep
  <1>7. CASE Receive \/ WriterFails
    <2>1. UNCHANGED <<books, index, walked>> /\ UNCHANGED <<phase, errors>>
      BY <1>7 DEF Receive, WriterFails, seen
    <2> QED BY <2>1, StutterStep
  <1>8. CASE Commit
    BY <1>0, <1>8, CommitStep DEF C!Next
  <1>9. CASE SendFinish \/ AwaitWriter
    <2>1. /\ UNCHANGED <<books, index, walked>>
          /\ phase \in {"work", "drain", "confirm"} /\ phase' \in {"work", "drain", "confirm"}
      BY <1>9 DEF SendFinish, AwaitWriter, seen
    <2> QED BY <2>1, WorkStep
  <1>10. CASE ConfirmExisting
    BY <1>10, ConfirmStep DEF C!Next
  <1>11. CASE DeleteUnavailable
    <2>1. /\ UNCHANGED <<index, walked>> /\ Stage' = "dropped"
          /\ Stage = IF errors THEN "failed" ELSE "verified"
      BY <1>11, StageOf, StageNext DEF DeleteUnavailable, seen
    <2>2. CASE errors
      BY <1>11, <2>1, <2>2 DEF DeleteUnavailable, C!Next, C!Drop, Names
    <2>3. CASE ~errors
      BY <1>11, <2>1, <2>3, SameTable DEF DeleteUnavailable, C!Next, C!Drop, Names
    <2> QED BY <2>2, <2>3
  <1>12. CASE PruneCatalogs
    <2>1. Stage = "dropped" /\ Stage' = "purged" /\ UNCHANGED <<index, walked>>
      BY <1>12, StageOf, StageNext DEF PruneCatalogs, seen
    <2> QED BY <1>12, <2>1, SameTable DEF PruneCatalogs, C!Next, C!Purge, Names
  <1>13. CASE ChangeFiles \/ UploadWrite \/ UploadUndo \/ RemoveFile
    <2>1. UNCHANGED <<books, index, walked>> /\ UNCHANGED <<phase, errors>>
      BY <1>13 DEF ChangeFiles, UploadWrite, UploadUndo, RemoveFile, seen
    <2> QED BY <2>1, StutterStep
  <1>14. CASE UploadInsert
    <2>1. UNCHANGED <<index, walked>> /\ UNCHANGED <<phase, errors>>
      BY <1>14 DEF UploadInsert
    <2>2. CASE books' = books
      BY <2>1, <2>2, StutterStep
    <2>3. ASSUME NEW i \in FreshIds, books' = books \cup {Row(i, NameOf[upload], Confirmed)}
          PROVE  C!Publish
      <3>1. i \in RowId \ C!Ids(books) /\ NameOf[upload] \in Book
        BY <1>0, <1>14, <2>3, SameTable DEF UploadInsert, FreshIds, TypeOK
      <3>2. C!Row(i, NameOf[upload], C!Confirmed) \in C!NewRows(Book)
        BY <3>1 DEF C!NewRows
      <3>3. Stage' = Stage
        BY <2>1 DEF Stage
      <3> QED BY <2>1, <2>3, <3>2, <3>3, SameTable DEF C!Publish, Names
    <2> QED BY <1>14, <2>2, <2>3 DEF UploadInsert, C!Next
  <1>15. CASE RemoveRow
    <2>1. UNCHANGED <<index, walked>> /\ UNCHANGED <<phase, errors>>
      BY <1>15 DEF RemoveRow
    <2>2. CASE books' = books
      BY <2>1, <2>2, StutterStep
    <2>3. CASE books' = DeleteRow(books, removal) /\ books' # books
      <3>1. removal \in Ids(books)
        BY <2>3 DEF DeleteRow, Ids
      <3>2. Stage' = Stage
        BY <2>1 DEF Stage
      <3> QED BY <2>1, <2>3, <3>1, <3>2, SameTable DEF C!Next, C!Remove, Names
    <2> QED BY <1>15, <2>2, <2>3 DEF RemoveRow
  <1>16. CASE UNCHANGED vars
    <2>1. UNCHANGED <<books, index, walked>> /\ UNCHANGED <<phase, errors>>
      BY <1>16 DEF vars, seen
    <2> QED BY <2>1, StutterStep
  <1> QED
    BY <1>1, <1>2, <1>3, <1>4, <1>5, <1>6, <1>7, <1>8, <1>9, <1>10, <1>11, <1>12, <1>13, <1>14,
       <1>15, <1>16, <1>17, <1>18
    DEF Next, ScanStep, MainStep, WriterStep, Failure, OutsideStep, WorkerStep, C!Next

\* Whatever the interleaving of its workers, its writer, its failures and the rest
\* of the server, the scanner does to the catalogue only what Catalogue lets a scan
\* do.
THEOREM CatalogueImplemented == Spec => ImplementsCatalogue
  <1>1. Init => C!Init
    BY InitRefines
  <1>2. ScanInv /\ PipeInv /\ RowsInv /\ [Next]_vars => [C!Next]_C!cvars
    BY StepRefines
  <1> QED BY <1>1, <1>2, BookkeepingCorrect, PipelineHolds, ReconcilingHolds, PTL
          DEF Spec, ImplementsCatalogue, C!Spec
=============================================================================
