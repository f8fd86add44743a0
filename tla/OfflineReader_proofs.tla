-------------------------- MODULE OfflineReader_proofs --------------------------
(* RowHasFiles and LastPlaceIsKept of OfflineReader, proved for any books,    *)
(* tabs, environments, limits of the cache and bounds.                        *)
EXTENDS OfflineReader, TLAPS, FiniteSetTheorems

\* The environments in which RowHasFiles is promised.
Alone == env \cap {"two tabs", "server error"} = {}

\* Every tab, and what it is a record of.
Fields == {"stage", "book", "saved", "cur", "timer", "live", "req", "prime", "victim", "idb",
           "keys", "entry"}
Shape ==
  /\ DOMAIN tab = Tab /\ \A t \in Tab : DOMAIN tab[t] = Fields
  /\ DOMAIN row = Book /\ DOMAIN page = Book

OneTab == \A t, u \in Tab : tab[t].stage # "closed" /\ tab[u].stage # "closed" => t = u

\* A copy is made only by a page whose book is open, and the page is asked for only by a
\* navigation or a copy.
PrimeFollowsBook ==
  \A t \in Tab :
    /\ tab[t].stage \in {"closed", "opening", "page", "failed"} => tab[t].prime = "idle"
    /\ tab[t].stage # "closed" => tab[t].book \in Book
    /\ tab[t].req # Nothing =>
         tab[t].stage # "closed" /\ (tab[t].stage = "opening" \/ tab[t].prime = "html")

\* How far a copy is: the bytes before the page, both before the row; and the row of a book
\* that is evicted is gone before its files go.
PrimeIsInOrder ==
  \A t \in Tab :
    /\ tab[t].prime \in {"html", "row"} => tab[t].book \in bytes
    /\ tab[t].prime = "row" => page[tab[t].book] # Nothing
    /\ tab[t].prime \in {"files", "bytes", "queued"} =>
         tab[t].victim \in Book /\ row[tab[t].victim] = Nothing

Listed == \A b \in Book : row[b] # Nothing => page[b] # Nothing /\ b \in bytes

OfflineInv == Shape /\ (Alone => OneTab /\ PrimeFollowsBook /\ PrimeIsInOrder /\ Listed)

-----------------------------------------------------------------------------
\* What a step leaves of a tab.
SameCopyButReq(t) == tab'[t].book = tab[t].book /\ tab'[t].prime = tab[t].prime /\ tab'[t].victim = tab[t].victim
SameCopy(t) == SameCopyButReq(t) /\ tab'[t].req = tab[t].req
Same(t) == SameCopy(t) /\ tab'[t].stage = tab[t].stage
RunsOn(t) == tab[t].stage \in Running /\ tab'[t].stage \in {"reading", "leaving"}

\* Turning pages, saving and replaying positions, and the clock.
LEMMA QuietListed ==
  ASSUME OfflineInv, Shape', UNCHANGED <<env, page, bytes>>,
         \A b \in Book : row[b] = Nothing => row'[b] = Nothing,
         \A t \in Tab : Same(t) \/ (SameCopy(t) /\ RunsOn(t))
  PROVE  OfflineInv'
<1> USE DEF OfflineInv, Same, SameCopy, SameCopyButReq, RunsOn, Running
<1>1. Alone' = Alone
  BY DEF Alone
<1>2. ASSUME Alone PROVE OneTab'
  BY <1>2 DEF OneTab
<1>3. ASSUME Alone PROVE PrimeFollowsBook'
  BY <1>3 DEF PrimeFollowsBook
<1>4. ASSUME Alone PROVE PrimeIsInOrder'
  BY <1>4 DEF PrimeIsInOrder
<1>5. ASSUME Alone PROVE Listed'
  BY <1>5 DEF Listed
<1> QED BY <1>1, <1>2, <1>3, <1>4, <1>5

\* The scripts of a page start; without a cache they wipe it.
LEMMA StartedListed ==
  ASSUME OfflineInv, NEW t \in Tab, tab[t].stage = "opening", NEW saved, Started(t, saved), env' = env
  PROVE  OfflineInv'
<1>1. Shape' /\ Alone' = Alone
  <2>1. DOMAIN tab' = Tab /\ \A u \in Tab : DOMAIN tab'[u] = Fields
    BY DEF OfflineInv, Shape, Fields, Started
  <2>2. DOMAIN row' = Book /\ DOMAIN page' = Book
    BY DEF OfflineInv, Shape, Started
  <2> QED BY <2>1, <2>2 DEF Shape, Alone
<1>2. \A u \in Tab : u # t => Same(u)
  BY DEF OfflineInv, Shape, Fields, Same, SameCopy, SameCopyButReq, Started
<1>3. SameCopyButReq(t) /\ tab'[t].stage = "page" /\ tab'[t].req = Nothing
  BY DEF OfflineInv, Shape, Fields, SameCopyButReq, Started
<1>4. UNCHANGED <<row, page, bytes>> \/ \A b \in Book : row'[b] = Nothing
  BY DEF Started
<1>5. ASSUME Alone PROVE \A u \in Tab : tab[u].prime = "idle"
  BY <1>5 DEF OfflineInv, OneTab, PrimeFollowsBook
<1>6. ASSUME Alone PROVE OneTab' /\ PrimeFollowsBook' /\ PrimeIsInOrder'
  BY <1>2, <1>3, <1>5, <1>6 DEF OfflineInv, OneTab, PrimeFollowsBook, PrimeIsInOrder, Same,
     SameCopy, SameCopyButReq
<1>7. ASSUME Alone PROVE Listed'
  BY <1>4, <1>7 DEF OfflineInv, Listed
<1> QED BY <1>1, <1>6, <1>7 DEF OfflineInv


LEMMA TickListed ==
  ASSUME OfflineInv, Tick
  PROVE  OfflineInv'
<1>1. /\ Shape' /\ UNCHANGED <<env, page, bytes>>
      /\ \A b \in Book : row[b] = Nothing => row'[b] = Nothing
  BY DEF OfflineInv, Shape, Fields, Tick, stores
<1>2. \A u \in Tab : Same(u)
  BY DEF OfflineInv, Shape, Fields, Same, SameCopy, SameCopyButReq, Tick, stores
<1> QED BY <1>1, <1>2, QuietListed DEF Same

LEMMA GoOfflineListed ==
  ASSUME OfflineInv, GoOffline
  PROVE  OfflineInv'
<1>1. /\ Shape' /\ UNCHANGED <<env, page, bytes>>
      /\ \A b \in Book : row[b] = Nothing => row'[b] = Nothing
  BY DEF OfflineInv, Shape, Fields, GoOffline, stores
<1>2. \A u \in Tab : Same(u)
  BY DEF OfflineInv, Shape, Fields, Same, SameCopy, SameCopyButReq, GoOffline, stores
<1> QED BY <1>1, <1>2, QuietListed DEF Same

LEMMA GoOnlineListed ==
  ASSUME OfflineInv, GoOnline
  PROVE  OfflineInv'
<1>1. /\ Shape' /\ UNCHANGED <<env, page, bytes>>
      /\ \A b \in Book : row[b] = Nothing => row'[b] = Nothing
  BY DEF OfflineInv, Shape, Fields, GoOnline, Running, stores
<1>2. \A u \in Tab : Same(u)
  BY DEF OfflineInv, Shape, Fields, Same, SameCopy, SameCopyButReq, GoOnline, Running, stores
<1> QED BY <1>1, <1>2, QuietListed DEF Same

LEMMA OpenListed ==
  ASSUME OfflineInv, NEW t \in Tab, NEW b \in Book, Open(t, b)
  PROVE  OfflineInv'
<1>1. Shape' /\ Alone' = Alone /\ UNCHANGED <<row, page, bytes>>
  BY DEF OfflineInv, Shape, Fields, Alone, Open, stores
<1>2. \A u \in Tab : u # t => Same(u)
  BY DEF OfflineInv, Shape, Fields, Same, SameCopy, SameCopyButReq, Open, stores
<1>3. /\ tab[t].stage = "closed" /\ tab'[t].stage = "opening" /\ tab'[t].book = b
      /\ tab'[t].req = tab[t].req /\ tab'[t].prime = tab[t].prime
  BY DEF OfflineInv, Shape, Fields, Open, stores
<1>4. ASSUME Alone PROVE \A u \in Tab : tab[u].stage = "closed" /\ tab[u].prime = "idle"
  BY <1>4 DEF OfflineInv, PrimeFollowsBook, Alone, Open
<1>5. ASSUME Alone PROVE OneTab' /\ PrimeFollowsBook' /\ PrimeIsInOrder' /\ Listed'
  BY <1>1, <1>2, <1>3, <1>4, <1>5 DEF OfflineInv, OneTab, PrimeFollowsBook, PrimeIsInOrder, Listed,
                                      Same, SameCopy, SameCopyButReq
<1> QED BY <1>1, <1>5 DEF OfflineInv

LEMMA PageReadListed ==
  ASSUME OfflineInv, NEW t \in Tab, PageRead(t)
  PROVE  OfflineInv'
<1>1. Shape' /\ Alone' = Alone
  BY DEF OfflineInv, Shape, Fields, Alone, PageRead, stores
<1>2. \A u \in Tab : u # t => Same(u)
  BY DEF OfflineInv, Shape, Fields, Same, SameCopy, SameCopyButReq, PageRead, stores
<1>3. /\ tab[t].req = Nothing /\ (tab[t].stage = "opening" \/ tab[t].prime = "html")
      /\ tab'[t].stage = tab[t].stage /\ tab'[t].book = tab[t].book
      /\ tab'[t].prime = tab[t].prime /\ tab'[t].victim = tab[t].victim
      /\ UNCHANGED <<row, page, bytes>>
  BY DEF OfflineInv, Shape, Fields, PageRead, stores
<1>4. ASSUME Alone PROVE OneTab' /\ PrimeFollowsBook'
  BY <1>2, <1>3, <1>4 DEF OfflineInv, OneTab, PrimeFollowsBook, Same, SameCopy, SameCopyButReq
<1>5. ASSUME Alone PROVE PrimeIsInOrder'
  <2>1. \A u \in Tab : u # t => tab[u].prime = "idle"
    BY <1>3, <1>5 DEF OfflineInv, OneTab, PrimeFollowsBook
  <2> QED BY <2>1, <1>2, <1>3, <1>5 DEF OfflineInv, PrimeFollowsBook, PrimeIsInOrder, Same, SameCopy, SameCopyButReq
<1>6. ASSUME Alone PROVE Listed'
  BY <1>6 DEF OfflineInv, Shape, PrimeIsInOrder, Listed, PageRead, stores
<1> QED BY <1>1, <1>4, <1>5, <1>6 DEF OfflineInv

LEMMA PageTouchListed ==
  ASSUME OfflineInv, NEW t \in Tab, PageTouch(t)
  PROVE  OfflineInv'
<1>1. CASE tab[t].stage = "opening"
  <2>1. Started(t, tab[t].req) /\ env' = env
    BY <1>1 DEF PageTouch
  <2> QED BY <1>1, <2>1, StartedListed
<1>2. CASE tab[t].stage # "opening"
  <2>1. /\ page' = [page EXCEPT ![tab[t].book] = tab[t].req] /\ tab[t].req # Nothing
        /\ tab' = [tab EXCEPT ![t].req = Nothing, ![t].prime = "row"] /\ UNCHANGED <<row, bytes, env>>
    BY <1>2 DEF PageTouch
  <2>2. Shape' /\ Alone' = Alone
    BY <2>1 DEF OfflineInv, Shape, Fields, Alone
  <2>3. \A u \in Tab : u # t => Same(u)
    BY <2>1 DEF OfflineInv, Shape, Same, SameCopy, SameCopyButReq
  <2>4. /\ tab'[t].stage = tab[t].stage /\ tab'[t].book = tab[t].book /\ tab'[t].prime = "row"
        /\ tab'[t].req = Nothing
    BY <2>1 DEF OfflineInv, Shape, Fields
  <2>5. ASSUME Alone PROVE tab[t].prime = "html" /\ tab[t].book \in bytes /\ tab[t].book \in Book
    BY <1>2, <2>1, <2>5 DEF OfflineInv, PrimeFollowsBook, PrimeIsInOrder
  <2>6. ASSUME Alone PROVE \A b \in Book : page'[b] = IF b = tab[t].book THEN tab[t].req ELSE page[b]
    BY <2>1, <2>5, <2>6 DEF OfflineInv, Shape
  <2>7. ASSUME Alone PROVE \A u \in Tab : u # t => tab[u].prime = "idle"
    BY <2>5, <2>7 DEF OfflineInv, OneTab, PrimeFollowsBook
  <2>8. ASSUME Alone PROVE OneTab' /\ PrimeFollowsBook'
    BY <2>3, <2>4, <2>5, <2>8 DEF OfflineInv, OneTab, PrimeFollowsBook, Same, SameCopy,
       SameCopyButReq
  <2>9. ASSUME Alone PROVE PrimeIsInOrder'
    <3>1. tab[t].book \in bytes' /\ page'[tab[t].book] # Nothing
      BY <2>1, <2>5, <2>6, <2>9
    <3>2. \A u \in Tab : u # t => tab'[u].prime = "idle"
      BY <2>3, <2>7, <2>9 DEF Same, SameCopy, SameCopyButReq
    <3> QED BY <2>4, <3>1, <3>2 DEF PrimeIsInOrder
  <2>10. ASSUME Alone PROVE Listed'
    BY <2>1, <2>6, <2>10 DEF OfflineInv, Listed
  <2> QED BY <2>2, <2>8, <2>9, <2>10 DEF OfflineInv
<1> QED BY <1>1, <1>2

LEMMA PageFromCacheListed ==
  ASSUME OfflineInv, NEW t \in Tab, PageFromCache(t)
  PROVE  OfflineInv'
<1>1. CASE page[tab[t].book] # Nothing
  <2>1. Started(t, page[tab[t].book]) /\ tab[t].stage = "opening" /\ env' = env
    BY <1>1 DEF PageFromCache
  <2> QED BY <2>1, StartedListed
<1>2. CASE page[tab[t].book] = Nothing
  <2>1. /\ tab' = [tab EXCEPT ![t] = Closed] /\ UNCHANGED <<row, page, bytes, env>>
        /\ tab[t].stage = "opening"
    BY <1>2 DEF PageFromCache
  <2>2. Shape' /\ Alone' = Alone
    BY <2>1 DEF OfflineInv, Shape, Fields, Alone, Closed
  <2>3. \A u \in Tab : u # t => Same(u)
    BY <2>1 DEF OfflineInv, Shape, Same, SameCopy, SameCopyButReq
  <2>4. tab'[t].stage = "closed" /\ tab'[t].prime = "idle" /\ tab'[t].req = Nothing
    BY <2>1 DEF OfflineInv, Shape, Closed
  <2>5. ASSUME Alone PROVE OneTab' /\ PrimeFollowsBook' /\ PrimeIsInOrder' /\ Listed'
    BY <2>1, <2>3, <2>4, <2>5 DEF OfflineInv, OneTab, PrimeFollowsBook, PrimeIsInOrder,
       Listed, Same, SameCopy, SameCopyButReq
  <2> QED BY <2>2, <2>5 DEF OfflineInv
<1> QED BY <1>1, <1>2

LEMMA FetchBookListed ==
  ASSUME OfflineInv, NEW t \in Tab, FetchBook(t)
  PROVE  OfflineInv'
<1>1. Shape' /\ Alone' = Alone
  BY DEF OfflineInv, Shape, Fields, Alone, FetchBook, stores
<1>2. \A u \in Tab : u # t => Same(u)
  BY DEF OfflineInv, Shape, Fields, Same, SameCopy, SameCopyButReq, FetchBook, stores
<1>3. /\ tab[t].stage = "page" /\ tab'[t].book = tab[t].book /\ tab'[t].req = tab[t].req
      /\ ((tab'[t].stage = "book" /\ tab'[t].prime \in {"static", "idle"}) \/ (tab'[t].stage = "failed" /\ tab'[t].prime = tab[t].prime))
  BY DEF OfflineInv, Shape, Fields, FetchBook, stores
<1>4. ASSUME Alone PROVE OneTab' /\ PrimeFollowsBook'
  BY <1>2, <1>3, <1>4 DEF OfflineInv, OneTab, PrimeFollowsBook, Same, SameCopy, SameCopyButReq
<1>5. ASSUME Alone PROVE PrimeIsInOrder'
  <2>1. \A u \in Tab : u # t => tab[u].prime = "idle"
    BY <1>3, <1>5 DEF OfflineInv, OneTab, PrimeFollowsBook
  <2> QED BY <2>1, <1>2, <1>3, <1>5 DEF OfflineInv, PrimeFollowsBook, PrimeIsInOrder, Same, SameCopy, SameCopyButReq
<1>6. ASSUME Alone PROVE Listed'
  BY <1>6 DEF OfflineInv, Shape, PrimeIsInOrder, Listed, FetchBook, stores
<1> QED BY <1>1, <1>4, <1>5, <1>6 DEF OfflineInv

LEMMA ResolveListed ==
  ASSUME OfflineInv, NEW t \in Tab, Resolve(t)
  PROVE  OfflineInv'
<1>1. /\ Shape' /\ UNCHANGED <<env, page, bytes>>
      /\ \A b \in Book : row[b] = Nothing => row'[b] = Nothing
  BY DEF OfflineInv, Shape, Fields, Resolve, stores
<1>2. \A u \in Tab : u # t => Same(u)
  BY DEF OfflineInv, Shape, Fields, Same, SameCopy, SameCopyButReq, Resolve, stores
<1>3. SameCopy(t) /\ tab'[t].stage = "reading" /\ tab[t].stage \in {"book", "reading"}
  BY DEF OfflineInv, Shape, Fields, SameCopy, SameCopyButReq, Running, Resolve, stores
<1> QED BY <1>1, <1>2, <1>3, QuietListed DEF Same, RunsOn, Running

LEMMA TurnPageListed ==
  ASSUME OfflineInv, NEW t \in Tab, TurnPage(t)
  PROVE  OfflineInv'
<1>1. /\ Shape' /\ UNCHANGED <<env, page, bytes>>
      /\ \A b \in Book : row[b] = Nothing => row'[b] = Nothing
  BY DEF OfflineInv, Shape, Fields, TurnPage, stores
<1>2. \A u \in Tab : u # t => Same(u)
  BY DEF OfflineInv, Shape, Fields, Same, SameCopy, SameCopyButReq, TurnPage, stores
<1>3. SameCopy(t) /\ tab'[t].stage = "reading" /\ tab[t].stage \in {"book", "reading"}
  BY DEF OfflineInv, Shape, Fields, SameCopy, SameCopyButReq, Running, TurnPage, stores
<1> QED BY <1>1, <1>2, <1>3, QuietListed DEF Same, RunsOn, Running

LEMMA SavePositionListed ==
  ASSUME OfflineInv, NEW t \in Tab, SavePosition(t)
  PROVE  OfflineInv'
<1>1. /\ Shape' /\ UNCHANGED <<env, page, bytes>>
      /\ \A b \in Book : row[b] = Nothing => row'[b] = Nothing
  BY DEF OfflineInv, Shape, Fields, SavePosition, Recorded
<1>2. \A u \in Tab : Same(u)
  BY DEF OfflineInv, Shape, Fields, Same, SameCopy, SameCopyButReq, SavePosition, Recorded
<1> QED BY <1>1, <1>2, QuietListed DEF Same

LEMMA HideListed ==
  ASSUME OfflineInv, NEW t \in Tab, Hide(t)
  PROVE  OfflineInv'
<1>1. Shape' /\ UNCHANGED <<env, page, bytes, row>>
  BY DEF OfflineInv, Shape, Fields, Hide, Recorded
<1>2. Recorded(t, tab[t].stage)
  BY DEF Hide
<1>3. \A u \in Tab : Same(u)
  BY <1>2 DEF OfflineInv, Shape, Fields, Same, SameCopy, SameCopyButReq, Recorded
<1> QED BY <1>1, <1>3, QuietListed

LEMMA UpdateIdbPositionListed ==
  ASSUME OfflineInv, NEW t \in Tab, UpdateIdbPosition(t)
  PROVE  OfflineInv'
<1>1. /\ Shape' /\ UNCHANGED <<env, page, bytes>>
      /\ \A b \in Book : row[b] = Nothing => row'[b] = Nothing
  BY DEF OfflineInv, Shape, Fields, UpdateIdbPosition
<1>2. \A u \in Tab : Same(u)
  BY DEF OfflineInv, Shape, Fields, Same, SameCopy, SameCopyButReq, UpdateIdbPosition
<1> QED BY <1>1, <1>2, QuietListed DEF Same

LEMMA SyncPositionToMirrorListed ==
  ASSUME OfflineInv, NEW t \in Tab, SyncPositionToMirror(t)
  PROVE  OfflineInv'
<1>1. /\ Shape' /\ UNCHANGED <<env, page, bytes>>
      /\ \A b \in Book : row[b] = Nothing => row'[b] = Nothing
  BY DEF OfflineInv, Shape, Fields, SyncPositionToMirror, SyncedToMirror
<1>2. \A u \in Tab : Same(u)
  BY DEF OfflineInv, Shape, Fields, Same, SameCopy, SameCopyButReq, SyncPositionToMirror,
     SyncedToMirror
<1> QED BY <1>1, <1>2, QuietListed DEF Same

LEMMA ReplaySyncedListed ==
  ASSUME OfflineInv, NEW t \in Tab, ReplaySynced(t)
  PROVE  OfflineInv'
<1>1. /\ Shape' /\ UNCHANGED <<env, page, bytes>>
      /\ \A b \in Book : row[b] = Nothing => row'[b] = Nothing
  BY DEF OfflineInv, Shape, Fields, ReplaySynced, SyncedToMirror
<1>2. \A u \in Tab : Same(u)
  BY DEF OfflineInv, Shape, Fields, Same, SameCopy, SameCopyButReq, ReplaySynced, SyncedToMirror
<1> QED BY <1>1, <1>2, QuietListed DEF Same

LEMMA ReplayNextListed ==
  ASSUME OfflineInv, NEW t \in Tab, ReplayNext(t)
  PROVE  OfflineInv'
<1>1. /\ Shape' /\ UNCHANGED <<env, page, bytes>>
      /\ \A b \in Book : row[b] = Nothing => row'[b] = Nothing
  BY DEF OfflineInv, Shape, Fields, ReplayNext, stores
<1>2. \A u \in Tab : Same(u)
  BY DEF OfflineInv, Shape, Fields, Same, SameCopy, SameCopyButReq, ReplayNext, stores
<1> QED BY <1>1, <1>2, QuietListed DEF Same

LEMMA ReplayArrivesListed ==
  ASSUME OfflineInv, NEW t \in Tab, ReplayArrives(t)
  PROVE  OfflineInv'
<1>1. /\ Shape' /\ UNCHANGED <<env, page, bytes>>
      /\ \A b \in Book : row[b] = Nothing => row'[b] = Nothing
  BY DEF OfflineInv, Shape, Fields, ReplayArrives
<1>2. \A u \in Tab : Same(u)
  BY DEF OfflineInv, Shape, Fields, Same, SameCopy, SameCopyButReq, ReplayArrives
<1> QED BY <1>1, <1>2, QuietListed DEF Same

LEMMA ReplayAnsweredListed ==
  ASSUME OfflineInv, NEW t \in Tab, ReplayAnswered(t)
  PROVE  OfflineInv'
<1>1. /\ Shape' /\ UNCHANGED <<env, page, bytes>>
      /\ \A b \in Book : row[b] = Nothing => row'[b] = Nothing
  BY DEF OfflineInv, Shape, Fields, ReplayAnswered, stores
<1>2. \A u \in Tab : Same(u)
  BY DEF OfflineInv, Shape, Fields, Same, SameCopy, SameCopyButReq, ReplayAnswered, stores
<1> QED BY <1>1, <1>2, QuietListed DEF Same

LEMMA ReplayFailsListed ==
  ASSUME OfflineInv, NEW t \in Tab, ReplayFails(t)
  PROVE  OfflineInv'
<1>1. /\ Shape' /\ UNCHANGED <<env, page, bytes>>
      /\ \A b \in Book : row[b] = Nothing => row'[b] = Nothing
  BY DEF OfflineInv, Shape, Fields, ReplayFails, stores
<1>2. \A u \in Tab : Same(u)
  BY DEF OfflineInv, Shape, Fields, Same, SameCopy, SameCopyButReq, ReplayFails, stores
<1> QED BY <1>1, <1>2, QuietListed DEF Same

LEMMA ReplayRefusedListed ==
  ASSUME OfflineInv, NEW t \in Tab, ReplayRefused(t)
  PROVE  OfflineInv'
<1>1. /\ Shape' /\ UNCHANGED <<env, page, bytes>>
      /\ \A b \in Book : row[b] = Nothing => row'[b] = Nothing
  BY DEF OfflineInv, Shape, Fields, ReplayRefused, stores
<1>2. \A u \in Tab : Same(u)
  <2>1. PICK left : tab' = [tab EXCEPT ![t].entry = Nothing, ![t].keys = left]
    BY DEF ReplayRefused
  <2> QED BY <2>1 DEF OfflineInv, Shape, Fields, Same, SameCopy, SameCopyButReq
<1> QED BY <1>1, <1>2, QuietListed DEF Same

LEMMA PrimeBytesListed ==
  ASSUME OfflineInv, NEW t \in Tab, PrimeBytes(t)
  PROVE  OfflineInv'
<1>1. Shape' /\ Alone' = Alone
  BY DEF OfflineInv, Shape, Fields, Alone, PrimeBytes
<1>2. \A u \in Tab : u # t => Same(u)
  BY DEF OfflineInv, Shape, Fields, Same, SameCopy, SameCopyButReq, PrimeBytes
<1>3. /\ tab[t].prime = "static" /\ tab'[t].stage = tab[t].stage /\ tab'[t].book = tab[t].book
      /\ tab'[t].req = tab[t].req
      /\ (tab'[t].prime = "idle" \/ (tab'[t].prime = "html" /\ bytes' = bytes \union {tab[t].book}))
  BY DEF OfflineInv, Shape, Fields, PrimeBytes
<1>4. ASSUME Alone PROVE OneTab' /\ PrimeFollowsBook'
  BY <1>2, <1>3, <1>4 DEF OfflineInv, OneTab, PrimeFollowsBook, Same, SameCopy, SameCopyButReq
<1>5. ASSUME Alone PROVE PrimeIsInOrder'
  <2>1. \A u \in Tab : u # t => tab[u].prime = "idle"
    BY <1>3, <1>5 DEF OfflineInv, OneTab, PrimeFollowsBook
  <2> QED BY <2>1, <1>2, <1>3, <1>5 DEF OfflineInv, PrimeFollowsBook, PrimeIsInOrder, Same, SameCopy, SameCopyButReq
<1>6. ASSUME Alone PROVE Listed'
  BY <1>6 DEF OfflineInv, Shape, PrimeIsInOrder, Listed, PrimeBytes
<1> QED BY <1>1, <1>4, <1>5, <1>6 DEF OfflineInv

LEMMA PrimeHtmlOfflineListed ==
  ASSUME OfflineInv, NEW t \in Tab, PrimeHtmlOffline(t)
  PROVE  OfflineInv'
<1>1. Shape' /\ Alone' = Alone
  BY DEF OfflineInv, Shape, Fields, Alone, PrimeHtmlOffline
<1>2. \A u \in Tab : u # t => Same(u)
  BY DEF OfflineInv, Shape, Fields, Same, SameCopy, SameCopyButReq, PrimeHtmlOffline
<1>3. /\ tab[t].prime = "html" /\ tab'[t].stage = tab[t].stage /\ tab'[t].book = tab[t].book
      /\ tab'[t].req = Nothing
      /\ (tab'[t].prime = "idle" \/ (tab'[t].prime = "row" /\ bytes' = bytes /\ page[tab[t].book] # Nothing))
      /\ UNCHANGED <<row, page>>
  BY DEF OfflineInv, Shape, Fields, PrimeHtmlOffline
<1>4. ASSUME Alone PROVE OneTab' /\ PrimeFollowsBook'
  BY <1>2, <1>3, <1>4 DEF OfflineInv, OneTab, PrimeFollowsBook, Same, SameCopy, SameCopyButReq
<1>5. ASSUME Alone PROVE PrimeIsInOrder'
  <2>1. \A u \in Tab : u # t => tab[u].prime = "idle"
    BY <1>3, <1>5 DEF OfflineInv, OneTab, PrimeFollowsBook
  <2> QED BY <2>1, <1>2, <1>3, <1>5 DEF OfflineInv, PrimeFollowsBook, PrimeIsInOrder, Same, SameCopy, SameCopyButReq
<1>6. ASSUME Alone PROVE Listed'
  BY <1>6 DEF OfflineInv, Shape, PrimeIsInOrder, Listed, PrimeHtmlOffline
<1> QED BY <1>1, <1>4, <1>5, <1>6 DEF OfflineInv

LEMMA PrimeHtmlRefusedListed ==
  ASSUME OfflineInv, NEW t \in Tab, PrimeHtmlRefused(t)
  PROVE  OfflineInv'
<1>1. Shape' /\ Alone' = Alone /\ ~Alone
  BY DEF OfflineInv, Shape, Fields, Alone, PrimeHtmlRefused
<1> QED BY <1>1 DEF OfflineInv

LEMMA PrimeRowListed ==
  ASSUME OfflineInv, NEW t \in Tab, PrimeRow(t)
  PROVE  OfflineInv'
<1>1. Shape' /\ Alone' = Alone
  BY DEF OfflineInv, Shape, Fields, Alone, PrimeRow
<1>2. \A u \in Tab : u # t => Same(u)
  BY DEF OfflineInv, Shape, Fields, Same, SameCopy, SameCopyButReq, PrimeRow
<1>3. /\ tab[t].prime = "row" /\ tab'[t].stage = tab[t].stage /\ tab'[t].book = tab[t].book
      /\ tab'[t].req = tab[t].req /\ tab'[t].prime = "count"
  BY DEF OfflineInv, Shape, Fields, PrimeRow
<1>4. ASSUME Alone PROVE OneTab' /\ PrimeFollowsBook'
  BY <1>2, <1>3, <1>4 DEF OfflineInv, OneTab, PrimeFollowsBook, Same, SameCopy, SameCopyButReq
<1>5. ASSUME Alone PROVE PrimeIsInOrder'
  <2>1. \A u \in Tab : u # t => tab[u].prime = "idle"
    BY <1>3, <1>5 DEF OfflineInv, OneTab, PrimeFollowsBook
  <2> QED BY <2>1, <1>2, <1>3, <1>5 DEF OfflineInv, PrimeFollowsBook, PrimeIsInOrder, Same, SameCopy, SameCopyButReq
<1>6. ASSUME Alone PROVE Listed'
  BY <1>6 DEF OfflineInv, Shape, PrimeIsInOrder, Listed, PrimeRow
<1> QED BY <1>1, <1>4, <1>5, <1>6 DEF OfflineInv

LEMMA PrimeCountListed ==
  ASSUME OfflineInv, NEW t \in Tab, PrimeCount(t)
  PROVE  OfflineInv'
<1>1. Shape' /\ Alone' = Alone
  BY DEF OfflineInv, Shape, Fields, Alone, PrimeCount, stores
<1>2. \A u \in Tab : u # t => Same(u)
  BY DEF OfflineInv, Shape, Fields, Same, SameCopy, SameCopyButReq, PrimeCount, stores
<1>3. /\ tab[t].prime = "count" /\ tab'[t].stage = tab[t].stage /\ tab'[t].book = tab[t].book
      /\ tab'[t].req = tab[t].req /\ tab'[t].prime \in {"evict", "idle"}
  BY DEF OfflineInv, Shape, Fields, PrimeCount, stores
<1>4. ASSUME Alone PROVE OneTab' /\ PrimeFollowsBook'
  BY <1>2, <1>3, <1>4 DEF OfflineInv, OneTab, PrimeFollowsBook, Same, SameCopy, SameCopyButReq
<1>5. ASSUME Alone PROVE PrimeIsInOrder'
  <2>1. \A u \in Tab : u # t => tab[u].prime = "idle"
    BY <1>3, <1>5 DEF OfflineInv, OneTab, PrimeFollowsBook
  <2> QED BY <2>1, <1>2, <1>3, <1>5 DEF OfflineInv, PrimeFollowsBook, PrimeIsInOrder, Same, SameCopy, SameCopyButReq
<1>6. ASSUME Alone PROVE Listed'
  BY <1>6 DEF OfflineInv, Shape, PrimeIsInOrder, Listed, PrimeCount, stores
<1> QED BY <1>1, <1>4, <1>5, <1>6 DEF OfflineInv

LEMMA EvictRowListed ==
  ASSUME OfflineInv, NEW t \in Tab, EvictRow(t)
  PROVE  OfflineInv'
<1>1. Shape' /\ Alone' = Alone
  BY DEF OfflineInv, Shape, Fields, Alone, EvictRow, Cached
<1>2. \A u \in Tab : u # t => Same(u)
  BY DEF OfflineInv, Shape, Fields, Same, SameCopy, SameCopyButReq, EvictRow
<1>3. /\ tab[t].prime = "evict" /\ tab'[t].stage = tab[t].stage /\ tab'[t].book = tab[t].book
      /\ tab'[t].req = tab[t].req
      /\ tab'[t].prime = "idle" \/ (tab'[t].prime = "files" /\ tab'[t].victim \in Book /\ row'[tab'[t].victim] = Nothing)
  <2>1. CASE Cached \ tab[t].live = {}
    BY <2>1 DEF OfflineInv, Shape, Fields, EvictRow
  <2>2. CASE Cached \ tab[t].live # {}
    <3>1. PICK v \in Cached \ tab[t].live : row' = [row EXCEPT ![v] = Nothing]
                                         /\ tab' = [tab EXCEPT ![t].prime = "files", ![t].victim = v]
      BY <2>2 DEF EvictRow
    <3>2. tab[t].prime = "evict" /\ v \in Book
      BY DEF EvictRow, Cached
    <3>3. tab'[t].victim = v /\ tab'[t].prime = "files"
      BY <3>1 DEF OfflineInv, Shape, Fields
    <3>4. tab'[t].stage = tab[t].stage /\ tab'[t].book = tab[t].book /\ tab'[t].req = tab[t].req
      BY <3>1 DEF OfflineInv, Shape, Fields
    <3> QED BY <3>1, <3>2, <3>3, <3>4 DEF OfflineInv, Shape
  <2> QED BY <2>1, <2>2
<1>4. ASSUME Alone PROVE OneTab' /\ PrimeFollowsBook'
  BY <1>2, <1>3, <1>4 DEF OfflineInv, OneTab, PrimeFollowsBook, Same, SameCopy, SameCopyButReq
<1>5. ASSUME Alone PROVE PrimeIsInOrder'
  <2>1. \A u \in Tab : u # t => tab[u].prime = "idle"
    BY <1>3, <1>5 DEF OfflineInv, OneTab, PrimeFollowsBook
  <2> QED BY <2>1, <1>2, <1>3, <1>5 DEF OfflineInv, PrimeFollowsBook, PrimeIsInOrder, Same, SameCopy, SameCopyButReq
<1>6. ASSUME Alone PROVE Listed'
  BY <1>6 DEF OfflineInv, Shape, Listed, EvictRow, Cached
<1> QED BY <1>1, <1>4, <1>5, <1>6 DEF OfflineInv

LEMMA EvictPageListed ==
  ASSUME OfflineInv, NEW t \in Tab, EvictPage(t)
  PROVE  OfflineInv'
<1>1. Shape' /\ Alone' = Alone
  BY DEF OfflineInv, Shape, Fields, Alone, EvictPage
<1>2. \A u \in Tab : u # t => Same(u)
  BY DEF OfflineInv, Shape, Fields, Same, SameCopy, SameCopyButReq, EvictPage
<1>3. /\ tab[t].prime = "files" /\ tab'[t].stage = tab[t].stage /\ tab'[t].book = tab[t].book
      /\ tab'[t].req = tab[t].req /\ tab'[t].victim = tab[t].victim
      /\ row' = row /\ bytes' = bytes /\ tab'[t].prime = "bytes"
  BY DEF OfflineInv, Shape, Fields, EvictPage
<1>4. ASSUME Alone PROVE OneTab' /\ PrimeFollowsBook'
  BY <1>2, <1>3, <1>4 DEF OfflineInv, OneTab, PrimeFollowsBook, Same, SameCopy, SameCopyButReq
<1>5. ASSUME Alone PROVE PrimeIsInOrder'
  <2>1. \A u \in Tab : u # t => tab[u].prime = "idle"
    BY <1>3, <1>5 DEF OfflineInv, OneTab, PrimeFollowsBook
  <2> QED BY <2>1, <1>2, <1>3, <1>5 DEF OfflineInv, PrimeFollowsBook, PrimeIsInOrder, Same, SameCopy, SameCopyButReq
<1>6. ASSUME Alone PROVE Listed'
  BY <1>6 DEF OfflineInv, Shape, PrimeIsInOrder, Listed, EvictPage
<1> QED BY <1>1, <1>4, <1>5, <1>6 DEF OfflineInv

LEMMA EvictBytesListed ==
  ASSUME OfflineInv, NEW t \in Tab, EvictBytes(t)
  PROVE  OfflineInv'
<1>1. Shape' /\ Alone' = Alone
  BY DEF OfflineInv, Shape, Fields, Alone, EvictBytes
<1>2. \A u \in Tab : u # t => Same(u)
  BY DEF OfflineInv, Shape, Fields, Same, SameCopy, SameCopyButReq, EvictBytes
<1>3. /\ tab[t].prime = "bytes" /\ tab'[t].stage = tab[t].stage /\ tab'[t].book = tab[t].book
      /\ tab'[t].req = tab[t].req /\ tab'[t].victim = tab[t].victim
      /\ row' = row /\ page' = page /\ tab'[t].prime = "queued"
  BY DEF OfflineInv, Shape, Fields, EvictBytes
<1>4. ASSUME Alone PROVE OneTab' /\ PrimeFollowsBook'
  BY <1>2, <1>3, <1>4 DEF OfflineInv, OneTab, PrimeFollowsBook, Same, SameCopy, SameCopyButReq
<1>5. ASSUME Alone PROVE PrimeIsInOrder'
  <2>1. \A u \in Tab : u # t => tab[u].prime = "idle"
    BY <1>3, <1>5 DEF OfflineInv, OneTab, PrimeFollowsBook
  <2> QED BY <2>1, <1>2, <1>3, <1>5 DEF OfflineInv, PrimeFollowsBook, PrimeIsInOrder, Same, SameCopy, SameCopyButReq
<1>6. ASSUME Alone PROVE Listed'
  BY <1>6 DEF OfflineInv, Shape, PrimeIsInOrder, Listed, EvictBytes
<1> QED BY <1>1, <1>4, <1>5, <1>6 DEF OfflineInv

LEMMA EvictQueuedListed ==
  ASSUME OfflineInv, NEW t \in Tab, EvictQueued(t)
  PROVE  OfflineInv'
<1>1. Shape' /\ Alone' = Alone
  BY DEF OfflineInv, Shape, Fields, Alone, EvictQueued
<1>2. \A u \in Tab : u # t => Same(u)
  BY DEF OfflineInv, Shape, Fields, Same, SameCopy, SameCopyButReq, EvictQueued
<1>3. /\ tab[t].prime = "queued" /\ tab'[t].stage = tab[t].stage /\ tab'[t].book = tab[t].book
      /\ tab'[t].req = tab[t].req /\ tab'[t].prime = "idle"
  BY DEF OfflineInv, Shape, Fields, EvictQueued
<1>4. ASSUME Alone PROVE OneTab' /\ PrimeFollowsBook'
  BY <1>2, <1>3, <1>4 DEF OfflineInv, OneTab, PrimeFollowsBook, Same, SameCopy, SameCopyButReq
<1>5. ASSUME Alone PROVE PrimeIsInOrder'
  <2>1. \A u \in Tab : u # t => tab[u].prime = "idle"
    BY <1>3, <1>5 DEF OfflineInv, OneTab, PrimeFollowsBook
  <2> QED BY <2>1, <1>2, <1>3, <1>5 DEF OfflineInv, PrimeFollowsBook, PrimeIsInOrder, Same, SameCopy, SameCopyButReq
<1>6. ASSUME Alone PROVE Listed'
  BY <1>6 DEF OfflineInv, Shape, PrimeIsInOrder, Listed, EvictQueued
<1> QED BY <1>1, <1>4, <1>5, <1>6 DEF OfflineInv

LEMMA LeaveListed ==
  ASSUME OfflineInv, NEW t \in Tab, Leave(t)
  PROVE  OfflineInv'
<1>1. Shape' /\ UNCHANGED <<env, page, bytes, row>>
  BY DEF OfflineInv, Shape, Fields, Leave, Recorded, Running
<1>2. /\ (tab' = [tab EXCEPT ![t].stage = "leaving"] \/ Recorded(t, "leaving"))
      /\ tab[t].stage \in Running
  BY DEF Leave, Running
<1>3. \A u \in Tab : u # t => Same(u)
  BY <1>2 DEF OfflineInv, Shape, Fields, Same, SameCopy, SameCopyButReq, Recorded
<1>4. SameCopy(t) /\ tab'[t].stage = "leaving"
  BY <1>2 DEF OfflineInv, Shape, Fields, SameCopy, SameCopyButReq, Recorded
<1> QED BY <1>1, <1>2, <1>3, <1>4, QuietListed DEF RunsOn

LEMMA UnloadListed ==
  ASSUME OfflineInv, NEW t \in Tab, Unload(t)
  PROVE  OfflineInv'
<1>1. Shape' /\ Alone' = Alone
  BY DEF OfflineInv, Shape, Fields, Alone, Unload, Forgotten, Closed, Running, stores
<1>2. \A u \in Tab : u # t => Same(u)
  BY DEF OfflineInv, Shape, Fields, Same, SameCopy, SameCopyButReq, Unload, Forgotten, Closed,
     Running, stores
<1>3. /\ tab[t].stage # "closed" /\ tab'[t].stage = "closed" /\ tab'[t].req = Nothing
      /\ tab'[t].prime = "idle"
  BY DEF OfflineInv, Shape, Fields, Unload, Forgotten, Closed, Running, stores
<1>4. ASSUME Alone PROVE OneTab' /\ PrimeFollowsBook'
  BY <1>2, <1>3, <1>4 DEF OfflineInv, OneTab, PrimeFollowsBook, Same, SameCopy, SameCopyButReq
<1>5. ASSUME Alone PROVE PrimeIsInOrder'
  <2>1. \A u \in Tab : u # t => tab[u].prime = "idle"
    BY <1>3, <1>5 DEF OfflineInv, OneTab, PrimeFollowsBook
  <2> QED BY <2>1, <1>2, <1>3, <1>5 DEF OfflineInv, PrimeFollowsBook, PrimeIsInOrder, Same, SameCopy, SameCopyButReq
<1>6. ASSUME Alone PROVE Listed'
  BY <1>6 DEF OfflineInv, Shape, PrimeIsInOrder, Listed, Unload, Forgotten, Closed, Running, stores
<1> QED BY <1>1, <1>4, <1>5, <1>6 DEF OfflineInv

LEMMA KillListed ==
  ASSUME OfflineInv, NEW t \in Tab, Kill(t)
  PROVE  OfflineInv'
<1>1. Shape' /\ Alone' = Alone
  BY DEF OfflineInv, Shape, Fields, Alone, Kill, Forgotten, Closed, stores
<1>2. \A u \in Tab : u # t => Same(u)
  BY DEF OfflineInv, Shape, Fields, Same, SameCopy, SameCopyButReq, Kill, Forgotten, Closed, stores
<1>3. /\ tab[t].stage # "closed" /\ tab'[t].stage = "closed" /\ tab'[t].req = Nothing
      /\ tab'[t].prime = "idle"
  BY DEF OfflineInv, Shape, Fields, Kill, Forgotten, Closed, stores
<1>4. ASSUME Alone PROVE OneTab' /\ PrimeFollowsBook'
  BY <1>2, <1>3, <1>4 DEF OfflineInv, OneTab, PrimeFollowsBook, Same, SameCopy, SameCopyButReq
<1>5. ASSUME Alone PROVE PrimeIsInOrder'
  <2>1. \A u \in Tab : u # t => tab[u].prime = "idle"
    BY <1>3, <1>5 DEF OfflineInv, OneTab, PrimeFollowsBook
  <2> QED BY <2>1, <1>2, <1>3, <1>5 DEF OfflineInv, PrimeFollowsBook, PrimeIsInOrder, Same, SameCopy, SameCopyButReq
<1>6. ASSUME Alone PROVE Listed'
  BY <1>6 DEF OfflineInv, Shape, PrimeIsInOrder, Listed, Kill, Forgotten, Closed, stores
<1> QED BY <1>1, <1>4, <1>5, <1>6 DEF OfflineInv

LEMMA PostArrivesListed ==
  ASSUME OfflineInv, NEW p \in posts, PostArrives(p)
  PROVE  OfflineInv'
<1>1. /\ Shape' /\ UNCHANGED <<env, page, bytes>>
      /\ \A b \in Book : row[b] = Nothing => row'[b] = Nothing
  BY DEF OfflineInv, Shape, Fields, PostArrives
<1>2. \A u \in Tab : Same(u)
  BY DEF OfflineInv, Shape, Fields, Same, SameCopy, SameCopyButReq, PostArrives
<1> QED BY <1>1, <1>2, QuietListed DEF Same

LEMMA PostLostListed ==
  ASSUME OfflineInv, NEW p \in posts, PostLost(p)
  PROVE  OfflineInv'
<1>1. /\ Shape' /\ UNCHANGED <<env, page, bytes>>
      /\ \A b \in Book : row[b] = Nothing => row'[b] = Nothing
  BY DEF OfflineInv, Shape, Fields, PostLost, stores
<1>2. \A u \in Tab : Same(u)
  BY DEF OfflineInv, Shape, Fields, Same, SameCopy, SameCopyButReq, PostLost, stores
<1> QED BY <1>1, <1>2, QuietListed DEF Same

LEMMA MarkPositionSyncedListed ==
  ASSUME OfflineInv, NEW p \in posts, MarkPositionSynced(p)
  PROVE  OfflineInv'
<1>1. /\ Shape' /\ UNCHANGED <<env, page, bytes>>
      /\ \A b \in Book : row[b] = Nothing => row'[b] = Nothing
  BY DEF OfflineInv, Shape, Fields, MarkPositionSynced, stores
<1>2. \A u \in Tab : Same(u)
  BY DEF OfflineInv, Shape, Fields, Same, SameCopy, SameCopyButReq, MarkPositionSynced, stores
<1> QED BY <1>1, <1>2, QuietListed DEF Same

-----------------------------------------------------------------------------
LEMMA InitListed == Init => OfflineInv
<1> SUFFICES ASSUME Init PROVE OfflineInv
    OBVIOUS
<1>1. Shape
  BY DEF Init, Shape, Fields, Closed
<1>2. \A t \in Tab : tab[t].stage = "closed" /\ tab[t].prime = "idle" /\ tab[t].req = Nothing
  BY DEF Init, Closed
<1>3. OneTab /\ PrimeFollowsBook /\ PrimeIsInOrder
  BY <1>2 DEF OneTab, PrimeFollowsBook, PrimeIsInOrder
<1>4. Listed
  BY OfflineAssumption DEF Init, Listed
<1> QED BY <1>1, <1>3, <1>4 DEF OfflineInv

LEMMA NextListed == OfflineInv /\ [Next]_vars => OfflineInv'
<1> SUFFICES ASSUME OfflineInv, [Next]_vars PROVE OfflineInv'
    OBVIOUS
<1>1. CASE Tick \/ GoOffline \/ GoOnline
  BY <1>1, TickListed, GoOfflineListed, GoOnlineListed
<1>2. ASSUME NEW t \in Tab, NEW b \in Book, Open(t, b) PROVE OfflineInv'
  BY <1>2, OpenListed
<1>3. ASSUME NEW t \in Tab,
             \/ PageRead(t) \/ PageTouch(t) \/ PageFromCache(t) \/ FetchBook(t) \/ Resolve(t)
             \/ TurnPage(t) \/ SavePosition(t) \/ Hide(t)
      PROVE  OfflineInv'
  BY <1>3, PageReadListed, PageTouchListed, PageFromCacheListed, FetchBookListed, ResolveListed,
     TurnPageListed, SavePositionListed, HideListed
<1>4. ASSUME NEW t \in Tab,
             \/ UpdateIdbPosition(t) \/ SyncPositionToMirror(t) \/ ReplaySynced(t)
             \/ ReplayNext(t) \/ ReplayArrives(t) \/ ReplayAnswered(t) \/ ReplayFails(t)
             \/ ReplayRefused(t)
      PROVE  OfflineInv'
  BY <1>4, UpdateIdbPositionListed, SyncPositionToMirrorListed, ReplaySyncedListed,
     ReplayNextListed, ReplayArrivesListed, ReplayAnsweredListed, ReplayFailsListed,
     ReplayRefusedListed
<1>5. ASSUME NEW t \in Tab,
             \/ PrimeBytes(t) \/ PrimeHtmlOffline(t) \/ PrimeHtmlRefused(t) \/ PrimeRow(t)
             \/ PrimeCount(t) \/ EvictRow(t) \/ EvictPage(t) \/ EvictBytes(t) \/ EvictQueued(t)
             \/ Leave(t) \/ Unload(t) \/ Kill(t)
      PROVE  OfflineInv'
  BY <1>5, PrimeBytesListed, PrimeHtmlOfflineListed, PrimeHtmlRefusedListed, PrimeRowListed,
     PrimeCountListed, EvictRowListed, EvictPageListed,
     EvictBytesListed, EvictQueuedListed, LeaveListed, UnloadListed, KillListed
<1>6. ASSUME NEW p \in posts, PostArrives(p) \/ PostLost(p) \/ MarkPositionSynced(p)
      PROVE  OfflineInv'
  BY <1>6, PostArrivesListed, PostLostListed, MarkPositionSyncedListed
<1>7. CASE UNCHANGED vars
  <2>1. UNCHANGED <<env, row, page, bytes, tab>>
    BY <1>7 DEF vars, stores
  <2> QED BY <2>1 DEF OfflineInv, Shape, Alone, OneTab, PrimeFollowsBook, PrimeIsInOrder, Listed
<1> QED BY <1>1, <1>2, <1>3, <1>4, <1>5, <1>6, <1>7 DEF Next

\* RowHasFiles, of primeAndCacheBook and evictOldest: a book that offline.html lists has its page
\* and its file, for any books and limits, whenever a page is killed or the network goes away.
THEOREM RowHasFilesSafe == Spec => []RowHasFiles
<1>1. OfflineInv => RowHasFiles
  BY DEF OfflineInv, Alone, Listed, RowHasFiles
<1> QED BY <1>1, InitListed, NextListed, PTL DEF Spec

-----------------------------------------------------------------------------
(* The position saved last in a book.                                         *)

IsSeq(s) == \E S : s \in Seq(S)
PostFields == {"book", "pos", "done", "tab"}
EntryFields == {"book", "pos", "ts", "done"}
Unstarted == {"closed", "opening"}

Domains == DOMAIN server = Book /\ DOMAIN queue = Book /\ DOMAIN last = Book

\* A request whose answer a page waits for belongs to that page and its book.
PostsAreOwned ==
  \A p \in posts :
    /\ DOMAIN p = PostFields
    /\ p.done \in BOOLEAN /\ (p.done => p.tab # Nothing)
    /\ p.tab # Nothing =>
         p.tab \in Tab /\ tab[p.tab].book = p.book /\ tab[p.tab].stage \notin Unstarted

\* What a page has under way: nothing before its scripts start, and at most one entry that the
\* server has answered is being mirrored.
Works(t) ==
  /\ IsSeq(tab[t].idb)
  /\ tab[t].stage = "closed" => tab[t].req = Nothing
  /\ tab[t].stage \in Unstarted =>
       /\ ~tab[t].timer /\ tab[t].prime = "idle" /\ tab[t].keys = {}
       /\ tab[t].entry = Nothing /\ tab[t].idb = <<>>
  /\ tab[t].entry # Nothing => DOMAIN tab[t].entry = EntryFields /\ tab[t].entry.done \in BOOLEAN
  /\ \A i \in DOMAIN tab[t].idb : tab[t].idb[i].kind = "replay" =>
       /\ tab[t].entry # Nothing /\ tab[t].entry.done
       /\ \A j \in DOMAIN tab[t].idb : tab[t].idb[j].kind = "replay" => i = j

\* The requests under way of a book that is not exposed carry the position saved last in it, or
\* the one that the server has; those that were answered left the former on the server.
Posted(b) ==
  \A p \in posts : p.book = b => p.pos = last[b] /\ (p.done => server[b].pos = last[b])
Replayed(b) ==
  \A t \in Tab : tab[t].entry # Nothing /\ tab[t].entry.book = b =>
    tab[t].entry.pos = last[b] /\ (tab[t].entry.done => server[b].pos = last[b])
Mirrored(b) ==
  \A t \in Tab : tab[t].book = b =>
    \A i \in DOMAIN tab[t].idb : tab[t].idb[i].kind = "sync" =>
      tab[t].idb[i].pos = last[b] /\ server[b].pos = last[b]
Rendered(b) ==
  \A t \in Tab : tab[t].book = b /\ tab[t].req # Nothing =>
    /\ tab[t].req.pos = server[b].pos
    /\ \A p \in posts : p.book = b => server[b].pos = last[b]
    /\ \A u \in Tab : tab[u].entry # Nothing /\ tab[u].entry.book = b => server[b].pos = last[b]

Settled(b) ==
  /\ last[b] \in {0, server[b].pos, queue[b].pos}
  /\ queue[b] # NoPos => queue[b].pos = last[b]
  /\ Posted(b) /\ Replayed(b) /\ Mirrored(b) /\ Rendered(b)

KeepInv ==
  /\ Shape /\ Domains /\ PostsAreOwned
  /\ \A t \in Tab : Works(t)
  /\ \A b \in Book \ exposed : Settled(b)

-----------------------------------------------------------------------------
LEMMA EmptyIsSeq == IsSeq(<<>>)
<1>1. <<>> \in Seq({})
  OBVIOUS
<1> QED BY <1>1 DEF IsSeq

LEMMA AppendIsSeq ==
  ASSUME NEW s, IsSeq(s), NEW e
  PROVE  /\ IsSeq(Append(s, e))
         /\ \A i \in DOMAIN Append(s, e) : Append(s, e)[i] = e \/ (i \in DOMAIN s /\ Append(s, e)[i] = s[i])
         /\ \A i, j \in DOMAIN Append(s, e) : i \notin DOMAIN s /\ j \notin DOMAIN s => i = j
         /\ \A i \in DOMAIN Append(s, e) : i \in DOMAIN s => Append(s, e)[i] = s[i]
<1>1. PICK S : s \in Seq(S)
  BY DEF IsSeq
<1>2. s \in Seq(S \union {e}) /\ Append(s, e) \in Seq(S \union {e})
  BY <1>1
<1> QED BY <1>2 DEF IsSeq

LEMMA TailIsSeq ==
  ASSUME NEW s, IsSeq(s), s # <<>>
  PROVE  /\ IsSeq(Tail(s)) /\ 1 \in DOMAIN s /\ Head(s) = s[1]
         /\ \A i \in DOMAIN Tail(s) : i + 1 \in DOMAIN s /\ i + 1 # 1 /\ Tail(s)[i] = s[i + 1]
         /\ \A i, j \in DOMAIN Tail(s) : i + 1 = j + 1 => i = j
<1>1. PICK S : s \in Seq(S)
  BY DEF IsSeq
<1> QED BY <1>1 DEF IsSeq

\* What requests under way of a book carry.
LEMMA CarriedUnderWay ==
  ASSUME NEW b \in Book, NEW t \in Tab
  PROVE  /\ Carried(t, b) \subseteq UnderWay(b)
         /\ tab[t].entry # Nothing /\ tab[t].entry.book = b => tab[t].entry.pos \in UnderWay(b)
         /\ tab[t].book = b /\ tab[t].req # Nothing => tab[t].req.pos \in UnderWay(b)
         /\ tab[t].book = b => \A i \in DOMAIN tab[t].idb :
              tab[t].idb[i].kind = "sync" => tab[t].idb[i].pos \in UnderWay(b)
<1>1. Carried(t, b) \subseteq UnderWay(b)
  BY DEF UnderWay
<1>2. tab[t].entry # Nothing /\ tab[t].entry.book = b => tab[t].entry.pos \in Carried(t, b)
  BY DEF Carried
<1>3. tab[t].book = b /\ tab[t].req # Nothing => tab[t].req.pos \in Carried(t, b)
  BY DEF Carried
<1>4. tab[t].book = b => \A i \in DOMAIN tab[t].idb :
        tab[t].idb[i].kind = "sync" => tab[t].idb[i].pos \in Carried(t, b)
  BY DEF Carried
<1> QED BY <1>1, <1>2, <1>3, <1>4

LEMMA OnlyThis ==
  ASSUME NEW b \in Book, NEW x, UnderWay(b) \subseteq {x}
  PROVE  /\ \A p \in posts : p.book = b => p.pos = x
         /\ \A t \in Tab :
              /\ tab[t].entry # Nothing /\ tab[t].entry.book = b => tab[t].entry.pos = x
              /\ tab[t].book = b /\ tab[t].req # Nothing => tab[t].req.pos = x
              /\ tab[t].book = b => \A i \in DOMAIN tab[t].idb :
                   tab[t].idb[i].kind = "sync" => tab[t].idb[i].pos = x
<1>1. ASSUME NEW p \in posts, p.book = b PROVE p.pos = x
  BY <1>1 DEF UnderWay
<1> QED BY <1>1, CarriedUnderWay

LEMMA NothingUnderWay ==
  ASSUME NEW b \in Book, UnderWay(b) = {}
  PROVE  /\ \A p \in posts : p.book # b
         /\ \A t \in Tab :
              /\ tab[t].entry # Nothing => tab[t].entry.book # b
              /\ tab[t].book = b =>
                   tab[t].req = Nothing /\ \A i \in DOMAIN tab[t].idb : tab[t].idb[i].kind # "sync"
<1>1. ASSUME NEW p \in posts PROVE p.book # b
  BY <1>1 DEF UnderWay
<1> QED BY <1>1, CarriedUnderWay

\* A history that has room for every book prunes none.
LEMMA NothingPruned ==
  ASSUME IsFiniteSet(Book), Cardinality(Book) <= HistoryMax, HistoryMax \in Nat, Domains,
         NEW b, NEW p, server' \in Saved(b, p)
  PROVE  server' = [server EXCEPT ![b] = [pos |-> p, ts |-> now]]
<1> DEFINE up   == [server EXCEPT ![b] = [pos |-> p, ts |-> now]]
           rows == {x \in Book : up[x].ts # 0}
<1>1. IsFiniteSet(rows) /\ Cardinality(rows) <= Cardinality(Book)
  BY FS_Subset
<1>2. Cardinality(rows) \in Nat /\ Cardinality(Book) \in Nat
  BY <1>1, FS_CardinalityType
<1>3. Cardinality(rows) <= HistoryMax
  BY <1>1, <1>2
<1> QED BY <1>3 DEF Saved

-----------------------------------------------------------------------------
\* What a step that sends nothing leaves of a tab: it is shut or starts to open, or keeps what it
\* has under way, but for the page it asked for, the entry it sent and the first of its requests.
Shut(u) ==
  /\ tab'[u].stage \in Unstarted /\ ~tab'[u].timer /\ tab'[u].prime = "idle" /\ tab'[u].keys = {}
  /\ tab'[u].req = Nothing /\ tab'[u].entry = Nothing /\ tab'[u].idb = <<>>
  /\ \A p \in posts' : p.tab # u
Goes(u) ==
  /\ tab'[u].book = tab[u].book
  /\ tab'[u].stage \in Unstarted =>
       /\ tab'[u].stage = tab[u].stage
       /\ tab[u].prime = "idle" => tab'[u].prime = "idle"
       /\ tab[u].keys = {} => tab'[u].keys = {}
  /\ tab'[u].timer => tab[u].timer \/ tab'[u].stage \notin Unstarted
  /\ tab'[u].req \in {tab[u].req, Nothing}
  /\ tab'[u].idb = tab[u].idb \/ (tab[u].idb # <<>> /\ tab'[u].idb = Tail(tab[u].idb))
  /\ \/ tab'[u].entry = tab[u].entry
     \/ /\ tab'[u].entry = Nothing
        /\ \A i \in DOMAIN tab'[u].idb : tab'[u].idb[i].kind # "replay"

\* What it leaves of the posts: some of them, perhaps without a tab that waits for the answer, and
\* an entry that was on its way when its page went.
Left(p) ==
  \/ p \in posts
  \/ /\ DOMAIN p = PostFields /\ p.done = FALSE /\ p.tab = Nothing
     /\ \/ \E q \in posts : q.book = p.book /\ q.pos = p.pos
        \/ \E t \in Tab : tab[t].entry # Nothing /\ tab[t].entry.book = p.book /\ tab[t].entry.pos = p.pos

\* And of a book: its positions stay, and what is removed from the queue is on the server.
Stays(b) ==
  /\ last'[b] = last[b] /\ server'[b].pos = server[b].pos
  /\ queue'[b] = queue[b] \/ (queue'[b] = NoPos /\ (queue[b] = NoPos \/ server[b].pos = last[b]))

\* The requests of IndexedDB that are left are some of those there were.
LEMMA IdbLeft ==
  ASSUME NEW u \in Tab, Works(u), Goes(u)
  PROVE  /\ IsSeq(tab'[u].idb)
         /\ \A i \in DOMAIN tab'[u].idb : \E j \in DOMAIN tab[u].idb : tab'[u].idb[i] = tab[u].idb[j]
         /\ \A i, j \in DOMAIN tab'[u].idb :
              tab'[u].idb[i].kind = "replay" /\ tab'[u].idb[j].kind = "replay" => i = j
<1>1. CASE tab'[u].idb = tab[u].idb
  BY <1>1 DEF Works
<1>2. CASE tab[u].idb # <<>> /\ tab'[u].idb = Tail(tab[u].idb)
  <2>1. /\ IsSeq(Tail(tab[u].idb))
        /\ \A i \in DOMAIN Tail(tab[u].idb) :
             i + 1 \in DOMAIN tab[u].idb /\ Tail(tab[u].idb)[i] = tab[u].idb[i + 1]
        /\ \A i, j \in DOMAIN Tail(tab[u].idb) : i + 1 = j + 1 => i = j
    BY <1>2, TailIsSeq DEF Works
  <2> QED BY <1>2, <2>1 DEF Works
<1> QED BY <1>1, <1>2 DEF Goes

LEMMA QuietKeeps ==
  ASSUME KeepInv, Shape', Domains', exposed \subseteq exposed',
         \A b \in Book \ exposed' : Stays(b),
         \A p \in posts' : Left(p),
         \A u \in Tab : Shut(u) \/ Goes(u)
  PROVE  KeepInv'
<1> USE DEF PostFields
<1>1. PostsAreOwned'
  <2> SUFFICES ASSUME NEW p \in posts'
               PROVE  /\ DOMAIN p = PostFields
                      /\ p.done \in BOOLEAN /\ (p.done => p.tab # Nothing)
                      /\ p.tab # Nothing => p.tab \in Tab /\ tab'[p.tab].book = p.book
                                              /\ tab'[p.tab].stage \notin Unstarted
    BY DEF PostsAreOwned
  <2>1. CASE p \in posts
    <3>1. p.tab # Nothing => p.tab \in Tab /\ tab[p.tab].book = p.book /\ tab[p.tab].stage \notin Unstarted
      BY <2>1 DEF KeepInv, PostsAreOwned
    <3>2. p.tab # Nothing => Goes(p.tab)
      BY <3>1 DEF Shut
    <3> QED BY <2>1, <3>1, <3>2 DEF KeepInv, PostsAreOwned, Goes
  <2> QED BY <2>1 DEF Left
<1>2. ASSUME NEW u \in Tab PROVE Works(u)'
  <2>1. CASE Shut(u)
    BY <2>1, EmptyIsSeq DEF Shut, Works
  <2>2. CASE Goes(u)
    <3>1. Works(u)
      BY DEF KeepInv
    <3>2. tab'[u].stage \in Unstarted =>
            /\ ~tab'[u].timer /\ tab'[u].prime = "idle" /\ tab'[u].keys = {}
            /\ tab'[u].entry = Nothing /\ tab'[u].idb = <<>>
            /\ tab'[u].stage = "closed" => tab'[u].req = Nothing
      BY <2>2, <3>1 DEF Works, Goes
    <3>3. tab'[u].stage = "closed" => tab'[u].req = Nothing
      BY <3>2 DEF Unstarted
    <3>4. \A i \in DOMAIN tab'[u].idb : tab'[u].idb[i].kind = "replay" =>
            tab'[u].entry # Nothing /\ tab'[u].entry.done
      BY <2>2, <3>1, IdbLeft DEF Works, Goes
    <3>5. tab'[u].entry # Nothing => DOMAIN tab'[u].entry = EntryFields /\ tab'[u].entry.done \in BOOLEAN
      BY <2>2, <3>1 DEF Works, Goes
    <3> QED BY <2>2, <3>1, <3>2, <3>3, <3>4, <3>5, IdbLeft DEF Works
  <2> QED BY <2>1, <2>2
<1>3. ASSUME NEW b \in Book \ exposed' PROVE Settled(b)'
  <2>1. Settled(b) /\ Stays(b)
    BY <1>3 DEF KeepInv
  <2>2. last'[b] \in {0, server'[b].pos, queue'[b].pos} /\ (queue'[b] # NoPos => queue'[b].pos = last'[b])
    BY <2>1 DEF Settled, Stays, NoPos
  <2>3. ASSUME NEW p \in posts', p.book = b
        PROVE  p.pos = last[b] /\ (p.done => server[b].pos = last[b])
    BY <2>1, <2>3 DEF Left, Settled, Posted, Replayed
  <2>4. ASSUME NEW u \in Tab, tab'[u].entry # Nothing
        PROVE  tab[u].entry = tab'[u].entry
    BY <2>4 DEF Shut, Goes
  <2>5. ASSUME NEW u \in Tab, tab'[u].book = b, NEW i \in DOMAIN tab'[u].idb, tab'[u].idb[i].kind = "sync"
        PROVE  tab'[u].idb[i].pos = last[b] /\ server[b].pos = last[b]
    <3>1. CASE Shut(u)
      BY <2>5, <3>1 DEF Shut
    <3>2. CASE Goes(u)
      <4>1. tab[u].book = b /\ \E j \in DOMAIN tab[u].idb : tab'[u].idb[i] = tab[u].idb[j]
        BY <2>5, <3>2, IdbLeft DEF KeepInv, Goes
      <4> QED BY <2>1, <2>5, <4>1 DEF Settled, Mirrored
    <3> QED BY <3>1, <3>2
  <2>6. ASSUME NEW u \in Tab, tab'[u].book = b, tab'[u].req # Nothing
        PROVE  tab[u].book = b /\ tab[u].req # Nothing /\ tab'[u].req = tab[u].req
    BY <2>6 DEF Shut, Goes
  <2>7. Posted(b)' /\ Replayed(b)' /\ Mirrored(b)'
    BY <2>1, <2>3, <2>4, <2>5 DEF Settled, Stays, Posted, Replayed, Mirrored
  <2>8. Rendered(b)'
    <3> SUFFICES ASSUME NEW u \in Tab, tab'[u].book = b, tab'[u].req # Nothing
                 PROVE  /\ tab'[u].req.pos = server'[b].pos
                        /\ \A p \in posts' : p.book = b => server'[b].pos = last'[b]
                        /\ \A w \in Tab : tab'[w].entry # Nothing /\ tab'[w].entry.book = b =>
                             server'[b].pos = last'[b]
      BY DEF Rendered
    <3>1. tab[u].book = b /\ tab[u].req # Nothing /\ tab'[u].req = tab[u].req
      BY <2>6
    <3>2. /\ tab[u].req.pos = server[b].pos
          /\ \A p \in posts : p.book = b => server[b].pos = last[b]
          /\ \A w \in Tab : tab[w].entry # Nothing /\ tab[w].entry.book = b => server[b].pos = last[b]
      BY <2>1, <3>1 DEF Settled, Rendered
    <3>3. ASSUME NEW p \in posts', p.book = b PROVE server[b].pos = last[b]
      BY <3>2, <3>3 DEF Left
    <3>4. ASSUME NEW w \in Tab, tab'[w].entry # Nothing, tab'[w].entry.book = b
          PROVE  server[b].pos = last[b]
      BY <2>4, <3>2, <3>4
    <3> QED BY <2>1, <3>1, <3>2, <3>3, <3>4 DEF Stays
  <2> QED BY <2>2, <2>7, <2>8 DEF Settled
<1> QED BY <1>1, <1>2, <1>3 DEF KeepInv

-----------------------------------------------------------------------------
\* Steps that send nothing.
LEMMA SameTabGoes == ASSUME NEW u \in Tab, tab'[u] = tab[u] PROVE Goes(u)
BY DEF Goes

LEMMA TickKeeps ==
  ASSUME KeepInv, Shape', Tick
  PROVE  KeepInv'
<1>1. UNCHANGED <<server, queue, posts, last, exposed>>
  BY DEF Tick, stores, ghosts
<1>2. \A u \in Tab : Goes(u)
  BY DEF KeepInv, Shape, Fields, Goes, Unstarted, Tick
<1>3. Domains' /\ \A b \in Book : Stays(b)
  BY <1>1 DEF KeepInv, Domains, Stays
<1> QED BY <1>1, <1>2, <1>3, QuietKeeps DEF Left

LEMMA GoOfflineKeeps ==
  ASSUME KeepInv, Shape', GoOffline
  PROVE  KeepInv'
<1>1. UNCHANGED <<server, queue, posts, last, exposed>>
  BY DEF GoOffline, stores, ghosts
<1>2. \A u \in Tab : Goes(u)
  BY DEF KeepInv, Shape, Fields, Goes, Unstarted, GoOffline
<1>3. Domains' /\ \A b \in Book : Stays(b)
  BY <1>1 DEF KeepInv, Domains, Stays
<1> QED BY <1>1, <1>2, <1>3, QuietKeeps DEF Left

LEMMA GoOnlineKeeps ==
  ASSUME KeepInv, Shape', GoOnline
  PROVE  KeepInv'
<1>1. UNCHANGED <<server, queue, posts, last, exposed>>
  BY DEF GoOnline, stores, ghosts
<1>2. \A u \in Tab : Goes(u)
  BY DEF KeepInv, Shape, Fields, Goes, Unstarted, GoOnline, Running
<1>3. Domains' /\ \A b \in Book : Stays(b)
  BY <1>1 DEF KeepInv, Domains, Stays
<1> QED BY <1>1, <1>2, <1>3, QuietKeeps DEF Left

LEMMA FetchBookKeeps ==
  ASSUME KeepInv, Shape', NEW t \in Tab, FetchBook(t)
  PROVE  KeepInv'
<1>1. UNCHANGED <<server, queue, posts, last, exposed>>
  BY DEF FetchBook, stores, ghosts
<1>2. \A u \in Tab : Goes(u)
  BY DEF KeepInv, Shape, Fields, Goes, Unstarted, FetchBook
<1>3. Domains' /\ \A b \in Book : Stays(b)
  BY <1>1 DEF KeepInv, Domains, Stays
<1> QED BY <1>1, <1>2, <1>3, QuietKeeps DEF Left

LEMMA ResolveKeeps ==
  ASSUME KeepInv, Shape', NEW t \in Tab, Resolve(t)
  PROVE  KeepInv'
<1>1. UNCHANGED <<server, queue, posts, last, exposed>>
  BY DEF Resolve, stores, ghosts
<1>2. \A u \in Tab : Goes(u)
  BY DEF KeepInv, Shape, Fields, Goes, Unstarted, Resolve
<1>3. Domains' /\ \A b \in Book : Stays(b)
  BY <1>1 DEF KeepInv, Domains, Stays
<1> QED BY <1>1, <1>2, <1>3, QuietKeeps DEF Left

LEMMA TurnPageKeeps ==
  ASSUME KeepInv, Shape', NEW t \in Tab, TurnPage(t)
  PROVE  KeepInv'
<1>1. UNCHANGED <<server, queue, posts, last, exposed>>
  BY DEF TurnPage, stores, ghosts
<1>2. \A u \in Tab : Goes(u)
  BY DEF KeepInv, Shape, Fields, Goes, Unstarted, TurnPage
<1>3. Domains' /\ \A b \in Book : Stays(b)
  BY <1>1 DEF KeepInv, Domains, Stays
<1> QED BY <1>1, <1>2, <1>3, QuietKeeps DEF Left

LEMMA PrimeBytesKeeps ==
  ASSUME KeepInv, Shape', NEW t \in Tab, PrimeBytes(t)
  PROVE  KeepInv'
<1>1. UNCHANGED <<server, queue, posts, last, exposed>>
  BY DEF PrimeBytes, stores, ghosts
<1>2. \A u \in Tab : Goes(u)
  BY DEF KeepInv, Shape, Fields, Goes, Unstarted, PrimeBytes
<1>3. Domains' /\ \A b \in Book : Stays(b)
  BY <1>1 DEF KeepInv, Domains, Stays
<1> QED BY <1>1, <1>2, <1>3, QuietKeeps DEF Left

LEMMA PrimeHtmlOfflineKeeps ==
  ASSUME KeepInv, Shape', NEW t \in Tab, PrimeHtmlOffline(t)
  PROVE  KeepInv'
<1>1. UNCHANGED <<server, queue, posts, last, exposed>>
  BY DEF PrimeHtmlOffline, stores, ghosts
<1>2. \A u \in Tab : Goes(u)
  BY DEF KeepInv, Shape, Fields, Goes, Unstarted, PrimeHtmlOffline
<1>3. Domains' /\ \A b \in Book : Stays(b)
  BY <1>1 DEF KeepInv, Domains, Stays
<1> QED BY <1>1, <1>2, <1>3, QuietKeeps DEF Left

LEMMA PrimeHtmlRefusedKeeps ==
  ASSUME KeepInv, Shape', NEW t \in Tab, PrimeHtmlRefused(t)
  PROVE  KeepInv'
<1>1. UNCHANGED <<server, queue, posts, last, exposed>>
  BY DEF PrimeHtmlRefused, stores, ghosts
<1>2. \A u \in Tab : Goes(u)
  BY DEF KeepInv, Shape, Fields, Goes, Unstarted, PrimeHtmlRefused
<1>3. Domains' /\ \A b \in Book : Stays(b)
  BY <1>1 DEF KeepInv, Domains, Stays
<1> QED BY <1>1, <1>2, <1>3, QuietKeeps DEF Left

LEMMA PrimeRowKeeps ==
  ASSUME KeepInv, Shape', NEW t \in Tab, PrimeRow(t)
  PROVE  KeepInv'
<1>1. UNCHANGED <<server, queue, posts, last, exposed>>
  BY DEF PrimeRow, stores, ghosts
<1>2. \A u \in Tab : Goes(u)
  BY DEF KeepInv, Shape, Fields, Goes, Unstarted, PrimeRow
<1>3. Domains' /\ \A b \in Book : Stays(b)
  BY <1>1 DEF KeepInv, Domains, Stays
<1> QED BY <1>1, <1>2, <1>3, QuietKeeps DEF Left

LEMMA PrimeCountKeeps ==
  ASSUME KeepInv, Shape', NEW t \in Tab, PrimeCount(t)
  PROVE  KeepInv'
<1>1. UNCHANGED <<server, queue, posts, last, exposed>>
  BY DEF PrimeCount, stores, ghosts
<1>2. \A u \in Tab : Goes(u)
  BY DEF KeepInv, Shape, Fields, Goes, Unstarted, PrimeCount
<1>3. Domains' /\ \A b \in Book : Stays(b)
  BY <1>1 DEF KeepInv, Domains, Stays
<1> QED BY <1>1, <1>2, <1>3, QuietKeeps DEF Left

LEMMA EvictRowKeeps ==
  ASSUME KeepInv, Shape', NEW t \in Tab, EvictRow(t)
  PROVE  KeepInv'
<1>1. UNCHANGED <<server, queue, posts, last, exposed>>
  BY DEF EvictRow, stores, ghosts
<1>2. \A u \in Tab : Goes(u)
  BY DEF KeepInv, Shape, Fields, Goes, Unstarted, EvictRow
<1>3. Domains' /\ \A b \in Book : Stays(b)
  BY <1>1 DEF KeepInv, Domains, Stays
<1> QED BY <1>1, <1>2, <1>3, QuietKeeps DEF Left

LEMMA EvictPageKeeps ==
  ASSUME KeepInv, Shape', NEW t \in Tab, EvictPage(t)
  PROVE  KeepInv'
<1>1. UNCHANGED <<server, queue, posts, last, exposed>>
  BY DEF EvictPage, stores, ghosts
<1>2. \A u \in Tab : Goes(u)
  BY DEF KeepInv, Shape, Fields, Goes, Unstarted, EvictPage
<1>3. Domains' /\ \A b \in Book : Stays(b)
  BY <1>1 DEF KeepInv, Domains, Stays
<1> QED BY <1>1, <1>2, <1>3, QuietKeeps DEF Left

LEMMA EvictBytesKeeps ==
  ASSUME KeepInv, Shape', NEW t \in Tab, EvictBytes(t)
  PROVE  KeepInv'
<1>1. UNCHANGED <<server, queue, posts, last, exposed>>
  BY DEF EvictBytes, stores, ghosts
<1>2. \A u \in Tab : Goes(u)
  BY DEF KeepInv, Shape, Fields, Goes, Unstarted, EvictBytes
<1>3. Domains' /\ \A b \in Book : Stays(b)
  BY <1>1 DEF KeepInv, Domains, Stays
<1> QED BY <1>1, <1>2, <1>3, QuietKeeps DEF Left

LEMMA UpdateIdbPositionKeeps ==
  ASSUME KeepInv, Shape', NEW t \in Tab, UpdateIdbPosition(t)
  PROVE  KeepInv'
<1>1. UNCHANGED <<server, queue, posts, last, exposed>>
  BY DEF UpdateIdbPosition, ghosts
<1>2. \A u \in Tab : Goes(u)
  BY DEF KeepInv, Shape, Fields, Goes, Unstarted, UpdateIdbPosition
<1>3. Domains' /\ \A b \in Book : Stays(b)
  BY <1>1 DEF KeepInv, Domains, Stays
<1> QED BY <1>1, <1>2, <1>3, QuietKeeps DEF Left

LEMMA ReplayFailsKeeps ==
  ASSUME KeepInv, Shape', NEW t \in Tab, ReplayFails(t)
  PROVE  KeepInv'
<1>1. UNCHANGED <<server, queue, posts, last, exposed>>
  BY DEF ReplayFails, stores, ghosts
<1>2. \A u \in Tab : Goes(u)
  BY DEF KeepInv, Shape, Fields, Goes, Unstarted, ReplayFails
<1>3. Domains' /\ \A b \in Book : Stays(b)
  BY <1>1 DEF KeepInv, Domains, Stays
<1> QED BY <1>1, <1>2, <1>3, QuietKeeps DEF Left

LEMMA ReplayRefusedKeeps ==
  ASSUME KeepInv, Shape', NEW t \in Tab, ReplayRefused(t)
  PROVE  KeepInv'
<1>1. UNCHANGED <<server, queue, posts, last, exposed>>
  BY DEF ReplayRefused, stores, ghosts
<1>2. \A i \in DOMAIN tab[t].idb : tab[t].idb[i].kind # "replay"
  BY DEF ReplayRefused, KeepInv, Works
<1>3. \A u \in Tab : Goes(u)
  <2>1. PICK left : tab' = [tab EXCEPT ![t].entry = Nothing, ![t].keys = left]
    BY DEF ReplayRefused
  <2> QED BY <1>2, <2>1 DEF KeepInv, Shape, Fields, Goes, Unstarted
<1>4. Domains' /\ \A b \in Book : Stays(b)
  BY <1>1 DEF KeepInv, Domains, Stays
<1> QED BY <1>1, <1>3, <1>4, QuietKeeps DEF Left

\* An entry that evictOldest drops exposes its book.
LEMMA EvictQueuedKeeps ==
  ASSUME KeepInv, Shape', NEW t \in Tab, EvictQueued(t)
  PROVE  KeepInv'
<1>1. UNCHANGED <<server, posts, last>> /\ exposed \subseteq exposed'
  BY DEF EvictQueued
<1>2. \A u \in Tab : Goes(u)
  BY DEF KeepInv, Shape, Fields, Goes, Unstarted, EvictQueued
<1>3. Domains' /\ \A b \in Book \ exposed' : Stays(b)
  BY <1>1 DEF KeepInv, Domains, Stays, EvictQueued
<1> QED BY <1>1, <1>2, <1>3, QuietKeeps DEF Left

\* What is mirrored and removed is on the server.
LEMMA SyncPositionToMirrorKeeps ==
  ASSUME KeepInv, Shape', NEW t \in Tab, SyncPositionToMirror(t)
  PROVE  KeepInv'
<1>1. UNCHANGED <<server, posts, last, exposed>>
  BY DEF SyncPositionToMirror, ghosts
<1>2. \A u \in Tab : Goes(u)
  BY DEF KeepInv, Shape, Fields, Goes, Unstarted, SyncPositionToMirror
<1>3. queue' \in {queue, [queue EXCEPT ![tab[t].book] = NoPos]}
  BY DEF SyncPositionToMirror, SyncedToMirror
<1>4. tab[t].book \in Book \ exposed => server[tab[t].book].pos = last[tab[t].book]
  <2>1. 1 \in DOMAIN tab[t].idb /\ tab[t].idb[1].kind = "sync"
    BY TailIsSeq DEF SyncPositionToMirror, KeepInv, Works
  <2> QED BY <2>1 DEF KeepInv, Settled, Mirrored
<1>5. Domains' /\ \A b \in Book \ exposed' : Stays(b)
  BY <1>1, <1>3, <1>4 DEF KeepInv, Domains, Stays
<1> QED BY <1>1, <1>2, <1>5, QuietKeeps DEF Left

LEMMA ReplaySyncedKeeps ==
  ASSUME KeepInv, Shape', NEW t \in Tab, ReplaySynced(t)
  PROVE  KeepInv'
<1> DEFINE e == tab[t].entry
           s == tab[t].idb
<1>1. UNCHANGED <<server, posts, last, exposed>>
  BY DEF ReplaySynced, ghosts
<1>2. /\ s # <<>> /\ 1 \in DOMAIN s /\ s[1].kind = "replay"
      /\ \A i \in DOMAIN Tail(s) : i + 1 \in DOMAIN s /\ i + 1 # 1 /\ Tail(s)[i] = s[i + 1]
  BY TailIsSeq DEF ReplaySynced, KeepInv, Works
<1>3. e # Nothing /\ e.done /\ \A i \in DOMAIN Tail(s) : Tail(s)[i].kind # "replay"
  BY <1>2 DEF KeepInv, Works
<1>4. \A u \in Tab : Goes(u)
  BY <1>2, <1>3 DEF KeepInv, Shape, Fields, Goes, Unstarted, ReplaySynced
<1>5. queue' \in {queue, [queue EXCEPT ![e.book] = NoPos]}
  BY DEF ReplaySynced, SyncedToMirror
<1>6. e.book \in Book \ exposed => server[e.book].pos = last[e.book]
  BY <1>3 DEF KeepInv, Settled, Replayed
<1>7. Domains' /\ \A b \in Book \ exposed' : Stays(b)
  BY <1>1, <1>5, <1>6 DEF KeepInv, Domains, Stays
<1> QED BY <1>1, <1>4, <1>7, QuietKeeps DEF Left

\* The scripts of a page start.
LEMMA StartedGoes ==
  ASSUME Shape, NEW t \in Tab, tab[t].stage = "opening", NEW saved, Started(t, saved), CacheMax # 0
  PROVE  queue' = queue /\ \A u \in Tab : Goes(u)
<1>1. queue' = queue
  BY DEF Started
<1>2. \A u \in Tab : Goes(u)
  BY DEF Shape, Fields, Goes, Unstarted, Started
<1> QED BY <1>1, <1>2

LEMMA PageFromCacheKeeps ==
  ASSUME KeepInv, Shape', NEW t \in Tab, PageFromCache(t), CacheMax # 0
  PROVE  KeepInv'
<1>1. UNCHANGED <<server, posts, last, exposed>> /\ tab[t].stage = "opening"
  BY DEF PageFromCache, ghosts
<1>2. queue' = queue /\ \A u \in Tab : Shut(u) \/ Goes(u)
  <2>1. CASE Started(t, page[tab[t].book])
    BY <1>1, <2>1, StartedGoes DEF KeepInv
  <2>2. CASE tab' = [tab EXCEPT ![t] = Closed] /\ queue' = queue
    <3>1. \A p \in posts' : p.tab # t
      BY <1>1, OfflineAssumption DEF KeepInv, PostsAreOwned, Unstarted
    <3>2. Shut(t)
      BY <2>2, <3>1 DEF KeepInv, Shape, Shut, Unstarted, Closed
    <3>3. \A u \in Tab : u # t => Goes(u)
      BY <2>2, SameTabGoes DEF KeepInv, Shape
    <3> QED BY <2>2, <3>2, <3>3
  <2> QED BY <2>1, <2>2 DEF PageFromCache
<1>3. Domains' /\ \A b \in Book : Stays(b)
  BY <1>1, <1>2 DEF KeepInv, Domains, Stays
<1> QED BY <1>1, <1>2, <1>3, QuietKeeps DEF Left

LEMMA OpenKeeps ==
  ASSUME KeepInv, Shape', NEW t \in Tab, NEW b \in Book, Open(t, b)
  PROVE  KeepInv'
<1>1. UNCHANGED <<server, queue, posts, last, exposed>>
  BY DEF Open, stores, ghosts
<1>2. \A u \in Tab : u # t => Goes(u)
  BY SameTabGoes DEF KeepInv, Shape, Open
<1>3. Shut(t)
  <2>1. \A p \in posts' : p.tab # t
    BY OfflineAssumption DEF Open, KeepInv, PostsAreOwned, Unstarted
  <2>2. Works(t) /\ tab[t].stage = "closed"
    BY DEF Open, KeepInv
  <2> QED BY <2>1, <2>2 DEF KeepInv, Shape, Fields, Shut, Unstarted, Open, Works
<1>4. Domains' /\ \A x \in Book : Stays(x)
  BY <1>1 DEF KeepInv, Domains, Stays
<1> QED BY <1>1, <1>2, <1>3, <1>4, QuietKeeps DEF Left

\* web_reader writes back the position that it has read, which is still the server's.
LEMMA PageTouchKeeps ==
  ASSUME KeepInv, Shape', NEW t \in Tab, PageTouch(t), CacheMax # 0, HistoryMax \in Nat,
         IsFiniteSet(Book), Cardinality(Book) <= HistoryMax
  PROVE  KeepInv'
<1>1. UNCHANGED <<posts, last, exposed>> /\ tab[t].req # Nothing
  BY DEF PageTouch, ghosts
<1>2. queue' = queue /\ \A u \in Tab : Goes(u)
  <2>1. CASE tab[t].stage = "opening"
    BY <2>1, StartedGoes DEF KeepInv, PageTouch
  <2>2. CASE tab[t].stage # "opening"
    <3>1. queue' = queue /\ tab' = [tab EXCEPT ![t].req = Nothing, ![t].prime = "row"]
      BY <2>2 DEF PageTouch
    <3>2. Works(t)
      BY DEF KeepInv
    <3> QED BY <1>1, <2>2, <3>1, <3>2 DEF KeepInv, Shape, Fields, Goes, Unstarted, Works
  <2> QED BY <2>1, <2>2
<1>3. server' = [server EXCEPT ![tab[t].book] = [pos |-> tab[t].req.pos, ts |-> now]]
  BY NothingPruned DEF PageTouch, KeepInv
<1>4. tab[t].book \in Book \ exposed => tab[t].req.pos = server[tab[t].book].pos
  BY <1>1 DEF KeepInv, Settled, Rendered
<1>5. Domains' /\ \A b \in Book \ exposed' : Stays(b)
  BY <1>1, <1>2, <1>3, <1>4 DEF KeepInv, Domains, Stays
<1> QED BY <1>1, <1>2, <1>5, QuietKeeps DEF Left

LEMMA PostLostKeeps ==
  ASSUME KeepInv, Shape', NEW p \in posts, PostLost(p)
  PROVE  KeepInv'
<1>1. UNCHANGED <<server, queue, last, exposed, tab>> /\ posts' \subseteq posts
  BY DEF PostLost, stores, ghosts
<1>2. \A u \in Tab : Goes(u)
  BY <1>1, SameTabGoes
<1>3. Domains' /\ \A b \in Book : Stays(b)
  BY <1>1 DEF KeepInv, Domains, Stays
<1> QED BY <1>1, <1>2, <1>3, QuietKeeps DEF Left

\* A page goes: its requests are on their way without it.
LEMMA OrphanedLeft ==
  ASSUME KeepInv, NEW t \in Tab, posts' = Orphaned(t)
  PROVE  \A p \in posts' : Left(p) /\ p.tab # t
<1> SUFFICES ASSUME NEW p \in posts' PROVE Left(p) /\ p.tab # t
    OBVIOUS
<1>1. Nothing # t
  BY OfflineAssumption
<1>2. ASSUME NEW q \in posts, ~(q.tab = t /\ q.done), p = IF q.tab = t THEN [q EXCEPT !.tab = Nothing] ELSE q
      PROVE  Left(p) /\ p.tab # t
  <2>1. DOMAIN q = PostFields /\ q.done \in BOOLEAN
    BY DEF KeepInv, PostsAreOwned
  <2>2. CASE q.tab # t
    BY <1>2, <2>2 DEF Left
  <2>3. CASE q.tab = t
    <3>1. p = [q EXCEPT !.tab = Nothing] /\ q.done = FALSE
      BY <1>2, <2>1, <2>3
    <3>2. DOMAIN p = PostFields /\ p.done = FALSE /\ p.tab = Nothing /\ p.book = q.book /\ p.pos = q.pos
      BY <2>1, <3>1 DEF PostFields
    <3> QED BY <1>1, <3>2 DEF Left
  <2> QED BY <2>2, <2>3
<1>3. ASSUME tab[t].entry # Nothing,
             p = [book |-> tab[t].entry.book, pos |-> tab[t].entry.pos, done |-> FALSE, tab |-> Nothing]
      PROVE  Left(p) /\ p.tab # t
  BY <1>1, <1>3 DEF Left, PostFields
<1> QED BY <1>2, <1>3 DEF Orphaned

LEMMA ForgottenGoes ==
  ASSUME KeepInv, NEW t \in Tab, NEW farewell, tab' = Forgotten(t, farewell), \A p \in posts' : p.tab # t
  PROVE  \A u \in Tab : Shut(u) \/ Goes(u)
<1>1. Shut(t)
  BY DEF KeepInv, Shape, Shut, Unstarted, Forgotten, Closed
<1>2. \A u \in Tab : u # t => Goes(u)
  BY DEF KeepInv, Shape, Fields, Goes, Unstarted, Forgotten
<1> QED BY <1>1, <1>2

LEMMA UnloadKeeps ==
  ASSUME KeepInv, Shape', NEW t \in Tab, Unload(t) \/ Kill(t)
  PROVE  KeepInv'
<1>1. UNCHANGED <<server, queue, last, exposed>> /\ posts' = Orphaned(t)
  BY DEF Unload, Kill, stores, ghosts
<1>2. \A u \in Tab : Shut(u) \/ Goes(u)
  BY <1>1, OrphanedLeft, ForgottenGoes DEF Unload, Kill
<1>3. Domains' /\ \A b \in Book : Stays(b)
  BY <1>1 DEF KeepInv, Domains, Stays
<1> QED BY <1>1, <1>2, <1>3, OrphanedLeft, QuietKeeps

-----------------------------------------------------------------------------
\* Steps that send a request, and steps by which one arrives or is answered.

\* A book that such a step is not about.
LEMMA OthersSettled ==
  ASSUME NEW b \in Book, Settled(b),
         last'[b] = last[b], server'[b] = server[b], queue'[b] = queue[b],
         \A p \in posts' : p.book = b => p \in posts,
         \A u \in Tab :
           /\ tab'[u].entry = tab[u].entry \/ tab'[u].entry = Nothing \/ tab'[u].entry.book # b
           /\ tab'[u].book = tab[u].book
           /\ tab[u].book = b => tab'[u].req = tab[u].req /\ tab'[u].idb = tab[u].idb
  PROVE  Settled(b)'
<1>1. last'[b] \in {0, server'[b].pos, queue'[b].pos} /\ (queue'[b] # NoPos => queue'[b].pos = last'[b])
  BY DEF Settled
<1>2. Posted(b)' /\ Replayed(b)' /\ Mirrored(b)'
  BY DEF Settled, Posted, Replayed, Mirrored
<1>3. Rendered(b)'
  BY DEF Settled, Rendered
<1> QED BY <1>1, <1>2, <1>3 DEF Settled

LEMMA PageReadKeeps ==
  ASSUME KeepInv, Shape', NEW t \in Tab, PageRead(t)
  PROVE  KeepInv'
<1> DEFINE b == tab[t].book
<1>1. /\ UNCHANGED <<server, queue, posts, last>>
      /\ exposed' = IF UnderWay(b) \subseteq {server[b].pos} THEN exposed ELSE exposed \union {b}
  BY DEF PageRead, stores, Crosses
<1>2. \A u \in Tab : /\ u # t => tab'[u] = tab[u]
                     /\ tab'[u].book = tab[u].book /\ tab'[u].stage = tab[u].stage
                     /\ tab'[u].timer = tab[u].timer /\ tab'[u].prime = tab[u].prime
                     /\ tab'[u].keys = tab[u].keys /\ tab'[u].entry = tab[u].entry
                     /\ tab'[u].idb = tab[u].idb
  BY DEF KeepInv, Shape, Fields, PageRead
<1>3. tab'[t].req = server[b]
  BY DEF KeepInv, Shape, Fields, PageRead
<1>4. PostsAreOwned'
  BY <1>1, <1>2 DEF KeepInv, PostsAreOwned
<1>5. ASSUME NEW u \in Tab PROVE Works(u)'
  <2>1. u = t => tab[u].stage # "closed"
    BY DEF PageRead, KeepInv, Works, Unstarted
  <2> QED BY <1>2, <2>1 DEF KeepInv, Works
<1>6. ASSUME NEW x \in Book \ exposed' PROVE Settled(x)'
  <2>1. x \notin exposed /\ Settled(x)
    BY <1>1 DEF KeepInv
  <2>2. CASE x # b
    BY <1>1, <1>2, <2>1, <2>2, OthersSettled
  <2>3. CASE x = b
    <3>1. UnderWay(b) \subseteq {server[b].pos}
      BY <1>1, <2>3
    <3>2. /\ \A p \in posts : p.book = b => server[b].pos = last[b]
          /\ \A u \in Tab : tab[u].entry # Nothing /\ tab[u].entry.book = b => server[b].pos = last[b]
      BY <2>1, <2>3, <3>1, OnlyThis DEF Settled, Posted, Replayed
    <3>3. Rendered(x)'
      BY <1>1, <1>2, <1>3, <2>1, <2>3, <3>2 DEF Settled, Rendered
    <3>4. Posted(x)' /\ Replayed(x)' /\ Mirrored(x)'
      BY <1>1, <1>2, <2>1, <2>3 DEF Settled, Posted, Replayed, Mirrored
    <3> QED BY <1>1, <2>1, <2>3, <3>3, <3>4 DEF Settled
  <2> QED BY <2>2, <2>3
<1> QED BY <1>1, <1>4, <1>5, <1>6 DEF KeepInv, Domains

\* recordPositionLocal and the request that follows it.
LEMMA RecordedKeeps ==
  ASSUME KeepInv, Shape', CacheMax # 0, CacheMax \in Nat, NEW t \in Tab, NEW stage, Recorded(t, stage),
         tab[t].stage \notin Unstarted, stage \notin Unstarted,
         NEW a \in {t, Nothing}, posts' = posts \union {Post(t, a)}, server' = server
  PROVE  KeepInv'
<1> DEFINE b == tab[t].book
           r == Request("update", tab[t].cur, 0)
<1>1. /\ queue' = [queue EXCEPT ![b] = [pos |-> tab[t].cur, ts |-> now]]
      /\ last' = [last EXCEPT ![b] = tab[t].cur]
      /\ tab' = [tab EXCEPT ![t].idb = Append(@, r), ![t].timer = FALSE, ![t].stage = stage]
      /\ IF UnderWay(b) = {} THEN exposed' = exposed \ {b} ELSE Crosses(b, tab[t].cur)
  <2>1. CacheMax > 0
    OBVIOUS
  <2> QED BY <2>1 DEF Recorded
<1>2. \A u \in Tab : /\ u # t => tab'[u] = tab[u]
                     /\ tab'[u].book = tab[u].book /\ tab'[u].req = tab[u].req
                     /\ tab'[u].entry = tab[u].entry
  BY <1>1 DEF KeepInv, Shape, Fields
<1>3. tab'[t].idb = Append(tab[t].idb, r) /\ tab'[t].stage = stage /\ r.kind = "update"
  BY <1>1 DEF KeepInv, Shape, Fields, Request
<1>4. /\ DOMAIN Post(t, a) = PostFields /\ Post(t, a).book = b /\ Post(t, a).pos = tab[t].cur
      /\ Post(t, a).done = FALSE /\ Post(t, a).tab = a
  BY DEF Post, PostFields
<1>5. PostsAreOwned'
  BY <1>2, <1>3, <1>4 DEF KeepInv, PostsAreOwned
<1>6. /\ IsSeq(tab'[t].idb)
      /\ \A i \in DOMAIN tab'[t].idb :
           tab'[t].idb[i] = r \/ (i \in DOMAIN tab[t].idb /\ tab'[t].idb[i] = tab[t].idb[i])
  BY <1>3, AppendIsSeq DEF KeepInv, Works
<1>7. ASSUME NEW u \in Tab PROVE Works(u)'
  <2>1. CASE u # t
    BY <1>2, <2>1 DEF KeepInv, Works
  <2>2. CASE u = t
    <3>1. Works(t)
      BY DEF KeepInv
    <3>2. \A i \in DOMAIN tab'[t].idb : tab'[t].idb[i].kind = "replay" =>
            i \in DOMAIN tab[t].idb /\ tab'[t].idb[i] = tab[t].idb[i]
      BY <1>3, <1>6
    <3>3. \A i \in DOMAIN tab'[t].idb : tab'[t].idb[i].kind = "replay" =>
            /\ tab'[t].entry # Nothing /\ tab'[t].entry.done
            /\ \A j \in DOMAIN tab'[t].idb : tab'[t].idb[j].kind = "replay" => i = j
      BY <1>2, <3>1, <3>2 DEF Works
    <3>4. tab'[t].stage \notin Unstarted /\ tab'[t].stage # "closed"
      BY <1>3 DEF Unstarted
    <3> QED BY <1>2, <1>6, <2>2, <3>1, <3>3, <3>4 DEF Works
  <2> QED BY <2>1, <2>2
<1>8. ASSUME NEW x \in Book \ exposed' PROVE Settled(x)'
  <2>1. CASE x # b
    <3>1. x \notin exposed /\ Settled(x)
      BY <1>1, <2>1 DEF KeepInv, Crosses
    <3> QED BY <1>1, <1>2, <1>4, <2>1, <3>1, OthersSettled DEF KeepInv, Domains
  <2>2. CASE x = b
    <3>1. last'[b] = tab[t].cur /\ queue'[b].pos = tab[t].cur
      BY <1>1, <2>2 DEF KeepInv, Domains
    <3>2. /\ \A p \in posts : p.book = b => p.pos = tab[t].cur /\ (p.done => server[b].pos = tab[t].cur)
          /\ \A u \in Tab :
               /\ tab[u].entry # Nothing /\ tab[u].entry.book = b =>
                    tab[u].entry.pos = tab[t].cur /\ (tab[u].entry.done => server[b].pos = tab[t].cur)
               /\ tab[u].book = b => \A i \in DOMAIN tab[u].idb : tab[u].idb[i].kind = "sync" =>
                    tab[u].idb[i].pos = tab[t].cur /\ server[b].pos = tab[t].cur
               /\ tab[u].book = b /\ tab[u].req # Nothing =>
                    tab[u].req.pos = tab[t].cur /\ server[b].pos = tab[t].cur
      <4>1. CASE UnderWay(b) = {}
        BY <2>2, <4>1, NothingUnderWay
      <4>2. CASE UnderWay(b) # {}
        <5>1. UnderWay(b) \subseteq {tab[t].cur} /\ Settled(b)
          BY <1>1, <2>2, <4>2 DEF Crosses, KeepInv
        <5> QED BY <2>2, <5>1, OnlyThis DEF Settled, Posted, Replayed, Mirrored, Rendered
      <4> QED BY <4>1, <4>2
    <3>3. Posted(x)'
      BY <1>4, <2>2, <3>1, <3>2 DEF Posted
    <3>4. Replayed(x)' /\ Rendered(x)'
      BY <1>2, <1>4, <2>2, <3>1, <3>2 DEF Replayed, Rendered
    <3>5. Mirrored(x)'
      <4>1. ASSUME NEW u \in Tab, tab'[u].book = b, NEW i \in DOMAIN tab'[u].idb, tab'[u].idb[i].kind = "sync"
            PROVE  i \in DOMAIN tab[u].idb /\ tab'[u].idb[i] = tab[u].idb[i]
        BY <1>2, <1>3, <1>6, <4>1
      <4> QED BY <1>2, <2>2, <3>1, <3>2, <4>1 DEF Mirrored
    <3> QED BY <2>2, <3>1, <3>3, <3>4, <3>5 DEF Settled
  <2> QED BY <2>1, <2>2
<1> QED BY <1>1, <1>5, <1>7, <1>8 DEF KeepInv, Domains

LEMMA SavesKeep ==
  ASSUME KeepInv, Shape', CacheMax # 0, CacheMax \in Nat, NEW t \in Tab,
         SavePosition(t) \/ Hide(t) \/ Leave(t)
  PROVE  KeepInv'
<1>1. CASE SavePosition(t)
  <2>1. tab[t].stage \notin Unstarted
    BY <1>1 DEF SavePosition, KeepInv, Works
  <2> QED BY <1>1, <2>1, RecordedKeeps DEF SavePosition
<1>2. CASE Hide(t)
  <2>1. tab[t].stage \notin Unstarted
    BY <1>2 DEF Hide, Running, Unstarted
  <2> QED BY <1>2, <2>1, RecordedKeeps DEF Hide
<1>3. CASE Leave(t)
  <2>1. tab[t].stage \notin Unstarted /\ "leaving" \notin Unstarted
    BY <1>3 DEF Leave, Running, Unstarted
  <2>2. CASE tab[t].cur # 0
    BY <1>3, <2>1, <2>2, RecordedKeeps DEF Leave
  <2>3. CASE tab[t].cur = 0
    <3>1. UNCHANGED <<server, queue, posts, last, exposed>> /\ tab' = [tab EXCEPT ![t].stage = "leaving"]
      BY <1>3, <2>3 DEF Leave, ghosts
    <3>2. \A u \in Tab : Goes(u)
      BY <3>1 DEF KeepInv, Shape, Fields, Goes, Unstarted
    <3>3. Domains' /\ \A b \in Book : Stays(b)
      BY <3>1 DEF KeepInv, Domains, Stays
    <3> QED BY <3>1, <3>2, <3>3, QuietKeeps DEF Left
  <2> QED BY <2>2, <2>3
<1> QED BY <1>1, <1>2, <1>3


\* A request arrives: of a book that is not exposed, it carries the position saved last.
LEMMA PostArrivesKeeps ==
  ASSUME KeepInv, Shape', HistoryMax \in Nat, IsFiniteSet(Book), Cardinality(Book) <= HistoryMax,
         NEW p \in posts, PostArrives(p)
  PROVE  KeepInv'
<1> DEFINE b == p.book
<1>1. /\ UNCHANGED <<queue, tab, last, exposed>> /\ ~p.done
      /\ server' = [server EXCEPT ![b] = [pos |-> p.pos, ts |-> now]]
  BY NothingPruned DEF PostArrives, ghosts, KeepInv
<1>2. /\ DOMAIN p = PostFields /\ p.done \in BOOLEAN
      /\ p.tab # Nothing =>
           p.tab \in Tab /\ tab[p.tab].book = p.book /\ tab[p.tab].stage \notin Unstarted
  BY DEF KeepInv, PostsAreOwned
<1>3. ASSUME NEW q \in posts'
      PROVE  \/ q \in posts
             \/ /\ p.tab # Nothing /\ DOMAIN q = PostFields /\ q.book = b /\ q.pos = p.pos
                /\ q.tab = p.tab /\ q.done = TRUE
  <2>1. q \in posts \/ (p.tab # Nothing /\ q = [p EXCEPT !.done = TRUE])
    BY DEF PostArrives
  <2> QED BY <1>2, <2>1 DEF PostFields
<1>4. PostsAreOwned'
  <2> SUFFICES ASSUME NEW q \in posts'
               PROVE  /\ DOMAIN q = PostFields
                      /\ q.done \in BOOLEAN /\ (q.done => q.tab # Nothing)
                      /\ q.tab # Nothing => q.tab \in Tab /\ tab[q.tab].book = q.book
                                              /\ tab[q.tab].stage \notin Unstarted
    BY <1>1 DEF PostsAreOwned
  <2>1. CASE q \in posts
    BY <2>1 DEF KeepInv, PostsAreOwned
  <2>2. CASE q \notin posts
    BY <1>2, <1>3, <2>2
  <2> QED BY <2>1, <2>2
<1>5. \A u \in Tab : Works(u)'
  BY <1>1 DEF KeepInv, Works
<1>6. ASSUME NEW x \in Book \ exposed' PROVE Settled(x)'
  <2>1. x \notin exposed /\ Settled(x)
    BY <1>1 DEF KeepInv
  <2>2. CASE x # b
    <3>1. server'[x] = server[x]
      BY <1>1, <2>2 DEF KeepInv, Domains
    <3>2. \A q \in posts' : q.book = x => q \in posts
      BY <1>3, <2>2
    <3> QED BY <1>1, <2>1, <3>1, <3>2, OthersSettled
  <2>3. CASE x = b
    <3>1. p.pos = last[x] /\ server'[x].pos = last[x]
      BY <1>1, <2>1, <2>3 DEF KeepInv, Domains, Settled, Posted
    <3>2. Posted(x)'
      BY <1>1, <1>3, <2>1, <2>3, <3>1 DEF Settled, Posted
    <3>3. Replayed(x)' /\ Mirrored(x)'
      BY <1>1, <2>1, <3>1 DEF Settled, Replayed, Mirrored
    <3>4. \A u \in Tab : tab[u].book = x /\ tab[u].req # Nothing => tab[u].req.pos = last[x]
      BY <2>1, <2>3 DEF Settled, Rendered
    <3>5. Rendered(x)'
      BY <1>1, <3>1, <3>4 DEF Rendered
    <3> QED BY <1>1, <2>1, <3>1, <3>2, <3>3, <3>5 DEF Settled
  <2> QED BY <2>2, <2>3
<1> QED BY <1>1, <1>4, <1>5, <1>6 DEF KeepInv, Domains

\* An entry that is sent again arrives.
LEMMA ReplayArrivesKeeps ==
  ASSUME KeepInv, Shape', HistoryMax \in Nat, IsFiniteSet(Book), Cardinality(Book) <= HistoryMax,
         NEW t \in Tab, ReplayArrives(t)
  PROVE  KeepInv'
<1> DEFINE e == tab[t].entry
           b == e.book
<1>1. /\ UNCHANGED <<queue, posts, last, exposed>> /\ e # Nothing
      /\ server' = [server EXCEPT ![b] = [pos |-> e.pos, ts |-> now]]
  BY NothingPruned DEF ReplayArrives, ghosts, KeepInv
<1>2. \A u \in Tab : /\ u # t => tab'[u] = tab[u]
                     /\ tab'[u].book = tab[u].book /\ tab'[u].stage = tab[u].stage
                     /\ tab'[u].timer = tab[u].timer /\ tab'[u].prime = tab[u].prime
                     /\ tab'[u].keys = tab[u].keys /\ tab'[u].req = tab[u].req
                     /\ tab'[u].idb = tab[u].idb
  BY DEF KeepInv, Shape, Fields, ReplayArrives
<1>3. tab'[t].entry = [e EXCEPT !.done = TRUE]
  BY DEF KeepInv, Shape, Fields, ReplayArrives
<1>4. tab[t].stage \notin Unstarted
  BY <1>1 DEF KeepInv, Works
<1>5. PostsAreOwned'
  BY <1>1, <1>2 DEF KeepInv, PostsAreOwned
<1>6. ASSUME NEW u \in Tab PROVE Works(u)'
  <2>1. CASE u # t
    BY <1>2, <2>1 DEF KeepInv, Works
  <2>2. CASE u = t
    <3>1. Works(t) /\ ~e.done
      BY DEF KeepInv, ReplayArrives
    <3>2. \A i \in DOMAIN tab[t].idb : tab[t].idb[i].kind # "replay"
      BY <3>1 DEF Works
    <3>3. DOMAIN tab'[t].entry = EntryFields /\ tab'[t].entry.done \in BOOLEAN
      BY <1>1, <1>3, <3>1 DEF Works, EntryFields
    <3>4. tab'[t].stage # "closed" /\ tab'[t].stage \notin Unstarted
      BY <1>2, <1>4 DEF Unstarted
    <3> QED BY <1>2, <2>2, <3>1, <3>2, <3>3, <3>4 DEF Works
  <2> QED BY <2>1, <2>2
<1>7. tab'[t].entry.book = b /\ tab'[t].entry.pos = e.pos
  BY <1>1, <1>3 DEF KeepInv, Works, EntryFields
<1>8. ASSUME NEW x \in Book \ exposed' PROVE Settled(x)'
  <2>1. x \notin exposed /\ Settled(x)
    BY <1>1 DEF KeepInv
  <2>2. CASE x # b
    <3>1. server'[x] = server[x]
      BY <1>1, <2>2 DEF KeepInv, Domains
    <3> QED BY <1>1, <1>2, <1>7, <2>1, <2>2, <3>1, OthersSettled
  <2>3. CASE x = b
    <3>1. e.pos = last[x] /\ server'[x].pos = last[x]
      BY <1>1, <2>1, <2>3 DEF KeepInv, Domains, Settled, Replayed
    <3>2. Posted(x)' /\ Mirrored(x)'
      BY <1>1, <1>2, <2>1, <3>1 DEF Settled, Posted, Mirrored
    <3>3. Replayed(x)'
      BY <1>1, <1>2, <1>7, <2>1, <3>1 DEF Settled, Replayed
    <3>4. \A u \in Tab : tab[u].book = x /\ tab[u].req # Nothing => tab[u].req.pos = last[x]
      BY <1>1, <2>1, <2>3 DEF Settled, Rendered
    <3>5. Rendered(x)'
      BY <1>1, <1>2, <3>1, <3>4 DEF Rendered
    <3> QED BY <1>1, <2>1, <3>1, <3>2, <3>3, <3>5 DEF Settled
  <2> QED BY <2>2, <2>3
<1> QED BY <1>1, <1>5, <1>6, <1>8 DEF KeepInv, Domains

\* An entry is sent again: it is the position saved last, and it crosses nothing else.
LEMMA ReplayNextKeeps ==
  ASSUME KeepInv, Shape', NEW t \in Tab, ReplayNext(t)
  PROVE  KeepInv'
<1>1. UNCHANGED <<server, queue, posts, last>> /\ tab[t].entry = Nothing
  BY DEF ReplayNext, stores
<1>2. PICK k \in tab[t].keys :
        IF queue[k] = NoPos
        THEN tab' = [tab EXCEPT ![t].keys = @ \ {k}] /\ UNCHANGED exposed
        ELSE /\ tab' = [tab EXCEPT ![t].entry = [book |-> k, pos |-> queue[k].pos,
                                                ts |-> queue[k].ts, done |-> FALSE]]
             /\ Crosses(k, queue[k].pos)
  BY DEF ReplayNext
<1>3. tab[t].stage \notin Unstarted
  BY <1>2 DEF KeepInv, Works
<1>4. CASE queue[k] = NoPos
  <2>1. \A u \in Tab : Goes(u)
    BY <1>2, <1>3, <1>4 DEF KeepInv, Shape, Fields, Goes, Unstarted
  <2>2. Domains' /\ \A b \in Book : Stays(b)
    BY <1>1 DEF KeepInv, Domains, Stays
  <2> QED BY <1>1, <1>2, <1>4, <2>1, <2>2, QuietKeeps DEF Left
<1>5. CASE queue[k] # NoPos
  <2> DEFINE e == [book |-> k, pos |-> queue[k].pos, ts |-> queue[k].ts, done |-> FALSE]
  <2>1. tab' = [tab EXCEPT ![t].entry = e] /\ Crosses(k, queue[k].pos)
    BY <1>2, <1>5
  <2>2. \A u \in Tab : /\ u # t => tab'[u] = tab[u]
                       /\ tab'[u].book = tab[u].book /\ tab'[u].stage = tab[u].stage
                       /\ tab'[u].timer = tab[u].timer /\ tab'[u].prime = tab[u].prime
                       /\ tab'[u].keys = tab[u].keys /\ tab'[u].req = tab[u].req
                       /\ tab'[u].idb = tab[u].idb
    BY <2>1 DEF KeepInv, Shape, Fields
  <2>3. tab'[t].entry = e /\ DOMAIN e = EntryFields
    BY <2>1 DEF KeepInv, Shape, Fields, EntryFields
  <2>4. PostsAreOwned'
    BY <1>1, <2>2 DEF KeepInv, PostsAreOwned
  <2>5. ASSUME NEW u \in Tab PROVE Works(u)'
    <3>1. CASE u # t
      BY <2>2, <3>1 DEF KeepInv, Works
    <3>2. CASE u = t
      <4>1. Works(t)
        BY DEF KeepInv
      <4>2. \A i \in DOMAIN tab[t].idb : tab[t].idb[i].kind # "replay"
        BY <1>1, <4>1 DEF Works
      <4>3. tab'[t].stage # "closed" /\ tab'[t].stage \notin Unstarted
        BY <1>3, <2>2 DEF Unstarted
      <4>4. DOMAIN tab'[t].entry = EntryFields /\ tab'[t].entry.done \in BOOLEAN
        BY <2>3
      <4> QED BY <2>2, <3>2, <4>1, <4>2, <4>3, <4>4 DEF Works
    <3> QED BY <3>1, <3>2
  <2>6. ASSUME NEW x \in Book \ exposed' PROVE Settled(x)'
    <3>1. x \notin exposed /\ Settled(x)
      BY <2>1 DEF KeepInv, Crosses
    <3>2. CASE x # k
      BY <1>1, <2>2, <2>3, <3>1, <3>2, OthersSettled
    <3>3. CASE x = k
      <4>1. queue[x].pos = last[x] /\ UnderWay(x) \subseteq {last[x]}
        BY <1>5, <2>1, <3>1, <3>3 DEF Settled, Crosses
      <4>2. Posted(x)' /\ Mirrored(x)'
        BY <1>1, <2>2, <3>1 DEF Settled, Posted, Mirrored
      <4>3. Replayed(x)'
        BY <1>1, <2>2, <2>3, <3>1, <3>3, <4>1 DEF Settled, Replayed
      <4>4. \A u \in Tab : tab[u].book = x /\ tab[u].req # Nothing =>
              tab[u].req.pos = last[x] /\ server[x].pos = last[x]
        BY <3>1, <4>1, OnlyThis DEF Settled, Rendered
      <4>5. Rendered(x)'
        BY <1>1, <2>2, <4>4 DEF Rendered
      <4> QED BY <1>1, <3>1, <4>2, <4>3, <4>5 DEF Settled
    <3> QED BY <3>2, <3>3
  <2> QED BY <1>1, <2>4, <2>5, <2>6 DEF KeepInv, Domains
<1> QED BY <1>4, <1>5

\* An answer asks the mirror for its book's position, or for the entry that was sent again.
LEMMA AppendKeeps ==
  ASSUME KeepInv, Shape', NEW t \in Tab, NEW r, tab[t].stage \notin Unstarted,
         tab' = [tab EXCEPT ![t].idb = Append(@, r)],
         posts' \subseteq posts, UNCHANGED <<server, queue, last, exposed>>,
         r.kind = "replay" =>
           /\ tab[t].entry # Nothing /\ tab[t].entry.done
           /\ \A i \in DOMAIN tab[t].idb : tab[t].idb[i].kind # "replay",
         r.kind = "sync" =>
           (tab[t].book \in Book \ exposed =>
              r.pos = last[tab[t].book] /\ server[tab[t].book].pos = last[tab[t].book])
  PROVE  KeepInv'
<1>1. \A u \in Tab : /\ u # t => tab'[u] = tab[u]
                     /\ tab'[u].book = tab[u].book /\ tab'[u].stage = tab[u].stage
                     /\ tab'[u].timer = tab[u].timer /\ tab'[u].prime = tab[u].prime
                     /\ tab'[u].keys = tab[u].keys /\ tab'[u].req = tab[u].req
                     /\ tab'[u].entry = tab[u].entry
  BY DEF KeepInv, Shape, Fields
<1>2. tab'[t].idb = Append(tab[t].idb, r)
  BY DEF KeepInv, Shape, Fields
<1>3. /\ IsSeq(tab'[t].idb)
      /\ \A i \in DOMAIN tab'[t].idb :
           tab'[t].idb[i] = r \/ (i \in DOMAIN tab[t].idb /\ tab'[t].idb[i] = tab[t].idb[i])
      /\ \A i, j \in DOMAIN tab'[t].idb : i \notin DOMAIN tab[t].idb /\ j \notin DOMAIN tab[t].idb => i = j
      /\ \A i \in DOMAIN tab'[t].idb : i \in DOMAIN tab[t].idb => tab'[t].idb[i] = tab[t].idb[i]
  BY <1>2, AppendIsSeq DEF KeepInv, Works
<1>4. PostsAreOwned'
  BY <1>1 DEF KeepInv, PostsAreOwned
<1>5. ASSUME NEW u \in Tab PROVE Works(u)'
  <2>1. CASE u # t
    BY <1>1, <2>1 DEF KeepInv, Works
  <2>2. CASE u = t
    <3>1. Works(t)
      BY DEF KeepInv
    <3>2. ASSUME NEW i \in DOMAIN tab'[t].idb, tab'[t].idb[i].kind = "replay"
          PROVE  /\ tab'[t].entry # Nothing /\ tab'[t].entry.done
                 /\ \A j \in DOMAIN tab'[t].idb : tab'[t].idb[j].kind = "replay" => i = j
      <4>1. CASE r.kind = "replay"
        BY <1>1, <1>3, <3>2, <4>1
      <4>2. CASE r.kind # "replay"
        BY <1>1, <1>3, <3>1, <3>2, <4>2 DEF Works
      <4> QED BY <4>1, <4>2
    <3>3. tab'[t].stage # "closed" /\ tab'[t].stage \notin Unstarted
      BY <1>1 DEF Unstarted
    <3> QED BY <1>1, <1>3, <2>2, <3>1, <3>2, <3>3 DEF Works
  <2> QED BY <2>1, <2>2
<1>6. ASSUME NEW x \in Book \ exposed' PROVE Settled(x)'
  <2>1. Settled(x)
    BY DEF KeepInv
  <2>2. Posted(x)' /\ Replayed(x)' /\ Rendered(x)'
    BY <1>1, <2>1 DEF Settled, Posted, Replayed, Rendered
  <2>3. Mirrored(x)'
    <3> SUFFICES ASSUME NEW u \in Tab, tab'[u].book = x,
                        NEW i \in DOMAIN tab'[u].idb, tab'[u].idb[i].kind = "sync"
                 PROVE  tab'[u].idb[i].pos = last[x] /\ server[x].pos = last[x]
      BY DEF Mirrored
    <3>1. tab[u].book = x
      BY <1>1
    <3>2. (i \in DOMAIN tab[u].idb /\ tab'[u].idb[i] = tab[u].idb[i]) \/ (u = t /\ tab'[u].idb[i] = r)
      BY <1>1, <1>3
    <3> QED BY <2>1, <3>1, <3>2 DEF Settled, Mirrored
  <2> QED BY <2>1, <2>2, <2>3 DEF Settled
<1> QED BY <1>4, <1>5, <1>6 DEF KeepInv, Domains

LEMMA MarkPositionSyncedKeeps ==
  ASSUME KeepInv, Shape', NEW p \in posts, MarkPositionSynced(p)
  PROVE  KeepInv'
<1>1. UNCHANGED <<server, queue, last, exposed>> /\ posts' \subseteq posts /\ p.done
  BY DEF MarkPositionSynced, stores, ghosts
<1>2. p.tab \in Tab /\ tab[p.tab].book = p.book /\ tab[p.tab].stage \notin Unstarted
  BY <1>1 DEF KeepInv, PostsAreOwned
<1>3. CASE queue[p.book] = NoPos
  <2>1. tab' = tab
    BY <1>3 DEF MarkPositionSynced
  <2>2. \A u \in Tab : Goes(u)
    BY <2>1, SameTabGoes
  <2>3. Domains' /\ \A b \in Book : Stays(b)
    BY <1>1 DEF KeepInv, Domains, Stays
  <2> QED BY <1>1, <2>2, <2>3, QuietKeeps DEF Left
<1>4. CASE queue[p.book] # NoPos
  <2> DEFINE r == Request("sync", queue[p.book].pos, queue[p.book].ts)
  <2>1. tab' = [tab EXCEPT ![p.tab].idb = Append(@, r)]
    BY <1>4 DEF MarkPositionSynced
  <2>2. r.kind = "sync" /\ r.pos = queue[p.book].pos
    BY DEF Request
  <2>3. p.book \in Book \ exposed => queue[p.book].pos = last[p.book] /\ server[p.book].pos = last[p.book]
    BY <1>1, <1>4 DEF KeepInv, Settled, Posted
  <2> HIDE DEF r
  <2> QED BY <1>1, <1>2, <2>1, <2>2, <2>3, AppendKeeps
<1> QED BY <1>3, <1>4

LEMMA ReplayAnsweredKeeps ==
  ASSUME KeepInv, Shape', NEW t \in Tab, ReplayAnswered(t)
  PROVE  KeepInv'
<1> DEFINE r == Request("replay", tab[t].entry.pos, tab[t].entry.ts)
<1>1. UNCHANGED <<server, queue, posts, last, exposed>> /\ tab' = [tab EXCEPT ![t].idb = Append(@, r)]
  BY DEF ReplayAnswered, stores, ghosts
<1>2. /\ tab[t].entry # Nothing /\ tab[t].entry.done
      /\ \A i \in DOMAIN tab[t].idb : tab[t].idb[i].kind # "replay"
  BY DEF ReplayAnswered
<1>3. tab[t].stage \notin Unstarted
  BY <1>2 DEF KeepInv, Works
<1>4. r.kind = "replay"
  BY DEF Request
<1> HIDE DEF r
<1> QED BY <1>1, <1>2, <1>3, <1>4, AppendKeeps

-----------------------------------------------------------------------------
LEMMA InitKeeps == Init => KeepInv
<1> SUFFICES ASSUME Init PROVE KeepInv
    OBVIOUS
<1>1. Shape
  BY DEF Init, Shape, Fields, Closed
<1>2. Domains /\ PostsAreOwned
  BY DEF Init, Domains, PostsAreOwned
<1>3. \A t \in Tab : tab[t] = Closed
  BY DEF Init
<1>4. \A t \in Tab : Works(t)
  BY <1>3, EmptyIsSeq DEF Closed, Works
<1>5. \A b \in Book : Settled(b)
  <2> SUFFICES ASSUME NEW b \in Book PROVE Settled(b)
      OBVIOUS
  <2>1. /\ last[b] \in {0, server[b].pos, queue[b].pos}
        /\ queue[b] # NoPos => queue[b].pos = last[b]
    BY DEF Init, NoPos
  <2>2. Posted(b) /\ Replayed(b)
    BY <1>3 DEF Init, Posted, Replayed, Closed
  <2>3. Mirrored(b) /\ Rendered(b)
    BY <1>3 DEF Mirrored, Rendered, Closed
  <2> QED BY <2>1, <2>2, <2>3 DEF Settled
<1> QED BY <1>1, <1>2, <1>4, <1>5 DEF KeepInv

\* The premises of LastPlaceIsKept.
Room == CacheMax > 0 /\ Cardinality(Book) <= HistoryMax

LEMMA NextKeeps ==
  ASSUME IsFiniteSet(Book), Room, KeepInv, Shape', [Next]_vars
  PROVE  KeepInv'
<1>0. CacheMax # 0 /\ CacheMax \in Nat /\ HistoryMax \in Nat /\ Cardinality(Book) <= HistoryMax
  BY OfflineAssumption DEF Room
<1>1. CASE Tick \/ GoOffline \/ GoOnline
  BY <1>1, TickKeeps, GoOfflineKeeps, GoOnlineKeeps
<1>2. ASSUME NEW t \in Tab, NEW b \in Book, Open(t, b) PROVE KeepInv'
  BY <1>2, OpenKeeps
<1>3. ASSUME NEW t \in Tab,
             \/ PageRead(t) \/ PageTouch(t) \/ PageFromCache(t) \/ FetchBook(t) \/ Resolve(t)
             \/ TurnPage(t) \/ SavePosition(t) \/ Hide(t) \/ Leave(t)
      PROVE  KeepInv'
  BY <1>0, <1>3, PageReadKeeps, PageTouchKeeps, PageFromCacheKeeps, FetchBookKeeps, ResolveKeeps,
     TurnPageKeeps, SavesKeep
<1>4. ASSUME NEW t \in Tab,
             \/ UpdateIdbPosition(t) \/ SyncPositionToMirror(t) \/ ReplaySynced(t)
             \/ ReplayNext(t) \/ ReplayArrives(t) \/ ReplayAnswered(t) \/ ReplayFails(t)
             \/ ReplayRefused(t)
      PROVE  KeepInv'
  BY <1>0, <1>4, UpdateIdbPositionKeeps, SyncPositionToMirrorKeeps, ReplaySyncedKeeps,
     ReplayNextKeeps, ReplayArrivesKeeps, ReplayAnsweredKeeps, ReplayFailsKeeps, ReplayRefusedKeeps
<1>5. ASSUME NEW t \in Tab,
             \/ PrimeBytes(t) \/ PrimeHtmlOffline(t) \/ PrimeHtmlRefused(t) \/ PrimeRow(t)
             \/ PrimeCount(t) \/ EvictRow(t) \/ EvictPage(t) \/ EvictBytes(t) \/ EvictQueued(t)
             \/ Unload(t) \/ Kill(t)
      PROVE  KeepInv'
  BY <1>5, PrimeBytesKeeps, PrimeHtmlOfflineKeeps, PrimeHtmlRefusedKeeps, PrimeRowKeeps,
     PrimeCountKeeps, EvictRowKeeps, EvictPageKeeps, EvictBytesKeeps, EvictQueuedKeeps, UnloadKeeps
<1>6. ASSUME NEW p \in posts, PostArrives(p) \/ PostLost(p) \/ MarkPositionSynced(p)
      PROVE  KeepInv'
  BY <1>0, <1>6, PostArrivesKeeps, PostLostKeeps, MarkPositionSyncedKeeps
<1>7. CASE UNCHANGED vars
  <2>1. UNCHANGED <<server, queue, posts, last, exposed, tab>>
    BY <1>7 DEF vars, stores, ghosts
  <2>2. \A u \in Tab : Goes(u)
    BY <2>1, SameTabGoes
  <2>3. Domains' /\ \A b \in Book : Stays(b)
    BY <2>1 DEF KeepInv, Domains, Stays
  <2> QED BY <2>1, <2>2, <2>3, QuietKeeps DEF Left
<1> QED BY <1>1, <1>2, <1>3, <1>4, <1>5, <1>6, <1>7 DEF Next

\* LastPlaceIsKept, of recordPositionLocal, savePosition, replayQueuedPositions and web_reader: for
\* any books, tabs and environments, offline, killed and refused pages among them, the position saved
\* last in a book is on the server or waits in the queue, unless two positions of it were under way
\* at once or evictOldest dropped it from the queue.
THEOREM LastPlaceSafe == IsFiniteSet(Book) /\ Spec => []LastPlaceIsKept
<1> SUFFICES ASSUME IsFiniteSet(Book) PROVE Spec => []LastPlaceIsKept
    OBVIOUS
<1>1. CASE Room
  <2>1. Init => OfflineInv /\ KeepInv
    BY InitListed, InitKeeps
  <2>2. OfflineInv /\ KeepInv /\ [Next]_vars => (OfflineInv /\ KeepInv)'
    BY <1>1, NextListed, NextKeeps DEF OfflineInv
  <2>3. KeepInv => LastPlaceIsKept
    BY DEF KeepInv, Settled, LastPlaceIsKept
  <2> QED BY <2>1, <2>2, <2>3, PTL DEF Spec
<1>2. CASE ~Room
  <2>1. LastPlaceIsKept
    BY <1>2 DEF Room, LastPlaceIsKept
  <2> QED BY <2>1, PTL
<1> QED BY <1>1, <1>2

=============================================================================
