---------------------------- MODULE OfflineReader ----------------------------
(* Reading positions and the offline copies of books in one browser:          *)
(* static/js/reader.js saves positions, static/js/reader-offline.js keeps     *)
(* copies of the last books read, static/sw.js serves them when the server is *)
(* out of reach, and web_reader and save_reading_position of the server store *)
(* the position per book.  Tabs share the caches, the rows of IndexedDB (one  *)
(* per book, with a mirror of the position) and a queue in localStorage (one  *)
(* entry per book).  Every step between two awaits is an action, so the pages *)
(* interleave as they do in the browser.                                      *)
(*                                                                            *)
(* A tick of the clock is a second, the precision of updated_at.  A position  *)
(* is the second in which the reader turned to it, one page per second at     *)
(* most; 0 is the empty string.  The progress goes with the position.  All    *)
(* pages are of one app version, the reader has a session, and the books are  *)
(* of formats that can be cached.                                             *)
EXTENDS Integers, FiniteSets, Sequences

CONSTANTS
  Book, Tab,
  CacheMax,    \* reader.offline.cached_books_max
  HistoryMax,  \* reader.read_history_max
  PromoteAge,  \* CACHE_PROMOTE_TIMEOUT_MS
  MaxClock,    \* bound on the clock, by environment
  MaxPosts,    \* bound on the requests under way
  MaxIdb,      \* bound: requests to IndexedDB under way in a tab
  Envs,        \* the environments of this instance
  Shelf,       \* bound: the books that are opened, by environment
  Nothing

\* What may happen beside reading online in one tab that is left in peace.  "read before": the
\* server has a position of the books that are opened, which another device saved; "unsent": an
\* earlier page has left copies of the others, and positions that it saved without a network.
Events == {"offline", "two tabs", "same book", "early hide", "cut off", "kill", "server error",
           "read before", "unsent"}

NoPos == [pos |-> 0, ts |-> 0]

ASSUME OfflineAssumption ==
  /\ CacheMax \in Nat /\ HistoryMax \in Nat \ {0} /\ PromoteAge \in Nat
  /\ MaxClock \in [Envs -> Nat] /\ Shelf \in [Envs -> SUBSET Book]
  /\ MaxPosts \in Nat /\ MaxIdb \in Nat
  /\ Envs \subseteq SUBSET Events /\ Envs # {}
  /\ Nothing \notin Tab /\ Nothing # NoPos

VARIABLES
  env,     \* the environment
  now,     \* the clock of the browser and the server
  online,  \* the server can be reached
  server,  \* reading_positions of the user; ts = 0: no row
  row,     \* the rows of IndexedDB: the mirror of the position, last_opened
  queue,   \* localStorage "ropds-pos-<book>"; NoPos: no entry
  page,    \* HTML of the reader page in BOOKS_CACHE: the position rendered into it
  bytes,   \* the books whose file is in BOOKS_CACHE
  tab,     \* every tab
  posts,   \* POSTs of positions under way
  last,    \* the position saved last in every book
  exposed  \* the books whose last position met a loss that the code does not guard against

stores == <<server, row, queue, page, bytes>>
ghosts == <<last, exposed>>
vars == <<env, now, online, stores, tab, posts, ghosts>>

\* A tab without a reader page.
Closed == [stage |-> "closed", book |-> Nothing, saved |-> NoPos, cur |-> 0, timer |-> FALSE,
           live |-> {}, req |-> Nothing, prime |-> "idle", victim |-> Nothing,
           idb |-> <<>>, keys |-> {}, entry |-> Nothing]

\* The stages in which reader.js and reader-offline.js run.
Running == {"page", "book", "reading", "failed", "leaving"}

Init ==
  /\ env \in Envs /\ now = 1 /\ online = TRUE
  /\ LET before == IF "read before" \in env THEN Shelf[env] ELSE {}
         unsent == IF "unsent" \in env THEN Book \ Shelf[env] ELSE {}
     IN /\ server = [b \in Book |-> IF b \in before THEN [pos |-> 1, ts |-> 1] ELSE NoPos]
        /\ row = [b \in Book |-> IF b \in unsent THEN [pos |-> 1, ts |-> 1, opened |-> 1] ELSE Nothing]
        /\ queue = [b \in Book |-> IF b \in unsent THEN [pos |-> 1, ts |-> 1] ELSE NoPos]
        /\ page = [b \in Book |-> IF b \in unsent THEN NoPos ELSE Nothing]
        /\ bytes = unsent
        /\ last = [b \in Book |-> IF b \in before \union unsent THEN 1 ELSE 0]
  /\ posts = {} /\ exposed = {}
  /\ tab = [t \in Tab |-> Closed]

-----------------------------------------------------------------------------
(* The server. *)

\* save_position: the upsert, then prune_oldest, whose order of equal times is open.
Saved(b, p) ==
  LET up   == [server EXCEPT ![b] = [pos |-> p, ts |-> now]]
      rows == {x \in Book : up[x].ts # 0}
      keep == {k \in SUBSET rows :
                 /\ Cardinality(k) = HistoryMax
                 /\ \A x \in k, y \in rows \ k : up[x].ts >= up[y].ts}
  IN IF Cardinality(rows) <= HistoryMax
     THEN {up}
     ELSE {[x \in Book |-> IF x \in k THEN up[x] ELSE NoPos] : k \in keep}

\* The positions that requests of a book which are under way carry: saves and their answers, and
\* of a tab the entry that it sends again, the page that it asked for, and what it mirrors.
Carried(t, b) ==
  LET syncs == {i \in DOMAIN tab[t].idb : tab[t].idb[i].kind = "sync"} IN
  (IF tab[t].entry # Nothing /\ tab[t].entry.book = b THEN {tab[t].entry.pos} ELSE {})
    \union (IF tab[t].book = b /\ tab[t].req # Nothing THEN {tab[t].req.pos} ELSE {})
    \union (IF tab[t].book = b THEN {tab[t].idb[i].pos : i \in syncs} ELSE {})
UnderWay(b) ==
  {p.pos : p \in {q \in posts : q.book = b}} \union UNION {Carried(t, b) : t \in Tab}

\* A request of the book with this position is sent: nothing orders it and others with another
\* position, on the server or in what an answer removes from the queue.
Crosses(b, pos) == exposed' = IF UnderWay(b) \subseteq {pos} THEN exposed ELSE exposed \union {b}

Tick == now < MaxClock[env] /\ now' = now + 1 /\ UNCHANGED <<env, online, stores, tab, posts, ghosts>>

GoOffline ==
  /\ "offline" \in env /\ online /\ online' = FALSE
  /\ UNCHANGED <<env, now, stores, tab, posts, ghosts>>

\* The "online" event: every page without a loop under way starts replayQueuedPositions.
GoOnline ==
  /\ ~online /\ online' = TRUE
  /\ tab' = [t \in Tab |->
       IF tab[t].stage \in Running /\ tab[t].keys = {}
       THEN [tab[t] EXCEPT !.keys = {b \in Book : queue[b] # NoPos}]
       ELSE tab[t]]
  /\ UNCHANGED <<env, now, stores, posts, ghosts>>

-----------------------------------------------------------------------------
(* Opening a book. *)

Open(t, b) ==
  /\ tab[t].stage = "closed" /\ b \in Shelf[env]
  /\ "two tabs" \in env \/ \A u \in Tab : tab[u].stage = "closed"
  /\ "same book" \in env \/ \A u \in Tab : tab[u].book # b
  /\ tab' = [tab EXCEPT ![t].stage = "opening", ![t].book = b]
  /\ UNCHANGED <<env, now, online, stores, posts, ghosts>>

\* web_reader reads the position, for a navigation and for the copy primeAndCacheBook takes...
PageRead(t) ==
  /\ online /\ tab[t].req = Nothing
  /\ tab[t].stage = "opening" \/ tab[t].prime = "html"
  /\ tab' = [tab EXCEPT ![t].req = server[tab[t].book]]
  /\ Crosses(tab[t].book, server[tab[t].book].pos)
  /\ UNCHANGED <<env, now, online, stores, posts, last>>

\* The scripts of a page start: the position rendered into it, the announcement to the
\* other tabs, and maybeWipeIfDisabled.
Started(t, saved) ==
  LET b == tab[t].book IN
  /\ tab' = [u \in Tab |->
       IF u = t THEN [tab[t] EXCEPT !.stage = "page", !.req = Nothing, !.saved = saved,
                                    !.cur = saved.pos, !.live = {b}]
       ELSE IF tab[u].stage \in Running THEN [tab[u] EXCEPT !.live = @ \union {b}]
       ELSE tab[u]]
  /\ IF CacheMax = 0
     THEN /\ row' = [x \in Book |-> Nothing] /\ page' = row' /\ bytes' = {}
          /\ queue' = [x \in Book |-> NoPos]
     ELSE UNCHANGED <<row, queue, page, bytes>>

\* ... and then writes what it read back, so that the book is the last one read.
PageTouch(t) ==
  /\ tab[t].req # Nothing
  /\ server' \in Saved(tab[t].book, tab[t].req.pos)
  /\ IF tab[t].stage = "opening" THEN Started(t, tab[t].req)
     ELSE /\ page' = [page EXCEPT ![tab[t].book] = tab[t].req]
          /\ tab' = [tab EXCEPT ![t].req = Nothing, ![t].prime = "row"]
          /\ UNCHANGED <<row, queue, bytes>>
  /\ UNCHANGED <<env, now, online, posts, ghosts>>

\* The navigation fails: handleReaderNav answers with the copy, or offlineFallback.
PageFromCache(t) ==
  /\ ~online /\ tab[t].stage = "opening"
  /\ LET b == tab[t].book IN
     IF page[b] # Nothing THEN Started(t, page[b])
     ELSE /\ tab' = [tab EXCEPT ![t] = Closed]
          /\ UNCHANGED <<row, queue, page, bytes>>
  /\ UNCHANGED <<env, now, online, server, posts, ghosts>>

\* The page fetches the file; handleBookBytes answers from the cache when the server is
\* out of reach.  primeAndCacheBook starts with the answer and is not waited for.
FetchBook(t) ==
  /\ tab[t].stage = "page"
  /\ tab' = IF online \/ tab[t].book \in bytes
            THEN [tab EXCEPT ![t].stage = "book",
                             ![t].prime = IF CacheMax > 0 THEN "static" ELSE "idle"]
            ELSE [tab EXCEPT ![t].stage = "failed"]
  /\ UNCHANGED <<env, now, online, stores, posts, ghosts>>

\* resolveInitialPosition, once the book is open: the mirror if it is fresher than the
\* position in the page.  The view that follows starts the timer of debouncedSave.
Resolve(t) ==
  /\ tab[t].stage = "book"
  /\ LET m == row[tab[t].book]
         local == m # Nothing /\ m.ts > tab[t].saved.ts /\ m.pos # 0
     IN tab' = [tab EXCEPT ![t].stage = "reading", ![t].timer = TRUE,
                           ![t].cur = IF local THEN m.pos ELSE tab[t].saved.pos]
  /\ UNCHANGED <<env, now, online, stores, posts, ghosts>>

-----------------------------------------------------------------------------
(* Reading and saving. *)

TurnPage(t) ==
  /\ tab[t].stage = "reading"
  /\ now < MaxClock[env] /\ now' = now + 1
  /\ tab' = [tab EXCEPT ![t].cur = now', ![t].timer = TRUE]
  /\ UNCHANGED <<env, online, stores, posts, ghosts>>

\* A request to IndexedDB.  A tab opens the database once per request, and its requests
\* are served in their order.
Request(kind, pos, ts) == [kind |-> kind, pos |-> pos, ts |-> ts]

\* recordPositionLocal: the queue at once, the mirror (updateIdbPosition) in its turn; and the
\* request.  A save of a book of which nothing is under way leaves no trace of earlier losses.
Recorded(t, stage) ==
  LET b == tab[t].book IN
  /\ IF CacheMax > 0
     THEN /\ queue' = [queue EXCEPT ![b] = [pos |-> tab[t].cur, ts |-> now]]
          /\ tab' = [tab EXCEPT ![t].idb = Append(@, Request("update", tab[t].cur, 0)),
                                ![t].timer = FALSE, ![t].stage = stage]
     ELSE tab' = [tab EXCEPT ![t].timer = FALSE, ![t].stage = stage] /\ UNCHANGED queue
  /\ last' = [last EXCEPT ![b] = tab[t].cur]
  /\ IF UnderWay(b) = {} THEN exposed' = exposed \ {b} ELSE Crosses(b, tab[t].cur)

MaySave(t) == tab[t].cur # 0 /\ Len(tab[t].idb) < MaxIdb /\ Cardinality(posts) < MaxPosts

Post(t, answerTo) ==
  [book |-> tab[t].book, pos |-> tab[t].cur, done |-> FALSE, tab |-> answerTo]

\* savePosition
SavePosition(t) ==
  /\ tab[t].timer /\ MaySave(t)
  /\ Recorded(t, tab[t].stage)
  /\ posts' = posts \union {Post(t, t)}
  /\ UNCHANGED <<env, now, online, server, row, page, bytes>>

\* savePositionBeacon, when the tab is hidden: nothing waits for the answer.
Hide(t) ==
  /\ tab[t].stage = "reading" \/ (tab[t].stage \in Running /\ "early hide" \in env)
  /\ MaySave(t)
  /\ Recorded(t, tab[t].stage)
  /\ posts' = posts \union {Post(t, Nothing)}
  /\ UNCHANGED <<env, now, online, server, row, page, bytes>>

\* updateIdbPosition: only a book that has a row has a mirror.
UpdateIdbPosition(t) ==
  /\ tab[t].idb # <<>> /\ Head(tab[t].idb).kind = "update"
  /\ LET b == tab[t].book IN
     row' = IF row[b] = Nothing THEN row
            ELSE [row EXCEPT ![b].pos = Head(tab[t].idb).pos, ![b].ts = now]
  /\ tab' = [tab EXCEPT ![t].idb = Tail(@)]
  /\ UNCHANGED <<env, now, online, server, queue, page, bytes, posts, ghosts>>

PostArrives(p) ==
  /\ online /\ ~p.done
  /\ server' \in Saved(p.book, p.pos)
  /\ posts' = (posts \ {p}) \union (IF p.tab = Nothing THEN {} ELSE {[p EXCEPT !.done = TRUE]})
  /\ UNCHANGED <<env, now, online, row, queue, page, bytes, tab, ghosts>>

\* The request or its answer is lost, or the server answers with an error: nothing is marked.
PostLost(p) ==
  /\ ~online \/ ("server error" \in env /\ ~p.done)
  /\ posts' = posts \ {p}
  /\ UNCHANGED <<env, now, online, stores, tab, ghosts>>

\* The answer: markPositionSynced reads the queue (it may have changed since the request)...
MarkPositionSynced(p) ==
  /\ p.done /\ Len(tab[p.tab].idb) < MaxIdb
  /\ posts' = posts \ {p}
  /\ LET q == queue[p.book] IN
     tab' = IF q = NoPos THEN tab
            ELSE [tab EXCEPT ![p.tab].idb = Append(@, Request("sync", q.pos, q.ts))]
  /\ UNCHANGED <<env, now, online, stores, ghosts>>

\* Mutant of SyncedToMirror: an entry that was mirrored stays in the queue.
SyncedToMirrorKeeps(b, e) ==
  /\ row' = IF row[b] = Nothing THEN row
            ELSE [row EXCEPT ![b].pos = e.pos, ![b].ts = e.ts]
  /\ queue' = IF row[b] = Nothing /\ now - e.ts > PromoteAge
              THEN [queue EXCEPT ![b] = NoPos] ELSE queue

\* syncPositionToMirror and the removal of the entry: "mirrored" when the book has a row,
\* "unreachable" when it waited too long for one, "deferred" otherwise.  What is removed is
\* whatever waits by then.  The await between the two is not a step of its own: a save in it is
\* removed from the queue just as one before it, and mirrored after it.
SyncedToMirror(b, e) ==
  /\ row' = IF row[b] = Nothing THEN row
            ELSE [row EXCEPT ![b].pos = e.pos, ![b].ts = e.ts]
  /\ queue' = IF row[b] # Nothing \/ now - e.ts > PromoteAge
              THEN [queue EXCEPT ![b] = NoPos] ELSE queue

\* ... and, in its turn, mirrors what it read and removes the entry.
SyncPositionToMirror(t) ==
  /\ tab[t].idb # <<>> /\ Head(tab[t].idb).kind = "sync"
  /\ SyncedToMirror(tab[t].book, Head(tab[t].idb))
  /\ tab' = [tab EXCEPT ![t].idb = Tail(@)]
  /\ UNCHANGED <<env, now, online, server, page, bytes, posts, ghosts>>

-----------------------------------------------------------------------------
(* replayQueuedPositions: one key after the other. *)

\* Mutant of ReplayNext: the entry leaves the queue when it is sent.
ReplayNextTakes(t) ==
  /\ tab[t].entry = Nothing
  /\ \E k \in tab[t].keys :
       IF queue[k] = NoPos
       THEN /\ tab' = [tab EXCEPT ![t].keys = @ \ {k}]
            /\ UNCHANGED <<queue, exposed>>
       ELSE /\ tab' = [tab EXCEPT ![t].entry = [book |-> k, pos |-> queue[k].pos,
                                               ts |-> queue[k].ts, done |-> FALSE]]
            /\ queue' = [queue EXCEPT ![k] = NoPos]
            /\ Crosses(k, queue[k].pos)
  /\ UNCHANGED <<env, now, online, server, row, page, bytes, posts, last>>

ReplayNext(t) ==
  /\ tab[t].entry = Nothing
  /\ \E k \in tab[t].keys :
       IF queue[k] = NoPos
       THEN /\ tab' = [tab EXCEPT ![t].keys = @ \ {k}]
            /\ UNCHANGED exposed
       ELSE /\ tab' = [tab EXCEPT ![t].entry = [book |-> k, pos |-> queue[k].pos,
                                               ts |-> queue[k].ts, done |-> FALSE]]
            /\ Crosses(k, queue[k].pos)
  /\ UNCHANGED <<env, now, online, stores, posts, last>>

ReplayArrives(t) ==
  /\ online /\ tab[t].entry # Nothing /\ ~tab[t].entry.done
  /\ server' \in Saved(tab[t].entry.book, tab[t].entry.pos)
  /\ tab' = [tab EXCEPT ![t].entry.done = TRUE]
  /\ UNCHANGED <<env, now, online, row, queue, page, bytes, posts, ghosts>>

ReplayAnswered(t) ==
  /\ tab[t].entry # Nothing /\ tab[t].entry.done
  /\ ~\E i \in DOMAIN tab[t].idb : tab[t].idb[i].kind = "replay"
  /\ tab' = [tab EXCEPT ![t].idb = Append(@, Request("replay", tab[t].entry.pos, tab[t].entry.ts))]
  /\ UNCHANGED <<env, now, online, stores, posts, ghosts>>

ReplaySynced(t) ==
  /\ tab[t].idb # <<>> /\ Head(tab[t].idb).kind = "replay"
  /\ SyncedToMirror(tab[t].entry.book, Head(tab[t].idb))
  /\ tab' = [tab EXCEPT ![t].idb = Tail(@), ![t].entry = Nothing,
                        ![t].keys = @ \ {tab[t].entry.book}]
  /\ UNCHANGED <<env, now, online, server, page, bytes, posts, ghosts>>

\* The request fails: the loop ends.
ReplayFails(t) ==
  /\ ~online /\ tab[t].entry # Nothing
  /\ ~\E i \in DOMAIN tab[t].idb : tab[t].idb[i].kind = "replay"
  /\ tab' = [tab EXCEPT ![t].entry = Nothing, ![t].keys = {}]
  /\ UNCHANGED <<env, now, online, stores, posts, ghosts>>

\* The server answers with an error and the entry stays: the loop ends when the session is gone
\* (401, 403), and goes on with the next key otherwise.
ReplayRefused(t) ==
  /\ "server error" \in env /\ online /\ tab[t].entry # Nothing /\ ~tab[t].entry.done
  /\ \E left \in {{}, tab[t].keys \ {tab[t].entry.book}} :
       tab' = [tab EXCEPT ![t].entry = Nothing, ![t].keys = left]
  /\ UNCHANGED <<env, now, online, stores, posts, ghosts>>

-----------------------------------------------------------------------------
(* primeAndCacheBook *)

\* Mutant of PrimeBytes: the row is written before the page is in the cache.
PrimeBytesSkipsHtml(t) ==
  /\ tab[t].prime = "static"
  /\ \/ /\ bytes' = bytes \union {tab[t].book}
        /\ tab' = [tab EXCEPT ![t].prime = "row"]
     \/ /\ ~online
        /\ tab' = [tab EXCEPT ![t].prime = "idle"] /\ UNCHANGED bytes
  /\ UNCHANGED <<env, now, online, server, row, queue, page, posts, ghosts>>

\* Steps 1 and 2: the scripts the format needs, then the bytes.
PrimeBytes(t) ==
  /\ tab[t].prime = "static"
  /\ \/ /\ bytes' = bytes \union {tab[t].book}
        /\ tab' = [tab EXCEPT ![t].prime = "html"]
     \/ /\ ~online
        /\ tab' = [tab EXCEPT ![t].prime = "idle"] /\ UNCHANGED bytes
  /\ UNCHANGED <<env, now, online, server, row, queue, page, posts, ghosts>>

\* Step 3 when the server is out of reach: sw.js answers with the copy of the page, or
\* the bytes are given up.  When it is not, PageRead and PageTouch are step 3.
PrimeHtmlOffline(t) ==
  /\ tab[t].prime = "html" /\ ~online
  /\ LET kept == page[tab[t].book] # Nothing IN
     /\ bytes' = IF kept THEN bytes ELSE bytes \ {tab[t].book}
     /\ tab' = [tab EXCEPT ![t].prime = IF kept THEN "row" ELSE "idle", ![t].req = Nothing]
  /\ UNCHANGED <<env, now, online, server, row, queue, page, posts, ghosts>>

\* The server answers the request for the page with an error.
PrimeHtmlRefused(t) ==
  /\ "server error" \in env /\ online /\ tab[t].prime = "html" /\ tab[t].req = Nothing
  /\ bytes' = bytes \ {tab[t].book}
  /\ tab' = [tab EXCEPT ![t].prime = "idle"]
  /\ UNCHANGED <<env, now, online, server, row, queue, page, posts, ghosts>>

\* Step 4, writeIdbRow: the fresher of the page and the queue, if fresher than the mirror.  A
\* time of the server is the start of its second, so that of the browser's clock in the same
\* second is the fresher; resolveInitialPosition takes the second off again ("+ 999").
PrimeRow(t) ==
  /\ tab[t].prime = "row" /\ tab[t].idb = <<>>
  /\ LET b       == tab[t].book
         queued  == queue[b] # NoPos /\ queue[b].ts >= tab[t].saved.ts
         initial == IF queued THEN queue[b] ELSE tab[t].saved
         old     == IF row[b] = Nothing THEN NoPos ELSE [pos |-> row[b].pos, ts |-> row[b].ts]
         best    == IF initial.ts > old.ts THEN initial ELSE old
     IN row' = [row EXCEPT ![b] = [pos |-> best.pos, ts |-> best.ts, opened |-> now]]
  /\ tab' = [tab EXCEPT ![t].prime = "count"]
  /\ UNCHANGED <<env, now, online, server, queue, page, bytes, posts, ghosts>>

Cached == {b \in Book : row[b] # Nothing}

\* Step 5: one book is evicted if there are too many.
PrimeCount(t) ==
  /\ tab[t].prime = "count"
  /\ tab' = [tab EXCEPT ![t].prime = IF Cardinality(Cached) > CacheMax THEN "evict" ELSE "idle"]
  /\ UNCHANGED <<env, now, online, stores, posts, ghosts>>

\* evictOldest: the row of the book opened least recently that this page does not know to
\* be open...
EvictRow(t) ==
  /\ tab[t].prime = "evict"
  /\ LET candidates == Cached \ tab[t].live IN
     IF candidates = {}
     THEN tab' = [tab EXCEPT ![t].prime = "idle"] /\ UNCHANGED row
     ELSE \E v \in candidates :
            /\ \A b \in candidates : row[v].opened <= row[b].opened
            /\ row' = [row EXCEPT ![v] = Nothing]
            /\ tab' = [tab EXCEPT ![t].prime = "files", ![t].victim = v]
  /\ UNCHANGED <<env, now, online, server, queue, page, bytes, posts, ghosts>>

\* ... then its page and its file...
EvictPage(t) ==
  /\ tab[t].prime = "files"
  /\ page' = [page EXCEPT ![tab[t].victim] = Nothing]
  /\ tab' = [tab EXCEPT ![t].prime = "bytes"]
  /\ UNCHANGED <<env, now, online, server, row, queue, bytes, posts, ghosts>>

EvictBytes(t) ==
  /\ tab[t].prime = "bytes"
  /\ bytes' = bytes \ {tab[t].victim}
  /\ tab' = [tab EXCEPT ![t].prime = "queued"]
  /\ UNCHANGED <<env, now, online, server, row, queue, page, posts, ghosts>>

\* ... and the position of it that waits to be sent.
EvictQueued(t) ==
  /\ tab[t].prime = "queued"
  /\ LET v == tab[t].victim IN
     /\ queue' = [queue EXCEPT ![v] = NoPos]
     /\ exposed' = IF queue[v] = NoPos THEN exposed ELSE exposed \union {v}
  /\ tab' = [tab EXCEPT ![t].prime = "idle", ![t].victim = Nothing]
  /\ UNCHANGED <<env, now, online, server, row, page, bytes, posts, last>>

-----------------------------------------------------------------------------
(* The end of a page. *)

\* What other tabs and requests keep of a page that is gone.
Forgotten(t, farewell) ==
  [u \in Tab |-> IF u = t THEN Closed
                 ELSE IF farewell THEN [tab[u] EXCEPT !.live = @ \ {tab[t].book}]
                 ELSE tab[u]]

Orphaned(t) ==
  {IF p.tab = t THEN [p EXCEPT !.tab = Nothing] ELSE p : p \in {q \in posts : ~(q.tab = t /\ q.done)}}
    \union IF tab[t].entry = Nothing \/ tab[t].entry.done THEN {}
           ELSE {[book |-> tab[t].entry.book, pos |-> tab[t].entry.pos, done |-> FALSE, tab |-> Nothing]}

\* beforeunload: the position is saved as when the tab is hidden.
Leave(t) ==
  /\ tab[t].stage = "reading" \/ (tab[t].stage \in Running \ {"leaving"} /\ "early hide" \in env)
  /\ IF tab[t].cur = 0
     THEN /\ tab' = [tab EXCEPT ![t].stage = "leaving"]
          /\ UNCHANGED <<queue, posts, ghosts>>
     ELSE /\ MaySave(t)
          /\ posts' = posts \union {Post(t, Nothing)}
          /\ Recorded(t, "leaving")
  /\ UNCHANGED <<env, now, online, server, row, page, bytes>>

\* pagehide.  Until then the page runs; what it has under way is gone, except requests.
Unload(t) ==
  /\ tab[t].stage = "leaving"
  /\ "cut off" \in env \/ (tab[t].idb = <<>> /\ tab[t].prime = "idle")
  /\ posts' = Orphaned(t)
  /\ tab' = Forgotten(t, TRUE)
  /\ UNCHANGED <<env, now, online, stores, ghosts>>

\* The browser kills the tab: neither event fires.
Kill(t) ==
  /\ "kill" \in env /\ tab[t].stage # "closed"
  /\ posts' = Orphaned(t)
  /\ tab' = Forgotten(t, FALSE)
  /\ UNCHANGED <<env, now, online, stores, ghosts>>

-----------------------------------------------------------------------------

Next ==
  \/ Tick \/ GoOffline \/ GoOnline
  \/ \E t \in Tab :
       \/ \E b \in Book : Open(t, b)
       \/ PageRead(t) \/ PageTouch(t) \/ PageFromCache(t) \/ FetchBook(t) \/ Resolve(t)
       \/ TurnPage(t) \/ SavePosition(t) \/ Hide(t)
       \/ UpdateIdbPosition(t) \/ SyncPositionToMirror(t) \/ ReplaySynced(t)
       \/ ReplayNext(t) \/ ReplayArrives(t) \/ ReplayAnswered(t) \/ ReplayFails(t) \/ ReplayRefused(t)
       \/ PrimeBytes(t) \/ PrimeHtmlOffline(t) \/ PrimeHtmlRefused(t) \/ PrimeRow(t)
       \/ PrimeCount(t) \/ EvictRow(t) \/ EvictPage(t) \/ EvictBytes(t) \/ EvictQueued(t)
       \/ Leave(t) \/ Unload(t) \/ Kill(t)
  \/ \E p \in posts : PostArrives(p) \/ PostLost(p) \/ MarkPositionSynced(p)

\* The browser serves IndexedDB, and loops over the queue and evictions go on.
Served(t) == UpdateIdbPosition(t) \/ SyncPositionToMirror(t) \/ ReplaySynced(t)
Replay(t) ==
  ReplayNext(t) \/ ReplayArrives(t) \/ ReplayAnswered(t) \/ ReplayFails(t) \/ ReplayRefused(t)
Evict(t) == EvictPage(t) \/ EvictBytes(t) \/ EvictQueued(t)

Spec ==
  /\ Init /\ [][Next]_vars
  /\ \A t \in Tab : WF_vars(Served(t)) /\ WF_vars(Replay(t)) /\ WF_vars(Evict(t))

-----------------------------------------------------------------------------
(* Properties *)

\* A book that offline.html lists (it has a row) can be opened offline: its page and its
\* file are in the cache, wherever a page was killed or the network went away, because
\* primeAndCacheBook writes the row last and evictOldest deletes it first.  It takes one
\* tab at a time and a server that does not refuse the page.
RowHasFiles ==
  env \cap {"two tabs", "server error"} = {} =>
    \A b \in Book : row[b] # Nothing => page[b] # Nothing /\ b \in bytes

\* The position saved last in a book is on the server or waits in the queue, whatever the
\* network, the server and the browser do to the pages, while a history that prunes nothing has
\* room for every book; but for an exposed book: two requests with different positions of it were
\* under way at once, which nothing orders, or evictOldest dropped what waited in the queue.
LastPlaceIsKept ==
  CacheMax > 0 /\ Cardinality(Book) <= HistoryMax =>
    \A b \in Book \ exposed : last[b] \in {0, server[b].pos, queue[b].pos}

\* replayQueuedPositions: a position that waits when the browser comes back online, of a
\* book that is cached, leaves the queue unless the connection or the page goes first or the
\* server refuses; then the loop is over, or done with it, and the position waits on.
ReplayDrains ==
  \A b \in Book :
    (row[b] # Nothing /\ queue[b] # NoPos /\ \E t \in Tab : b \in tab[t].keys)
      ~> \/ queue[b] = NoPos \/ ~online \/ \A t \in Tab : tab[t].stage \notin Running
         \/ "server error" \in env /\ \A t \in Tab : b \notin tab[t].keys

=============================================================================
