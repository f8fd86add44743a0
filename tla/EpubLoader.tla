------------------------------ MODULE EpubLoader ------------------------------
(* The loader of static/lib/foliate/epub.js: a section of an EPUB and what it *)
(* refers to (styles, images, fonts) become blob URLs, with a cache of URLs   *)
(* per file, a count of references and the list of children that a file       *)
(* refers to, so that unloading a section revokes what no other one uses.     *)
(* Sections are loaded and unloaded by the paginator as it displays them.     *)
(* Every await is a step: files are read from the zip one at a time, and a    *)
(* file that cannot be read ends the load of the section that needs it.       *)
EXTENDS Integers, Sequences, FiniteSets, SequencesExt

CONSTANTS
  Books,     \* the books of this instance
  Loads,     \* the loads that can be under way
  MaxLoads,  \* bound on the loads that are started
  Root,      \* the parent "undefined" of a section
  Nothing

\* A call of loadItem, and what a navigation loads: its calls, the innermost first, the
\* section to show and the one before, and the URL that came of it.
CallType(b) ==
  [href : DOMAIN b.links, parents : Seq(DOMAIN b.links),
   stage : {"item", "text", "links", "create"}, todo : Seq(DOMAIN b.links), urls : SUBSET Nat]
LoadType(b) ==
  [calls : Seq(CallType(b)), to : b.spine \union {Nothing}, old : b.spine \union {Nothing},
   url : Nat \union {Nothing}, stage : {"load", "frame"}]

\* A book: what its files refer to in the order of the text, its sections, the files that
\* are rewritten (XHTML, CSS, SVG), the files that the zip lacks, those that may turn out to
\* be damaged when they are read, and whether its reader starts a navigation while another
\* one is under way.
ASSUME LoaderAssumption ==
  /\ MaxLoads \in Nat
  /\ Nothing \notin Nat
  /\ \A b \in Books : /\ IsFiniteSet(DOMAIN b.links)
                      /\ b.links \in [DOMAIN b.links -> Seq(DOMAIN b.links)]
                      /\ b.spine \subseteq DOMAIN b.links /\ b.rewritten \subseteq DOMAIN b.links
                      /\ b.missing \subseteq DOMAIN b.links /\ b.damaged \subseteq DOMAIN b.links
                      /\ b.impatient \in BOOLEAN
                      /\ Root \notin DOMAIN b.links /\ Nothing \notin DOMAIN b.links
                      /\ Nothing \notin LoadType(b)

VARIABLES
  book,      \* the book
  blobs,     \* the URLs created, in their order: the URLs inside each
  live,      \* the URLs that are not revoked
  cache,     \* #cache
  refCount,  \* #refCount
  children,  \* #children
  load,      \* the loads under way: the calls of loadItem, the innermost first
  index,     \* the paginator's #index
  view,      \* the paginator's #view
  started,   \* the number of loads started
  failed     \* history: has a load failed?

loader == <<blobs, live, cache, refCount, children>>
vars == <<book, loader, load, index, view, started, failed>>

Href == DOMAIN book.links

Init ==
  /\ book \in Books
  /\ blobs = <<>> /\ live = {}
  /\ cache = [h \in Href |-> Nothing]
  /\ refCount = [h \in Href |-> 0]
  /\ children = [h \in Href \union {Root} |-> <<>>]
  /\ load = [l \in Loads |-> Nothing]
  /\ index = Nothing /\ view = Nothing /\ started = 0 /\ failed = FALSE

-----------------------------------------------------------------------------
(* unref: a worklist of hrefs; a file without references gives up its own.    *)

\* Mutant of UnrefOne: a file that goes does not give up what it refers to.
UnrefOneKeepsChildren(s) ==
  LET h == Last(s.todo)
      rest == Front(s.todo)
  IN CASE s.cache[h] = Nothing -> [s EXCEPT !.todo = rest]
       [] s.cache[h] # Nothing /\ s.count[h] > 1 ->
            [s EXCEPT !.todo = rest, !.count[h] = @ - 1]
       [] OTHER -> [s EXCEPT !.todo = rest, !.live = @ \ {s.cache[h]},
                             !.cache[h] = Nothing, !.count[h] = 0, !.children[h] = <<>>]

\* One call of unref, on the last href of the list.
UnrefOne(s) ==
  LET h == Last(s.todo)
      rest == Front(s.todo)
  IN CASE s.cache[h] = Nothing -> [s EXCEPT !.todo = rest]
       [] s.cache[h] # Nothing /\ s.count[h] > 1 ->
            [s EXCEPT !.todo = rest, !.count[h] = @ - 1]
       [] OTHER ->
            [s EXCEPT !.todo = rest \o s.children[h], !.live = @ \ {s.cache[h]},
                      !.cache[h] = Nothing, !.count[h] = 0, !.children[h] = <<>>]

UnrefNext(s) == IF s.todo = <<>> THEN s ELSE UnrefOne(s)

\* What the lists of children hold: the places of their entries.
Entries(lists) == UNION {{<<p, i>> : i \in DOMAIN lists[p]} : p \in DOMAIN lists}

\* The first call is on h, and every other one takes the entry of a list away.
Unref(h) ==
  LET calls == 1 + Cardinality(Entries(children))
      after[n \in 0 .. calls] ==
        IF n = 0 THEN [todo |-> <<h>>, cache |-> cache, count |-> refCount,
                       children |-> children, live |-> live]
        ELSE UnrefNext(after[n - 1])
  IN after[calls]

Unload(h) ==
  IF h = Nothing THEN UNCHANGED loader
  ELSE LET s == Unref(h) IN
       /\ cache' = s.cache /\ refCount' = s.count /\ children' = s.children
       /\ live' = s.live /\ UNCHANGED blobs

-----------------------------------------------------------------------------
(* loadItem *)

Call(h, parents) ==
  [href |-> h, parents |-> parents, stage |-> "item", todo |-> <<>>, urls |-> {}]

Parent(call) == IF call.parents = <<>> THEN Root ELSE Last(call.parents)
Top(l) == Head(load[l].calls)
Running(l, stage) == load[l] # Nothing /\ load[l].calls # <<>> /\ Top(l).stage = stage
Becomes(l, call) == load' = [load EXCEPT ![l].calls = <<call>> \o Tail(@)]

\* The innermost call returns a URL to the file that is being rewritten.
Return(l, url) ==
  LET rest == Tail(load[l].calls)
      kept == IF url = Nothing THEN {} ELSE {url}
  IN load' = [load EXCEPT ![l] =
       IF rest = <<>> THEN [@ EXCEPT !.calls = <<>>, !.url = url]
       ELSE [@ EXCEPT !.calls = <<[Head(rest) EXCEPT !.urls = @ \union kept]>> \o Tail(rest)]]

\* Mutant of Ref: the child is noted but not counted.
RefUncounted(h, parent) ==
  IF h \in ToSet(children[parent]) THEN UNCHANGED <<refCount, children>>
  ELSE /\ UNCHANGED refCount
       /\ children' = [children EXCEPT ![parent] = Append(@, h)]

\* ref: the parent holds one reference, however often it refers to the file.
Ref(h, parent) ==
  IF h \in ToSet(children[parent]) THEN UNCHANGED <<refCount, children>>
  ELSE /\ refCount' = [refCount EXCEPT ![h] = @ + 1]
       /\ children' = [children EXCEPT ![parent] = Append(@, h)]

\* The file has a URL.
FromCache(l) ==
  /\ Running(l, "item") /\ cache[Top(l).href] # Nothing
  /\ Ref(Top(l).href, Parent(Top(l)))
  /\ Return(l, cache[Top(l).href])
  /\ UNCHANGED <<book, blobs, live, cache, index, view, started, failed>>

\* It has none: it is read, as text if it is rewritten; not if it is one of its own parents.
Read(l) ==
  /\ Running(l, "item") /\ cache[Top(l).href] = Nothing
  /\ LET h == Top(l).href
         replace == h \in book.rewritten /\ h \notin ToSet(Top(l).parents)
     IN Becomes(l, [Top(l) EXCEPT !.stage = IF replace THEN "text" ELSE "create"])
  /\ UNCHANGED <<book, loader, index, view, started, failed>>

\* loadText: nothing comes of a file that is missing.
TextArrives(l) ==
  /\ Running(l, "text")
  /\ IF Top(l).href \in book.missing THEN Return(l, Nothing)
     ELSE Becomes(l, [Top(l) EXCEPT !.stage = "links", !.todo = book.links[Top(l).href]])
  /\ UNCHANGED <<book, loader, index, view, started, failed>>

\* loadText or loadBlob rejects, and with it every call that waits, up to goTo, which knows of
\* no section then.  The URLs of what the files refer to stay, and so do the lists of children.
ReadFails(l) ==
  /\ Running(l, "text") \/ Running(l, "create")
  /\ Top(l).href \in book.damaged
  /\ load' = [load EXCEPT ![l].calls = <<>>, ![l].to = Nothing]
  /\ failed' = TRUE
  /\ UNCHANGED <<book, loader, index, view, started>>

\* loadHref: the next file that the text refers to.
NextLink(l) ==
  /\ Running(l, "links") /\ Top(l).todo # <<>>
  /\ LET call  == Top(l)
         inner == Call(Head(call.todo), Append(call.parents, call.href))
     IN load' = [load EXCEPT ![l].calls =
                   <<inner, [call EXCEPT !.todo = Tail(@)]>> \o Tail(@)]
  /\ UNCHANGED <<book, loader, index, view, started, failed>>

\* createURL: whatever the cache has by now is replaced.
CreateURL(l) ==
  /\ Running(l, "create") \/ (Running(l, "links") /\ Top(l).todo = <<>>)
  /\ LET h      == Top(l).href
         parent == Parent(Top(l))
         url    == Len(blobs) + 1
     IN /\ blobs' = Append(blobs, Top(l).urls)
        /\ live' = live \union {url}
        /\ cache' = [cache EXCEPT ![h] = url]
        /\ refCount' = [refCount EXCEPT ![h] = 1]
        /\ children' = IF parent = Root THEN children
                       ELSE [children EXCEPT ![parent] = Append(@, h)]
        /\ Return(l, url)
  /\ UNCHANGED <<book, index, view, started, failed>>

-----------------------------------------------------------------------------
(* The paginator: #goTo and #display. *)

GoTo(l, s) ==
  /\ load[l] = Nothing /\ started < MaxLoads /\ s # index
  /\ book.impatient \/ \A k \in Loads : load[k] = Nothing
  /\ load' = [load EXCEPT ![l] = [calls |-> <<Call(s, <<>>)>>, to |-> s, old |-> index,
                                  url |-> Nothing, stage |-> "load"]]
  /\ started' = started + 1
  /\ UNCHANGED <<book, loader, index, view, failed>>

\* The section is loaded: a new view, unless there is nothing to show.  After a failure the
\* index is undefined, so that nobody will unload the section on the screen.
Display(l) ==
  /\ load[l] # Nothing /\ load[l].stage = "load" /\ load[l].calls = <<>>
  /\ index' = load[l].to
  /\ IF load[l].url = Nothing
     THEN load' = [load EXCEPT ![l] = Nothing] /\ UNCHANGED view
     ELSE /\ view' = [url |-> load[l].url, load |-> l, ready |-> FALSE]
          /\ load' = [load EXCEPT ![l].stage = "frame"]
  /\ UNCHANGED <<book, loader, started, failed>>

\* The iframe loads, if its view is still there: the section before is unloaded.
FrameLoads(l) ==
  /\ load[l] # Nothing /\ load[l].stage = "frame" /\ view.load = l
  /\ view' = [view EXCEPT !.ready = TRUE]
  /\ Unload(load[l].old)
  /\ load' = [load EXCEPT ![l] = Nothing]
  /\ UNCHANGED <<book, index, started, failed>>

-----------------------------------------------------------------------------

Next ==
  \E l \in Loads :
    \/ \E s \in book.spine : GoTo(l, s)
    \/ FromCache(l) \/ Read(l) \/ TextArrives(l) \/ ReadFails(l) \/ NextLink(l) \/ CreateURL(l)
    \/ Display(l) \/ FrameLoads(l)

Spec == Init /\ [][Next]_vars

-----------------------------------------------------------------------------
(* Properties *)

\* A URL and all that it needs.
Needs(url) ==
  LET needs[u \in 1 .. url] == {u} \union UNION {needs[v] : v \in blobs[u]}
  IN needs[url]

\* A book with files that refer to each other in a circle: every one to one of them.
Cyclic(b) ==
  \E S \in SUBSET DOMAIN b.links :
    S # {} /\ \A h \in S : ToSet(b.links[h]) \cap S # {}

\* The books without circles, where no section is a part of a file, and whose reader waits
\* for every section.
OrderlyBooks ==
  {b \in Books : /\ ~b.impatient /\ ~Cyclic(b)
                 /\ \A h \in DOMAIN b.links : ToSet(b.links[h]) \cap b.spine = {}}

\* Those without missing sections.
PlainBooks == {b \in OrderlyBooks : b.spine \cap b.missing = {}}

\* No URL in the document on the screen is revoked (unref, unloadItem): what sections share
\* outlives the one that loaded it, however they are visited.
ShownIsLive == book \in OrderlyBooks /\ view # Nothing => Needs(view.url) \subseteq live

\* Once a navigation ends, nothing is left of the sections before (unref, #display), as long as
\* every file could be read: a load that fails leaves behind what it made and the section on
\* the screen.
NothingLeaks ==
  book \in PlainBooks /\ view # Nothing /\ (\A l \in Loads : load[l] = Nothing) /\ ~failed
  => live = Needs(view.url)

=============================================================================
