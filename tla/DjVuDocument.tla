---------------------------- MODULE DjVuDocument ----------------------------
(***************************************************************************)
(* The document the DjVu worker keeps (class DjVuDocument and DjVuPage of  *)
(* src/static/lib/djvu/djvu.js): its page objects, the shared files its    *)
(* pages include, and the memory it counts.  Operators on a record; the    *)
(* steps between which they run are in DjVuWorker.                         *)
(*                                                                         *)
(* A "bundled" document holds all its files.  An "indirect" one is a       *)
(* directory of files loaded when a page is asked for, and dropped when    *)
(* they exceed the limit.  A "single" one is one page, whose shared files  *)
(* are loaded at its first use.  A file counts 1, whatever its bytes.      *)
(***************************************************************************)
EXTENDS Naturals, Sequences, SequencesExt, FiniteSets, FiniteSetsExt, Functions

CONSTANTS
  Needs,        \* Needs[n]: the shared files that page n includes, in order
  Large         \* the pages of more than ten million pixels

PageNumbers == DOMAIN Needs
Parts(n) == Range(Needs[n])
Shared == UNION {Parts(n) : n \in PageNumbers}
Base == 1       \* what an indirect document counts for its directory

ASSUME DocumentAssumption ==
  /\ Needs \in Seq(Range(Needs))
  /\ \A n \in PageNumbers : Needs[n] \in Seq(Parts(n))

Absent == <<0, 0>>
Raw(n) == [page |-> n, info |-> FALSE, parts |-> {}]

Opened(kind, limit) ==
  [kind |-> kind, limit |-> limit, loaded |-> << >>, usage |-> Base, last |-> Absent, depsLoaded |-> FALSE,
   djvi |-> IF kind = "bundled" THEN Shared ELSE {},
   pages |-> [n \in PageNumbers |-> IF kind = "indirect" THEN Absent ELSE <<0, n>>],
   objs |-> [o \in {<<0, n>> : n \in PageNumbers} |-> Raw(o[2])]]

-----------------------------------------------------------------------------
(* Page objects. *)

ResetPage(doc, o) ==
  IF o = Absent THEN doc ELSE [doc EXCEPT !.objs[o] = Raw(@.page)]

\* The included files that come before the first the document lacks.
Reached(doc, n) ==
  {Needs[n][i] : i \in {i \in DOMAIN Needs[n] : \A j \in 1 .. i : Needs[n][j] \in doc.djvi}}

\* init: binds the included files in turn; a missing one makes it throw, by when info is
\* already set, so that the next call takes the page as initialised.
InitPage(doc, o) ==
  LET page == doc.objs[o] IN
  IF page.info THEN doc
  ELSE [doc EXCEPT !.objs[o] = [page EXCEPT !.info = TRUE, !.parts = Reached(doc, page.page)]]

InitThrows(doc, o) ==
  ~doc.objs[o].info /\ ~(Parts(doc.objs[o].page) \subseteq doc.djvi)

\* getImageData: a large page is given back its memory once it is drawn.
DrawPage(doc, o) ==
  LET drawn == InitPage(doc, o) IN
  IF doc.objs[o].page \in Large THEN ResetPage(drawn, o) ELSE drawn

UsePage(doc, o, use) ==
  IF InitThrows(doc, o) \/ use = "read" THEN InitPage(doc, o) ELSE DrawPage(doc, o)

-----------------------------------------------------------------------------
(* Getting a page. *)

\* The part of getPage before its first await.
AskForPage(doc, n) ==
  LET o == doc.pages[n] IN
  [(IF doc.last # o THEN ResetPage(doc, doc.last) ELSE doc) EXCEPT !.last = o]

NeedsParts(doc) == doc.kind = "single" /\ ~doc.depsLoaded

TakePage(doc, n, o) ==
  [doc EXCEPT !.usage = @ + 1,
              !.objs = [p \in {o} \union DOMAIN @ |-> IF p = o THEN Raw(n) ELSE @[p]]]

TakePart(doc, id) ==
  [doc EXCEPT !.usage = @ + 1, !.djvi = @ \union {id}]

\* releaseMemoryIfRequired: the pages loaded longest ago go first; when none is left and the
\* document still counts too much, every shared file but those of page n goes.
Released(doc) ==
  LET over == doc.usage - doc.limit IN
  IF doc.usage <= doc.limit THEN 0 ELSE IF over < Len(doc.loaded) THEN over ELSE Len(doc.loaded)

DropPages(doc, k) ==
  LET gone == {doc.loaded[i] : i \in 1 .. k} IN
  [doc EXCEPT !.loaded = SubSeq(@, k + 1, Len(@)), !.usage = @ - k,
              !.pages = [p \in PageNumbers |-> IF p \in gone THEN Absent ELSE @[p]]]

\* Mutant of DropParts: what is kept is not counted again.
DropPartsUncounted(doc, n) ==
  [ResetPage(doc, doc.last) EXCEPT !.last = Absent, !.djvi = Parts(n),
     !.usage = @ - Cardinality(doc.djvi)]

DropParts(doc, n) ==
  [ResetPage(doc, doc.last) EXCEPT !.last = Absent, !.djvi = Parts(n),
     !.usage = @ + Cardinality(Parts(n)) - Cardinality(doc.djvi)]

\* A number that is in the list twice: the page is gone the second time, and reading its size
\* throws.  So does reading the size of a part that is gone, after the parts before it have
\* been counted again.
Twice(doc, i) ==
  \/ doc.pages[doc.loaded[i]] = Absent
  \/ \E j \in 1 .. (i - 1) : doc.loaded[j] = doc.loaded[i]

FirstTwice(doc) == {i \in 1 .. Released(doc) : Twice(doc, i) /\ \A j \in 1 .. (i - 1) : ~Twice(doc, j)}

ReleaseMemory(doc, n) ==
  LET left == DropPages(doc, Released(doc)) IN
  CASE FirstTwice(doc) # {} ->
         [throws |-> TRUE,
          doc |-> [DropPages(doc, Min(FirstTwice(doc))) EXCEPT !.usage = @ + 1]]
    [] FirstTwice(doc) = {} /\ left.usage <= left.limit ->
         [throws |-> FALSE, doc |-> left]
    [] FirstTwice(doc) = {} /\ left.usage > doc.limit /\ Parts(n) \subseteq doc.djvi ->
         [throws |-> FALSE, doc |-> DropParts(left, n)]
    [] OTHER ->
         [throws |-> TRUE,
          doc |-> [ResetPage(left, left.last) EXCEPT
                     !.last = Absent, !.usage = @ + Cardinality(Reached(doc, n))]]

\* The rest of getPage, once the memory is released.
KeepPage(doc, n, o) ==
  [doc EXCEPT !.pages[n] = o, !.loaded = Append(@, n), !.last = o]

-----------------------------------------------------------------------------
\* What an indirect document holds.
Held(doc) == Base + Cardinality({n \in PageNumbers : doc.pages[n] # Absent}) + Cardinality(doc.djvi)
=============================================================================
