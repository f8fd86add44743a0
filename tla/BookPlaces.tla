----------------------------- MODULE BookPlaces -----------------------------
(* Where a reader is in a book, as view.js and progress.js of foliate tell it: *)
(* the name that is saved of the page that is shown and from which the book is *)
(* opened again, the item of the table of contents that the page belongs to,   *)
(* and the section that a place on the progress bar is in.                     *)
(* A book has its documents, a package document or none, the size of each      *)
(* section (0 where it is not part of the reading order) and the items of its  *)
(* contents, flattened. Sections are counted from 1 here, from 0 in the code.  *)
EXTENDS EpubCfi

CONSTANTS
  Books,      \* the books of this instance
  MaxTurns,   \* bound on the pages that are shown
  Fractions   \* where the progress bar may be let go

ASSUME PlacesAssumption ==
  /\ Fractions \subseteq Int \X (Nat \ {0})
  /\ \A b \in Books : /\ 1 \in DOMAIN b.doc /\ DOMAIN b.doc = DOMAIN b.size
                      /\ b.body \in Seq(Nat) /\ b.size \in Seq(Nat)
                      /\ b.toc \in Seq(ToSet(b.toc))
                      /\ \A entry \in ToSet(b.toc) : entry.section \in DOMAIN b.doc
                      /\ \A i \in DOMAIN b.doc : Nodes(b.doc[i]) \subseteq Seq(Nat)

VARIABLES
  book,
  place,      \* what is shown: a section and a range of its document
  position,   \* the name that was saved of it, as characters
  left,       \* what was shown when it was saved
  item,       \* the item of the contents that the reader is told
  slid,       \* where the progress bar was last let go, and what it led to
  turns

vars == <<book, place, position, left, item, slid, turns>>

-----------------------------------------------------------------------------
(* Names of pages. *)

\* The name of a section: from its itemref, or as if there were one.
ItemRef(i) == Append(book.spine, i)
BaseCFI(i) ==
  IF book.package = TextNode(0) THEN FromIndex(i - 1)
  ELSE PathToString(NodeToParts(book.package, Point(ItemRef(book.itemref[i]), Nothing)))

GetCFI(shown) == JoinIndir(BaseCFI(shown.index), ToInnerString(FromRange(book.doc[shown.index], shown)))

\* epub.js's resolveCFI: the itemref is found by its indices, for its name is never "idref" and
\* so its id is not asked for.
SectionOf(path) ==
  IF book.package = TextNode(0) THEN ToIndex(path) + 1
  ELSE LET ref == Last(WalkDown(book.package, path).node)
       IN  CHOOSE i \in DOMAIN book.itemref : book.itemref[i] = ref

\* resolveCFI: shift() takes the first path, of the parent if there is one; the rest is in the
\* document.
Resolve(chars) ==
  LET parsed == Parse(chars)
      inner == [parsed EXCEPT ![1] = Tail(@)]
      index == SectionOf(parsed[1][1])
  IN  [index |-> index] @@ ToRange(book.doc[index], inner)

-----------------------------------------------------------------------------
(* TOCProgress *)

\* A point is before another if it begins earlier in the document.
BeforeNode(p, q) ==
  \/ IsStrictPrefix(p, q)
  \/ \E k \in DOMAIN p \cap DOMAIN q : p[k] < q[k] /\ SubSeq(p, 1, k - 1) = SubSeq(q, 1, k - 1)

InSection(b, i) == {k \in DOMAIN b.toc : b.toc[k].section = i}

\* init: a section without items has those of the one before it.
Grouped(b, i) ==
  LET with == {j \in 1 .. i : InSection(b, j) # {}} IN IF with = {} THEN {} ELSE InSection(b, Max(with))

\* Mutant of Begins: an item that begins on the page is not yet there.
BeginsBeforePage(shown, el) == BeforeNode(shown.from.node, el)

\* comparePoint: does the element begin after the page?
Begins(shown, el) == BeforeNode(shown.to.node, el)

\* getFragment: where an item of the contents is in the document of a section.
Elements(b, i, k) ==
  LET root == b.doc[i] IN {p \in Nodes(root) : b.toc[k].id # <<>> /\ NodeAt(root, p).id = b.toc[k].id}

\* getProgress: the item before the first that begins after the page, which may be the last of
\* an earlier section; 0 for none.
TocItem(b, shown) ==
  LET items == Grouped(b, shown.index)
      later == {k \in items : \E el \in Elements(b, shown.index, k) : Begins(shown, el)}
  IN  CASE items = {} -> 0
        [] items # {} /\ later = {} -> Max(items)
        [] later # {} /\ Min(later) = Min(items) -> Min(items) - 1
        [] later # {} /\ Min(later) # Min(items) -> Max({k \in items : k < Min(later)})

-----------------------------------------------------------------------------
(* SectionProgress; a fraction is <<n, d>> for n / d. *)

SizeBefore(b) ==
  LET sum[i \in 1 .. Len(b.size) + 1] == IF i = 1 THEN 0 ELSE sum[i - 1] + b.size[i - 1] IN sum
SizeTotal(b) == SizeBefore(b)[Len(b.size) + 1]

\* Mutant of GetSection: a place where a section begins is the end of the one before.
GetSectionBefore(b, fraction) ==
  LET n == fraction[1]
      d == fraction[2]
      before == SizeBefore(b)
      total == SizeTotal(b)
      after == {i \in DOMAIN b.size : before[i + 1] * d >= n * total}
      i == Min(after)
  IN  CASE n <= 0 \/ (n < d /\ after = {}) -> [section |-> 1, within |-> <<0, 1>>]
        [] n >= d -> [section |-> Len(b.size), within |-> <<1, 1>>]
        [] n > 0 /\ n < d /\ after # {} ->
             [section |-> i, within |-> <<n * total - before[i] * d, d * b.size[i]>>]

\* getSection: the section before the first that begins after the place, and how far in it; the
\* first section in a book without text.
\* Number.EPSILON, which is added first, makes up for rounding: a place where a section begins
\* is in that section.  With fractions that are exact the first section that ends after a place
\* has a size, and the loop over sections without one finds none to leave out.
GetSection(b, fraction) ==
  LET n == fraction[1]
      d == fraction[2]
      before == SizeBefore(b)
      total == SizeTotal(b)
      after == {i \in DOMAIN b.size : before[i + 1] * d > n * total}
      i == Min(after)
  IN  CASE n <= 0 \/ (n < d /\ after = {}) -> [section |-> 1, within |-> <<0, 1>>]
        [] n >= d -> [section |-> Len(b.size), within |-> <<1, 1>>]
        [] n > 0 /\ n < d /\ after # {} ->
             [section |-> i, within |-> <<n * total - before[i] * d, d * b.size[i]>>]

\* getProgress: the fraction of the book that a fraction of a section is.
GetProgress(b, at) ==
  <<SizeBefore(b)[at.section] * at.within[2] + at.within[1] * b.size[at.section], at.within[2] * SizeTotal(b)>>

-----------------------------------------------------------------------------
(* The reader. *)

\* What a page may begin and end with: any character that is shown, or an element that is
\* wholly on the page.
Points(root) ==
  UNION {LET node == NodeAt(root, path)
         IN  CASE node.is = "text" /\ node.size > 0 -> {Point(path, k) : k \in 0 .. node.size}
               [] node.is = "element" -> {Point(path, 0)}
               [] OTHER -> {}
           : path \in {p \in Nodes(root) : IsStrictPrefix(book.body, p)}}

InOrder(from, to) == BeforeNode(from.node, to.node) \/ (from.node = to.node /\ from.offset <= to.offset)

Start(b) == [index |-> 1, from |-> Point(b.body, 0), to |-> Point(b.body, 0)]

Init ==
  /\ book \in Books
  /\ place = Start(book) /\ left = place
  /\ position = GetCFI(place) /\ item = TocItem(book, place)
  /\ slid = [to |-> <<0, 1>>, at |-> GetSection(book, <<0, 1>>)]
  /\ turns = 0

\* onRelocate, whatever the reader did to get there.
Relocate(shown) ==
  /\ turns < MaxTurns /\ turns' = turns + 1
  /\ place' = shown /\ left' = shown
  /\ position' = GetCFI(shown) /\ item' = TocItem(book, shown)
  /\ UNCHANGED <<book, slid>>

\* init({ lastLocation }): the book is opened again where it was left.
Reopen ==
  /\ \E shown \in {Resolve(position)} : place' = shown
  /\ UNCHANGED <<book, position, left, item, slid, turns>>

\* goToFraction, from the progress bar.
Slide(fraction) ==
  /\ slid' = [to |-> fraction, at |-> GetSection(book, fraction)]
  /\ UNCHANGED <<book, place, position, left, item, turns>>

Next ==
  \/ \E i \in DOMAIN book.doc : \E from, to \in Points(book.doc[i]) :
       InOrder(from, to) /\ Relocate([index |-> i, from |-> from, to |-> to])
  \/ Reopen
  \/ \E fraction \in Fractions : Slide(fraction)

Spec == Init /\ [][Next]_vars

-----------------------------------------------------------------------------
\* Where a point is in the text: what it is in, the elements that have begun and the characters
\* that have been read.
Where(root, point) ==
  LET isText == NodeAt(root, point.node).is = "text"
      Earlier(kind) == {p \in Nodes(root) : NodeAt(root, p).is = kind /\ BeforeNode(p, point.node)}
  IN  [within |-> IF isText THEN Front(point.node) ELSE point.node,
       begun |-> Earlier("element"),
       read |-> FoldSet(LAMBDA p, sum : sum + NodeAt(root, p).size, 0, Earlier("text"))
                  + (IF isText THEN point.offset ELSE 0)]

\* A book that is opened again shows the page it was left at, from its first character to its
\* last, whatever the ids of its elements are, however its text is cut in nodes and wherever
\* comments are.
ReopensWhereItWasLeft ==
  /\ place.index = left.index
  /\ Where(book.doc[left.index], place.from) = Where(book.doc[left.index], left.from)
  /\ Where(book.doc[left.index], place.to) = Where(book.doc[left.index], left.to)

\* The contents are in the order of the text, each item has its element, and no section
\* without items has an element of that name.
ContentsInOrder(b) ==
  /\ \A k \in DOMAIN b.toc :
       LET s == b.toc[k].section
       IN  /\ b.toc[k].id # <<>> => \E p \in Elements(b, s, k) : \A q \in Elements(b, s, k) : p = q
           /\ \A i \in DOMAIN b.doc : InSection(b, i) = {} => Elements(b, i, k) = {}
  /\ \A j, k \in DOMAIN b.toc : j < k =>
       LET s == b.toc[k].section
       IN  \/ b.toc[j].section < s
           \/ /\ b.toc[j].section = s
              /\ b.toc[k].id = <<>> => b.toc[j].id = <<>>
              /\ \A p \in Elements(b, s, j), q \in Elements(b, s, k) : p = q \/ BeforeNode(p, q)

\* The item of the contents that the reader is told (TOCProgress) is the last one that has
\* begun where the page ends, in this section or an earlier one.
TocItemHasBegun ==
  LET root == book.doc[left.index]
      begun == {k \in DOMAIN book.toc :
                  \/ book.toc[k].section < left.index
                  \/ /\ book.toc[k].section = left.index
                     /\ book.toc[k].id # <<>> =>
                          \E p \in Nodes(root) : NodeAt(root, p).id = book.toc[k].id /\ ~BeforeNode(left.to.node, p)}
  IN  ContentsInOrder(book) => item = IF begun = {} THEN 0 ELSE Max(begun)

\* The progress bar leads into a section that is read, and to the fraction of the book that it
\* was let go at.
SliderFindsItsPlace ==
  LET n == slid.to[1]
      d == slid.to[2]
      found == GetProgress(book, slid.at)
  IN  n > 0 /\ n < d =>
        /\ found[1] * d = n * found[2]
        /\ 0 <= slid.at.within[1] /\ slid.at.within[1] < slid.at.within[2]
=============================================================================
