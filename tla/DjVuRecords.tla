----------------------------- MODULE DjVuRecords -----------------------------
(* What the compressed parts of a DjVu document hold, in                      *)
(* static/lib/djvu/djvu.js: the directory of its files (DIRM), the outline    *)
(* (NAVM) and the text of a page with its zones (TXTz). The first one is      *)
(* written by DjVuWriter as well; the form of the others is that of the       *)
(* format. Strings are sequences of code points.                              *)
EXTENDS Integers, Sequences, SequencesExt

-----------------------------------------------------------------------------
(* ByteStreamWriter *)

Bytes(n, x) == [i \in 1 .. n |-> (x \div 256 ^ (n - i)) % 256]
Flatten(f(_), n) == FlattenSeq([i \in 1 .. n |-> f(i)])

\* codePointsToUtf8
Utf8Of(c) ==
  LET Tail6(k) == 128 + ((c \div 64 ^ k) % 64)
  IN CASE c < 128 -> <<c>>
       [] c \in 128 .. 2047 -> <<192 + c \div 64, Tail6(0)>>
       [] c \in 2048 .. 65535 -> <<224 + c \div 4096, Tail6(1), Tail6(0)>>
       [] OTHER -> <<240 + c \div 262144, Tail6(2), Tail6(1), Tail6(0)>>
Utf8(str) == FlattenSeq([i \in DOMAIN str |-> Utf8Of(str[i])])
StrNT(str) == Append(Utf8(str), 0)

-----------------------------------------------------------------------------
(* ByteStream: s is what has not been read. A read gives a value and the rest. *)

Value(v, rest) == [v |-> v, s |-> rest]
Skip(s, n) == SubSeq(s, n + 1, Len(s))
ReadInt(s, n) == Value(FoldLeft(LAMBDA x, b : 256 * x + b, 0, SubSeq(s, 1, n)), Skip(s, n))
ReadBytes(s, n) == Value(SubSeq(s, 1, n), Skip(s, n))

\* utf8ToCodePoints: the first byte says how many follow; a byte that may not be first is dropped.
RECURSIVE CodePoints(_)
CodePoints(s) ==
  LET c == s[1]
      Six(i) == s[i] % 64
      more == CASE c < 128 -> 0 [] c \in 192 .. 223 -> 1 [] c \in 224 .. 239 -> 2 [] c >= 240 -> 3 [] OTHER -> 0
      point == CASE c < 128 -> <<c>>
                 [] c \in 128 .. 191 -> <<>>
                 [] c \in 192 .. 223 -> <<64 * (c % 32) + Six(2)>>
                 [] c \in 224 .. 239 -> <<4096 * (c % 16) + 64 * Six(2) + Six(3)>>
                 [] OTHER -> <<262144 * (c % 8) + 4096 * Six(2) + 64 * Six(3) + Six(4)>>
      Known(p) == [i \in DOMAIN p |-> IF p[i] > 1114111 THEN 120 ELSE p[i]]
  IN IF s = <<>> THEN <<>> ELSE Known(point) \o CodePoints(Skip(s, 1 + more))

ReadStrNT(s) ==
  LET end == CHOOSE i \in DOMAIN s : s[i] = 0 /\ \A j \in 1 .. i - 1 : s[j] # 0
  IN Value(CodePoints(SubSeq(s, 1, end - 1)), Skip(s, end))

-----------------------------------------------------------------------------
(* The directory: a file has a size, flags, an id, and a name and a title of its own if the
   flags say so. *)

HasName(f)  == (f.flags \div 128) % 2 = 1
HasTitle(f) == (f.flags \div 64) % 2 = 1

\* writeDirmChunk
WriteDirectory(files) ==
  LET Strings(f) == StrNT(f.id) \o (IF HasName(f) THEN StrNT(f.name) ELSE <<>>)
                    \o (IF HasTitle(f) THEN StrNT(f.title) ELSE <<>>)
  IN Flatten(LAMBDA i : Bytes(3, files[i].size), Len(files))
     \o [i \in DOMAIN files |-> files[i].flags]
     \o Flatten(LAMBDA i : Strings(files[i]), Len(files))

\* DIRMChunk: the sizes, the flags, and the strings while there are any.
ReadFile(t, i) ==
  LET id    == ReadStrNT(t.s)
      flags == [flags |-> t.flags[i]]
      name  == IF HasName(flags) THEN ReadStrNT(id.s) ELSE id
      title == IF HasTitle(flags) THEN ReadStrNT(name.s) ELSE [name EXCEPT !.v = id.v]
  IN IF t.s = <<>> THEN t
     ELSE [t EXCEPT !.s = title.s,
             !.files = Append(@, [size |-> t.sizes[i], flags |-> t.flags[i], id |-> id.v,
                                  name |-> name.v, title |-> title.v])]

ReadDirectory(s, n) ==
  FoldLeft(ReadFile, [sizes |-> [i \in 1 .. n |-> ReadInt(Skip(s, 3 * (i - 1)), 3).v],
                      flags |-> [i \in 1 .. n |-> s[3 * n + i]], s |-> Skip(s, 4 * n), files |-> <<>>],
           [i \in 1 .. n |-> i]).files

\* isPageIndex, pagesIds, getPageNumberByItsId
PagesIds(files) ==
  LET pages == SelectSeq(files, LAMBDA f : f.flags % 64 = 1) IN [i \in DOMAIN pages |-> pages[i].id]
PageNumber(files, id) ==
  IF id \in ToSet(PagesIds(files)) THEN CHOOSE i \in DOMAIN PagesIds(files) : PagesIds(files)[i] = id ELSE 0

-----------------------------------------------------------------------------
(* The outline: a bookmark has a description, a URL and the bookmarks below it. *)

RECURSIVE BookmarkBytes(_), CountBookmarks(_)
BookmarkBytes(b) ==
  Bytes(1, Len(b.children)) \o Bytes(3, Len(Utf8(b.description))) \o Utf8(b.description)
  \o Bytes(3, Len(Utf8(b.url))) \o Utf8(b.url)
  \o Flatten(LAMBDA i : BookmarkBytes(b.children[i]), Len(b.children))
CountBookmarks(list) == FoldLeft(LAMBDA n, b : n + 1 + CountBookmarks(b.children), 0, list)
WriteOutline(list) ==
  Bytes(2, CountBookmarks(list)) \o Flatten(LAMBDA i : BookmarkBytes(list[i]), Len(list))

\* decodeBookmark: t.count counts every bookmark that is read.
RECURSIVE ReadBookmark(_)
ReadBookmark(t) ==
  LET children == ReadInt(t.s, 1)
      n     == ReadInt(children.s, 3)
      text  == ReadBytes(n.s, n.v)
      m     == ReadInt(text.s, 3)
      url   == ReadBytes(m.s, m.v)
      below == FoldLeft(LAMBDA u, i : LET b == ReadBookmark(u) IN [b EXCEPT !.list = Append(u.list, b.mark)],
                        [s |-> url.s, count |-> t.count + 1, list |-> <<>>, mark |-> 0],
                        [i \in 1 .. children.v |-> i])
  IN [below EXCEPT !.mark = [description |-> CodePoints(text.v), url |-> CodePoints(url.v), children |-> below.list]]

\* decode: until as many are read as the outline has, at whatever depth.
ReadOutline(s) ==
  LET total == ReadInt(s, 2)
  IN FoldLeft(LAMBDA t, i : IF t.count >= total.v THEN t
                            ELSE LET b == ReadBookmark(t) IN [b EXCEPT !.list = Append(t.list, b.mark)],
              [s |-> total.s, count |-> 0, list |-> <<>>, mark |-> 0], [i \in 1 .. total.v |-> i]).list

-----------------------------------------------------------------------------
(* The zones of a text: page 1, column 2, region 3, paragraph 4, line 5, word 6, character 7.
   A zone has a box and the bytes of the text from start on; it is written as it differs from
   the zone before it, or from the one around it if it is the first there. *)

Stacked(type) == type \in {1, 4, 5}
Near16(x) == Bytes(2, x + 32768)
Nowhere == [x |-> 0, y |-> 0, width |-> 0, height |-> 0, start |-> 0, length |-> 0]

RECURSIVE ZoneBytes(_, _, _)
ZoneBytes(z, parent, prev) ==
  LET x == IF prev = Nowhere THEN z.x - parent.x
           ELSE IF Stacked(z.type) THEN z.x - prev.x ELSE z.x - (prev.x + prev.width)
      y == IF prev = Nowhere THEN IF parent = Nowhere THEN z.y ELSE parent.y + parent.height - (z.y + z.height)
           ELSE IF Stacked(z.type) THEN prev.y - (z.y + z.height) ELSE z.y - prev.y
      start == IF prev = Nowhere THEN z.start - parent.start ELSE z.start - (prev.start + prev.length)
  IN Bytes(1, z.type) \o Near16(x) \o Near16(y) \o Near16(z.width) \o Near16(z.height) \o Near16(start)
     \o Bytes(3, z.length) \o Bytes(3, Len(z.children))
     \o Flatten(LAMBDA i : ZoneBytes(z.children[i], z, IF i = 1 THEN Nowhere ELSE z.children[i - 1]), Len(z.children))
WriteText(t) == Bytes(3, Len(t.text)) \o t.text \o <<1>> \o ZoneBytes(t.zone, Nowhere, Nowhere)

\* decodeZone
RECURSIVE ReadZone(_, _, _)
ReadZone(s, parent, prev) ==
  LET At(k) == ReadInt(Skip(s, 1 + 2 * (k - 1)), 2).v - 32768
      type == s[1]
      w == At(3)
      h == At(4)
      x == CASE prev # Nowhere /\ Stacked(type) -> At(1) + prev.x
             [] prev # Nowhere /\ ~Stacked(type) -> At(1) + prev.x + prev.width
             [] OTHER -> At(1) + parent.x
      y == CASE prev # Nowhere /\ Stacked(type) -> prev.y - (At(2) + h)
             [] prev # Nowhere /\ ~Stacked(type) -> At(2) + prev.y
             [] prev = Nowhere /\ parent # Nowhere -> parent.y + parent.height - (At(2) + h)
             [] OTHER -> At(2)
      start == At(5) + (IF prev # Nowhere THEN prev.start + prev.length ELSE parent.start)
      zone  == [type |-> type, x |-> x, y |-> y, width |-> w, height |-> h, start |-> start,
                length |-> ReadInt(Skip(s, 11), 3).v, children |-> <<>>]
      below == FoldLeft(LAMBDA t, i : LET c == ReadZone(t.s, zone, IF i = 1 THEN Nowhere ELSE Last(t.list))
                                      IN [s |-> c.s, list |-> Append(t.list, c.zone)],
                        [s |-> Skip(s, 17), list |-> <<>>], [i \in 1 .. ReadInt(Skip(s, 14), 3).v |-> i])
  IN [s |-> below.s, zone |-> [zone EXCEPT !.children = below.list]]

ReadText(s) ==
  LET n    == ReadInt(s, 3)
      text == ReadBytes(n.s, n.v)
  IN [text |-> text.v, zone |-> ReadZone(Skip(text.s, 1), Nowhere, Nowhere).zone]

\* getText, getNormalizedZones: the texts of one box, one after the other, in the order the boxes come.
RECURSIVE Leaves(_)
Leaves(z) == IF z.children = <<>> THEN <<z>> ELSE Flatten(LAMBDA i : Leaves(z.children[i]), Len(z.children))
BoxOf(z) == <<z.x, z.y, z.width, z.height>>
TextOf(t, z) == CodePoints(SubSeq(t.text, z.start + 1, z.start + z.length))
NormalizedZones(t) ==
  FoldLeft(LAMBDA shown, z :
             IF \E k \in DOMAIN shown : shown[k].box = BoxOf(z)
             THEN [k \in DOMAIN shown |-> IF shown[k].box # BoxOf(z) THEN shown[k]
                                         ELSE [shown[k] EXCEPT !.text = @ \o TextOf(t, z)]]
             ELSE Append(shown, [box |-> BoxOf(z), text |-> TextOf(t, z)]),
           <<>>, Leaves(t.zone))
=============================================================================
