------------------------------ MODULE JB2Writer ------------------------------
(* How a program that makes DjVu files writes the records that JB2 reads: the *)
(* code of a number, the contexts of a pixel and the reckoning of places as   *)
(* the format has them, stated on their own. ropds has no such program; this  *)
(* is what its reader is measured against.                                    *)
EXTENDS JB2

\* A record: its type, the shape it shows (bm), the one of the dictionary that this is or is
\* drawn from (of), where it goes (x, y), whether it starts a line, the octets of a comment.
Record(type, bm, of, x, y, first) ==
  [type |-> type, bm |-> bm, of |-> of, x |-> x, y |-> y, first |-> first, text |-> <<>>]
Comment(text) == [Record(10, Bitmap(0, 0, {}), 0, 0, 0, FALSE) EXCEPT !.text = text]
Plain(type) == Record(type, Bitmap(0, 0, {}), 0, 0, 0, FALSE)

\* The writer: the symbols so far and what it keeps to write the next record.
NewWriter(width, height, dict) ==
  [symbols |-> <<>>, resets |-> 0, dict |-> dict, width |-> width, height |-> height,
   left |-> -1, bottom |-> height - 1, right |-> 0, ys |-> <<>>]

Put(w, symbols) == [w EXCEPT !.symbols = @ \o symbols]

\* The numbers 0, 1..2, 3..6, 7..14, ...: a sign, how many bits, the bits.
NumSymbols(w, low, high, kind, v) ==
  LET Size(x) == IF v < 0 THEN -x - 1 ELSE x
      Upper(m, k, i) == LET step == 2 ^ (k - i) IN 2 ^ (k - 1) - 1 + ((m - 2 ^ (k - 1) + 1) \div step) * step + step \div 2
      Cutoffs(m, k) == [i \in 1 .. k |-> 2 ^ i - 1] \o [i \in 1 .. k - 1 |-> Upper(m, k, i)]
      Asked(below, e) == (\E x \in e : x < below) /\ (\E x \in e : x >= below)
      Symbol(path, i) == <<path[i], <<kind, w.resets, SubSeq(path, 1, i - 1)>>>>
      OnPath(path, asked) == Put(w, [n \in DOMAIN asked |-> Symbol(path, asked[n])])
      Compare(m, cutoffs) ==
        OnPath(<<IF v < 0 THEN 0 ELSE 1>> \o [i \in DOMAIN cutoffs |-> IF m >= cutoffs[i] THEN 1 ELSE 0],
               SelectSeq([i \in 1 .. Len(cutoffs) + 1 |-> i],
                         LAMBDA i : IF i = 1 THEN low < 0 /\ 0 <= high
                                    ELSE Asked(cutoffs[i - 1], {Size(low), Size(high)})))
      Of(m) == Compare(m, Cutoffs(m, CHOOSE n \in 1 .. 20 : 2 ^ (n - 1) - 1 <= m /\ m < 2 ^ n - 1))
  IN Of(Size(v))

\* The neighbours of a pixel, row and column from it, as bits of its context.
Neighbours(bm, i, j, offsets) ==
  FoldInHalves(LAMBDA x, o : 2 * x + Pixel(bm, i + o[1], j + o[2]), 0, offsets)

PixelSymbols(w, bm, ctx) ==
  Put(w, [k \in 1 .. bm.width * bm.height |->
            LET i == bm.height - 1 - (k - 1) \div bm.width
                j == (k - 1) % bm.width
            IN <<Pixel(bm, i, j), ctx[i, j]>>])

DirectSymbols(w, bm) ==
  PixelSymbols(w, bm, [i \in 0 .. bm.height - 1, j \in 0 .. bm.width - 1 |->
    <<"direct", Neighbours(bm, i, j, <<<<2, -1>>, <<2, 0>>, <<2, 1>>, <<1, -2>>, <<1, -1>>, <<1, 0>>,
                                       <<1, 1>>, <<1, 2>>, <<0, -2>>, <<0, -1>>>>)>>])

\* The other shape lies with its centre pixel below that of this one.
RefinedSymbols(w, bm, other) ==
  LET di == (other.height - 1) \div 2 - (bm.height - 1) \div 2
      dj == (other.width - 1) \div 2 - (bm.width - 1) \div 2
  IN PixelSymbols(w, bm, [i \in 0 .. bm.height - 1, j \in 0 .. bm.width - 1 |->
       <<"refined", 128 * Neighbours(bm, i, j, <<<<1, -1>>, <<1, 0>>, <<1, 1>>, <<0, -1>>>>)
                    + Neighbours(other, i + di, j + dj,
                        <<<<1, 0>>, <<0, -1>>, <<0, 0>>, <<0, 1>>, <<-1, -1>>, <<-1, 0>>, <<-1, 1>>>>)>>])

ShapeSymbols(w, bm) ==
  DirectSymbols(NumSymbols(NumSymbols(w, 0, Big, "symbolWidth", bm.width), 0, Big, "symbolHeight", bm.height), bm)

IndexSymbols(w, of) == NumSymbols(w, 0, Len(w.dict) - 1, "symbolIndex", of)

ChangeSymbols(w, bm, of) ==
  LET Sized(other, i) ==
        NumSymbols(NumSymbols(i, -Big - 1, Big, "symbolWidthDiff", bm.width - other.width),
                   -Big - 1, Big, "symbolHeightDiff", bm.height - other.height)
      Changed(other) == RefinedSymbols(Sized(other, IndexSymbols(w, of)), bm, other)
  IN Changed(w.dict[of + 1])

\* The median of the last three places of a line.
Median(ys) ==
  LET last == SubSeq(ys, Len(ys) - 2, Len(ys)) IN SortSeq(last, LAMBDA a, b : a < b)[2]

\* A line starts from the start of the one above it, by the upper left corner.
PlaceShape(w, bm, r) ==
  LET Across(f) == NumSymbols(f, -Big - 1, Big, IF r.first THEN "hoff" ELSE "shoff",
                              r.x - (IF r.first THEN w.left ELSE w.right))
      Upward(h) == NumSymbols(h, -Big - 1, Big, IF r.first THEN "voff" ELSE "svoff",
                              IF r.first THEN r.y + bm.height - 1 - w.bottom ELSE r.y - Median(w.ys))
      Placed(v) == [v EXCEPT !.left = IF r.first THEN r.x ELSE @, !.bottom = IF r.first THEN r.y ELSE @,
                             !.right = r.x + bm.width - 1,
                             !.ys = IF r.first THEN <<r.y, r.y, r.y>> ELSE Append(@, r.y)]
  IN Placed(Upward(Across(Put(w, <<<<IF r.first THEN 1 ELSE 0, <<"offsetType">>>>>>))))

PlaceAbsolute(w, bm, r) ==
  NumSymbols(NumSymbols(w, 1, w.width, "horizontalAbsLocation", r.x),
             1, w.height, "verticalAbsLocation", r.y + bm.height)

\* The box of the black pixels of a shape.
Tight(bm) ==
  LET low  == [k \in 1 .. 2 |-> Min({p[k] : p \in bm.black})]
      high == [k \in 1 .. 2 |-> Max({p[k] : p \in bm.black})]
  IN Bitmap(high[2] - low[2] + 1, high[1] - low[1] + 1, {<<p[1] - low[1], p[2] - low[2]>> : p \in bm.black})

\* What a record puts on the page.
Shown(w, r) == IF r.type = 7 THEN w.dict[r.of + 1] ELSE r.bm

StartSymbols(w, taken) ==
  LET Taken == IF taken = <<>> THEN w
               ELSE NumSymbols(NumSymbols(w, 0, 11, "recordType", 9), 0, Big, "inheritDictSize", Len(taken))
      Start == NumSymbols(Taken, 0, 11, "recordType", 0)
  IN Put(NumSymbols(NumSymbols(Start, 0, Big, "imageSize", w.width), 0, Big, "imageSize", w.height),
         <<<<0, <<"flag">>>>>>)

RecordSymbols(w, r) ==
  LET Octets(t) == FoldInHalves(LAMBDA x, c : NumSymbols(x, 0, 255, "commentOctet", c),
                               NumSymbols(t, 0, Big, "commentLength", Len(r.text)), r.text)
      Shape(t) ==
        CASE r.type \in {1, 2, 3, 8} -> ShapeSymbols(t, r.bm)
          [] r.type \in {4, 5, 6}    -> ChangeSymbols(t, r.bm, r.of)
          [] r.type = 7              -> IndexSymbols(t, r.of)
          [] r.type = 9              -> [t EXCEPT !.resets = @ + 1]
          [] r.type = 10             -> Octets(t)
          [] OTHER                   -> t
      Place(s) ==
        CASE r.type \in {1, 3, 4, 6, 7} -> PlaceShape(s, Shown(w, r), r)
          [] r.type = 8                 -> PlaceAbsolute(s, r.bm, r)
          [] OTHER                      -> s
      Keep(p) == IF r.type \in {1, 2, 4, 5} THEN [p EXCEPT !.dict = Append(@, Tight(r.bm))] ELSE p
  IN Keep(Place(Shape(NumSymbols(w, 0, 11, "recordType", r.type))))
=============================================================================
