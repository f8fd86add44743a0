--------------------------------- MODULE JB2 ---------------------------------
(* The black layer of a DjVu page in static/lib/djvu/djvu.js: JB2Image and    *)
(* JB2Dict read a list of records from a ZP coder: shapes, pixel by pixel or  *)
(* as changes to a shape of the dictionary, and where the page has them.      *)
(* Row 0 is the lowest one; a bitmap is given by its black pixels.            *)
EXTENDS ZPCoder

CONSTANTS Undefined  \* a coordinate that was never set

-----------------------------------------------------------------------------
(* Bitmap *)

Bitmap(width, height, black) == [width |-> width, height |-> height, black |-> black]

\* get; outside there is no black.
Pixel(bm, i, j) == IF <<i, j>> \in bm.black THEN 1 ELSE 0

\* getBits: n pixels of row i from column j on, which may be up to 16 columns left of the bitmap:
\* farther left the code shifts by 32 or more, which wraps.
GetBits(bm, i, j, n) == FoldInHalves(LAMBDA x, k : 2 * x + Pixel(bm, i, j + k - 1), 0, [k \in 1 .. n |-> k])

Rows(bm) == {p[1] : p \in bm.black}
Columns(bm) == {p[2] : p \in bm.black}

\* Leading empty ones among n rows or columns; of a blank bitmap all are.
EmptyBelow(n, used) == Cardinality({k \in 0 .. n - 1 : \A u \in used : u > k})
EmptyAbove(n, used) == Cardinality({k \in 0 .. n - 1 : \A u \in used : u < k})

RemoveEmptyEdges(bm) ==
  LET bottom == EmptyBelow(bm.height, Rows(bm))
      left   == EmptyBelow(bm.width, Columns(bm))
  IN Bitmap(bm.width - left - EmptyAbove(bm.width, Columns(bm)),
            bm.height - bottom - EmptyAbove(bm.height, Rows(bm)),
            {<<p[1] - bottom, p[2] - left>> : p \in bm.black})

\* getCtxIndex: seven pixels of the two rows above and two to the left.
DirectContext(bm, i, j) ==
  <<"direct", 128 * GetBits(bm, i + 2, j - 1, 3) + 4 * GetBits(bm, i + 1, j - 2, 5)
              + GetBits(bm, i, j - 2, 2)>>

\* alignBitmaps: the centres of the two shapes meet.
Half(n) == (n - 1) \div 2
RowShift(cbm, mbm) == Half(mbm.height) - Half(cbm.height)
ColShift(cbm, mbm) == Half(mbm.width) - Half(cbm.width)

\* getCtxIndexRef: four pixels of the shape so far and seven around the place in the other.
RefinedContext(cbm, mbm, i, j) ==
  LET r == i + RowShift(cbm, mbm)
      c == j + ColShift(cbm, mbm)
  IN <<"refined", 256 * GetBits(cbm, i + 1, j - 1, 3) + 128 * Pixel(cbm, i, j - 1)
                  + 64 * Pixel(mbm, r + 1, c) + 8 * GetBits(mbm, r, c - 1, 3)
                  + GetBits(mbm, r - 1, c - 1, 3)>>

-----------------------------------------------------------------------------
(* Baseline: the places of the last three shapes of a line. *)

Line(y) == [arr |-> [k \in 0 .. 2 |-> y], index |-> -1]
FillLine(b, y) == [b EXCEPT !.arr = [k \in 0 .. 2 |-> y]]
AddToLine(b, y) ==
  LET k == IF b.index + 1 = 3 THEN 0 ELSE b.index + 1
  IN [arr |-> [b.arr EXCEPT ![k] = y], index |-> k]

Between(x, a, b) == (a <= x /\ x <= b) \/ (b <= x /\ x <= a)
Baseline(b) ==
  IF Between(b.arr[0], b.arr[1], b.arr[2]) THEN b.arr[0]
  ELSE IF Between(b.arr[1], b.arr[0], b.arr[2]) THEN b.arr[1] ELSE b.arr[2]

-----------------------------------------------------------------------------
(* decodeNum: a sign, then the power of two, then a search below it. *)

MaxDecisions == 40

\* A number is looked for with a cutoff; path is the node of the tree of contexts.
NewNum(low, high) ==
  [low |-> low, high |-> high, phase |-> 1, cutoff |-> 0, range |-> 0, negative |-> FALSE, path |-> <<>>]

NumDone(s) == s.range = 1
NumKnown(s) == s.low >= s.cutoff
NumAsked(s) == s.low < s.cutoff /\ s.high >= s.cutoff

\* The number is not below the cutoff, or it is.
NumStep(s, decision) ==
  LET t == [s EXCEPT !.path = Append(@, IF decision THEN 1 ELSE 0)]
  IN CASE s.phase = 1 /\ decision -> [t EXCEPT !.phase = 2, !.cutoff = 1]
       [] s.phase = 1 /\ ~decision ->
            [t EXCEPT !.phase = 2, !.cutoff = 1, !.negative = TRUE, !.low = -s.high - 1, !.high = -s.low - 1]
       [] s.phase = 2 /\ decision -> [t EXCEPT !.cutoff = 2 * @ + 1]
       [] s.phase = 2 /\ ~decision ->
            LET range == (s.cutoff + 1) \div 2
            IN [t EXCEPT !.phase = 3, !.range = range,
                         !.cutoff = IF range = 1 THEN 0 ELSE @ - range \div 2]
       [] s.phase = 3 /\ s.range > 2 ->
            [t EXCEPT !.range = @ \div 2, !.cutoff = IF decision THEN @ + s.range \div 4 ELSE @ - s.range \div 4]
       [] OTHER -> [t EXCEPT !.range = 1, !.cutoff = IF decision THEN @ ELSE @ - 1]

NumValue(s) == IF s.negative THEN -s.cutoff - 1 ELSE s.cutoff

\* The reader r: the coder d, how often the contexts of numbers were reset, the number read
\* last, the shape read last, the dictionary, the places on the page and the list of blits.
NumContext(r, kind, path) == <<kind, r.resets, path>>

DecodeNum(r, low, high, kind, bits) ==
  LET Told(s, d) == [d |-> d, num |-> NumStep(s.num, d.bit = 1)]
      Step(s, i) ==
        CASE NumDone(s.num) -> s
          [] ~NumDone(s.num) /\ NumAsked(s.num) -> Told(s, Decode(s.d, NumContext(r, kind, s.num.path), bits))
          [] OTHER -> [s EXCEPT !.num = NumStep(@, NumKnown(@))]
      Read(end) == [r EXCEPT !.d = end.d, !.num = NumValue(end.num)]
  IN IF r.ended THEN r
     ELSE Read(FoldInHalves(Step, [d |-> r.d, num |-> NewNum(low, high)], [i \in 1 .. MaxDecisions |-> i]))

-----------------------------------------------------------------------------
(* Shapes *)

Big == 262142

\* From the top row down, from the left to the right; of is <<>>, or holds the shape refined.
DecodePixels(r, width, height, of, bits) ==
  LET Context(bm, p) == IF of = <<>> THEN DirectContext(bm, p[1], p[2]) ELSE RefinedContext(bm, of[1], p[1], p[2])
      Draw(bm, p, d) == [d |-> d, bm |-> IF d.bit = 1 THEN [bm EXCEPT !.black = @ \union {p}] ELSE bm]
      Next(s, p) == Draw(s.bm, p, Decode(s.d, Context(s.bm, p), bits))
      Step(s, k) == Next(s, <<height - 1 - (k - 1) \div width, (k - 1) % width>>)
      Drawn(end) == [r EXCEPT !.d = end.d, !.bm = end.bm]
  IN IF r.ended THEN r
     ELSE Drawn(FoldInHalves(Step, [d |-> r.d, bm |-> Bitmap(width, height, {})], [k \in 1 .. width * height |-> k]))

\* decodeBitmap, after its size
DecodeShape(r, bits) ==
  LET Pixels(w, h) == DecodePixels(h, w.num, h.num, <<>>, bits)
      Tall(w) == Pixels(w, DecodeNum(w, 0, Big, "symbolHeight", bits))
  IN Tall(DecodeNum(r, 0, Big, "symbolWidth", bits))

DecodeIndex(r, bits) == DecodeNum(r, 0, Len(r.dict) - 1, "symbolIndex", bits)

\* decodeBitmapRef, after the shape it changes and the differences in size
DecodeRefined(r, bits) ==
  LET Pixels(mbm, w, h) == DecodePixels(h, mbm.width + w.num, mbm.height + h.num, <<mbm>>, bits)
      Tall(mbm, w) == Pixels(mbm, w, DecodeNum(w, -Big - 1, Big, "symbolHeightDiff", bits))
      Wide(i) == Tall(r.dict[i.num + 1], DecodeNum(i, -Big - 1, Big, "symbolWidthDiff", bits))
  IN Wide(DecodeIndex(r, bits))

DecodeCopy(r, bits) ==
  LET Copied(i) == [i EXCEPT !.bm = r.dict[i.num + 1]] IN Copied(DecodeIndex(r, bits))

\* decodeSymbolCoords: on a new line, or after the last shape; nothing right of it at first.
DecodeSymbolCoords(r, bits) ==
  LET Across(first, h) == IF first THEN r.firstLeft + h.num
                          ELSE IF r.lastRight = Undefined THEN Undefined ELSE r.lastRight + h.num
      Upward(first, v) == IF first THEN r.firstBottom + v.num - r.bm.height + 1 ELSE Baseline(r.baseline) + v.num
      Placed(v, first, x, y) ==
        [v EXCEPT !.firstLeft = IF first THEN x ELSE @, !.firstBottom = IF first THEN y ELSE @,
                  !.baseline = AddToLine(IF first THEN FillLine(@, y) ELSE @, y),
                  !.lastRight = IF x = Undefined THEN Undefined ELSE x + r.bm.width - 1,
                  !.blits = Append(@, <<r.bm, x, y>>)]
      Both(first, h, v) == Placed(v, first, Across(first, h), Upward(first, v))
      Vertical(first, h) == Both(first, h, DecodeNum(h, -Big - 1, Big, IF first THEN "voff" ELSE "svoff", bits))
      Horizontal(flag) ==
        Vertical(flag.bit = 1, DecodeNum([r EXCEPT !.d = flag], -Big - 1, Big,
                                         IF flag.bit = 1 THEN "hoff" ELSE "shoff", bits))
  IN Horizontal(Decode(r.d, <<"offsetType">>, bits))

\* decodeAbsoluteLocationCoords
DecodeAbsoluteCoords(r, bits) ==
  LET Placed(left, top) == [top EXCEPT !.blits = Append(@, <<r.bm, left.num, top.num - r.bm.height>>)]
      Vertical(left) == Placed(left, DecodeNum(left, 1, r.height, "verticalAbsLocation", bits))
  IN Vertical(DecodeNum(r, 1, r.width, "horizontalAbsLocation", bits))

AddShape(r, bm) == [r EXCEPT !.dict = Append(@, bm)]

\* Mutant of ResetNumContexts: the contexts keep what they have learned.
ResetNothing(r) == r

\* resetNumContexts
ResetNumContexts(r) == [r EXCEPT !.resets = @ + 1]

DecodeComment(r, bits) ==
  LET Octets(n) == FoldInHalves(LAMBDA s, i : DecodeNum(s, 0, 255, "commentOctet", bits), n, [i \in 1 .. n.num |-> i])
  IN Octets(DecodeNum(r, 0, Big, "commentLength", bits))

-----------------------------------------------------------------------------
(* Records *)

DecodeType(r, bits) == DecodeNum(r, 0, 11, "recordType", bits)

NewReader(bits) ==
  [d |-> NewDecoder(bits), resets |-> 0, num |-> 0, bm |-> Bitmap(0, 0, {}), dict |-> <<>>,
   blits |-> <<>>, width |-> 0, height |-> 0, lastRight |-> Undefined, firstLeft |-> -1,
   firstBottom |-> 0, baseline |-> Line(0), ended |-> FALSE]

\* The start of a page (init, decode) and of a dictionary (decode): how much it takes from
\* another dictionary, its size, and a flag that must not be set.
DecodeStart(r, inherited, bits) ==
  LET Size(n) == IF n = 0 THEN 200 ELSE n
      Begun(w, h, flag) == [h EXCEPT !.d = flag, !.width = Size(w.num), !.height = Size(h.num),
                                     !.firstBottom = Size(h.num) - 1, !.ended = flag.bit = 1]
      Flag(w, h)  == Begun(w, h, Decode(h.d, <<"flag">>, bits))
      Tall(w)     == Flag(w, DecodeNum(w, 0, Big, "imageSize", bits))
      Take(taken) == DecodeType([taken EXCEPT !.dict = SubSeq(inherited, 1, Least(taken.num, Len(inherited)))], bits)
      Inherit(type) == IF type.num # 9 THEN type ELSE Take(DecodeNum(type, 0, Big, "inheritDictSize", bits))
  IN Tall(DecodeNum(Inherit(DecodeType(r, bits)), 0, Big, "imageSize", bits))

\* A record of a page: its shape, where it goes, whether the dictionary gets it.
DecodeRecord(r, bits) ==
  LET Shape(t) ==
        CASE t.num \in {1, 2, 3, 8} -> DecodeShape(t, bits)
          [] t.num \in {4, 5, 6}    -> DecodeRefined(t, bits)
          [] t.num = 7              -> DecodeCopy(t, bits)
          [] t.num = 9              -> ResetNumContexts(t)
          [] t.num = 10             -> DecodeComment(t, bits)
          [] OTHER                  -> [t EXCEPT !.ended = TRUE]
      Place(t, s) ==
        CASE t.num \in {1, 3, 4, 6, 7} -> DecodeSymbolCoords(s, bits)
          [] t.num = 8                 -> DecodeAbsoluteCoords(s, bits)
          [] OTHER                     -> s
      Keep(t, s, b) == IF t.num \in {1, 2, 4, 5} THEN AddShape(b, RemoveEmptyEdges(s.bm)) ELSE b
      Shaped(t, s) == Keep(t, s, Place(t, s))
      Typed(t) == Shaped(t, Shape(t))
  IN Typed(DecodeType(r, bits))

\* A record of a dictionary: only what is drawn from another shape loses its empty edges.
DecodeDictRecord(r, bits) ==
  LET Drawn(s)   == AddShape(s, s.bm)
      Changed(s) == AddShape(s, RemoveEmptyEdges(s.bm))
      Typed(t) ==
        CASE t.num = 2  -> Drawn(DecodeShape(t, bits))
          [] t.num = 5  -> Changed(DecodeRefined(t, bits))
          [] t.num = 9  -> ResetNumContexts(t)
          [] t.num = 10 -> DecodeComment(t, bits)
          [] OTHER      -> [t EXCEPT !.ended = TRUE]
  IN Typed(DecodeType(r, bits))
=============================================================================
