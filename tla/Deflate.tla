-------------------------------- MODULE Deflate --------------------------------
(* The writer of compressed data of the library bundled in                    *)
(* static/lib/djvu/djvu.js (pako's deflate.js), as PNG pictures use it: a     *)
(* whole input and Z_FINISH, with runs of one byte (Z_RLE) or none            *)
(* (Z_HUFFMAN_ONLY). A call takes as much of the input as its window holds    *)
(* and gives as many bytes as there is room for; the next one goes on from    *)
(* there.                                                                     *)
EXTENDS Integers, SequencesExt

CONSTANTS
  MaxBits  \* the length of the longest code: 15 in the code

ASSUME MaxBitsAssumption == MaxBits \in 9 .. 15

EndBlock == 256
LCodes   == 286
DCodes   == 30
BlCodes  == 19
BlOrder  == <<16, 17, 18, 0, 8, 7, 9, 6, 10, 5, 11, 4, 12, 3, 13, 2, 14, 1, 15>>

\* The extra bits of the codes of lengths and of distances, and the first value of each code.
ExtraL(c) == IF c < 8 \/ c = 28 THEN 0 ELSE c \div 4 - 1
ExtraD(c) == IF c < 4 THEN 0 ELSE c \div 2 - 1
ExtraBl(c) == CASE c = 16 -> 2 [] c = 17 -> 3 [] c = 18 -> 7 [] OTHER -> 0
BaseLength[c \in 0 .. 27] == IF c = 0 THEN 0 ELSE BaseLength[c - 1] + 2 ^ ExtraL(c - 1)
BaseDist[c \in 0 .. DCodes - 1] == IF c = 0 THEN 0 ELSE BaseDist[c - 1] + 2 ^ ExtraD(c - 1)
LengthCode(lc) == IF lc = 255 THEN 28 ELSE CHOOSE c \in 0 .. 27 : BaseLength[c] <= lc /\ (c = 27 \/ lc < BaseLength[c + 1])
DCode(d) == CHOOSE c \in 0 .. 29 : BaseDist[c] <= d /\ (c = 29 \/ d < BaseDist[c + 1])

\* A long sequence of numbers summed, and one of sequences joined, half by half.
RECURSIVE Total(_)
Total(s) == CASE s = <<>> -> 0 [] Len(s) = 1 -> s[1]
              [] OTHER -> LET h == Len(s) \div 2 IN Total(SubSeq(s, 1, h)) + Total(SubSeq(s, h + 1, Len(s)))
RECURSIVE Joined(_)
Joined(ss) == CASE ss = <<>> -> <<>> [] Len(ss) = 1 -> ss[1]
                [] OTHER -> LET h == Len(ss) \div 2 IN Joined(SubSeq(ss, 1, h)) \o Joined(SubSeq(ss, h + 1, Len(ss)))

\* A number as bits: the last bit first, as it is sent, and the first bit first, as codes are.
Bits(v, n)    == [i \in 1 .. n |-> (v \div 2 ^ (i - 1)) % 2]
Reversed(v, n) == [i \in 1 .. n |-> (v \div 2 ^ (n - i)) % 2]

\* The codes of symbols whose codes have these lengths: those of one length follow each other.
CodesFrom(len, used, first) ==
  [n \in used |-> Reversed(first[len[n]] + Cardinality({m \in used : m < n /\ len[m] = len[n]}), len[n])]
Codes(len) ==
  LET used == {n \in DOMAIN len : len[n] > 0}
      First[b \in 1 .. 15] == IF b = 1 THEN 0 ELSE 2 * (First[b - 1] + Cardinality({n \in used : len[n] = b - 1}))
  IN CodesFrom(len, used, First)

StaticLLen == [n \in 0 .. 287 |-> CASE n <= 143 -> 8 [] n <= 255 -> 9 [] n <= 279 -> 7 [] OTHER -> 8]
StaticDLen == [n \in 0 .. 29 |-> 5]
StaticL == Codes(StaticLLen)
StaticD == Codes(StaticDLen)

\* The three kinds of tree: the number of symbols, the longest code, the extra bits of a symbol
\* and its length in the fixed tree, when there is one.
Kind(name) ==
  CASE name = "l"  -> [elems |-> LCodes, max |-> MaxBits, fixed |-> TRUE]
    [] name = "d"  -> [elems |-> DCodes, max |-> MaxBits, fixed |-> TRUE]
    [] name = "bl" -> [elems |-> BlCodes, max |-> 7, fixed |-> FALSE]
ExtraOf(name, n) ==
  CASE name = "l" -> IF n > EndBlock THEN ExtraL(n - EndBlock - 1) ELSE 0
    [] name = "d" -> ExtraD(n)
    [] OTHER      -> ExtraBl(n)
StaticLen(name, n) == CASE name = "l" -> StaticLLen[n] [] name = "d" -> StaticDLen[n] [] OTHER -> 0

-----------------------------------------------------------------------------
(* The tree of a block. A node under way is known by its weight, its depth    *)
(* and its parent; the heap has the lightest node first.                      *)

Smaller(t, n, m) == t.weight[n] < t.weight[m] \/ (t.weight[n] = t.weight[m] /\ t.depth[n] <= t.depth[m])

\* A node goes down while one of the two below it is lighter.
Lighter(t, heap, k) == IF k < Len(heap) /\ Smaller(t, heap[k + 1], heap[k]) THEN k + 1 ELSE k
RECURSIVE Sink(_, _, _, _, _)
Sink(t, heap, v, k, j) ==
  IF 2 * k > Len(heap) \/ Smaller(t, v, heap[j]) THEN [heap EXCEPT ![k] = v]
  ELSE Sink(t, [heap EXCEPT ![k] = heap[j]], v, j, Lighter(t, heap, 2 * j))
PqDownHeap(t, heap, k) == IF k > Len(heap) THEN heap ELSE Sink(t, heap, heap[k], k, Lighter(t, heap, 2 * k))

\* At least two symbols get a code, so that each has one bit.
ForcedSymbols(used) ==
  IF Cardinality(used) >= 2 THEN {}
  ELSE CASE used = {} -> {0, 1} [] used = {0} -> {1} [] used = {1} -> {2} [] OTHER -> {0}
InOrder(set, elems) == SelectSeq([i \in 1 .. elems |-> i - 1], LAMBDA n : n \in set)
Heaped(t) ==
  LET Below[k \in 1 .. Len(t.heap) \div 2 + 1] ==
        IF k > Len(t.heap) \div 2 THEN t.heap ELSE PqDownHeap(t, Below[k + 1], k)
  IN [t EXCEPT !.heap = Below[1]]
StartWith(freq, elems, used, forced) ==
  Heaped([weight |-> [n \in 0 .. 2 * elems |-> IF n \in forced THEN 1 ELSE IF n < elems THEN freq[n] ELSE 0],
          depth |-> [n \in 0 .. 2 * elems |-> 0], order |-> <<>>, node |-> elems,
          heap |-> InOrder(used, elems) \o InOrder(forced, elems),
          parent |-> [n \in 0 .. 2 * elems |-> 0],
          forced |-> forced, maxCode |-> Max(used \union forced)])
StartFrom(freq, elems, used) == StartWith(freq, elems, used, ForcedSymbols(used))
StartTree(freq, elems) == StartFrom(freq, elems, {n \in 0 .. elems - 1 : freq[n] # 0})

\* The two lightest nodes become one, until one is left; order has the nodes, the root first.
WithNode(t, n, m) ==
  [t EXCEPT !.weight[t.node] = t.weight[n] + t.weight[m],
            !.depth[t.node] = (IF t.depth[n] >= t.depth[m] THEN t.depth[n] ELSE t.depth[m]) + 1,
            !.parent[n] = t.node, !.parent[m] = t.node,
            !.order = <<m, n>> \o @, !.node = @ + 1]
HeapOf(t, heap) == [t EXCEPT !.heap = PqDownHeap(t, heap, 1)]
Paired(t, rest) == HeapOf(WithNode(t, t.heap[1], rest[1]), [rest EXCEPT ![1] = t.node])
RECURSIVE Join(_)
Join(t) ==
  IF Len(t.heap) < 2 THEN [t EXCEPT !.order = <<t.heap[1]>> \o @]
  ELSE Join(Paired(t, PqDownHeap(t, Front([t.heap EXCEPT ![1] = Last(t.heap)]), 1)))

\* Codes that would be too long: a leaf goes down below a shorter one, until all of them fit.
RECURSIVE MakeRoom(_, _, _)
MakeRoom(count, max, overflow) ==
  IF overflow <= 0 THEN count
  ELSE LET bits == Max({b \in 1 .. max - 1 : count[b] # 0})
       IN MakeRoom([count EXCEPT ![bits] = @ - 1, ![bits + 1] = @ + 2, ![max] = @ - 1], max, overflow - 2)

\* The depth of each node, at most max, and the length of each symbol's code. When some are cut, the
\* deepest leaves come first and the longest codes go to them.
Depths(t, max) ==
  LET Depth[n \in ToSet(t.order)] ==
        IF n = t.order[1] THEN 0 ELSE IF Depth[t.parent[n]] = max THEN max ELSE Depth[t.parent[n]] + 1
  IN Depth
LongestFirst(leaves, count, max) ==
  LET Longer[b \in 1 .. max] == IF b = max THEN 0 ELSE Longer[b + 1] + count[b + 1]
  IN [n \in ToSet(leaves) |-> LET i == CHOOSE i \in DOMAIN leaves : leaves[i] = n
                              IN CHOOSE b \in 1 .. max : Longer[b] < i /\ i <= Longer[b] + count[b]]
Fitted(depth, max, cut, leaves) ==
  IF cut = {} THEN depth
  ELSE LongestFirst(leaves, MakeRoom([b \in 1 .. max |-> Len(SelectSeq(leaves, LAMBDA n : depth[n] = b))],
                                     max, Cardinality(cut)), max)
LengthsIn(t, elems, max, depth) ==
  LET len == Fitted(depth, max, {n \in DOMAIN depth \ {t.order[1]} : depth[t.parent[n]] = max},
                    SelectSeq(Reverse(t.order), LAMBDA n : n <= t.maxCode))
      Known(known) == [n \in 0 .. elems - 1 |-> IF n \in DOMAIN depth THEN known[n] ELSE 0]
  IN Known(len)
BitLengths(t, elems, max) == LengthsIn(t, elems, max, Depths(t, max))

\* A tree, with the bits its symbols take, and would take with the fixed codes.
Measured(name, kind, t, len) ==
  LET Cost(n, bits) == IF len[n] = 0 THEN 0 ELSE t.weight[n] * (bits + ExtraOf(name, n))
      Fixed(n, bits) == Cost(n, bits) - (IF n \in t.forced THEN bits ELSE 0)
  IN [len |-> len, codes |-> Codes(len), maxCode |-> t.maxCode,
      opt |-> Total([i \in 1 .. kind.elems |-> Cost(i - 1, len[i - 1])]) - Cardinality(t.forced),
      static |-> IF ~kind.fixed THEN 0 ELSE Total([i \in 1 .. kind.elems |-> Fixed(i - 1, StaticLen(name, i - 1))])]
TreeOf(name, kind, t) == Measured(name, kind, t, BitLengths(t, kind.elems, kind.max))
TreeOfKind(name, kind, freq) == TreeOf(name, kind, Join(StartTree(freq, kind.elems)))
BuildTree(name, freq) == TreeOfKind(name, Kind(name), freq)

-----------------------------------------------------------------------------
(* The bits of a block.                                                       *)

\* The lengths of a tree's codes, with runs of one length told by their number: each item is a
\* symbol, and a number with its width.
RunItems(len, count, prev) ==
  CASE count < (IF len = 0 \/ len = prev THEN 3 ELSE 4) -> [i \in 1 .. count |-> <<len, 0, 0>>]
    [] len # 0 -> IF len # prev THEN <<<<len, 0, 0>>, <<16, count - 4, 2>>>> ELSE <<<<16, count - 3, 2>>>>
    [] OTHER   -> IF count <= 10 THEN <<<<17, count - 3, 3>>>> ELSE <<<<18, count - 11, 7>>>>
MostInRun(len, prev) == IF len = 0 THEN 138 ELSE IF len = prev THEN 6 ELSE 7
LastOfRun(len, maxCode, n) == Max({m \in n .. maxCode : \A k \in n .. m : len[k] = len[n]})
AtMost(n, most) == IF n < most THEN n ELSE most
RECURSIVE RunsFrom(_, _, _, _, _)
RunsFrom(len, maxCode, n, count, prev) ==
  RunItems(len[n], count, prev)
  \o (IF n + count > maxCode THEN <<>>
      ELSE RunsFrom(len, maxCode, n + count,
                    AtMost(LastOfRun(len, maxCode, n + count) - n - count + 1, MostInRun(len[n + count], len[n])), len[n]))
RunLengths(tree) ==
  RunsFrom(tree.len, tree.maxCode, 0, AtMost(LastOfRun(tree.len, tree.maxCode, 0) + 1, MostInRun(tree.len[0], -1)), -1)

\* A literal is <<0, byte>>, a match <<distance, length - 3>>.
ExtraBits(v, n) == IF n = 0 THEN <<>> ELSE Bits(v, n)
LengthBits(l, c, lc) == l[c + EndBlock + 1] \o ExtraBits(lc - BaseLength[c], ExtraL(c))
DistanceBits(d, c, dist) == d[c] \o ExtraBits(dist - BaseDist[c], ExtraD(c))
TokenBits(token, l, d) ==
  IF token[1] = 0 THEN l[token[2]]
  ELSE LengthBits(l, LengthCode(token[2]), token[2]) \o DistanceBits(d, DCode(token[1] - 1), token[1] - 1)
CompressBlock(tokens, l, d) == Joined([i \in DOMAIN tokens |-> TokenBits(tokens[i], l, d)]) \o l[EndBlock]

Frequencies(tokens) ==
  LET Hits(P(_)) == Len(SelectSeq(tokens, P))
  IN [l |-> [n \in 0 .. LCodes - 1 |->
               IF n < EndBlock THEN Hits(LAMBDA x : x[1] = 0 /\ x[2] = n)
               ELSE IF n = EndBlock THEN 1
               ELSE Hits(LAMBDA x : x[1] # 0 /\ LengthCode(x[2]) = n - EndBlock - 1)],
      d |-> [n \in 0 .. DCodes - 1 |-> Hits(LAMBDA x : x[1] # 0 /\ DCode(x[1] - 1) = n)]]

\* The trees of a block, with the number of bits it takes with them.
TreesWith(l, d, items, bl, sent) ==
  [l |-> l, d |-> d, bl |-> bl, items |-> items, blCodes |-> sent,
   opt |-> l.opt + d.opt + bl.opt + 3 * sent + 14, static |-> l.static + d.static]
TreesBy(l, d, items, bl) == TreesWith(l, d, items, bl, Max({i \in 4 .. BlCodes : bl.len[BlOrder[i]] # 0}))
TreesOf(l, d, items) ==
  TreesBy(l, d, items, BuildTree("bl", [n \in 0 .. BlCodes - 1 |-> Len(SelectSeq(items, LAMBDA x : x[1] = n))]))
TreesFor(l, d) == TreesOf(l, d, RunLengths(l) \o RunLengths(d))
BlockTrees(tokens) == TreesFor(BuildTree("l", Frequencies(tokens).l), BuildTree("d", Frequencies(tokens).d))
SendAllTrees(t) ==
  Bits(t.l.maxCode + 1 - 257, 5) \o Bits(t.d.maxCode, 5) \o Bits(t.blCodes - 4, 4)
  \o Joined([i \in 1 .. t.blCodes |-> Bits(t.bl.len[BlOrder[i]], 3)])
  \o Joined([i \in DOMAIN t.items |-> t.bl.codes[t.items[i][1]] \o Bits(t.items[i][2], t.items[i][3])])

-----------------------------------------------------------------------------
CONSTANTS
  WBits,     \* the window has 2^WBits bytes: 15 in the code
  LitBufSize \* the symbols of a block: 16384 in the code

ASSUME DeflateAssumption == WBits \in 9 .. 15 /\ LitBufSize \in Nat /\ LitBufSize > 1

WSize        == 2 ^ WBits
MinMatch     == 3
MaxMatch     == 258
MinLookahead == MaxMatch + MinMatch + 1

\* The checksum of bytes after others, as its two halves: the sum of the bytes, and the sum of
\* all the sums on the way.
RECURSIVE Sums(_)
Sums(b) == CASE b = <<>> -> <<0, 0>> [] Len(b) = 1 -> <<b[1], b[1]>>
             [] OTHER -> LET h == Len(b) \div 2
                             x == Sums(SubSeq(b, 1, h))
                             y == Sums(SubSeq(b, h + 1, Len(b)))
                         IN <<x[1] + y[1], x[2] + (Len(b) - h) * x[1] + y[2]>>
Adler32(a, b)  == <<(a[1] + Sums(b)[1]) % 65521, (a[2] + Len(b) * a[1] + Sums(b)[2]) % 65521>>
AdlerBytes(a)  == <<a[2] \div 256, a[2] % 256, a[1] \div 256, a[1] % 256>>

\* A stream: the bytes that wait for room and the bits that wait for a byte, the window, whose
\* first byte is base, and the symbols of the block under way.
NewDeflate(input, level, strategy) ==
  [level |-> level, strategy |-> strategy, input |-> input, nextIn |-> 0, adler |-> <<1, 0>>, wrap |-> 1,
   status |-> "init", pending |-> <<>>, bi |-> <<>>, base |-> 0, strstart |-> 0, lookahead |-> 0,
   blockStart |-> 0, tokens |-> <<>>, room |-> 0, out |-> <<>>, bstate |-> "none"]

AvailIn(s)  == Len(s.input) - s.nextIn
AvailOut(s) == s.room - Len(s.out)
ByteOf(b) == b[1] + 2 * b[2] + 4 * b[3] + 8 * b[4] + 16 * b[5] + 32 * b[6] + 64 * b[7] + 128 * b[8]
Bytes8(bits) == [i \in 1 .. Len(bits) \div 8 |-> ByteOf(SubSeq(bits, 8 * i - 7, 8 * i))]

\* Bits go out two bytes at a time, once there are more than sixteen of them.
SendAll(s, all, n) == [s EXCEPT !.pending = @ \o Bytes8(SubSeq(all, 1, n)), !.bi = SubSeq(all, n + 1, Len(all))]
SendWhole(s, all)  == SendAll(s, all, IF all = <<>> THEN 0 ELSE 16 * ((Len(all) - 1) \div 16))
SendBits(s, bits)  == SendWhole(s, s.bi \o bits)
\* The bits that are left, with zeros up to the end of their byte.
WindUp(s) ==
  LET fill == (8 - (Len(s.bi) % 8)) % 8
  IN [s EXCEPT !.pending = @ \o Bytes8(s.bi \o [i \in 1 .. fill |-> 0]), !.bi = <<>>]
PutBytes(s, bytes) == [s EXCEPT !.pending = @ \o bytes]

FlushPending(s) ==
  LET n == IF Len(s.pending) > AvailOut(s) THEN AvailOut(s) ELSE Len(s.pending)
  IN [s EXCEPT !.out = @ \o SubSeq(s.pending, 1, n), !.pending = SubSeq(s.pending, n + 1, Len(s.pending))]

\* The window takes bytes from the input, after its older half has been given up when it is full.
IsFull(s) == s.strstart - s.base >= 2 * WSize - MinLookahead
Slid(s)   == IF IsFull(s) THEN [s EXCEPT !.base = @ + WSize] ELSE s
Least(a, b) == IF a < b THEN a ELSE b
ReadBuf(s, n) ==
  [s EXCEPT !.nextIn = @ + n, !.lookahead = @ + n, !.adler = Adler32(@, SubSeq(s.input, s.nextIn + 1, s.nextIn + n))]
ReadMore(s) == ReadBuf(s, Least(AvailIn(s), 2 * WSize - s.lookahead - (s.strstart - s.base)))
RECURSIVE FillWindow(_)
FillWindow(s) ==
  IF AvailIn(s) = 0 THEN Slid(s)
  ELSE LET Filled(t) == IF t.lookahead >= MinLookahead \/ AvailIn(t) = 0 THEN t ELSE FillWindow(t)
       IN Filled(ReadMore(Slid(s)))

StoredBytes(s, len) ==
  PutBytes(s, <<len % 256, len \div 256, 255 - (len % 256), 255 - (len \div 256)>>
              \o SubSeq(s.input, s.blockStart + 1, s.strstart))
StoredBlock(s, last) == StoredBytes(WindUp(SendBits(s, Bits(IF last THEN 1 ELSE 0, 3))), s.strstart - s.blockStart)

\* A block is stored as it is, or sent with the fixed codes or with its own, whichever is
\* shortest. Stored it can be only while its bytes are in the window.
ByteCount(bits) == (bits + 10) \div 8
ShortestBlock(s, last, t, len, static, opt) ==
  LET Header(kind) == Bits(2 * kind + (IF last THEN 1 ELSE 0), 3)
  IN IF len + 4 <= opt /\ s.blockStart >= s.base THEN StoredBlock(s, last)
     ELSE SendBits(s, IF static = opt THEN Header(1) \o CompressBlock(s.tokens, StaticL, StaticD)
                      ELSE Header(2) \o SendAllTrees(t) \o CompressBlock(s.tokens, t.l.codes, t.d.codes))
BlockOf(s, last, t, len) ==
  IF s.level = 0 THEN ShortestBlock(s, last, t, len, len + 5, len + 5)
  ELSE ShortestBlock(s, last, t, len, ByteCount(t.static), Least(ByteCount(t.static), ByteCount(t.opt)))
BlockBits(s, last) == BlockOf(s, last, BlockTrees(s.tokens), s.strstart - s.blockStart)
Flushed(s) == FlushPending([s EXCEPT !.tokens = <<>>, !.blockStart = s.strstart])
FlushBlock(s, last) == Flushed(IF last THEN WindUp(BlockBits(s, last)) ELSE BlockBits(s, last))

-----------------------------------------------------------------------------
(* One call.                                                                  *)

\* How many bytes from here on are the byte before, at most the longest match.
RunHere(s) ==
  LET prev == s.input[s.strstart]
      Same(n) == \A i \in 1 .. n : s.input[s.strstart + i] = prev
      most == IF s.lookahead < MaxMatch THEN s.lookahead ELSE MaxMatch
  IN IF s.lookahead < MinMatch \/ s.strstart = s.base THEN 0
     ELSE Max({n \in 0 .. most : Same(n)})
\* The next symbol of the block.
Tally(s) ==
  LET n == IF s.strategy = "rle" THEN RunHere(s) ELSE 0
  IN IF n >= MinMatch
     THEN [s EXCEPT !.tokens = Append(@, <<1, n - MinMatch>>), !.strstart = @ + n, !.lookahead = @ - n]
     ELSE [s EXCEPT !.tokens = Append(@, <<0, s.input[s.strstart + 1]>>), !.strstart = @ + 1, !.lookahead = @ - 1]

\* A round of deflate_rle or deflate_huff with Z_FINISH: a symbol, and the block when it is full,
\* or the last block when the input is at its end.
LastFlushed(s)   == [s EXCEPT !.status = "finish", !.bstate = IF AvailOut(s) = 0 THEN "finish started" ELSE "finish done"]
BlockFlushed(s)  == [s EXCEPT !.bstate = IF AvailOut(s) = 0 THEN "need more" ELSE "rounds"]
Tallied(s) == IF Len(s.tokens) < LitBufSize - 1 THEN s ELSE BlockFlushed(FlushBlock(s, FALSE))
RoundOf(s) == IF s.lookahead = 0 THEN LastFlushed(FlushBlock(s, TRUE)) ELSE Tallied(Tally(s))
Round(s)   == RoundOf(IF s.lookahead <= (IF s.strategy = "rle" THEN MaxMatch ELSE 0) THEN FillWindow(s) ELSE s)

\* The two bytes at the start: the method, the size of the window, and a check.
ZlibHeader == LET h == (8 + 16 * (WBits - 8)) * 256 IN <<h \div 256, 31 - (h % 31)>>

\* deflate() with Z_FINISH and this much room, up to its rounds.
CallFlushed(s, had) ==
  [s EXCEPT !.bstate = IF had /\ AvailOut(s) = 0 THEN "no room" ELSE IF s.status = "finish" THEN "finish done" ELSE "rounds"]
Flushing(s) == CallFlushed(FlushPending(s), s.pending # <<>>)
Headed(s)   == IF s.status = "init" THEN PutBytes([s EXCEPT !.status = "busy"], ZlibHeader) ELSE s
Started(s, room) == Flushing(Headed([s EXCEPT !.room = room, !.out = <<>>]))
\* And after them: the checksum, once.
Trailed(s) == [s |-> [s EXCEPT !.wrap = -1], ret |-> IF s.pending # <<>> THEN "ok" ELSE "stream end"]
Ended(s) ==
  IF s.bstate # "finish done" THEN [s |-> s, ret |-> "ok"]
  ELSE IF s.wrap <= 0 THEN [s |-> s, ret |-> "stream end"]
  ELSE Trailed(FlushPending(PutBytes(s, AdlerBytes(s.adler))))
=============================================================================
