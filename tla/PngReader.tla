------------------------------- MODULE PngReader -------------------------------
(* PNG files as the library bundled in static/lib/djvu/djvu.js writes and     *)
(* reads them (pngjs, its synchronous half): the samples of a picture, its    *)
(* filtered rows, the chunks with their checksums, written, then read one     *)
(* after another as each asks for the next, and the picture their data become *)
(* once they are inflated. Words are four bytes, the highest first.           *)
EXTENDS Inflate

CONSTANTS
  Nothing,   \* no picture, no palette, no header
  Refused    \* the error a caller gets

-----------------------------------------------------------------------------
(* Constants and checksums.                                                   *)

Signature == <<137, 80, 78, 71, 13, 10, 26, 10>>
IHDR == <<73, 72, 68, 82>>
IEND == <<73, 69, 78, 68>>
IDAT == <<73, 68, 65, 84>>
PLTE == <<80, 76, 84, 69>>
TRNS == <<116, 82, 78, 83>>
GAMA == <<103, 65, 77, 65>>

\* The samples of a pixel of each colour type.
BppOf == (0 :> 1) @@ (2 :> 3) @@ (3 :> 1) @@ (4 :> 2) @@ (6 :> 4)
HasAlpha(colorType) == colorType \in {4, 6}

\* Words above HugeWord are as good as it: no file is that long.
HugeWord == 2 ^ 20
Word(n)      == [i \in 1 .. 4 |-> (n \div 256 ^ (4 - i)) % 256]
WordAt(d, i) == IF d[i] > 0 \/ d[i + 1] > 15 THEN HugeWord ELSE 256 * (256 * (256 * d[i] + d[i + 1]) + d[i + 2]) + d[i + 3]
Sample16(d, i) == 256 * d[i] + d[i + 1]

\* A checksum is 32 bits, the lowest first.
Xor(a, b)   == <<>> \o [i \in 1 .. 32 |-> (a[i] + b[i]) % 2]
Shift(a, n) == <<>> \o [i \in 1 .. 32 |-> IF i + n <= 32 THEN a[i + n] ELSE 0]
Polynomial  == [i \in 1 .. 32 |-> IF i \in {6, 9, 10, 16, 20, 21, 22, 24, 25, 27, 28, 30, 31, 32} THEN 1 ELSE 0]
OfByte(n)   == Bits(n, 8) \o [i \in 1 .. 24 |-> 0]
CrcTable ==
  [n \in 0 .. 255 |->
    LET After[j \in 0 .. 8] == IF j = 0 THEN OfByte(n)
                               ELSE IF After[j - 1][1] = 1 THEN Xor(Polynomial, Shift(After[j - 1], 1)) ELSE Shift(After[j - 1], 1)
    IN After[8]]
CrcByte(crc, b) == Xor(CrcTable[ByteOf(Xor(crc, OfByte(b)))], Shift(crc, 8))
RECURSIVE CrcOver(_, _)
CrcOver(crc, data) ==
  CASE data = <<>> -> crc [] Len(data) = 1 -> CrcByte(crc, data[1])
    [] OTHER -> LET h == Len(data) \div 2
                IN CHOOSE c \in {CrcOver(d, SubSeq(data, h + 1, Len(data))) : d \in {CrcOver(crc, SubSeq(data, 1, h))}} : TRUE
Crc(data) == LET c == CrcOver([i \in 1 .. 32 |-> 1], data)
             IN [i \in 1 .. 4 |-> 255 - ByteOf(SubSeq(c, 33 - 8 * i, 40 - 8 * i))]

-----------------------------------------------------------------------------
(* Writing. A picture is a sequence of samples; opt has the colour types of   *)
(* the picture and of the file, and the bits of a sample of both.             *)

\* c * a / most, rounded, without numbers above 2^31.
Scaled(c, a, most) ==
  LET high == (a \div 256) * c
  IN 256 * (high \div most) + (2 * (256 * (high % most) + (a % 256) * c) + most) \div (2 * most)
\* The bytes of the file's samples: the picture's own, or the pixels one by one. A file without alpha
\* has its colours on a white ground, one without colour their mean.
BitPack(data, n, opt) ==
  LET most == 2 ^ opt.bitDepth - 1
      from == opt.inputColorType
      In(p, k) == data[BppOf[from] * p + k]
      Alpha(p)    == IF HasAlpha(from) THEN In(p, BppOf[from]) ELSE most
      OnWhite(c, a) == most - Scaled(most - c, a, most)
      Colour(p, k) == LET c == In(p, IF from \in {2, 6} THEN k ELSE 1)
                      IN IF HasAlpha(opt.colorType) THEN c ELSE OnWhite(c, Alpha(p))
      Samples(p) == (IF opt.colorType \in {2, 6} THEN <<Colour(p, 1), Colour(p, 2), Colour(p, 3)>>
                     ELSE <<(Colour(p, 1) + Colour(p, 2) + Colour(p, 3)) \div 3>>)
                    \o (IF HasAlpha(opt.colorType) THEN <<Alpha(p)>> ELSE <<>>)
      all == Joined([i \in 1 .. n |-> Samples(i - 1)])
  IN IF from = opt.colorType /\ opt.bitDepth = 8 THEN data
     ELSE IF opt.bitDepth = 8 THEN all
     ELSE Joined([i \in DOMAIN all |-> <<all[i] \div 256, all[i] % 256>>])

Abs(n) == IF n < 0 THEN -n ELSE n
PaethPredictor(left, above, upLeft) ==
  LET paeth == left + above - upLeft
      l == Abs(paeth - left)
      a == Abs(paeth - above)
      u == Abs(paeth - upLeft)
  IN IF l <= a /\ l <= u THEN left ELSE IF a <= u THEN above ELSE upLeft
Predicted(filter, left, up, upLeft) ==
  CASE filter = 0 -> 0 [] filter = 1 -> left [] filter = 2 -> up [] filter = 3 -> (left + up) \div 2
    [] filter = 4 -> PaethPredictor(left, up, upLeft)

\* Each row has the filter whose differences are smallest, or the one asked for.
FilterRows(data, width, height, opt) ==
  LET bpp == BppOf[opt.colorType] * (IF opt.bitDepth = 16 THEN 2 ELSE 1)
      row == width * bpp
      At(y, x) == IF y < 0 \/ x < 0 THEN 0 ELSE data[y * row + x + 1]
      Line(filter, y) == [i \in 1 .. row |-> At(y, i - 1) - Predicted(filter, At(y, i - 1 - bpp), At(y - 1, i - 1), At(y - 1, i - 1 - bpp))]
      Size(filter, y) == LET line == Line(filter, y) IN Total([i \in 1 .. row |-> Abs(line[i])])
      Best(y) == LET size == [f \in 0 .. 4 |-> Size(f, y)]
                     least == Min({size[f] : f \in 0 .. 4})
                 IN Min({f \in 0 .. 4 : size[f] = least})
      Filtered(filter, y) == LET line == Line(filter, y) IN <<filter>> \o [i \in 1 .. row |-> line[i] % 256]
  IN Joined([y \in 1 .. height |-> Filtered(IF opt.filterType = -1 THEN Best(y - 1) ELSE opt.filterType, y - 1)])

Chunk(type, data) == Word(Len(data)) \o type \o data \o Crc(type \o data)
PackIHDR(width, height, opt) == Chunk(IHDR, Word(width) \o Word(height) \o <<opt.bitDepth, opt.colorType, 0, 0, 0>>)
PackGAMA(gamma) == IF gamma = 0 THEN <<>> ELSE Chunk(GAMA, Word(gamma))
PngBytes(width, height, opt, compressed) ==
  Signature \o PackIHDR(width, height, opt) \o PackGAMA(opt.gamma) \o Chunk(IDAT, compressed) \o Chunk(IEND, <<>>)

-----------------------------------------------------------------------------
(* The parser. It has asked for n bytes for the step named in then: with less *)
(* it takes what there is. Nothing is asked for after an error.               *)

NewParser(file) ==
  [file |-> file, at |-> 0, n |-> 8, less |-> FALSE, then |-> "signature", header |-> Nothing, palette |-> <<>>,
   transColor |-> Nothing, gamma |-> 0, ended |-> FALSE, sum |-> <<>>, left |-> 0, idat |-> <<>>, err |-> FALSE]

Unread(p)   == Len(p.file) - p.at
CanRead(p)  == p.then # "nothing" /\ Unread(p) > 0 /\ (Unread(p) >= p.n \/ p.less)
Ask(p, n, then)  == [p EXCEPT !.n = n, !.less = FALSE, !.then = then]
Fail(p)     == [p EXCEPT !.err = TRUE, !.then = "nothing"]
NextChunk(p)     == Ask(p, 8, "begin")
ChunkEnd(p, data) == Ask([p EXCEPT !.sum = @ \o data], 4, "end")

ParseSignature(p, data) == IF data # Signature THEN Fail(p) ELSE NextChunk(p)
ReadIDAT(p, n) == [p EXCEPT !.n = n, !.less = n > 0, !.left = n, !.then = "IDAT"]
ParseChunkBegin(p, data) ==
  LET n    == WordAt(data, 1)
      type == SubSeq(data, 5, 8)
      q    == [p EXCEPT !.sum = type]
      ancillary == Bits(type[1], 8)[6] = 1
  IN CASE p.header = Nothing /\ type # IHDR -> Fail(p)
       [] type = IHDR -> Ask(q, n, "IHDR")
       [] p.header # Nothing /\ type = PLTE -> Ask(q, n, "PLTE")
       [] p.header # Nothing /\ type = TRNS -> Ask(q, n, "tRNS")
       [] p.header # Nothing /\ type = GAMA -> Ask(q, n, "gAMA")
       [] p.header # Nothing /\ type = IDAT -> ReadIDAT(q, n)
       [] p.header # Nothing /\ type = IEND -> Ask(q, n, "IEND")
       [] OTHER -> IF ancillary THEN Ask(q, n + 4, "skip") ELSE Fail(q)
\* Mutant of ParseChunkEnd: the checksum is read and not looked at.
ParseChunkEndUnchecked(p, data) == IF p.ended THEN [p EXCEPT !.then = "nothing"] ELSE NextChunk(p)
ParseChunkEnd(p, data) ==
  IF data # Crc(p.sum) THEN Fail(p) ELSE IF p.ended THEN [p EXCEPT !.then = "nothing"] ELSE NextChunk(p)

ParseIHDR(p, data) ==
  LET At(i) == IF i > Len(data) THEN -1 ELSE data[i]
      header == [width |-> WordAt(data, 1), height |-> WordAt(data, 5), depth |-> data[9], colorType |-> data[10],
                 interlace |-> data[13] = 1]
  IN IF Len(data) < 8 \/ At(9) \notin {1, 2, 4, 8, 16} \/ At(10) \notin DOMAIN BppOf
        \/ At(11) # 0 \/ At(12) # 0 \/ At(13) \notin {0, 1}
     THEN Fail(p)
     ELSE ChunkEnd([p EXCEPT !.header = header], data)
ParsePLTE(p, data) ==
  ChunkEnd([p EXCEPT !.palette = @ \o [i \in 1 .. Len(data) \div 3 |-> SubSeq(data, 3 * i - 2, 3 * i) \o <<255>>]], data)
ParseTRNS(p, data) ==
  LET type  == p.header.colorType
      Clear == [i \in DOMAIN p.palette |-> IF i > Len(data) THEN p.palette[i] ELSE [p.palette[i] EXCEPT ![4] = data[i]]]
      Colours(n) == [i \in 1 .. n |-> Sample16(data, 2 * i - 1)]
  IN CASE type = 3 -> IF p.palette = <<>> \/ Len(data) > Len(p.palette) THEN Fail(p)
                      ELSE ChunkEnd([p EXCEPT !.palette = Clear], data)
       [] type \in {0, 2} -> IF Len(data) < 2 * BppOf[type] THEN Fail(p)
                             ELSE ChunkEnd([p EXCEPT !.transColor = Colours(BppOf[type])], data)
       [] OTHER -> ChunkEnd(p, data)
ParseGAMA(p, data) == IF Len(data) < 4 THEN Fail(p) ELSE ChunkEnd([p EXCEPT !.gamma = WordAt(data, 1)], data)
ParseIDAT(p, data) ==
  LET q == [p EXCEPT !.idat = @ \o data, !.sum = @ \o data]
  IN IF p.header.colorType = 3 /\ p.palette = <<>> THEN Fail(p)
     ELSE IF p.left > Len(data) THEN ReadIDAT(q, p.left - Len(data)) ELSE ChunkEnd(q, <<>>)
ParseIEND(p, data) == ChunkEnd([p EXCEPT !.ended = TRUE], data)

\* A read that can be served, and the step it was for.
ServeRead(p) ==
  LET n    == IF Unread(p) < p.n THEN Unread(p) ELSE p.n
      data == SubSeq(p.file, p.at + 1, p.at + n)
      q    == [p EXCEPT !.at = @ + n]
  IN CASE p.then = "signature" -> ParseSignature(q, data)
       [] p.then = "begin"     -> ParseChunkBegin(q, data)
       [] p.then = "IHDR"      -> ParseIHDR(q, data)
       [] p.then = "PLTE"      -> ParsePLTE(q, data)
       [] p.then = "tRNS"      -> ParseTRNS(q, data)
       [] p.then = "gAMA"      -> ParseGAMA(q, data)
       [] p.then = "IDAT"      -> ParseIDAT(q, data)
       [] p.then = "IEND"      -> ParseIEND(q, data)
       [] p.then = "skip"      -> NextChunk(q)
       [] p.then = "end"       -> ParseChunkEnd(q, data)

-----------------------------------------------------------------------------
(* The picture. An interlaced one comes as up to seven smaller ones, which    *)
(* have every eighth column and row from these on.                            *)

PassX == <<<<0>>, <<4>>, <<0, 4>>, <<2, 6>>, <<0, 2, 4, 6>>, <<1, 3, 5, 7>>, <<0, 1, 2, 3, 4, 5, 6, 7>>>>
PassY == <<<<0>>, <<0>>, <<4>>, <<0, 4>>, <<2, 6>>, <<0, 2, 4, 6>>, <<1, 3, 5, 7>>>>
PassSize(n, from) == (n \div 8) * Len(from) + Len(SelectSeq(from, LAMBDA i : i < n % 8))
ImagePasses(h) ==
  IF ~h.interlace THEN <<[width |-> h.width, height |-> h.height, xs |-> <<0>>, ys |-> <<0>>, step |-> 1]>>
  ELSE SelectSeq([i \in 1 .. 7 |-> [width |-> PassSize(h.width, PassX[i]), height |-> PassSize(h.height, PassY[i]),
                                    xs |-> PassX[i], ys |-> PassY[i], step |-> 8]],
                 LAMBDA pass : pass.width > 0 /\ pass.height > 0)
Outer(k, from, step) == (k \div Len(from)) * step + from[(k % Len(from)) + 1]

\* The bytes of n pixels, the last of them filled up.
ByteWidth(h, n) == (n * BppOf[h.colorType] * h.depth + 7) \div 8
XComparison(h)  == IF h.depth < 8 THEN 1 ELSE BppOf[h.colorType] * (h.depth \div 8)

\* The rows, as many as the data have, without their filters: what a byte was told by comes from the
\* bytes before it and from the row above in its own small picture.
ReverseLine(h, raw, above) ==
  LET back == XComparison(h)
      Up(x) == IF x < 1 \/ above = <<>> THEN 0 ELSE above[x]
      Line[x \in 1 .. Len(raw) - 1] ==
        LET left == IF x > back THEN Line[x - back] ELSE 0
        IN (raw[x + 1] + Predicted(raw[1], left, Up(x), Up(x - back))) % 256
  IN [x \in 1 .. Len(raw) - 1 |-> Line[x]]
RECURSIVE ReverseRows(_, _, _, _, _)
ReverseRows(h, passes, y, data, above) ==
  LET row  == ByteWidth(h, passes[1].width) + 1
      raw  == SubSeq(data, 1, row)
      line == ReverseLine(h, raw, above)
      rest == IF y = passes[1].height THEN ReverseRows(h, Tail(passes), 1, SubSeq(data, row + 1, Len(data)), <<>>)
              ELSE ReverseRows(h, passes, y + 1, SubSeq(data, row + 1, Len(data)), line)
  IN IF passes = <<>> \/ Len(data) < row THEN <<>>
     ELSE IF data[1] > 4 THEN Refused
     ELSE IF rest = Refused THEN Refused ELSE <<line>> \o rest

\* The samples of the pixels of a row.
SamplesOf(h, line, n) ==
  LET per == 8 \div h.depth
      Part(i) == (line[i \div per + 1] \div 2 ^ (8 - h.depth * ((i % per) + 1))) % 2 ^ h.depth
  IN [i \in 1 .. n |-> CASE h.depth = 8 -> line[i] [] h.depth = 16 -> Sample16(line, 2 * i - 1) [] OTHER -> Part(i - 1)]
\* A pixel as red, green, blue and alpha.
PixelOf(h, s) ==
  CASE BppOf[h.colorType] = 1 -> <<s[1], s[1], s[1], 2 ^ h.depth - 1>>
    [] BppOf[h.colorType] = 2 -> <<s[1], s[1], s[1], s[2]>>
    [] BppOf[h.colorType] = 3 -> s \o <<2 ^ h.depth - 1>>
    [] BppOf[h.colorType] = 4 -> s
DataToBitMap(h, lines) ==
  LET passes == ImagePasses(h)
      bpp    == BppOf[h.colorType]
      Above[i \in 1 .. Len(passes)] == IF i = 1 THEN 0 ELSE Above[i - 1] + passes[i - 1].height
      At(X, Y) == CHOOSE at \in {<<i, x, y>> : i \in DOMAIN passes, x \in 0 .. h.width - 1, y \in 0 .. h.height - 1} :
                    /\ at[2] < passes[at[1]].width /\ at[3] < passes[at[1]].height
                    /\ Outer(at[2], passes[at[1]].xs, passes[at[1]].step) = X
                    /\ Outer(at[3], passes[at[1]].ys, passes[at[1]].step) = Y
      Pixel(at) == LET samples == SamplesOf(h, lines[Above[at[1]] + at[3] + 1], passes[at[1]].width * bpp)
                   IN PixelOf(h, SubSeq(samples, at[2] * bpp + 1, (at[2] + 1) * bpp))
  IN [k \in 1 .. h.width * h.height |-> Pixel(At((k - 1) % h.width, (k - 1) \div h.width))]

\* The colours of a palette, the transparent colour, and all samples as bytes.
ScaleDepth(h, pixel) == [i \in 1 .. 4 |-> (2 * pixel[i] * 255 + 2 ^ h.depth - 1) \div (2 * (2 ^ h.depth - 1))]
FormatNormaliser(p, pixels) ==
  LET h == p.header
      IsClear(pixel) == p.transColor # Nothing /\ \A i \in DOMAIN p.transColor : p.transColor[i] = pixel[i]
      Clear(pixel)   == IF IsClear(pixel) THEN <<0, 0, 0, 0>> ELSE pixel
  IN IF h.colorType = 3
     THEN IF \E k \in DOMAIN pixels : pixels[k][1] >= Len(p.palette) THEN Refused
          ELSE [k \in DOMAIN pixels |-> p.palette[pixels[k][1] + 1]]
     ELSE [k \in DOMAIN pixels |-> ScaleDepth(h, Clear(pixels[k]))]

\* The picture of a file from its inflated data. Every pixel must be there, and no more.
Picture(p, data) ==
  LET passes == ImagePasses(p.header)
      lines  == ReverseRows(p.header, passes, 1, data, <<>>)
  IN IF data = <<>> \/ lines = Refused THEN Refused
     ELSE IF Len(lines) # Total([i \in DOMAIN passes |-> passes[i].height]) THEN Refused
     ELSE FormatNormaliser(p, DataToBitMap(p.header, lines))
=============================================================================
