------------------------------ MODULE MCPngFiles -------------------------------
(* An instance of PngFiles for TLC: small pictures that take every way        *)
(* through the writer, and files of other programs that take the ways         *)
(* through the reader this writer's files do not.                             *)
EXTENDS PngFiles

Options(level, strategy, filterType, colorType, bitDepth, chunk) ==
  [level |-> level, strategy |-> strategy, filterType |-> filterType, colorType |-> colorType,
   inputColorType |-> 6, bitDepth |-> bitDepth, gamma |-> 45455, chunk |-> chunk]

\* A picture to write: its pixels, and what it is written with. A file without alpha shows it on white,
\* one without colour is written of a grey picture.
Grey(p)    == <<p[1], p[1], p[1], p[4]>>
OnGround(p) == [i \in 1 .. 4 |-> IF i = 4 THEN 255 ELSE ((255 - p[4]) * 255 + p[4] * p[i] + 127) \div 255]
Written(width, height, pixels, opt) ==
  LET given == [k \in DOMAIN pixels |-> IF opt.colorType \in {0, 4} THEN Grey(pixels[k]) ELSE pixels[k]]
      all   == Joined(given)
  IN [width |-> width, height |-> height, opt |-> opt, file |-> Nothing,
      picture |-> IF opt.colorType \in {0, 2} THEN [k \in DOMAIN given |-> OnGround(given[k])] ELSE given,
      samples |-> IF opt.bitDepth = 16 THEN [i \in DOMAIN all |-> 257 * all[i]] ELSE all]

Spotted(n) == [k \in 1 .. n |-> <<(k * k) % 251, (7 * k) % 256, (k * 100) % 256, (k * 60) % 256>>]
Clear(n)   == [k \in 1 .. n |-> <<(k * k) % 251, (7 * k) % 256, (k * 100) % 256, 255 * (k % 2)>>]
Plain(n)   == [k \in 1 .. n |-> IF k % 50 = 7 THEN <<1, 2, 3, 4>> ELSE <<9, 9, 9, 9>>]
\* Bytes as often as the Fibonacci numbers: their codes would be longer than MaxBits.
Fib[n \in 1 .. 11] == IF n <= 2 THEN 1 ELSE Fib[n - 1] + Fib[n - 2]
UpTo[n \in 0 .. 11] == IF n = 0 THEN 0 ELSE UpTo[n - 1] + Fib[n]
FibByte(i) == CHOOSE n \in 1 .. 11 : UpTo[n - 1] < i /\ i <= UpTo[n]
Uneven == [k \in 1 .. 58 |-> [i \in 1 .. 4 |-> FibByte(((37 * (4 * k + i)) % 232) + 1)]]

MCWritten ==
  { Written(2, 2, IF d = 8 THEN Spotted(4) ELSE Clear(4), Options(9, "rle", -1, c, d, 64)) : c \in {0, 2, 4, 6}, d \in {8, 16} }
  \union { Written(3, 3, Spotted(9), Options(9, "huff", f, 6, 8, 64)) : f \in 0 .. 4 }
  \union { Written(5, 4, Spotted(20), Options(0, "rle", -1, 6, 8, 80)),
           Written(29, 2, Uneven, Options(9, "huff", 0, 6, 8, 1024)),
           Written(20, 13, Plain(260), Options(9, "rle", 0, 6, 8, 1024)) }

-----------------------------------------------------------------------------
(* Files of other programs.                                                   *)

Stream(header, blocks, raw) ==
  LET bits == Joined(blocks)
      fill == (8 - (Len(bits) % 8)) % 8
  IN header \o Bytes8(bits \o [i \in 1 .. fill |-> 0]) \o AdlerBytes(Adler32(<<1, 0>>, raw))
Fixed(tokens) == <<1, 1, 0>> \o CompressBlock(tokens, StaticL, StaticD)
Own(tokens)   == LET t == BlockTrees(tokens) IN <<1, 0, 1>> \o SendAllTrees(t) \o CompressBlock(tokens, t.l.codes, t.d.codes)
\* A stored block at the start of the bits, and not the last one.
StoredFirst(raw) ==
  [i \in 1 .. 8 |-> 0] \o Bits(Len(raw), 16) \o Bits(65535 - Len(raw), 16) \o Joined([i \in DOMAIN raw |-> Bits(raw[i], 8)])
Literals(raw) == [i \in DOMAIN raw |-> <<0, raw[i]>>]

HeaderOf(width, height, depth, colorType, interlace) ==
  Signature \o Chunk(IHDR, Word(width) \o Word(height) \o <<depth, colorType, 0, 0, interlace>>)
Foreign(name, head, chunks, stream, pixels) ==
  [name |-> name, file |-> head \o Joined(chunks) \o Chunk(IDAT, stream) \o Chunk(IEND, <<>>), picture |-> pixels]

\* Two rows of a palette's colours, the third of them with an alpha.
FourColours == Chunk(PLTE, <<1, 1, 1, 2, 2, 2, 3, 3, 3>>)
PaletteRows == <<0, 16 * 0 + 1, 16 * 2, 0, 16 * 2 + 1, 0>>
Palette(name, chunks, rows, pixels) ==
  Foreign(name, HeaderOf(3, 2, 4, 3, 0), chunks, Stream(ZlibHeader, <<StoredFirst(SubSeq(rows, 1, 3)), Fixed(Literals(SubSeq(rows, 4, 6)))>>, rows),
          pixels)
PalettePixels == <<<<1, 1, 1, 200>>, <<2, 2, 2, 255>>, <<3, 3, 3, 255>>, <<3, 3, 3, 255>>, <<2, 2, 2, 255>>, <<1, 1, 1, 200>>>>

\* Grey of two bits, one of them clear; and colours of sixteen bits, one of them clear.
GreyRows == <<0, 16 * 1 + 4 * 2 + 3 + 64 * 0>>
GreyFile ==
  Foreign("grey", HeaderOf(4, 1, 2, 0, 0), <<Chunk(TRNS, <<0, 2>>)>>, Stream(ZlibHeader, <<Fixed(Literals(GreyRows))>>, GreyRows),
          <<<<0, 0, 0, 255>>, <<85, 85, 85, 255>>, <<0, 0, 0, 0>>, <<255, 255, 255, 255>>>>)
WideRows == <<0, 1, 2, 3, 4, 5, 6, 255, 255, 128, 0, 0, 0>>
WideFile ==
  Foreign("wide", HeaderOf(2, 1, 16, 2, 0), <<Chunk(TRNS, <<1, 2, 3, 4, 5, 6>>)>>, Stream(ZlibHeader, <<Own(Literals(WideRows))>>, WideRows),
          <<<<0, 0, 0, 0>>, <<255, 128, 0, 255>>>>)

\* An interlaced picture of 8 x 17 pixels, each row of a pass of one colour: its data are told again
\* from as far back as the window goes.
Rows(i) == 2 * Len(PassY[i]) + (IF PassY[i][1] = 0 THEN 1 ELSE 0)
Colour(i) == <<i, 10 * i, 20 * i, 255>>
Repeat(pixel, n) == [k \in 1 .. 4 * n |-> pixel[((k - 1) % 4) + 1]]
PassRaw(i) == Joined([y \in 1 .. Rows(i) |-> <<0>> \o Repeat(Colour(i), Len(PassX[i]))])
InterlacedRaw == Joined([i \in 1 .. 7 |-> PassRaw(i)])
PassOf(x, y) == CHOOSE i \in 1 .. 7 : x % 8 \in ToSet(PassX[i]) /\ y % 8 \in ToSet(PassY[i])
InterlacedPixels == [k \in 1 .. 136 |-> Colour(PassOf((k - 1) % 8, (k - 1) \div 8))]
\* Matches as a good writer finds them: the longest one, from the farthest place it is at.
RECURSIVE Tokens(_, _)
Tokens(raw, at) ==
  LET Agrees(d, n) == \A j \in 1 .. n : raw[at + j] = raw[at + j - d]
      most == IF Len(raw) - at < 40 THEN Len(raw) - at ELSE 40
      far  == {d \in 1 .. (IF at > 500 THEN 500 ELSE at) : most >= MinMatch /\ Agrees(d, MinMatch)}
      d    == Max(far)
      n    == Max({n \in MinMatch .. most : Agrees(d, n)})
  IN IF at = Len(raw) THEN <<>>
     ELSE IF far = {} THEN <<<<0, raw[at + 1]>>>> \o Tokens(raw, at + 1)
     ELSE <<<<d, n - MinMatch>>>> \o Tokens(raw, at + n)
Interlaced(name, kind(_)) ==
  Foreign(name, HeaderOf(8, 17, 8, 6, 1), <<>>, Stream(ZlibHeader, <<kind(Tokens(InterlacedRaw, 0))>>, InterlacedRaw), InterlacedPixels)

\* Files of no picture.
Broken(name, chunks, stream) == Foreign(name, HeaderOf(4, 1, 2, 0, 0), chunks, stream, Refused)
MCForeign ==
  { Palette("palette", <<FourColours, Chunk(TRNS, <<200>>)>>, PaletteRows, PalettePixels),
    Palette("no such colour", <<FourColours>>, [PaletteRows EXCEPT ![3] = 16 * 3], Refused),
    Palette("no palette", <<>>, PaletteRows, Refused),
    Palette("too many alphas", <<FourColours, Chunk(TRNS, <<1, 2, 3, 4>>)>>, PaletteRows, Refused),
    GreyFile, WideFile, Interlaced("interlaced", Fixed), Interlaced("interlaced, own codes", Own),
    Broken("unknown chunk", <<Chunk(<<65, 66, 67, 68>>, <<>>)>>, <<>>),
    [Broken("skipped chunk", <<Chunk(<<97, 66, 67, 68>>, <<1, 2>>)>>, Stream(ZlibHeader, <<Fixed(Literals(GreyRows))>>, GreyRows))
       EXCEPT !.picture = <<<<0, 0, 0, 255>>, <<85, 85, 85, 255>>, <<170, 170, 170, 255>>, <<255, 255, 255, 255>>>>],
    Broken("dictionary", <<>>, <<ZlibHeader[1], 32 + 31 - ((256 * ZlibHeader[1] + 32) % 31), 0, 0, 0, 0>>),
    Broken("no such block", <<>>, Stream(ZlibHeader, <<<<1, 1, 1>>>>, <<>>)),
    Broken("no such filter", <<>>, Stream(ZlibHeader, <<Fixed(<<<<0, 5>>, <<0, 0>>>>)>>, <<5, 0>>)),
    Broken("too far back", <<>>, Stream(ZlibHeader, <<Fixed(<<<<0, 0>>, <<2, 0>>>>)>>, <<0, 0>>)),
    Broken("too much", <<>>, Stream(ZlibHeader, <<Fixed(Literals(<<0, 27>>))>>, <<0, 28>>)) }

\* The files that may come cut or changed: a written one, and one with a palette.
MCHarmed == { Written(2, 1, Spotted(2), Options(9, "rle", -1, 6, 8, 1024)),
              Palette("harmed", <<FourColours, Chunk(TRNS, <<200>>)>>, PaletteRows, PalettePixels) }
MCJobs == MCWritten \union MCHarmed \union MCForeign
===============================================================================
