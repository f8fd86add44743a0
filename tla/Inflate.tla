-------------------------------- MODULE Inflate --------------------------------
(* The reader of compressed data of the library bundled in                    *)
(* static/lib/djvu/djvu.js (pako's inflate.js, inffast.js and inftrees.js),   *)
(* called with Z_FINISH. A call gives as many bytes as there is room for, and *)
(* the next one goes on from there, in the middle of a code as well. What the *)
(* calls before have given stays in the window, which is a ring.              *)
EXTENDS Deflate

CodeOrder == <<16, 17, 18, 0, 8, 7, 9, 6, 10, 5, 11, 4, 12, 3, 13, 2, 14, 1, 15>>
LBase == <<3, 4, 5, 6, 7, 8, 9, 10, 11, 13, 15, 17, 19, 23, 27, 31, 35, 43, 51, 59, 67, 83, 99, 115,
           131, 163, 195, 227, 258>>
LExt  == <<0, 0, 0, 0, 0, 0, 0, 0, 1, 1, 1, 1, 2, 2, 2, 2, 3, 3, 3, 3, 4, 4, 4, 4, 5, 5, 5, 5, 0>>
DBase == <<1, 2, 3, 4, 5, 7, 9, 13, 17, 25, 33, 49, 65, 97, 129, 193, 257, 385, 513, 769, 1025, 1537,
           2049, 3073, 4097, 6145, 8193, 12289, 16385, 24577>>
DExt  == <<0, 0, 0, 0, 1, 1, 2, 2, 3, 3, 4, 4, 5, 5, 6, 6, 7, 7, 8, 8, 9, 9, 10, 10, 11, 11, 12, 12, 13, 13>>

-----------------------------------------------------------------------------
(* The codes of a block, from their lengths: the symbols with codes of each   *)
(* length, and the first of those codes.                                      *)

Table(lens) ==
  LET Of(b) == SelectSeq([i \in 1 .. Len(lens) |-> i - 1], LAMBDA n : lens[n + 1] = b)
      of   == [b \in 1 .. 15 |-> Of(b)]
      Left[b \in 0 .. 15] == IF b = 0 THEN 2 ^ 15 ELSE Left[b - 1] - Len(of[b]) * 2 ^ (15 - b)
  IN [of |-> of, first |-> [b \in 1 .. 15 |-> (2 ^ 15 - Left[b - 1]) \div 2 ^ (15 - b)],
      max |-> Max({0} \union {b \in 1 .. 15 : of[b] # <<>>}), left |-> Left[15]]
\* Lengths that no set of codes has are refused, and so are those that leave some codes unused,
\* unless there is one code of one bit or none at all.
IsRefused(t, kind) == t.max > 0 /\ (t.left < 0 \/ (t.left > 0 /\ (kind = "codes" \/ t.max # 1)))

\* The symbol whose code begins the bits, with the length of the code: 0 while bits are missing.
\* A bit no code begins with is one of its own, the symbol -1.
Lookup(t, bits) ==
  LET most == IF Len(bits) < 15 THEN Len(bits) ELSE 15
      V[n \in 0 .. most] == IF n = 0 THEN 0 ELSE 2 * V[n - 1] + bits[n]
      hits == {n \in 1 .. most : V[n] - t.first[n] \in 0 .. Len(t.of[n]) - 1}
      n    == Min(hits)
  IN CASE hits # {}                -> [n |-> n, sym |-> t.of[n][V[n] - t.first[n] + 1]]
       [] most > 0 /\ t.max <= 1   -> [n |-> 1, sym |-> -1]
       [] OTHER                    -> [n |-> 0, sym |-> -1]

FixedL == Table([i \in 1 .. 288 |-> CASE i <= 144 -> 8 [] i <= 256 -> 9 [] i <= 280 -> 7 [] OTHER -> 8])
FixedD == Table([i \in 1 .. 32 |-> 5])

-----------------------------------------------------------------------------
(* The state: the bits that were taken and not used yet, what the call has    *)
(* given and how much of that is in the checksum, and the step it is at.      *)

NewInflate(input) ==
  [mode |-> "HEAD", last |-> FALSE, hold |-> <<>>, input |-> input, nextIn |-> 0, room |-> 0, out |-> <<>>,
   check |-> <<1, 0>>, checked |-> 0, dmax |-> 32768, length |-> 0, offset |-> 0, extra |-> 0,
   lens |-> <<>>, nlen |-> 0, ndist |-> 0, ncode |-> 0, lcode |-> FixedL, dcode |-> FixedD,
   window |-> <<>>, wsize |-> 0, whave |-> 0, wnext |-> 0, fast |-> FALSE, leave |-> TRUE, ret |-> "ok"]

Have(z) == Len(z.input) - z.nextIn
Left(z) == z.room - Len(z.out)
Leave(z) == [z EXCEPT !.leave = TRUE]
Bad(z)   == [z EXCEPT !.mode = "BAD"]
Goto(z, mode) == [z EXCEPT !.mode = mode]

\* Bytes taken from the input until there are n bits, or nothing is left.
PullBytes(z, k) ==
  [z EXCEPT !.hold = @ \o Joined([i \in 1 .. k |-> Bits(z.input[z.nextIn + i], 8)]), !.nextIn = @ + k]
Pull(z, n) ==
  LET k == (n - Len(z.hold) + 7) \div 8
  IN IF n <= Len(z.hold) THEN z ELSE PullBytes(z, IF k > Have(z) THEN Have(z) ELSE k)
Needing(z, n, Then(_)) == LET y == Pull(z, n) IN IF Len(y.hold) < n THEN Leave(y) ELSE Then(y)

Val(z, from, n) == Total([i \in 1 .. n |-> z.hold[from + i] * 2 ^ (i - 1)])
Drop(z, n)    == [z EXCEPT !.hold = SubSeq(@, n + 1, Len(@))]
ToByte(z)     == Drop(z, Len(z.hold) % 8)

RECURSIVE WithCode(_, _)
WithCode(z, t) ==
  CASE Lookup(t, z.hold).n > 0 -> z [] Have(z) = 0 -> Leave(z) [] OTHER -> WithCode(PullBytes(z, 1), t)

\* The last bytes given, in this call or before it.
InWindow(z, back) == z.window[(z.wnext - back + z.wsize) % z.wsize]
Past(z, n) ==
  LET before == n - Len(z.out)
  IN IF before <= 0 THEN SubSeq(z.out, 1 - before, Len(z.out))
     ELSE [i \in 1 .. before |-> InWindow(z, before - i + 1)] \o z.out
Copied(z, n) ==
  LET past == Past(z, z.offset)
  IN [z EXCEPT !.out = @ \o [i \in 1 .. n |-> past[((i - 1) % z.offset) + 1]], !.length = @ - n]

-----------------------------------------------------------------------------
(* The steps of a call, each named for the mode it is taken in.               *)

ZlibHead(z) ==
  Needing(z, 16, LAMBDA y :
    LET h == 256 * Val(y, 0, 8) + Val(y, 8, 8)
        t == [Drop(y, 16) EXCEPT !.dmax = 2 ^ (Val(y, 4, 4) + 8), !.check = <<1, 0>>]
    IN IF h % 31 # 0 \/ Val(y, 0, 4) # 8 \/ Val(y, 4, 4) + 8 > WBits THEN Bad(y)
       ELSE Goto(t, IF Val(y, 13, 1) = 1 THEN "DICTID" ELSE "TYPE"))
\* A stream for a dictionary: nobody has one.
DictId(z) == Needing(z, 32, LAMBDA y : [Drop(y, 32) EXCEPT !.mode = "DICT"])
Dict(z)   == [z EXCEPT !.leave = TRUE, !.ret = "need dict"]

Type(z) ==
  IF z.last THEN Goto(ToByte(z), "CHECK")
  ELSE Needing(z, 3, LAMBDA y :
         LET t == [Drop(y, 3) EXCEPT !.last = (Val(y, 0, 1) = 1)]
         IN CASE Val(y, 1, 2) = 0 -> Goto(t, "STORED")
              [] Val(y, 1, 2) = 1 -> [t EXCEPT !.mode = "LEN", !.lcode = FixedL, !.dcode = FixedD]
              [] Val(y, 1, 2) = 2 -> Goto(t, "TABLE")
              [] OTHER            -> Bad(t))

Stored(z) ==
  Needing(ToByte(z), 32, LAMBDA y :
    IF Val(y, 0, 16) + Val(y, 16, 16) # 65535 THEN Bad(y)
    ELSE [Drop(y, 32) EXCEPT !.length = Val(y, 0, 16), !.mode = "COPY"])
CopyStored(z) ==
  LET n == Min({z.length, Have(z), Left(z)})
  IN IF z.length = 0 THEN Goto(z, "TYPE")
     ELSE IF n = 0 THEN Leave(z)
     ELSE [z EXCEPT !.out = @ \o SubSeq(z.input, z.nextIn + 1, z.nextIn + n), !.nextIn = @ + n, !.length = @ - n]

TableSizes(z) ==
  Needing(z, 14, LAMBDA y :
    LET t == [Drop(y, 14) EXCEPT !.nlen = Val(y, 0, 5) + 257, !.ndist = Val(y, 5, 5) + 1, !.ncode = Val(y, 10, 4) + 4,
                                 !.lens = <<>>]
    IN IF t.nlen > 286 \/ t.ndist > 30 THEN Bad(t) ELSE Goto(t, "LENLENS"))
LenLens(z) ==
  LET At(c) == CHOOSE i \in 1 .. 19 : CodeOrder[i] = c
      lens  == [c \in 1 .. 19 |-> IF At(c - 1) <= z.ncode THEN z.lens[At(c - 1)] ELSE 0]
  IN IF Len(z.lens) < z.ncode
     THEN Needing(z, 3, LAMBDA y : [Drop(y, 3) EXCEPT !.lens = Append(@, Val(y, 0, 3))])
     ELSE IF IsRefused(Table(lens), "codes") THEN Bad(z)
     ELSE [z EXCEPT !.lcode = Table(lens), !.lens = <<>>, !.mode = "CODELENS"]

\* A length of a code, or so many times the one before, or so many zeros.
Repeated(z, code, extra, base, len) ==
  Needing(z, code + extra, LAMBDA y :
    LET n == base + Val(y, code, extra)
    IN IF Len(z.lens) + n > z.nlen + z.ndist THEN Bad(y)
       ELSE [Drop(y, code + extra) EXCEPT !.lens = @ \o [i \in 1 .. n |-> len]])
OneLength(z) ==
  LET y == WithCode(z, z.lcode)
      x == Lookup(z.lcode, y.hold)
  IN CASE y.leave -> y
       [] ~y.leave /\ x.sym < 16 -> [Drop(y, x.n) EXCEPT !.lens = Append(@, IF x.sym = -1 THEN 0 ELSE x.sym)]
       [] ~y.leave /\ x.sym = 16 -> IF z.lens = <<>> THEN Needing(y, x.n + 2, Bad)
                                    ELSE Repeated(y, x.n, 2, 3, z.lens[Len(z.lens)])
       [] ~y.leave /\ x.sym = 17 -> Repeated(y, x.n, 3, 3, 0)
       [] ~y.leave /\ x.sym = 18 -> Repeated(y, x.n, 7, 11, 0)
CodeLens(z) ==
  LET l == Table(SubSeq(z.lens, 1, z.nlen))
      d == Table(SubSeq(z.lens, z.nlen + 1, z.nlen + z.ndist))
  IN IF Len(z.lens) < z.nlen + z.ndist THEN OneLength(z)
     ELSE IF z.lens[EndBlock + 1] = 0 \/ IsRefused(l, "lens") \/ IsRefused(d, "dists") THEN Bad(z)
     ELSE [z EXCEPT !.lcode = l, !.dcode = d, !.mode = "LEN"]

\* The symbols: a byte, the end of the block, or the length of a match.
AfterLength(y, x) ==
  CASE x.sym = -1 \/ x.sym > 285 -> Bad(y)
    [] x.sym = EndBlock          -> Goto(y, "TYPE")
    [] x.sym \in 0 .. 255        -> [y EXCEPT !.mode = "LIT", !.length = x.sym]
    [] OTHER                     -> [y EXCEPT !.mode = "LENEXT", !.length = LBase[x.sym - 256], !.extra = LExt[x.sym - 256]]
AfterDistance(y, x) ==
  IF x.sym = -1 \/ x.sym > 29 THEN Bad(y)
  ELSE [y EXCEPT !.mode = "DISTEXT", !.offset = DBase[x.sym + 1], !.extra = DExt[x.sym + 1]]
CodeOf(z, t) ==
  LET y == WithCode(z, t)
      x == Lookup(t, y.hold)
  IN IF y.leave THEN y
     ELSE IF z.mode = "LEN" THEN AfterLength(Drop(y, x.n), x) ELSE AfterDistance(Drop(y, x.n), x)
LenExt(z)  == Needing(z, z.extra, LAMBDA y : [Drop(y, z.extra) EXCEPT !.length = @ + Val(y, 0, z.extra), !.mode = "DIST"])
DistExt(z) ==
  Needing(z, z.extra, LAMBDA y :
    LET t == [Drop(y, z.extra) EXCEPT !.offset = @ + Val(y, 0, z.extra)]
    IN IF t.offset > t.dmax THEN Bad(t) ELSE Goto(t, "MATCH"))
Match(z) ==
  LET t == Copied(z, IF z.length > Left(z) THEN Left(z) ELSE z.length)
  IN IF Left(z) = 0 THEN Leave(z)
     ELSE IF z.offset > Len(z.out) + z.whave THEN Bad(z)
     ELSE Goto(t, IF t.length = 0 THEN "LEN" ELSE "MATCH")
Lit(z) == IF Left(z) = 0 THEN Leave(z) ELSE [z EXCEPT !.out = Append(@, z.length), !.mode = "LEN"]

\* While there is plenty of input and of room, symbols are read without looking at either (inflate_fast):
\* two bytes are taken when there are less than 15 bits, and at the end what was not used goes back.
Plenty(z) == Have(z) >= 6 /\ Left(z) >= MaxMatch
TwoMore(z) == IF Len(z.hold) < 15 THEN PullBytes(z, 2) ELSE z
GiveBack(z) ==
  LET k == Len(z.hold) \div 8
  IN [z EXCEPT !.fast = FALSE, !.hold = SubSeq(@, 1, Len(@) - 8 * k), !.nextIn = @ - k]
FastMatch(z) ==
  LET l == LenExt(z)
      c == TwoMore(l)
      x == Lookup(c.dcode, c.hold)
      d == AfterDistance(Drop(c, x.n), x)
      e == IF d.mode = "BAD" THEN d ELSE DistExt(d)
  IN IF e.mode = "BAD" THEN e ELSE IF e.offset > Len(e.out) + e.whave THEN Bad(e) ELSE Goto(Copied(e, e.length), "LEN")
FastSymbol(z) ==
  LET y == TwoMore(z)
      x == Lookup(y.lcode, y.hold)
      t == AfterLength(Drop(y, x.n), x)
      u == CASE t.mode = "LIT" -> Lit(t) [] t.mode = "LENEXT" -> FastMatch(t) [] OTHER -> t
  IN IF u.mode = "LEN" /\ Plenty(u) THEN [u EXCEPT !.fast = TRUE] ELSE GiveBack(u)
Symbol(z) == IF Plenty(z) \/ z.fast THEN FastSymbol(z) ELSE CodeOf(z, z.lcode)

\* The checksum at the end is that of everything given.
Fresh(z) == SubSeq(z.out, z.checked + 1, Len(z.out))
Check(z) ==
  Needing(z, 32, LAMBDA y :
    LET t == [y EXCEPT !.check = Adler32(@, Fresh(y)), !.checked = Len(y.out)]
    IN IF [i \in 1 .. 4 |-> Val(y, 8 * i - 8, 8)] # AdlerBytes(t.check) THEN Bad(t) ELSE Goto(Drop(t, 32), "DONE"))

\* A step of a call: its steps go on until one of them leaves.
InflateStep(z) ==
  CASE z.mode = "HEAD"     -> ZlibHead(z)
    [] z.mode = "DICTID"   -> DictId(z)
    [] z.mode = "DICT"     -> Dict(z)
    [] z.mode = "TYPE"     -> Type(z)
    [] z.mode = "STORED"   -> Stored(z)
    [] z.mode = "COPY"     -> CopyStored(z)
    [] z.mode = "TABLE"    -> TableSizes(z)
    [] z.mode = "LENLENS"  -> LenLens(z)
    [] z.mode = "CODELENS" -> CodeLens(z)
    [] z.mode = "LEN"      -> Symbol(z)
    [] z.mode = "LENEXT"   -> LenExt(z)
    [] z.mode = "DIST"     -> CodeOf(z, z.dcode)
    [] z.mode = "DISTEXT"  -> DistExt(z)
    [] z.mode = "MATCH"    -> Match(z)
    [] z.mode = "LIT"      -> Lit(z)
    [] z.mode = "CHECK"    -> Check(z)
    [] z.mode = "DONE"     -> [Leave(z) EXCEPT !.ret = "stream end"]
    [] z.mode = "BAD"      -> [Leave(z) EXCEPT !.ret = "data error"]

-----------------------------------------------------------------------------
(* The two ends of a call.                                                    *)

CalledWith(z, room) == [z EXCEPT !.room = room, !.out = <<>>, !.checked = 0, !.leave = FALSE, !.ret = "ok"]

\* Mutant of UpdateWindow: bytes that go round the end of the ring leave its mark where it was.
UpdateWindowUnturned(z, bytes) ==
  LET old  == IF z.wsize = 0 THEN [i \in 0 .. WSize - 1 |-> 0] ELSE z.window
      copy == Len(bytes)
      Ago(i) == (i - z.wnext + WSize) % WSize
  IN [z EXCEPT !.wsize = WSize,
        !.window = IF copy >= WSize THEN [i \in 0 .. WSize - 1 |-> bytes[copy - WSize + i + 1]]
                   ELSE [i \in 0 .. WSize - 1 |-> IF Ago(i) < copy THEN bytes[Ago(i) + 1] ELSE old[i]],
        !.wnext = IF copy >= WSize THEN 0 ELSE IF @ + copy > WSize THEN @ ELSE (@ + copy) % WSize,
        !.whave = IF @ + copy > WSize THEN WSize ELSE @ + copy]
\* What a call has given goes into the window.
UpdateWindow(z, bytes) ==
  LET old  == IF z.wsize = 0 THEN [i \in 0 .. WSize - 1 |-> 0] ELSE z.window
      copy == Len(bytes)
      Ago(i) == (i - z.wnext + WSize) % WSize
  IN [z EXCEPT !.wsize = WSize,
        !.window = IF copy >= WSize THEN [i \in 0 .. WSize - 1 |-> bytes[copy - WSize + i + 1]]
                   ELSE [i \in 0 .. WSize - 1 |-> IF Ago(i) < copy THEN bytes[Ago(i) + 1] ELSE old[i]],
        !.wnext = IF copy >= WSize THEN 0 ELSE (@ + copy) % WSize,
        !.whave = IF @ + copy > WSize THEN WSize ELSE @ + copy]
Returned(z) ==
  LET t == [z EXCEPT !.check = Adler32(@, Fresh(z))]
  IN IF z.ret = "need dict" THEN z
     ELSE IF z.wsize # 0 \/ (Fresh(z) # <<>> /\ z.mode \notin {"CHECK", "DONE", "BAD"})
     THEN UpdateWindow(t, Fresh(z)) ELSE t
===============================================================================
