--------------------------------- MODULE BZZ ---------------------------------
(* The compression of directories, outlines and texts of DjVu documents in    *)
(* static/lib/djvu/djvu.js: BZZEncoder sorts a block (Burrows-Wheeler), moves *)
(* each byte to the front of a list and codes its place in the list with the  *)
(* ZP coder; BZZDecoder goes the same way back. A block ends with a byte      *)
(* that marks its end and whose value is lost.                                *)
EXTENDS ZPCoder

CONSTANTS
  Freqs0, Freqs1,  \* the sizes from which on the estimates adapt more slowly
  BlockLimit       \* the largest block that is decoded

ASSUME SizesAssumption == Freqs0 \in Nat /\ Freqs1 \in Nat /\ Freqs0 <= Freqs1 /\ BlockLimit \in Nat

SizeBits == 24
Marker == 256  \* the place that stands for the end of the block

Raws(n, x) == [i \in 1 .. n |-> <<(x \div 2 ^ (n - i)) % 2, Raw>>]
BzzContext(k) == <<"bzz", k>>

\* How slowly the estimates adapt.
FShift(size) == IF size < Freqs0 THEN 0 ELSE IF size < Freqs1 THEN 1 ELSE 2

-----------------------------------------------------------------------------
(* The list of bytes, with the frequencies of its first four. *)

NewList == [mtf |-> [k \in 0 .. 255 |-> k], freq |-> [k \in 0 .. 3 |-> 0], fadd |-> 4, mtfno |-> 3]

\* The byte in place no moves to the front as far as its frequency allows.
MoveToFront(s, no, shift) ==
  LET grown == s.fadd + s.fadd \div 2 ^ shift
      scale == IF grown > 268435456 THEN 16777216 ELSE 1
      fadd  == grown \div scale
      freq  == [k \in 0 .. 3 |-> s.freq[k] \div scale]
      fc    == fadd + (IF no < 4 THEN freq[no] ELSE 0)
      from  == Least(no, 3)
      to    == CHOOSE k \in 0 .. from : /\ \A j \in k .. from - 1 : fc >= freq[j]
                                        /\ k = 0 \/ fc < freq[k - 1]
  IN [mtf   |-> [k \in 0 .. 255 |-> IF k = to THEN s.mtf[no]
                                    ELSE IF k \in to + 1 .. no THEN s.mtf[k - 1] ELSE s.mtf[k]],
      freq  |-> [k \in 0 .. 3 |-> IF k = to THEN fc
                                  ELSE IF k \in to + 1 .. from THEN freq[k - 1] ELSE freq[k]],
      fadd  |-> fadd, mtfno |-> no]

\* The same in the decoder, whose copy of the code is its own.
MoveToFrontDecoded(s, no, shift) == MoveToFront(s, no, shift)

-----------------------------------------------------------------------------
(* BZZEncoder *)

\* The ranges of places above 1: the context that tells one from the next and those of its bits.
Levels ==
  <<[first |-> 2, ctx |-> 6, bits |-> 1], [first |-> 4, ctx |-> 8, bits |-> 2],
    [first |-> 8, ctx |-> 12, bits |-> 3], [first |-> 16, ctx |-> 20, bits |-> 4],
    [first |-> 32, ctx |-> 36, bits |-> 5], [first |-> 64, ctx |-> 68, bits |-> 6],
    [first |-> 128, ctx |-> 132, bits |-> 7]>>

\* Mutant of SuffixBefore: the marker comes after every byte.
SuffixBeforeEnd(block, a, b) ==
  LET end == Len(block)
  IN \E i \in 0 .. end - 1 :
       /\ \A j \in 0 .. i - 1 : a + j # end /\ b + j # end /\ block[a + j] = block[b + j]
       /\ b + i = end \/ (a + i < end /\ b + i < end /\ block[a + i] < block[b + i])

\* blocksort: the order of the suffixes, where the marker comes before every byte.
SuffixBefore(block, a, b) ==
  LET end == Len(block)
  IN \E i \in 0 .. end - 1 :
       /\ \A j \in 0 .. i - 1 : a + j # end /\ b + j # end /\ block[a + j] = block[b + j]
       /\ a + i = end \/ (a + i < end /\ b + i < end /\ block[a + i] < block[b + i])

\* The byte before each suffix; the first suffix has none: it is where the marker goes.
BlockSort(block) ==
  LET offs == SortSeq([i \in DOMAIN block |-> i], LAMBDA a, b : SuffixBefore(block, a, b))
  IN [i \in DOMAIN block |-> IF offs[i] = 1 THEN Marker ELSE block[offs[i] - 1]]

\* encode_binary
BinarySymbols(ctx, n, x) ==
  [i \in 1 .. n |-> <<(x \div 2 ^ (n - i)) % 2,
                      BzzContext(ctx - 1 + 2 ^ (i - 1) + x \div 2 ^ (n - i + 1))>>]

\* The bits for a place, given that of the byte before.
PlaceSymbols(no, before) ==
  LET id == Least(before, 2)
      Level(l) == CASE no < l.first -> <<>>
                    [] no \in l.first .. 2 * l.first - 1 ->
                         <<<<1, BzzContext(l.ctx)>>>> \o BinarySymbols(l.ctx + 1, l.bits, no - l.first)
                    [] OTHER -> <<<<0, BzzContext(l.ctx)>>>>
  IN <<<<IF no = 0 THEN 1 ELSE 0, BzzContext(id)>>>>
     \o (IF no = 0 THEN <<>> ELSE <<<<IF no = 1 THEN 1 ELSE 0, BzzContext(3 + id)>>>>)
     \o FlattenSeq([i \in DOMAIN Levels |-> Level(Levels[i])])

SizeSymbols(size) ==
  Raws(SizeBits, size) \o CASE FShift(size) = 0 -> Raws(1, 0)
                            [] FShift(size) = 1 -> Raws(2, 2)
                            [] OTHER -> Raws(2, 3)

\* A step of encode: byte i of the sorted block.
ByteOut(s, sorted, i) ==
  LET no == IF sorted[i] = Marker THEN Marker
            ELSE CHOOSE k \in 0 .. 255 : s.mtf[k] = sorted[i]
  IN [symbols |-> PlaceSymbols(no, s.mtfno),
      list    |-> IF no = Marker THEN [s EXCEPT !.mtfno = Marker]
                  ELSE MoveToFront(s, no, FShift(Len(sorted)))]

-----------------------------------------------------------------------------
(* BZZDecoder *)

\* decode_raw, decode_binary: n bits without a context, or each in the context that the bits
\* before it choose among those from ctx on.
DecodeBits(d, n, ctx, bits) ==
  FoldInHalves(LAMBDA s, i : LET e == Decode(s.d, IF ctx = Raw THEN Raw ELSE BzzContext(ctx - 1 + s.n), bits)
                         IN [d |-> e, n |-> 2 * s.n + e.bit],
           [d |-> d, n |-> 1], [i \in 1 .. n |-> i])
DecodeRaw(d, n, bits) ==
  LET s == DecodeBits(d, n, Raw, bits) IN [d |-> s.d, n |-> s.n - 2 ^ n]
DecodeBinary(d, ctx, n, bits) ==
  LET s == DecodeBits(d, n, ctx, bits)
  IN [d |-> s.d, n |-> s.n - 2 ^ n]

\* A level that is tried after those before it did not have the place.
DecodeLevel(s, l, bits) ==
  LET d == Decode(s.d, BzzContext(l.ctx), bits)
      r == DecodeBinary(d, l.ctx + 1, l.bits, bits)
  IN IF s.n # Marker THEN s
     ELSE IF d.bit = 0 THEN [s EXCEPT !.d = d] ELSE [d |-> r.d, n |-> l.first + r.n]

DecodePlace(d, before, bits) ==
  LET id == Least(before, 2)
      d0 == Decode(d, BzzContext(id), bits)
      d1 == Decode(d0, BzzContext(3 + id), bits)
  IN IF d0.bit = 1 THEN [d |-> d0, n |-> 0]
     ELSE IF d1.bit = 1 THEN [d |-> d1, n |-> 1]
     ELSE FoldInHalves(LAMBDA s, l : DecodeLevel(s, l, bits), [d |-> d1, n |-> Marker], Levels)

\* The size and fshift; a size of 0 ends the stream.
DecodeSize(d, bits) ==
  LET size == DecodeRaw(d, SizeBits, bits)
      one  == Decode(size.d, Raw, bits)
      two  == Decode(one, Raw, bits)
  IN CASE size.n = 0 -> [d |-> size.d, size |-> 0, shift |-> 0, failed |-> FALSE]
       [] size.n > BlockLimit -> [d |-> size.d, size |-> 0, shift |-> 0, failed |-> TRUE]
       [] OTHER -> [d |-> IF one.bit = 1 THEN two ELSE one, size |-> size.n,
                    shift |-> one.bit + (IF one.bit = 1 THEN two.bit ELSE 0), failed |-> FALSE]

\* A step of _decode: the byte in a place of the list.
ByteIn(s, no, shift) ==
  IF no = Marker THEN [byte |-> Marker, list |-> [s EXCEPT !.mtfno = Marker]]
  ELSE [byte |-> s.mtf[no], list |-> MoveToFrontDecoded(s, no, shift)]

\* The block before it was sorted, from its last byte on; nothing if it is corrupted.
Unsort(sorted) ==
  LET size  == Len(sorted)
      mark  == CHOOSE i \in DOMAIN sorted : sorted[i] = Marker
      Count(c) == Cardinality({i \in DOMAIN sorted : sorted[i] < c})
      Rank(i)  == Cardinality({k \in 1 .. i - 1 : sorted[k] = sorted[i]})
      end   == FoldInHalves(LAMBDA s, i : [text |-> <<sorted[s.j]>> \o s.text,
                                       j    |-> 2 + Count(sorted[s.j]) + Rank(s.j)],
                        [text |-> <<>>, j |-> 1], [i \in 1 .. size - 1 |-> i])
  IN IF Cardinality({i \in DOMAIN sorted : sorted[i] = Marker}) # 1 \/ sorted[1] = Marker
        \/ end.j # mark
     THEN <<>> ELSE end.text
=============================================================================
