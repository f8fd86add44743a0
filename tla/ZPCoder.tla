------------------------------- MODULE ZPCoder -------------------------------
(* The arithmetic coder of DjVu in static/lib/djvu/djvu.js: ZPEncoder turns   *)
(* bits, each with a context that adapts to it, into a string of bits, and    *)
(* ZPDecoder turns this back, given the same contexts in the same order.      *)
(*                                                                            *)
(* The string is one of bits: the bytes around them say nothing more, as both *)
(* the encoder fills the last byte and the decoder reads past it with ones.   *)
EXTENDS Integers, Sequences, SequencesExt

CONSTANTS
  Raw,  \* no context: even odds
  Iw    \* no context: the odds of IWencode and IWdecode

ASSUME OddsAssumption == Raw # Iw

\* FoldLeft, one half of the sequence after the other: TLC's evaluation of it is as deep as the
\* sequence is long. The value the second half starts from is computed before it starts.
FoldInHalves(Op(_, _), base, seq) ==
  LET RECURSIVE Fold(_, _, _)
      Fold(v, first, last) ==
        IF first > last THEN v
        ELSE IF first = last THEN Op(v, seq[first])
        ELSE LET middle == (first + last) \div 2
             IN CHOOSE w \in {Fold(u, middle + 1, last) : u \in {Fold(v, first, middle)}} : TRUE
  IN Fold(base, 1, Len(seq))

-----------------------------------------------------------------------------
(* The states of a context, as djvu.js lists them: the interval of the less   *)
(* probable bit, the threshold for a change after the more probable one, and  *)
(* the states that follow.                                                    *)

\* p: the interval of the less probable bit.
P ==
  <<32768, 32768, 32768, 27581, 27581, 23877, 23877, 20921, 20921, 18451, 18451, 16341, 16341,
    14513, 14513, 12917, 12917, 11517, 11517, 10277, 10277, 9131, 9131, 8071, 8071, 7099, 7099,
    6213, 6213, 5411, 5411, 4691, 4691, 4047, 4047, 3477, 3477, 2973, 2973, 2531, 2531, 2145,
    2145, 1809, 1809, 1521, 1521, 1273, 1273, 1061, 1061, 881, 881, 729, 729, 601, 601, 493,
    493, 403, 403, 329, 329, 267, 267, 213, 213, 165, 165, 123, 123, 87, 87, 59, 59, 35, 35,
    19, 19, 7, 7, 1, 1, 22165, 9454, 32768, 3376, 18458, 1153, 13689, 378, 9455, 123, 6520, 40,
    4298, 13, 2909, 52, 1930, 160, 1295, 279, 856, 490, 564, 324, 371, 564, 245, 851, 161,
    1477, 282, 975, 426, 645, 646, 427, 979, 282, 1477, 186, 2221, 122, 3276, 491, 4866, 742,
    7041, 1118, 9455, 1680, 10341, 2526, 14727, 3528, 11417, 4298, 15199, 2909, 22165, 1930,
    32768, 1295, 9454, 856, 3376, 564, 1153, 371, 378, 245, 123, 161, 40, 282, 13, 426, 52,
    646, 160, 979, 279, 1477, 490, 2221, 324, 3276, 564, 4866, 851, 7041, 1477, 9455, 975,
    11124, 645, 8221, 427, 5909, 282, 4023, 186, 2663, 491, 1767, 742, 1174, 1118, 781, 1680,
    518, 2526, 341, 3528, 225, 11124, 148, 8221, 392, 5909, 594, 4023, 899, 2663, 1351, 1767,
    2018, 1174, 3008, 781, 4472, 518, 6618, 341, 9455, 225, 12814, 148, 17194, 392, 17533, 594,
    24270, 899, 32768, 1351, 18458, 2018, 13689, 3008, 9455, 4472, 6520, 6618, 10341, 9455,
    14727, 12814, 11417, 17194, 15199, 17533, 22165, 24270, 32768, 32768, 22165, 18458, 18458>>

\* m: zero from state 83 on.
MFirst ==
  <<0, 0, 0, 4261, 4261, 7976, 7976, 11219, 11219, 14051, 14051, 16524, 16524, 18685, 18685,
    20573, 20573, 22224, 22224, 23665, 23665, 24923, 24923, 26021, 26021, 26978, 26978, 27810,
    27810, 28532, 28532, 29158, 29158, 29700, 29700, 30166, 30166, 30568, 30568, 30914, 30914,
    31210, 31210, 31463, 31463, 31678, 31678, 31861, 31861, 32015, 32015, 32145, 32145, 32254,
    32254, 32346, 32346, 32422, 32422, 32486, 32486, 32538, 32538, 32581, 32581, 32619, 32619,
    32653, 32653, 32682, 32682, 32707, 32707, 32727, 32727, 32743, 32743, 32754, 32754, 32762,
    32762, 32767, 32767>>
M == [i \in 1 .. 251 |-> IF i <= 83 THEN MFirst[i] ELSE 0]

\* up: the state after a more probable bit.
Up ==
  <<84, 3, 4, 5, 6, 7, 8, 9, 10, 11, 12, 13, 14, 15, 16, 17, 18, 19, 20, 21, 22, 23, 24, 25,
    26, 27, 28, 29, 30, 31, 32, 33, 34, 35, 36, 37, 38, 39, 40, 41, 42, 43, 44, 45, 46, 47, 48,
    49, 50, 51, 52, 53, 54, 55, 56, 57, 58, 59, 60, 61, 62, 63, 64, 65, 66, 67, 68, 69, 70, 71,
    72, 73, 74, 75, 76, 77, 78, 79, 80, 81, 82, 81, 82, 9, 86, 5, 88, 89, 90, 91, 92, 93, 94,
    95, 96, 97, 82, 99, 76, 101, 70, 103, 66, 105, 106, 107, 66, 109, 60, 111, 56, 69, 114, 65,
    116, 61, 118, 57, 120, 53, 122, 49, 124, 43, 72, 39, 60, 33, 56, 29, 52, 23, 48, 23, 42,
    137, 38, 21, 140, 15, 142, 9, 144, 141, 146, 147, 148, 149, 150, 151, 152, 153, 154, 155,
    70, 157, 66, 81, 62, 75, 58, 69, 54, 65, 50, 167, 44, 65, 40, 59, 34, 55, 30, 175, 24, 177,
    178, 179, 180, 181, 182, 183, 184, 69, 186, 59, 188, 55, 190, 51, 192, 47, 194, 41, 196,
    37, 198, 199, 72, 201, 62, 203, 58, 205, 54, 207, 50, 209, 46, 211, 40, 213, 36, 215, 30,
    217, 26, 219, 20, 71, 14, 61, 14, 57, 8, 53, 228, 49, 230, 45, 232, 39, 234, 35, 138, 29,
    24, 25, 240, 19, 22, 13, 16, 13, 10, 7, 244, 249, 10, 89, 230>>

\* dn: the state after a less probable bit.
Dn ==
  <<145, 4, 3, 1, 2, 3, 4, 5, 6, 7, 8, 9, 10, 11, 12, 13, 14, 15, 16, 17, 18, 19, 20, 21, 22,
    23, 24, 25, 26, 27, 28, 29, 30, 31, 32, 33, 34, 35, 36, 37, 38, 39, 40, 41, 42, 43, 44, 45,
    46, 47, 48, 49, 50, 51, 52, 53, 54, 55, 56, 57, 58, 59, 60, 61, 62, 63, 64, 65, 66, 67, 68,
    69, 70, 71, 72, 73, 74, 75, 76, 77, 78, 79, 80, 85, 226, 6, 176, 143, 138, 141, 112, 135,
    104, 133, 100, 129, 98, 127, 72, 125, 102, 123, 60, 121, 110, 119, 108, 117, 54, 115, 48,
    113, 134, 59, 132, 55, 130, 51, 128, 47, 126, 41, 62, 37, 66, 31, 54, 25, 50, 131, 46, 17,
    40, 15, 136, 7, 32, 139, 172, 9, 170, 85, 168, 248, 166, 247, 164, 197, 162, 95, 160, 173,
    158, 165, 156, 161, 60, 159, 56, 71, 52, 163, 48, 59, 42, 171, 38, 169, 32, 53, 26, 47,
    174, 193, 18, 191, 222, 189, 218, 187, 216, 185, 214, 61, 212, 53, 210, 49, 208, 45, 206,
    39, 204, 195, 202, 31, 200, 243, 64, 239, 56, 237, 52, 235, 48, 233, 44, 231, 38, 229, 34,
    227, 28, 225, 22, 223, 16, 221, 220, 63, 8, 55, 224, 51, 2, 47, 87, 43, 246, 37, 244, 33,
    238, 27, 236, 21, 16, 15, 8, 241, 242, 7, 10, 245, 2, 1, 83, 250, 2, 143, 246>>

-----------------------------------------------------------------------------
Word == 65536
Least(x, y) == IF x < y THEN x ELSE y
Shl(x) == (2 * x) % Word

\* The arrays of contexts are zero to begin with: those in use, with their states.
Fixed(c) == c = Raw \/ c = Iw
StateOf(ctx, c) == IF c \in DOMAIN ctx THEN ctx[c] ELSE 0
With(ctx, c, s) == (c :> s) @@ ctx

\* The end of the interval of the more probable bit in state s.
Split(a, s) == Least(a + P[s + 1], IF a + P[s + 1] >= 32768 THEN 24576 + (2 * a + P[s + 1]) \div 4
                                   ELSE Word)
EvenSplit(a, c) == 32768 + (IF c = Iw THEN (3 * a) \div 8 ELSE a \div 2)

-----------------------------------------------------------------------------
(* ZPEncoder *)

NewEncoder ==
  [a |-> 0, subend |-> 0, buffer |-> 16777215, nrun |-> 0, delay |-> 25, out |-> <<>>,
   failed |-> FALSE, ctx |-> <<>>]

\* The first 25 bits are those the buffer starts with.
OutBits(e, bits) ==
  LET skip == Least(e.delay, Len(bits))
  IN [e EXCEPT !.delay = @ - skip, !.out = @ \o SubSeq(bits, skip + 1, Len(bits))]

Run(bit, n) == [i \in 1 .. n |-> bit]

\* zemit: a carry out of the 24 bits of the buffer ends the run of bits that waits for it.
Emit(e, b) ==
  LET sum   == 2 * e.buffer + b
      carry == sum \div 16777216
      kept  == [e EXCEPT !.buffer = sum % 16777216]
  IN CASE carry = 1 -> [OutBits(kept, <<1>> \o Run(0, e.nrun)) EXCEPT !.nrun = 0]
       [] carry = 0 -> [kept EXCEPT !.nrun = @ + 1]
       [] OTHER -> [e EXCEPT !.failed = TRUE]

EmitTop(e) == [Emit(e, 1 - e.subend \div 32768) EXCEPT !.subend = Shl(@)]

\* ffz of the decoder: how often x is shifted before its first bit is 0.
Ones(x) == Cardinality({n \in 1 .. 16 : x \div 2 ^ (16 - n) = 2 ^ n - 1})

\* The loops of encode and _ptencode, and that of eflush (at most 40 times).
Renormalize(e) ==
  FoldInHalves(LAMBDA d, i : [EmitTop(d) EXCEPT !.a = Shl(@)], e, [i \in 1 .. Ones(e.a) |-> i])
Drain(e) ==
  FoldInHalves(LAMBDA d, i : IF d.buffer # 16777215 \/ d.subend # 0 THEN EmitTop(d) ELSE d,
           e, [i \in 1 .. 41 |-> i])

Below(e, z) == [e EXCEPT !.a = @ + Word - z, !.subend = @ + Word - z]

\* _ptencode
EncodeFixed(e, bit, c) ==
  LET z == EvenSplit(e.a, c)
  IN Renormalize(IF bit = 1 THEN Below(e, z) ELSE [e EXCEPT !.a = z])

\* encode with a context: the bit expected in state s is s % 2.
EncodeAdaptive(e, bit, c) ==
  LET s == StateOf(e.ctx, c)
      z == Split(e.a, s)
  IN CASE bit # s % 2 -> Renormalize([Below(e, z) EXCEPT !.ctx = With(@, c, Dn[s + 1])])
       [] bit = s % 2 /\ e.a + P[s + 1] < 32768 -> [e EXCEPT !.a = z]
       [] OTHER -> Renormalize([e EXCEPT !.a = z, !.ctx = IF e.a >= M[s + 1]
                                                           THEN With(@, c, Up[s + 1]) ELSE @])

\* zemit throws when it fails: nothing more is encoded.
Encode(e, bit, c) ==
  IF e.failed THEN e
  ELSE IF Fixed(c) THEN EncodeFixed(e, bit, c) ELSE EncodeAdaptive(e, bit, c)

\* Bits with their contexts, one after the other.
EncodeAll(e, symbols) ==
  LET after[n \in 0 .. Len(symbols)] ==
        IF n = 0 THEN e ELSE Encode(after[n - 1], symbols[n][1], symbols[n][2])
  IN after[Len(symbols)]

\* eflush
Flush(e) ==
  LET end == Drain([e EXCEPT !.subend = IF @ > 32768 THEN Word ELSE IF @ > 0 THEN 32768 ELSE 0])
  IN OutBits(end, <<1>> \o Run(0, end.nrun))

-----------------------------------------------------------------------------
(* ZPDecoder *)

\* n bits of the string from position i on, as a number; ones follow the string.
BitsAt(bits, i, n) ==
  FoldInHalves(LAMBDA x, k : 2 * x + (IF k <= Len(bits) THEN bits[k] ELSE 1), 0,
           [k \in 1 .. n |-> i + k - 1])

NewDecoder(bits) ==
  [a |-> 0, c |-> BitsAt(bits, 1, 16), next |-> 17, bit |-> 0, ctx |-> <<>>]

Shift(d, n, bits) ==
  [d EXCEPT !.a = (@ * 2 ^ n) % Word, !.c = (@ * 2 ^ n + BitsAt(bits, d.next, n)) % Word,
            !.next = @ + n]

Above(d, z, bits) ==
  LET low == [d EXCEPT !.a = @ + Word - z, !.c = @ + Word - z]
  IN Shift(low, Ones(low.a), bits)

\* _ptdecode
DecodeFixed(d, c, bits) ==
  LET z == EvenSplit(d.a, c)
  IN IF z > d.c THEN [Above(d, z, bits) EXCEPT !.bit = 1]
     ELSE [Shift([d EXCEPT !.a = z], 1, bits) EXCEPT !.bit = 0]

\* decode with a context
DecodeAdaptive(d, c, bits) ==
  LET s == StateOf(d.ctx, c)
      z == Split(d.a, s)
  IN CASE d.a + P[s + 1] <= Least(d.c, 32767) -> [d EXCEPT !.a = @ + P[s + 1], !.bit = s % 2]
       [] d.a + P[s + 1] > Least(d.c, 32767) /\ z > d.c ->
            [Above(d, z, bits) EXCEPT !.bit = 1 - (s % 2), !.ctx = With(@, c, Dn[s + 1])]
       [] OTHER -> [Shift([d EXCEPT !.a = z], 1, bits) EXCEPT
                      !.bit = s % 2, !.ctx = IF d.a >= M[s + 1] THEN With(@, c, Up[s + 1]) ELSE @]

Decode(d, c, bits) == IF Fixed(c) THEN DecodeFixed(d, c, bits) ELSE DecodeAdaptive(d, c, bits)
=============================================================================
