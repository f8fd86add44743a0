-------------------------------- MODULE IW44 --------------------------------
(* The pictures of DjVu pages in static/lib/djvu/djvu.js: the coefficients of *)
(* a plane, in blocks of 64 buckets of 16, are sent in slices. A slice takes  *)
(* one of ten bands and halves its step: IWEncoder and IWDecoder must agree   *)
(* on which coefficients are known to be active, for only what the decoder    *)
(* cannot know is coded. A block is a function from its coefficients that are *)
(* not zero. The coefficients come from a wavelet transform of the plane.     *)
EXTENDS ZPCoder, SequencesExt

-----------------------------------------------------------------------------
(* The wavelet transform: the filters of the writer and the inverse of the    *)
(* reader, on a plane given as a function from rows to functions from columns *)
(* to values.                                                                 *)

Scales == <<1, 2, 4, 8, 16>>

Height(plane) == Cardinality(DOMAIN plane)
Width(plane) == Cardinality(DOMAIN plane[0])

-----------------------------------------------------------------------------
(* A line of values 0 .. kmax. *)

At(x, k) == IF k \in DOMAIN x THEN x[k] ELSE 0

\* What the even values gain from the odd ones around them.
Smooth(x, k) == (9 * (At(x, k - 1) + At(x, k + 1)) - (At(x, k - 3) + At(x, k + 3)) + 16) \div 32

\* What the odd values are expected to be.
Cubic(x, k) == (9 * (x[k - 1] + x[k + 1]) - (x[k - 3] + x[k + 3]) + 8) \div 16
Middle(a, b) == (a + b + 1) \div 2

ForwardLine(x, kmax) ==
  LET Expected(k) == CASE k >= 3 /\ k + 3 <= kmax -> Cubic(x, k)
                       [] ~(k >= 3 /\ k + 3 <= kmax) /\ k + 1 <= kmax -> Middle(x[k - 1], x[k + 1])
                       [] OTHER -> x[k - 1]
      odd == [k \in DOMAIN x |-> IF k % 2 = 1 THEN x[k] - Expected(k) ELSE x[k]]
  IN [k \in DOMAIN x |-> IF k % 2 = 1 THEN odd[k] ELSE x[k] + Smooth(odd, k)]

\* The values after the last cubic one: the even value after the next one is only read ahead
\* when there is a cubic one, so with kmax 4 or 5 they find zeros where 4 should be.
TailExpected(x, k, kmax) ==
  CASE k + 1 <= kmax -> Middle(x[k - 1], IF kmax >= 6 THEN x[k + 1] ELSE 0)
    [] k + 1 > kmax /\ kmax = 5 -> 0
    [] OTHER -> x[k - 1]

InverseLine(x, kmax) ==
  LET even == [k \in DOMAIN x |-> IF k % 2 = 0 THEN x[k] - Smooth(x, k) ELSE x[k]]
      Expected(k) == CASE k = 1 -> IF 2 <= kmax THEN Middle(even[0], even[2]) ELSE even[0]
                       [] k >= 3 /\ k + 3 <= kmax -> Cubic(even, k)
                       [] OTHER -> TailExpected(even, k, kmax)
  IN [k \in DOMAIN x |-> IF k % 2 = 1 THEN even[k] + Expected(k) ELSE even[k]]

-----------------------------------------------------------------------------
(* Every s-th row and column of a plane. *)

LastOf(n, s) == (n - 1) \div s

LineFilter(x, kmax, way) == IF way = "forward" THEN ForwardLine(x, kmax) ELSE InverseLine(x, kmax)

\* filter_fh, and the second half of a scale of inverseWaveletTransform
FilterRows(plane, s, way) ==
  LET kmax == LastOf(Width(plane), s)
      New(row) == LineFilter([k \in 0 .. kmax |-> row[k * s]], kmax, way)
  IN [i \in DOMAIN plane |->
        IF i % s # 0 THEN plane[i]
        ELSE LET new == New(plane[i])
             IN [j \in DOMAIN plane[i] |-> IF j % s = 0 THEN new[j \div s] ELSE plane[i][j]]]

\* filter_fv, and the first half
FilterColumns(plane, s, way) ==
  LET kmax == LastOf(Height(plane), s)
      new == [j \in {j \in DOMAIN plane[0] : j % s = 0} |->
                LineFilter([k \in 0 .. kmax |-> plane[k * s][j]], kmax, way)]
  IN [i \in DOMAIN plane |->
        [j \in DOMAIN plane[i] |->
           IF i % s = 0 /\ j % s = 0 THEN new[j][i \div s] ELSE plane[i][j]]]

\* inverseWaveletTransform of the encoder, whose name is that of the decoder's
Forward(plane) ==
  FoldInHalves(LAMBDA p, s : FilterColumns(FilterRows(p, s, "forward"), s, "forward"), plane, Scales)

\* inverseWaveletTransform
InverseTransform(plane) ==
  FoldRight(LAMBDA s, p : FilterRows(FilterColumns(p, s, "inverse"), s, "inverse"), Scales, plane)

\* A size for which no scale has a line of 5 or 6 values.
ReadAhead(n) == \A s \in ToSet(Scales) : LastOf(n, s) \notin {4, 5}

-----------------------------------------------------------------------------
-----------------------------------------------------------------------------
(* IWCodecBaseClass: the steps of a plane and the band whose turn it is. *)

QuantLo ==
  <<16384, 32768, 32768, 65536, 65536, 65536, 65536, 65536, 65536, 65536, 65536, 65536,
    131072, 131072, 131072, 131072>>
QuantHi == <<0, 131072, 131072, 262144, 262144, 262144, 524288, 262144, 262144, 524288>>

NewPlane(blocks) == [band |-> 0, lo |-> QuantLo, hi |-> QuantHi, blocks |-> blocks]

Buckets(band) ==
  CASE band <= 3 -> band .. band
    [] band \in 4 .. 6 -> 4 * (band - 3) .. 4 * (band - 3) + 3
    [] OTHER -> 16 * (band - 6) .. 16 * (band - 6) + 15
BucketOf(n) == n \div 16
Coefs(band) == UNION {16 * b .. 16 * b + 15 : b \in Buckets(band)}

Usable(step) == 0 < step /\ step < 32768
Step(p, n) == IF p.band = 0 THEN p.lo[n + 1] ELSE p.hi[p.band + 1]

IsNullSlice(p) ==
  IF p.band = 0 THEN \A i \in 1 .. 16 : ~Usable(p.lo[i]) ELSE ~Usable(p.hi[p.band + 1])

FinishSlice(p) ==
  [p EXCEPT !.hi[p.band + 1] = @ \div 2,
            !.lo = IF p.band = 0 THEN [i \in 1 .. 16 |-> p.lo[i] \div 2] ELSE @,
            !.band = IF @ = 9 THEN 0 ELSE @ + 1]

\* Coefficients of the first band whose step is too large or gone.
Excluded(p) == IF p.band = 0 THEN {n \in 0 .. 15 : ~Usable(p.lo[n + 1])} ELSE {}

Magnitude(x) == IF x < 0 THEN -x ELSE x
Has(S, b) == \E n \in S : BucketOf(n) = b
Ordered(S) ==
  LET low == Min(S) IN
  IF S = {} THEN <<>>
  ELSE SelectSeq([i \in 1 .. Max(S) - low + 1 |-> low + i - 1], LAMBDA n : n \in S)

\* The context for a bucket: how many of the four coefficients above it are active.
BucketContext(name, band, b, known, active) ==
  LET above == IF band = 0 THEN 0 ELSE Least(3, Cardinality({n \in 4 * b .. 4 * b + 3 : n \in DOMAIN known}))
  IN <<name, "coef", above + (IF active = {} THEN 0 ELSE 4) + 8 * band>>

ActivateContext(name, hasActive, left) == <<name, "activate", (IF hasActive THEN 8 ELSE 0) + Least(7, left)>>

-----------------------------------------------------------------------------
(* IWEncoder: what it sends of a block v, given what it has sent (known). *)

\* preliminaryFlagComputation
ActiveIn(p, known) == (Coefs(p.band) \cap DOMAIN known) \ Excluded(p)
NewIn(p, v, known) ==
  {n \in (Coefs(p.band) \cap DOMAIN v) \ (DOMAIN known \union Excluded(p)) : Magnitude(v[n]) >= Step(p, n)}
UnknownIn(p, known) == Coefs(p.band) \ (DOMAIN known \union Excluded(p))

\* blockBandEncodingPass: a bit for a large band without active coefficients.
AlwaysCoded(p, known) == Cardinality(Buckets(p.band)) < 16 \/ ActiveIn(p, known) # {}
BandSymbols(name, p, v, known) ==
  IF AlwaysCoded(p, known) THEN <<>>
  ELSE <<<<IF NewIn(p, v, known) = {} THEN 0 ELSE 1, <<name, "bucket">>>>>>

\* bucketEncodingPass
BucketSymbols(name, p, v, known) ==
  LET unknown == UnknownIn(p, known)
      list == Ordered({b \in Buckets(p.band) : Has(unknown, b)})
  IN [i \in DOMAIN list |-> <<IF Has(NewIn(p, v, known), list[i]) THEN 1 ELSE 0,
                              BucketContext(name, p.band, list[i], known, ActiveIn(p, known))>>]

\* newlyActiveCoefficientEncodingPass: in the buckets with a new coefficient.
NewSymbols(name, p, v, known) ==
  LET new == NewIn(p, v, known)
      Unknown(b) == {n \in UnknownIn(p, known) : BucketOf(n) = b}
      Left(n) == LET b == Unknown(BucketOf(n))
                 IN IF \E m \in b \cap new : m < n THEN 0 ELSE Cardinality({m \in b : m >= n})
      Symbols(n) == <<<<IF n \in new THEN 1 ELSE 0,
                        ActivateContext(name, Has(ActiveIn(p, known), BucketOf(n)), Left(n))>>>>
                    \o (IF n \notin new THEN <<>> ELSE <<<<IF v[n] < 0 THEN 1 ELSE 0, Iw>>>>)
      list == Ordered({n \in UnknownIn(p, known) : Has(new, BucketOf(n))})
  IN FlattenSeq([i \in DOMAIN list |-> Symbols(list[i])])

\* previouslyActiveCoefficientEncodingPass
ActiveSymbols(name, p, v, known) ==
  LET list == Ordered(ActiveIn(p, known))
  IN [i \in DOMAIN list |->
        <<IF Magnitude(v[list[i]]) >= known[list[i]] THEN 1 ELSE 0,
          IF known[list[i]] <= 3 * Step(p, list[i]) THEN <<name, "increase">> ELSE Iw>>]

\* What is known after the slice.
Refined(p, v, known, n) ==
  LET step == Step(p, n)
  IN known[n] - (IF Magnitude(v[n]) >= known[n] THEN 0 ELSE step) + step \div 2

EncodeBlock(name, p, v, known) ==
  LET coded == AlwaysCoded(p, known) \/ NewIn(p, v, known) # {}
      new   == IF coded THEN NewIn(p, v, known) ELSE {}
  IN [symbols |-> BandSymbols(name, p, v, known)
                  \o (IF coded THEN BucketSymbols(name, p, v, known) \o NewSymbols(name, p, v, known) ELSE <<>>)
                  \o ActiveSymbols(name, p, v, known),
      known   |-> [n \in DOMAIN known \union new |->
                     CASE n \in new -> Step(p, n) + Step(p, n) \div 2
                       [] n \in ActiveIn(p, known) -> Refined(p, v, known, n)
                       [] OTHER -> known[n]]]

\* encodeSlice: every block of the plane; known holds what has been sent of each.
EncodeSlice(name, p, known) ==
  LET Slice(done) == [symbols |-> FlattenSeq([b \in DOMAIN done |-> done[b].symbols]),
                      plane |-> FinishSlice(p), known |-> [b \in DOMAIN done |-> done[b].known]]
  IN IF IsNullSlice(p) THEN [symbols |-> <<>>, plane |-> FinishSlice(p), known |-> known]
     ELSE Slice([b \in DOMAIN p.blocks |-> EncodeBlock(name, p, p.blocks[b], known[b])])

-----------------------------------------------------------------------------
(* IWDecoder: s is the coder d and the block as far as it is known. *)

\* blockBandDecodingPass
DecodeBand(s, name, p, bits) ==
  LET Told(d) == [s EXCEPT !.d = d, !.coded = d.bit = 1]
  IN IF AlwaysCoded(p, s.block) THEN [s EXCEPT !.coded = TRUE] ELSE Told(Decode(s.d, <<name, "bucket">>, bits))

\* bucketDecodingPass: the buckets with a new coefficient.
DecodeBuckets(s, name, p, bits) ==
  LET unknown == UnknownIn(p, s.block)
      Told(t, b, d) == [t EXCEPT !.d = d, !.buckets = IF d.bit = 1 THEN @ \union {b} ELSE @]
      Next(t, b) ==
        Told(t, b, Decode(t.d, BucketContext(name, p.band, b, s.block, ActiveIn(p, s.block)), bits))
  IN FoldInHalves(Next, s, Ordered({b \in Buckets(p.band) : Has(unknown, b)}))

\* newlyActiveCoefficientDecodingPass: left counts the coefficients of the bucket to come.
DecodeNew(s, name, p, bits) ==
  LET Size(step) == step + step \div 2 - step \div 8
      Inactive(t, n, left, d) ==
        [t EXCEPT !.d = d, !.bucket = BucketOf(n), !.left = IF left = 0 THEN 0 ELSE left - 1]
      Active(t, n, d) ==
        [t EXCEPT !.d = d, !.bucket = BucketOf(n), !.left = 0,
                  !.block = (n :> (IF d.bit = 1 THEN -1 ELSE 1) * Size(Step(p, n))) @@ @]
      Told(t, n, left, d) == IF d.bit = 0 THEN Inactive(t, n, left, d) ELSE Active(t, n, Decode(d, Iw, bits))
      Coef(t, n, left, active) ==
        Told(t, n, left, Decode(t.d, ActivateContext(name, Has(active, BucketOf(n)), left), bits))
      All(unknown, active) ==
        FoldInHalves(LAMBDA t, n :
                   Coef(t, n, IF BucketOf(n) # t.bucket THEN Cardinality({m \in unknown : BucketOf(m) = BucketOf(n)})
                              ELSE t.left, active),
                 s, Ordered({n \in unknown : BucketOf(n) \in s.buckets}))
  IN All(UnknownIn(p, s.block), ActiveIn(p, s.block))

\* previouslyActiveCoefficientDecodingPass
DecodeActive(s, active, name, p, bits) ==
  LET Small(t, n) == Magnitude(t.block[n]) <= 3 * Step(p, n)
      Size(t, n, step, d) == Magnitude(t.block[n]) + (IF Small(t, n) THEN step \div 4 ELSE 0)
                             + (IF d.bit = 1 THEN 0 ELSE -step) + step \div 2
      Told(t, n, d) == [t EXCEPT !.d = d, !.block[n] = (IF @ < 0 THEN -1 ELSE 1) * Size(t, n, Step(p, n), d)]
      Next(t, n) == Told(t, n, Decode(t.d, IF Small(t, n) THEN <<name, "increase">> ELSE Iw, bits))
  IN FoldInHalves(Next, s, Ordered(active))

DecodeBlock(d, name, p, block, bits) ==
  LET New(s) == IF s.coded THEN DecodeNew(DecodeBuckets(s, name, p, bits), name, p, bits) ELSE s
      start  == [d |-> d, block |-> block, coded |-> FALSE, buckets |-> {}, bucket |-> -1, left |-> 0]
  IN DecodeActive(New(DecodeBand(start, name, p, bits)), ActiveIn(p, block), name, p, bits)

\* decodeSlice
DecodeSlice(d, name, p, bits) ==
  LET Known(t, b, s) == [d |-> s.d, blocks |-> [t.blocks EXCEPT ![b] = s.block]]
      Next(t, b) == Known(t, b, DecodeBlock(t.d, name, p, p.blocks[b], bits))
      Slice(end) == [d |-> end.d, plane |-> FinishSlice([p EXCEPT !.blocks = end.blocks])]
  IN IF IsNullSlice(p) THEN [d |-> d, plane |-> FinishSlice(p)]
     ELSE Slice(FoldInHalves(Next, [d |-> d, blocks |-> p.blocks], [b \in DOMAIN p.blocks |-> b]))

-----------------------------------------------------------------------------
(* Blocks of 32 by 32 of a plane. *)

\* zigzagRow and zigzagCol: the bits of the index, from the last one on, halve the block.
BitOf(n, k) == (n \div 2 ^ k) % 2
Spread(n, k) == 16 * BitOf(n, k) + 8 * BitOf(n, k + 2) + 4 * BitOf(n, k + 4) + 2 * BitOf(n, k + 6) + BitOf(n, k + 8)
ZigzagCol == [n \in 0 .. 1023 |-> Spread(n, 0)]
ZigzagRow == [n \in 0 .. 1023 |-> Spread(n, 1)]

InBlocks(n) == (n + 31) \div 32

\* createBlocks, row by row
CreateBlocks(plane) ==
  LET cols == InBlocks(Width(plane))
      Value(b, n) == LET i == ZigzagRow[n] + 32 * ((b - 1) \div cols)
                         j == ZigzagCol[n] + 32 * ((b - 1) % cols)
                     IN IF i \in DOMAIN plane /\ j \in DOMAIN plane[i] THEN plane[i][j] ELSE 0
  IN [b \in 1 .. InBlocks(Height(plane)) * cols |->
        [n \in {n \in 0 .. 1023 : Value(b, n) # 0} |-> Value(b, n)]]

\* getBytemap: the blocks put together, cut to the picture
Bytemap(blocks, height, width) ==
  LET cols == InBlocks(width)
      full == [b \in DOMAIN blocks |->
                 [p \in {<<ZigzagRow[n], ZigzagCol[n]>> : n \in DOMAIN blocks[b]} |->
                    blocks[b][CHOOSE n \in DOMAIN blocks[b] : <<ZigzagRow[n], ZigzagCol[n]>> = p]]]
      Value(i, j) == LET b == (i \div 32) * cols + j \div 32 + 1
                     IN IF <<i % 32, j % 32>> \in DOMAIN full[b] THEN full[b][<<i % 32, j % 32>>] ELSE 0
  IN InverseTransform([i \in 0 .. height - 1 |-> [j \in 0 .. width - 1 |-> Value(i, j)]])
=============================================================================
