------------------------------ MODULE DjVuCodecs ------------------------------
(* A DjVu file written and read again, with the coders of                     *)
(* static/lib/djvu/djvu.js: a string of bits (ZP), a directory, an outline or *)
(* a text (BZZ), a page's shapes (JB2), a picture (IW44). Both sides keep     *)
(* estimates, lists, contexts and shapes that follow from what went before,   *)
(* and a single one that differs spoils all that comes after it. The writer   *)
(* takes a step per bit, byte, record or slice, then the reader does.         *)
EXTENDS BZZ, JB2Writer, IW44, DjVuRecords

CONSTANTS
  Inputs  \* what is written: a record with the coder's name

\* A block of bytes ends with one that marks its end. A page starts with a line. Pictures have
\* sizes whose filters find the values they need (see TailExpected).
ASSUME InputsAssumption ==
  \A in \in Inputs :
    CASE in.coder = "zp"   -> \A s \in ToSet(in.symbols) : s[1] \in {0, 1}
      [] in.coder = "bzz"  -> ToSet(in.text) \subseteq 0 .. 255 /\ Len(in.text) \in 1 .. BlockLimit - 1
      [] in.coder = "jb2"  -> Last(in.records).type = 11
      [] in.coder = "iw44" -> \A p \in ToSet(in.planes) : ReadAhead(Height(p)) /\ ReadAhead(Width(p))

VARIABLES
  input,     \* what is written
  encoder,   \* the ZP coder of the writer
  writer,    \* what the writer of the input keeps
  sent,      \* what the reader must have after each step
  bits,      \* the string of bits, when it is complete
  decoder,   \* the ZP coder of the reader
  reader,    \* what the reader keeps
  received,  \* what the reader has after each step
  stage      \* "write", "read" or "done"

vars == <<input, encoder, writer, sent, bits, decoder, reader, received, stage>>

Coder(name) == input.coder = name

\* What the writer starts with.
Begin(in) ==
  CASE in.coder = "zp"   -> 0
    [] in.coder = "bzz"  -> [sorted |-> BlockSort(Append(in.text, 0)), list |-> NewList]
    [] in.coder = "jb2"  -> StartSymbols(NewWriter(in.width, in.height, in.taken), in.taken)
    [] in.coder = "iw44" ->
         LET planes == [i \in DOMAIN in.planes |-> NewPlane(CreateBlocks(Forward(in.planes[i])))]
         IN [planes |-> planes, known |-> [i \in DOMAIN planes |-> [b \in DOMAIN planes[i].blocks |-> <<>>]]]

\* What it writes first.
FirstSymbols(in) ==
  CASE in.coder = "bzz" -> SizeSymbols(Len(in.text) + 1)
    [] in.coder = "jb2" -> Begin(in).symbols
    [] OTHER            -> <<>>

Init ==
  /\ input \in Inputs
  /\ encoder = EncodeAll(NewEncoder, FirstSymbols(input))
  /\ writer = IF Coder("jb2") THEN [Begin(input) EXCEPT !.symbols = <<>>] ELSE Begin(input)
  /\ sent = <<>> /\ bits = <<>> /\ decoder = NewDecoder(<<>>) /\ reader = 0 /\ received = <<>>
  /\ stage = "write"

-----------------------------------------------------------------------------
(* The writer *)

Steps == CASE Coder("zp")   -> Len(input.symbols)
           [] Coder("bzz")  -> Len(input.text) + 1
           [] Coder("jb2")  -> Len(input.records)
           [] Coder("iw44") -> input.slices

Writing(name) == stage = "write" /\ Coder(name) /\ Len(sent) < Steps
Sends(symbols, w, has) ==
  /\ encoder' = EncodeAll(encoder, symbols)
  /\ writer' = w
  /\ sent' = Append(sent, has)
  /\ UNCHANGED <<input, bits, decoder, reader, received, stage>>

WriteBit ==
  /\ Writing("zp")
  /\ LET symbol == input.symbols[Len(sent) + 1]
     IN Sends(<<symbol>>, writer, symbol[1])

WriteByte ==
  /\ Writing("bzz")
  /\ LET i   == Len(sent) + 1
         Send(out) == Sends(out.symbols, [writer EXCEPT !.list = out.list], writer.sorted[i])
     IN Send(ByteOut(writer.list, writer.sorted, i))

\* The shapes on the page so far and the dictionary.
WriteRecord ==
  /\ Writing("jb2")
  /\ LET r     == input.records[Len(sent) + 1]
         shows == r.type \in {1, 3, 4, 6, 7, 8}
         blits == IF sent = <<>> THEN <<>> ELSE Last(sent).blits
         Send(w) ==
           Sends(w.symbols, [w EXCEPT !.symbols = <<>>],
                 [dict |-> w.dict, blits |-> IF shows THEN Append(blits, <<Shown(writer, r), r.x, r.y>>) ELSE blits])
     IN Send(RecordSymbols(writer, r))

\* writeImagePage: the planes of the colours begin delay slices after that of the brightness.
PlaneName(i) == <<"y", "cb", "cr">>[i]
InSlice(n, i) == i = 1 \/ n > input.delay
WriteSlice ==
  /\ Writing("iw44")
  /\ LET Slice(i) ==
           IF InSlice(Len(sent) + 1, i) THEN EncodeSlice(PlaneName(i), writer.planes[i], writer.known[i])
           ELSE [symbols |-> <<>>, plane |-> writer.planes[i], known |-> writer.known[i]]
         Write(done, known) ==
           Sends(FlattenSeq([i \in DOMAIN done |-> done[i].symbols]),
                 [planes |-> [i \in DOMAIN done |-> done[i].plane], known |-> known], known)
         All(done) == Write(done, [i \in DOMAIN done |-> done[i].known])
     IN All([i \in DOMAIN writer.planes |-> Slice(i)])

\* The end of a block, and eflush: the reader begins, with what its first symbols say.
EndSymbols == IF Coder("bzz") THEN Raws(SizeBits, 0) ELSE <<>>

StartReading(string) ==
  LET Block(size) == [d |-> size.d, s |-> [list |-> NewList, size |-> size.size, shift |-> size.shift]]
      Page(r) == [d |-> r.d, s |-> r]
  IN CASE Coder("zp")   -> [d |-> NewDecoder(string), s |-> 0]
       [] Coder("bzz")  -> Block(DecodeSize(NewDecoder(string), string))
       [] Coder("jb2")  -> Page(DecodeStart(NewReader(string), input.taken, string))
       [] Coder("iw44") -> [d |-> NewDecoder(string),
                            s |-> [i \in DOMAIN writer.planes |->
                                     NewPlane([b \in DOMAIN writer.planes[i].blocks |-> <<>>])]]

EndWriting ==
  /\ stage = "write" /\ Len(sent) = Steps
  /\ encoder' = Flush(EncodeAll(encoder, EndSymbols))
  /\ bits' = encoder'.out
  /\ LET Start(start) == decoder' = start.d /\ reader' = start.s IN Start(StartReading(encoder'.out))
  /\ stage' = "read"
  /\ UNCHANGED <<input, writer, sent, received>>

-----------------------------------------------------------------------------
(* The reader *)

Reading(name) == stage = "read" /\ Coder(name)
Receives(d, r, has) ==
  /\ decoder' = d
  /\ reader' = r
  /\ received' = Append(received, has)
  /\ UNCHANGED <<input, encoder, writer, sent, bits, stage>>

ReadBit ==
  /\ Reading("zp") /\ Len(received) < Len(input.symbols)
  /\ LET Receive(d) == Receives(d, reader, d.bit)
     IN Receive(Decode(decoder, input.symbols[Len(received) + 1][2], bits))

ReadByte ==
  /\ Reading("bzz") /\ Len(received) < reader.size
  /\ LET Receive(place, in) == Receives(place.d, [reader EXCEPT !.list = in.list], in.byte)
         Placed(place) == Receive(place, ByteIn(reader.list, place.n, reader.shift))
     IN Placed(DecodePlace(decoder, reader.list.mtfno, bits))

ReadRecord ==
  /\ Reading("jb2") /\ ~reader.ended
  /\ LET Receive(r) == Receives(r.d, r, [dict |-> r.dict, blits |-> r.blits])
     IN Receive(IF input.isDict THEN DecodeDictRecord(reader, bits) ELSE DecodeRecord(reader, bits))

\* decodeChunk
ReadSlice ==
  /\ Reading("iw44") /\ Len(received) < input.slices
  /\ LET Known(s, i, p) == [d |-> p.d, planes |-> [s.planes EXCEPT ![i] = p.plane]]
         Plane1(s, i) == IF i = 1 \/ Len(received) + 1 > input.delay
                         THEN Known(s, i, DecodeSlice(s.d, PlaneName(i), s.planes[i], bits)) ELSE s
         Receive(end) == Receives(end.d, end.planes, end.planes)
     IN Receive(FoldInHalves(Plane1, [d |-> decoder, planes |-> reader], [i \in DOMAIN reader |-> i]))

AllRead ==
  CASE Coder("zp")   -> Len(received) = Len(input.symbols)
    [] Coder("bzz")  -> Len(received) = reader.size
    [] Coder("jb2")  -> reader.ended
    [] Coder("iw44") -> Len(received) = input.slices

EndReading ==
  /\ stage = "read" /\ AllRead
  /\ stage' = "done"
  /\ decoder' = IF Coder("bzz") THEN DecodeSize(decoder, bits).d ELSE decoder
  /\ reader' = IF Coder("bzz") THEN [reader EXCEPT !.size = DecodeSize(decoder, bits).size] ELSE reader
  /\ UNCHANGED <<input, encoder, writer, sent, bits, received>>

-----------------------------------------------------------------------------

Next ==
  \/ WriteBit \/ WriteByte \/ WriteRecord \/ WriteSlice \/ EndWriting
  \/ ReadBit \/ ReadByte \/ ReadRecord \/ ReadSlice \/ EndReading

Spec == Init /\ [][Next]_vars

-----------------------------------------------------------------------------
(* Properties *)

\* The reader's coefficients are as near to those sent as the steps of the slices let them be.
Near(p, known, block, v) ==
  LET StepOf(n) == IF BucketOf(n) = 0 THEN p.lo[n + 1]
                   ELSE p.hi[(CHOOSE band \in 1 .. 9 : BucketOf(n) \in Buckets(band)) + 1]
  IN /\ DOMAIN block = DOMAIN known
     /\ \A n \in DOMAIN v :
          LET error == IF n \in DOMAIN block THEN Magnitude(v[n] - block[n]) ELSE Magnitude(v[n])
          IN error < 2 * StepOf(n) \/ error = 0

\* After every step the reader has what the writer had: it reads the same bits, bytes, shapes
\* and places, and of a picture the same coefficients to within the step of the last slice.
ReadsWhatIsSent ==
  LET n == Len(received)
  IN n > 0 =>
       /\ n <= Len(sent)
       /\ CASE Coder("iw44") ->
                 \A i \in DOMAIN reader : \A b \in DOMAIN reader[i].blocks :
                   Near(reader[i], sent[n][i][b], reader[i].blocks[b], writer.planes[i].blocks[b])
            [] OTHER -> received[n] = sent[n]

\* What a block holds, as the reader of the document finds it: the files of a directory, which
\* number its pages; the bookmarks of an outline; a text whose zones all show in their boxes.
Contents(kind, bytes, n) ==
  CASE kind = "directory" -> ReadDirectory(bytes, n)
    [] kind = "outline"   -> ReadOutline(bytes)
    [] kind = "text"      -> ReadText(bytes)
    [] OTHER              -> bytes
Numbered(files) == \A i \in DOMAIN PagesIds(files) : PageNumber(files, PagesIds(files)[i]) = i
AllShown(t) ==
  LET shown == NormalizedZones(t)
  IN /\ IsInjective([k \in DOMAIN shown |-> shown[k].box])
     /\ \A z \in ToSet(Leaves(t.zone)) : \E k \in DOMAIN shown :
          shown[k].box = BoxOf(z) /\ \E a \in 0 .. Len(shown[k].text) : SubSeq(shown[k].text, a + 1, a + Len(TextOf(t, z))) = TextOf(t, z)

\* In the end the reader has the whole of the input again, and finds that nothing follows: the
\* contents of a block, the records to the last one, the picture without a loss once the steps
\* have gone down to 1.
WholeInputIsRead ==
  stage = "done" =>
    /\ Len(received) = Len(sent)
    /\ Coder("bzz") =>
         LET value == Contents(input.kind, Unsort(received), Len(input.value))
         IN /\ value = input.value /\ reader.size = 0
            /\ input.kind = "directory" => Numbered(value)
            /\ input.kind = "text" => AllShown(value)
    /\ Coder("iw44") /\ input.slices >= 200 + input.delay =>
         \A i \in DOMAIN reader :
           Bytemap(reader[i].blocks, Height(input.planes[i]), Width(input.planes[i])) = input.planes[i]
=============================================================================
