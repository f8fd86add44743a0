------------------------------ MODULE MobiText ------------------------------
(* What the reader unpacks of a Kindle book, static/lib/foliate/mobi.js:      *)
(* numbers of several bytes, the ends of text records, the two compressions   *)
(* and the entries of an index. Bytes are 0 .. 255; a sequence counts from 1  *)
(* where the code counts from 0. TLC's numbers are too short for the 32 bits  *)
(* the code reads at a time: bits are taken from a sequence of them.          *)
EXTENDS Integers, Sequences, SequencesExt, FiniteSetsExt, Functions

Byte(bytes, i) == IF i \in DOMAIN bytes THEN bytes[i] ELSE 0
Least(m, n) == IF m < n THEN m ELSE n

-----------------------------------------------------------------------------
(* Numbers: seven bits a byte. *)

\* getVarLen: the byte with the high bit is the last, and so is the fourth.
VarLenSize(bytes, at) ==
  LET ends == {k \in 1 .. 4 : at + k - 1 <= Len(bytes) /\ bytes[at + k - 1] >= 128}
  IN  IF ends # {} THEN Min(ends) ELSE Least(4, Len(bytes) - at + 1)

VarLen(bytes, at) ==
  [size |-> VarLenSize(bytes, at),
   value |-> FoldLeft(LAMBDA n, b : 128 * n + (b % 128), 0, SubSeq(bytes, at, at + VarLenSize(bytes, at) - 1))]

\* getVarLenFromEnd: of the last four bytes, those from the last one with the high bit on.
VarLenFromEnd(bytes) ==
  FoldLeft(LAMBDA n, b : IF b >= 128 THEN b % 128 ELSE 128 * n + b, 0,
           SubSeq(bytes, Len(bytes) - Least(4, Len(bytes)) + 1, Len(bytes)))

\* subarray(0, -n): all but the last n bytes; -0 is 0, and leaves nothing.
Cut(bytes, n) == IF n = 0 THEN <<>> ELSE SubSeq(bytes, 1, Len(bytes) - n)

\* Each entry at the end of a record ends with its size, the size's own bytes included; the
\* bytes of a character cut in two come before them, with their count less one.
RemoveTrailingEntries(bytes, trailing) ==
  LET cut == FoldLeft(LAMBDA b, i : Cut(b, VarLenFromEnd(b)), bytes, [i \in 1 .. trailing.entries |-> i])
  IN  IF trailing.multibyte THEN Cut(cut, (Last(cut) % 4) + 1) ELSE cut

-----------------------------------------------------------------------------
(* decompressPalmDOC *)

\* A copy may run into what it has itself put out.
Copied(out, distance, length) ==
  FoldLeft(LAMBDA o, j : Append(o, o[Len(o) - distance + 1]), out, [j \in 1 .. length |-> j])

\* One code: how many bytes it takes and what has been put out after it.
PalmDocCode(bytes, at, out) ==
  LET b == bytes[at]
      pair == 256 * b + Byte(bytes, at + 1)
  IN  CASE b = 0             -> [size |-> 1, out |-> Append(out, 0)]
        [] b \in 1 .. 8      -> [size |-> b + 1, out |-> out \o SubSeq(bytes, at + 1, Least(at + b, Len(bytes)))]
        [] b \in 9 .. 127    -> [size |-> 1, out |-> Append(out, b)]
        [] b \in 128 .. 191  -> [size |-> 2, out |-> Copied(out, (pair % 16384) \div 8, (pair % 8) + 3)]
        [] b \in 192 .. 255  -> [size |-> 1, out |-> out \o <<32, b - 128>>]

RECURSIVE PalmDocFrom(_, _, _)
PalmDocFrom(bytes, at, out) ==
  IF at > Len(bytes) THEN out
  ELSE LET code == PalmDocCode(bytes, at, out) IN PalmDocFrom(bytes, at + code.size, code.out)

DecompressPalmDoc(bytes) == PalmDocFrom(bytes, 1, <<>>)

-----------------------------------------------------------------------------
(* huffcdic *)

Bits(bytes) ==
  FlattenSeq([i \in DOMAIN bytes |-> [k \in 1 .. 8 |-> (bytes[i] \div (2 ^ (8 - k))) % 2]])

\* The number of the n bits from position i, with zeros after the end.
Top(bits, i, n) == FoldLeft(LAMBDA v, k : 2 * v + (IF i + k \in DOMAIN bits THEN bits[i + k] ELSE 0), 0, [k \in 1 .. n |-> k])

\* The first table knows the length of short codes and where to begin with longer ones; the
\* second one has, for a length, its least code and the number that its codes are counted from.
CodeLength(huff, bits, i) ==
  LET entry == huff.table1[Top(bits, i, 8)]
  IN  IF entry.found THEN entry.length
      ELSE CHOOSE n \in entry.length .. 32 :
             /\ Top(bits, i, n) >= huff.table2[n].least
             /\ \A k \in entry.length .. (n - 1) : Top(bits, i, k) < huff.table2[k].least

CodeBase(huff, bits, i) ==
  LET entry == huff.table1[Top(bits, i, 8)]
  IN  IF entry.found THEN entry.base ELSE huff.table2[CodeLength(huff, bits, i)].base

\* decompress; that it keeps what it has decompressed of the dictionary changes no result.
RECURSIVE EntryText(_, _), HuffFrom(_, _, _, _)
EntryText(huff, entry) == IF entry.plain THEN entry.bytes ELSE HuffFrom(huff, Bits(entry.bytes), 0, <<>>)

HuffFrom(huff, bits, i, out) ==
  IF i >= Len(bits) THEN out
  ELSE LET n == CodeLength(huff, bits, i)
           code == CodeBase(huff, bits, i) - Top(bits, i, n)
       IN  IF i + n > Len(bits) THEN out
           ELSE HuffFrom(huff, bits, i + n, out \o EntryText(huff, huff.dictionary[code + 1]))

DecompressHuff(huff, bytes) == HuffFrom(huff, Bits(bytes), 0, <<>>)

-----------------------------------------------------------------------------
(* getIndexData: the tags of an entry. Its control bytes say which tags it has; a field of    *)
(* several bits that are all set has the number of bytes of the tag's values among the values, *)
(* which follow.                                                                               *)

BitsOf(mask) == SelectSeq(<<1, 2, 4, 8, 16, 32, 64, 128>>, LAMBDA bit : (mask \div bit) % 2 = 1)
Field(byte, mask) == FoldLeft(LAMBDA v, bit : v + bit * ((byte \div bit) % 2), 0, BitsOf(mask))

\* What the control bytes say of the tags: [tag, count, bytes], and where the values begin.
Controls(tagx, bytes) ==
  FoldLeft(LAMBDA s, row :
     LET value == Field(Byte(bytes, s.control), row.mask)
         size == VarLen(bytes, s.at)
     IN  CASE row.end -> [s EXCEPT !.control = @ + 1]
           [] ~row.end /\ value = row.mask /\ Len(BitsOf(row.mask)) > 1 ->
                [s EXCEPT !.at = @ + size.size, !.tags = Append(@, [row |-> row, count |-> -1, bytes |-> size.value])]
           [] ~row.end /\ value = row.mask /\ Len(BitsOf(row.mask)) = 1 ->
                [s EXCEPT !.tags = Append(@, [row |-> row, count |-> 1, bytes |-> 0])]
           [] OTHER ->
                [s EXCEPT !.tags = Append(@, [row |-> row, count |-> value \div BitsOf(row.mask)[1], bytes |-> 0])],
     [control |-> 1, at |-> tagx.controlBytes + 1, tags |-> <<>>], tagx.rows)

\* The values of a tag: as many as it is said to have, or as fill the bytes it is said to have.
RECURSIVE Values(_, _, _, _)
Values(bytes, at, count, limit) ==
  IF count = 0 \/ limit = 0 THEN [values |-> <<>>, at |-> at]
  ELSE LET n == VarLen(bytes, at)
           rest == Values(bytes, at + n.size, count - 1, IF n.size > limit THEN 0 ELSE limit - n.size)
       IN  [values |-> <<n.value>> \o rest.values, at |-> rest.at]

NoLimit == 1000

IndexEntry(tagx, bytes) ==
  LET start == Controls(tagx, bytes)
      Read(s, t) ==
        LET v == IF t.count >= 0 THEN Values(bytes, s.at, t.count * t.row.values, NoLimit)
                 ELSE Values(bytes, s.at, NoLimit, t.bytes)
        IN  [at |-> v.at, map |-> [s.map EXCEPT ![t.row.tag] = v.values]]
  IN  FoldLeft(Read, [at |-> start.at, map |-> [tag \in {tagx.rows[i].tag : i \in DOMAIN tagx.rows} |-> <<>>]], start.tags).map

-----------------------------------------------------------------------------
(* A book of the older format, class MOBI6: one text cut into sections at its  *)
(* page breaks, and links that name a place by its distance from the           *)
(* beginning. The text is a sequence of tokens, each counted as one byte:      *)
(* [is |-> "char"], [is |-> "break"] for a page break or                       *)
(* [is |-> "link", to |-> n] for a tag with the filepos n.                     *)

\* The sections begin at 0 and at every page break, counted from 0.
SectionStarts(text) ==
  <<0>> \o SelectSeq([i \in DOMAIN text |-> i - 1], LAMBDA at : text[at + 1].is = "break")

Sections6(text) ==
  LET starts == SectionStarts(text)
  IN  [i \in DOMAIN starts |->
         [start |-> starts[i], end |-> IF i = Len(starts) THEN Len(text) ELSE starts[i + 1]]]

\* fileposList: the places the book's links name, each once, in order.
FileposList(text) == SortSeq(SetToSeq({text[i].to : i \in {j \in DOMAIN text : text[j].is = "link"}}), LAMBDA m, n : m < n)

\* Mutant of LoadText6: what is between two anchors ends where the section does.
LoadText6Repeating(text, section, filepos) ==
  LET raw == SubSeq(text, section.start + 1, section.end)
      here == SelectSeq(filepos, LAMBDA n : n >= section.start /\ n < section.end)
      Piece(i) == <<[is |-> "anchor", to |-> here[i]]>> \o SubSeq(raw, here[i] - section.start + 1, Len(raw))
      whole == IF here = <<>> THEN raw
               ELSE SubSeq(raw, 1, here[1] - section.start) \o FlattenSeq([i \in DOMAIN here |-> Piece(i)])
  IN  SelectSeq(whole, LAMBDA token : token.is # "break")

\* loadText: an anchor before each place a link names, and no page breaks.
LoadText6(text, section, filepos) ==
  LET raw == SubSeq(text, section.start + 1, section.end)
      here == SelectSeq(filepos, LAMBDA n : n >= section.start /\ n < section.end)
      Next(i) == IF i = Len(here) THEN Len(raw) ELSE here[i + 1] - section.start
      Piece(i) == <<[is |-> "anchor", to |-> here[i]]>> \o SubSeq(raw, here[i] - section.start + 1, Next(i))
      whole == IF here = <<>> THEN raw
               ELSE SubSeq(raw, 1, here[1] - section.start) \o FlattenSeq([i \in DOMAIN here |-> Piece(i)])
  IN  SelectSeq(whole, LAMBDA token : token.is # "break")

\* resolveHref: the first section that ends after the place; 0 for none.
ResolveHref6(text, filepos) ==
  LET ends == {i \in DOMAIN Sections6(text) : Sections6(text)[i].end > filepos}
  IN  IF ends = {} THEN 0 ELSE Min(ends)

\* init reads the first section for its guide, and the section with the table of contents,
\* before it lists the places that links name; what it has read is kept.
ReadAtInit6(text, contents) == {1} \union (IF contents = Len(text) THEN {} ELSE {ResolveHref6(text, contents)})

TextOf6(text, contents, i) ==
  LoadText6(text, Sections6(text)[i], IF i \in ReadAtInit6(text, contents) THEN <<>> ELSE FileposList(text))
=============================================================================
