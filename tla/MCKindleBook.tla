---------------------------- MODULE MCKindleBook ----------------------------
(* Three small Kindle books, made by what follows the way the makers of such *)
(* books do, and two calls at a time.                                        *)
EXTENDS KindleBook

\* Numbers, index entries and strings as they are written.
RECURSIVE PutVarLen(_)
PutVarLen(n) == IF n < 128 THEN <<n + 128>>
                ELSE LET high == PutVarLen(n \div 128)
                     IN  [high EXCEPT ![Len(high)] = @ - 128] \o <<(n % 128) + 128>>
PutAll(ns) == FlattenSeq([i \in DOMAIN ns |-> PutVarLen(ns[i])])

Row(tag, values, mask) == [tag |-> tag, values |-> values, mask |-> mask, end |-> FALSE]
EndRow == [tag |-> 0, values |-> 0, mask |-> 0, end |-> TRUE]

PutEntry(tagx, map) ==
  LET rows == tagx.rows
      Lowest(mask) == BitsOf(mask)[1]
      Many(row) == Len(BitsOf(row.mask)) > 1 /\ Len(map[row.tag]) \div row.values >= row.mask \div Lowest(row.mask)
      Field2(row) == IF Many(row) THEN row.mask ELSE Lowest(row.mask) * (Len(map[row.tag]) \div row.values)
      Ends(i) == Cardinality({j \in 1 .. i : rows[j].end})
      Control(k) == FoldLeft(LAMBDA sum, i : sum + (IF ~rows[i].end /\ Ends(i) = k - 1 THEN Field2(rows[i]) ELSE 0),
                             0, [i \in DOMAIN rows |-> i])
      tagged == SelectSeq(rows, LAMBDA row : ~row.end)
  IN  [k \in 1 .. tagx.controlBytes |-> Control(k)]
        \o FlattenSeq([i \in DOMAIN tagged |-> IF Many(tagged[i]) THEN PutVarLen(Len(PutAll(map[tagged[i].tag]))) ELSE <<>>])
        \o FlattenSeq([i \in DOMAIN tagged |-> PutAll(map[tagged[i].tag])])

Index(tagx, maps) == [tagx |-> tagx, entries |-> [i \in DOMAIN maps |-> PutEntry(tagx, maps[i])]]

\* Text records as they are compressed: three bytes that repeat those from two bytes ago are copied.
RECURSIVE PutPalmDoc(_, _)
PutPalmDoc(bytes, i) ==
  LET Same == i > 2 /\ i + 2 <= Len(bytes) /\ \A k \in 0 .. 2 : bytes[i + k] = bytes[i + k - 2]
  IN  CASE i > Len(bytes) -> <<>>
        [] i <= Len(bytes) /\ Same -> <<128, 8 * 2>> \o PutPalmDoc(bytes, i + 3)
        [] i < Len(bytes) /\ ~Same /\ bytes[i] = 32 /\ bytes[i + 1] \in 64 .. 127 ->
             <<bytes[i + 1] + 128>> \o PutPalmDoc(bytes, i + 2)
        [] i <= Len(bytes) /\ ~Same /\ ~(i < Len(bytes) /\ bytes[i] = 32 /\ bytes[i + 1] \in 64 .. 127) ->
             (IF bytes[i] \in 9 .. 127 THEN <<bytes[i]>> ELSE <<1, bytes[i]>>) \o PutPalmDoc(bytes, i + 1)

\* The codes 1, 01, 001 and 000, of four strings; the last is compressed itself.
Huff ==
  [table1 |-> [b \in 0 .. 255 |-> CASE b >= 128 -> [found |-> TRUE, length |-> 1, base |-> 1]
                                    [] b \in 64 .. 127 -> [found |-> TRUE, length |-> 2, base |-> 2]
                                    [] b < 64 -> [found |-> FALSE, length |-> 2, base |-> 0]],
   table2 |-> [n \in 1 .. 3 |-> [least |-> IF n = 3 THEN 0 ELSE 1, base |-> IF n = 3 THEN 3 ELSE n]],
   dictionary |-> <<[plain |-> TRUE, bytes |-> <<65>>], [plain |-> TRUE, bytes |-> <<66, 67>>],
                    [plain |-> TRUE, bytes |-> <<>>], [plain |-> FALSE, bytes |-> <<171>>]>>]
NoHuff == [table1 |-> <<>>, table2 |-> <<>>, dictionary |-> <<>>]

\* The text of a book: two skeletons with their fragments, and a style sheet.
P1 == <<60, 62, 9>>   P2 == <<32, 65, 0>>
F0 == <<97, 98, 97>>  F1 == <<98, 97, 98, 97, 98, 97>>  F2 == <<200, 100, 101>>
Style == <<123, 125>>
WholeText == P1 \o F0 \o F1 \o P2 \o F2 \o Style

SkelTagx == [controlBytes |-> 1, rows |-> <<Row(1, 1, 3), Row(6, 2, 12), EndRow>>]
FragTagx == [controlBytes |-> 1, rows |-> <<Row(2, 1, 1), Row(4, 1, 2), Row(6, 2, 12), EndRow>>]
NcxTagx == [controlBytes |-> 2, rows |-> <<Row(3, 1, 1), Row(4, 1, 32), Row(5, 1, 6), Row(6, 1, 24), EndRow,
                                           Row(21, 1, 1), Row(22, 1, 2), Row(23, 1, 4), EndRow>>]

Skel == Index(SkelTagx, <<(1 :> <<2>> @@ 6 :> <<0, 3>>), (1 :> <<1>> @@ 6 :> <<12, 3>>)>>)
Frag == [tagx |-> FragTagx, names |-> <<2, 6, 15>>,
         entries |-> Index(FragTagx, <<(2 :> <<0>> @@ 4 :> <<0>> @@ 6 :> <<0, 3>>),
                                       (2 :> <<0>> @@ 4 :> <<1>> @@ 6 :> <<3, 6>>),
                                       (2 :> <<0>> @@ 4 :> <<2>> @@ 6 :> <<0, 3>>)>>).entries]
Page1 == SubSeq(P1, 1, 2) \o F0 \o SubSeq(P1, 3, 3)
Pages == <<SubSeq(Page1, 1, 6) \o F1, P2 \o F2>>

Long == [i \in 1 .. 130 |-> 70]
NcxRow(label, level, other, pos, parent, children) ==
  3 :> <<label>> @@ 4 :> <<level>> @@ 5 :> other @@ 6 :> pos @@ 21 :> parent
    @@ 22 :> (IF children = <<>> THEN <<>> ELSE <<Head(children)>>)
    @@ 23 :> (IF children = <<>> THEN <<>> ELSE <<Last(children)>>)
Ncx ==
  [tagx |-> NcxTagx,
   entries |-> Index(NcxTagx,
     <<NcxRow(0, 0, <<300, 1, 2>>, <<0, 1>>, <<>>, <<2, 3>>),
       NcxRow(65536, 0, <<>>, <<2, 0>>, <<>>, <<>>),
       NcxRow(2, 1, <<>>, <<1, 4>>, <<0>>, <<4>>),
       NcxRow(65536, 1, <<4>>, <<2, 0>>, <<0>>, <<>>),
       NcxRow(0, 2, <<>>, <<1, 4>>, <<2>>, <<>>)>>).entries,
   strings |-> <<PutVarLen(1) \o <<88>> \o PutVarLen(130) \o Long, PutVarLen(2) \o <<90, 90>>>>]
Meaning(label, pos, below) == [label |-> label, pos |-> pos, below |-> below]
Meant ==
  <<Meaning(<<88>>, <<0, 1>>, <<Meaning(Long, <<1, 4>>, <<Meaning(<<88>>, <<1, 4>>, <<>>)>>),
                                Meaning(<<90, 90>>, <<2, 0>>, <<>>)>>),
    Meaning(<<90, 90>>, <<2, 0>>, <<>>)>>

\* A text of the older format: its contents, and two chapters with links forth and back.
Char == [is |-> "char"]
PageBreak == [is |-> "break"]
LinkTo(n) == [is |-> "link", to |-> n]
Old == <<LinkTo(7), LinkTo(5), PageBreak, Char, LinkTo(1), Char, PageBreak, Char, LinkTo(4), LinkTo(9), Char>>

\* Records: a header, the text and one of another kind.
Book(pieces, compression, trailing, end, fdst) ==
  LET Put(piece) == CASE compression = 1 -> piece
                      [] compression = 2 -> PutPalmDoc(piece, 1)
      n == Len(pieces)
  IN  [record |-> [i \in 0 .. n + 1 |-> IF i \in 1 .. n THEN Put(pieces[i]) \o end ELSE <<65, 65, 65, 65>> \o end],
       textRecords |-> n, compression |-> compression, huff |-> NoHuff, trailing |-> trailing, fdst |-> fdst,
       skel |-> Skel, frag |-> Frag, ncx |-> Ncx, flowsOf |-> IF fdst = <<>> THEN <<<<>>, <<>>>> ELSE <<<<2>>, <<2>>>>,
       text |-> WholeText, pages |-> Pages, meant |-> Meant, old |-> Old, oldContents |-> Len(Old),
       fragment |-> [fid \in 0 .. 2 |-> CASE fid = 0 -> F0 [] fid = 1 -> F1 [] fid = 2 -> F2]]

Fdst == <<<<0, 18>>, <<18, 20>>>>
Cut3(n, m) == <<SubSeq(WholeText, 1, n), SubSeq(WholeText, n + 1, m), SubSeq(WholeText, m + 1, Len(WholeText))>>

PalmBook == Book(Cut3(7, 14), 2, [entries |-> 2, multibyte |-> TRUE], <<1, 5, 129, 9, 8, 131>>, Fdst)
PlainBook == Book(Cut3(4, 11), 1, [entries |-> 0, multibyte |-> FALSE], <<>>, <<>>)

\* AAA BCBC A, ABCBCBCA and BCA in three records, as one section of two fragments.
HuffText == <<65, 65, 65, 66, 67, 66, 67, 65, 65, 66, 67, 66, 67, 66, 67, 65, 66, 67, 65>>
HuffBook ==
  [PalmBook EXCEPT
     !.compression = 17480, !.huff = Huff, !.trailing = [entries |-> 1, multibyte |-> FALSE],
     \* 1 1 1 01 01 1, 000 001 and 01 001 1, then zeros that are no code
     !.record = 0 :> <<65, 129>> @@ 1 :> <<235, 129>> @@ 2 :> <<4, 129>> @@ 3 :> <<76, 129>> @@ 4 :> <<65, 129>>,
     !.skel = Index(SkelTagx, <<(1 :> <<2>> @@ 6 :> <<0, 3>>)>>),
     !.frag.names = <<1, 3, 0>>,
     !.frag.entries = Index(FragTagx, <<(2 :> <<0>> @@ 4 :> <<0>> @@ 6 :> <<0, 4>>),
                                        (2 :> <<0>> @@ 4 :> <<1>> @@ 6 :> <<4, 6>>)>>).entries,
     !.fdst = <<<<0, 13>>, <<13, 19>>>>, !.flowsOf = <<<<2>>>>, !.text = HuffText,
     !.pages = <<SubSeq(HuffText, 1, 1) \o SubSeq(HuffText, 4, 5) \o SubSeq(HuffText, 8, 13)
                   \o SubSeq(HuffText, 6, 7) \o SubSeq(HuffText, 2, 3)>>,
     !.fragment = 0 :> SubSeq(HuffText, 4, 7) @@ 1 :> SubSeq(HuffText, 8, 13) @@ 2 :> <<>>]

MCBooks == {PalmBook, PlainBook, HuffBook}
=============================================================================
