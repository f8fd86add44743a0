----------------------------- MODULE MCDjVuCodecs -----------------------------
(* Small files of every kind. *)
EXTENDS DjVuCodecs

\* Bits in two contexts, at even odds and at those of a sign; alone, after a long run of the
\* likely bit, after many carries, and after a context that has adapted one way and then back.
Symbols == {<<bit, c>> : bit \in {0, 1}, c \in {<<"a">>, <<"b">>, Raw, Iw}}
Many(n, symbol) == [i \in 1 .. n |-> symbol]
Preludes == {<<>>, Many(30, <<1, Raw>>), Many(40, <<0, <<"a">>>>),
             Many(24, <<1, <<"a">>>>) \o Many(6, <<0, <<"a">>>>) \o Many(3, <<1, Iw>>)}
Strings == {[coder |-> "zp", symbols |-> p \o s] : p \in Preludes, s \in [1 .. 2 -> Symbols]}

\* All short texts of two letters, bytes at the ends of their range, repetitions, and texts so
\* long that the frequencies are scaled down or adapt more slowly.
Block(kind, value, bytes) == [coder |-> "bzz", kind |-> kind, value |-> value, text |-> bytes]
Text(t) == Block("bytes", t, t)
Texts == {Text(t) : t \in UNION {[1 .. n -> {97, 98}] : n \in 1 .. 4}}
         \union {Text(<<0, 255, 0, 255, 128>>), Text(<<1, 2, 3, 1, 2, 3, 5, 9, 17, 40, 80, 200>>)}
         \union {Text([i \in 1 .. n |-> (i * i) % 7]) : n \in {30, 36, 42}}

\* Directories of files with and without names and titles, with pages and other files; an
\* outline three deep with letters of every length; a text of columns, lines and words, two of
\* which share a box, with a zone for every way to place one.
File(size, flags, id, name, title) ==
  [size |-> size, flags |-> flags, id |-> id, name |-> name, title |-> title]
Files == {<<File(65537, 1, <<112, 49>>, <<112, 49>>, <<112, 49>>)>>,
          <<File(300, 0, <<100>>, <<100>>, <<100>>), File(7, 193, <<113>>, <<233, 65>>, <<8364>>),
            File(0, 65, <<112>>, <<112>>, <<84>>), File(1, 130, <<116>>, <<117>>, <<116>>)>>}
Mark(description, url, children) == [description |-> description, url |-> url, children |-> children]
Outline == <<Mark(<<65>>, <<35, 49>>, <<Mark(<<233, 8364>>, <<>>, <<Mark(<<>>, <<35>>, <<>>)>>),
                                        Mark(<<128512>>, <<35>>, <<>>)>>),
             Mark(<<66>>, <<>>, <<>>)>>
Zone(type, x, y, w, h, start, n, children) ==
  [type |-> type, x |-> x, y |-> y, width |-> w, height |-> h, start |-> start, length |-> n, children |-> children]
Words == [text |-> <<97, 98, 32, 195, 169, 99>>,
          zone |-> Zone(1, 0, 0, 60, 90, 0, 6,
                     <<Zone(2, 5, 40, 20, 45, 0, 3,
                         <<Zone(5, 6, 70, 18, 10, 0, 2, <<Zone(6, 6, 71, 4, 8, 0, 1, <<>>), Zone(6, 12, 70, 3, 9, 1, 1, <<>>)>>),
                           Zone(5, 7, 55, 9, 10, 2, 1, <<>>)>>),
                       Zone(2, 30, 41, 20, 44, 3, 3, <<Zone(6, 31, 50, 5, 5, 3, 2, <<>>), Zone(6, 31, 50, 5, 5, 5, 1, <<>>)>>)>>)]
Documents == {Block("directory", f, WriteDirectory(f)) : f \in Files}
             \union {Block("outline", Outline, WriteOutline(Outline)), Block("text", Words, WriteText(Words))}

\* A page of three lines with every kind of record, one that takes shapes from a dictionary,
\* and that dictionary.
Dot   == Bitmap(1, 1, {<<0, 0>>})
Bar   == Bitmap(2, 3, {<<0, 0>>, <<1, 0>>, <<2, 0>>, <<2, 1>>})
Cross == Bitmap(3, 3, {<<0, 1>>, <<1, 0>>, <<1, 1>>, <<1, 2>>, <<2, 1>>})
Wide  == Bitmap(5, 4, {<<1, 1>>, <<1, 3>>, <<2, 2>>})
Page(records, taken) ==
  [coder |-> "jb2", width |-> 40, height |-> 30, taken |-> taken, isDict |-> FALSE,
   records |-> Append(records, Plain(11))]
Pages ==
  {Page(<<Record(1, Cross, 0, 3, 25, TRUE), Record(1, Wide, 0, 7, 24, FALSE), Record(7, Dot, 1, 9, 26, FALSE),
          Record(4, Bar, 0, 15, 22, FALSE), Record(7, Dot, 0, 20, 27, FALSE), Plain(9), Comment(<<0, 255>>),
          Record(3, Dot, 0, 2, 12, TRUE), Record(6, Wide, 2, 4, 10, FALSE), Record(2, Bar, 0, 0, 0, FALSE),
          Record(5, Cross, 3, 0, 0, FALSE), Record(7, Dot, 4, 1, 4, TRUE), Record(8, Bar, 0, 30, 20, FALSE)>>, <<>>),
   Page(<<Record(7, Dot, 1, 0, 20, TRUE), Record(4, Wide, 0, 8, 19, FALSE), Record(7, Dot, 2, 14, 21, FALSE)>>,
        <<Cross, Bar>>),
   [Page(<<Record(2, Cross, 0, 0, 0, FALSE), Plain(9), Record(5, Bar, 2, 0, 0, FALSE), Comment(<<7>>)>>, <<Dot, Bar>>)
      EXCEPT !.isDict = TRUE]}

\* Pictures: brightness alone, with colours that start late, in two blocks, and cut short.
Plane(height, width, F(_, _)) == [i \in 0 .. height - 1 |-> [j \in 0 .. width - 1 |-> F(i, j)]]
Picture(planes, delay, slices) == [coder |-> "iw44", planes |-> planes, delay |-> delay, slices |-> slices]
Edge(i, j)   == IF j > 1 THEN 8128 ELSE -8192
Slope(i, j)  == 64 * (7 * i - 5 * j)
Flat(i, j)   == 64
Pictures ==
  {Picture(<<Plane(3, 4, Edge)>>, 0, 200), Picture(<<Plane(7, 2, Slope)>>, 0, 90),
   Picture(<<Plane(2, 2, Slope), Plane(2, 2, Flat), Plane(2, 2, Edge)>>, 3, 203),
   Picture(<<Plane(14, 1, LAMBDA i, j : 64 * (i % 3))>>, 0, 200),
   Picture(<<Plane(50, 1, LAMBDA i, j : IF i = 40 THEN 640 ELSE 64)>>, 0, 100),
   Picture(<<Plane(1, 50, LAMBDA i, j : IF j % 7 = 3 THEN 640 ELSE 0)>>, 0, 120)}

MCInputs == Strings \union Texts \union Documents \union Pages \union Pictures
=============================================================================
