------------------------------- MODULE EpubCfi -------------------------------
(* The names of places in a book, static/lib/foliate/epubcfi.js: from a range  *)
(* of a document to a string, from the string to its parts, and back to a      *)
(* range. A document is its root element; an element has an id (the empty one  *)
(* for none) and children, which are elements, texts and comments. The nodes   *)
(* in it, paths, are named by the places of each and of those around it among  *)
(* their siblings.                                                             *)
(* Not modelled: temporal and spatial offsets, text assertions and sides,      *)
(* which this code reads but never writes, filters, which ropds sets none, and *)
(* compare(), which ropds does not call.                                       *)
EXTENDS Integers, Sequences, SequencesExt, FiniteSets, FiniteSetsExt

Element(id, children) ==
  [is |-> "element", id |-> id, size |-> 0, children |-> children,
   paths |-> {<<>>} \union UNION {{<<i>> \o p : p \in children[i].paths} : i \in DOMAIN children}]
Leaf(is, size) == [is |-> is, id |-> <<>>, size |-> size, children |-> <<>>, paths |-> {<<>>}]
TextNode(size) == Leaf("text", size)
Comment == Leaf("comment", 0)

Nodes(root) == root.paths
NodeAt(root, path) == FoldLeft(LAMBDA node, i : node.children[i], root, path)

Nothing == -1

-----------------------------------------------------------------------------
(* Children with their indices: elements have even ones, and the texts between two elements,  *)
(* one chunk, the odd one in between. The chunk may be empty; 0 and the index after the last  *)
(* chunk stand for the ends of the parent.                                                    *)

IsElement(child) == child.is = "element"
ElementsUpTo(children, i) == Cardinality({j \in 1 .. i : IsElement(children[j])})

IndexOf(children, i) ==
  IF IsElement(children[i]) THEN 2 * ElementsUpTo(children, i) ELSE 2 * ElementsUpTo(children, i) + 1

\* The nodes of an index: one element, or the texts of a chunk.
Indexed(children, index) ==
  SelectSeq([i \in DOMAIN children |-> i],
            LAMBDA i : children[i].is # "comment" /\ IndexOf(children, i) = index)

LastIndex(children) == 2 * ElementsUpTo(children, Len(children)) + 2

SizeOf(children, nodes) == FoldLeft(LAMBDA sum, i : sum + children[i].size, 0, nodes)

-----------------------------------------------------------------------------
(* From a point of a text to its parts, from a range to its name. *)

Part(index, id, offset) == [index |-> index, id |-> id, offset |-> offset]

\* nodeToParts: the offset is that in the chunk, as if its texts were one.
NodeToParts(root, point) ==
  LET n == Len(point.node)
      Siblings(k) == NodeAt(root, SubSeq(point.node, 1, k - 1)).children
      ChunkOffset ==
        LET siblings == Siblings(n)
            before == SelectSeq(Indexed(siblings, IndexOf(siblings, point.node[n])), LAMBDA i : i < point.node[n])
        IN  SizeOf(siblings, before) + point.offset
  IN  [k \in 1 .. n |-> Part(IndexOf(Siblings(k), point.node[k]), Siblings(k)[point.node[k]].id,
                             IF k = n THEN ChunkOffset ELSE Nothing)]

\* buildRange: what both ends have in common comes first, once.
SamePart(a, b) == a.index = b.index /\ a.offset \in {0, Nothing} /\ b.offset \in {0, Nothing}
BuildRange(from, to) ==
  LET common == Cardinality({k \in 1 .. Len(from) : k <= Len(to) /\ \A j \in 1 .. k : SamePart(from[j], to[j])})
  IN  <<SubSeq(from, 1, common), SubSeq(from, common + 1, Len(from)), SubSeq(to, common + 1, Len(to))>>

\* fromRange, with the parts of a name as a list of paths: one for a point, else three.
FromRange(root, range) ==
  LET from == NodeToParts(root, range.from)
  IN  IF range.from = range.to THEN <<from>> ELSE BuildRange(from, NodeToParts(root, range.to))

-----------------------------------------------------------------------------
(* From parts to characters. *)

Special == {"^", "[", "]", "(", ")", ",", ";", "="}
Escape(chars) == FlattenSeq([i \in DOMAIN chars |-> IF chars[i] \in Special THEN <<"^", chars[i]>> ELSE <<chars[i]>>])

Digits == <<"0", "1", "2", "3", "4", "5", "6", "7", "8", "9">>
Numeral[n \in Nat] ==
  IF n < 10 THEN <<Digits[n + 1]>> ELSE Append(Numeral[n \div 10], Digits[(n % 10) + 1])

PartToString(part) ==
  <<"/">> \o Numeral[part.index]
    \o (IF part.id # <<>> THEN <<"[">> \o Escape(part.id) \o <<"]">> ELSE <<>>)
    \o (IF part.offset # Nothing /\ part.index % 2 = 1 THEN <<":">> \o Numeral[part.offset] ELSE <<>>)

PathToString(path) == FlattenSeq([k \in DOMAIN path |-> PartToString(path[k])])

\* The paths of a range are separated by commas.
ToInnerString(paths) ==
  PathToString(paths[1]) \o FlattenSeq([i \in 1 .. Len(paths) - 1 |-> <<",">> \o PathToString(paths[i + 1])])

\* joinIndir: the document in the package, then the place in the document.
JoinIndir(base, inner) == base \o <<"!">> \o inner

\* fake: the name of a document in a book without a package document.
FromIndex(index) == <<"/">> \o Numeral[6] \o <<"/">> \o Numeral[(index + 1) * 2]
ToIndex(path) == (Last(path).index \div 2) - 1

-----------------------------------------------------------------------------
(* From characters to tokens. *)

ToInt(chars) == FoldLeft(LAMBDA n, c : 10 * n + (CHOOSE i \in DOMAIN Digits : Digits[i] = c) - 1, 0, chars)

Push(s, token) == [s EXCEPT !.tokens = Append(@, token), !.state = "", !.value = <<>>]
Cat(s, char) == [s EXCEPT !.value = Append(@, char), !.escape = FALSE]

\* What ends where another token, or the string, begins.
Finish(s) ==
  CASE s.state \in {"!", ","} -> Push(s, <<s.state, 0>>)
    [] s.state \in {"/", ":"} -> Push(s, <<s.state, ToInt(s.value)>>)
    [] OTHER -> s

Read(s, char) ==
  CASE char = "^" /\ ~s.escape -> [s EXCEPT !.escape = TRUE]
    [] s.state \in {"/", ":"} /\ char \in ToSet(Digits) -> Cat(s, char)
    [] s.state = "[" /\ char \in {",", "]"} /\ ~s.escape ->
         [Push(s, <<"[", s.value>>) EXCEPT !.state = IF char = "," THEN "[" ELSE ""]
    [] s.state = "[" /\ ~(char \in {",", "]"} /\ ~s.escape) /\ ~(char = "^" /\ ~s.escape) -> Cat(s, char)
    [] OTHER -> [Finish(s) EXCEPT !.state = IF char \in {"/", ":", "[", "!", ","} THEN char ELSE @]

Tokens(chars) ==
  Finish(FoldLeft(Read, [tokens |-> <<>>, state |-> "", value |-> <<>>, escape |-> FALSE], chars)).tokens

\* parser: an id is what is in brackets right after an index.
Parser(tokens) ==
  FoldLeft(LAMBDA s, token :
             CASE token[1] = "/" -> [parts |-> Append(s.parts, Part(token[2], <<>>, Nothing)), state |-> "/"]
               [] token[1] = ":" -> [parts |-> [s.parts EXCEPT ![Len(s.parts)].offset = token[2]], state |-> ":"]
               [] token[1] = "[" /\ s.state = "/" /\ token[2] # <<>> ->
                    [parts |-> [s.parts EXCEPT ![Len(s.parts)].id = token[2]], state |-> "["]
               [] OTHER -> s,
           [parts |-> <<>>, state |-> ""], tokens).parts

\* splitAt: the tokens before, between and after those of a kind.
SplitAt(tokens, kind) ==
  FoldLeft(LAMBDA pieces, token : IF token[1] = kind THEN Append(pieces, <<>>)
                                  ELSE [pieces EXCEPT ![Len(pieces)] = Append(@, token)],
           <<<<>>>>, tokens)

ParserIndir(tokens) == LET pieces == SplitAt(tokens, "!") IN [i \in DOMAIN pieces |-> Parser(pieces[i])]

\* parse: the paths of a point, or of the parent, the start and the end of a range.
Parse(chars) == LET pieces == SplitAt(Tokens(chars), ",") IN [i \in DOMAIN pieces |-> ParserIndir(pieces[i])]

ConcatArrays(a, b) == Front(a) \o <<Last(a) \o Head(b)>> \o Tail(b)

Collapse(parsed, toEnd) ==
  IF Len(parsed) = 1 THEN parsed[1] ELSE ConcatArrays(parsed[1], parsed[IF toEnd THEN 3 ELSE 2])

-----------------------------------------------------------------------------
(* From parts to a point. *)

Point(node, offset) == [node |-> node, offset |-> offset]
NoPoint == Point(<<>>, Nothing)

\* Mutant of InChunk: the end of a text belongs to the next text only.
InChunkBefore(root, path, nodes, offset) ==
  LET children == NodeAt(root, path).children
      ends == {k \in DOMAIN nodes : SizeOf(children, SubSeq(nodes, 1, k)) > offset}
  IN  IF ends = {} THEN NoPoint
      ELSE Point(Append(path, nodes[Min(ends)]), offset - SizeOf(children, SubSeq(nodes, 1, Min(ends) - 1)))

\* The text of a chunk where the offset is, counted over all of them; none is a failure.
InChunk(root, path, nodes, offset) ==
  LET children == NodeAt(root, path).children
      ends == {k \in DOMAIN nodes : SizeOf(children, SubSeq(nodes, 1, k)) >= offset}
  IN  IF ends = {} THEN NoPoint
      ELSE Point(Append(path, nodes[Min(ends)]), offset - SizeOf(children, SubSeq(nodes, 1, Min(ends) - 1)))

\* partsToNode: the element with the id of the last part, if it has one; else the way down by
\* the indices. Where there is no such node it ends at the edge of an element, and fails in an
\* element that has none.
Edge(path, children, index) ==
  LET empty == \A i \in DOMAIN children : children[i].is = "comment"
      last == LastIndex(children)
  IN  CASE ~empty /\ index \in {0, last} -> Point(path, Nothing)
        [] ~empty /\ index \in {1, last - 1} ->
             Point(Append(path, IF index = 1 THEN 1 ELSE Len(children)), 0)
        [] OTHER -> NoPoint

\* The loop over the parts, and what comes after it, from the point that they led to so far.
WalkPart(root, parts, at, k) ==
  LET path == at.point.node
      children == NodeAt(root, path).children
      nodes == Indexed(children, parts[k].index)
      Ends(point) == [ended |-> TRUE, point |-> point]
  IN  CASE at.ended -> at
        [] ~at.ended /\ nodes = <<>> -> Ends(Edge(path, children, parts[k].index))
        [] ~at.ended /\ nodes # <<>> /\ k < Len(parts) -> [at EXCEPT !.point.node = Append(path, nodes[1])]
        [] ~at.ended /\ Len(nodes) = 1 /\ k = Len(parts) -> Ends(Point(Append(path, nodes[1]), parts[k].offset))
        [] ~at.ended /\ Len(nodes) > 1 /\ k = Len(parts) -> Ends(InChunk(root, path, nodes, parts[k].offset))

WalkDown(root, parts) ==
  FoldLeftDomain(LAMBDA at, k : WalkPart(root, parts, at, k), [ended |-> FALSE, point |-> Point(<<>>, Nothing)], parts).point

PartsToNode(root, parts) ==
  LET id == Last(parts).id
      named == {path \in Nodes(root) : id # <<>> /\ NodeAt(root, path).id = id}
  IN  IF named # {} THEN Point(CHOOSE path \in named : TRUE, 0) ELSE WalkDown(root, parts)

\* toRange, of the parts in the document.
ToRange(root, parsed) ==
  [from |-> PartsToNode(root, Last(Collapse(parsed, FALSE))), to |-> PartsToNode(root, Last(Collapse(parsed, TRUE)))]
=============================================================================
