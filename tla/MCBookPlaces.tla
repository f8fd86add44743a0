---------------------------- MODULE MCBookPlaces ----------------------------
(* A book with a package document and one without, of three and of two       *)
(* documents, with texts in several nodes, comments and ids of all kinds;    *)
(* and a book without text.                                                  *)
EXTENDS BookPlaces, TLC

Html(children) == Element(<<>>, <<Element(<<>>, <<>>), TextNode(1), Element(<<"b">>, children)>>)

Chapter ==
  Html(<<TextNode(1),
         Element(<<"a", "]">>, <<TextNode(2), TextNode(1), Comment, TextNode(2)>>),
         Element(<<>>, <<Element(<<>>, <<TextNode(1)>>), TextNode(1), Comment, Element(<<"^", ",", "1">>, <<>>)>>),
         Comment, TextNode(1), TextNode(0),
         Element(<<"c">>, <<TextNode(12)>>)>>)
Plate == Html(<<Element(<<"i">>, <<>>)>>)

Package ==
  Element(<<>>, <<Element(<<>>, <<>>), TextNode(1), Element(<<>>, <<>>),
                  Element(<<"s", "(">>, <<TextNode(1), Element(<<>>, <<>>), Comment, TextNode(1), Element(<<"r">>, <<>>),
                                          Element(<<"q", ";">>, <<>>)>>)>>)

Item(section, id) == [section |-> section, id |-> id]

Epub == [package |-> Package, spine |-> <<4>>, itemref |-> <<2, 5, 6>>, body |-> <<3>>,
         doc |-> <<Plate, Chapter, Plate>>, size |-> <<0, 4, 3>>,
         toc |-> <<Item(2, <<>>), Item(2, <<"a", "]">>), Item(2, <<"c">>), Item(3, <<>>)>>]
Other == [package |-> TextNode(0), spine |-> <<>>, itemref |-> <<>>, body |-> <<3>>,
          doc |-> <<Chapter, Plate>>, size |-> <<5, 2>>,
          toc |-> <<Item(1, <<"a", "]">>), Item(1, <<"^", ",", "1">>)>>]

Pictures == [package |-> TextNode(0), spine |-> <<>>, itemref |-> <<>>, body |-> <<3>>,
             doc |-> <<Plate>>, size |-> <<0>>, toc |-> <<>>]

MCBooks == {Epub, Other, Pictures}
MCFractions == {<<n, 7>> : n \in 0 .. 7} \union {<<1, 3>>, <<9, 10>>}
=============================================================================
