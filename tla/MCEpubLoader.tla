----------------------------- MODULE MCEpubLoader -----------------------------
(* Two chapters that share a style sheet with an image in it.                 *)
EXTENDS EpubLoader

Links(style, theme) ==
  [h \in {"ch1", "ch2", "style", "theme", "image"} |->
     CASE h = "ch1" -> <<"style", "image", "image">> [] h = "ch2" -> <<"style">>
       [] h = "style" -> style [] h = "theme" -> theme [] OTHER -> <<>>]

Book(links, spine, missing, damaged, impatient) ==
  [links |-> links, spine |-> spine, rewritten |-> {"ch1", "ch2", "style", "theme"},
   missing |-> missing, damaged |-> damaged, impatient |-> impatient]

Chapters == {"ch1", "ch2"}

\* A plain book, one with an image that only the first chapter shows, one whose styles import
\* each other, one without its second style, one with a chapter that is missing, one with
\* files that are damaged, and one whose reader does not wait.
MCBooks == {
  Book(Links(<<"theme", "image">>, <<"image">>), Chapters, {}, {}, FALSE),
  Book(Links(<<"theme">>, <<>>), Chapters, {}, {}, FALSE),
  Book(Links(<<"theme", "image">>, <<"style">>), Chapters, {}, {}, FALSE),
  Book(Links(<<"theme", "image">>, <<"image">>), Chapters, {"theme"}, {}, FALSE),
  Book(Links(<<"image">>, <<>>), Chapters \union {"theme"}, {"theme"}, {}, FALSE),
  Book(Links(<<"theme", "image">>, <<"image">>), Chapters, {}, {"ch2", "theme", "image"}, FALSE),
  Book(Links(<<"image">>, <<>>), Chapters, {}, {}, TRUE)}
=============================================================================
