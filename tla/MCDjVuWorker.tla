---------------------------- MODULE MCDjVuWorker ----------------------------
(* Two pages, of which the first, a large one, includes two shared files.     *)
EXTENDS DjVuWorker

MCNeeds == <<<<"d", "e">>, << >>>>
MCDirectory == <<"p1", "d", "e", "p2">>
MCPages == <<1, 4>>

\* What the viewer asks of a page: its picture, or its picture and its text.
MCUseLists == <<<<"png">>, <<"draw", "read">>>>
=============================================================================
