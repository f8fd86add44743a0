--------------------------- MODULE MCArchiveScan ----------------------------
(* Small instances of ArchiveScan: ZIP archives, or an INPX index, with up to   *)
(* two members.                                                                 *)
EXTENDS ArchiveScan, TLC

\* A skip of a ZIP archive confirms the rows of that archive.
MCScope == [a \in Archive |-> {a}]

Symmetry == Permutations(Archive) \cup Permutations(Name)
=============================================================================
