--------------------------- MODULE MCLibraryScan ----------------------------
(* Small instances of LibraryScan: one plain file, and an INPX index that      *)
(* lists the same archived book twice.                                         *)
EXTENDS LibraryScan, TLC

CONSTANTS f1, i1, i2, novel, essay, shelf, box, inpx

MCNameOf == (f1 :> novel) @@ (i1 :> essay) @@ (i2 :> essay)
MCDirOf  == (novel :> shelf) @@ (essay :> box)
MCArchiveOf == essay :> inpx

Symmetry == Permutations(Worker) \cup Permutations(RowId) \cup Permutations({i1, i2})
=============================================================================
