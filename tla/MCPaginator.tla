----------------------------- MODULE MCPaginator -----------------------------
(* A book of three sections, the second of them not linear, with two pages,   *)
(* one page and two pages of text.                                            *)
EXTENDS Paginator

MCPages == [s \in 0 .. 2 |-> IF s = 1 THEN 1 ELSE 2]
MCNonLinear == {1}
MCEnvs == {{}, {"early keys"}, {"lost position"}, {"impatient reader"}, {"swipes"},
           {"broken section"}, {"empty section"}}
=============================================================================
