------------------------------ MODULE BookPages ------------------------------
(* The pages of a book in one sequence, section after section, without the    *)
(* sections that are not linear.                                              *)
EXTENDS Integers

CONSTANTS
  Pages,      \* the number of pages of the sections 0 .. n - 1
  NonLinear,  \* the sections with linear="no"
  Nothing

Section == DOMAIN Pages
Places == UNION {[sec : {s}, page : 1 .. Pages[s]] : s \in Section}

\* The linear sections beyond section s in direction dir, and the nearest of them.
Beyond(s, dir) == {t \in Section \ NonLinear : dir * (t - s) > 0}
Adjacent(s, dir) ==
  IF Beyond(s, dir) = {} THEN Nothing
  ELSE CHOOSE t \in Beyond(s, dir) : \A u \in Beyond(s, dir) : dir * (t - u) <= 0

\* The page beside x: in its section, or the first or the last one of the adjacent section.
Beside(x, dir) ==
  LET p == x.page + dir
      t == Adjacent(x.sec, dir)
  IN IF p \in 1 .. Pages[x.sec] THEN [x EXCEPT !.page = p]
     ELSE IF t = Nothing THEN x
     ELSE [sec |-> t, page |-> IF dir = 1 THEN 1 ELSE Pages[t]]
=============================================================================
