--------------------------- MODULE MCOfflineReader ---------------------------
(* A small instance of OfflineReader: two books in a browser that keeps one.  *)
EXTENDS OfflineReader, TLC

CONSTANTS b1, b2

\* Both books are opened, and push each other out of the cache.
Both == ({} :> 2) @@ ({"kill", "cut off", "early hide", "read before"} :> 1)

\* One of them is, in which the reader goes on from one place to another, and whatever may end
\* a replay happens, of two positions or one.
One ==
  ({"offline", "read before"} :> 2)
    @@ ({"server error", "read before"} :> 2)
    @@ ({"offline", "server error", "read before", "unsent"} :> 1)
    @@ ({"offline", "kill", "read before", "unsent"} :> 1)

MCClock == Both @@ One
MCEnvs == DOMAIN MCClock
MCShelf == [e \in MCEnvs |-> IF e \in DOMAIN Both THEN {b1, b2} ELSE {b1}]
=============================================================================
