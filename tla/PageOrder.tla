------------------------------ MODULE PageOrder ------------------------------
(* What the reader of a book sees: a turn moves by one page and a jump goes   *)
(* where it says; each takes a while and ends.                                *)
EXTENDS BookPages

VARIABLES
  place,   \* the page on the screen; Nothing: none yet
  request  \* the turn or the jump under way

reading == <<place, request>>

Turn(dir) == [turn |-> dir]
Jump(x) == [jump |-> x]

Init == place = Nothing /\ request = Nothing

Ask(r) ==
  /\ request = Nothing
  /\ request' = r /\ UNCHANGED place

AskTurn == \E dir \in {1, -1} : place # Nothing /\ Ask(Turn(dir))
AskJump == \E x \in Places : Ask(Jump(x))

Answer ==
  /\ request # Nothing
  /\ place' = IF "jump" \in DOMAIN request THEN request.jump ELSE Beside(place, request.turn)
  /\ request' = Nothing

\* A jump within the section takes no time.
JumpNear ==
  /\ request = Nothing /\ place # Nothing
  /\ place' \in {x \in Places : x.sec = place.sec}
  /\ UNCHANGED request

Next == AskTurn \/ AskJump \/ Answer \/ JumpNear

Safety == Init /\ [][Next]_reading
Spec == Safety /\ WF_reading(Answer)
=============================================================================
