--------------------------- MODULE Paginator_proofs ---------------------------
(* What the reader records, keeps loaded and sees, proved for any book, any   *)
(* number of navigations that overlap and any mix of environments.            *)
EXTENDS Paginator, TLAPS, WellFoundedInduction

-----------------------------------------------------------------------------
(* Least elements and adjacent sections. *)

LEMMA LeastExists ==
  ASSUME NEW S \in SUBSET Nat, S # {}
  PROVE  \E x \in S : \A y \in S : x <= y
<1>1. \E x \in S : \A y \in S : ~(<<y, x>> \in OpToRel(<, Nat))
  BY WFMin, NatLessThanWellFounded, Zenon
<1>2. PICK x \in S : \A y \in S : ~(<<y, x>> \in OpToRel(<, Nat))
  BY <1>1, Zenon
<1>3. \A y \in S : ~(y < x)
  <2>1. SUFFICES ASSUME NEW y \in S, y < x PROVE FALSE
    OBVIOUS
  <2>2. <<y, x>> \in OpToRel(<, Nat)
    BY <2>1, Zenon DEF OpToRel
  <2> QED BY <2>2, <1>2, Zenon
<1> QED BY <1>3

LEMMA AdjacentIsBeyond ==
  ASSUME \A s \in Section : s \in Nat, NEW s \in Int, NEW dir \in {1, -1}, Beyond(s, dir) # {}
  PROVE  Adjacent(s, dir) \in Beyond(s, dir)
<1> DEFINE B == Beyond(s, dir)
           D == {dir * (t - s) : t \in B}
<1>1. D \in SUBSET Nat /\ D # {}
  BY DEF Beyond
<1>2. PICK d \in D : \A e \in D : d <= e
  <2> HIDE DEF D
  <2> QED BY <1>1, LeastExists
<1>3. PICK t \in B : d = dir * (t - s)
  OBVIOUS
<1>4. \A u \in B : dir * (t - u) <= 0
  <2> TAKE u \in B
  <2>1. dir * (t - s) <= dir * (u - s)
    BY <1>2, <1>3
  <2>2. t \in Int /\ u \in Int
    BY DEF Beyond
  <2>3. CASE dir = 1 BY <2>1, <2>2, <2>3
  <2>4. CASE dir = -1 BY <2>1, <2>2, <2>4
  <2> QED BY <2>3, <2>4
<1> QED BY <1>4 DEF Adjacent

-----------------------------------------------------------------------------
\* What is under way goes to a section, at a page of it if it is a jump; a turn or a swipe
\* has a direction.
GoesTo(op) ==
  /\ op.stage # "wait" => op.to \in Section
  /\ IF op.kind = "jump" THEN op.to \in Section /\ op.at \in Text(op.to)
     ELSE op.dir \in {1, -1}
NavigationGoes == \A n \in Navigations : nav[n] # Nothing => GoesTo(nav[n])

\* An iframe is waited for once there is a view; it is until it has loaded.
FrameIsAwaited ==
  IF view = Nothing
  THEN \A n \in Navigations : nav[n] # Nothing => nav[n].stage # "frame"
  ELSE
    /\ index # -1
    /\ ~view.ready => /\ nav[view.nav] # Nothing /\ nav[view.nav].stage = "frame"
                      /\ nav[view.nav].to = view.sec

PageInv == TypeOK /\ NavigationGoes /\ FrameIsAwaited

-----------------------------------------------------------------------------

\* Relocate records a place.
LEMMA RelocateTypes ==
  ASSUME PaginatorAssumption, pos \in Place \union {Nothing},
         NEW i \in Section \union {Nothing}, NEW v \in View, NEW p \in Int, Relocate(i, v, p)
  PROVE  pos' \in Place \union {Nothing}
<1>1. VisiblePage(v, p) \in Nat
  BY DEF VisiblePage, Text, View, PaginatorAssumption
<1> QED BY <1>1 DEF Relocate, Place

\* The section that #adjacentIndex finds.
LEMMA AdjacentTypes ==
  ASSUME PaginatorAssumption, index \in Index, NEW dir \in {1, -1}, AdjacentIndex(dir) # Nothing
  PROVE  /\ index # Nothing /\ AdjacentIndex(dir) = Adjacent(index, dir)
         /\ AdjacentIndex(dir) \in Section /\ AdjacentIndex(dir) # index
<1>1. index # Nothing /\ AdjacentIndex(dir) = Adjacent(index, dir)
  BY DEF AdjacentIndex
<1>2. index \in Int /\ \A s \in Section : s \in Nat
  BY <1>1 DEF Index, PaginatorAssumption
<1>3. Adjacent(index, dir) \in Beyond(index, dir)
  <2>1. Beyond(index, dir) # {}
    BY <1>1 DEF Adjacent
  <2> QED BY <1>2, <2>1, AdjacentIsBeyond
<1>4. \A t \in Beyond(index, dir) : t \in Section /\ t # index
  BY <1>2 DEF Beyond
<1> QED BY <1>1, <1>3, <1>4

LEMMA ShownTypes ==
  ASSUME PaginatorAssumption, TypeOK
  PROVE  Shown \in Place \union {Nothing}
BY DEF Shown, TypeOK, Place, View, PaginatorAssumption, Reachable

\* A navigation begins.
LEMMA BeganTypes ==
  ASSUME PaginatorAssumption, NothingAssumption, PageInv, NEW n \in Navigations, Free(n),
         NEW op \in Operation, GoesTo(op), op.stage # "frame", Began(n, op)
  PROVE  /\ nav' \in [Navigations -> Operation \union {Nothing}] /\ NavigationGoes'
         /\ started' \in 0 .. MaxJumps /\ from' \in Place \union {Nothing}
         /\ \A m \in Navigations : nav'[m] = nav[m] \/ (nav[m] = Nothing /\ nav'[m].stage # "frame")
<1>1. nav' \in [Navigations -> Operation \union {Nothing}]
  BY DEF PageInv, TypeOK, Began
<1>2. nav'[n] = op /\ \A m \in Navigations : m # n => nav'[m] = nav[m]
  BY DEF PageInv, TypeOK, Began
<1>3. nav[n] = Nothing /\ started \in 0 .. MaxJumps /\ started < MaxJumps /\ started' = started + 1
  BY DEF PageInv, TypeOK, Free, Began
<1>4. started' \in 0 .. MaxJumps
  BY <1>3 DEF PaginatorAssumption
<1>5. NavigationGoes'
  <2> SUFFICES ASSUME NEW m \in Navigations, nav'[m] # Nothing PROVE GoesTo(nav'[m])
    BY DEF NavigationGoes, GoesTo, Text
  <2>1. CASE m = n
    BY <2>1, <1>2
  <2>2. CASE m # n
    BY <2>2, <1>2 DEF PageInv, NavigationGoes
  <2> QED BY <2>1, <2>2
<1>6. from' \in Place \union {Nothing}
  BY ShownTypes DEF Began, PageInv
<1> QED BY <1>1, <1>2, <1>3, <1>4, <1>5, <1>6

\* A navigation goes on to another stage.
LEMMA StageTypes ==
  ASSUME PageInv, NEW n \in Navigations, nav[n] # Nothing, NEW stage \in {"frame", "wait"},
         nav[n].stage # "wait", nav' = [nav EXCEPT ![n].stage = stage]
  PROVE  /\ nav' \in [Navigations -> Operation \union {Nothing}] /\ NavigationGoes'
         /\ \A m \in Navigations : m # n => nav'[m] = nav[m]
         /\ nav'[n] = [nav[n] EXCEPT !.stage = stage]
<1>1. nav[n] \in Operation /\ nav'[n] = [nav[n] EXCEPT !.stage = stage]
  BY DEF PageInv, TypeOK
<1>2. nav'[n] \in Operation
  BY <1>1 DEF Operation
<1>3. nav' \in [Navigations -> Operation \union {Nothing}]
      /\ \A m \in Navigations : m # n => nav'[m] = nav[m]
  BY <1>2 DEF PageInv, TypeOK
<1>4. nav'[n].to = nav[n].to /\ nav'[n].kind = nav[n].kind /\ nav'[n].dir = nav[n].dir
      /\ nav'[n].at = nav[n].at
  BY <1>1 DEF Operation
<1>5. NavigationGoes'
  <2> SUFFICES ASSUME NEW m \in Navigations, nav'[m] # Nothing PROVE GoesTo(nav'[m])
    BY DEF NavigationGoes, GoesTo, Text
  <2>1. CASE m = n
    BY <2>1, <1>4 DEF PageInv, NavigationGoes, GoesTo
  <2>2. CASE m # n
    BY <2>2, <1>3 DEF PageInv, NavigationGoes
  <2> QED BY <2>1, <2>2
<1> QED BY <1>1, <1>3, <1>5

\* A navigation ends.
LEMMA EndTypes ==
  ASSUME PageInv, NEW n \in Navigations, nav' = [nav EXCEPT ![n] = Nothing]
  PROVE  /\ nav' \in [Navigations -> Operation \union {Nothing}] /\ NavigationGoes'
         /\ \A m \in Navigations : m # n => nav'[m] = nav[m]
         /\ nav'[n] = Nothing
<1>1. nav' \in [Navigations -> Operation \union {Nothing}] /\ nav'[n] = Nothing
      /\ \A m \in Navigations : m # n => nav'[m] = nav[m]
  BY DEF PageInv, TypeOK
<1>2. NavigationGoes'
  BY <1>1 DEF PageInv, NavigationGoes, GoesTo, Text
<1> QED BY <1>1, <1>2

\* A turn waits before it ends, other navigations end at once.
LEMMA LastStageTypes ==
  ASSUME PageInv, NEW n \in Navigations, nav[n] # Nothing, nav[n].stage # "wait",
         nav' = [nav EXCEPT ![n] = IF @.kind = "turn" THEN [@ EXCEPT !.stage = "wait"] ELSE Nothing]
  PROVE  /\ nav' \in [Navigations -> Operation \union {Nothing}] /\ NavigationGoes'
         /\ \A m \in Navigations : m # n => nav'[m] = nav[m]
         /\ nav'[n] = IF nav[n].kind = "turn" THEN [nav[n] EXCEPT !.stage = "wait"] ELSE Nothing
<1>1. CASE nav[n].kind = "turn"
  <2>1. nav' = [nav EXCEPT ![n].stage = "wait"]
    BY <1>1
  <2> QED BY <1>1, <2>1, StageTypes
<1>2. CASE nav[n].kind # "turn"
  BY <1>2, EndTypes
<1> QED BY <1>1, <1>2

\* The parts of TypeOK that most steps leave alone.
LEMMA AwaitedStays ==
  ASSUME PageInv, UNCHANGED <<view, index>>,
         \A m \in Navigations : nav'[m] = nav[m] \/ (nav[m] = Nothing /\ nav'[m].stage # "frame")
  PROVE  FrameIsAwaited'
BY DEF PageInv, TypeOK, FrameIsAwaited, View

-----------------------------------------------------------------------------
(* One lemma per action: PageInv. *)

\* What a turn is recorded as.
LEMMA TurnTypes ==
  ASSUME PaginatorAssumption, TypeOK, NEW kind \in {"turn", "snap"}, NEW dir \in {1, -1}
  PROVE  /\ [Navigation(kind, dir, Nothing, Nothing) EXCEPT !.stage = "wait"].stage # "frame"
         /\ \A to : Navigation(kind, dir, to, dir).stage # "frame"
         /\ [Navigation(kind, dir, Nothing, Nothing) EXCEPT !.stage = "wait"] \in Operation
         /\ GoesTo([Navigation(kind, dir, Nothing, Nothing) EXCEPT !.stage = "wait"])
         /\ \A to \in Section : /\ Navigation(kind, dir, to, dir) \in Operation
                                /\ GoesTo(Navigation(kind, dir, to, dir))
BY DEF Navigation, Operation, GoesTo, TypeOK

LEMMA TurnInSectionPage ==
  ASSUME PaginatorAssumption, NothingAssumption, PageInv,
         NEW n \in Navigations, NEW dir \in {1, -1}, TurnInSection(n, dir)
  PROVE  PageInv'
<1> DEFINE op == [Navigation("turn", dir, Nothing, Nothing) EXCEPT !.stage = "wait"]
<1>1. op \in Operation /\ GoesTo(op) /\ op.stage # "frame"
  BY TurnTypes DEF PageInv
<1>2. Began(n, op) /\ Free(n)
  BY DEF TurnInSection
<1> HIDE DEF op
<1>3. /\ nav' \in [Navigations -> Operation \union {Nothing}] /\ NavigationGoes'
      /\ started' \in 0 .. MaxJumps /\ from' \in Place \union {Nothing}
      /\ \A m \in Navigations : nav'[m] = nav[m] \/ (nav[m] = Nothing /\ nav'[m].stage # "frame")
  BY <1>1, <1>2, BeganTypes
<1>4. view \in View /\ page' \in Text(view.sec) /\ index \in Section \union {Nothing}
  BY DEF PageInv, TypeOK, TurnInSection, FrameIsAwaited, Index
<1>5. page' \in Int /\ page' \in Reachable(view.sec)
  BY <1>4 DEF Text, Reachable, View, PaginatorAssumption
<1>6. pos' \in Place \union {Nothing}
  BY <1>4, <1>5, RelocateTypes DEF TurnInSection, PageInv, TypeOK
<1>7. FrameIsAwaited'
  BY <1>3, AwaitedStays DEF TurnInSection
<1> QED BY <1>3, <1>5, <1>6, <1>7 DEF PageInv, TypeOK, TurnInSection, Reachable

LEMMA TurnAtEndPage ==
  ASSUME PaginatorAssumption, NothingAssumption, PageInv,
         NEW n \in Navigations, NEW dir \in {1, -1}, TurnAtEnd(n, dir)
  PROVE  PageInv'
<1> DEFINE op == [Navigation("turn", dir, Nothing, Nothing) EXCEPT !.stage = "wait"]
<1>1. op \in Operation /\ GoesTo(op) /\ op.stage # "frame"
  BY TurnTypes DEF PageInv
<1>2. Began(n, op) /\ Free(n)
  BY DEF TurnAtEnd
<1> HIDE DEF op
<1>3. /\ nav' \in [Navigations -> Operation \union {Nothing}] /\ NavigationGoes'
      /\ started' \in 0 .. MaxJumps /\ from' \in Place \union {Nothing}
      /\ \A m \in Navigations : nav'[m] = nav[m] \/ (nav[m] = Nothing /\ nav'[m].stage # "frame")
  BY <1>1, <1>2, BeganTypes
<1>4. FrameIsAwaited'
  BY <1>3, AwaitedStays DEF TurnAtEnd
<1> QED BY <1>3, <1>4 DEF PageInv, TypeOK, TurnAtEnd, Reachable

LEMMA TurnToSectionPage ==
  ASSUME PaginatorAssumption, NothingAssumption, PageInv,
         NEW n \in Navigations, NEW dir \in {1, -1}, TurnToSection(n, dir)
  PROVE  PageInv'
<1> DEFINE op == Navigation("turn", dir, AdjacentIndex(dir), dir)
<1>1. op \in Operation /\ GoesTo(op) /\ op.stage # "frame"
  BY TurnTypes, AdjacentTypes DEF PageInv, TurnToSection, TypeOK
<1>2. Began(n, op) /\ Free(n)
  BY DEF TurnToSection
<1> HIDE DEF op
<1>3. /\ nav' \in [Navigations -> Operation \union {Nothing}] /\ NavigationGoes'
      /\ started' \in 0 .. MaxJumps /\ from' \in Place \union {Nothing}
      /\ \A m \in Navigations : nav'[m] = nav[m] \/ (nav[m] = Nothing /\ nav'[m].stage # "frame")
  BY <1>1, <1>2, BeganTypes
<1>4. /\ pos' \in Place \union {Nothing}
      /\ IF view = Nothing THEN page' = 0 ELSE page' \in Reachable(view.sec)
  <2>1. CASE view = Nothing
    BY <2>1 DEF TurnToSection, PageInv, TypeOK
  <2>2. CASE view # Nothing
    <3>1. view \in View /\ index \in Section \union {Nothing} /\ page' \in Reachable(view.sec)
      BY <2>2 DEF TurnToSection, PageInv, TypeOK, FrameIsAwaited, Index
    <3>2. page' \in Int
      BY <3>1 DEF Reachable, View, PaginatorAssumption
    <3>3. pos' \in Place \union {Nothing}
      BY <2>2, <3>1, <3>2, RelocateTypes DEF TurnToSection, PageInv, TypeOK
    <3> QED BY <2>2, <3>1, <3>3
  <2> QED BY <2>1, <2>2
<1>5. FrameIsAwaited'
  BY <1>3, AwaitedStays DEF TurnToSection
<1> QED BY <1>3, <1>4, <1>5 DEF PageInv, TypeOK, TurnToSection, Reachable

LEMMA TurnFailsPage ==
  ASSUME PaginatorAssumption, PageInv, NEW n \in Navigations, NEW dir \in {1, -1}, TurnFails(n, dir)
  PROVE  PageInv'
<1>1. started' \in 0 .. MaxJumps
  BY DEF TurnFails, PageInv, TypeOK, Free, PaginatorAssumption
<1> QED BY <1>1 DEF PageInv, TypeOK, TurnFails, NavigationGoes, GoesTo, Text, FrameIsAwaited, Reachable

LEMMA WaitEndsPage ==
  ASSUME PageInv, NEW n \in Navigations, WaitEnds(n)
  PROVE  PageInv'
<1>1. /\ nav' \in [Navigations -> Operation \union {Nothing}] /\ NavigationGoes'
      /\ \A m \in Navigations : m # n => nav'[m] = nav[m]
  BY EndTypes DEF WaitEnds
<1>2. FrameIsAwaited'
  BY <1>1 DEF PageInv, TypeOK, FrameIsAwaited, WaitEnds, View
<1> QED BY <1>1, <1>2 DEF PageInv, TypeOK, WaitEnds, Reachable

LEMMA GoToSectionTypes ==
  ASSUME PaginatorAssumption, NothingAssumption, PageInv,
         NEW n \in Navigations, NEW s \in Section, NEW p \in Text(s), GoToSection(n, s, p),
         opened' \in BOOLEAN
  PROVE  PageInv'
<1> DEFINE op == Navigation("jump", 0, s, p)
<1>1. op \in Operation /\ GoesTo(op) /\ op.stage # "frame"
  BY DEF Navigation, Operation, GoesTo, Text, PageInv, TypeOK, PaginatorAssumption
<1>2. Began(n, op) /\ Free(n)
  BY DEF GoToSection
<1> HIDE DEF op
<1>3. /\ nav' \in [Navigations -> Operation \union {Nothing}] /\ NavigationGoes'
      /\ started' \in 0 .. MaxJumps /\ from' \in Place \union {Nothing}
      /\ \A m \in Navigations : nav'[m] = nav[m] \/ (nav[m] = Nothing /\ nav'[m].stage # "frame")
  BY <1>1, <1>2, BeganTypes
<1>4. FrameIsAwaited'
  BY <1>3, AwaitedStays DEF GoToSection
<1> QED BY <1>3, <1>4 DEF PageInv, TypeOK, GoToSection, Reachable

LEMMA JumpsPage ==
  ASSUME PaginatorAssumption, NothingAssumption, PageInv, NEW n \in Navigations,
         Jumps(n) \/ OpenSaved(n)
  PROVE  PageInv'
BY GoToSectionTypes DEF Jumps, OpenSaved, PageInv, TypeOK

LEMMA JumpInSectionPage ==
  ASSUME PaginatorAssumption, NothingAssumption, PageInv, JumpInSection
  PROVE  PageInv'
<1>0. PICK s \in Section : \E p \in Text(s) : GoToPage(s, p)
  BY DEF JumpInSection
<1>1. PICK p \in Text(s) : GoToPage(s, p)
  BY <1>0
<1>2. view \in View /\ view # Nothing /\ index = s /\ started' \in 0 .. MaxJumps
  BY <1>1 DEF GoToPage, PageInv, TypeOK, PaginatorAssumption
<1>3. page' \in Reachable(view.sec)
  BY <1>1, <1>2 DEF GoToPage, Reachable, Text, View, PaginatorAssumption, PageInv, TypeOK
<1>4. page' \in Int
  BY <1>2, <1>3 DEF Reachable, View, PaginatorAssumption
<1>5. pos' \in Place \union {Nothing}
  BY <1>1, <1>2, <1>4, RelocateTypes DEF GoToPage, PageInv, TypeOK
<1>6. FrameIsAwaited'
  BY <1>1, AwaitedStays DEF GoToPage
<1>7. NavigationGoes'
  BY <1>1 DEF GoToPage, PageInv, NavigationGoes, GoesTo, Text
<1> QED BY <1>1, <1>2, <1>3, <1>5, <1>6, <1>7 DEF PageInv, TypeOK, GoToPage, Reachable

LEMMA OpenNowherePage ==
  ASSUME PageInv, OpenNowhere
  PROVE  PageInv'
<1>1. opened' = TRUE /\ UNCHANGED <<env, index, view, page, locked, nav, from, loaded, pos, started>>
  BY Zenon DEF OpenNowhere
<1> QED BY <1>1 DEF PageInv, TypeOK, NavigationGoes, GoesTo, Text, FrameIsAwaited, Reachable

LEMMA SwipePage ==
  ASSUME PaginatorAssumption, NothingAssumption, PageInv,
         NEW n \in Navigations, NEW dir \in {1, -1}, Swipe(n, dir)
  PROVE  PageInv'
<1>1. view \in View /\ view # Nothing /\ index \in Section \union {Nothing}
      /\ page' \in Reachable(view.sec)
  BY DEF Swipe, PageInv, TypeOK, FrameIsAwaited, Index
<1>2. page' \in Int
  BY <1>1 DEF Reachable, View, PaginatorAssumption
<1>3. pos' \in Place \union {Nothing}
  BY <1>1, <1>2, RelocateTypes DEF Swipe, PageInv, TypeOK
<1>4. /\ nav' \in [Navigations -> Operation \union {Nothing}] /\ NavigationGoes'
      /\ started' \in 0 .. MaxJumps /\ from' \in Place \union {Nothing}
      /\ \A m \in Navigations : nav'[m] = nav[m] \/ (nav[m] = Nothing /\ nav'[m].stage # "frame")
  <2> DEFINE over == IF page' < 1 THEN -1 ELSE IF page' > Pages[view.sec] THEN 1 ELSE 0
             op == Navigation("snap", over, AdjacentIndex(over), over)
  <2>1. CASE over # 0 /\ AdjacentIndex(over) # Nothing
    <3>1. over \in {1, -1}
      BY <2>1
    <3>2. op \in Operation /\ GoesTo(op) /\ op.stage # "frame"
      <4> HIDE DEF over
      <4> QED BY <2>1, <3>1, TurnTypes, AdjacentTypes DEF PageInv, TypeOK
    <3>3. Began(n, op) /\ Free(n)
      BY <2>1 DEF Swipe
    <3> HIDE DEF op, over
    <3> QED BY <3>2, <3>3, BeganTypes
  <2>2. CASE ~(over # 0 /\ AdjacentIndex(over) # Nothing)
    <3>1. started' = started + 1 /\ UNCHANGED <<nav, from>> /\ Free(n)
      BY <2>2 DEF Swipe
    <3> QED BY <3>1 DEF PageInv, TypeOK, Free, PaginatorAssumption, NavigationGoes, GoesTo, Text
  <2> HIDE DEF over, op
  <2> QED BY <2>1, <2>2
<1>5. FrameIsAwaited'
  BY <1>4, AwaitedStays DEF Swipe
<1> QED BY <1>1, <1>3, <1>4, <1>5 DEF PageInv, TypeOK, Swipe, Reachable

\* The steps of a navigation whose section is loaded, without the environment that allows them.
LEMMA LoadSteps ==
  ASSUME NEW n \in Navigations
  PROVE  /\ SectionIsEmpty(n) =>
              /\ nav[n] # Nothing /\ nav[n].stage = "load" /\ view # Nothing
              /\ index' = nav[n].to
              /\ page' = IF ~view.ready THEN page
                         ELSE IF nav[n].kind = "jump" \/ nav[n].dir = 1 THEN 1 ELSE Pages[view.sec]
              /\ Relocate(index', view, page')
              /\ nav' = [nav EXCEPT ![n] = IF @.kind = "turn" THEN [@ EXCEPT !.stage = "wait"] ELSE Nothing]
              /\ UNCHANGED <<env, opened, view, locked, from, loaded, started>>
         /\ SectionFails(n) =>
              /\ nav[n] # Nothing /\ nav[n].stage = "load" /\ view # Nothing
              /\ index' = Nothing
              /\ page' = IF view.ready THEN 1 ELSE page
              /\ nav' = [nav EXCEPT ![n] = IF @.kind = "turn" THEN [@ EXCEPT !.stage = "wait"] ELSE Nothing]
              /\ UNCHANGED <<env, opened, view, locked, from, loaded, pos, started>>
         /\ FirstSectionFails(n) =>
              /\ nav[n] # Nothing /\ nav[n].stage = "load" /\ view = Nothing
              /\ index' = Nothing \/ index' = nav[n].to
              /\ nav' = [nav EXCEPT ![n] = Nothing]
              /\ UNCHANGED <<env, opened, view, page, locked, from, loaded, pos, started>>
<1>1. ASSUME SectionIsEmpty(n) 
      PROVE  /\ nav[n] # Nothing /\ nav[n].stage = "load" /\ view # Nothing
             /\ index' = nav[n].to
             /\ page' = IF ~view.ready THEN page
                        ELSE IF nav[n].kind = "jump" \/ nav[n].dir = 1 THEN 1 ELSE Pages[view.sec]
             /\ Relocate(index', view, page')
             /\ nav' = [nav EXCEPT ![n] = IF @.kind = "turn" THEN [@ EXCEPT !.stage = "wait"] ELSE Nothing]
             /\ UNCHANGED <<env, opened, view, locked, from, loaded, started>>
  BY <1>1, Zenon DEF SectionIsEmpty
<1>2. ASSUME SectionFails(n)
      PROVE  /\ nav[n] # Nothing /\ nav[n].stage = "load" /\ view # Nothing
             /\ index' = Nothing
             /\ page' = IF view.ready THEN 1 ELSE page
             /\ nav' = [nav EXCEPT ![n] = IF @.kind = "turn" THEN [@ EXCEPT !.stage = "wait"] ELSE Nothing]
             /\ UNCHANGED <<env, opened, view, locked, from, loaded, pos, started>>
  BY <1>2, Zenon DEF SectionFails
<1>3. ASSUME FirstSectionFails(n)
      PROVE  /\ nav[n] # Nothing /\ nav[n].stage = "load" /\ view = Nothing
             /\ index' = Nothing \/ index' = nav[n].to
             /\ nav' = [nav EXCEPT ![n] = Nothing]
             /\ UNCHANGED <<env, opened, view, page, locked, from, loaded, pos, started>>
  BY <1>3, Zenon DEF FirstSectionFails
<1> QED BY <1>1, <1>2, <1>3, Zenon

\* A view keeps waiting for its iframe when another navigation ends.
LEMMA OthersEndAwaited ==
  ASSUME PageInv, NEW n \in Navigations, nav[n] # Nothing, nav[n].stage = "load", view # Nothing,
         view' = view, index' # -1, \A m \in Navigations : m # n => nav'[m] = nav[m]
  PROVE  FrameIsAwaited'
BY DEF PageInv, TypeOK, FrameIsAwaited, View

LEMMA SectionLoadsPage ==
  ASSUME PaginatorAssumption, NothingAssumption, PageInv, NEW n \in Navigations, SectionLoads(n)
  PROVE  PageInv'
<1>1. nav[n] # Nothing /\ nav[n].stage = "load" /\ nav' = [nav EXCEPT ![n].stage = "frame"]
  BY DEF SectionLoads
<1>2. /\ nav' \in [Navigations -> Operation \union {Nothing}] /\ NavigationGoes'
      /\ nav'[n] = [nav[n] EXCEPT !.stage = "frame"]
  BY <1>1, StageTypes
<1>3. nav[n] \in Operation /\ nav[n].to \in Section
  BY <1>1 DEF PageInv, TypeOK, NavigationGoes, GoesTo
<1>4. nav'[n].stage = "frame" /\ nav'[n].to = nav[n].to /\ nav'[n] \in Operation
  BY <1>2, <1>3 DEF Operation
<1>5. view' \in View /\ view'.sec = nav[n].to /\ view'.nav = n /\ index' = nav[n].to /\ page' = 0
  BY <1>3 DEF SectionLoads, View
<1>6. page' \in Reachable(view'.sec)
  BY <1>3, <1>5 DEF Reachable, PaginatorAssumption
<1>7. FrameIsAwaited'
  BY <1>3, <1>4, <1>5 DEF FrameIsAwaited, NothingAssumption
<1>8. view' # Nothing /\ index' \in Index /\ loaded' \subseteq Section
  BY <1>3, <1>5 DEF NothingAssumption, Index, SectionLoads, PageInv, TypeOK
<1>9. UNCHANGED <<env, opened, locked, from, pos, started>>
  BY DEF SectionLoads
<1> QED BY <1>2, <1>5, <1>6, <1>7, <1>8, <1>9 DEF PageInv, TypeOK, Reachable

LEMMA SectionIsEmptyPage ==
  ASSUME PaginatorAssumption, NothingAssumption, PageInv, NEW n \in Navigations, SectionIsEmpty(n)
  PROVE  PageInv'
<1>1. /\ nav[n] # Nothing /\ nav[n].stage = "load" /\ view # Nothing /\ index' = nav[n].to
      /\ page' = IF ~view.ready THEN page
                 ELSE IF nav[n].kind = "jump" \/ nav[n].dir = 1 THEN 1 ELSE Pages[view.sec]
      /\ Relocate(index', view, page')
      /\ nav' = [nav EXCEPT ![n] = IF @.kind = "turn" THEN [@ EXCEPT !.stage = "wait"] ELSE Nothing]
      /\ UNCHANGED <<env, opened, view, locked, from, loaded, started>>
  BY LoadSteps, Zenon
<1>2. /\ nav' \in [Navigations -> Operation \union {Nothing}] /\ NavigationGoes'
      /\ \A m \in Navigations : m # n => nav'[m] = nav[m]
  BY <1>1, LastStageTypes
<1>3. nav[n].to \in Section /\ view \in View
  BY <1>1 DEF PageInv, TypeOK, NavigationGoes, GoesTo
<1>4. page' \in Reachable(view.sec)
  BY <1>1, <1>3 DEF Reachable, PaginatorAssumption, View, PageInv, TypeOK
<1>5. page' \in Int
  BY <1>3, <1>4 DEF Reachable, PaginatorAssumption, View
<1>6. pos' \in Place \union {Nothing}
  BY <1>1, <1>3, <1>5, RelocateTypes DEF PageInv, TypeOK
<1>7. index' # -1 /\ index' \in Index
  BY <1>1, <1>3 DEF PaginatorAssumption, Index
<1>8. FrameIsAwaited'
  BY <1>1, <1>2, <1>7, OthersEndAwaited
<1> QED BY <1>1, <1>2, <1>4, <1>6, <1>7, <1>8 DEF PageInv, TypeOK, Reachable

LEMMA SectionFailsPage ==
  ASSUME PaginatorAssumption, NothingAssumption, PageInv, NEW n \in Navigations, SectionFails(n)
  PROVE  PageInv'
<1>1. /\ nav[n] # Nothing /\ nav[n].stage = "load" /\ view # Nothing /\ index' = Nothing
      /\ page' = IF view.ready THEN 1 ELSE page
      /\ nav' = [nav EXCEPT ![n] = IF @.kind = "turn" THEN [@ EXCEPT !.stage = "wait"] ELSE Nothing]
      /\ UNCHANGED <<env, opened, view, locked, from, loaded, pos, started>>
  BY LoadSteps, Zenon
<1>2. /\ nav' \in [Navigations -> Operation \union {Nothing}] /\ NavigationGoes'
      /\ \A m \in Navigations : m # n => nav'[m] = nav[m]
  BY <1>1, LastStageTypes
<1>3. view \in View /\ page' \in Reachable(view.sec)
  BY <1>1 DEF PageInv, TypeOK, Reachable, View, PaginatorAssumption
<1>4. FrameIsAwaited'
  BY <1>1, <1>2, OthersEndAwaited DEF NothingAssumption
<1> QED BY <1>1, <1>2, <1>3, <1>4 DEF PageInv, TypeOK, Reachable, Index

LEMMA FirstSectionFailsPage ==
  ASSUME PageInv, NEW n \in Navigations, FirstSectionFails(n)
  PROVE  PageInv'
<1>1. /\ nav[n] # Nothing /\ nav[n].stage = "load" /\ view = Nothing
      /\ index' = Nothing \/ index' = nav[n].to
      /\ nav' = [nav EXCEPT ![n] = Nothing]
      /\ UNCHANGED <<env, opened, view, page, locked, from, loaded, pos, started>>
  BY LoadSteps, Zenon
<1>2. nav' \in [Navigations -> Operation \union {Nothing}] /\ NavigationGoes'
  BY <1>1, EndTypes
<1>3. index' \in Index
  BY <1>1 DEF PageInv, TypeOK, NavigationGoes, GoesTo, Index
<1> QED BY <1>1, <1>2, <1>3 DEF PageInv, TypeOK, FrameIsAwaited, Reachable

LEMMA FrameLoadsPage ==
  ASSUME PaginatorAssumption, NothingAssumption, PageInv, NEW n \in Navigations, FrameLoads(n)
  PROVE  PageInv'
<1>1. /\ nav[n] # Nothing /\ nav[n].stage = "frame" /\ view.nav = n /\ ~view.ready
      /\ nav' = [nav EXCEPT ![n] = IF @.kind = "turn" THEN [@ EXCEPT !.stage = "wait"] ELSE Nothing]
  BY DEF FrameLoads
<1>2. view # Nothing /\ view \in View /\ index \in Section \union {Nothing}
  BY <1>1 DEF PageInv, TypeOK, FrameIsAwaited, Index
<1>3. view' = [view EXCEPT !.ready = TRUE]
  BY DEF FrameLoads
<1>4. view' \in View /\ view'.ready /\ view'.sec = view.sec /\ view'.nav = n
  BY <1>1, <1>2, <1>3 DEF View
<1>5. /\ nav' \in [Navigations -> Operation \union {Nothing}] /\ NavigationGoes'
  BY <1>1, LastStageTypes
<1>6. nav[n].to = view.sec /\ nav[n] \in Operation /\ GoesTo(nav[n])
  BY <1>1, <1>2 DEF PageInv, TypeOK, FrameIsAwaited, NavigationGoes
<1>7. page' \in Text(view.sec)
  <2>1. page' = Anchor(nav[n]) /\ view.sec \in Section
    BY <1>2 DEF FrameLoads, View
  <2> QED BY <2>1, <1>6 DEF Anchor, GoesTo, Text, PaginatorAssumption
<1>8. page' \in Int /\ page' \in Reachable(view'.sec)
  BY <1>2, <1>4, <1>7 DEF Text, Reachable, View, PaginatorAssumption
<1>9. pos' \in Place \union {Nothing}
  BY <1>2, <1>4, <1>8, RelocateTypes DEF FrameLoads, PageInv, TypeOK
<1>10. view' # Nothing
  BY <1>4 DEF NothingAssumption
<1>11. FrameIsAwaited'
  BY <1>2, <1>4, <1>10 DEF FrameIsAwaited, FrameLoads, PageInv
<1>12. loaded' \subseteq Section /\ UNCHANGED <<env, opened, index, locked, from, started>>
  BY DEF FrameLoads, PageInv, TypeOK
<1> QED BY <1>4, <1>5, <1>8, <1>9, <1>10, <1>11, <1>12 DEF PageInv, TypeOK, Reachable

LEMMA InitPage ==
  ASSUME PaginatorAssumption, Init
  PROVE  PageInv
<1>1. NavigationGoes /\ FrameIsAwaited
  BY DEF Init, NavigationGoes, FrameIsAwaited
<1>2. TypeOK
  <2>1. nav \in [Navigations -> Operation \union {Nothing}]
    BY DEF Init
  <2>2. started \in 0 .. MaxJumps
    BY DEF Init, PaginatorAssumption
  <2> QED BY <2>1, <2>2 DEF Init, TypeOK, Index
<1> QED BY <1>1, <1>2 DEF PageInv

LEMMA StutterPage ==
  ASSUME PageInv, UNCHANGED vars
  PROVE  PageInv'
BY DEF PageInv, TypeOK, NavigationGoes, GoesTo, Text, FrameIsAwaited, Reachable, vars

LEMMA NextPage ==
  ASSUME PaginatorAssumption, NothingAssumption, PageInv, [Next]_vars
  PROVE  PageInv'
<1>1. ASSUME NEW n \in Navigations, NEW dir \in {1, -1},
             \/ TurnInSection(n, dir) \/ TurnAtEnd(n, dir) \/ TurnToSection(n, dir)
             \/ TurnFails(n, dir) \/ Swipe(n, dir)
      PROVE  PageInv'
  BY <1>1, TurnInSectionPage, TurnAtEndPage, TurnToSectionPage, TurnFailsPage, SwipePage
<1>2. ASSUME NEW n \in Navigations,
             \/ Jumps(n) \/ OpenSaved(n)
             \/ SectionLoads(n) \/ SectionIsEmpty(n) \/ SectionFails(n) \/ FirstSectionFails(n)
             \/ FrameLoads(n) \/ WaitEnds(n)
      PROVE  PageInv'
  BY <1>2, JumpsPage, SectionLoadsPage, SectionIsEmptyPage, SectionFailsPage, FirstSectionFailsPage,
     FrameLoadsPage, WaitEndsPage
<1>3. CASE JumpInSection \/ OpenNowhere
  BY <1>3, JumpInSectionPage, OpenNowherePage
<1>4. CASE UNCHANGED vars
  BY <1>4, StutterPage
<1> QED BY <1>1, <1>2, <1>3, <1>4 DEF Next

\* The types are right and whatever is under way leads to a place of the book: #goTo, #display
\* and #turnPage, and the section and the iframe they wait for.
THEOREM PagesAreTyped == Spec => []PageInv
<1>1. Init => PageInv
  BY InitPage, PaginatorAssumption
<1>2. PageInv /\ [Next]_vars => PageInv'
  BY NextPage, PaginatorAssumption, NothingAssumption
<1> QED BY <1>1, <1>2, PTL DEF Spec

-----------------------------------------------------------------------------
(* The recorded position. *)

WholeBook == env \cap {"broken section", "empty section"} = {}

\* The index is that of the section on the screen, and the position that of the page.
PositionIsShown ==
  view # Nothing =>
    /\ index = view.sec
    /\ view.ready /\ page \in Text(view.sec) => pos = Shown
PositionFollows == WholeBook => PositionIsShown

-----------------------------------------------------------------------------

\* Whatever scrolls the view of the index and relocates records the page it scrolled to.
LEMMA RelocateShows ==
  ASSUME NothingAssumption, view' \in View, view' # Nothing, index' = view'.sec, 
         Relocate(index', view', page')
  PROVE  PositionIsShown'
<1>1. index' # Nothing
  BY DEF View, NothingAssumption
<1>2. ASSUME view'.ready, page' \in Text(view'.sec)
      PROVE  pos' = Shown'
  <2>1. VisiblePage(view', page') = page'
    BY <1>2 DEF VisiblePage
  <2>2. pos' = [sec |-> index', page |-> VisiblePage(view', page')]
    BY <1>1 DEF Relocate
  <2> QED BY <2>1, <2>2 DEF Shown
<1> QED BY <1>2 DEF PositionIsShown, Text

LEMMA SameShows ==
  ASSUME PositionIsShown, UNCHANGED <<index, view, page, pos>>
  PROVE  PositionIsShown'
BY DEF PositionIsShown, Shown, Text

LEMMA NextShows ==
  ASSUME NothingAssumption, PageInv, PositionFollows, [Next]_vars
  PROVE  PositionFollows'
<1>1. WholeBook' => WholeBook /\ PositionIsShown
  <2>1. env' = env
    BY Zenon DEF Next, TurnInSection, TurnAtEnd, TurnToSection, TurnFails, Swipe, Jumps, OpenSaved,
       GoToSection, SectionLoads, SectionIsEmpty, SectionFails, FirstSectionFails, FrameLoads,
       WaitEnds, JumpInSection, GoToPage, OpenNowhere, vars
  <2>2. WholeBook' = WholeBook
    BY <2>1, Zenon DEF WholeBook
  <2> QED BY <2>2 DEF PositionFollows
<1> SUFFICES ASSUME WholeBook, PositionIsShown PROVE PositionIsShown'
  BY <1>1 DEF PositionFollows
<1> DEFINE Scrolls == /\ view # Nothing /\ UNCHANGED <<index, view>> /\ Relocate(index, view, page')
           Rests == UNCHANGED <<index, view, page, pos>>
<1>2. ASSUME Scrolls PROVE PositionIsShown'
  <2>1. view \in View /\ index = view.sec /\ view' = view /\ index' = index
    BY <1>2 DEF PageInv, TypeOK, PositionIsShown
  <2> QED BY <1>2, <2>1, RelocateShows
<1>3. ASSUME Rests PROVE PositionIsShown'
  BY <1>3, SameShows
<1>4. ASSUME NEW n \in Navigations, NEW dir \in {1, -1},
             \/ TurnInSection(n, dir) \/ TurnAtEnd(n, dir) \/ TurnToSection(n, dir)
             \/ TurnFails(n, dir) \/ Swipe(n, dir)
      PROVE  Scrolls \/ Rests
  <2>1. CASE TurnInSection(n, dir)
    BY <2>1 DEF TurnInSection
  <2>2. CASE TurnAtEnd(n, dir)
    BY <2>2 DEF TurnAtEnd
  <2>3. CASE TurnToSection(n, dir)
    BY <2>3 DEF TurnToSection
  <2>4. CASE TurnFails(n, dir)
    BY <2>4 DEF TurnFails
  <2>5. CASE Swipe(n, dir)
    BY <2>5, Zenon DEF Swipe
  <2> QED BY <1>4, <2>1, <2>2, <2>3, <2>4, <2>5
<1>5. ASSUME NEW n \in Navigations, Jumps(n) \/ OpenSaved(n) \/ WaitEnds(n)
      PROVE  Rests
  BY <1>5 DEF Jumps, OpenSaved, WaitEnds, GoToSection
<1>6. ASSUME NEW n \in Navigations, SectionIsEmpty(n) \/ SectionFails(n) \/ FirstSectionFails(n)
      PROVE  FALSE
  BY <1>6, Zenon DEF WholeBook, SectionIsEmpty, SectionFails, FirstSectionFails
<1>7. ASSUME NEW n \in Navigations, SectionLoads(n)
      PROVE  PositionIsShown'
  BY <1>7 DEF SectionLoads, PositionIsShown
<1>8. ASSUME NEW n \in Navigations, FrameLoads(n)
      PROVE  PositionIsShown'
  <2>1. view # Nothing /\ view \in View /\ index = view.sec
    BY <1>8 DEF FrameLoads, PageInv, TypeOK, FrameIsAwaited, PositionIsShown
  <2>2. view' = [view EXCEPT !.ready = TRUE] /\ index' = index
    BY <1>8 DEF FrameLoads
  <2>3. view' \in View /\ view'.sec = view.sec /\ view' # Nothing
    BY <2>1, <2>2 DEF View, NothingAssumption
  <2> QED BY <1>8, <2>1, <2>2, <2>3, RelocateShows DEF FrameLoads
<1>9. CASE JumpInSection \/ OpenNowhere
  <2>1. CASE JumpInSection
    BY <2>1, <1>2 DEF JumpInSection, GoToPage
  <2>2. CASE OpenNowhere
    BY <2>2, <1>3, Zenon DEF OpenNowhere
  <2> QED BY <1>9, <2>1, <2>2
<1>10. CASE UNCHANGED vars
  BY <1>10, <1>3 DEF vars
<1> HIDE DEF Scrolls, Rests
<1> QED BY <1>2, <1>3, <1>4, <1>5, <1>6, <1>7, <1>8, <1>9, <1>10 DEF Next

\* The position that the reader records once nothing is under way is the page on the screen,
\* however turns, jumps and swipes overlapped: #afterScroll and #display.
THEOREM SettledPositionSafe == Spec => []SettledPositionIsShown
<1>1. Init => PageInv /\ PositionFollows
  BY InitPage, PaginatorAssumption DEF Init, PositionFollows, PositionIsShown
<1>2. PageInv /\ PositionFollows /\ [Next]_vars => (PageInv /\ PositionFollows)'
  BY NextPage, NextShows, PaginatorAssumption, NothingAssumption
<1>3. PageInv /\ PositionFollows => SettledPositionIsShown
  <2> SUFFICES ASSUME PageInv, PositionFollows, WholeBook, ~Busy, view # Nothing,
                      page \in Text(view.sec)
               PROVE  pos = Shown
    BY Zenon DEF SettledPositionIsShown, WholeBook
  <2>1. view.ready
    BY DEF PageInv, TypeOK, FrameIsAwaited, Busy, View
  <2> QED BY <2>1 DEF PositionFollows, PositionIsShown
<1> QED BY <1>1, <1>2, <1>3, PTL DEF Spec

-----------------------------------------------------------------------------
(* A reader who waits. *)

\* A reader who waits, when nothing is under way...
AtRest ==
  ~Busy => /\ ~locked
           /\ IF opened THEN view # Nothing /\ view.ready /\ page \in Text(view.sec)
                             /\ loaded = {view.sec}
              ELSE view = Nothing
NothingYet == view = Nothing => index = -1 /\ loaded = {}

\* ... and under way: where a turn came from and goes to,
LeavesSection(op) ==
  op.kind = "turn" =>
    /\ from \in Place /\ from.page + op.dir \notin Text(from.sec)
    /\ op.to = Adjacent(from.sec, op.dir)

\* before the section is loaded, before its iframe is, and before the lock is released.
Loads(op) ==
  /\ op.old = index /\ op.to # index /\ LeavesSection(op)
  /\ view # Nothing => view.ready /\ loaded = {view.sec}
  /\ op.kind = "turn" => view # Nothing
WaitsForFrame(n, op) ==
  /\ view # Nothing /\ ~view.ready /\ view.nav = n /\ view.sec = op.to /\ LeavesSection(op)
  /\ op.old # op.to /\ loaded = {op.to} \union ({op.old} \intersect Section)
Turned(op) ==
  /\ op.kind = "turn" /\ view # Nothing /\ view.ready /\ loaded = {view.sec}
  /\ page \in Text(view.sec) /\ from \in Place /\ Shown = Beside(from, op.dir)

StageIs(n, op) ==
  /\ op.kind \in {"turn", "jump"} /\ (locked <=> op.kind = "turn")
  /\ op.stage = "load" => Loads(op)
  /\ op.stage = "frame" => WaitsForFrame(n, op)
  /\ op.stage = "wait" => Turned(op)
UnderWay ==
  \A n \in Navigations : nav[n] # Nothing =>
    /\ opened /\ \A m \in Navigations : nav[m] # Nothing => m = n
    /\ StageIs(n, nav[n])

WaitInv == AtRest /\ NothingYet /\ UnderWay
PatientInv == Waits => WaitInv

\* What the steps of a patient reader rely on.
Patient == Waits /\ PageInv /\ PositionIsShown /\ WaitInv

-----------------------------------------------------------------------------

\* At rest, a navigation begins: it is the only one.
LEMMA BeginsAlone ==
  ASSUME NothingAssumption, PageInv, ~Busy, NEW n \in Navigations, NEW op \in Operation, Began(n, op)
  PROVE  /\ nav'[n] = op /\ op # Nothing /\ Busy' 
         /\ \A m \in Navigations : m # n => nav'[m] = Nothing
         /\ from' = Shown
BY DEF PageInv, TypeOK, Began, Busy, NothingAssumption

\* The stage of a navigation, named before the step.
LEMMA StageThen ==
  ASSUME NEW n, NEW op, nav'[n] = op, StageIs(n, op)'
  PROVE  StageIs(n, nav[n])'
<1>1. LeavesSection(op)' => LeavesSection(nav[n])'
  BY DEF LeavesSection, Text, Adjacent, Beyond
<1>2. Loads(op)' => Loads(nav[n])'
  BY <1>1 DEF Loads
<1>3. WaitsForFrame(n, op)' => WaitsForFrame(n, nav[n])'
  BY <1>1 DEF WaitsForFrame
<1>4. Turned(op)' => Turned(nav[n])'
  BY DEF Turned, Beside, Shown, Text, Adjacent, Beyond
<1> QED BY <1>2, <1>3, <1>4 DEF StageIs

\* A navigation that is alone is in its stage.
LEMMA AloneUnderWay ==
  ASSUME NEW n \in Navigations, NEW op, nav'[n] = op, op # Nothing, opened',
         \A m \in Navigations : m # n => nav'[m] = Nothing,
         StageIs(n, op)'
  PROVE  UnderWay' /\ AtRest'
<1>1. AtRest'
  BY DEF AtRest, Busy
<1>2. StageIs(n, nav[n])'
  BY StageThen
<1>3. UnderWay'
  <2> SUFFICES ASSUME NEW m \in Navigations, nav'[m] # Nothing
               PROVE  /\ opened' /\ \A k \in Navigations : nav'[k] # Nothing => k = m
                      /\ StageIs(m, nav[m])'
    BY DEF UnderWay
  <2>1. m = n
    OBVIOUS
  <2> QED BY <2>1, <1>2
<1> QED BY <1>1, <1>3

LEMMA TurnInSectionWaits ==
  ASSUME PaginatorAssumption, NothingAssumption, Patient, ~Busy,
         NEW n \in Navigations, NEW dir \in {1, -1}, TurnInSection(n, dir)
  PROVE  WaitInv'
<1>1. PICK op \in Operation : /\ op = [Navigation("turn", dir, Nothing, Nothing) EXCEPT !.stage = "wait"]
                              /\ op.kind = "turn" /\ op.dir = dir /\ op.stage = "wait"
  BY TurnTypes DEF Patient, PageInv, Navigation
<1>2. Began(n, op)
  BY <1>1 DEF TurnInSection
<1>3. /\ nav'[n] = op /\ op # Nothing /\ Busy' /\ from' = Shown
      /\ \A m \in Navigations : m # n => nav'[m] = Nothing
  BY <1>1, <1>2, BeginsAlone DEF Patient
<1>4. /\ view \in View /\ view # Nothing /\ view.ready /\ view' = view /\ page' = page + dir
      /\ page + dir \in Text(view.sec) /\ opened' = opened /\ loaded' = loaded /\ locked'
      /\ index' = index
  BY DEF TurnInSection, Patient, PageInv, TypeOK
<1>5. opened /\ loaded = {view.sec}
  BY <1>4 DEF Patient, WaitInv, AtRest
<1>6. Shown = [sec |-> view.sec, page |-> page] /\ Shown' = [sec |-> view.sec, page |-> page + dir]
  BY <1>4 DEF Shown
<1>7. from' \in Place
  BY <1>3, <1>4, <1>6, ShownTypes DEF Patient, PageInv, Shown, Place, View, NothingAssumption, TypeOK,
     Reachable, PaginatorAssumption
<1>8. Shown' = Beside(from', dir)
  BY <1>3, <1>4, <1>6 DEF Beside, Text
<1>9. Turned(op)'
  BY <1>1, <1>4, <1>5, <1>7, <1>8 DEF Turned, Text, Beside, Adjacent, Beyond
<1>10. StageIs(n, op)'
  BY <1>1, <1>4, <1>9 DEF StageIs
<1>11. NothingYet'
  BY <1>4 DEF NothingYet
<1> QED BY <1>3, <1>4, <1>5, <1>10, <1>11, AloneUnderWay DEF WaitInv

\* A patient reader asks when nothing is under way.
LEMMA PatientAsks ==
  ASSUME Waits
  PROVE  /\ MayTurn \/ MayJump => opened /\ ~Busy
         /\ \A n \in Navigations : /\ ~SectionIsEmpty(n) /\ ~SectionFails(n) /\ ~FirstSectionFails(n)
                                   /\ \A dir \in {1, -1} : ~Swipe(n, dir)
BY Zenon DEF Waits, MayTurn, MayJump, SectionIsEmpty, SectionFails, FirstSectionFails, Swipe

\* He takes no lock before the book is open.
LEMMA LockIsFree ==
  ASSUME Patient
  PROVE  ~OpenNowhere
<1>1. ~opened => ~Busy
  BY DEF Busy, Patient, WaitInv, UnderWay
<1>2. ~opened => ~locked
  BY <1>1 DEF Patient, WaitInv, AtRest
<1> QED BY <1>2, Zenon DEF OpenNowhere, Patient, Waits

LEMMA ShownAtRest ==
  ASSUME PaginatorAssumption, NothingAssumption, Patient, ~Busy, opened
  PROVE  /\ view \in View /\ view # Nothing /\ view.ready /\ loaded = {view.sec} /\ index = view.sec
         /\ page \in Text(view.sec) /\ ~locked /\ index # Nothing
         /\ Shown = [sec |-> view.sec, page |-> page] /\ Shown \in Place
BY DEF Patient, PageInv, TypeOK, PositionIsShown, WaitInv, AtRest, Shown, Place, View,
   NothingAssumption, Text, PaginatorAssumption

LEMMA TurnAtEndWaits ==
  ASSUME PaginatorAssumption, NothingAssumption, Patient,
         NEW n \in Navigations, NEW dir \in {1, -1}, TurnAtEnd(n, dir)
  PROVE  WaitInv'
<1>1. ~Busy /\ opened
  BY PatientAsks, Zenon DEF TurnAtEnd, Patient
<1>2. PICK op \in Operation : /\ op = [Navigation("turn", dir, Nothing, Nothing) EXCEPT !.stage = "wait"]
                              /\ op.kind = "turn" /\ op.dir = dir /\ op.stage = "wait"
  BY TurnTypes DEF Patient, PageInv, Navigation
<1>3. Began(n, op)
  BY <1>2 DEF TurnAtEnd
<1>4. /\ nav'[n] = op /\ op # Nothing /\ from' = Shown
      /\ \A m \in Navigations : m # n => nav'[m] = Nothing
  BY <1>1, <1>3, BeginsAlone DEF Patient
<1>5. /\ view \in View /\ view # Nothing /\ view.ready /\ loaded = {view.sec} /\ index = view.sec
      /\ page \in Text(view.sec) /\ index # Nothing
      /\ Shown = [sec |-> view.sec, page |-> page] /\ Shown \in Place
  BY <1>1, ShownAtRest
<1>6. /\ UNCHANGED <<view, page, opened, loaded, index>> /\ locked'
      /\ page + dir \notin Text(view.sec) /\ Adjacent(view.sec, dir) = Nothing
  BY <1>5 DEF TurnAtEnd, AdjacentIndex
<1>7. Shown' = Shown /\ Shown = Beside(Shown, dir)
  BY <1>5, <1>6 DEF Shown, Beside, Text
<1>8. Turned(op)'
  BY <1>2, <1>4, <1>5, <1>6, <1>7 DEF Turned, Text, Beside, Adjacent, Beyond
<1>9. StageIs(n, op)'
  BY <1>2, <1>6, <1>8 DEF StageIs
<1>10. NothingYet' /\ opened'
  BY <1>1, <1>5, <1>6 DEF NothingYet
<1> QED BY <1>4, <1>9, <1>10, AloneUnderWay DEF WaitInv

LEMMA TurnToSectionWaits ==
  ASSUME PaginatorAssumption, NothingAssumption, Patient,
         NEW n \in Navigations, NEW dir \in {1, -1}, TurnToSection(n, dir)
  PROVE  WaitInv'
<1>1. ~Busy /\ opened
  BY PatientAsks, Zenon DEF TurnToSection, Patient
<1>2. /\ AdjacentIndex(dir) \in Section /\ AdjacentIndex(dir) = Adjacent(index, dir)
      /\ AdjacentIndex(dir) # index
  BY AdjacentTypes DEF TurnToSection, Patient, PageInv, TypeOK
<1>3. PICK op \in Operation : op = Navigation("turn", dir, AdjacentIndex(dir), dir)
  BY <1>2, TurnTypes DEF Patient, PageInv
<1>4. Began(n, op)
  BY <1>3 DEF TurnToSection
<1>5. /\ nav'[n] = op /\ op # Nothing /\ from' = Shown
      /\ \A m \in Navigations : m # n => nav'[m] = Nothing
  BY <1>1, <1>4, BeginsAlone DEF Patient
<1>6. /\ view \in View /\ view # Nothing /\ view.ready /\ loaded = {view.sec} /\ index = view.sec
      /\ page \in Text(view.sec)
      /\ Shown = [sec |-> view.sec, page |-> page] /\ Shown \in Place
  BY <1>1, ShownAtRest
<1>7. op.kind = "turn" /\ op.dir = dir /\ op.stage = "load" /\ op.old = index /\ op.to = AdjacentIndex(dir)
  BY <1>3 DEF Navigation
<1>8. UNCHANGED <<view, opened, loaded, index>> /\ locked' /\ page + dir \notin Text(view.sec)
  BY <1>6 DEF TurnToSection
<1>9. LeavesSection(op)'
  BY <1>2, <1>5, <1>6, <1>7, <1>8 DEF LeavesSection, Text, Adjacent, Beyond
<1>10. Loads(op)'
  BY <1>2, <1>6, <1>7, <1>8, <1>9 DEF Loads
<1>11. StageIs(n, op)'
  BY <1>7, <1>8, <1>10 DEF StageIs
<1>12. NothingYet' /\ opened'
  BY <1>1, <1>6, <1>8 DEF NothingYet
<1> QED BY <1>5, <1>11, <1>12, AloneUnderWay DEF WaitInv

LEMMA TurnFailsWaits ==
  ASSUME PaginatorAssumption, NothingAssumption, Patient,
         NEW n \in Navigations, NEW dir \in {1, -1}
  PROVE  ~TurnFails(n, dir)
BY PatientAsks, ShownAtRest, Zenon DEF TurnFails, Patient

LEMMA GoToSectionWaits ==
  ASSUME PaginatorAssumption, NothingAssumption, Patient, ~Busy, opened',
         NEW n \in Navigations, NEW s \in Section, NEW p \in Text(s), GoToSection(n, s, p),
         opened \/ view = Nothing
  PROVE  WaitInv'
<1>1. PICK op \in Operation : op = Navigation("jump", 0, s, p)
  <2>1. Navigation("jump", 0, s, p) \in Operation
    BY DEF Navigation, Operation, Text, Patient, PageInv, TypeOK, PaginatorAssumption
  <2> QED BY <2>1
<1>2. Began(n, op)
  BY <1>1 DEF GoToSection
<1>3. /\ nav'[n] = op /\ op # Nothing /\ from' = Shown
      /\ \A m \in Navigations : m # n => nav'[m] = Nothing
  BY <1>2, BeginsAlone DEF Patient
<1>4. op.kind = "jump" /\ op.stage = "load" /\ op.old = index /\ op.to = s
  BY <1>1 DEF Navigation
<1>5. UNCHANGED <<view, loaded, index>> /\ ~locked' /\ s # index
  BY DEF GoToSection
<1>6. view # Nothing => view.ready /\ loaded = {view.sec}
  BY ShownAtRest
<1>7. Loads(op)'
  BY <1>4, <1>5, <1>6 DEF Loads, LeavesSection
<1>8. StageIs(n, op)'
  BY <1>4, <1>5, <1>7 DEF StageIs
<1>9. NothingYet'
  BY <1>5 DEF NothingYet, Patient, WaitInv
<1> QED BY <1>3, <1>8, <1>9, AloneUnderWay DEF WaitInv

LEMMA JumpsWaits ==
  ASSUME PaginatorAssumption, NothingAssumption, Patient, NEW n \in Navigations, Jumps(n)
  PROVE  WaitInv'
<1>1. ~Busy /\ opened /\ opened' = opened
  BY PatientAsks DEF Jumps, Patient
<1> QED BY <1>1, GoToSectionWaits DEF Jumps

LEMMA OpenSavedWaits ==
  ASSUME PaginatorAssumption, NothingAssumption, Patient, NEW n \in Navigations, OpenSaved(n)
  PROVE  WaitInv'
<1>1. ~opened /\ opened'
  BY DEF OpenSaved
<1>2. ~Busy
  BY <1>1 DEF Busy, Patient, WaitInv, UnderWay
<1>3. view = Nothing
  BY <1>1, <1>2 DEF Patient, WaitInv, AtRest
<1> QED BY <1>1, <1>2, <1>3, GoToSectionWaits DEF OpenSaved

LEMMA JumpInSectionWaits ==
  ASSUME PaginatorAssumption, NothingAssumption, Patient, JumpInSection
  PROVE  /\ WaitInv' /\ ~Busy /\ opened /\ UNCHANGED <<view, nav, from>>
         /\ page' \in Text(view.sec)
<1>1. ~Busy /\ opened
  BY PatientAsks DEF JumpInSection, Patient
<1>2. PICK s \in Section : \E p \in Text(s) : GoToPage(s, p)
  BY DEF JumpInSection
<1>3. PICK p \in Text(s) : GoToPage(s, p)
  BY <1>2
<1>4. /\ view # Nothing /\ view.ready /\ loaded = {view.sec} /\ index = view.sec /\ ~locked
  BY <1>1, ShownAtRest
<1>5. page' = p /\ s = view.sec /\ UNCHANGED <<opened, index, view, locked, nav, from, loaded>>
  BY <1>3, <1>4 DEF GoToPage
<1>6. ~Busy'
  BY <1>1, <1>5 DEF Busy
<1>7. AtRest'
  BY <1>1, <1>4, <1>5 DEF AtRest, Text
<1>8. NothingYet' /\ UnderWay'
  BY <1>4, <1>5, <1>6 DEF NothingYet, UnderWay, Busy
<1> QED BY <1>1, <1>5, <1>7, <1>8 DEF WaitInv

\* The one navigation of a patient reader.
LEMMA TheOne ==
  ASSUME Patient, NEW n \in Navigations, nav[n] # Nothing
  PROVE  /\ opened /\ StageIs(n, nav[n]) /\ nav[n] \in Operation /\ GoesTo(nav[n])
         /\ \A m \in Navigations : m # n => nav[m] = Nothing
BY DEF Patient, PageInv, TypeOK, NavigationGoes, WaitInv, UnderWay

LEMMA SectionLoadsWaits ==
  ASSUME PaginatorAssumption, NothingAssumption, Patient, NEW n \in Navigations, SectionLoads(n)
  PROVE  WaitInv' /\ UNCHANGED from /\ nav'[n] # Nothing
         /\ \A m \in Navigations : m # n => nav[m] = Nothing /\ nav'[m] = Nothing
<1>1. nav[n] # Nothing /\ nav[n].stage = "load" /\ nav' = [nav EXCEPT ![n].stage = "frame"]
  BY DEF SectionLoads
<1>2. /\ opened /\ StageIs(n, nav[n]) /\ nav[n] \in Operation /\ GoesTo(nav[n])
      /\ \A m \in Navigations : m # n => nav[m] = Nothing
  BY <1>1, TheOne
<1>3. PICK op \in Operation : op = [nav[n] EXCEPT !.stage = "frame"]
  <2>1. [nav[n] EXCEPT !.stage = "frame"] \in Operation
    BY <1>2 DEF Operation
  <2> QED BY <2>1
<1>4. nav'[n] = op /\ op # Nothing /\ \A m \in Navigations : m # n => nav'[m] = Nothing
  BY <1>1, <1>2, <1>3 DEF Patient, PageInv, TypeOK, NothingAssumption
<1>5. /\ op.stage = "frame" /\ op.kind = nav[n].kind /\ op.dir = nav[n].dir /\ op.to = nav[n].to
      /\ op.old = nav[n].old
  BY <1>2, <1>3 DEF Operation
<1>6. Loads(nav[n]) /\ (locked <=> op.kind = "turn") /\ op.kind \in {"turn", "jump"} /\ op.to \in Section
  BY <1>1, <1>2, <1>5 DEF StageIs, GoesTo
<1>7. /\ view' = [sec |-> op.to, ready |-> FALSE, nav |-> n] /\ loaded' = loaded \union {op.to}
      /\ index' = op.to /\ UNCHANGED <<opened, locked, from>>
  BY <1>5 DEF SectionLoads
<1>8. view' # Nothing
  <2>1. view' \in View
    BY <1>6, <1>7 DEF View
  <2> QED BY <2>1 DEF NothingAssumption
<1>9. loaded = {op.old} \intersect Section
  <2>1. CASE view = Nothing
    BY <2>1, <1>5, <1>6 DEF Loads, Patient, WaitInv, NothingYet, PaginatorAssumption
  <2>2. CASE view # Nothing
    BY <2>2, <1>5, <1>6 DEF Loads, Patient, PageInv, TypeOK, View, PositionIsShown
  <2> QED BY <2>1, <2>2
<1>10. LeavesSection(op)'
  <2>1. LeavesSection(nav[n])
    BY <1>6 DEF Loads
  <2> QED BY <2>1, <1>5, <1>7 DEF LeavesSection, Text, Adjacent, Beyond
<1>11. WaitsForFrame(n, op)'
  BY <1>5, <1>6, <1>7, <1>8, <1>9, <1>10 DEF WaitsForFrame, Loads
<1>12. StageIs(n, op)'
  BY <1>5, <1>6, <1>7, <1>11 DEF StageIs
<1>13. NothingYet' /\ opened'
  BY <1>2, <1>7, <1>8 DEF NothingYet
<1> QED BY <1>2, <1>4, <1>7, <1>12, <1>13, AloneUnderWay DEF WaitInv

\* The page on the screen once the iframe has loaded.
LEMMA FrameShows ==
  ASSUME PaginatorAssumption, NothingAssumption, Patient, NEW n \in Navigations, FrameLoads(n)
  PROVE  /\ nav[n] # Nothing /\ nav[n].stage = "frame"
         /\ view' \in View /\ view' # Nothing /\ view'.ready /\ view'.sec = nav[n].to
         /\ page' = Anchor(nav[n]) /\ page' \in Text(nav[n].to) /\ nav[n].to \in Section
         /\ Shown' = [sec |-> nav[n].to, page |-> Anchor(nav[n])]
         /\ loaded' = {nav[n].to}
         /\ nav[n].kind = "turn" => from \in Place /\ Shown' = Beside(from, nav[n].dir)
<1>1. nav[n] # Nothing /\ nav[n].stage = "frame"
  BY DEF FrameLoads
<1>2. StageIs(n, nav[n]) /\ nav[n] \in Operation /\ GoesTo(nav[n])
  BY <1>1, TheOne
<1>3. WaitsForFrame(n, nav[n])
  BY <1>1, <1>2 DEF StageIs
<1>4. /\ view' = [view EXCEPT !.ready = TRUE] /\ page' = Anchor(nav[n])
      /\ loaded' = loaded \ {nav[n].old}
  BY DEF FrameLoads
<1>5. view # Nothing /\ view \in View
  BY <1>3 DEF WaitsForFrame, Patient, PageInv, TypeOK
<1>6. view' \in View /\ view' # Nothing /\ view'.ready /\ view'.sec = nav[n].to
  BY <1>3, <1>4, <1>5 DEF WaitsForFrame, View, NothingAssumption
<1>7. nav[n].to \in Section
  BY <1>1, <1>2 DEF GoesTo
<1>8. page' \in Text(nav[n].to)
  BY <1>2, <1>4, <1>7 DEF GoesTo, Anchor, Text, PaginatorAssumption
<1>9. loaded' = {nav[n].to}
  BY <1>3, <1>4 DEF WaitsForFrame
<1>10. Shown' = [sec |-> nav[n].to, page |-> Anchor(nav[n])]
  BY <1>4, <1>6 DEF Shown
<1>11. ASSUME nav[n].kind = "turn"
       PROVE  from \in Place /\ Shown' = Beside(from, nav[n].dir)
  <2>1. LeavesSection(nav[n])
    BY <1>3 DEF WaitsForFrame
  <2>2. Adjacent(from.sec, nav[n].dir) = nav[n].to /\ nav[n].to # Nothing /\ from \in Place
        /\ from.page + nav[n].dir \notin 1 .. Pages[from.sec]
    BY <2>1, <1>7, <1>11 DEF LeavesSection, NothingAssumption, Text
  <2>3. Anchor(nav[n]) = IF nav[n].dir = 1 THEN 1 ELSE Pages[nav[n].to]
    BY <1>11 DEF Anchor
  <2> QED BY <2>2, <2>3, <1>10 DEF Beside
<1> QED BY <1>1, <1>4, <1>6, <1>7, <1>8, <1>9, <1>10, <1>11

LEMMA FrameLoadsWaits ==
  ASSUME PaginatorAssumption, NothingAssumption, Patient, NEW n \in Navigations, FrameLoads(n)
  PROVE  WaitInv'
<1>1. /\ nav[n] # Nothing /\ nav[n].stage = "frame"
      /\ view' \in View /\ view' # Nothing /\ view'.ready /\ view'.sec = nav[n].to
      /\ page' \in Text(nav[n].to) /\ loaded' = {nav[n].to}
      /\ nav[n].kind = "turn" => from \in Place /\ Shown' = Beside(from, nav[n].dir)
  BY FrameShows
<1>2. /\ opened /\ StageIs(n, nav[n]) /\ nav[n] \in Operation
      /\ \A m \in Navigations : m # n => nav[m] = Nothing
  BY <1>1, TheOne
<1>3. UNCHANGED <<opened, locked, from>> /\ (locked <=> nav[n].kind = "turn")
  BY <1>2 DEF FrameLoads, StageIs
<1>4. nav' = [nav EXCEPT ![n] = IF @.kind = "turn" THEN [@ EXCEPT !.stage = "wait"] ELSE Nothing]
  BY DEF FrameLoads
<1>5. nav'[n] = IF nav[n].kind = "turn" THEN [nav[n] EXCEPT !.stage = "wait"] ELSE Nothing
  BY <1>4 DEF Patient, PageInv, TypeOK
<1>6. \A m \in Navigations : m # n => nav'[m] = Nothing
  BY <1>2, <1>4 DEF Patient, PageInv, TypeOK
<1>7. NothingYet'
  BY <1>1 DEF NothingYet
<1>8. CASE nav[n].kind = "turn"
  <2>1. PICK op \in Operation : op = [nav[n] EXCEPT !.stage = "wait"]
    <3>1. [nav[n] EXCEPT !.stage = "wait"] \in Operation
      BY <1>2 DEF Operation
    <3> QED BY <3>1
  <2>2. op.kind = "turn" /\ op.dir = nav[n].dir /\ op.stage = "wait" /\ op # Nothing
    BY <2>1, <1>2, <1>8 DEF Operation, NothingAssumption
  <2>3. Turned(op)'
    BY <2>2, <1>1, <1>3, <1>8 DEF Turned, Beside, Text, Adjacent, Beyond
  <2>4. StageIs(n, op)'
    BY <2>2, <2>3, <1>3, <1>8 DEF StageIs
  <2> QED BY <2>1, <2>2, <2>4, <1>2, <1>3, <1>5, <1>6, <1>7, <1>8, AloneUnderWay DEF WaitInv
<1>9. CASE nav[n].kind # "turn"
  <2>1. \A m \in Navigations : nav'[m] = Nothing
    BY <1>5, <1>6, <1>9
  <2>2. AtRest'
    BY <1>1, <1>2, <1>3, <1>9 DEF AtRest, Text
  <2> QED BY <2>1, <2>2, <1>7 DEF UnderWay, WaitInv
<1> QED BY <1>8, <1>9

LEMMA WaitEndsWaits ==
  ASSUME PaginatorAssumption, NothingAssumption, Patient, NEW n \in Navigations, WaitEnds(n)
  PROVE  /\ WaitInv' /\ \A m \in Navigations : nav'[m] = Nothing
         /\ Turned(nav[n]) /\ UNCHANGED <<view, page, from>>
<1>1. nav[n] # Nothing /\ nav[n].stage = "wait" /\ nav' = [nav EXCEPT ![n] = Nothing] /\ ~locked'
      /\ UNCHANGED <<opened, index, view, page, loaded, from>>
  BY DEF WaitEnds
<1>2. /\ opened /\ StageIs(n, nav[n])
      /\ \A m \in Navigations : m # n => nav[m] = Nothing
  BY <1>1, TheOne
<1>3. \A m \in Navigations : nav'[m] = Nothing
  BY <1>1, <1>2 DEF Patient, PageInv, TypeOK
<1>4. Turned(nav[n])
  BY <1>1, <1>2 DEF StageIs
<1>5. AtRest'
  BY <1>1, <1>2, <1>4 DEF AtRest, Turned, Text
<1>6. NothingYet' /\ UnderWay'
  BY <1>1, <1>3 DEF NothingYet, UnderWay, Patient, WaitInv
<1> QED BY <1>1, <1>3, <1>4, <1>5, <1>6 DEF WaitInv

LEMMA SameStage ==
  ASSUME NEW n, NEW op, StageIs(n, op), UNCHANGED vars
  PROVE  StageIs(n, op)'
<1>1. LeavesSection(op)' <=> LeavesSection(op)
  BY DEF LeavesSection, Text, Adjacent, Beyond, vars
<1>2. Loads(op) => Loads(op)'
  BY <1>1 DEF Loads, vars
<1>3. WaitsForFrame(n, op) => WaitsForFrame(n, op)'
  BY <1>1 DEF WaitsForFrame, vars
<1>4. Turned(op) => Turned(op)'
  BY DEF Turned, Beside, Shown, Text, Adjacent, Beyond, vars
<1> QED BY <1>2, <1>3, <1>4 DEF StageIs, vars

LEMMA NextWaits ==
  ASSUME PaginatorAssumption, NothingAssumption, PageInv, PositionFollows, PatientInv, [Next]_vars
  PROVE  PatientInv'
<1>1. env' = env
  BY Zenon DEF Next, TurnInSection, TurnAtEnd, TurnToSection, TurnFails, Swipe, Jumps, OpenSaved,
     GoToSection, SectionLoads, SectionIsEmpty, SectionFails, FirstSectionFails, FrameLoads,
     WaitEnds, JumpInSection, GoToPage, OpenNowhere, vars
<1>2. Waits' = Waits
  BY <1>1 DEF Waits
<1> SUFFICES ASSUME Waits PROVE WaitInv'
  BY <1>2 DEF PatientInv
<1>3. WholeBook
  BY Zenon DEF Waits, WholeBook
<1>4. Patient
  BY <1>3 DEF Patient, PatientInv, PositionFollows
<1>5. ASSUME NEW n \in Navigations, NEW dir \in {1, -1},
             \/ TurnInSection(n, dir) \/ TurnAtEnd(n, dir) \/ TurnToSection(n, dir)
             \/ TurnFails(n, dir) \/ Swipe(n, dir)
      PROVE  WaitInv'
  <2>1. ~Swipe(n, dir) /\ ~TurnFails(n, dir) /\ (TurnInSection(n, dir) => ~Busy)
    BY <1>4, PatientAsks, TurnFailsWaits, Zenon DEF TurnInSection
  <2> QED BY <1>4, <1>5, <2>1, TurnInSectionWaits, TurnAtEndWaits, TurnToSectionWaits
<1>6. ASSUME NEW n \in Navigations,
             \/ Jumps(n) \/ OpenSaved(n)
             \/ SectionLoads(n) \/ SectionIsEmpty(n) \/ SectionFails(n) \/ FirstSectionFails(n)
             \/ FrameLoads(n) \/ WaitEnds(n)
      PROVE  WaitInv'
  BY <1>4, <1>6, PatientAsks, JumpsWaits, OpenSavedWaits, SectionLoadsWaits, FrameLoadsWaits, WaitEndsWaits
<1>7. CASE JumpInSection \/ OpenNowhere
  BY <1>4, <1>7, LockIsFree, JumpInSectionWaits
<1>8. CASE UNCHANGED vars
  <2>1. AtRest' /\ NothingYet'
    BY <1>8 DEF vars, PatientInv, WaitInv, AtRest, NothingYet, Text, Busy
  <2>2. UnderWay'
    <3> SUFFICES ASSUME NEW n \in Navigations, nav'[n] # Nothing
                 PROVE  /\ opened' /\ \A m \in Navigations : nav'[m] # Nothing => m = n
                        /\ StageIs(n, nav[n])'
      BY DEF UnderWay
    <3>1. PICK op : op = nav[n]
      OBVIOUS
    <3>2. opened /\ (\A m \in Navigations : nav[m] # Nothing => m = n) /\ StageIs(n, op)
      BY <1>8, <3>1 DEF vars, PatientInv, WaitInv, UnderWay
    <3>3. StageIs(n, op)'
      BY <1>8, <3>2, SameStage
    <3> QED BY <1>8, <3>1, <3>2, <3>3, StageThen DEF vars
  <2> QED BY <2>1, <2>2 DEF WaitInv
<1> QED BY <1>5, <1>6, <1>7, <1>8 DEF Next

LEMMA InitWaits ==
  ASSUME Init
  PROVE  PositionFollows /\ PatientInv
BY DEF Init, PositionFollows, PositionIsShown, PatientInv, WaitInv, AtRest, NothingYet, UnderWay, Busy

\* What #display leaves loaded: the section on the screen, and with a reader who waits no other
\* once the navigation has ended.
THEOREM OnlyShownSafe == Spec => []OnlyShownIsLoaded
<1>1. Init => PageInv /\ PositionFollows /\ PatientInv
  BY InitPage, InitWaits, PaginatorAssumption
<1>2. PageInv /\ PositionFollows /\ PatientInv /\ [Next]_vars => (PageInv /\ PositionFollows /\ PatientInv)'
  BY NextPage, NextShows, NextWaits, PaginatorAssumption, NothingAssumption
<1>3. PageInv /\ PositionFollows /\ PatientInv => OnlyShownIsLoaded
  <2> SUFFICES ASSUME PageInv, WaitInv, view # Nothing
               PROVE  view.sec \in loaded /\ (~Busy => loaded = {view.sec})
    BY DEF OnlyShownIsLoaded, PatientInv
  <2>1. CASE ~Busy
    BY <2>1 DEF WaitInv, AtRest
  <2>2. CASE Busy
    <3>1. PICK n \in Navigations : nav[n] # Nothing
      BY <2>2 DEF Busy
    <3>2. StageIs(n, nav[n]) /\ nav[n].stage \in {"load", "frame", "wait"}
      BY <3>1 DEF WaitInv, UnderWay, PageInv, TypeOK, Operation
    <3>3. view.sec \in loaded
      BY <3>2 DEF StageIs, Loads, WaitsForFrame, Turned
    <3> QED BY <3>3, <2>2
  <2> QED BY <2>1, <2>2
<1> QED BY <1>1, <1>2, <1>3, PTL DEF Spec

-----------------------------------------------------------------------------
(* The reader sees PageOrder. *)

\* The instance of PageOrder speaks of the same book.
LEMMA SeenIsTheBook ==
  ASSUME NEW x, NEW dir
  PROVE  /\ Seen!Places = Places /\ Seen!Beside(x, dir) = Beside(x, dir)
         /\ Seen!Turn(dir) = [turn |-> dir] /\ Seen!Jump(x) = [jump |-> x]
BY DEF Seen!Places, Places, Seen!Beside, Beside, Seen!Adjacent, Adjacent, Seen!Beyond, Beyond,
   Seen!Section, Section, Seen!Turn, Seen!Jump

\* What is seen when nothing is under way, and when navigation n is.
LEMMA SeenNow ==
  ASSUME Waits
  PROVE  /\ ~Busy => SeenPlace = Shown /\ SeenRequest = Nothing
         /\ \A n \in Navigations : nav[n] # Nothing /\ (\A m \in Navigations : m # n => nav[m] = Nothing)
              => SeenPlace = from /\ SeenRequest = Request(n)
<1>1. ASSUME NEW n \in Navigations, nav[n] # Nothing, \A m \in Navigations : m # n => nav[m] = Nothing
      PROVE  Busy /\ (CHOOSE m \in Navigations : nav[m] # Nothing) = n
  BY <1>1 DEF Busy
<1> QED BY <1>1 DEF SeenPlace, SeenRequest

LEMMA SeenThen ==
  ASSUME Waits'
  PROVE  /\ ~Busy' => SeenPlace' = Shown' /\ SeenRequest' = Nothing
         /\ \A n \in Navigations : nav'[n] # Nothing /\ (\A m \in Navigations : m # n => nav'[m] = Nothing)
              => SeenPlace' = from' /\ SeenRequest' = Request(n)'
<1>1. ASSUME NEW n \in Navigations, nav'[n] # Nothing, \A m \in Navigations : m # n => nav'[m] = Nothing
      PROVE  Busy' /\ (CHOOSE m \in Navigations : nav'[m] # Nothing) = n
  BY <1>1 DEF Busy
<1> QED BY <1>1 DEF SeenPlace, SeenRequest

\* The requests are something.
LEMMA RequestTypes ==
  ASSUME PaginatorAssumption, NothingAssumption
  PROVE  /\ \A dir \in {1, -1} : [turn |-> dir] # Nothing
         /\ \A s \in Section : \A p \in Text(s) :
              [sec |-> s, page |-> p] \in Places /\ [jump |-> [sec |-> s, page |-> p]] # Nothing
<1>1. ASSUME NEW dir \in {1, -1} PROVE [turn |-> dir] # Nothing
  BY DEF NothingAssumption
<1>2. ASSUME NEW s \in Section, NEW p \in Text(s)
      PROVE  [sec |-> s, page |-> p] \in Places /\ [jump |-> [sec |-> s, page |-> p]] # Nothing
  <2>1. [sec |-> s, page |-> p] \in [sec : {s}, page : 1 .. Pages[s]]
    BY DEF Text
  <2>2. [sec |-> s, page |-> p] \in Places
    BY <2>1 DEF Places
  <2>3. [sec |-> s, page |-> p] \in Place
    BY DEF Place, Text
  <2> QED BY <2>2, <2>3 DEF NothingAssumption
<1> QED BY <1>1, <1>2

\* A turn begins.
LEMMA TurnIsAsked ==
  ASSUME PaginatorAssumption, NothingAssumption, Patient, Waits', ~Busy, opened,
         NEW n \in Navigations, NEW dir \in {1, -1}, NEW op \in Operation, Began(n, op),
         op.kind = "turn", op.dir = dir
  PROVE  Seen!Next
<1>1. /\ nav'[n] = op /\ nav'[n] # Nothing /\ from' = Shown
      /\ \A m \in Navigations : m # n => nav'[m] = Nothing
  BY BeginsAlone DEF Patient
<1>2. Shown # Nothing
  BY ShownAtRest DEF NothingAssumption
<1>3. SeenPlace = Shown /\ SeenRequest = Nothing
  BY SeenNow DEF Patient
<1>4. SeenPlace' = Shown /\ SeenRequest' = [turn |-> dir]
  BY <1>1, SeenThen DEF Request
<1>5. Seen!Ask(Seen!Turn(dir))
  BY <1>3, <1>4, SeenIsTheBook DEF Seen!Ask
<1> QED BY <1>2, <1>3, <1>5 DEF Seen!Next, Seen!AskTurn

\* A jump begins.
LEMMA JumpIsAsked ==
  ASSUME PaginatorAssumption, NothingAssumption, Patient, Waits', ~Busy,
         NEW n \in Navigations, NEW s \in Section, NEW p \in Text(s), GoToSection(n, s, p)
  PROVE  Seen!Next
<1>1. PICK op \in Operation : op = Navigation("jump", 0, s, p)
  <2>1. Navigation("jump", 0, s, p) \in Operation
    BY DEF Navigation, Operation, Text, Patient, PageInv, TypeOK, PaginatorAssumption
  <2> QED BY <2>1
<1>2. Began(n, op) /\ op.kind = "jump" /\ op.to = s /\ op.at = p
  BY <1>1 DEF GoToSection, Navigation
<1>3. /\ nav'[n] = op /\ nav'[n] # Nothing /\ from' = Shown
      /\ \A m \in Navigations : m # n => nav'[m] = Nothing
  BY <1>2, BeginsAlone DEF Patient
<1> DEFINE x == [sec |-> s, page |-> p]
<1>4. SeenPlace = Shown /\ SeenRequest = Nothing
  BY SeenNow DEF Patient
<1>5. SeenPlace' = Shown /\ SeenRequest' = [jump |-> x]
  BY <1>2, <1>3, SeenThen DEF Request
<1>6. x \in Seen!Places
  BY RequestTypes, SeenIsTheBook
<1> HIDE DEF x
<1>7. Seen!Ask(Seen!Jump(x))
  BY <1>4, <1>5, SeenIsTheBook DEF Seen!Ask
<1> QED BY <1>6, <1>7 DEF Seen!Next, Seen!AskJump

LEMMA SectionLoadsSeen ==
  ASSUME PaginatorAssumption, NothingAssumption, Patient, Waits', NEW n \in Navigations, SectionLoads(n)
  PROVE  UNCHANGED Seen!reading
<1>1. /\ UNCHANGED from /\ nav'[n] # Nothing
      /\ \A m \in Navigations : m # n => nav[m] = Nothing /\ nav'[m] = Nothing
  BY SectionLoadsWaits
<1>2. nav[n] # Nothing /\ nav' = [nav EXCEPT ![n].stage = "frame"] /\ nav[n] \in Operation
  BY DEF SectionLoads, Patient, PageInv, TypeOK
<1>3. nav'[n] = [nav[n] EXCEPT !.stage = "frame"]
  BY <1>2 DEF Patient, PageInv, TypeOK
<1>4. Request(n)' = Request(n)
  BY <1>2, <1>3 DEF Request, Operation
<1>5. SeenPlace = from /\ SeenRequest = Request(n)
  BY <1>1, <1>2, SeenNow DEF Patient
<1>6. SeenPlace' = from' /\ SeenRequest' = Request(n)'
  BY <1>1, SeenThen
<1> QED BY <1>1, <1>4, <1>5, <1>6 DEF Seen!reading

LEMMA FrameLoadsSeen ==
  ASSUME PaginatorAssumption, NothingAssumption, Patient, Waits', NEW n \in Navigations, FrameLoads(n)
  PROVE  Seen!Next \/ UNCHANGED Seen!reading
<1>1. /\ nav[n] # Nothing /\ page' \in Text(nav[n].to) /\ nav[n].to \in Section
      /\ page' = Anchor(nav[n]) /\ Shown' = [sec |-> nav[n].to, page |-> Anchor(nav[n])]
  BY FrameShows
<1>2. /\ nav[n] \in Operation /\ \A m \in Navigations : m # n => nav[m] = Nothing
  BY <1>1, TheOne
<1>3. /\ nav' = [nav EXCEPT ![n] = IF @.kind = "turn" THEN [@ EXCEPT !.stage = "wait"] ELSE Nothing]
      /\ from' = from
  BY DEF FrameLoads
<1>4. /\ nav'[n] = IF nav[n].kind = "turn" THEN [nav[n] EXCEPT !.stage = "wait"] ELSE Nothing
      /\ \A m \in Navigations : m # n => nav'[m] = Nothing
  BY <1>2, <1>3 DEF Patient, PageInv, TypeOK
<1>5. SeenPlace = from /\ SeenRequest = Request(n)
  BY <1>1, <1>2, SeenNow DEF Patient
<1>6. CASE nav[n].kind = "turn"
  <2>1. nav'[n] \in Operation /\ nav'[n].kind = "turn" /\ nav'[n].dir = nav[n].dir
    BY <1>2, <1>4, <1>6 DEF Operation
  <2>2. nav'[n] # Nothing
    BY <2>1 DEF NothingAssumption
  <2>3. SeenPlace' = from' /\ SeenRequest' = Request(n)'
    BY <1>4, <2>2, SeenThen
  <2>4. Request(n)' = Request(n)
    BY <1>6, <2>1 DEF Request
  <2> QED BY <1>3, <1>5, <2>3, <2>4 DEF Seen!reading
<1>7. CASE nav[n].kind # "turn"
  <2>1. ~Busy'
    BY <1>4, <1>7 DEF Busy
  <2>2. SeenPlace' = Shown' /\ SeenRequest' = Nothing
    BY <2>1, SeenThen
  <2>3. StageIs(n, nav[n])
    BY <1>1, TheOne
  <2>4. nav[n].kind = "jump"
    BY <1>7, <2>3 DEF StageIs
  <2>5. Anchor(nav[n]) = nav[n].at
    BY <2>4 DEF Anchor
  <2>6. SeenRequest = [jump |-> Shown'] /\ SeenRequest # Nothing
    BY <1>1, <1>5, <2>4, <2>5, RequestTypes DEF Request
  <2>7. Seen!Answer
    BY <2>2, <2>6 DEF Seen!Answer
  <2> QED BY <2>7 DEF Seen!Next
<1> QED BY <1>6, <1>7

LEMMA WaitEndsSeen ==
  ASSUME PaginatorAssumption, NothingAssumption, Patient, Waits', NEW n \in Navigations, WaitEnds(n)
  PROVE  Seen!Next
<1>1. /\ \A m \in Navigations : nav'[m] = Nothing
      /\ Turned(nav[n]) /\ UNCHANGED <<view, page, from>> /\ nav[n] # Nothing
  BY WaitEndsWaits DEF WaitEnds
<1>2. /\ nav[n] \in Operation /\ GoesTo(nav[n]) /\ \A m \in Navigations : m # n => nav[m] = Nothing
  BY <1>1, TheOne
<1>3. nav[n].kind = "turn" /\ nav[n].dir \in {1, -1} /\ Shown = Beside(from, nav[n].dir)
  BY <1>1, <1>2 DEF Turned, GoesTo
<1>4. SeenPlace = from /\ SeenRequest = [turn |-> nav[n].dir]
  BY <1>1, <1>2, <1>3, SeenNow DEF Patient, Request
<1>5. SeenPlace' = Shown' /\ SeenRequest' = Nothing
  BY <1>1, SeenThen DEF Busy
<1>6. Shown' = Shown
  BY <1>1 DEF Shown
<1>7. SeenRequest # Nothing
  BY <1>3, <1>4, RequestTypes
<1>8. SeenPlace' = Seen!Beside(SeenPlace, SeenRequest.turn) /\ "jump" \notin DOMAIN SeenRequest
  BY <1>3, <1>4, <1>5, <1>6, SeenIsTheBook
<1>9. Seen!Answer
  BY <1>5, <1>7, <1>8 DEF Seen!Answer
<1> QED BY <1>9 DEF Seen!Next

LEMMA JumpInSectionSeen ==
  ASSUME PaginatorAssumption, NothingAssumption, Patient, Waits', JumpInSection
  PROVE  Seen!Next
<1>1. ~Busy /\ opened /\ UNCHANGED <<view, nav, from>> /\ page' \in Text(view.sec)
  BY JumpInSectionWaits
<1>2. view \in View /\ view # Nothing /\ Shown = [sec |-> view.sec, page |-> page] /\ Shown \in Place
  BY <1>1, ShownAtRest
<1>3. Shown' = [sec |-> view.sec, page |-> page'] /\ ~Busy'
  BY <1>1, <1>2 DEF Shown, Busy
<1>4. SeenPlace = Shown /\ SeenRequest = Nothing /\ SeenPlace' = Shown' /\ SeenRequest' = Nothing
  BY <1>1, <1>3, SeenNow, SeenThen DEF Patient
<1>5. Shown' \in Places /\ Shown # Nothing /\ Shown'.sec = Shown.sec
  BY <1>1, <1>2, <1>3, RequestTypes DEF View, NothingAssumption
<1>6. Seen!JumpNear
  BY <1>4, <1>5, SeenIsTheBook DEF Seen!JumpNear
<1> QED BY <1>6 DEF Seen!Next

LEMMA NextSeen ==
  ASSUME PaginatorAssumption, NothingAssumption, PageInv, PositionFollows, PatientInv, [Next]_vars
  PROVE  [Seen!Next]_Seen!reading
<1>1. env' = env
  BY Zenon DEF Next, TurnInSection, TurnAtEnd, TurnToSection, TurnFails, Swipe, Jumps, OpenSaved,
     GoToSection, SectionLoads, SectionIsEmpty, SectionFails, FirstSectionFails, FrameLoads,
     WaitEnds, JumpInSection, GoToPage, OpenNowhere, vars
<1>2. Waits' = Waits
  BY <1>1 DEF Waits
<1>3. CASE ~Waits
  BY <1>2, <1>3 DEF SeenPlace, SeenRequest, Seen!reading
<1>4. CASE Waits
  <2>1. WholeBook
    BY <1>4, Zenon DEF Waits, WholeBook
  <2>2. Patient /\ Waits'
    BY <1>2, <1>4, <2>1 DEF Patient, PatientInv, PositionFollows
  <2>3. ASSUME NEW n \in Navigations, NEW dir \in {1, -1},
               \/ TurnInSection(n, dir) \/ TurnAtEnd(n, dir) \/ TurnToSection(n, dir)
               \/ TurnFails(n, dir) \/ Swipe(n, dir)
        PROVE  Seen!Next
    <3>1. ~Swipe(n, dir) /\ ~TurnFails(n, dir)
      BY <1>4, <2>2, PatientAsks, TurnFailsWaits, Zenon
    <3>2. ~Busy /\ opened
      BY <1>4, <2>3, <3>1, PatientAsks, Zenon DEF TurnInSection, TurnAtEnd, TurnToSection
    <3>3. AdjacentIndex(dir) # Nothing => AdjacentIndex(dir) \in Section
      BY AdjacentTypes DEF PageInv, TypeOK
    <3>4. PICK op \in Operation : Began(n, op) /\ op.kind = "turn" /\ op.dir = dir
      <4>1. CASE TurnInSection(n, dir) \/ TurnAtEnd(n, dir)
        BY <4>1, TurnTypes DEF TurnInSection, TurnAtEnd, PageInv, Navigation
      <4>2. CASE TurnToSection(n, dir)
        BY <4>2, <3>3, TurnTypes DEF TurnToSection, PageInv, Navigation
      <4> QED BY <2>3, <3>1, <4>1, <4>2
    <3> QED BY <2>2, <3>2, <3>4, TurnIsAsked
  <2>4. ASSUME NEW n \in Navigations,
               \/ Jumps(n) \/ OpenSaved(n)
               \/ SectionLoads(n) \/ SectionIsEmpty(n) \/ SectionFails(n) \/ FirstSectionFails(n)
               \/ FrameLoads(n) \/ WaitEnds(n)
        PROVE  Seen!Next \/ UNCHANGED Seen!reading
    <3>1. CASE Jumps(n)
      <4>1. ~Busy
        BY <1>4, <3>1, PatientAsks DEF Jumps
      <4> QED BY <2>2, <3>1, <4>1, JumpIsAsked DEF Jumps
    <3>2. CASE OpenSaved(n)
      <4>1. ~Busy
        BY <2>2, <3>2 DEF OpenSaved, Busy, Patient, WaitInv, UnderWay
      <4> QED BY <2>2, <3>2, <4>1, JumpIsAsked DEF OpenSaved
    <3>3. CASE SectionLoads(n) \/ FrameLoads(n) \/ WaitEnds(n)
      BY <2>2, <3>3, SectionLoadsSeen, FrameLoadsSeen, WaitEndsSeen
    <3> QED BY <1>4, <2>4, <3>1, <3>2, <3>3, PatientAsks
  <2>5. CASE JumpInSection \/ OpenNowhere
    BY <1>4, <2>2, <2>5, LockIsFree, JumpInSectionSeen
  <2>6. CASE UNCHANGED vars
    BY <1>2, <2>6 DEF vars, SeenPlace, SeenRequest, Seen!reading, Busy, Shown, Request
  <2> QED BY <2>3, <2>4, <2>5, <2>6 DEF Next
<1> QED BY <1>3, <1>4

\* A reader who waits for every page sees PageOrder: turns and jumps, one after the other, each
\* with the page it should lead to (#turnPage, #goTo, #display, and #adjacentIndex over the
\* sections that are not linear).  That each of them ends is left to TLC.
THEOREM ReaderSeesPages == Spec => Seen!Safety
<1>1. Init => PageInv /\ PositionFollows /\ PatientInv
  BY InitPage, InitWaits, PaginatorAssumption
<1>2. PageInv /\ PositionFollows /\ PatientInv /\ [Next]_vars => (PageInv /\ PositionFollows /\ PatientInv)'
  BY NextPage, NextShows, NextWaits, PaginatorAssumption, NothingAssumption
<1>3. Init => Seen!Init
  BY DEF Init, Seen!Init, SeenPlace, SeenRequest, Busy, Shown
<1>4. PageInv /\ PositionFollows /\ PatientInv /\ [Next]_vars => [Seen!Next]_Seen!reading
  BY NextSeen, PaginatorAssumption, NothingAssumption
<1> QED BY <1>1, <1>2, <1>3, <1>4, PTL DEF Spec, Seen!Safety
=============================================================================
