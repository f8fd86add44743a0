------------------------------ MODULE Paginator ------------------------------
(* The pages of a book on the screen: static/lib/foliate/paginator.js as the  *)
(* reader (static/js/reader.js) drives it through view.js.  A section of the  *)
(* book is loaded, then an iframe shows it; its P pages of text lie between   *)
(* an empty page 0 and an empty page P + 1, and reaching one of these goes on *)
(* to the adjacent section.  A key, the wheel and a click turn the page under *)
(* a lock; a link, the table of contents and the slider jump; a swipe snaps.  *)
(* Every wait (for the section, for the iframe, for 100 ms) is a step, so     *)
(* navigations overlap as they do in the browser.                             *)
(*                                                                            *)
(* The flow is paginated and not animated, as the reader leaves it, and the   *)
(* layout does not change while a section is shown.                           *)
EXTENDS BookPages, FiniteSets

CONSTANTS
  Navigations,  \* the navigations that can be under way
  MaxJumps,     \* bound: navigations that are started
  Envs          \* the environments of this instance

\* What may happen beside turns and jumps that wait for each other.
Events == {"early keys", "lost position", "impatient reader", "swipes", "broken section",
           "empty section"}

Index == Section \union {-1, Nothing}
Place == [sec : Section, page : Nat]
View == [sec : Section, ready : BOOLEAN, nav : Navigations]
Operation == [kind : {"turn", "jump", "snap"}, dir : {-1, 0, 1}, stage : {"load", "frame", "wait"},
              to : Section \union {Nothing}, at : Int \union {Nothing}, old : Index]

ASSUME PaginatorAssumption ==
  /\ \A s \in Section : s \in Nat /\ Pages[s] \in Nat \ {0}
  /\ NonLinear \subseteq Section /\ MaxJumps \in Nat
  /\ Envs \subseteq SUBSET Events

\* Nothing is no section, no place, no view and nothing that is under way.
ASSUME NothingAssumption ==
  /\ Nothing \notin Section \union {-1} /\ Nothing \notin Place
  /\ Nothing \notin View /\ Nothing \notin Operation
  /\ Nothing \notin [turn : {1, -1}] /\ Nothing \notin [jump : Place]

VARIABLES
  env,      \* the environment
  opened,   \* the reader has gone to the saved position
  index,    \* #index: -1 at first, Nothing (undefined) after a section failed to load
  view,     \* #view: its section, whether its iframe has loaded, who made it
  page,     \* the page of the view at which the container is scrolled
  locked,   \* #locked
  nav,      \* the navigations under way
  from,     \* the place on the screen when the last navigation started
  loaded,   \* the sections loaded and not unloaded
  pos,      \* the position the reader records
  started   \* the number of navigations started

vars == <<env, opened, index, view, page, locked, nav, from, loaded, pos, started>>

Init ==
  /\ env \in Envs /\ opened = FALSE
  /\ index = -1 /\ view = Nothing /\ page = 0 /\ locked = FALSE
  /\ nav = [n \in Navigations |-> Nothing]
  /\ from = Nothing /\ loaded = {} /\ pos = Nothing /\ started = 0

Shown == IF view = Nothing THEN Nothing ELSE [sec |-> view.sec, page |-> page]
Text(s) == 1 .. Pages[s]
Reachable(s) == 0 .. Pages[s] + 1  \* the container scrolls no further than the empty pages
Busy == \E n \in Navigations : nav[n] # Nothing

\* #adjacentIndex, #canGoToIndex.  No section is adjacent to an undefined index.
AdjacentIndex(dir) == IF index = Nothing THEN Nothing ELSE Adjacent(index, dir)

\* The page of the visible range: where nothing is visible, on an empty page or before the
\* iframe has loaded, the range is at the start of the body.
VisiblePage(v, p) == IF v.ready /\ p \in Text(v.sec) THEN p ELSE 1

\* #afterScroll and #onRelocate.  Without an index view.js fails before it tells the reader.
Relocate(i, v, p) ==
  pos' = IF i = Nothing THEN pos ELSE [sec |-> i, page |-> VisiblePage(v, p)]

Navigation(kind, dir, to, at) ==
  [kind |-> kind, dir |-> dir, stage |-> "load", to |-> to, at |-> at, old |-> index]

Began(n, op) == nav' = [nav EXCEPT ![n] = op] /\ started' = started + 1 /\ from' = Shown

Free(n) ==
  /\ nav[n] = Nothing /\ started < MaxJumps
  /\ n = CHOOSE m \in Navigations : nav[m] = Nothing

-----------------------------------------------------------------------------
(* Turning the page. *)

MayTurn ==
  /\ opened \/ "early keys" \in env
  /\ Busy => "impatient reader" \in env

\* #scrollPrev and #scrollNext inside the section: the lock is kept for 100 ms.
TurnInSection(n, dir) ==
  /\ Free(n) /\ MayTurn /\ ~locked /\ view # Nothing /\ view.ready
  /\ page + dir \in Text(view.sec)
  /\ locked' = TRUE /\ page' = page + dir
  /\ Relocate(index, view, page')
  /\ Began(n, [Navigation("turn", dir, Nothing, Nothing) EXCEPT !.stage = "wait"])
  /\ UNCHANGED <<env, opened, index, view, loaded>>

\* atStart and atEnd: nothing to turn to.
TurnAtEnd(n, dir) ==
  /\ Free(n) /\ MayTurn /\ ~locked /\ view # Nothing /\ AdjacentIndex(dir) = Nothing
  /\ view.ready => page + dir \notin Text(view.sec)
  /\ locked' = TRUE
  /\ Began(n, [Navigation("turn", dir, Nothing, Nothing) EXCEPT !.stage = "wait"])
  /\ UNCHANGED <<env, opened, index, view, page, loaded, pos>>

\* The empty page is reached, or there is no view: #goTo the adjacent section.  A view
\* whose iframe has not loaded has one page, and cannot be scrolled.
TurnToSection(n, dir) ==
  /\ Free(n) /\ MayTurn /\ ~locked /\ AdjacentIndex(dir) # Nothing
  /\ (view # Nothing /\ view.ready) => page + dir \notin Text(view.sec)
  /\ locked' = TRUE
  /\ IF view = Nothing THEN UNCHANGED <<page, pos>>
     ELSE /\ page' = IF view.ready /\ page + dir \in Reachable(view.sec) THEN page + dir ELSE page
          /\ Relocate(index, view, page')
  /\ Began(n, Navigation("turn", dir, AdjacentIndex(dir), dir))
  /\ UNCHANGED <<env, opened, index, view, loaded>>

\* There is neither a view nor an adjacent section: #goTo fails and the lock stays.
TurnFails(n, dir) ==
  /\ Free(n) /\ MayTurn /\ ~locked /\ view = Nothing /\ AdjacentIndex(dir) = Nothing
  /\ locked' = TRUE /\ started' = started + 1
  /\ UNCHANGED <<env, opened, index, view, page, nav, from, loaded, pos>>

\* wait(100)
WaitEnds(n) ==
  /\ nav[n] # Nothing /\ nav[n].stage = "wait"
  /\ locked' = FALSE
  /\ nav' = [nav EXCEPT ![n] = Nothing]
  /\ UNCHANGED <<env, opened, index, view, page, from, loaded, pos, started>>

-----------------------------------------------------------------------------
(* Jumping: view.goTo, view.goToFraction, and view.init for the saved position. *)

MayJump ==
  /\ ~locked
  /\ opened /\ (Busy => "impatient reader" \in env)

\* Another section.
GoToSection(n, s, p) ==
  /\ Free(n) /\ ~locked /\ s # index
  /\ Began(n, Navigation("jump", 0, s, p))
  /\ UNCHANGED <<env, index, view, page, locked, loaded, pos>>

\* The section that is displayed: the view scrolls at once.  The anchor is not found in a
\* view of another section, nor in one whose iframe has not loaded.
GoToPage(s, p) ==
  /\ s = index /\ view # Nothing /\ started < MaxJumps
  /\ page' = IF ~view.ready THEN page ELSE IF view.sec = s THEN p ELSE 1
  /\ Relocate(index, view, page')
  /\ started' = started + 1
  /\ UNCHANGED <<env, opened, index, view, locked, nav, from, loaded>>

Jumps(n) ==
  /\ MayJump /\ UNCHANGED opened
  /\ \E s \in Section : \E p \in Text(s) : GoToSection(n, s, p)

JumpInSection == MayJump /\ \E s \in Section : \E p \in Text(s) : GoToPage(s, p)

\* The reader goes to the saved position...
OpenSaved(n) ==
  /\ ~opened /\ opened' = TRUE
  /\ \E s \in Section : \E p \in Text(s) : GoToSection(n, s, p)

\* ... which may be in no section of the book; or goTo finds the lock taken by an early key.
\* Then nothing is shown.
OpenNowhere ==
  /\ "lost position" \in env \/ locked
  /\ ~opened /\ opened' = TRUE
  /\ UNCHANGED <<env, index, view, page, locked, nav, from, loaded, pos, started>>

\* snap, when the finger leaves the screen: the lock is not asked.
Swipe(n, dir) ==
  /\ "swipes" \in env /\ Free(n) /\ view # Nothing /\ view.ready
  /\ page + dir \in Reachable(view.sec)
  /\ AdjacentIndex(dir) = Nothing => page + dir \in Text(view.sec)
  /\ page' = page + dir
  /\ Relocate(index, view, page')
  /\ LET over == IF page' < 1 THEN -1 ELSE IF page' > Pages[view.sec] THEN 1 ELSE 0 IN
     IF over # 0 /\ AdjacentIndex(over) # Nothing
     THEN Began(n, Navigation("snap", over, AdjacentIndex(over), over))
     ELSE started' = started + 1 /\ UNCHANGED <<nav, from>>
  /\ UNCHANGED <<env, opened, index, view, locked, loaded>>

-----------------------------------------------------------------------------
(* The display of a section: #goTo and #display. *)

\* The section is loaded: its view replaces the one before, which never loads any more if
\* its iframe has not loaded yet.
SectionLoads(n) ==
  /\ nav[n] # Nothing /\ nav[n].stage = "load"
  /\ index' = nav[n].to
  /\ view' = [sec |-> nav[n].to, ready |-> FALSE, nav |-> n]
  /\ page' = 0
  /\ loaded' = loaded \union {nav[n].to}
  /\ nav' = [nav EXCEPT ![n].stage = "frame"]
  /\ UNCHANGED <<env, opened, locked, from, pos, started>>

\* The section has no text (its file is missing): the index changes, the view does not,
\* and scrolls to the anchor.
SectionIsEmpty(n) ==
  /\ "empty section" \in env /\ nav[n] # Nothing /\ nav[n].stage = "load" /\ view # Nothing
  /\ index' = nav[n].to
  /\ page' = IF ~view.ready THEN page
             ELSE IF nav[n].kind = "jump" \/ nav[n].dir = 1 THEN 1 ELSE Pages[view.sec]
  /\ Relocate(index', view, page')
  /\ nav' = [nav EXCEPT ![n] = IF @.kind = "turn" THEN [@ EXCEPT !.stage = "wait"] ELSE Nothing]
  /\ UNCHANGED <<env, opened, view, locked, from, loaded, started>>

\* Mutant of SectionFails: the failure is not caught, and the lock stays.
SectionFailsUncaught(n) ==
  /\ "broken section" \in env /\ nav[n] # Nothing /\ nav[n].stage = "load" /\ view # Nothing
  /\ index' = Nothing
  /\ nav' = [nav EXCEPT ![n] = Nothing]
  /\ UNCHANGED <<env, opened, view, page, locked, from, loaded, pos, started>>

\* The section cannot be loaded: the index becomes undefined and the view scrolls to its
\* start.
SectionFails(n) ==
  /\ "broken section" \in env /\ nav[n] # Nothing /\ nav[n].stage = "load" /\ view # Nothing
  /\ index' = Nothing
  /\ page' = IF view.ready THEN 1 ELSE page
  /\ nav' = [nav EXCEPT ![n] = IF @.kind = "turn" THEN [@ EXCEPT !.stage = "wait"] ELSE Nothing]
  /\ UNCHANGED <<env, opened, view, locked, from, loaded, pos, started>>

\* Without a view there is nothing to scroll: the navigation fails, and a turn keeps the lock.
FirstSectionFails(n) ==
  /\ env \cap {"broken section", "empty section"} # {}
  /\ nav[n] # Nothing /\ nav[n].stage = "load" /\ view = Nothing
  /\ index' = IF "broken section" \in env THEN Nothing ELSE nav[n].to
  /\ nav' = [nav EXCEPT ![n] = Nothing]
  /\ UNCHANGED <<env, opened, view, page, locked, from, loaded, pos, started>>

\* Mutant of Anchor: turning back goes to the first page of the section before.
AnchorFirst(op) == IF op.kind = "jump" THEN op.at ELSE 1

\* The page at which a navigation ends: the place of a jump, the first or last page.
Anchor(op) == IF op.kind = "jump" THEN op.at ELSE IF op.dir = 1 THEN 1 ELSE Pages[op.to]

\* Mutant of FrameLoads: the section of the current index is unloaded.
FrameLoadsUnloadsIndex(n) ==
  /\ nav[n] # Nothing /\ nav[n].stage = "frame" /\ view.nav = n /\ ~view.ready
  /\ view' = [view EXCEPT !.ready = TRUE]
  /\ page' = Anchor(nav[n])
  /\ loaded' = loaded \ {index}
  /\ Relocate(index, view', page')
  /\ nav' = [nav EXCEPT ![n] = IF @.kind = "turn" THEN [@ EXCEPT !.stage = "wait"] ELSE Nothing]
  /\ UNCHANGED <<env, opened, index, locked, from, started>>

\* Mutant of FrameLoads: the position is recorded before the view scrolls.
FrameLoadsRecordsEarly(n) ==
  /\ nav[n] # Nothing /\ nav[n].stage = "frame" /\ view.nav = n /\ ~view.ready
  /\ view' = [view EXCEPT !.ready = TRUE]
  /\ page' = Anchor(nav[n])
  /\ loaded' = loaded \ {nav[n].old}
  /\ Relocate(index, view', page)
  /\ nav' = [nav EXCEPT ![n] = IF @.kind = "turn" THEN [@ EXCEPT !.stage = "wait"] ELSE Nothing]
  /\ UNCHANGED <<env, opened, index, locked, from, started>>

\* The iframe loads: the section shown before is unloaded, and the view scrolls.
FrameLoads(n) ==
  /\ nav[n] # Nothing /\ nav[n].stage = "frame" /\ view.nav = n /\ ~view.ready
  /\ view' = [view EXCEPT !.ready = TRUE]
  /\ page' = Anchor(nav[n])
  /\ loaded' = loaded \ {nav[n].old}
  /\ Relocate(index, view', page')
  /\ nav' = [nav EXCEPT ![n] = IF @.kind = "turn" THEN [@ EXCEPT !.stage = "wait"] ELSE Nothing]
  /\ UNCHANGED <<env, opened, index, locked, from, started>>

-----------------------------------------------------------------------------

Next ==
  \/ \E n \in Navigations :
       \/ \E dir \in {1, -1} : \/ TurnInSection(n, dir) \/ TurnAtEnd(n, dir)
                               \/ TurnToSection(n, dir) \/ TurnFails(n, dir) \/ Swipe(n, dir)
       \/ Jumps(n) \/ OpenSaved(n)
       \/ SectionLoads(n) \/ SectionIsEmpty(n) \/ SectionFails(n) \/ FirstSectionFails(n)
       \/ FrameLoads(n) \/ WaitEnds(n)
  \/ JumpInSection \/ OpenNowhere

\* The book is read from memory, iframes load and timers fire, unless the iframe is gone.
Goes(n) == SectionLoads(n) \/ SectionIsEmpty(n) \/ SectionFails(n) \/ FirstSectionFails(n)
           \/ FrameLoads(n) \/ WaitEnds(n)

Spec == Init /\ [][Next]_vars /\ \A n \in Navigations : WF_vars(Goes(n))

-----------------------------------------------------------------------------
(* Properties *)

TypeOK ==
  /\ env \in Envs /\ opened \in BOOLEAN /\ locked \in BOOLEAN
  /\ index \in Index /\ view \in View \union {Nothing}
  /\ IF view = Nothing THEN page = 0 ELSE page \in Reachable(view.sec)
  /\ nav \in [Navigations -> Operation \union {Nothing}]
  /\ from \in Place \union {Nothing} /\ pos \in Place \union {Nothing}
  /\ loaded \subseteq Section /\ started \in 0 .. MaxJumps

\* A reader who waits for every page sees PageOrder: turns go one page on or back, over
\* the ends of the sections and past those that are not linear, jumps arrive where they
\* were sent, and every one of them ends.
Waits == env = {}
Request(n) == IF nav[n].kind = "turn" THEN [turn |-> nav[n].dir]
              ELSE [jump |-> [sec |-> nav[n].to, page |-> nav[n].at]]
SeenPlace == IF ~Waits THEN Nothing ELSE IF Busy THEN from ELSE Shown
SeenRequest == IF ~Waits \/ ~Busy THEN Nothing
               ELSE Request(CHOOSE n \in Navigations : nav[n] # Nothing)
Seen == INSTANCE PageOrder WITH place <- SeenPlace, request <- SeenRequest
ReaderSeesPageOrder == Seen!Spec

\* When no navigation is under way and a page of text is on the screen, the position that
\* is recorded is that page, however navigations overlapped; unless a section had no text
\* or could not be loaded: then what is shown is not what the index says.
SettledPositionIsShown ==
  /\ env \cap {"broken section", "empty section"} = {}
  /\ ~Busy /\ view # Nothing /\ page \in Text(view.sec)
  => pos = Shown

\* The section on the screen is loaded, and with a reader who waits the others are
\* unloaded by the time the navigation ends.
OnlyShownIsLoaded ==
  Waits /\ view # Nothing =>
    /\ view.sec \in loaded
    /\ ~Busy => loaded = {view.sec}

\* The lock is released, unless a jump or a swipe crosses the turn or there is no view.
TurnEnds ==
  \A n \in Navigations :
    (/\ env \cap {"impatient reader", "swipes"} = {}
     /\ locked /\ nav[n] # Nothing /\ view # Nothing) ~> ~locked

=============================================================================
